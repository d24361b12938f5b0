---------------------------- MODULE ClientProofs ----------------------------
(***************************************************************************)
(* Three parts of the client SDK, for any constants.                       *)
(*                                                                         *)
(* The synchronisation of messages: no notification is passed over, the    *)
(* newest message of a chat is stored or named as lost, and what is on its *)
(* way to the goroutine of the conversations is new.  The three hold each  *)
(* other up.  That no notification is passed over when the process starts  *)
(* again from the seq it stored needs the queue to be in increasing order; *)
(* that the queue is needs every range that is still to be pulled to begin *)
(* above all that was handed on; and that no range is handed on twice      *)
(* needs the batches of a synchronisation to be apart.                     *)
(*                                                                         *)
(* The list of friends: its version tells the truth of the client's        *)
(* database, as long as no two synchronisations get in each other's way.   *)
(* An answer tells the truth of every friend that has not been changed     *)
(* since the log was read; the database of the client is what its version  *)
(* says, except while everything is being sent to it again.                *)
(*                                                                         *)
(* The long connection: its types, and that what the client knows of the   *)
(* online status of users is true whenever nothing is under way.  At any   *)
(* time the truth is on its way: in the hand of a call, in a message that  *)
(* subscribes, in the gateway's answer, or, for a user whose changes the   *)
(* gateway sends, in the last frame about it.                              *)
(***************************************************************************)
EXTENDS MCClient, TLAPS, WellFoundedInduction, FiniteSetTheorems

-----------------------------------------------------------------------------
(* The synchronisation of messages. *)

Seqs == 1..LastSeq

(* What a number of a conversation that has been synchronised became. *)
Carried == handled \cup handling \cup lost
Kept == local \cup lost

(* The numbers of the client never run ahead of the server's.              *)
NumbersInOrder ==
  /\ \A c \in Convs : synced[c] =< told[c] /\ pushed[c] =< told[c]
  /\ \A i \in DOMAIN inbox :
       inbox[i].type = "push" => inbox[i].seq =< told[inbox[i].conv]
  /\ \A n \in Notices : noticeSeq[n] =< synced[n]
  /\ \A c \in Chats, s \in Seqs : <<c, s>> \in local => s =< synced[c]

(* Every command in the queue is above what is stored and what is ahead of  *)
(* it, and not above what counts as synchronised.                           *)
QueueInOrder ==
  \A i \in DOMAIN work : \A c \in Convs, s \in Seqs :
    <<c, s>> \in Pairs(work[i]) =>
      /\ s =< synced[c]
      /\ c \in Chats => \A t \in Seqs : <<c, t>> \in local => t < s
      /\ c \in Notices => noticeSeq[c] < s \/ s =< base[c]
      /\ \A j \in 1 .. i - 1 : \A t \in Seqs :
           <<c, t>> \in Pairs(work[j]) => t < s

(* The conversations whose ranges are still to be pulled. *)
ToPull == CASE phase = "pull" -> tail \cup UNION batches
            [] phase = "reinstall" -> UNION batches
            [] OTHER -> {}

(* A range to be pulled begins above all that was handed on or stored, and  *)
(* where batch follows batch just after what counts as synchronised.        *)
RangesAreNew ==
  \A c \in ToPull :
    /\ c \in DOMAIN need /\ need[c][1] =< need[c][2]
    /\ phase = "pull" => need[c][1] = synced[c] + 1
    /\ \A s \in Seqs : <<c, s>> \in local \cup Queued => s < need[c][1]

(* No conversation is in two batches.  A new installation pulls chats only, *)
(* and its last batch is the one that marks them all.                       *)
BatchesApart ==
  /\ \A c \in DOMAIN need : need[c][2] =< told[c]
  /\ \A B, C \in batches : B # C => B \cap C = {}
  /\ phase = "pull" => \A B \in batches : B \cap tail = {}
  /\ phase = "reinstall" =>
       \A c \in DOMAIN need : c \in Chats /\ synced[c] =< need[c][2]

(* The stored seq of notifications passes over none. *)
NothingSkippedByStore ==
  \A n \in Notices, s \in Seqs :
    base[n] < s /\ s =< noticeSeq[n] => <<n, s>> \in Carried

NothingSkipped ==
  \A n \in Notices, s \in Seqs :
    base[n] < s /\ s =< synced[n] => <<n, s>> \in Carried \cup Queued

Reached(c, s) == s = 0 \/ <<c, s>> \in Kept \cup Queued

(* While a new installation pulls, the last batch marks chats whose own     *)
(* batch is still to come, and a batch that failed leaves its chats.        *)
LatestReached ==
  \A c \in Chats :
    IF phase = "reinstall" /\ c \in DOMAIN need
    THEN IF c \in UNION batches
         THEN synced[c] = need[c][2] \/ Reached(c, synced[c])
         ELSE Reached(c, need[c][2]) /\ Reached(c, synced[c])
    ELSE Reached(c, synced[c])

SyncerInv ==
  /\ SyncerTypeOK /\ NumbersInOrder /\ QueueInOrder /\ RangesAreNew
  /\ BatchesApart /\ NothingSkippedByStore /\ NothingSkipped /\ LatestReached

-----------------------------------------------------------------------------
(* One element more at the end of a sequence. *)
LEMMA OneMore ==
    ASSUME NEW S, NEW q \in Seq(S), NEW e \in S
    PROVE  /\ q \o <<e>> \in Seq(S) /\ Len(q \o <<e>>) = Len(q) + 1
           /\ DOMAIN (q \o <<e>>) = 1 .. Len(q) + 1
           /\ (q \o <<e>>)[Len(q) + 1] = e
           /\ \A i \in 1 .. Len(q) : (q \o <<e>>)[i] = q[i]
           /\ Append(q, e) \in Seq(S) /\ Len(Append(q, e)) = Len(q) + 1
<1>1. <<e>> \in Seq(S) /\ Len(<<e>>) = 1 /\ <<e>>[1] = e /\ Len(q) \in Nat
  OBVIOUS
<1>2. q \o <<e>> \in Seq(S) /\ Len(q \o <<e>>) = Len(q) + 1
  BY <1>1
<1>3. DOMAIN (q \o <<e>>) = 1 .. Len(q) + 1
  BY <1>2
<1>4. (q \o <<e>>)[Len(q) + 1] = e
  BY <1>1
<1>5. \A i \in 1 .. Len(q) : (q \o <<e>>)[i] = q[i]
  BY <1>1
<1>6. Append(q, e) \in Seq(S) /\ Len(Append(q, e)) = Len(q) + 1
  OBVIOUS
<1>7. QED  BY <1>2, <1>3, <1>4, <1>5, <1>6

(* A bounded set of numbers has a greatest one. *)
LEMMA GreatestOf ==
    ASSUME NEW n \in Nat, NEW S \in SUBSET (0..n), S # {}
    PROVE  Max(S) \in S /\ \A y \in S : y =< Max(S)
<1> DEFINE U == {u \in Nat : \A y \in S : y =< u}
<1>1. n \in U
  OBVIOUS
<1>2. PICK x \in U : \A y \in U : ~ (<<y, x>> \in OpToRel(<, Nat))
  BY <1>1, NatLessThanWellFounded, WFMin
<1>3. x \in Nat /\ \A y \in S : y =< x
  OBVIOUS
<1>4. ASSUME x \notin S
      PROVE  FALSE
  <2>1. \A y \in S : y =< x - 1
    BY <1>3, <1>4
  <2>2. x - 1 \in Nat
    <3>1. PICK y \in S : TRUE
      OBVIOUS
    <3>2. y \in Nat /\ y =< x - 1
      BY <2>1
    <3>3. QED  BY <1>3, <3>2
  <2>3. x - 1 \in U
    BY <2>1, <2>2
  <2>4. <<x - 1, x>> \in OpToRel(<, Nat)
    BY <1>3, <2>2 DEF OpToRel
  <2>5. QED  BY <1>2, <2>3, <2>4
<1>5. x \in S /\ \A y \in S : x >= y
  BY <1>3, <1>4
<1>6. Max(S) \in S /\ \A y \in S : Max(S) >= y
  BY <1>5 DEF Max
<1>7. QED  BY <1>6

(* The types, variable by variable. *)
LEMMA SyncerTypes ==
    ASSUME SyncerTypeOK
    PROVE  /\ told \in [Convs -> 0..LastSeq] /\ written \in [Convs -> 0..LastSeq]
           /\ pushed \in [Convs -> 0..LastSeq] /\ synced \in [Convs -> 0..LastSeq]
           /\ base \in [Convs -> 0..LastSeq]
           /\ online \in BOOLEAN /\ reinstalled \in BOOLEAN
           /\ syncing \in BOOLEAN /\ owed \in BOOLEAN
BY DEF SyncerTypeOK

(* What a start finds: of a chat the greatest stored number. *)
LEMMA StoredIs ==
    ASSUME SyncerTypeOK, NEW c \in Chats
    PROVE  /\ Stored(c) \in 0..LastSeq
           /\ Stored(c) = 0 \/ <<c, Stored(c)>> \in local
           /\ \A s \in Seqs : <<c, s>> \in local => s =< Stored(c)
<1> DEFINE S == {0} \cup {s \in 1..LastSeq : <<c, s>> \in local}
<1>1. S \in SUBSET (0..LastSeq) /\ S # {} /\ LastSeq \in Nat
  BY SyncerAssumption
<1>2. Max(S) \in S /\ \A y \in S : y =< Max(S)
  <2> HIDE DEF S
  <2>1. QED  BY <1>1, GreatestOf
<1>3. Stored(c) = Max(S)
  BY SyncerAssumption DEF Stored
<1>4. QED  BY <1>1, <1>2, <1>3 DEF Seqs

(* Of the notification conversations it is the seq in the database. *)
LEMMA StoredNotice ==
    ASSUME NEW n \in Notices
    PROVE  Stored(n) = noticeSeq[n]
BY DEF Stored

(* An answer holds only numbers of the range, the last of them always, and *)
(* of a notification conversation all.                                     *)
LEMMA AnswerIs ==
    ASSUME SyncerTypeOK, NEW c \in Convs, need[c] \in Seqs \X Seqs,
           need[c][1] =< need[c][2]
    PROVE  /\ Answer(c) \subseteq Seqs
           /\ \A s \in Answer(c) : need[c][1] =< s /\ s =< need[c][2]
           /\ need[c][2] \in Answer(c)
           /\ c \in Notices => Answer(c) = need[c][1] .. need[c][2]
<1>1. pullNum \in Nat /\ pullNum >= 1 /\ LastSeq \in Nat
  <2>1. pullNum \in {ConnectPull, DefaultPull}
    BY DEF SyncerTypeOK
  <2>2. pullNum \in Nat \ {0} /\ LastSeq \in Nat
    BY <2>1, SyncerAssumption
  <2>3. QED  BY <2>2
<1>2. need[c][1] \in Seqs /\ need[c][2] \in Seqs
  OBVIOUS
<1>3. c \in Notices => c \notin Chats
  BY SyncerAssumption
<1>4. CASE c \in Chats /\ need[c][2] - need[c][1] + 1 > pullNum
  <2>1. Answer(c) = (need[c][2] - pullNum + 1) .. need[c][2]
    BY <1>4 DEF Answer
  <2>2. QED  BY <1>1, <1>2, <1>3, <1>4, <2>1 DEF Seqs
<1>5. CASE ~ (c \in Chats /\ need[c][2] - need[c][1] + 1 > pullNum)
  <2>1. Answer(c) = need[c][1] .. need[c][2]
    BY <1>5 DEF Answer
  <2>2. QED  BY <1>1, <1>2, <2>1 DEF Seqs
<1>6. QED  BY <1>4, <1>5

-----------------------------------------------------------------------------
(* Commands. *)

(* A command that carries nothing has no number, and one that is dropped    *)
(* loses what it carries.                                                   *)
LEMMA AsSentIs ==
    ASSUME NEW m \in Commands
    PROVE  /\ AsSent(m) = <<>> \/ AsSent(m) = <<m>>
           /\ AsSent(m) = <<>> => Pairs(m) = {}
BY DEF AsSent, Nothing, Pairs

(* The command without a conversation carries nothing. *)
LEMMA EmptyCommand == <<>> \in Commands /\ Pairs(<<>>) = {} /\ DOMAIN <<>> = {}
<1>1. DOMAIN <<>> = {}
  OBVIOUS
<1>2. <<>> \in [{} -> SUBSET (1..LastSeq)]
  OBVIOUS
<1>3. QED  BY <1>1, <1>2 DEF Commands, Pairs

(* What sendCmd does to the queue, of one command or two. *)
LEMMA SendSplits ==
    ASSUME SyncerTypeOK, NEW m1 \in Commands, NEW m2 \in Commands, NEW besides,
           Send(m1, m2, besides)
    PROVE  /\ work' \in Seq(Commands) /\ Len(work') =< WorkLen
           /\ Len(work) =< Len(work')
           /\ \A i \in 1..Len(work) : work'[i] = work[i]
           /\ \A i \in Len(work) + 1 .. Len(work') : work'[i] \in {m1, m2}
           /\ \A j \in Len(work) + 1 .. Len(work') :
                \A i \in Len(work) + 1 .. j - 1 : work'[i] = m1 /\ work'[j] = m2
           /\ lost \cup besides \subseteq lost'
           /\ lost' \subseteq lost \cup besides \cup Pairs(m1) \cup Pairs(m2)
           /\ \A m \in {m1, m2} : \/ Pairs(m) \subseteq lost'
                                  \/ \E i \in DOMAIN work' : work'[i] = m
<1>1. PICK s1 \in {<<>>, AsSent(m1)}, s2 \in {<<>>, AsSent(m2)} :
        /\ Len(s1) + Len(s2) =< WorkLen - Len(work)
        /\ work' = work \o s1 \o s2
        /\ lost' = lost \cup besides \cup Dropped(m1, s1) \cup Dropped(m2, s2)
  BY DEF Send
<1>2. work \in Seq(Commands) /\ WorkLen \in Nat
  BY SyncerAssumption DEF SyncerTypeOK
<1>3. ASSUME NEW m \in Commands, NEW s \in {<<>>, AsSent(m)}
      PROVE  \/ s = <<>> /\ Dropped(m, s) = Pairs(m)
             \/ s = <<m>> /\ Dropped(m, s) = {}
  <2>1. <<m>> # <<>>
    OBVIOUS
  <2>2. QED  BY <2>1, AsSentIs DEF Dropped
<1>4. /\ \/ s1 = <<>> /\ Dropped(m1, s1) = Pairs(m1)
         \/ s1 = <<m1>> /\ Dropped(m1, s1) = {}
      /\ \/ s2 = <<>> /\ Dropped(m2, s2) = Pairs(m2)
         \/ s2 = <<m2>> /\ Dropped(m2, s2) = {}
  BY <1>3
<1>5. CASE s1 = <<>> /\ s2 = <<>>
  BY <1>1, <1>2, <1>4, <1>5
<1>6. CASE s1 = <<m1>> /\ s2 = <<>>
  <2>1. work' = work \o <<m1>> /\ Len(work) + 1 =< WorkLen
    BY <1>1, <1>2, <1>6
  <2>2. /\ work' \in Seq(Commands) /\ Len(work') = Len(work) + 1
        /\ DOMAIN work' = 1 .. Len(work) + 1 /\ work'[Len(work) + 1] = m1
        /\ \A i \in 1 .. Len(work) : work'[i] = work[i]
    BY <1>2, <2>1, OneMore
  <2>3. lost' = lost \cup besides \cup Pairs(m2)
    <3>1. <<m1>> # <<>> /\ <<m2>> # <<>>
      OBVIOUS
    <3>2. QED  BY <1>1, <1>4, <1>6, <3>1
  <2>4. Len(work) \in Nat
    BY <1>2
  <2>5. \A i \in Len(work) + 1 .. Len(work') : i = Len(work) + 1
    BY <2>2, <2>4
  <2>6. \A i \in Len(work) + 1 .. Len(work') : work'[i] \in {m1, m2}
    BY <2>2, <2>5
  <2>7. \A j \in Len(work) + 1 .. Len(work') :
          \A i \in Len(work) + 1 .. j - 1 : work'[i] = m1 /\ work'[j] = m2
    BY <2>4, <2>5
  <2>8. \E i \in DOMAIN work' : work'[i] = m1
    BY <2>2, <2>4
  <2>9. /\ Len(work') =< WorkLen /\ Len(work) =< Len(work')
        /\ lost \cup besides \subseteq lost'
        /\ lost' \subseteq lost \cup besides \cup Pairs(m1) \cup Pairs(m2)
    BY <1>2, <2>1, <2>2, <2>3, <2>4
  <2>10. QED  BY <2>2, <2>3, <2>6, <2>7, <2>8, <2>9
<1>7. CASE s1 = <<>> /\ s2 = <<m2>>
  <2>1. work' = work \o <<m2>> /\ Len(work) + 1 =< WorkLen
    BY <1>1, <1>2, <1>7
  <2>2. /\ work' \in Seq(Commands) /\ Len(work') = Len(work) + 1
        /\ DOMAIN work' = 1 .. Len(work) + 1 /\ work'[Len(work) + 1] = m2
        /\ \A i \in 1 .. Len(work) : work'[i] = work[i]
    BY <1>2, <2>1, OneMore
  <2>3. lost' = lost \cup besides \cup Pairs(m1)
    <3>1. <<m1>> # <<>> /\ <<m2>> # <<>>
      OBVIOUS
    <3>2. QED  BY <1>1, <1>4, <1>7, <3>1
  <2>4. Len(work) \in Nat
    BY <1>2
  <2>5. \A i \in Len(work) + 1 .. Len(work') : i = Len(work) + 1
    BY <2>2, <2>4
  <2>6. \A i \in Len(work) + 1 .. Len(work') : work'[i] \in {m1, m2}
    BY <2>2, <2>5
  <2>7. \A j \in Len(work) + 1 .. Len(work') :
          \A i \in Len(work) + 1 .. j - 1 : work'[i] = m1 /\ work'[j] = m2
    BY <2>4, <2>5
  <2>8. \E i \in DOMAIN work' : work'[i] = m2
    BY <2>2, <2>4
  <2>9. /\ Len(work') =< WorkLen /\ Len(work) =< Len(work')
        /\ lost \cup besides \subseteq lost'
        /\ lost' \subseteq lost \cup besides \cup Pairs(m1) \cup Pairs(m2)
    BY <1>2, <2>1, <2>2, <2>3, <2>4
  <2>10. QED  BY <2>2, <2>3, <2>6, <2>7, <2>8, <2>9
<1>8. CASE s1 = <<m1>> /\ s2 = <<m2>>
  <2>1. work' = (work \o <<m1>>) \o <<m2>> /\ Len(work) + 2 =< WorkLen
    BY <1>1, <1>2, <1>8
  <2>2. work \o <<m1>> \in Seq(Commands) /\ Len(work \o <<m1>>) = Len(work) + 1
    BY <1>2
  <2>3. /\ work' \in Seq(Commands) /\ Len(work') = Len(work) + 2
        /\ DOMAIN work' = 1 .. Len(work) + 2
        /\ work'[Len(work) + 1] = m1 /\ work'[Len(work) + 2] = m2
        /\ \A i \in 1..Len(work) : work'[i] = work[i]
    BY <1>2, <2>1, <2>2
  <2>4. lost' = lost \cup besides
    BY <1>1, <1>4, <1>8
  <2>5. Len(work) \in Nat
    BY <1>2
  <2>6. ASSUME NEW j \in Len(work) + 1 .. Len(work'),
               NEW i \in Len(work) + 1 .. j - 1
        PROVE  work'[i] = m1 /\ work'[j] = m2
    <3>1. i = Len(work) + 1 /\ j = Len(work) + 2
      BY <2>3, <2>5
    <3>2. QED  BY <2>3, <3>1
  <2>7. \A i \in Len(work) + 1 .. Len(work') : work'[i] \in {m1, m2}
    <3>1. \A i \in Len(work) + 1 .. Len(work') :
            i = Len(work) + 1 \/ i = Len(work) + 2
      BY <2>3, <2>5
    <3>2. QED  BY <2>3, <3>1
  <2>8. \A m \in {m1, m2} : \E i \in DOMAIN work' : work'[i] = m
    BY <2>3, <2>5
  <2>9. Len(work') =< WorkLen /\ Len(work) =< Len(work')
    BY <1>2, <2>1, <2>3, <2>5
  <2>10. /\ lost \cup besides \subseteq lost'
         /\ lost' \subseteq lost \cup besides \cup Pairs(m1) \cup Pairs(m2)
    BY <2>4
  <2>11. QED  BY <2>3, <2>6, <2>7, <2>8, <2>9, <2>10
<1>9. QED  BY <1>4, <1>5, <1>6, <1>7, <1>8

(* A command is about numbers of conversations. *)
LEMMA CommandPairs ==
    ASSUME NEW m \in Commands
    PROVE  Pairs(m) \subseteq Convs \X Seqs
<1>1. PICK S \in (SUBSET Chats) \cup (SUBSET Notices) : m \in [S -> SUBSET (1..LastSeq)]
  BY DEF Commands
<1>2. DOMAIN m = S
  BY <1>1
<1>3. S \in SUBSET Chats \/ S \in SUBSET Notices
  OBVIOUS
<1>4. DOMAIN m \subseteq Convs
  BY <1>2, <1>3 DEF Convs
<1>5. QED  BY <1>4 DEF Pairs, Seqs

(* What is in the queue, number by number. *)
LEMMA QueuedIs ==
    ASSUME SyncerTypeOK, NEW c, NEW s
    PROVE  /\ <<c, s>> \in Queued <=> \E i \in DOMAIN work : <<c, s>> \in Pairs(work[i])
           /\ <<c, s>> \in Queued => c \in Convs /\ s \in Seqs
<1>1. work \in Seq(Commands)
  BY DEF SyncerTypeOK
<1>2. \A i \in DOMAIN work : Pairs(work[i]) \subseteq Convs \X Seqs
  BY <1>1, CommandPairs
<1>3. QED  BY <1>2 DEF Queued

(* Nothing in the queue is above what counts as synchronised. *)
LEMMA QueuedIsSynced ==
    ASSUME SyncerInv, NEW c \in Convs, NEW s \in Seqs, <<c, s>> \in Queued
    PROVE  s =< synced[c]
BY QueuedIs DEF SyncerInv, QueueInOrder

(* Commands of numbers above all that was handed on keep the queue in order,*)
(* and what they carry is in the queue then, or lost.                       *)
LEMMA HandedOn ==
    ASSUME SyncerInv, synced' \in [Convs -> 0..LastSeq],
           NEW m1 \in Commands, NEW m2 \in Commands, NEW besides, Send(m1, m2, besides), DOMAIN m1 \cap DOMAIN m2 = {},
           UNCHANGED <<local, noticeSeq, base>>,
           \A c \in Convs : synced[c] =< synced'[c],
           \A m \in {m1, m2} : \A c \in Convs, s \in Seqs : <<c, s>> \in Pairs(m) =>
             /\ s =< synced'[c]
             /\ \A t \in Seqs : <<c, t>> \in local \cup Queued => t < s
             /\ c \in Notices => noticeSeq[c] < s
    PROVE  /\ QueueInOrder'
           /\ Queued \subseteq Queued'
           /\ Pairs(m1) \cup Pairs(m2) \subseteq Queued' \cup lost'
           /\ Queued' \subseteq Queued \cup Pairs(m1) \cup Pairs(m2)
<1> DEFINE l == Len(work)
<1>1. SyncerTypeOK /\ QueueInOrder /\ work \in Seq(Commands) /\ l \in Nat
  <2>1. SyncerTypeOK /\ QueueInOrder
    BY DEF SyncerInv
  <2>2. work \in Seq(Commands)
    BY <2>1 DEF SyncerTypeOK
  <2>3. QED  BY <2>1, <2>2
<1>2. /\ work' \in Seq(Commands) /\ l =< Len(work')
      /\ \A i \in 1..l : work'[i] = work[i]
      /\ \A i \in l + 1 .. Len(work') : work'[i] \in {m1, m2}
      /\ \A j \in l + 1 .. Len(work') :
           \A i \in l + 1 .. j - 1 : work'[i] = m1 /\ work'[j] = m2
      /\ \A m \in {m1, m2} : \/ Pairs(m) \subseteq lost'
                             \/ \E i \in DOMAIN work' : work'[i] = m
  BY <1>1, SendSplits
<1>3. DOMAIN work = 1..l /\ DOMAIN work' = 1..Len(work') /\ Len(work') \in Nat
  BY <1>1, <1>2
<1>4. \A i \in 1..Len(work') : i \in 1..l \/ i \in l + 1 .. Len(work')
  BY <1>1, <1>2
<1>5. Queued \subseteq Queued'
  BY <1>2, <1>3 DEF Queued
<1>6. Pairs(m1) \cup Pairs(m2) \subseteq Queued' \cup lost'
  BY <1>2 DEF Queued
<1>7. Queued' \subseteq Queued \cup Pairs(m1) \cup Pairs(m2)
  <2>1. ASSUME NEW i \in 1..Len(work')
        PROVE  Pairs(work'[i]) \subseteq Queued \cup Pairs(m1) \cup Pairs(m2)
    <3>1. CASE i \in 1..l
      BY <1>2, <1>3, <3>1 DEF Queued
    <3>2. CASE i \in l + 1 .. Len(work')
      BY <1>2, <3>2
    <3>3. QED  BY <1>4, <3>1, <3>2
  <2>2. Queued' = UNION {Pairs(work'[i]) : i \in 1..Len(work')}
    BY <1>3 DEF Queued, Pairs
  <2>3. QED  BY <2>1, <2>2
<1>8. ASSUME NEW i \in DOMAIN work', NEW c \in Convs, NEW s \in Seqs,
             <<c, s>> \in Pairs(work'[i])
      PROVE  /\ s =< synced'[c]
             /\ c \in Chats => \A t \in Seqs : <<c, t>> \in local' => t < s
             /\ c \in Notices => noticeSeq'[c] < s \/ s =< base'[c]
             /\ \A j \in 1 .. i - 1 : \A t \in Seqs :
                  <<c, t>> \in Pairs(work'[j]) => t < s
  <2>1. CASE i \in 1..l
    <3>1. /\ s =< synced[c]
          /\ c \in Chats => \A t \in Seqs : <<c, t>> \in local => t < s
          /\ c \in Notices => noticeSeq[c] < s \/ s =< base[c]
          /\ \A j \in 1 .. i - 1 : \A t \in Seqs :
               <<c, t>> \in Pairs(work[j]) => t < s
      BY <1>1, <1>2, <1>3, <1>8, <2>1 DEF QueueInOrder
    <3>2. \A j \in 1 .. i - 1 : work'[j] = work[j]
      BY <1>1, <1>2, <2>1
    <3>3. s \in Nat /\ synced[c] \in Nat /\ synced'[c] \in Nat
      BY <1>1, SyncerTypes, SyncerAssumption DEF Seqs
    <3>4. s =< synced'[c]
      BY <3>1, <3>3
    <3>5. QED  BY <3>1, <3>2, <3>4
  <2>2. CASE i \in l + 1 .. Len(work')
    <3>1. work'[i] \in {m1, m2}
      BY <1>2, <2>2
    <3>2. /\ s =< synced'[c]
          /\ \A t \in Seqs : <<c, t>> \in local \cup Queued => t < s
          /\ c \in Notices => noticeSeq[c] < s
      BY <1>8, <3>1
    <3>3. ASSUME NEW j \in 1 .. i - 1, NEW t \in Seqs, <<c, t>> \in Pairs(work'[j])
          PROVE  t < s
      <4>1. CASE j \in 1..l
        <5>1. <<c, t>> \in Queued
          BY <1>2, <1>3, <3>3, <4>1 DEF Queued
        <5>2. QED  BY <3>2, <5>1
      <4>2. CASE j \in l + 1 .. i - 1
        <5>1. work'[j] = m1 /\ work'[i] = m2
          BY <1>2, <2>2, <4>2
        <5>2. c \in DOMAIN m1 /\ c \in DOMAIN m2
          BY <1>8, <3>3, <5>1 DEF Pairs
        <5>3. QED  BY <5>2
      <4>3. j \in 1..l \/ j \in l + 1 .. i - 1
        BY <1>1
      <4>4. QED  BY <4>1, <4>2, <4>3
    <3>4. QED  BY <3>2, <3>3
  <2>3. QED  BY <1>3, <1>4, <2>1, <2>2
<1>9. QueueInOrder'
  BY <1>8 DEF QueueInOrder, Pairs
<1>10. QED  BY <1>5, <1>6, <1>7, <1>9

-----------------------------------------------------------------------------
(* Initially nothing has been told. *)
LEMMA SyncerStart == SyncerInit => SyncerInv
<1> SUFFICES ASSUME SyncerInit
             PROVE  SyncerInv
  OBVIOUS
<1>1. LastSeq \in Nat /\ Events \in Nat /\ InboxLen \in Nat /\ WorkLen \in Nat
  BY SyncerAssumption
<1>2. /\ told = [c \in Convs |-> 0] /\ pushed = told /\ written = told
      /\ synced = told /\ base = told
      /\ noticeSeq = [n \in Notices |-> 0] /\ phase = "idle"
      /\ inbox = <<>> /\ work = <<>> /\ need = <<>> /\ local = {}
      /\ batches = {} /\ tail = {}
  BY DEF SyncerInit
<1>3. DOMAIN need = {} /\ DOMAIN work = {} /\ DOMAIN inbox = {}
  BY <1>2
<1>4. \A c \in Convs : told[c] = 0
  BY <1>2
<1>5. \A n \in Notices : n \in Convs /\ noticeSeq[n] = 0
  BY <1>2 DEF Convs
<1>6. SyncerTypeOK
  <2>1. {told, written, pushed, synced, base} \subseteq [Convs -> 0..LastSeq]
    BY <1>1, <1>2
  <2>2. /\ {online, reinstalled, syncing, owed} \subseteq BOOLEAN
        /\ phase \in {"idle", "max", "pull", "reinstall"}
        /\ pullNum \in {ConnectPull, DefaultPull}
    BY DEF SyncerInit
  <2>3. inbox \in Seq(Event) /\ work \in Seq(Commands) /\ Len(inbox) = 0 /\ Len(work) = 0
    BY <1>2
  <2>4. /\ local \subseteq Chats \X (1..LastSeq)
        /\ handling \cup handled \subseteq Notices \X (1..LastSeq)
        /\ lost \subseteq Convs \X (1..LastSeq) /\ events \in 0..Events
    BY <1>1 DEF SyncerInit
  <2>5. QED  BY <1>1, <1>2, <1>3, <2>1, <2>2, <2>3, <2>4 DEF SyncerTypeOK
<1>7. NumbersInOrder /\ QueueInOrder /\ BatchesApart
  BY <1>2, <1>3, <1>4, <1>5 DEF NumbersInOrder, QueueInOrder, BatchesApart
<1>8. RangesAreNew
  BY <1>2 DEF RangesAreNew, ToPull
<1>9. NothingSkippedByStore /\ NothingSkipped
  BY <1>1, <1>2, <1>4, <1>5 DEF NothingSkippedByStore, NothingSkipped, Seqs
<1>10. LatestReached
  BY <1>2, <1>4 DEF LatestReached, Reached, Convs
<1>11. QED  BY <1>6, <1>7, <1>8, <1>9, <1>10 DEF SyncerInv

(* The types of a command with one number, and of one with the answers for  *)
(* conversations of one kind.                                               *)
LEMMA CommandTypes ==
    ASSUME NEW K \in {Chats, Notices}, NEW S \in SUBSET K,
           NEW m \in [S -> SUBSET Seqs]
    PROVE  /\ m \in Commands
           /\ \A c, s : <<c, s>> \in Pairs(m) <=> c \in S /\ s \in m[c]
<1>1. S \in (SUBSET Chats) \cup (SUBSET Notices)
  <2>1. S \in SUBSET Chats \/ S \in SUBSET Notices
    OBVIOUS
  <2>2. QED  BY <2>1, Zenon
<1>2. m \in Commands
  BY <1>1 DEF Commands, Seqs
<1>3. DOMAIN m = S /\ \A c \in S : m[c] \subseteq 1..LastSeq
  BY DEF Seqs
<1>4. QED  BY <1>2, <1>3 DEF Pairs

-----------------------------------------------------------------------------
(* Steps that leave the synchronisation alone: nothing handed on, nothing   *)
(* stored, and the server's numbers grow at most.                           *)
LEMMA ElsewhereKeeps ==
    ASSUME SyncerInv, SyncerTypeOK', NumbersInOrder',
           UNCHANGED <<synced, Locals, work, SyncerStore, lost, base>>,
           \A c \in Convs : told[c] =< told'[c]
    PROVE  SyncerInv'
<1>1. /\ QueueInOrder /\ RangesAreNew /\ BatchesApart
      /\ NothingSkippedByStore /\ NothingSkipped /\ LatestReached /\ SyncerTypeOK
  BY DEF SyncerInv
<1>2. /\ synced' = synced /\ work' = work /\ lost' = lost /\ base' = base
      /\ phase' = phase /\ need' = need /\ pullNum' = pullNum
      /\ batches' = batches /\ tail' = tail /\ local' = local
      /\ noticeSeq' = noticeSeq /\ handling' = handling /\ handled' = handled
  BY DEF Locals, SyncerStore
<1>3. Queued' = Queued /\ ToPull' = ToPull
  BY <1>2 DEF Queued, Pairs, ToPull
<1>4. QueueInOrder'
  BY <1>1, <1>2 DEF QueueInOrder, Pairs
<1>5. RangesAreNew'
  BY <1>1, <1>2, <1>3 DEF RangesAreNew
<1>6. BatchesApart'
  <2>1. ASSUME NEW c \in DOMAIN need
        PROVE  need[c][2] =< told'[c]
    <3>1. c \in Convs /\ need[c][2] \in Nat /\ need[c][2] =< told[c]
      <4>1. c \in Convs /\ need[c] \in (1..LastSeq) \X (1..LastSeq)
        BY <1>1 DEF SyncerTypeOK
      <4>2. need[c][2] \in Nat
        BY <4>1, SyncerAssumption
      <4>3. QED  BY <1>1, <4>1, <4>2 DEF BatchesApart
    <3>2. told[c] \in Nat /\ told'[c] \in Nat /\ told[c] =< told'[c]
      BY <1>1, <3>1, SyncerTypes DEF SyncerTypeOK
    <3>3. QED  BY <3>1, <3>2
  <2>2. QED  BY <1>1, <1>2, <2>1 DEF BatchesApart
<1>7. NothingSkippedByStore' /\ NothingSkipped'
  BY <1>1, <1>2, <1>3 DEF NothingSkippedByStore, NothingSkipped, Carried
<1>8. LatestReached'
  BY <1>1, <1>2, <1>3 DEF LatestReached, Reached, Kept
<1>9. QED
  BY <1>4, <1>5, <1>6, <1>7, <1>8 DEF SyncerInv

(* An event or a push in recvCh. *)
LEMMA Arrives ==
    ASSUME SyncerInv, NEW e \in Event, inbox' = Append(inbox, e),
           Len(inbox) < InboxLen,
           e.type = "push" => e.seq =< told[e.conv]
    PROVE  /\ inbox' \in Seq(Event) /\ Len(inbox') =< InboxLen
           /\ \A i \in DOMAIN inbox' :
                inbox'[i].type = "push" => inbox'[i].seq =< told[inbox'[i].conv]
<1>1. inbox \in Seq(Event) /\ InboxLen \in Nat
  BY SyncerAssumption DEF SyncerInv, SyncerTypeOK
<1>2. \A i \in DOMAIN inbox :
        inbox[i].type = "push" => inbox[i].seq =< told[inbox[i].conv]
  BY DEF SyncerInv, NumbersInOrder
<1>3. /\ inbox' \in Seq(Event) /\ Len(inbox') = Len(inbox) + 1
      /\ DOMAIN inbox' = 1 .. Len(inbox) + 1 /\ inbox'[Len(inbox) + 1] = e
      /\ \A i \in 1..Len(inbox) : inbox'[i] = inbox[i]
  BY <1>1
<1>4. \A i \in 1 .. Len(inbox) + 1 : i \in 1..Len(inbox) \/ i = Len(inbox) + 1
  BY <1>1
<1>5. QED  BY <1>1, <1>2, <1>3, <1>4

(* The server. *)
LEMMA TakeNumbersKeeps ==
    ASSUME SyncerInv, NEW c \in Convs, NEW n \in Seqs, TakeNumbers(c, n)
    PROVE  SyncerInv'
<1>1. /\ told[c] + n =< LastSeq /\ told' = [told EXCEPT ![c] = @ + n]
      /\ UNCHANGED <<written, pushed, online, inbox, synced, reinstalled,
                     syncing, Locals, work, SyncerStore, events, lost, base, owed>>
  BY DEF TakeNumbers
<1>2. SyncerTypeOK /\ NumbersInOrder /\ n \in Nat /\ LastSeq \in Nat
  BY SyncerAssumption DEF SyncerInv, Seqs
<1>3. told \in [Convs -> 0..LastSeq]
  BY <1>2, SyncerTypes
<1>4. told' \in [Convs -> 0..LastSeq] /\ \A d \in Convs : told[d] =< told'[d]
  BY <1>1, <1>2, <1>3
<1>5. SyncerTypeOK'
  <2>1. {told', written', pushed', synced', base'} \subseteq [Convs -> 0..LastSeq]
    BY <1>1, <1>2, <1>4, SyncerTypes
  <2>2. QED  BY <1>1, <1>2, <2>1 DEF SyncerTypeOK, Locals, SyncerStore
<1>6. NumbersInOrder'
  <2>1. \A d \in Convs : /\ told[d] \in Nat /\ told'[d] \in Nat
                         /\ synced[d] \in Nat /\ pushed[d] \in Nat
    BY <1>2, <1>3, <1>4, SyncerTypes
  <2>2. \A d \in Convs : synced[d] =< told'[d] /\ pushed[d] =< told'[d]
    BY <1>2, <1>4, <2>1 DEF NumbersInOrder
  <2>3. ASSUME NEW i \in DOMAIN inbox, inbox[i].type = "push"
        PROVE  inbox[i].seq =< told'[inbox[i].conv]
    <3>1. inbox[i] \in Event
      BY <1>2 DEF SyncerTypeOK
    <3>2. inbox[i].conv \in Convs /\ inbox[i].seq \in Nat
      BY <2>3, <3>1 DEF Event
    <3>3. inbox[i].seq =< told[inbox[i].conv]
      BY <1>2, <2>3 DEF NumbersInOrder
    <3>4. QED  BY <1>4, <2>1, <3>2, <3>3
  <2>4. QED  BY <1>1, <1>2, <2>2, <2>3 DEF NumbersInOrder, SyncerStore
<1>7. QED  BY <1>1, <1>4, <1>5, <1>6, ElsewhereKeeps

(* A push is about a message that has its number. *)
LEMMA PushMessageKeeps ==
    ASSUME SyncerInv, NEW c \in Convs, PushMessage(c)
    PROVE  SyncerInv'
<1> DEFINE e == [type |-> "push", conv |-> c, seq |-> pushed[c] + 1]
<1>1. /\ written[c] = told[c] /\ pushed[c] < told[c]
      /\ pushed' = [pushed EXCEPT ![c] = @ + 1]
      /\ inbox' = inbox \/ (Len(inbox) < InboxLen /\ inbox' = Append(inbox, e))
      /\ owed' \in {TRUE, owed}
      /\ UNCHANGED <<told, written, online, synced, reinstalled, syncing,
                     Locals, work, SyncerStore, events, lost, base>>
  BY DEF PushMessage, PutInbox
<1>2. SyncerTypeOK /\ NumbersInOrder /\ LastSeq \in Nat
  BY SyncerAssumption DEF SyncerInv
<1>3. /\ pushed \in [Convs -> 0..LastSeq] /\ told \in [Convs -> 0..LastSeq]
  BY <1>2, SyncerTypes
<1>4. /\ pushed' \in [Convs -> 0..LastSeq]
      /\ \A d \in Convs : pushed'[d] =< told[d]
      /\ e \in Event /\ e.seq =< told[e.conv] /\ pushed[c] + 1 \in Nat
  BY <1>1, <1>2, <1>3 DEF Event, NumbersInOrder
<1>5. /\ inbox' \in Seq(Event) /\ Len(inbox') =< InboxLen
      /\ \A i \in DOMAIN inbox' :
           inbox'[i].type = "push" => inbox'[i].seq =< told[inbox'[i].conv]
  <2>1. CASE inbox' = inbox
    BY <1>2, <2>1 DEF SyncerTypeOK, NumbersInOrder
  <2>2. CASE Len(inbox) < InboxLen /\ inbox' = Append(inbox, e)
    <3> HIDE DEF e
    <3>1. QED  BY <1>4, <2>2, Arrives
  <2>3. QED  BY <1>1, <2>1, <2>2
<1>6. SyncerTypeOK'
  <2>1. {told', written', pushed', synced', base'} \subseteq [Convs -> 0..LastSeq]
    BY <1>1, <1>2, <1>4, SyncerTypes
  <2>2. owed' \in BOOLEAN
    BY <1>1, <1>2 DEF SyncerTypeOK
  <2>3. QED  BY <1>1, <1>2, <1>5, <2>1, <2>2 DEF SyncerTypeOK, Locals, SyncerStore
<1>7. NumbersInOrder'
  BY <1>1, <1>2, <1>4, <1>5 DEF NumbersInOrder, SyncerStore
<1>8. \A d \in Convs : told[d] =< told'[d]
  BY <1>1, <1>3
<1>9. QED  BY <1>1, <1>6, <1>7, <1>8, ElsewhereKeeps

(* Messages are written for numbers that are told. *)
LEMMA WriteMessageKeeps ==
    ASSUME SyncerInv, NEW c \in Convs, WriteMessage(c)
    PROVE  SyncerInv'
<1>1. /\ written' = [written EXCEPT ![c] = told[c]]
      /\ UNCHANGED <<told, pushed, online, inbox, synced, reinstalled, syncing,
                     Locals, work, SyncerStore, events, lost, base, owed>>
  BY DEF WriteMessage
<1>2. SyncerTypeOK /\ NumbersInOrder
  BY DEF SyncerInv
<1>3. SyncerTypeOK'
  <2>1. {told', written', pushed', synced', base'} \subseteq [Convs -> 0..LastSeq]
    BY <1>1, <1>2, SyncerTypes
  <2>2. QED  BY <1>1, <1>2, <2>1 DEF SyncerTypeOK, Locals, SyncerStore
<1>4. NumbersInOrder'
  BY <1>1, <1>2 DEF NumbersInOrder, SyncerStore
<1>5. \A d \in Convs : told[d] =< told'[d]
  BY <1>1, <1>2, SyncerTypes, SyncerAssumption
<1>6. QED  BY <1>1, <1>3, <1>4, <1>5, ElsewhereKeeps

(* Connections, wake-ups and the end of startSync's five seconds. *)
LEMMA EventsKeep ==
    ASSUME SyncerInv, Connect \/ Disconnect \/ WakeUp \/ SyncTimer
    PROVE  SyncerInv'
<1>1. /\ UNCHANGED <<SyncerServer, synced, reinstalled, Locals, work,
                     SyncerStore, lost, base>>
      /\ online' \in BOOLEAN /\ syncing' \in BOOLEAN /\ events' \in 0..Events
      /\ owed' \in BOOLEAN
      /\ \/ inbox' = inbox
         \/ \E t \in {"connected", "wakeup", "manual"} :
              Len(inbox) < InboxLen /\ inbox' = Append(inbox, [type |-> t])
  <2>1. /\ events \in 0..Events /\ Events \in Nat
        /\ online \in BOOLEAN /\ syncing \in BOOLEAN /\ owed \in BOOLEAN
    BY SyncerAssumption DEF SyncerInv, SyncerTypeOK
  <2>0. ASSUME NEW t \in {"connected", "wakeup", "manual"}, PutInbox([type |-> t])
        PROVE  /\ owed' \in BOOLEAN
               /\ \/ inbox' = inbox
                  \/ Len(inbox) < InboxLen /\ inbox' = Append(inbox, [type |-> t])
    BY <2>0, <2>1 DEF PutInbox
  <2>2. CASE Connect
    <3>1. PutInbox([type |-> "connected"])
      BY <2>2 DEF Connect
    <3>2. QED  BY <2>0, <2>1, <2>2, <3>1 DEF Connect, Spend
  <2>3. CASE Disconnect
    BY <2>1, <2>3 DEF Disconnect
  <2>4. CASE WakeUp
    <3>1. PICK t \in {"wakeup", "manual"} : PutInbox([type |-> t])
      BY <2>4 DEF WakeUp
    <3>2. QED  BY <2>0, <2>1, <2>4, <3>1 DEF WakeUp, Spend
  <2>5. CASE SyncTimer
    BY <2>1, <2>5 DEF SyncTimer
  <2>6. QED  BY <2>2, <2>3, <2>4, <2>5
<1>2. SyncerTypeOK /\ NumbersInOrder
  BY DEF SyncerInv
<1>3. told' = told /\ pushed' = pushed /\ written' = written
  BY <1>1 DEF SyncerServer
<1>4. /\ inbox' \in Seq(Event) /\ Len(inbox') =< InboxLen
      /\ \A i \in DOMAIN inbox' :
           inbox'[i].type = "push" => inbox'[i].seq =< told[inbox'[i].conv]
  <2>1. CASE inbox' = inbox
    BY <1>2, <2>1 DEF SyncerTypeOK, NumbersInOrder
  <2>2. ASSUME NEW t \in {"connected", "wakeup", "manual"}, Len(inbox) < InboxLen,
               inbox' = Append(inbox, [type |-> t])
        PROVE  /\ inbox' \in Seq(Event) /\ Len(inbox') =< InboxLen
               /\ \A i \in DOMAIN inbox' :
                    inbox'[i].type = "push" => inbox'[i].seq =< told[inbox'[i].conv]
    <3>1. [type |-> t] \in Event /\ [type |-> t].type # "push"
      BY DEF Event
    <3>2. QED  BY <2>2, <3>1, Arrives
  <2>3. QED  BY <1>1, <2>1, <2>2
<1>5. SyncerTypeOK'
  <2>1. {told', written', pushed', synced', base'} \subseteq [Convs -> 0..LastSeq]
    BY <1>1, <1>2, <1>3, SyncerTypes
  <2>2. QED  BY <1>1, <1>2, <1>4, <2>1 DEF SyncerTypeOK, Locals, SyncerStore
<1>6. NumbersInOrder'
  BY <1>1, <1>2, <1>3, <1>4 DEF NumbersInOrder, SyncerStore
<1>7. \A d \in Convs : told[d] =< told'[d]
  BY <1>2, <1>3, SyncerTypes, SyncerAssumption
<1>8. QED  BY <1>1, <1>5, <1>6, <1>7, ElsewhereKeeps

-----------------------------------------------------------------------------
(* The first of recvCh is taken. *)
LEMMA Taken ==
    ASSUME SyncerInv, inbox # <<>>
    PROVE  /\ Tail(inbox) \in Seq(Event) /\ Len(Tail(inbox)) =< InboxLen
           /\ \A i \in DOMAIN Tail(inbox) :
                Tail(inbox)[i].type = "push"
                  => Tail(inbox)[i].seq =< told[Tail(inbox)[i].conv]
           /\ Head(inbox) \in Event
           /\ Head(inbox).type = "push" => Head(inbox).seq =< told[Head(inbox).conv]
<1>1. inbox \in Seq(Event) /\ Len(inbox) =< InboxLen /\ InboxLen \in Nat
  BY SyncerAssumption DEF SyncerInv, SyncerTypeOK
<1>2. \A i \in DOMAIN inbox :
        inbox[i].type = "push" => inbox[i].seq =< told[inbox[i].conv]
  BY DEF SyncerInv, NumbersInOrder
<1>3. /\ Tail(inbox) \in Seq(Event) /\ Len(Tail(inbox)) = Len(inbox) - 1
      /\ \A i \in 1..Len(Tail(inbox)) : Tail(inbox)[i] = inbox[i + 1]
      /\ Head(inbox) = inbox[1] /\ 1 \in DOMAIN inbox
  BY <1>1
<1>4. \A i \in 1..Len(Tail(inbox)) : i + 1 \in DOMAIN inbox
  BY <1>1, <1>3
<1>5. Head(inbox) \in Event
  BY <1>1, <1>3
<1>6. QED  BY <1>1, <1>2, <1>3, <1>4, <1>5

(* Steps after which nothing is to be pulled and no batch is left over, and *)
(* that hand nothing on.                                                    *)
LEMMA IdleKeeps ==
    ASSUME SyncerInv, SyncerTypeOK', NumbersInOrder', phase # "reinstall",
           phase' \notin {"pull", "reinstall"},
           UNCHANGED <<told, synced, work, SyncerStore, lost, base>>,
           need' \in {need, <<>>}, batches' \in {batches, {}}
    PROVE  SyncerInv'
<1>1. /\ QueueInOrder /\ BatchesApart
      /\ NothingSkippedByStore /\ NothingSkipped /\ LatestReached /\ SyncerTypeOK
  BY DEF SyncerInv
<1>2. /\ synced' = synced /\ work' = work /\ lost' = lost /\ base' = base
      /\ local' = local /\ noticeSeq' = noticeSeq
      /\ handling' = handling /\ handled' = handled
  BY DEF SyncerStore
<1>3. Queued' = Queued /\ ToPull' = {}
  BY <1>2 DEF Queued, Pairs, ToPull
<1>4. QueueInOrder'
  BY <1>1, <1>2 DEF QueueInOrder, Pairs
<1>5. RangesAreNew'
  BY <1>3 DEF RangesAreNew
<1>6. BatchesApart'
  <2>1. \A c \in DOMAIN need' : c \in DOMAIN need /\ need'[c] = need[c]
    OBVIOUS
  <2>2. QED  BY <1>1, <2>1 DEF BatchesApart
<1>7. NothingSkippedByStore' /\ NothingSkipped'
  BY <1>1, <1>2, <1>3 DEF NothingSkippedByStore, NothingSkipped, Carried
<1>8. LatestReached'
  BY <1>1, <1>2, <1>3 DEF LatestReached, Reached, Kept
<1>9. QED
  BY <1>4, <1>5, <1>6, <1>7, <1>8 DEF SyncerInv

(* startSync: the event is ignored, or a synchronisation begins. *)
LEMMA TakeEventKeeps ==
    ASSUME SyncerInv, TakeEvent
    PROVE  SyncerInv'
<1>1. /\ phase = "idle" /\ inbox # <<>> /\ inbox' = Tail(inbox)
      /\ UNCHANGED <<SyncerServer, online, synced, reinstalled, need, batches,
                     tail, work, SyncerStore, events, lost, base>>
      /\ owed' \in BOOLEAN /\ syncing' \in BOOLEAN
      /\ phase' \in {"idle", "max"} /\ pullNum' \in {ConnectPull, DefaultPull}
  BY DEF TakeEvent, SyncerInv, SyncerTypeOK
<1>2. SyncerTypeOK /\ NumbersInOrder
  BY DEF SyncerInv
<1>3. told' = told /\ pushed' = pushed /\ written' = written
  BY <1>1 DEF SyncerServer
<1>4. SyncerTypeOK'
  <2>1. {told', written', pushed', synced', base'} \subseteq [Convs -> 0..LastSeq]
    BY <1>1, <1>2, <1>3, SyncerTypes
  <2>2. inbox' \in Seq(Event) /\ Len(inbox') =< InboxLen
    BY <1>1, Taken
  <2>3. QED  BY <1>1, <1>2, <2>1, <2>2 DEF SyncerTypeOK, SyncerStore
<1>5. NumbersInOrder'
  BY <1>1, <1>2, <1>3, Taken DEF NumbersInOrder, SyncerStore
<1>6. QED  BY <1>1, <1>3, <1>4, <1>5, IdleKeeps

(* A request fails: nothing more is asked for. *)
LEMMA FailuresKeep ==
    ASSUME SyncerInv, MaxSeqFails \/ PullFails
    PROVE  SyncerInv'
<1>1. /\ phase # "reinstall" /\ phase' = "idle" /\ need' = <<>> /\ batches' = {}
      /\ tail' = {} /\ pullNum' = DefaultPull /\ owed' = TRUE
      /\ UNCHANGED <<SyncerServer, online, inbox, synced, reinstalled, syncing,
                     work, SyncerStore, lost, base>>
      /\ events' \in 0..Events
  <2>1. events \in 0..Events /\ Events \in Nat
    BY SyncerAssumption DEF SyncerInv, SyncerTypeOK
  <2>2. RpcFails => events' \in 0..Events
    BY <2>1 DEF RpcFails, Spend
  <2>3. QED  BY <2>2 DEF MaxSeqFails, PullFails, ReturnToLoop
<1>2. SyncerTypeOK /\ NumbersInOrder
  BY DEF SyncerInv
<1>3. told' = told /\ pushed' = pushed /\ written' = written
  BY <1>1 DEF SyncerServer
<1>4. SyncerTypeOK'
  <2>1. {told', written', pushed', synced', base'} \subseteq [Convs -> 0..LastSeq]
    BY <1>1, <1>2, <1>3, SyncerTypes
  <2>2. DOMAIN need' = {}
    BY <1>1
  <2>3. QED  BY <1>1, <1>2, <2>1, <2>2 DEF SyncerTypeOK, SyncerStore
<1>5. NumbersInOrder'
  BY <1>1, <1>2, <1>3 DEF NumbersInOrder, SyncerStore
<1>6. QED  BY <1>1, <1>3, <1>4, <1>5, IdleKeeps

(* What the goroutine may count on when it takes a push. *)
LEMMA PushOf ==
    ASSUME SyncerInv, inbox # <<>>, Head(inbox).type = "push"
    PROVE  /\ Head(inbox).conv \in Convs /\ Head(inbox).seq \in Seqs
           /\ Head(inbox).seq =< told[Head(inbox).conv]
<1>1. Head(inbox) \in Event /\ Head(inbox).seq =< told[Head(inbox).conv]
  BY Taken
<1>2. QED  BY <1>1 DEF Event, Seqs

(* The next message of a conversation is handed on. *)
LEMMA NextPushKeeps ==
    ASSUME SyncerInv, phase = "idle", NEW c \in Convs, NEW s \in Seqs,
           s =< told[c], s = synced[c] + 1,
           inbox # <<>>, inbox' = Tail(inbox),
           Send([x \in {c} |-> {s}], <<>>, {}),
           synced' = [synced EXCEPT ![c] = s],
           UNCHANGED <<Locals, owed, SyncerServer, online, reinstalled, syncing,
                       SyncerStore, events, base>>
    PROVE  SyncerInv'
<1> DEFINE m == [x \in {c} |-> {s}]
<1>1. /\ SyncerTypeOK /\ NumbersInOrder /\ QueueInOrder /\ RangesAreNew
      /\ BatchesApart /\ NothingSkippedByStore /\ NothingSkipped /\ LatestReached
  BY DEF SyncerInv
<1>2. /\ told' = told /\ pushed' = pushed /\ written' = written /\ base' = base
      /\ local' = local /\ noticeSeq' = noticeSeq
      /\ handling' = handling /\ handled' = handled
      /\ phase' = phase /\ need' = need /\ pullNum' = pullNum
      /\ batches' = batches /\ tail' = tail
  BY DEF SyncerServer, SyncerStore, Locals
<1>3. /\ synced \in [Convs -> 0..LastSeq] /\ told \in [Convs -> 0..LastSeq]
      /\ base \in [Convs -> 0..LastSeq] /\ LastSeq \in Nat
  BY <1>1, SyncerTypes, SyncerAssumption
<1>4. /\ synced' \in [Convs -> 0..LastSeq] /\ synced'[c] = s
      /\ \A d \in Convs : /\ synced'[d] =< told[d] /\ synced[d] =< synced'[d]
                          /\ d # c => synced'[d] = synced[d]
  BY <1>1, <1>3 DEF NumbersInOrder, Seqs
<1>5. /\ m \in Commands /\ <<>> \in Commands /\ DOMAIN m \cap DOMAIN <<>> = {}
      /\ Pairs(m) = {<<c, s>>} /\ Pairs(<<>>) = {}
  <2>1. PICK K \in {Chats, Notices} : c \in K
    BY DEF Convs
  <2>2. {c} \in SUBSET K /\ m \in [{c} -> SUBSET Seqs]
    BY <2>1
  <2>3. m \in Commands /\ \A d, t : <<d, t>> \in Pairs(m) <=> d \in {c} /\ t \in m[d]
    <3> HIDE DEF m
    <3>1. /\ m \in Commands
          /\ \A d, t : <<d, t>> \in Pairs(m) <=> d \in {c} /\ t \in m[d]
      BY <2>2, CommandTypes, ZenonT(60)
    <3>2. QED  BY <3>1
  <2>4. Pairs(m) = {<<c, s>>}
    BY DEF Pairs, Seqs
  <2>5. QED  BY <2>3, <2>4, EmptyCommand
<1>6. /\ work' \in Seq(Commands) /\ Len(work') =< WorkLen
      /\ lost \subseteq lost' /\ lost' \subseteq lost \cup {<<c, s>>}
  <2> HIDE DEF m
  <2>1. Send(m, <<>>, {})
    BY DEF m
  <2>2. QED  BY <1>1, <1>5, <2>1, SendSplits
<1>7. SyncerTypeOK'
  <2>1. {told', written', pushed', synced', base'} \subseteq [Convs -> 0..LastSeq]
    BY <1>1, <1>2, <1>4, SyncerTypes
  <2>2. inbox' \in Seq(Event) /\ Len(inbox') =< InboxLen
    BY Taken
  <2>3. lost' \subseteq Convs \X (1..LastSeq)
    BY <1>1, <1>6 DEF SyncerTypeOK, Seqs
  <2>4. QED  BY <1>1, <1>2, <1>6, <2>1, <2>2, <2>3 DEF SyncerTypeOK
<1>8. \A t \in Seqs : <<c, t>> \in local \cup Queued => t < s
  <2>1. \A t \in Seqs : <<c, t>> \in Queued => t =< synced[c]
    BY QueuedIsSynced
  <2>2. \A t \in Seqs : <<c, t>> \in local => t =< synced[c]
    <3>1. \A t : <<c, t>> \in local => c \in Chats
      BY <1>1 DEF SyncerTypeOK
    <3>2. QED  BY <1>1, <3>1 DEF NumbersInOrder
  <2>3. QED  BY <1>3, <2>1, <2>2 DEF Seqs
<1>9. c \in Notices => noticeSeq[c] < s
  BY <1>1, <1>3 DEF NumbersInOrder, SyncerTypeOK
<1>10. /\ QueueInOrder' /\ Queued \subseteq Queued'
       /\ <<c, s>> \in Queued' \cup lost' /\ Queued' \subseteq Queued \cup {<<c, s>>}
  <2> HIDE DEF m
  <2>1. Send(m, <<>>, {})
    BY DEF m
  <2>2. \A k \in {m, <<>>} : \A d \in Convs, t \in Seqs : <<d, t>> \in Pairs(k) =>
          /\ t =< synced'[d]
          /\ \A u \in Seqs : <<d, u>> \in local \cup Queued => u < t
          /\ d \in Notices => noticeSeq[d] < t
    BY <1>4, <1>5, <1>8, <1>9
  <2>3. QED  BY <1>2, <1>4, <1>5, <2>1, <2>2, HandedOn
<1>11. NumbersInOrder'
  <2>1. \A n \in Notices : noticeSeq[n] =< synced'[n]
    BY <1>1, <1>3, <1>4 DEF NumbersInOrder, SyncerTypeOK, Convs
  <2>2. \A d \in Chats, t \in Seqs : <<d, t>> \in local => t =< synced'[d]
    <3>1. \A d \in Chats : d \in Convs
      BY DEF Convs
    <3>2. \A d \in Chats, t \in Seqs : <<d, t>> \in local => t =< synced[d]
      BY <1>1 DEF NumbersInOrder
    <3>3. QED  BY <1>3, <1>4, <3>1, <3>2 DEF Seqs
  <2>3. \A d \in Convs : synced'[d] =< told'[d] /\ pushed'[d] =< told'[d]
    BY <1>1, <1>2, <1>4 DEF NumbersInOrder
  <2>4. \A i \in DOMAIN inbox' :
          inbox'[i].type = "push" => inbox'[i].seq =< told'[inbox'[i].conv]
    BY <1>2, Taken
  <2>5. QED  BY <1>2, <2>1, <2>2, <2>3, <2>4 DEF NumbersInOrder
<1>12. RangesAreNew' /\ BatchesApart'
  BY <1>1, <1>2 DEF RangesAreNew, BatchesApart, ToPull
<1>13. NothingSkippedByStore'
  BY <1>1, <1>2, <1>6 DEF NothingSkippedByStore, Carried
<1>14. NothingSkipped'
  <2>1. ASSUME NEW n \in Notices, NEW t \in Seqs, base[n] < t, t =< synced'[n]
        PROVE  <<n, t>> \in Carried' \cup Queued'
    <3>1. CASE n = c /\ t = s
      BY <1>10, <3>1 DEF Carried
    <3>2. CASE ~ (n = c /\ t = s)
      <4>1. t =< synced[n]
        BY <1>3, <1>4, <2>1, <3>2 DEF Seqs, Convs
      <4>2. <<n, t>> \in Carried \cup Queued
        BY <1>1, <2>1, <4>1 DEF NothingSkipped
      <4>3. QED  BY <1>2, <1>6, <1>10, <4>2 DEF Carried
    <3>3. QED  BY <3>1, <3>2
  <2>2. QED  BY <1>2, <2>1 DEF NothingSkipped
<1>15. LatestReached'
  <2>1. ASSUME NEW d \in Chats
        PROVE  synced'[d] = 0 \/ <<d, synced'[d]>> \in Kept' \cup Queued'
    <3>1. CASE d = c
      BY <1>4, <1>10, <3>1 DEF Reached, Kept
    <3>2. CASE d # c
      <4>1. Reached(d, synced[d]) /\ synced'[d] = synced[d]
        BY <1>1, <1>4, <3>2 DEF LatestReached, Convs
      <4>2. Kept \subseteq Kept' /\ Queued \subseteq Queued'
        BY <1>2, <1>6, <1>10 DEF Kept
      <4>3. QED  BY <4>1, <4>2 DEF Reached
    <3>3. QED  BY <3>1, <3>2
  <2>2. QED  BY <1>2, <2>1 DEF LatestReached, Reached
<1>16. QED
  BY <1>7, <1>10, <1>11, <1>12, <1>13, <1>14, <1>15 DEF SyncerInv

(* A synchronisation begins, batch after batch: its ranges begin where the  *)
(* conversations stand.                                                     *)
LEMMA PullBegins ==
    ASSUME SyncerInv, SyncerTypeOK', NumbersInOrder', phase # "reinstall",
           phase' = "pull",
           UNCHANGED <<told, synced, work, SyncerStore, lost, base>>,
           \A c \in DOMAIN need' :
             /\ c \in Convs /\ need'[c][1] = synced[c] + 1
             /\ need'[c][1] =< need'[c][2] /\ need'[c][2] =< told[c],
           tail' \cup UNION batches' \subseteq DOMAIN need',
           \A B, C \in batches' : B # C => B \cap C = {},
           \A B \in batches' : B \cap tail' = {}
    PROVE  SyncerInv'
<1>1. /\ QueueInOrder /\ NumbersInOrder
      /\ NothingSkippedByStore /\ NothingSkipped /\ LatestReached /\ SyncerTypeOK
  BY DEF SyncerInv
<1>2. /\ synced' = synced /\ work' = work /\ lost' = lost /\ base' = base
      /\ local' = local /\ noticeSeq' = noticeSeq
      /\ handling' = handling /\ handled' = handled
  BY DEF SyncerStore
<1>3. Queued' = Queued /\ ToPull' = tail' \cup UNION batches'
  BY <1>2 DEF Queued, Pairs, ToPull
<1>4. QueueInOrder'
  BY <1>1, <1>2 DEF QueueInOrder, Pairs
<1>5. RangesAreNew'
  <2>1. ASSUME NEW c \in DOMAIN need', NEW s \in Seqs, <<c, s>> \in local \cup Queued
        PROVE  s < need'[c][1]
    <3>1. c \in Convs /\ synced[c] \in Nat
      BY <1>1, SyncerTypes
    <3>2. s =< synced[c]
      <4>1. CASE <<c, s>> \in local
        <5>1. c \in Chats
          BY <1>1, <4>1 DEF SyncerTypeOK
        <5>2. QED  BY <1>1, <4>1, <5>1 DEF NumbersInOrder
      <4>2. CASE <<c, s>> \in Queued
        BY <3>1, <4>2, QueuedIsSynced
      <4>3. QED  BY <2>1, <4>1, <4>2
    <3>3. QED  BY <3>1, <3>2 DEF Seqs
  <2>2. QED  BY <1>2, <1>3, <2>1 DEF RangesAreNew
<1>6. BatchesApart'
  BY DEF BatchesApart
<1>7. NothingSkippedByStore' /\ NothingSkipped'
  BY <1>1, <1>2, <1>3 DEF NothingSkippedByStore, NothingSkipped, Carried
<1>8. LatestReached'
  BY <1>1, <1>2, <1>3 DEF LatestReached, Reached, Kept
<1>9. QED
  BY <1>4, <1>5, <1>6, <1>7, <1>8 DEF SyncerInv

(* A push that shows a gap. *)
LEMMA GapPushKeeps ==
    ASSUME SyncerInv, phase = "idle", NEW c \in Convs, NEW s \in Seqs,
           s =< told[c], s > synced[c] + 1,
           inbox # <<>>, inbox' = Tail(inbox),
           phase' = "pull", pullNum' = DefaultPull,
           need' = [x \in {c} |-> <<synced[c] + 1, s>>],
           batches' = {}, tail' = {c},
           UNCHANGED <<synced, work, lost, owed, SyncerServer, online,
                       reinstalled, syncing, SyncerStore, events, base>>
    PROVE  SyncerInv'
<1>1. SyncerTypeOK /\ NumbersInOrder
  BY DEF SyncerInv
<1>2. told' = told /\ pushed' = pushed /\ written' = written
  BY DEF SyncerServer
<1>3. synced[c] \in Nat /\ s \in Nat /\ LastSeq \in Nat /\ s =< LastSeq
  BY <1>1, SyncerTypes, SyncerAssumption DEF Seqs
<1>4. /\ DOMAIN need' = {c} /\ need'[c][1] = synced[c] + 1 /\ need'[c][2] = s
      /\ need'[c] \in (1..LastSeq) \X (1..LastSeq)
  BY <1>3
<1>5. SyncerTypeOK'
  <2>1. {told', written', pushed', synced', base'} \subseteq [Convs -> 0..LastSeq]
    BY <1>1, <1>2, SyncerTypes
  <2>2. inbox' \in Seq(Event) /\ Len(inbox') =< InboxLen
    BY Taken
  <2>3. QED  BY <1>1, <1>4, <2>1, <2>2 DEF SyncerTypeOK, SyncerStore
<1>6. NumbersInOrder'
  BY <1>1, <1>2, Taken DEF NumbersInOrder, SyncerStore
<1>7. QED  BY <1>2, <1>3, <1>4, <1>5, <1>6, PullBegins

(* A push is handed on only if it is the next one; one further ahead begins *)
(* a pull from the number after the last that was synchronised.             *)
LEMMA TakePushKeeps ==
    ASSUME SyncerInv, TakePush
    PROVE  SyncerInv'
<1> DEFINE c == Head(inbox).conv
           s == Head(inbox).seq
<1>1. /\ phase = "idle" /\ inbox # <<>> /\ Head(inbox).type = "push"
      /\ inbox' = Tail(inbox)
      /\ UNCHANGED <<SyncerServer, online, reinstalled, syncing, SyncerStore,
                     events, base>>
  BY DEF TakePush
<1>2. c \in Convs /\ s \in Seqs /\ s =< told[c]
  BY <1>1, PushOf
<1>3. CASE /\ s = synced[c] + 1
           /\ Send([x \in {c} |-> {s}], <<>>, {})
           /\ synced' = [synced EXCEPT ![c] = s]
           /\ UNCHANGED <<Locals, owed>>
  <2> HIDE DEF c, s
  <2>1. QED  BY <1>1, <1>2, <1>3, NextPushKeeps
<1>4. CASE /\ s > synced[c] + 1
           /\ phase' = "pull" /\ pullNum' = DefaultPull
           /\ need' = [x \in {c} |-> <<synced[c] + 1, s>>]
           /\ batches' = {} /\ tail' = {c}
           /\ UNCHANGED <<synced, work, lost, owed>>
  <2> HIDE DEF c, s
  <2>1. QED  BY <1>1, <1>2, <1>4, GapPushKeeps
<1>5. CASE UNCHANGED <<synced, Locals, work, lost, owed>>
  <2>1. SyncerTypeOK /\ NumbersInOrder
    BY DEF SyncerInv
  <2>2. /\ told' = told /\ pushed' = pushed /\ written' = written
    BY <1>1 DEF SyncerServer
  <2>3. SyncerTypeOK'
    <3>1. {told', written', pushed', synced', base'} \subseteq [Convs -> 0..LastSeq]
      BY <1>1, <1>5, <2>1, <2>2, SyncerTypes
    <3>2. inbox' \in Seq(Event) /\ Len(inbox') =< InboxLen
      BY <1>1, Taken
    <3>3. QED  BY <1>1, <1>5, <2>1, <3>1, <3>2 DEF SyncerTypeOK, SyncerStore, Locals
  <2>4. NumbersInOrder'
    BY <1>1, <1>5, <2>1, <2>2, Taken DEF NumbersInOrder, SyncerStore
  <2>5. QED
    BY <1>1, <1>5, <2>1, <2>2, <2>3, <2>4, ElsewhereKeeps, SyncerTypes, SyncerAssumption
<1>6. QED  BY <1>1, <1>3, <1>4, <1>5 DEF TakePush

-----------------------------------------------------------------------------
(* The batches of a synchronisation are apart and within its ranges. *)
LEMMA CutsAre ==
    ASSUME NEW range, NEW num, NEW F \in Cuts(range, num)
    PROVE  /\ UNION F \subseteq DOMAIN range
           /\ \A B, C \in F : B # C => B \cap C = {}
BY DEF Cuts

(* The ranges of the conversations that lag behind. *)
LEMMA LagIs ==
    ASSUME SyncerTypeOK, NEW C \in SUBSET Convs, NEW range,
           range = [c \in Behind(C) |-> <<synced[c] + 1, told[c]>>]
    PROVE  /\ DOMAIN range = Behind(C) /\ Behind(C) \subseteq C
           /\ \A c \in Behind(C) :
                /\ range[c] \in (1..LastSeq) \X (1..LastSeq)
                /\ range[c][1] = synced[c] + 1 /\ range[c][2] = told[c]
                /\ range[c][1] =< range[c][2] /\ synced[c] =< range[c][2]
<1>1. /\ synced \in [Convs -> 0..LastSeq] /\ told \in [Convs -> 0..LastSeq]
      /\ LastSeq \in Nat
  BY SyncerTypes, SyncerAssumption
<1>2. \A c \in Behind(C) : c \in C /\ told[c] > synced[c]
  BY DEF Behind
<1>3. QED  BY <1>1, <1>2

(* The ranges of a synchronisation begin after what counts as synchronised  *)
(* and end at what the server told.                                         *)
LEMMA CompareSeqsKeeps ==
    ASSUME SyncerInv, CompareSeqs
    PROVE  SyncerInv'
<1> DEFINE range == [c \in Behind(Convs) |-> <<synced[c] + 1, told[c]>>]
<1>1. /\ phase = "max" /\ Pulling(range, pullNum, "pull") /\ owed' = FALSE
      /\ UNCHANGED <<SyncerServer, online, inbox, synced, reinstalled, syncing,
                     work, SyncerStore, events, lost, base>>
  BY DEF CompareSeqs
<1>2. SyncerTypeOK /\ NumbersInOrder
  BY DEF SyncerInv
<1>3. told' = told /\ pushed' = pushed /\ written' = written
  BY <1>1 DEF SyncerServer
<1>4. {told', written', pushed', synced', base'} \subseteq [Convs -> 0..LastSeq]
  BY <1>1, <1>2, <1>3, SyncerTypes
<1>5. NumbersInOrder'
  BY <1>1, <1>2, <1>3 DEF NumbersInOrder, SyncerStore
<1>6. /\ DOMAIN range \subseteq Convs
      /\ \A c \in DOMAIN range :
           /\ range[c] \in (1..LastSeq) \X (1..LastSeq)
           /\ range[c][1] = synced[c] + 1 /\ range[c][2] = told[c]
           /\ range[c][1] =< range[c][2]
  BY <1>2, LagIs
<1>7. CASE ReturnToLoop
  <2>1. /\ phase' = "idle" /\ need' = <<>> /\ pullNum' = DefaultPull
        /\ batches' = {} /\ tail' = {} /\ DOMAIN need' = {}
    BY <1>7 DEF ReturnToLoop
  <2>2. SyncerTypeOK'
    BY <1>1, <1>2, <1>4, <2>1 DEF SyncerTypeOK, SyncerStore
  <2>3. QED  BY <1>1, <1>3, <1>5, <2>1, <2>2, IdleKeeps
<1>8. ASSUME NEW F \in Cuts(range, pullNum),
             need' = range, pullNum' = pullNum, phase' = "pull",
             tail' = DOMAIN range \ UNION F, batches' = F
      PROVE  SyncerInv'
  <2> HIDE DEF range
  <2>1. /\ UNION F \subseteq DOMAIN range
        /\ \A B, C \in F : B # C => B \cap C = {}
    BY CutsAre
  <2>2. batches' \subseteq SUBSET Convs /\ tail' \subseteq Convs
    BY <1>6, <1>8, <2>1
  <2>3. SyncerTypeOK'
    BY <1>1, <1>2, <1>4, <1>6, <1>8, <2>2 DEF SyncerTypeOK, SyncerStore
  <2>4. /\ tail' \cup UNION batches' \subseteq DOMAIN need'
        /\ \A B \in batches' : B \cap tail' = {}
    BY <1>8, <2>1
  <2>5. \A c \in DOMAIN need' :
          /\ c \in Convs /\ need'[c][1] = synced[c] + 1
          /\ need'[c][1] =< need'[c][2] /\ need'[c][2] =< told[c]
    <3>1. \A c \in Convs : told[c] =< told[c]
      BY <1>2, SyncerTypes, SyncerAssumption
    <3>2. QED  BY <1>6, <1>8, <3>1
  <2>6. QED  BY <1>1, <1>3, <1>5, <1>8, <2>1, <2>3, <2>4, <2>5, PullBegins
<1>9. QED
  <2> HIDE DEF range
  <2>1. QED  BY <1>1, <1>7, <1>8 DEF Pulling

(* After a new installation notifications count as synchronised up to what  *)
(* the server told, and the chats that lag behind are pulled.               *)
LEMMA CompareSeqsReinstalledKeeps ==
    ASSUME SyncerInv, CompareSeqsReinstalled
    PROVE  SyncerInv'
<1> DEFINE range == [c \in Behind(Chats) |-> <<synced[c] + 1, told[c]>>]
           new == {n \in Notices : told[n] # 0}
<1>1. /\ phase = "max"
      /\ synced' = [c \in Convs |-> IF c \in new THEN told[c] ELSE synced[c]]
      /\ noticeSeq' = [n \in Notices |->
                         IF n \in new THEN told[n] ELSE noticeSeq[n]]
      /\ base' = [c \in Convs |-> IF c \in new THEN told[c] ELSE base[c]]
      /\ Pulling(range, pullNum, "reinstall")
      /\ reinstalled' \in BOOLEAN /\ owed' = FALSE
      /\ UNCHANGED <<SyncerServer, online, inbox, syncing, work, local,
                     handling, handled, events, lost>>
  BY DEF CompareSeqsReinstalled
<1>2. /\ SyncerTypeOK /\ NumbersInOrder /\ QueueInOrder /\ BatchesApart
      /\ NothingSkippedByStore /\ NothingSkipped /\ LatestReached
  BY DEF SyncerInv
<1>3. told' = told /\ pushed' = pushed /\ written' = written
  BY <1>1 DEF SyncerServer
<1>4. /\ synced \in [Convs -> 0..LastSeq] /\ told \in [Convs -> 0..LastSeq]
      /\ base \in [Convs -> 0..LastSeq] /\ noticeSeq \in [Notices -> 0..LastSeq]
      /\ pushed \in [Convs -> 0..LastSeq] /\ written \in [Convs -> 0..LastSeq]
      /\ LastSeq \in Nat /\ Notices \subseteq Convs /\ Chats \subseteq Convs
      /\ Chats \cap Notices = {}
  BY <1>2, SyncerTypes, SyncerAssumption DEF SyncerTypeOK, Convs
<1>5. /\ synced' \in [Convs -> 0..LastSeq] /\ base' \in [Convs -> 0..LastSeq]
      /\ noticeSeq' \in [Notices -> 0..LastSeq]
  BY <1>1, <1>4
<1>6. /\ \A n \in new : synced'[n] = told[n] /\ base'[n] = told[n] /\ noticeSeq'[n] = told[n]
      /\ \A c \in Convs : c \notin new => synced'[c] = synced[c] /\ base'[c] = base[c]
      /\ \A n \in Notices : n \notin new => noticeSeq'[n] = noticeSeq[n]
      /\ \A c \in Chats : synced'[c] = synced[c]
  BY <1>1, <1>4
<1>7. {told', written', pushed', synced', base'} \subseteq [Convs -> 0..LastSeq]
  BY <1>3, <1>4, <1>5
<1>8. \A c \in Convs : synced[c] =< synced'[c] /\ synced'[c] =< told[c]
  BY <1>2, <1>4, <1>6 DEF NumbersInOrder
<1>9. NumbersInOrder'
  <2>1. \A n \in Notices : noticeSeq'[n] =< synced'[n]
    BY <1>2, <1>4, <1>6 DEF NumbersInOrder
  <2>2. QED  BY <1>1, <1>2, <1>3, <1>6, <1>8, <2>1 DEF NumbersInOrder
<1>10. Queued' = Queued
  BY <1>1 DEF Queued, Pairs
<1>11. QueueInOrder'
  <2>1. ASSUME NEW i \in DOMAIN work, NEW c \in Convs, NEW s \in Seqs,
               <<c, s>> \in Pairs(work[i])
        PROVE  /\ s =< synced'[c]
               /\ c \in Chats => \A t \in Seqs : <<c, t>> \in local => t < s
               /\ c \in Notices => noticeSeq'[c] < s \/ s =< base'[c]
               /\ \A j \in 1 .. i - 1 : \A t \in Seqs :
                    <<c, t>> \in Pairs(work[j]) => t < s
    <3>1. /\ s =< synced[c]
          /\ c \in Chats => \A t \in Seqs : <<c, t>> \in local => t < s
          /\ c \in Notices => noticeSeq[c] < s \/ s =< base[c]
          /\ \A j \in 1 .. i - 1 : \A t \in Seqs :
               <<c, t>> \in Pairs(work[j]) => t < s
      BY <1>2, <2>1 DEF QueueInOrder
    <3>2. s =< synced'[c] /\ (c \in new => s =< base'[c])
      BY <1>4, <1>5, <1>6, <1>8, <3>1 DEF Seqs
    <3>3. QED  BY <1>6, <3>1, <3>2
  <2>2. QED  BY <1>1, <2>1 DEF QueueInOrder, Pairs
<1>12. NothingSkippedByStore'
  <2>1. ASSUME NEW n \in Notices, NEW s \in Seqs, base'[n] < s, s =< noticeSeq'[n]
        PROVE  <<n, s>> \in Carried
    <3>1. n \notin new
      BY <1>4, <1>6, <2>1 DEF Seqs
    <3>2. QED  BY <1>2, <1>4, <1>6, <2>1, <3>1 DEF NothingSkippedByStore
  <2>2. QED  BY <1>1, <2>1 DEF NothingSkippedByStore, Carried
<1>13. NothingSkipped'
  <2>1. ASSUME NEW n \in Notices, NEW s \in Seqs, base'[n] < s, s =< synced'[n]
        PROVE  <<n, s>> \in Carried \cup Queued
    <3>1. n \notin new
      BY <1>4, <1>6, <2>1 DEF Seqs
    <3>2. QED  BY <1>2, <1>4, <1>6, <2>1, <3>1 DEF NothingSkipped
  <2>2. QED  BY <1>1, <1>10, <2>1 DEF NothingSkipped, Carried
<1>14. \A c \in Chats : Reached(c, synced[c])
  BY <1>1, <1>2 DEF LatestReached
<1>15. /\ DOMAIN range \subseteq Chats
       /\ \A c \in DOMAIN range :
            /\ range[c] \in (1..LastSeq) \X (1..LastSeq)
            /\ range[c][1] = synced[c] + 1 /\ range[c][2] = told[c]
            /\ range[c][1] =< range[c][2] /\ synced[c] =< range[c][2]
  BY <1>2, <1>4, LagIs
<1>16. CASE ReturnToLoop
  <2>1. /\ phase' = "idle" /\ need' = <<>> /\ pullNum' = DefaultPull
        /\ batches' = {} /\ tail' = {} /\ DOMAIN need' = {}
    BY <1>16 DEF ReturnToLoop
  <2>2. SyncerTypeOK'
    BY <1>1, <1>2, <1>5, <1>7, <2>1 DEF SyncerTypeOK
  <2>3. RangesAreNew' /\ BatchesApart'
    BY <2>1 DEF RangesAreNew, BatchesApart, ToPull
  <2>4. LatestReached'
    BY <1>1, <1>6, <1>10, <1>14, <2>1 DEF LatestReached, Reached, Kept
  <2>5. QED
    BY <1>9, <1>11, <1>12, <1>13, <2>2, <2>3, <2>4 DEF SyncerInv
<1>17. ASSUME NEW F \in Cuts(range, pullNum),
              need' = range, pullNum' = pullNum, phase' = "reinstall",
              tail' = DOMAIN range \ UNION F, batches' = F \cup {tail'}
       PROVE  SyncerInv'
  <2> HIDE DEF range, new
  <2>1. /\ UNION F \subseteq DOMAIN range
        /\ \A B, C \in F : B # C => B \cap C = {}
    BY CutsAre
  <2>2. UNION batches' = DOMAIN need'
    <3>1. UNION batches' = (UNION F) \cup tail'
      BY <1>17
    <3>2. QED  BY <1>17, <2>1, <3>1
  <2>3. batches' \subseteq SUBSET Convs /\ tail' \subseteq Convs
    BY <1>4, <1>15, <1>17, <2>1, <2>2
  <2>4. SyncerTypeOK'
    BY <1>1, <1>2, <1>4, <1>5, <1>7, <1>15, <1>17, <2>3 DEF SyncerTypeOK
  <2>5. RangesAreNew'
    <3>1. ASSUME NEW c \in DOMAIN range, NEW s \in Seqs, <<c, s>> \in local \cup Queued
          PROVE  s < range[c][1]
      <4>1. c \in Chats /\ c \in Convs /\ range[c][1] = synced[c] + 1
        BY <1>4, <1>15
      <4>2. s =< synced[c]
        BY <1>2, <3>1, <4>1, QueuedIsSynced DEF NumbersInOrder
      <4>3. QED  BY <1>4, <4>1, <4>2 DEF Seqs
    <3>2. ToPull' = DOMAIN need'
      BY <1>17, <2>2 DEF ToPull
    <3>3. QED  BY <1>1, <1>10, <1>15, <1>17, <3>1, <3>2 DEF RangesAreNew
  <2>6. BatchesApart'
    <3>1. \A c \in DOMAIN need' : /\ need'[c][2] =< told'[c]
                                  /\ c \in Chats /\ synced'[c] =< need'[c][2]
      <4>1. \A c \in Convs : told[c] =< told[c]
        BY <1>4
      <4>2. QED  BY <1>3, <1>4, <1>6, <1>15, <1>17, <4>1
    <3>2. \A B, C \in batches' : B # C => B \cap C = {}
      BY <1>17, <2>1
    <3>3. QED  BY <1>17, <3>1, <3>2 DEF BatchesApart
  <2>7. LatestReached'
    BY <1>1, <1>6, <1>10, <1>14, <1>17, <2>2 DEF LatestReached, Reached, Kept
  <2>8. QED
    BY <1>9, <1>11, <1>12, <1>13, <2>4, <2>5, <2>6, <2>7 DEF SyncerInv
<1>18. QED
  <2> HIDE DEF range, new
  <2>1. QED  BY <1>1, <1>16, <1>17 DEF Pulling

-----------------------------------------------------------------------------
(* What a pull may count on: the ranges of its conversations, and their     *)
(* answers, are above all that was handed on.                               *)
LEMMA RangeOf ==
    ASSUME SyncerInv, NEW c \in ToPull
    PROVE  /\ c \in Convs /\ c \in DOMAIN need /\ need[c] \in Seqs \X Seqs
           /\ need[c][1] =< need[c][2] /\ need[c][2] =< told[c]
           /\ synced[c] =< need[c][2]
           /\ Answer(c) \subseteq Seqs /\ need[c][2] \in Answer(c)
           /\ \A s \in Answer(c) : /\ need[c][1] =< s /\ s =< need[c][2]
                                   /\ \A t \in Seqs : <<c, t>> \in local \cup Queued => t < s
           /\ c \in Notices => /\ Answer(c) = need[c][1] .. need[c][2]
                               /\ need[c][1] = synced[c] + 1
                               /\ \A s \in Answer(c) : noticeSeq[c] < s
<1>1. SyncerTypeOK /\ RangesAreNew /\ BatchesApart /\ NumbersInOrder
  BY DEF SyncerInv
<1>2. /\ c \in DOMAIN need /\ c \in Convs /\ need[c] \in Seqs \X Seqs
      /\ need[c][1] =< need[c][2] /\ need[c][2] =< told[c]
      /\ \A s \in Seqs : <<c, s>> \in local \cup Queued => s < need[c][1]
  BY <1>1 DEF SyncerTypeOK, RangesAreNew, BatchesApart, Seqs
<1>3. /\ need[c][1] \in Nat /\ need[c][2] \in Nat /\ synced[c] \in Nat /\ LastSeq \in Nat
      /\ need[c][1] >= 1 /\ need[c][2] =< LastSeq
  BY <1>1, <1>2, SyncerTypes, SyncerAssumption DEF Seqs
<1>4. /\ Answer(c) \subseteq Seqs /\ need[c][2] \in Answer(c)
      /\ \A s \in Answer(c) : need[c][1] =< s /\ s =< need[c][2]
      /\ c \in Notices => Answer(c) = need[c][1] .. need[c][2]
  BY <1>1, <1>2, AnswerIs
<1>5. phase \in {"pull", "reinstall"}
  BY DEF ToPull
<1>6. phase = "pull" => need[c][1] = synced[c] + 1
  BY <1>1 DEF RangesAreNew
<1>7. phase = "reinstall" => c \in Chats /\ synced[c] =< need[c][2]
  BY <1>1, <1>2 DEF BatchesApart
<1>8. synced[c] =< need[c][2]
  BY <1>2, <1>3, <1>5, <1>6, <1>7
<1>9. \A s \in Answer(c), t \in Seqs : <<c, t>> \in local \cup Queued => t < s
  BY <1>2, <1>3, <1>4 DEF Seqs
<1>10. c \in Notices => need[c][1] = synced[c] + 1
  BY <1>5, <1>6, <1>7, SyncerAssumption
<1>11. c \in Notices => \A s \in Answer(c) : noticeSeq[c] < s
  <2>1. c \in Notices => noticeSeq[c] =< synced[c] /\ noticeSeq[c] \in Nat
    BY <1>1, SyncerAssumption DEF NumbersInOrder, SyncerTypeOK
  <2>2. QED  BY <1>3, <1>4, <1>10, <2>1 DEF Seqs
<1>12. QED  BY <1>2, <1>4, <1>8, <1>9, <1>10, <1>11

(* The answer for a batch is handed on: of every conversation of the batch  *)
(* what the answer holds is in the queue or lost.                           *)
LEMMA PulledIs ==
    ASSUME SyncerInv, NEW B \in SUBSET ToPull, NEW marked, marked \subseteq DOMAIN need,
           B \subseteq marked, \A c \in marked : synced[c] =< need[c][2],
           Pulled(B, marked), UNCHANGED <<local, noticeSeq, base>>
    PROVE  /\ synced' \in [Convs -> 0..LastSeq]
           /\ \A c \in Convs : synced[c] =< synced'[c]
           /\ \A c \in marked : synced'[c] = need[c][2]
           /\ \A c \in Convs : c \notin marked => synced'[c] = synced[c]
           /\ work' \in Seq(Commands) /\ Len(work') =< WorkLen
           /\ lost \subseteq lost' /\ lost' \subseteq Convs \X (1..LastSeq)
           /\ events' \in 0..Events
           /\ QueueInOrder' /\ Queued \subseteq Queued'
           /\ \A c, s : <<c, s>> \in Queued' => <<c, s>> \in Queued \/ c \in B
           /\ \A c \in B : \A s \in Answer(c) : <<c, s>> \in Queued' \cup lost'
<1>1. SyncerTypeOK /\ RangesAreNew
  BY DEF SyncerInv
<1>2. /\ synced \in [Convs -> 0..LastSeq] /\ LastSeq \in Nat /\ Events \in Nat
      /\ Chats \cap Notices = {} /\ Convs = Chats \cup Notices
  BY <1>1, SyncerTypes, SyncerAssumption DEF Convs
<1>3. \A c \in DOMAIN need : c \in Convs /\ need[c][2] \in 1..LastSeq
  BY <1>1 DEF SyncerTypeOK
<1>4. PICK skipped \in SUBSET B :
        /\ IF skipped = {} THEN UNCHANGED events ELSE Spend
        /\ Send([c \in (B \cap Chats) \ skipped |-> Answer(c)],
                [n \in (B \cap Notices) \ skipped |-> Answer(n)],
                Holes(B)
                  \cup {p \in skipped \X (1..LastSeq) : p[2] \in Answer(p[1])})
        /\ synced' = [c \in Convs |->
                        IF c \in marked THEN need[c][2] ELSE synced[c]]
  BY DEF Pulled
<1> DEFINE S1 == (B \cap Chats) \ skipped
           S2 == (B \cap Notices) \ skipped
           m1 == [c \in S1 |-> Answer(c)]
           m2 == [n \in S2 |-> Answer(n)]
           out == {p \in skipped \X (1..LastSeq) : p[2] \in Answer(p[1])}
           besides == Holes(B) \cup out
<1>5. /\ synced' \in [Convs -> 0..LastSeq]
      /\ \A c \in marked : synced'[c] = need[c][2]
      /\ \A c \in Convs : c \notin marked => synced'[c] = synced[c]
  BY <1>2, <1>3, <1>4
<1>6. \A c \in Convs : synced[c] =< synced'[c]
  <2>1. ASSUME NEW c \in Convs
        PROVE  synced[c] =< synced'[c]
    <3>1. CASE c \in marked
      BY <1>5, <3>1
    <3>2. CASE c \notin marked
      <4>1. synced'[c] = synced[c] /\ synced[c] \in Nat
        BY <1>2, <1>5, <3>2
      <4>2. QED  BY <4>1
    <3>3. QED  BY <3>1, <3>2
  <2>2. QED  BY <2>1
<1>7. \A c \in B : Answer(c) \subseteq Seqs
  BY RangeOf
<1>8. /\ m1 \in Commands /\ m2 \in Commands /\ DOMAIN m1 \cap DOMAIN m2 = {}
      /\ \A c, s : <<c, s>> \in Pairs(m1) <=> c \in S1 /\ s \in Answer(c)
      /\ \A c, s : <<c, s>> \in Pairs(m2) <=> c \in S2 /\ s \in Answer(c)
  <2>1. S1 \in SUBSET Chats /\ S2 \in SUBSET Notices
    OBVIOUS
  <2>2. m1 \in [S1 -> SUBSET Seqs] /\ m2 \in [S2 -> SUBSET Seqs]
    BY <1>7
  <2>3. (\A c \in S1 : m1[c] = Answer(c)) /\ (\A c \in S2 : m2[c] = Answer(c))
    OBVIOUS
  <2>4. DOMAIN m1 = S1 /\ DOMAIN m2 = S2 /\ S1 \cap S2 = {}
    BY <1>2
  <2> HIDE DEF m1, m2, S1, S2
  <2>5. /\ m1 \in Commands
        /\ \A c, s : <<c, s>> \in Pairs(m1) <=> c \in S1 /\ s \in m1[c]
    BY <2>1, <2>2, CommandTypes
  <2>6. /\ m2 \in Commands
        /\ \A c, s : <<c, s>> \in Pairs(m2) <=> c \in S2 /\ s \in m2[c]
    BY <2>1, <2>2, CommandTypes
  <2>7. QED  BY <2>3, <2>4, <2>5, <2>6
<1>9. Send(m1, m2, besides)
  BY <1>4
<1>10. \A m \in {m1, m2} : \A c \in Convs, s \in Seqs : <<c, s>> \in Pairs(m) =>
         c \in B /\ s \in Answer(c)
  <2>1. S1 \subseteq B /\ S2 \subseteq B
    OBVIOUS
  <2> HIDE DEF m1, m2, S1, S2
  <2>2. QED  BY <1>8, <2>1
<1>11. \A m \in {m1, m2} : \A c \in Convs, s \in Seqs : <<c, s>> \in Pairs(m) =>
         /\ s =< synced'[c]
         /\ \A t \in Seqs : <<c, t>> \in local \cup Queued => t < s
         /\ c \in Notices => noticeSeq[c] < s
  <2> HIDE DEF m1, m2
  <2>1. ASSUME NEW m \in {m1, m2}, NEW c \in Convs, NEW s \in Seqs,
               <<c, s>> \in Pairs(m)
        PROVE  /\ s =< synced'[c]
               /\ \A t \in Seqs : <<c, t>> \in local \cup Queued => t < s
               /\ c \in Notices => noticeSeq[c] < s
    <3>1. c \in B /\ s \in Answer(c)
      BY <1>10, <2>1
    <3>2. c \in ToPull /\ synced'[c] = need[c][2]
      BY <1>5, <3>1
    <3>3. QED  BY <3>1, <3>2, RangeOf
  <2>2. QED  BY <2>1
<1>12. /\ work' \in Seq(Commands) /\ Len(work') =< WorkLen
       /\ lost \cup besides \subseteq lost'
       /\ lost' \subseteq lost \cup besides \cup Pairs(m1) \cup Pairs(m2)
  <2> HIDE DEF m1, m2, besides
  <2>1. QED  BY <1>1, <1>8, <1>9, SendSplits
<1>13. /\ QueueInOrder' /\ Queued \subseteq Queued'
       /\ Pairs(m1) \cup Pairs(m2) \subseteq Queued' \cup lost'
       /\ Queued' \subseteq Queued \cup Pairs(m1) \cup Pairs(m2)
  <2> HIDE DEF m1, m2, besides
  <2>1. QED  BY <1>5, <1>6, <1>8, <1>9, <1>11, HandedOn
<1>14. lost' \subseteq Convs \X (1..LastSeq)
  <2>1. besides \subseteq Convs \X (1..LastSeq)
    <3>1. B \subseteq Convs /\ skipped \subseteq Convs
      BY RangeOf
    <3>2. QED  BY <3>1 DEF Holes
  <2>2. lost \subseteq Convs \X (1..LastSeq)
    BY <1>1 DEF SyncerTypeOK
  <2>3. \A m \in Commands : Pairs(m) \subseteq Convs \X (1..LastSeq)
    BY CommandPairs DEF Seqs
  <2> HIDE DEF m1, m2, besides
  <2>4. QED  BY <1>8, <1>12, <2>1, <2>2, <2>3
<1>15. events' \in 0..Events
  <2>1. events \in 0..Events
    BY <1>1 DEF SyncerTypeOK
  <2>2. QED  BY <1>2, <1>4, <2>1 DEF Spend
<1>16. \A c, s : <<c, s>> \in Queued' => <<c, s>> \in Queued \/ c \in B
  <2>1. S1 \subseteq B /\ S2 \subseteq B
    OBVIOUS
  <2> HIDE DEF m1, m2, S1, S2
  <2>2. QED  BY <1>8, <1>13, <2>1
<1>17. \A c \in B : \A s \in Answer(c) : <<c, s>> \in Queued' \cup lost'
  <2>1. ASSUME NEW c \in B, NEW s \in Answer(c)
        PROVE  <<c, s>> \in Queued' \cup lost'
    <3>1. s \in Seqs /\ c \in Convs
      BY <1>7, RangeOf
    <3>2. CASE c \in skipped
      <4>1. <<c, s>> \in out
        BY <2>1, <3>1, <3>2 DEF Seqs
      <4>2. QED  BY <1>12, <4>1
    <3>3. CASE c \notin skipped
      <4>1. c \in S1 \/ c \in S2
        BY <1>2, <3>1, <3>3
      <4> HIDE DEF m1, m2, S1, S2
      <4>2. <<c, s>> \in Pairs(m1) \cup Pairs(m2)
        BY <1>8, <4>1
      <4>3. QED  BY <1>13, <4>2
    <3>4. QED  BY <3>2, <3>3
  <2>2. QED  BY <2>1
<1>18. lost \subseteq lost'
  BY <1>12
<1>19. QED
  BY <1>5, <1>6, <1>12, <1>13, <1>14, <1>15, <1>16, <1>17, <1>18

(* After it no notification is skipped. *)
LEMMA AfterPull ==
    ASSUME SyncerInv, NEW B \in SUBSET ToPull, NEW marked, marked \subseteq DOMAIN need,
           B \subseteq marked, \A c \in marked : synced[c] =< need[c][2],
           \A n \in Notices : n \in marked => n \in B,
           Pulled(B, marked), UNCHANGED <<SyncerServer, inbox, SyncerStore, base>>
    PROVE  NumbersInOrder' /\ NothingSkippedByStore' /\ NothingSkipped'
<1>1. /\ SyncerTypeOK /\ NumbersInOrder /\ BatchesApart
      /\ NothingSkippedByStore /\ NothingSkipped
  BY DEF SyncerInv
<1>2. /\ told' = told /\ pushed' = pushed /\ local' = local
      /\ noticeSeq' = noticeSeq /\ handling' = handling /\ handled' = handled
      /\ base' = base /\ inbox' = inbox
  BY DEF SyncerServer, SyncerStore
<1>3. /\ synced' \in [Convs -> 0..LastSeq]
      /\ \A c \in Convs : synced[c] =< synced'[c]
      /\ \A c \in marked : synced'[c] = need[c][2]
      /\ \A c \in Convs : c \notin marked => synced'[c] = synced[c]
      /\ lost \subseteq lost' /\ Queued \subseteq Queued'
      /\ \A c \in B : \A s \in Answer(c) : <<c, s>> \in Queued' \cup lost'
  BY <1>2, PulledIs
<1>4. /\ synced \in [Convs -> 0..LastSeq] /\ told \in [Convs -> 0..LastSeq]
      /\ noticeSeq \in [Notices -> 0..LastSeq] /\ LastSeq \in Nat
      /\ base \in [Convs -> 0..LastSeq]
      /\ Notices \subseteq Convs /\ Chats \subseteq Convs
  BY <1>1, SyncerTypes, SyncerAssumption DEF SyncerTypeOK, Convs
<1>5. NumbersInOrder'
  <2>1. \A c \in Convs : synced'[c] =< told[c]
    <3>1. \A c \in Convs : synced[c] =< told[c]
      BY <1>1 DEF NumbersInOrder
    <3>2. \A c \in marked : need[c][2] =< told[c]
      BY <1>1 DEF BatchesApart
    <3>3. QED  BY <1>3, <3>1, <3>2
  <2>2. \A n \in Notices : noticeSeq[n] =< synced'[n]
    BY <1>1, <1>3, <1>4 DEF NumbersInOrder
  <2>3. \A c \in Chats, s \in Seqs : <<c, s>> \in local => s =< synced'[c]
    BY <1>1, <1>3, <1>4 DEF NumbersInOrder, Seqs
  <2>4. QED  BY <1>1, <1>2, <2>1, <2>2, <2>3 DEF NumbersInOrder
<1>6. NothingSkippedByStore'
  BY <1>1, <1>2, <1>3 DEF NothingSkippedByStore, Carried
<1>7. NothingSkipped'
  <2>1. ASSUME NEW n \in Notices, NEW s \in Seqs, base[n] < s, s =< synced'[n]
        PROVE  <<n, s>> \in Carried' \cup Queued'
    <3>1. CASE s =< synced[n]
      BY <1>1, <1>2, <1>3, <2>1, <3>1 DEF NothingSkipped, Carried
    <3>2. CASE ~ (s =< synced[n])
      <4>1. n \in marked /\ n \in B /\ s =< need[n][2]
        BY <1>3, <1>4, <2>1, <3>2 DEF Seqs
      <4>2. /\ need[n] \in Seqs \X Seqs
            /\ Answer(n) = need[n][1] .. need[n][2] /\ need[n][1] = synced[n] + 1
        BY <4>1, RangeOf
      <4>3. s \in Answer(n)
        BY <1>4, <3>2, <4>1, <4>2 DEF Seqs
      <4>4. QED  BY <1>3, <4>1, <4>3 DEF Carried
    <3>3. QED  BY <3>1, <3>2
  <2>2. QED  BY <1>2, <2>1 DEF NothingSkipped
<1>8. QED  BY <1>5, <1>6, <1>7

(* A batch of a synchronisation: the ranges of the others are as they were. *)
LEMMA PullBatchKeeps ==
    ASSUME SyncerInv, PullBatch
    PROVE  SyncerInv'
<1>1. PICK B \in (IF batches = {} THEN {tail} ELSE batches) :
        /\ Pulled(B, B)
        /\ LET left == batches \ {B}
               rest == IF batches = {} THEN {} ELSE tail
           IN IF left = {} /\ rest = {} THEN ReturnToLoop
              ELSE /\ batches' = left /\ tail' = rest
                   /\ UNCHANGED <<phase, need, pullNum>>
  BY DEF PullBatch
<1>2. /\ phase = "pull"
      /\ UNCHANGED <<SyncerServer, online, inbox, reinstalled, syncing,
                     SyncerStore, base, owed>>
  BY DEF PullBatch
<1>3. /\ SyncerTypeOK /\ NumbersInOrder /\ BatchesApart /\ RangesAreNew
      /\ NothingSkippedByStore /\ NothingSkipped /\ LatestReached
  BY DEF SyncerInv
<1>4. /\ told' = told /\ pushed' = pushed /\ written' = written /\ local' = local
      /\ noticeSeq' = noticeSeq /\ handling' = handling /\ handled' = handled
      /\ base' = base /\ inbox' = inbox
  BY <1>2 DEF SyncerServer, SyncerStore
<1>5. /\ B \in SUBSET ToPull /\ ToPull = tail \cup UNION batches
      /\ B \subseteq DOMAIN need /\ \A c \in B : synced[c] =< need[c][2]
  <2>1. ToPull = tail \cup UNION batches
    BY <1>2 DEF ToPull
  <2>2. B \in SUBSET ToPull
    BY <2>1
  <2>3. QED  BY <2>1, <2>2, RangeOf
<1>6. /\ synced' \in [Convs -> 0..LastSeq]
      /\ \A c \in B : synced'[c] = need[c][2]
      /\ \A c \in Convs : c \notin B => synced'[c] = synced[c]
      /\ work' \in Seq(Commands) /\ Len(work') =< WorkLen
      /\ lost \subseteq lost' /\ lost' \subseteq Convs \X (1..LastSeq)
      /\ events' \in 0..Events
      /\ QueueInOrder' /\ Queued \subseteq Queued'
      /\ \A c, s : <<c, s>> \in Queued' => <<c, s>> \in Queued \/ c \in B
      /\ \A c \in B : \A s \in Answer(c) : <<c, s>> \in Queued' \cup lost'
  BY <1>1, <1>4, <1>5, PulledIs
<1>7. NumbersInOrder' /\ NothingSkippedByStore' /\ NothingSkipped'
  BY <1>1, <1>2, <1>5, AfterPull
<1>8. \/ /\ phase' = "idle" /\ need' = <<>> /\ pullNum' = DefaultPull
         /\ batches' = {} /\ tail' = {}
      \/ /\ phase' = phase /\ need' = need /\ pullNum' = pullNum
         /\ batches' = batches \ {B} /\ tail' = tail /\ batches # {}
  BY <1>1 DEF ReturnToLoop
<1>9. SyncerTypeOK'
  <2>1. {told', written', pushed', synced', base'} \subseteq [Convs -> 0..LastSeq]
    BY <1>3, <1>4, <1>6, SyncerTypes
  <2>2. /\ phase' \in {"idle", "max", "pull", "reinstall"}
        /\ DOMAIN need' \subseteq Convs
        /\ \A c \in DOMAIN need' : need'[c] \in (1..LastSeq) \X (1..LastSeq)
        /\ pullNum' \in {ConnectPull, DefaultPull}
        /\ batches' \subseteq SUBSET Convs /\ tail' \subseteq Convs
    <3>1. DOMAIN <<>> = {}
      OBVIOUS
    <3>2. QED  BY <1>3, <1>8, <3>1 DEF SyncerTypeOK
  <2>3. QED  BY <1>2, <1>3, <1>4, <1>6, <2>1, <2>2 DEF SyncerTypeOK
<1>10. \A c \in ToPull' : /\ c \in ToPull /\ c \notin B
                          /\ phase' = phase /\ need' = need
  <2>1. CASE phase' = "idle"
    BY <2>1 DEF ToPull
  <2>2. CASE /\ phase' = phase /\ need' = need /\ batches' = batches \ {B}
             /\ tail' = tail /\ batches # {}
    <3>1. ToPull' = tail \cup UNION (batches \ {B})
      BY <1>2, <2>2 DEF ToPull
    <3>2. B \in batches /\ B \cap tail = {} /\ \A C \in batches : C # B => C \cap B = {}
      BY <1>2, <1>3, <2>2 DEF BatchesApart
    <3>3. QED  BY <1>5, <2>2, <3>1, <3>2
  <2>3. QED  BY <1>8, <2>1, <2>2
<1>11. RangesAreNew'
  <2>1. ASSUME NEW c \in ToPull'
        PROVE  /\ c \in DOMAIN need' /\ need'[c][1] =< need'[c][2]
               /\ phase' = "pull" => need'[c][1] = synced'[c] + 1
               /\ \A s \in Seqs : <<c, s>> \in local' \cup Queued' => s < need'[c][1]
    <3>1. c \in ToPull /\ c \notin B /\ phase' = phase /\ need' = need /\ c \in Convs
      BY <1>10, RangeOf
    <3>2. synced'[c] = synced[c]
      BY <1>6, <3>1
    <3>3. \A s \in Seqs : <<c, s>> \in local' \cup Queued' => <<c, s>> \in local \cup Queued
      BY <1>4, <1>6, <3>1
    <3>4. QED  BY <1>3, <3>1, <3>2, <3>3 DEF RangesAreNew
  <2>2. QED  BY <2>1 DEF RangesAreNew
<1>12. BatchesApart'
  <2>1. CASE phase' = "idle" /\ need' = <<>> /\ batches' = {}
    BY <2>1 DEF BatchesApart
  <2>2. CASE /\ phase' = phase /\ need' = need /\ batches' = batches \ {B}
             /\ tail' = tail
    BY <1>2, <1>3, <1>4, <2>2 DEF BatchesApart
  <2>3. QED  BY <1>8, <2>1, <2>2
<1>13. LatestReached'
  <2>1. ASSUME NEW c \in Chats
        PROVE  synced'[c] = 0 \/ <<c, synced'[c]>> \in Kept' \cup Queued'
    <3>1. CASE c \in B
      <4>1. need[c][2] \in Answer(c) /\ synced'[c] = need[c][2]
        BY <1>5, <1>6, <3>1, RangeOf
      <4>2. QED  BY <1>6, <3>1, <4>1 DEF Kept
    <3>2. CASE c \notin B
      <4>1. Reached(c, synced[c]) /\ synced'[c] = synced[c]
        BY <1>2, <1>3, <1>6, <3>2 DEF LatestReached, Convs
      <4>2. Kept \subseteq Kept' /\ Queued \subseteq Queued'
        BY <1>4, <1>6 DEF Kept
      <4>3. QED  BY <4>1, <4>2 DEF Reached
    <3>3. QED  BY <3>1, <3>2
  <2>2. phase' # "reinstall"
    BY <1>2, <1>8
  <2>3. QED  BY <2>1, <2>2 DEF LatestReached, Reached
<1>14. QED
  BY <1>6, <1>7, <1>9, <1>11, <1>12, <1>13 DEF SyncerInv

(* What is known in a new installation. *)
LEMMA InReinstall ==
    ASSUME SyncerInv, phase = "reinstall", NEW B \in batches
    PROVE  /\ B \subseteq DOMAIN need /\ ToPull = UNION batches
           /\ B \in SUBSET ToPull
           /\ \A c \in DOMAIN need : c \in Chats /\ c \notin Notices /\ synced[c] =< need[c][2]
           /\ \A C \in batches \ {B} : C \cap B = {}
<1>1. RangesAreNew /\ BatchesApart
  BY DEF SyncerInv
<1>2. ToPull = UNION batches
  BY DEF ToPull
<1>3. B \subseteq DOMAIN need
  BY <1>1, <1>2 DEF RangesAreNew
<1>4. QED  BY <1>1, <1>2, <1>3, SyncerAssumption DEF BatchesApart

(* The end of a batch: it is taken from the others, or all is done. *)
LEMMA ReinstallLeaves ==
    ASSUME SyncerInv, phase = "reinstall", NEW B \in batches,
           ReinstallEnds(batches \ {B})
    PROVE  /\ reinstalled' \in BOOLEAN
           /\ \/ /\ phase' = "idle" /\ need' = <<>> /\ batches' = {}
                 /\ batches = {B} /\ tail' = {} /\ pullNum' = DefaultPull
              \/ /\ phase' = phase /\ need' = need /\ pullNum' = pullNum
                 /\ tail' = tail /\ batches' = batches \ {B}
           /\ \A c \in ToPull' : c \in ToPull /\ c \notin B
           /\ phase' \in {"idle", "max", "pull", "reinstall"}
           /\ DOMAIN need' \subseteq Convs
           /\ \A c \in DOMAIN need' : need'[c] \in (1..LastSeq) \X (1..LastSeq)
           /\ pullNum' \in {ConnectPull, DefaultPull}
           /\ batches' \subseteq SUBSET Convs /\ tail' \subseteq Convs
<1>1. SyncerTypeOK
  BY DEF SyncerInv
<1>2. CASE batches \ {B} = {}
  <2>1. /\ phase' = "idle" /\ need' = <<>> /\ pullNum' = DefaultPull
        /\ batches' = {} /\ tail' = {} /\ reinstalled' = FALSE
    BY <1>2 DEF ReinstallEnds, ReturnToLoop
  <2>2. DOMAIN need' = {} /\ batches = {B}
    BY <1>2, <2>1
  <2>3. ToPull' = {}
    BY <2>1 DEF ToPull
  <2>4. QED  BY <2>1, <2>2, <2>3
<1>3. CASE batches \ {B} # {}
  <2>1. /\ phase' = phase /\ need' = need /\ pullNum' = pullNum /\ tail' = tail
        /\ batches' = batches \ {B} /\ reinstalled' = TRUE
    BY <1>3 DEF ReinstallEnds
  <2>2. ToPull' = UNION (batches \ {B}) /\ ToPull = UNION batches
    BY <2>1 DEF ToPull
  <2>3. \A c \in ToPull' : c \in ToPull /\ c \notin B
    BY <2>2, InReinstall
  <2>4. QED  BY <1>1, <2>1, <2>3 DEF SyncerTypeOK
<1>4. QED  BY <1>2, <1>3

(* A batch of a new installation was pulled: its chats have their newest    *)
(* message, or, where it is the marking one, all chats count as there.      *)
LEMMA ReinstallBatchKeeps ==
    ASSUME SyncerInv, ReinstallBatch
    PROVE  SyncerInv'
<1>1. PICK B \in batches :
        /\ Pulled(B, IF B = tail THEN DOMAIN need ELSE B)
        /\ ReinstallEnds(batches \ {B})
  BY DEF ReinstallBatch
<1>2. /\ phase = "reinstall"
      /\ UNCHANGED <<SyncerServer, online, inbox, syncing, SyncerStore, base,
                     owed>>
  BY DEF ReinstallBatch
<1>3. /\ SyncerTypeOK /\ NumbersInOrder /\ BatchesApart /\ RangesAreNew
      /\ NothingSkippedByStore /\ NothingSkipped /\ LatestReached
  BY DEF SyncerInv
<1>4. /\ told' = told /\ pushed' = pushed /\ written' = written /\ local' = local
      /\ noticeSeq' = noticeSeq /\ handling' = handling /\ handled' = handled
      /\ base' = base /\ inbox' = inbox
  BY <1>2 DEF SyncerServer, SyncerStore
<1>5. PICK marked : /\ marked = IF B = tail THEN DOMAIN need ELSE B
                    /\ Pulled(B, marked)
  BY <1>1
<1>6. /\ B \in SUBSET ToPull /\ B \subseteq marked /\ marked \subseteq DOMAIN need
      /\ \A c \in marked : synced[c] =< need[c][2]
      /\ \A c \in Notices : c \in marked => c \in B
      /\ ToPull = UNION batches
  BY <1>2, <1>5, InReinstall
<1>7. /\ synced' \in [Convs -> 0..LastSeq]
      /\ \A c \in marked : synced'[c] = need[c][2]
      /\ \A c \in Convs : c \notin marked => synced'[c] = synced[c]
      /\ work' \in Seq(Commands) /\ Len(work') =< WorkLen
      /\ lost \subseteq lost' /\ lost' \subseteq Convs \X (1..LastSeq)
      /\ events' \in 0..Events
      /\ QueueInOrder' /\ Queued \subseteq Queued'
      /\ \A c, s : <<c, s>> \in Queued' => <<c, s>> \in Queued \/ c \in B
      /\ \A c \in B : \A s \in Answer(c) : <<c, s>> \in Queued' \cup lost'
  BY <1>4, <1>5, <1>6, PulledIs, ZenonT(60)
<1>8. NumbersInOrder' /\ NothingSkippedByStore' /\ NothingSkipped'
  BY <1>2, <1>5, <1>6, AfterPull
<1>9. /\ reinstalled' \in BOOLEAN
      /\ \/ /\ phase' = "idle" /\ need' = <<>> /\ batches' = {}
            /\ batches = {B} /\ tail' = {} /\ pullNum' = DefaultPull
         \/ /\ phase' = phase /\ need' = need /\ pullNum' = pullNum
            /\ tail' = tail /\ batches' = batches \ {B}
      /\ \A c \in ToPull' : c \in ToPull /\ c \notin B
      /\ phase' \in {"idle", "max", "pull", "reinstall"}
      /\ DOMAIN need' \subseteq Convs
      /\ \A c \in DOMAIN need' : need'[c] \in (1..LastSeq) \X (1..LastSeq)
      /\ pullNum' \in {ConnectPull, DefaultPull}
      /\ batches' \subseteq SUBSET Convs /\ tail' \subseteq Convs
  BY <1>1, <1>2, ReinstallLeaves
<1>10. SyncerTypeOK'
  <2>1. {told', written', pushed', synced', base'} \subseteq [Convs -> 0..LastSeq]
    BY <1>3, <1>4, <1>7, SyncerTypes
  <2>2. QED  BY <1>2, <1>3, <1>4, <1>7, <1>9, <2>1 DEF SyncerTypeOK
<1>11. RangesAreNew'
  <2>1. ASSUME NEW c \in ToPull'
        PROVE  /\ c \in DOMAIN need' /\ need'[c][1] =< need'[c][2]
               /\ phase' # "pull"
               /\ \A s \in Seqs : <<c, s>> \in local' \cup Queued' => s < need'[c][1]
    <3>1. c \in ToPull /\ c \notin B
      BY <1>9
    <3>2. phase' = "reinstall" /\ need' = need
      BY <1>2, <1>9, <2>1 DEF ToPull
    <3>3. \A s \in Seqs : <<c, s>> \in local' \cup Queued' => <<c, s>> \in local \cup Queued
      BY <1>4, <1>7, <3>1
    <3>4. QED  BY <1>3, <3>1, <3>2, <3>3 DEF RangesAreNew
  <2>2. QED  BY <2>1 DEF RangesAreNew
<1>12. BatchesApart'
  <2>1. CASE phase' = "idle" /\ need' = <<>> /\ batches' = {}
    BY <2>1 DEF BatchesApart
  <2>2. CASE /\ phase' = phase /\ need' = need /\ batches' = batches \ {B}
    <3>1. ASSUME NEW c \in DOMAIN need
          PROVE  synced'[c] =< need[c][2]
      <4>1. c \in Convs /\ synced[c] =< need[c][2] /\ need[c][2] \in 1..LastSeq
        BY <1>2, <1>3 DEF SyncerTypeOK, BatchesApart
      <4>2. QED  BY <1>7, <4>1, SyncerAssumption
    <3>2. QED  BY <1>2, <1>3, <1>4, <2>2, <3>1 DEF BatchesApart
  <2>3. QED  BY <1>9, <2>1, <2>2
<1>13. LatestReached'
  <2> DEFINE R(c, s) == s = 0 \/ <<c, s>> \in Kept' \cup Queued'
  <2>1. \A c, s : Reached(c, s) => R(c, s)
    <3>1. Kept \subseteq Kept' /\ Queued \subseteq Queued'
      BY <1>4, <1>7 DEF Kept
    <3>2. QED  BY <3>1 DEF Reached
  <2>2. \A c \in B : R(c, need[c][2]) /\ synced'[c] = need[c][2]
    <3>1. \A c \in B : need[c][2] \in Answer(c)
      BY <1>6, RangeOf
    <3>2. QED  BY <1>6, <1>7, <3>1 DEF Kept
  <2>3. ASSUME NEW c \in Chats
        PROVE  /\ c \in DOMAIN need /\ c \in UNION batches /\ c \notin B =>
                    synced'[c] = need[c][2] \/ R(c, synced'[c])
               /\ c \in DOMAIN need /\ ~ (c \in UNION batches /\ c \notin B) =>
                    R(c, need[c][2]) /\ R(c, synced'[c])
               /\ c \notin DOMAIN need => R(c, synced'[c])
    <3>1. c \in Convs /\ (c \in marked => c \in DOMAIN need)
      BY <1>6 DEF Convs
    <3>2. CASE c \in B
      BY <2>2, <3>2
    <3>3. CASE c \notin B /\ c \in DOMAIN need /\ c \in UNION batches
      <4>1. synced[c] = need[c][2] \/ Reached(c, synced[c])
        BY <1>2, <1>3, <3>3 DEF LatestReached
      <4>2. synced'[c] = need[c][2] \/ synced'[c] = synced[c]
        BY <1>7, <3>1
      <4>3. QED  BY <2>1, <3>3, <4>1, <4>2
    <3>4. CASE c \notin B /\ c \in DOMAIN need /\ c \notin UNION batches
      <4>1. Reached(c, need[c][2]) /\ Reached(c, synced[c])
        BY <1>2, <1>3, <3>4 DEF LatestReached
      <4>2. synced'[c] = need[c][2] \/ synced'[c] = synced[c]
        BY <1>7, <3>1
      <4>3. QED  BY <2>1, <3>4, <4>1, <4>2
    <3>5. CASE c \notin DOMAIN need
      <4>1. Reached(c, synced[c]) /\ synced'[c] = synced[c]
        BY <1>3, <1>7, <3>1, <3>5 DEF LatestReached
      <4>2. c \notin B
        BY <1>6, <3>5
      <4>3. QED  BY <2>1, <3>5, <4>1
    <3>6. QED  BY <3>2, <3>3, <3>4, <3>5
  <2>4. CASE phase' = "idle" /\ batches = {B}
    <3>1. \A c \in Chats : R(c, synced'[c])
      BY <2>3, <2>4
    <3>2. QED  BY <2>4, <3>1 DEF LatestReached, Reached
  <2>5. CASE phase' = phase /\ need' = need /\ batches' = batches \ {B}
    <3>1. \A c : c \in UNION batches' <=> c \in UNION batches /\ c \notin B
      BY <1>2, <2>5, InReinstall
    <3> HIDE DEF R
    <3>2. \A c, s : Reached(c, s)' <=> R(c, s)
      BY DEF Reached, R
    <3>3. QED  BY <1>2, <2>3, <2>5, <3>1, <3>2 DEF LatestReached, Reached, R
  <2>6. QED  BY <1>9, <2>4, <2>5
<1>14. QED
  BY <1>7, <1>8, <1>10, <1>11, <1>12, <1>13 DEF SyncerInv

(* A batch of a new installation failed: its newest messages are lost.      *)
LEMMA ReinstallBatchFailsKeeps ==
    ASSUME SyncerInv, ReinstallBatchFails
    PROVE  SyncerInv'
<1>1. PICK B \in batches :
        /\ lost' = lost \cup {<<c, need[c][2]>> : c \in B}
        /\ ReinstallEnds(batches \ {B})
  BY DEF ReinstallBatchFails
<1>2. /\ phase = "reinstall" /\ RpcFails /\ owed' = TRUE
      /\ UNCHANGED <<SyncerServer, online, inbox, synced, syncing, work,
                     SyncerStore, base>>
  BY DEF ReinstallBatchFails
<1>3. /\ SyncerTypeOK /\ NumbersInOrder /\ QueueInOrder /\ BatchesApart
      /\ RangesAreNew /\ NothingSkippedByStore /\ NothingSkipped /\ LatestReached
  BY DEF SyncerInv
<1>4. /\ told' = told /\ pushed' = pushed /\ written' = written /\ local' = local
      /\ noticeSeq' = noticeSeq /\ handling' = handling /\ handled' = handled
      /\ base' = base /\ inbox' = inbox /\ synced' = synced /\ work' = work
  BY <1>2 DEF SyncerServer, SyncerStore
<1>5. B \subseteq DOMAIN need /\ ToPull = UNION batches
  BY <1>2, InReinstall
<1>6. /\ reinstalled' \in BOOLEAN
      /\ \/ /\ phase' = "idle" /\ need' = <<>> /\ batches' = {}
            /\ batches = {B} /\ tail' = {} /\ pullNum' = DefaultPull
         \/ /\ phase' = phase /\ need' = need /\ pullNum' = pullNum
            /\ tail' = tail /\ batches' = batches \ {B}
      /\ \A c \in ToPull' : c \in ToPull /\ c \notin B
      /\ phase' \in {"idle", "max", "pull", "reinstall"}
      /\ DOMAIN need' \subseteq Convs
      /\ \A c \in DOMAIN need' : need'[c] \in (1..LastSeq) \X (1..LastSeq)
      /\ pullNum' \in {ConnectPull, DefaultPull}
      /\ batches' \subseteq SUBSET Convs /\ tail' \subseteq Convs
  BY <1>1, <1>2, ReinstallLeaves
<1>7. Queued' = Queued
  BY <1>4 DEF Queued, Pairs
<1>8. SyncerTypeOK'
  <2>1. {told', written', pushed', synced', base'} \subseteq [Convs -> 0..LastSeq]
    BY <1>3, <1>4, SyncerTypes
  <2>2. events' \in 0..Events
    BY <1>2, <1>3, SyncerAssumption DEF RpcFails, Spend, SyncerTypeOK
  <2>3. lost' \subseteq Convs \X (1..LastSeq)
    <3>1. \A c \in B : <<c, need[c][2]>> \in Convs \X (1..LastSeq)
      BY <1>3, <1>5 DEF SyncerTypeOK
    <3>2. lost \subseteq Convs \X (1..LastSeq)
      BY <1>3 DEF SyncerTypeOK
    <3>3. QED  BY <1>1, <3>1, <3>2
  <2>4. QED  BY <1>2, <1>3, <1>4, <1>6, <2>1, <2>2, <2>3 DEF SyncerTypeOK
<1>9. NumbersInOrder' /\ QueueInOrder'
  BY <1>3, <1>4 DEF NumbersInOrder, QueueInOrder, Pairs
<1>10. NothingSkippedByStore' /\ NothingSkipped'
  BY <1>1, <1>3, <1>4, <1>7 DEF NothingSkippedByStore, NothingSkipped, Carried
<1>11. RangesAreNew'
  <2>1. ASSUME NEW c \in ToPull'
        PROVE  c \in ToPull /\ phase' = "reinstall" /\ need' = need
    BY <1>2, <1>6 DEF ToPull
  <2>2. QED  BY <1>3, <1>4, <1>7, <2>1 DEF RangesAreNew
<1>12. BatchesApart'
  <2>1. CASE phase' = "idle" /\ need' = <<>> /\ batches' = {}
    BY <2>1 DEF BatchesApart
  <2>2. CASE /\ phase' = phase /\ need' = need /\ batches' = batches \ {B}
    BY <1>2, <1>3, <1>4, <2>2 DEF BatchesApart
  <2>3. QED  BY <1>6, <2>1, <2>2
<1>13. LatestReached'
  <2> DEFINE R(c, s) == s = 0 \/ <<c, s>> \in Kept' \cup Queued'
  <2>1. \A c, s : Reached(c, s) => R(c, s)
    <3>1. Kept \subseteq Kept' /\ Queued \subseteq Queued'
      BY <1>1, <1>4, <1>7 DEF Kept
    <3>2. QED  BY <3>1 DEF Reached
  <2>2. \A c \in B : R(c, need[c][2])
    BY <1>1 DEF Kept
  <2>3. ASSUME NEW c \in Chats
        PROVE  /\ c \in DOMAIN need /\ c \in UNION batches /\ c \notin B =>
                    synced[c] = need[c][2] \/ R(c, synced[c])
               /\ c \in DOMAIN need /\ ~ (c \in UNION batches /\ c \notin B) =>
                    R(c, need[c][2]) /\ R(c, synced[c])
               /\ c \notin DOMAIN need => R(c, synced[c])
    <3>1. CASE c \in DOMAIN need /\ c \in UNION batches
      <4>1. synced[c] = need[c][2] \/ Reached(c, synced[c])
        BY <1>2, <1>3, <3>1 DEF LatestReached
      <4>2. QED  BY <2>1, <2>2, <3>1, <4>1
    <3>2. CASE c \in DOMAIN need /\ c \notin UNION batches
      <4>1. Reached(c, need[c][2]) /\ Reached(c, synced[c])
        BY <1>2, <1>3, <3>2 DEF LatestReached
      <4>2. QED  BY <2>1, <3>2, <4>1
    <3>3. CASE c \notin DOMAIN need
      <4>1. Reached(c, synced[c])
        BY <1>3, <3>3 DEF LatestReached
      <4>2. QED  BY <2>1, <3>3, <4>1
    <3>4. QED  BY <3>1, <3>2, <3>3
  <2>4. CASE phase' = "idle" /\ batches = {B}
    <3>1. \A c \in Chats : R(c, synced[c])
      BY <1>5, <2>3, <2>4
    <3>2. QED  BY <1>4, <2>4, <3>1 DEF LatestReached, Reached
  <2>5. CASE phase' = phase /\ need' = need /\ batches' = batches \ {B}
    <3>1. \A c : c \in UNION batches' <=> c \in UNION batches /\ c \notin B
      BY <1>2, <2>5, InReinstall
    <3>2. QED  BY <1>2, <1>4, <2>3, <2>5, <3>1 DEF LatestReached, Reached
  <2>6. QED  BY <1>6, <2>4, <2>5
<1>14. QED
  BY <1>8, <1>9, <1>10, <1>11, <1>12, <1>13 DEF SyncerInv

-----------------------------------------------------------------------------
(* The goroutine of the conversations takes the first command: all that is  *)
(* behind it is above it.                                                   *)
LEMMA FirstCommand ==
    ASSUME SyncerInv, work # <<>>
    PROVE  /\ Head(work) \in Commands /\ Pairs(Head(work)) \subseteq Convs \X Seqs
           /\ Tail(work) \in Seq(Commands) /\ Len(Tail(work)) = Len(work) - 1
           /\ DOMAIN Tail(work) = 1 .. Len(work) - 1 /\ Len(work) \in Nat
           /\ \A i \in DOMAIN Tail(work) : i + 1 \in DOMAIN work /\ Tail(work)[i] = work[i + 1]
           /\ \A p : p \in Queued <=> \/ p \in Pairs(Head(work))
                                      \/ \E i \in DOMAIN Tail(work) : p \in Pairs(Tail(work)[i])
           /\ \A i \in DOMAIN Tail(work) : \A c \in Convs, s \in Seqs, t \in Seqs :
                <<c, s>> \in Pairs(Tail(work)[i]) /\ <<c, t>> \in Pairs(Head(work)) => t < s
<1>1. work \in Seq(Commands) /\ QueueInOrder
  BY DEF SyncerInv, SyncerTypeOK
<1>2. /\ Tail(work) \in Seq(Commands) /\ Len(Tail(work)) = Len(work) - 1
      /\ DOMAIN Tail(work) = 1 .. Len(work) - 1 /\ Len(work) \in Nat
      /\ DOMAIN work = 1..Len(work) /\ 1 \in DOMAIN work /\ Head(work) = work[1]
      /\ \A i \in DOMAIN Tail(work) : Tail(work)[i] = work[i + 1]
  BY <1>1
<1>3. \A i \in DOMAIN Tail(work) : i + 1 \in DOMAIN work /\ i \in Nat /\ 1 \in 1 .. (i + 1) - 1
  BY <1>2
<1>4. Head(work) \in Commands
  BY <1>1, <1>2
<1>5. Pairs(Head(work)) \subseteq Convs \X Seqs
  BY <1>4, CommandPairs
<1>6. \A i \in DOMAIN work : i = 1 \/ \E j \in DOMAIN Tail(work) : i = j + 1
  <2>1. \A i \in DOMAIN work : i = 1 \/ (i - 1 \in 1 .. Len(work) - 1 /\ i = (i - 1) + 1)
    BY <1>2
  <2>2. QED  BY <1>2, <2>1
<1>7. \A p : p \in Queued <=> \/ p \in Pairs(Head(work))
                              \/ \E i \in DOMAIN Tail(work) : p \in Pairs(Tail(work)[i])
  <2>1. \A p : p \in Queued <=> \E i \in DOMAIN work : p \in Pairs(work[i])
    BY DEF Queued
  <2>2. ASSUME NEW p, NEW i \in DOMAIN work, p \in Pairs(work[i])
        PROVE  \/ p \in Pairs(Head(work))
               \/ \E j \in DOMAIN Tail(work) : p \in Pairs(Tail(work)[j])
    <3>1. CASE i = 1
      BY <1>2, <2>2, <3>1
    <3>2. ASSUME NEW j \in DOMAIN Tail(work), i = j + 1
          PROVE  p \in Pairs(Tail(work)[j])
      <4>1. Tail(work)[j] = work[i]
        BY <1>2, <3>2
      <4>2. QED  BY <2>2, <4>1
    <3>3. QED  BY <1>6, <3>1, <3>2
  <2>3. ASSUME NEW p, p \in Pairs(Head(work))
        PROVE  \E i \in DOMAIN work : p \in Pairs(work[i])
    <3>1. 1 \in DOMAIN work /\ Head(work) = work[1]
      BY <1>2
    <3>2. QED  BY <2>3, <3>1
  <2>4. ASSUME NEW p, NEW j \in DOMAIN Tail(work), p \in Pairs(Tail(work)[j])
        PROVE  \E i \in DOMAIN work : p \in Pairs(work[i])
    <3>1. Tail(work)[j] = work[j + 1] /\ j + 1 \in DOMAIN work
      BY <1>2, <1>3
    <3>2. QED  BY <2>4, <3>1
  <2>5. QED  BY <2>1, <2>2, <2>3, <2>4
<1>8. \A i \in DOMAIN Tail(work) : \A c \in Convs, s \in Seqs, t \in Seqs :
        <<c, s>> \in Pairs(Tail(work)[i]) /\ <<c, t>> \in Pairs(Head(work)) => t < s
  BY <1>1, <1>2, <1>3 DEF QueueInOrder
<1>9. QED  BY <1>2, <1>3, <1>4, <1>5, <1>7, <1>8

(* The command at the head is stored; what is behind it is above it still.  *)
LEMMA WorkCommandKeeps ==
    ASSUME SyncerInv, WorkCommand
    PROVE  SyncerInv'
<1> DEFINE m == Head(work)
<1>1. /\ work # <<>> /\ work' = Tail(work)
      /\ local' = local \cup (Pairs(m) \cap (Chats \X (1..LastSeq)))
      /\ handling' = handling \cup (Pairs(m) \cap (Notices \X (1..LastSeq)))
      /\ noticeSeq' = [n \in Notices |->
           IF n \in DOMAIN m /\ m[n] # {} THEN Max(m[n]) ELSE noticeSeq[n]]
      /\ UNCHANGED <<SyncerServer, online, inbox, synced, reinstalled, syncing,
                     Locals, handled, events, lost, base, owed>>
  BY DEF WorkCommand
<1>2. /\ SyncerTypeOK /\ NumbersInOrder /\ QueueInOrder /\ BatchesApart
      /\ RangesAreNew /\ NothingSkippedByStore /\ NothingSkipped /\ LatestReached
  BY DEF SyncerInv
<1>3. /\ told' = told /\ pushed' = pushed /\ written' = written
      /\ phase' = phase /\ need' = need /\ pullNum' = pullNum
      /\ batches' = batches /\ tail' = tail
  BY <1>1 DEF SyncerServer, Locals
<1>4. /\ m \in Commands /\ Pairs(m) \subseteq Convs \X Seqs
      /\ work' \in Seq(Commands) /\ Len(work') =< WorkLen
      /\ DOMAIN work' = 1 .. Len(work) - 1 /\ Len(work) \in Nat
      /\ \A i \in DOMAIN work' : i + 1 \in DOMAIN work /\ work'[i] = work[i + 1]
      /\ \A p : p \in Queued <=> p \in Pairs(m) \/ \E i \in DOMAIN work' : p \in Pairs(work'[i])
      /\ \A i \in DOMAIN work' : \A c \in Convs, s \in Seqs, t \in Seqs :
           <<c, s>> \in Pairs(work'[i]) /\ <<c, t>> \in Pairs(m) => t < s
  <2>1. Len(work) =< WorkLen /\ WorkLen \in Nat
    BY <1>2, SyncerAssumption DEF SyncerTypeOK
  <2>2. /\ m \in Commands /\ Pairs(m) \subseteq Convs \X Seqs
        /\ work' \in Seq(Commands) /\ Len(work') = Len(work) - 1
        /\ DOMAIN work' = 1 .. Len(work) - 1 /\ Len(work) \in Nat
        /\ \A i \in DOMAIN work' : i + 1 \in DOMAIN work /\ work'[i] = work[i + 1]
    BY <1>1, FirstCommand
  <2>3. \A p : p \in Queued <=> p \in Pairs(m) \/ \E i \in DOMAIN work' : p \in Pairs(work'[i])
    BY <1>1, FirstCommand
  <2>4. \A i \in DOMAIN work' : \A c \in Convs, s \in Seqs, t \in Seqs :
           <<c, s>> \in Pairs(work'[i]) /\ <<c, t>> \in Pairs(m) => t < s
    BY <1>1, FirstCommand
  <2>5. Len(work') =< WorkLen
    BY <2>1, <2>2
  <2>6. QED  BY <2>2, <2>3, <2>4, <2>5
<1>5. /\ synced \in [Convs -> 0..LastSeq] /\ base \in [Convs -> 0..LastSeq]
      /\ noticeSeq \in [Notices -> 0..LastSeq] /\ LastSeq \in Nat
      /\ Convs = Chats \cup Notices /\ Chats \cap Notices = {}
  BY <1>2, SyncerTypes, SyncerAssumption DEF SyncerTypeOK, Convs
<1>6. \A p : p \in Queued' <=> \E i \in DOMAIN work' : p \in Pairs(work'[i])
  BY <1>1 DEF Queued, Pairs
<1>7. \A p : p \in Queued <=> p \in Pairs(m) \/ p \in Queued'
  BY <1>4, <1>6
<1>8. \A n \in Notices :
        \/ noticeSeq'[n] = noticeSeq[n] /\ \A s \in Seqs : <<n, s>> \notin Pairs(m)
        \/ noticeSeq'[n] \in Seqs /\ <<n, noticeSeq'[n]>> \in Pairs(m)
  <2>1. ASSUME NEW n \in Notices, n \in DOMAIN m, m[n] # {}
        PROVE  noticeSeq'[n] \in Seqs /\ <<n, noticeSeq'[n]>> \in Pairs(m)
    <3>1. m[n] \in SUBSET (1..LastSeq)
      BY <1>4, <2>1 DEF Commands
    <3>2. m[n] \in SUBSET (0..LastSeq)
      BY <1>5, <3>1
    <3> HIDE DEF m
    <3>3. Max(m[n]) \in m[n]
      BY <1>5, <2>1, <3>2, GreatestOf
    <3>4. noticeSeq'[n] = Max(m[n])
      BY <1>1, <2>1 DEF m
    <3>5. QED  BY <2>1, <3>1, <3>3, <3>4 DEF Pairs, Seqs
  <2>2. ASSUME NEW n \in Notices, ~ (n \in DOMAIN m /\ m[n] # {})
        PROVE  noticeSeq'[n] = noticeSeq[n] /\ \A s \in Seqs : <<n, s>> \notin Pairs(m)
    <3>1. noticeSeq'[n] = noticeSeq[n]
      BY <1>1, <2>2
    <3>2. QED  BY <2>2, <3>1 DEF Pairs
  <2>3. QED  BY <2>1, <2>2
<1>9. \A c \in Convs, s \in Seqs : <<c, s>> \in Pairs(m) => s =< synced[c]
  BY <1>7, QueuedIsSynced
<1>10. SyncerTypeOK'
  <2>1. {told', written', pushed', synced', base'} \subseteq [Convs -> 0..LastSeq]
    BY <1>1, <1>2, <1>3, SyncerTypes
  <2>2. noticeSeq' \in [Notices -> 0..LastSeq]
    <3>1. ASSUME NEW n \in Notices
          PROVE  noticeSeq'[n] \in 0..LastSeq
      <4>1. CASE noticeSeq'[n] = noticeSeq[n]
        BY <1>5, <4>1
      <4>2. CASE noticeSeq'[n] \in Seqs
        BY <1>5, <4>2 DEF Seqs
      <4>3. QED  BY <1>8, <4>1, <4>2
    <3>2. QED  BY <1>1, <3>1
  <2>3. /\ local' \subseteq Chats \X (1..LastSeq)
        /\ handling' \cup handled' \subseteq Notices \X (1..LastSeq)
    BY <1>1, <1>2 DEF SyncerTypeOK
  <2>4. QED  BY <1>1, <1>2, <1>3, <1>4, <2>1, <2>2, <2>3 DEF SyncerTypeOK
<1> HIDE DEF m
<1>11. NumbersInOrder'
  <2>1. \A n \in Notices : noticeSeq'[n] =< synced[n]
    BY <1>2, <1>5, <1>8, <1>9 DEF NumbersInOrder
  <2>2. \A c \in Chats, s \in Seqs : <<c, s>> \in local' => s =< synced[c]
    BY <1>1, <1>2, <1>5, <1>9 DEF NumbersInOrder
  <2>3. QED  BY <1>1, <1>2, <1>3, <2>1, <2>2 DEF NumbersInOrder
<1>12. QueueInOrder'
  <2>1. ASSUME NEW i \in DOMAIN work', NEW c \in Convs, NEW s \in Seqs,
               <<c, s>> \in Pairs(work'[i])
        PROVE  /\ s =< synced[c]
               /\ c \in Chats => \A t \in Seqs : <<c, t>> \in local' => t < s
               /\ c \in Notices => noticeSeq'[c] < s \/ s =< base[c]
               /\ \A j \in 1 .. i - 1 : \A t \in Seqs :
                    <<c, t>> \in Pairs(work'[j]) => t < s
    <3>1. i + 1 \in DOMAIN work /\ work'[i] = work[i + 1] /\ i \in Nat
      BY <1>4, <2>1
    <3>2. /\ s =< synced[c]
          /\ c \in Chats => \A t \in Seqs : <<c, t>> \in local => t < s
          /\ c \in Notices => noticeSeq[c] < s \/ s =< base[c]
          /\ \A j \in 1 .. (i + 1) - 1 : \A t \in Seqs :
               <<c, t>> \in Pairs(work[j]) => t < s
      BY <1>2, <2>1, <3>1 DEF QueueInOrder
    <3>3. \A t \in Seqs : <<c, t>> \in Pairs(m) => t < s
      BY <1>4, <2>1
    <3>4. c \in Chats => \A t \in Seqs : <<c, t>> \in local' => t < s
      BY <1>1, <3>2, <3>3
    <3>5. c \in Notices => noticeSeq'[c] < s \/ s =< base[c]
      BY <1>8, <3>2, <3>3
    <3>6. ASSUME NEW j \in 1 .. i - 1, NEW t \in Seqs, <<c, t>> \in Pairs(work'[j])
          PROVE  t < s
      <4>1. j \in DOMAIN work' /\ j + 1 \in 1 .. (i + 1) - 1
        BY <1>4, <2>1, <3>1
      <4>2. work'[j] = work[j + 1]
        BY <1>4, <4>1
      <4>3. QED  BY <3>2, <3>6, <4>1, <4>2
    <3>7. QED  BY <3>2, <3>4, <3>5, <3>6
  <2>2. QED  BY <1>1, <2>1, ZenonT(60) DEF QueueInOrder, Pairs
<1>13. RangesAreNew'
  <2>1. local' \cup Queued' \subseteq local \cup Queued
    BY <1>1, <1>7
  <2>2. ToPull' = ToPull
    BY <1>3 DEF ToPull
  <2>3. QED  BY <1>1, <1>2, <1>3, <2>1, <2>2 DEF RangesAreNew
<1>14. BatchesApart'
  BY <1>1, <1>2, <1>3 DEF BatchesApart
<1>15. NothingSkippedByStore'
  <2>1. ASSUME NEW n \in Notices, NEW s \in Seqs, base[n] < s, s =< noticeSeq'[n]
        PROVE  <<n, s>> \in Carried'
    <3>1. CASE noticeSeq'[n] = noticeSeq[n]
      BY <1>1, <1>2, <2>1, <3>1 DEF NothingSkippedByStore, Carried
    <3>2. CASE noticeSeq'[n] \in Seqs /\ <<n, noticeSeq'[n]>> \in Pairs(m)
      <4>1. n \in Convs /\ noticeSeq'[n] =< synced[n] /\ s =< synced[n]
        BY <1>5, <1>9, <2>1, <3>2 DEF Seqs
      <4>2. <<n, s>> \in Carried \cup Queued
        BY <1>2, <2>1, <4>1 DEF NothingSkipped
      <4>3. <<n, s>> \notin Queued'
        <5>1. ASSUME NEW i \in DOMAIN work', <<n, s>> \in Pairs(work'[i])
              PROVE  FALSE
          <6>1. noticeSeq'[n] < s
            BY <1>4, <3>2, <4>1, <5>1
          <6>2. QED  BY <2>1, <3>2, <6>1 DEF Seqs
        <5>2. QED  BY <1>6, <5>1
      <4>4. <<n, s>> \in Pairs(m) => <<n, s>> \in handling'
        BY <1>1 DEF Seqs
      <4>5. QED  BY <1>1, <1>7, <4>2, <4>3, <4>4 DEF Carried
    <3>3. QED  BY <1>8, <3>1, <3>2
  <2>2. QED  BY <1>1, <2>1 DEF NothingSkippedByStore
<1>16. NothingSkipped'
  <2>1. \A n \in Notices, s \in Seqs : <<n, s>> \in Carried \cup Queued
                                         => <<n, s>> \in Carried' \cup Queued'
    BY <1>1, <1>7 DEF Carried, Seqs
  <2>2. QED  BY <1>1, <1>2, <2>1 DEF NothingSkipped
<1>17. LatestReached'
  <2>1. \A c \in Chats : \A s : <<c, s>> \in Kept \cup Queued
                              => <<c, s>> \in Kept' \cup Queued'
    BY <1>1, <1>4, <1>7 DEF Kept, Seqs
  <2>2. QED  BY <1>1, <1>2, <1>3, <2>1 DEF LatestReached, Reached
<1>18. QED
  BY <1>10, <1>11, <1>12, <1>13, <1>14, <1>15, <1>16, <1>17 DEF SyncerInv

(* A notification that was carried out still is. *)
LEMMA HandleKeeps ==
    ASSUME SyncerInv, NEW n \in Notices, NEW s \in Seqs, Handle(n, s)
    PROVE  SyncerInv'
<1>1. /\ <<n, s>> \in handling
      /\ handling' = handling \ {<<n, s>>} /\ handled' = handled \cup {<<n, s>>}
      /\ UNCHANGED <<SyncerServer, online, inbox, synced, reinstalled, syncing,
                     Locals, work, local, noticeSeq, events, lost, base, owed>>
  BY DEF Handle
<1>2. /\ SyncerTypeOK /\ NumbersInOrder /\ QueueInOrder /\ BatchesApart
      /\ RangesAreNew /\ NothingSkippedByStore /\ NothingSkipped /\ LatestReached
  BY DEF SyncerInv
<1>3. /\ told' = told /\ pushed' = pushed /\ written' = written
      /\ phase' = phase /\ need' = need /\ pullNum' = pullNum
      /\ batches' = batches /\ tail' = tail
  BY <1>1 DEF SyncerServer, Locals
<1>4. Queued' = Queued /\ Kept' = Kept /\ Carried' = Carried /\ ToPull' = ToPull
  BY <1>1, <1>3 DEF Queued, Pairs, Kept, Carried, ToPull
<1>5. SyncerTypeOK'
  <2>1. {told', written', pushed', synced', base'} \subseteq [Convs -> 0..LastSeq]
    BY <1>1, <1>2, <1>3, SyncerTypes
  <2>2. handling' \cup handled' \subseteq Notices \X (1..LastSeq)
    BY <1>1, <1>2 DEF SyncerTypeOK
  <2>3. QED  BY <1>1, <1>2, <1>3, <2>1, <2>2 DEF SyncerTypeOK
<1>6. NumbersInOrder' /\ QueueInOrder'
  BY <1>1, <1>2, <1>3 DEF NumbersInOrder, QueueInOrder, Pairs
<1>7. RangesAreNew' /\ BatchesApart'
  BY <1>1, <1>2, <1>3, <1>4 DEF RangesAreNew, BatchesApart
<1>8. NothingSkippedByStore' /\ NothingSkipped'
  BY <1>1, <1>2, <1>4 DEF NothingSkippedByStore, NothingSkipped
<1>9. LatestReached'
  BY <1>1, <1>2, <1>3, <1>4 DEF LatestReached, Reached
<1>10. QED
  BY <1>5, <1>6, <1>7, <1>8, <1>9 DEF SyncerInv

(* The client starts again from what it stored: of notifications nothing up *)
(* to the stored seq is skipped, of a chat it is a message it has.          *)
LEMMA CrashClientKeeps ==
    ASSUME SyncerInv, CrashClient
    PROVE  SyncerInv'
<1>1. /\ online' = FALSE /\ inbox' = <<>> /\ work' = <<>> /\ handling' = {}
      /\ syncing' = FALSE /\ owed' = FALSE
      /\ phase' = "idle" /\ need' = <<>> /\ pullNum' = DefaultPull
      /\ batches' = {} /\ tail' = {}
      /\ synced' = [c \in Convs |-> Stored(c)]
      /\ reinstalled' \in {FALSE, reinstalled}
      /\ lost' = lost \cup handling /\ Spend
      /\ UNCHANGED <<SyncerServer, local, noticeSeq, handled, base>>
  BY DEF CrashClient, ReturnToLoop
<1>2. /\ SyncerTypeOK /\ NumbersInOrder /\ NothingSkippedByStore
  BY DEF SyncerInv
<1>3. told' = told /\ pushed' = pushed /\ written' = written
  BY <1>1 DEF SyncerServer
<1>4. /\ synced \in [Convs -> 0..LastSeq] /\ told \in [Convs -> 0..LastSeq]
      /\ noticeSeq \in [Notices -> 0..LastSeq] /\ LastSeq \in Nat
      /\ Convs = Chats \cup Notices
  BY <1>2, SyncerTypes, SyncerAssumption DEF SyncerTypeOK, Convs
<1>5. /\ \A n \in Notices : synced'[n] = noticeSeq[n]
      /\ \A c \in Chats : /\ synced'[c] = 0 \/ <<c, synced'[c]>> \in local
                          /\ synced'[c] \in 0..LastSeq
                          /\ \A s \in Seqs : <<c, s>> \in local => s =< synced'[c]
  BY <1>1, <1>2, <1>4, StoredIs, StoredNotice
<1>6. synced' \in [Convs -> 0..LastSeq]
  BY <1>1, <1>4, <1>5
<1>7. \A c \in Convs : synced'[c] =< synced[c]
  <2>1. ASSUME NEW c \in Chats
        PROVE  synced'[c] =< synced[c]
    <3>1. CASE synced'[c] = 0
      BY <1>4, <3>1
    <3>2. CASE <<c, synced'[c]>> \in local
      <4>1. synced'[c] \in Seqs
        BY <1>2, <3>2 DEF SyncerTypeOK, Seqs
      <4>2. QED  BY <1>2, <3>2, <4>1 DEF NumbersInOrder
    <3>3. QED  BY <1>5, <3>1, <3>2
  <2>2. \A n \in Notices : synced'[n] =< synced[n]
    BY <1>2, <1>5 DEF NumbersInOrder
  <2>3. QED  BY <1>4, <2>1, <2>2
<1>8. SyncerTypeOK'
  <2>1. {told', written', pushed', synced', base'} \subseteq [Convs -> 0..LastSeq]
    BY <1>1, <1>2, <1>3, <1>6, SyncerTypes
  <2>2. /\ DOMAIN need' = {} /\ inbox' \in Seq(Event) /\ work' \in Seq(Commands)
        /\ Len(inbox') = 0 /\ Len(work') = 0
    BY <1>1
  <2>3. lost' \subseteq Convs \X (1..LastSeq)
    BY <1>1, <1>2, <1>4 DEF SyncerTypeOK
  <2>4. events' \in 0..Events
    BY <1>1, <1>2, SyncerAssumption DEF Spend, SyncerTypeOK
  <2>5. handling' \cup handled' \subseteq Notices \X (1..LastSeq)
    BY <1>1, <1>2 DEF SyncerTypeOK
  <2>6. 0 =< InboxLen /\ 0 =< WorkLen
    BY SyncerAssumption
  <2>7. QED
    BY <1>1, <1>2, <2>1, <2>2, <2>3, <2>4, <2>5, <2>6 DEF SyncerTypeOK
<1>9. NumbersInOrder'
  <2>1. \A c \in Convs : synced'[c] =< told[c]
    BY <1>2, <1>4, <1>6, <1>7 DEF NumbersInOrder
  <2>2. \A n \in Notices : noticeSeq[n] =< synced'[n]
    BY <1>4, <1>5
  <2>3. DOMAIN inbox' = {}
    BY <1>1
  <2>4. QED  BY <1>1, <1>2, <1>3, <1>5, <2>1, <2>2, <2>3 DEF NumbersInOrder
<1>10. QueueInOrder' /\ RangesAreNew' /\ BatchesApart'
  <2>1. DOMAIN work' = {} /\ DOMAIN need' = {}
    BY <1>1
  <2>2. QED  BY <1>1, <2>1 DEF QueueInOrder, RangesAreNew, BatchesApart, ToPull
<1>11. Carried \subseteq Carried' /\ NothingSkippedByStore'
  BY <1>1, <1>2 DEF NothingSkippedByStore, Carried
<1>12. NothingSkipped'
  BY <1>1, <1>2, <1>5, <1>11 DEF NothingSkipped, NothingSkippedByStore
<1>13. LatestReached'
  BY <1>1, <1>5 DEF LatestReached, Reached, Kept
<1>14. QED
  BY <1>8, <1>9, <1>10, <1>11, <1>12, <1>13 DEF SyncerInv

-----------------------------------------------------------------------------
(* Every step keeps the invariant. *)
LEMMA SyncerStep ==
    ASSUME SyncerInv, [SyncerNext]_SyncerVars
    PROVE  SyncerInv'
<1>1. CASE UNCHANGED SyncerVars
  <2>1. /\ UNCHANGED <<synced, Locals, work, SyncerStore, lost, base>>
        /\ told' = told /\ pushed' = pushed /\ inbox' = inbox
    BY <1>1 DEF SyncerVars, SyncerServer
  <2>2. SyncerTypeOK' /\ NumbersInOrder'
    BY <1>1 DEF SyncerVars, SyncerServer, SyncerStore, Locals, SyncerInv,
                SyncerTypeOK, NumbersInOrder
  <2>3. \A c \in Convs : told[c] =< told'[c]
    BY <2>1, SyncerTypes, SyncerAssumption DEF SyncerInv
  <2>4. QED  BY <2>1, <2>2, <2>3, ElsewhereKeeps
<1>2. ASSUME NEW c \in Convs, NEW n \in 1..LastSeq, TakeNumbers(c, n)
      PROVE  SyncerInv'
  BY <1>2, TakeNumbersKeeps DEF Seqs
<1>3. ASSUME NEW c \in Convs, WriteMessage(c) \/ PushMessage(c)
      PROVE  SyncerInv'
  BY <1>3, WriteMessageKeeps, PushMessageKeeps
<1>4. CASE Connect \/ Disconnect \/ WakeUp \/ SyncTimer
  BY <1>4, EventsKeep
<1>5. CASE TakePush
  BY <1>5, TakePushKeeps
<1>6. CASE TakeEvent
  BY <1>6, TakeEventKeeps
<1>7. CASE MaxSeqFails \/ PullFails
  BY <1>7, FailuresKeep
<1>8. CASE CompareSeqs
  BY <1>8, CompareSeqsKeeps
<1>9. CASE CompareSeqsReinstalled
  BY <1>9, CompareSeqsReinstalledKeeps
<1>10. CASE PullBatch
  BY <1>10, PullBatchKeeps
<1>11. CASE ReinstallBatch
  BY <1>11, ReinstallBatchKeeps
<1>12. CASE ReinstallBatchFails
  BY <1>12, ReinstallBatchFailsKeeps
<1>13. CASE WorkCommand
  BY <1>13, WorkCommandKeeps
<1>14. ASSUME NEW n \in Notices, NEW s \in 1..LastSeq, Handle(n, s)
       PROVE  SyncerInv'
  BY <1>14, HandleKeeps DEF Seqs
<1>15. CASE CrashClient
  BY <1>15, CrashClientKeeps
<1>16. QED
  BY <1>1, <1>2, <1>3, <1>4, <1>5, <1>6, <1>7, <1>8, <1>9, <1>10, <1>11,
     <1>12, <1>13, <1>14, <1>15 DEF SyncerNext

(* The invariant says what is promised. *)
LEMMA SyncerInvIsEnough ==
    ASSUME SyncerInv
    PROVE  NothingPassedOver /\ LatestIsStored /\ QueuedAreNew
<1>1. /\ SyncerTypeOK /\ NumbersInOrder /\ QueueInOrder
      /\ NothingSkipped /\ LatestReached
  BY DEF SyncerInv
<1>2. /\ synced \in [Convs -> 0..LastSeq] /\ base \in [Convs -> 0..LastSeq]
      /\ LastSeq \in Nat /\ Convs = Chats \cup Notices
      /\ Chats \cap Notices = {}
  BY <1>1, SyncerTypes, SyncerAssumption DEF Convs
<1>3. NothingPassedOver
  <2>1. ASSUME NEW n \in Notices, NEW s \in (base[n] + 1) .. synced[n]
        PROVE  <<n, s>> \in handled \cup handling \cup Queued \cup lost
    <3>1. base[n] \in 0..LastSeq /\ synced[n] \in 0..LastSeq
      BY <1>2
    <3>2. s \in Seqs /\ base[n] < s /\ s =< synced[n]
      BY <1>2, <3>1 DEF Seqs
    <3>3. QED  BY <1>1, <3>2 DEF NothingSkipped, Carried
  <2>2. QED  BY <2>1 DEF NothingPassedOver
<1>4. LatestIsStored
  BY <1>1 DEF LatestIsStored, LatestReached, Reached, Kept
<1>5. QueuedAreNew
  <2>1. ASSUME NEW i \in DOMAIN work, NEW p \in Pairs(work[i])
        PROVE  /\ p[2] > Stored(p[1]) \/ p[2] =< base[p[1]]
               /\ \A j \in 1 .. i - 1 :
                    \A q \in Pairs(work[j]) : q[1] = p[1] => q[2] < p[2]
    <3>1. \A k \in DOMAIN work : Pairs(work[k]) \subseteq Convs \X Seqs
      BY <1>1, CommandPairs DEF SyncerTypeOK
    <3>2. p[1] \in Convs /\ p[2] \in Seqs /\ p = <<p[1], p[2]>>
      BY <2>1, <3>1
    <3>3. /\ p[1] \in Chats => \A t \in Seqs : <<p[1], t>> \in local => t < p[2]
          /\ p[1] \in Notices => noticeSeq[p[1]] < p[2] \/ p[2] =< base[p[1]]
          /\ \A j \in 1 .. i - 1 : \A t \in Seqs :
               <<p[1], t>> \in Pairs(work[j]) => t < p[2]
      BY <1>1, <2>1, <3>2 DEF QueueInOrder
    <3>4. p[1] \in Chats => p[2] > Stored(p[1])
      <4>1. ASSUME p[1] \in Chats
            PROVE  p[2] > Stored(p[1])
        <5>1. /\ Stored(p[1]) \in 0..LastSeq
              /\ Stored(p[1]) = 0 \/ <<p[1], Stored(p[1])>> \in local
          BY <1>1, <4>1, StoredIs
        <5>2. CASE Stored(p[1]) = 0
          BY <3>2, <5>2 DEF Seqs
        <5>3. CASE <<p[1], Stored(p[1])>> \in local
          <6>1. Stored(p[1]) \in Seqs
            BY <1>1, <5>3 DEF SyncerTypeOK, Seqs
          <6>2. Stored(p[1]) < p[2]
            BY <3>3, <4>1, <5>3, <6>1
          <6>3. QED  BY <3>2, <6>1, <6>2 DEF Seqs
        <5>4. QED  BY <5>1, <5>2, <5>3
      <4>2. QED  BY <4>1
    <3>5. p[1] \in Notices => p[2] > Stored(p[1]) \/ p[2] =< base[p[1]]
      <4>1. p[1] \in Notices => Stored(p[1]) = noticeSeq[p[1]] /\ noticeSeq[p[1]] \in Nat
        BY <1>1, StoredNotice, SyncerAssumption DEF SyncerTypeOK
      <4>2. QED  BY <3>2, <3>3, <4>1 DEF Seqs
    <3>6. ASSUME NEW j \in 1 .. i - 1, NEW q \in Pairs(work[j]), q[1] = p[1]
          PROVE  q[2] < p[2]
      <4>1. j \in DOMAIN work
        BY <1>1, <2>1 DEF SyncerTypeOK
      <4>2. q[2] \in Seqs /\ q = <<p[1], q[2]>>
        BY <3>1, <3>6, <4>1
      <4>3. QED  BY <3>3, <3>6, <4>2
    <3>7. QED  BY <1>2, <3>2, <3>4, <3>5, <3>6
  <2>2. QED  BY <2>1 DEF QueuedAreNew
<1>6. QED  BY <1>3, <1>4, <1>5

(* The types hold always, and with them what the three properties rest on:  *)
(* numbers in order, ranges that are new and batches that are apart.        *)
THEOREM SyncerInvariant == SyncerSpec => []SyncerInv
<1>1. SyncerInit => SyncerInv
  BY SyncerStart
<1>2. SyncerInv /\ [SyncerNext]_SyncerVars => SyncerInv'
  BY SyncerStep
<1>3. QED  BY <1>1, <1>2, PTL DEF SyncerSpec

(* No notification that counts as synchronised is passed over: gaps between *)
(* pushes, cuts into batches, pulls that failed, restarts and ignored       *)
(* events lose none (pushTriggerAndSync, syncAndTriggerMsgs, loadSeq).      *)
THEOREM NoNotificationPassedOver == SyncerSpec => []NothingPassedOver
<1>1. SyncerInv => NothingPassedOver
  BY SyncerInvIsEnough
<1>2. QED  BY <1>1, SyncerInvariant, PTL

(* The newest message of a chat that counts as synchronised is stored, on   *)
(* its way, or named as lost.                                               *)
THEOREM NewestOfChatIsStored == SyncerSpec => []LatestIsStored
<1>1. SyncerInv => LatestIsStored
  BY SyncerInvIsEnough
<1>2. QED  BY <1>1, SyncerInvariant, PTL

(* What waits in conversationCh is new and in increasing order: nothing is  *)
(* carried out twice in the life of the process.                            *)
THEOREM QueueHoldsOnlyNew == SyncerSpec => []QueuedAreNew
<1>1. SyncerInv => QueuedAreNew
  BY SyncerInvIsEnough
<1>2. QED  BY <1>1, SyncerInvariant, PTL

-----------------------------------------------------------------------------
(* The list of friends. *)

(* What is in the variables. *)
Operations == [kind : Kinds, friend : Friends, pc : {"log", "uncache"}]
StateMaps == UNION {[D -> Kinds] : D \in SUBSET Friends}
RowMaps == UNION {[D -> 0..MaxChanges] : D \in SUBSET Friends}

Asked == [pc : {"asked"}, from : Nat]
Found ==
  [pc : {"found"}, from : Nat, full : BOOLEAN, ver : Nat, sort : BOOLEAN, data : StateMaps]
Answered ==
  [pc : {"answered"}, from : Nat, full : BOOLEAN, ver : Nat, sort : BOOLEAN, data : RowMaps]
Pages == [pc : {"paging"}, from : Nat, ver : Nat, page : Nat, clash : BOOLEAN]
Works == {Resting} \cup Asked \cup Found \cup Answered \cup Pages

(* The order holds every friend that has a row, once. *)
RowsOK ==
  /\ order \in Seq(Friends)
  /\ \A i, j \in DOMAIN order : order[i] = order[j] => i = j
  /\ row \in [Friends -> 0..MaxChanges]
  /\ \A f \in Friends : row[f] # 0 <=> \E i \in DOMAIN order : order[i] = f

(* The log of the server is never behind its elements or its cache. *)
LogOK ==
  /\ version \in Nat /\ cachedVer \in 0..version /\ sorted \in 0..version
  /\ elem \in [Friends -> [ver : Nat, state : Kinds]]
  /\ \A f \in Friends : elem[f].ver =< version
  /\ ops \in Seq(Operations) /\ changes \in 0..MaxChanges
  /\ dirty \subseteq Friends

ClientOK ==
  /\ mine \in [Friends -> 0..MaxChanges] /\ myVersion \in 0..version
  /\ thread \in [Threads -> {Resting} \cup Asked \cup Found \cup Answered \cup Pages]
  /\ overlap \in BOOLEAN /\ holes \in BOOLEAN

(* A version that a synchronisation will store is not older than that it    *)
(* began from, and not newer than the log.                                  *)
VersionsInOrder ==
  \A t \in Threads :
    /\ thread[t].pc # "idle" => thread[t].from =< version
    /\ thread[t].pc \in {"found", "answered", "paging"} =>
         thread[t].from =< thread[t].ver /\ thread[t].ver =< version

FriendTypes == RowsOK /\ LogOK /\ ClientOK /\ VersionsInOrder

(* A friend whose newest change was in the log at version v, and has not    *)
(* been changed since.                                                      *)
SettledAt(f, v) == elem[f].ver =< v /\ f \notin dirty /\ ~Crossed(f)

(* The client has what its version says. *)
Intact ==
  \A f \in Friends : SettledAt(f, myVersion) =>
    mine[f] = row[f] \/ (holes /\ mine[f] = 0)

(* An answer that will be applied to the version it was made for. *)
Current(a) == Changes(a) /\ a.from = myVersion

(* Where the client's database is what its version says: unless it will be  *)
(* sent everything; and also then when an answer with changes waits.        *)
IntactWhere ==
  /\ ~Paging /\ myVersion # 0
  /\ ~TooMany(myVersion) \/ \E t \in Threads : Current(thread[t])
  => Intact

(* Everything is sent to a client that has nothing or misses too much. *)
Reason(a) == IF a.full THEN a.from = 0 \/ TooMany(a.from) ELSE a.from # 0

(* An answer says of a settled friend what the rows say.  *)
AnswerTrue(a) ==
  \A f \in Friends : SettledAt(f, a.ver) =>
    IF f \in DOMAIN a.data
    THEN a.data[f] = IF a.pc = "found" THEN elem[f].state ELSE row[f]
    ELSE elem[f].ver =< a.from

(* While pages are read, a settled friend is there or still to be read. *)
PageTrue(a) ==
  \A f \in Friends : SettledAt(f, a.ver) =>
    \/ mine[f] = row[f]
    \/ /\ mine[f] = 0
       /\ holes \/ \E i \in DOMAIN order :
                       order[i] = f /\ a.page * PageSize < i

(* The one that reads pages has the client's database for itself. *)
Alone(t) ==
  /\ thread[t].from = myVersion /\ (myVersion = 0 \/ TooMany(myVersion))
  /\ \A u \in Threads : ~Current(thread[u])
  /\ \A u \in Threads : thread[u].pc = "paging" => u = t

(* What is true of each synchronisation. *)
ThreadTrue(t) ==
  LET a == thread[t] IN
  /\ a.pc \in {"found", "answered"} => Reason(a)
  /\ Changes(a) => AnswerTrue(a)
  /\ a.pc = "paging" => Alone(t) /\ PageTrue(a)

Honest == IntactWhere /\ \A t \in Threads : ThreadTrue(t)

FriendInv == FriendTypes /\ (overlap \/ Honest)

-----------------------------------------------------------------------------
(* A sequence without one of its elements. *)
LEMMA RemoveAtFacts ==
    ASSUME NEW S, NEW s \in Seq(S), NEW i \in DOMAIN s
    PROVE  /\ RemoveAt(s, i) \in Seq(S) /\ Len(RemoveAt(s, i)) = Len(s) - 1
           /\ Len(s) \in Nat /\ i \in 1 .. Len(s)
           /\ \A j \in 1 .. Len(s) - 1 :
                RemoveAt(s, i)[j] = IF j < i THEN s[j] ELSE s[j + 1]
<1>1. /\ Len(s) \in Nat /\ i \in 1 .. Len(s)
      /\ SubSeq(s, 1, i - 1) \in Seq(S) /\ SubSeq(s, i + 1, Len(s)) \in Seq(S)
      /\ Len(SubSeq(s, 1, i - 1)) = i - 1
      /\ Len(SubSeq(s, i + 1, Len(s))) = Len(s) - i
  OBVIOUS
<1>2. /\ \A j \in 1 .. i - 1 : SubSeq(s, 1, i - 1)[j] = s[j]
      /\ \A j \in 1 .. Len(s) - i : SubSeq(s, i + 1, Len(s))[j] = s[i + j]
  OBVIOUS
<1> DEFINE l == SubSeq(s, 1, i - 1)
           r == SubSeq(s, i + 1, Len(s))
<1>3. RemoveAt(s, i) = l \o r
  BY DEF RemoveAt
<1>4. l \in Seq(S) /\ r \in Seq(S) /\ Len(l) = i - 1 /\ Len(r) = Len(s) - i
  BY <1>1
<1>5. \A j \in 1 .. i - 1 : l[j] = s[j]
  BY <1>2
<1>6. \A j \in 1 .. Len(s) - i : r[j] = s[i + j]
  BY <1>2
<1> HIDE DEF l, r
<1>7. /\ l \o r \in Seq(S) /\ Len(l \o r) = Len(s) - 1
  BY <1>1, <1>4, SMTT(30)
<1>8. \A j \in 1 .. Len(s) - 1 : (l \o r)[j] = IF j < i THEN l[j] ELSE r[j - (i - 1)]
  BY <1>1, <1>4, SMTT(30)
<1>9. ASSUME NEW j \in 1 .. Len(s) - 1
      PROVE  (l \o r)[j] = IF j < i THEN s[j] ELSE s[j + 1]
  <2>1. CASE j < i
    <3>1. j \in 1 .. i - 1
      <4>1. i - 1 \in Nat /\ j \in Nat /\ 1 =< j /\ j =< i - 1
        BY <1>1, <2>1, SMTT(30)
      <4>2. QED  BY <4>1
    <3>2. (l \o r)[j] = l[j]
      BY <1>8, <2>1
    <3>3. QED  BY <1>5, <2>1, <3>1, <3>2
  <2>2. CASE ~(j < i)
    <3>1. j - (i - 1) \in 1 .. Len(s) - i /\ i + (j - (i - 1)) = j + 1
      <4>1. ASSUME NEW n \in Nat, NEW k \in 1..n, NEW h \in 1 .. n - 1, ~(h < k)
            PROVE  h - (k - 1) \in 1 .. n - k /\ k + (h - (k - 1)) = h + 1
        <5>1. n \in Int /\ k \in Int /\ h \in Int
          OBVIOUS
        <5>2. k =< h /\ h =< n - 1
          BY <4>1, <5>1
        <5>3. h - (k - 1) >= 1 /\ h - (k - 1) =< n - k
          BY <5>1, <5>2
        <5>4. QED  BY <5>1, <5>3
      <4>2. QED  BY <1>1, <2>2, <4>1
    <3>2. QED  BY <1>6, <1>8, <2>2, <3>1
  <2>3. QED  BY <2>1, <2>2
<1>10. QED  BY <1>1, <1>3, <1>7, <1>9

(* A row that is deleted is no longer in the order, the others stay in it. *)
LEMMA RemoveFirstFacts ==
    ASSUME RowsOK, NEW f \in Friends
    PROVE  /\ row[f] = 0 => RemoveFirst(order, f) = order
           /\ RemoveFirst(order, f) \in Seq(Friends)
           /\ \A i, j \in DOMAIN RemoveFirst(order, f) :
                RemoveFirst(order, f)[i] = RemoveFirst(order, f)[j] => i = j
           /\ \A g \in Friends :
                (\E i \in DOMAIN RemoveFirst(order, f) : RemoveFirst(order, f)[i] = g)
                  <=> g # f /\ row[g] # 0
<1>1. order \in Seq(Friends) /\ Len(order) \in Nat /\ DOMAIN order = 1 .. Len(order)
  BY DEF RowsOK
<1>2. CASE row[f] = 0
  <2>1. ~ \E i \in 1 .. Len(order) : order[i] = f
    BY <1>1, <1>2 DEF RowsOK
  <2>2. RemoveFirst(order, f) = order
    BY <2>1 DEF RemoveFirst
  <2>3. QED  BY <1>2, <2>2 DEF RowsOK
<1>3. CASE row[f] # 0
  <2>1. PICK k \in 1 .. Len(order) : order[k] = f
    BY <1>1, <1>3 DEF RowsOK
  <2>2. {i \in 1 .. Len(order) : order[i] = f} = {k}
    BY <1>1, <2>1 DEF RowsOK
  <2>3. Min({k}) = k
    <3>1. k \in {k} /\ \A y \in {k} : k =< y
      BY <2>1
    <3>2. QED  BY <3>1 DEF Min
  <2>4. RemoveFirst(order, f) = RemoveAt(order, k)
    <3>1. SelectInSeq(order, LAMBDA v : v = f) = k
      BY <2>2, <2>3 DEF SelectInSeq
    <3>2. QED  BY <2>1, <3>1 DEF RemoveFirst
  <2> DEFINE s == RemoveAt(order, k)
  <2>5. /\ s \in Seq(Friends) /\ Len(s) = Len(order) - 1 /\ DOMAIN s = 1 .. Len(order) - 1
        /\ \A j \in 1 .. Len(order) - 1 : s[j] = IF j < k THEN order[j] ELSE order[j + 1]
    <3>1. k \in DOMAIN order
      BY <1>1
    <3>2. /\ s \in Seq(Friends) /\ Len(s) = Len(order) - 1
          /\ \A j \in 1 .. Len(order) - 1 : s[j] = IF j < k THEN order[j] ELSE order[j + 1]
      BY <1>1, <3>1, RemoveAtFacts
    <3>3. QED  BY <3>2
  <2> HIDE DEF s
  <2>6. ASSUME NEW i \in DOMAIN s, NEW j \in DOMAIN s, s[i] = s[j]
        PROVE  i = j
    <3> DEFINE I == IF i < k THEN i ELSE i + 1
               J == IF j < k THEN j ELSE j + 1
    <3>1. I \in DOMAIN order /\ J \in DOMAIN order /\ order[I] = order[J]
      BY <1>1, <2>1, <2>5, <2>6
    <3>2. I = J
      BY <3>1 DEF RowsOK
    <3>3. QED  BY <1>1, <2>1, <2>5, <3>2
  <2>7. ASSUME NEW g \in Friends
        PROVE  (\E i \in DOMAIN s : s[i] = g) <=> g # f /\ row[g] # 0
    <3>1. ASSUME NEW i \in DOMAIN s, s[i] = g  PROVE g # f /\ row[g] # 0
      <4> DEFINE I == IF i < k THEN i ELSE i + 1
      <4>1. I \in DOMAIN order /\ order[I] = g /\ I # k
        BY <1>1, <2>1, <2>5, <3>1
      <4>2. QED  BY <1>1, <2>1, <4>1 DEF RowsOK
    <3>2. ASSUME g # f, row[g] # 0  PROVE \E i \in DOMAIN s : s[i] = g
      <4>1. PICK I \in DOMAIN order : order[I] = g
        BY <3>2 DEF RowsOK
      <4>2. I # k
        BY <2>1, <3>2, <4>1
      <4> DEFINE i == IF I < k THEN I ELSE I - 1
      <4>3. i \in DOMAIN s /\ s[i] = g
        BY <1>1, <2>1, <2>5, <4>1, <4>2
      <4>4. QED  BY <4>3
    <3>3. QED  BY <3>1, <3>2
  <2>8. QED  BY <1>3, <2>4, <2>5, <2>6, <2>7 DEF s
<1>4. QED  BY <1>2, <1>3

(* A sequence with one more element. *)
LEMMA InsertAtFacts ==
    ASSUME NEW S, NEW s \in Seq(S), NEW e \in S, NEW k \in 1 .. Len(s) + 1
    PROVE  /\ InsertAt(s, k, e) \in Seq(S) /\ Len(InsertAt(s, k, e)) = Len(s) + 1
           /\ \A j \in 1 .. Len(s) + 1 :
                InsertAt(s, k, e)[j] =
                  IF j < k THEN s[j] ELSE IF j = k THEN e ELSE s[j - 1]
<1> DEFINE l == SubSeq(s, 1, k - 1)
           r == SubSeq(s, k, Len(s))
<1>1. Len(s) \in Nat /\ k \in Nat /\ 1 =< k /\ k =< Len(s) + 1
  OBVIOUS
<1>2. l \in Seq(S) /\ r \in Seq(S) /\ Len(l) = k - 1 /\ Len(r) = Len(s) - k + 1
  BY <1>1
<1>3. \A j \in 1 .. k - 1 : l[j] = s[j]
  BY <1>1
<1>4. \A j \in 1 .. Len(s) - k + 1 : r[j] = s[k + j - 1]
  BY <1>1
<1>5. InsertAt(s, k, e) = l \o <<e>> \o r
  BY DEF InsertAt
<1> HIDE DEF l, r
<1> DEFINE m == l \o <<e>>
<1>6. /\ m \in Seq(S) /\ Len(m) = k
      /\ \A j \in 1 .. k : m[j] = IF j < k THEN l[j] ELSE e
  BY <1>1, <1>2, SMTT(30)
<1> HIDE DEF m
<1>7. /\ m \o r \in Seq(S) /\ Len(m \o r) = Len(s) + 1
      /\ \A j \in 1 .. Len(s) + 1 : (m \o r)[j] = IF j =< k THEN m[j] ELSE r[j - k]
  BY <1>1, <1>2, <1>6, SMTT(30)
<1>8. ASSUME NEW j \in 1 .. Len(s) + 1
      PROVE  (m \o r)[j] = IF j < k THEN s[j] ELSE IF j = k THEN e ELSE s[j - 1]
  <2>1. CASE j < k
    BY <1>1, <1>3, <1>6, <1>7, <2>1
  <2>2. CASE j = k
    BY <1>1, <1>6, <1>7, <2>2
  <2>3. CASE j > k
    <3>1. j - k \in 1 .. Len(s) - k + 1 /\ k + (j - k) - 1 = j - 1
      BY <1>1, <2>3
    <3>2. r[j - k] = s[j - 1]
      BY <1>4, <3>1
    <3>3. QED  BY <1>1, <1>7, <2>3, <3>2
  <2>4. j < k \/ j = k \/ j > k
    BY <1>1
  <2>5. QED  BY <2>1, <2>2, <2>3, <2>4, Zenon
<1>9. QED  BY <1>5, <1>7, <1>8 DEF m

(* A row that is moved stays in the order, and so do the others. *)
LEMMA MovedFacts ==
    ASSUME RowsOK, NEW f \in Friends, row[f] # 0, NEW o \in Moved(f)
    PROVE  /\ o \in Seq(Friends)
           /\ \A i, j \in DOMAIN o : o[i] = o[j] => i = j
           /\ \A g \in Friends : (\E i \in DOMAIN o : o[i] = g) <=> row[g] # 0
<1> DEFINE s == RemoveFirst(order, f)
<1>1. /\ s \in Seq(Friends) /\ \A i, j \in DOMAIN s : s[i] = s[j] => i = j
      /\ \A g \in Friends : (\E i \in DOMAIN s : s[i] = g) <=> g # f /\ row[g] # 0
  BY RemoveFirstFacts
<1>2. PICK k \in 1 .. Len(s) + 1 : o = InsertAt(s, k, f)
  BY DEF Moved
<1> HIDE DEF s
<1>3. /\ o \in Seq(Friends) /\ Len(o) = Len(s) + 1
      /\ \A j \in 1 .. Len(s) + 1 :
           o[j] = IF j < k THEN s[j] ELSE IF j = k THEN f ELSE s[j - 1]
  <2>1. o = InsertAt(s, k, f) /\ k \in 1 .. Len(s) + 1 /\ s \in Seq(Friends)
    BY <1>1, <1>2
  <2>2. /\ InsertAt(s, k, f) \in Seq(Friends) /\ Len(InsertAt(s, k, f)) = Len(s) + 1
        /\ \A j \in 1 .. Len(s) + 1 :
             InsertAt(s, k, f)[j] =
               IF j < k THEN s[j] ELSE IF j = k THEN f ELSE s[j - 1]
    BY <2>1, InsertAtFacts
  <2>3. QED  BY <2>1, <2>2
<1>4. /\ DOMAIN o = 1 .. Len(s) + 1 /\ DOMAIN s = 1 .. Len(s) /\ Len(s) \in Nat
      /\ k \in Nat /\ 1 =< k /\ k =< Len(s) + 1
  BY <1>1, <1>2, <1>3
<1>5. ASSUME NEW i \in DOMAIN s  PROVE s[i] # f
  BY <1>1, <1>5
<1>6. ASSUME NEW i \in DOMAIN o, i # k
      PROVE  /\ (IF i < k THEN i ELSE i - 1) \in DOMAIN s
             /\ o[i] = s[IF i < k THEN i ELSE i - 1] /\ o[i] # f
  BY <1>3, <1>4, <1>5, <1>6
<1>7. k \in DOMAIN o /\ o[k] = f
  BY <1>3, <1>4
<1>8. ASSUME NEW i \in DOMAIN o, NEW j \in DOMAIN o, o[i] = o[j]
      PROVE  i = j
  <2>1. CASE i = k \/ j = k
    BY <1>6, <1>7, <1>8, <2>1
  <2>2. CASE i # k /\ j # k
    <3>1. (IF i < k THEN i ELSE i - 1) = (IF j < k THEN j ELSE j - 1)
      BY <1>1, <1>6, <1>8, <2>2
    <3>2. QED  BY <1>4, <2>2, <3>1
  <2>3. QED  BY <2>1, <2>2
<1>9. ASSUME NEW g \in Friends
      PROVE  (\E i \in DOMAIN o : o[i] = g) <=> row[g] # 0
  <2>1. CASE g = f
    BY <1>7, <2>1
  <2>2. CASE g # f
    <3>1. ASSUME NEW i \in DOMAIN o, o[i] = g  PROVE row[g] # 0
      BY <1>1, <1>6, <1>7, <2>2, <3>1
    <3>2. ASSUME row[g] # 0  PROVE \E i \in DOMAIN o : o[i] = g
      <4>1. PICK j \in DOMAIN s : s[j] = g
        BY <1>1, <2>2, <3>2
      <4> DEFINE i == IF j < k THEN j ELSE j + 1
      <4>2. i \in DOMAIN o /\ o[i] = s[j]
        BY <1>3, <1>4
      <4>3. QED  BY <4>1, <4>2
    <3>3. QED  BY <3>1, <3>2
  <2>3. QED  BY <2>1, <2>2
<1>10. QED  BY <1>3, <1>8, <1>9

-----------------------------------------------------------------------------
(* What each kind of synchronisation is. *)
LEMMA ThreadFacts ==
    ASSUME ClientOK, NEW t \in Threads
    PROVE  /\ thread[t].pc \in {"idle", "asked", "found", "answered", "paging"}
           /\ thread[t].pc = "idle" => thread[t] = Resting
           /\ thread[t].pc = "asked" => thread[t] \in Asked
           /\ thread[t].pc = "found" => thread[t] \in Found
           /\ thread[t].pc = "answered" => thread[t] \in Answered
           /\ thread[t].pc = "paging" => thread[t] \in Pages
<1>1. thread[t] \in {Resting} \cup Asked \cup Found \cup Answered \cup Pages
  BY DEF ClientOK
<1>2. CASE thread[t] = Resting
  BY <1>2 DEF Resting
<1>3. CASE thread[t] \in Asked
  BY <1>3 DEF Asked
<1>4. CASE thread[t] \in Found
  BY <1>4 DEF Found
<1>5. CASE thread[t] \in Answered
  BY <1>5 DEF Answered
<1>6. CASE thread[t] \in Pages
  BY <1>6 DEF Pages
<1>7. QED  BY <1>1, <1>2, <1>3, <1>4, <1>5, <1>6

(* One synchronisation goes on, the others stay. *)
LEMMA ThreadMoves ==
    ASSUME ClientOK, NEW t \in Threads, NEW r \in Works,
           thread' = [thread EXCEPT ![t] = r]
    PROVE  /\ thread' \in [Threads -> {Resting} \cup Asked \cup Found \cup Answered \cup Pages]
           /\ thread'[t] = r /\ \A u \in Threads : u # t => thread'[u] = thread[u]
BY DEF ClientOK, Works

(* The answer to no question, and those with some rows. *)
LEMMA MapTypes ==
    /\ NoRows \in StateMaps /\ NoRows \in RowMaps
    /\ \A D \in SUBSET Friends : \A m \in [D -> Kinds] : m \in StateMaps
    /\ \A D \in SUBSET Friends : \A m \in [D -> 0..MaxChanges] : m \in RowMaps
    /\ \A m \in StateMaps : DOMAIN m \subseteq Friends /\ \A f \in DOMAIN m : m[f] \in Kinds
    /\ \A m \in RowMaps : DOMAIN m \subseteq Friends /\ \A f \in DOMAIN m : m[f] \in 0..MaxChanges
<1>1. NoRows \in [{} -> Kinds] /\ NoRows \in [{} -> 0..MaxChanges] /\ {} \in SUBSET Friends
  BY DEF NoRows
<1>2. /\ \A D \in SUBSET Friends : \A m \in [D -> Kinds] : m \in StateMaps
      /\ \A D \in SUBSET Friends : \A m \in [D -> 0..MaxChanges] : m \in RowMaps
  BY DEF StateMaps, RowMaps
<1>3. ASSUME NEW m \in StateMaps
      PROVE  DOMAIN m \subseteq Friends /\ \A f \in DOMAIN m : m[f] \in Kinds
  <2>1. PICK D \in SUBSET Friends : m \in [D -> Kinds]
    BY DEF StateMaps
  <2>2. QED  BY <2>1
<1>4. ASSUME NEW m \in RowMaps
      PROVE  DOMAIN m \subseteq Friends /\ \A f \in DOMAIN m : m[f] \in 0..MaxChanges
  <2>1. PICK D \in SUBSET Friends : m \in [D -> 0..MaxChanges]
    BY DEF RowMaps
  <2>2. QED  BY <2>1
<1>5. NoRows \in StateMaps /\ NoRows \in RowMaps
  BY <1>1, <1>2
<1>6. QED  BY <1>2, <1>3, <1>4, <1>5

(* What a step of the server leaves of the client's types. *)
LEMMA ClientKept ==
    ASSUME FriendTypes, version' \in Nat, version =< version',
           UNCHANGED <<mine, myVersion, thread, overlap>>, holes' \in BOOLEAN
    PROVE  ClientOK' /\ VersionsInOrder'
<1>1. ClientOK'
  BY DEF FriendTypes, ClientOK, LogOK
<1>2. ASSUME NEW t \in Threads
      PROVE  /\ thread'[t].pc # "idle" => thread'[t].from =< version'
             /\ thread'[t].pc \in {"found", "answered", "paging"} =>
                  thread'[t].from =< thread'[t].ver /\ thread'[t].ver =< version'
  <2>1. /\ thread[t].pc # "idle" => thread[t].from \in Nat
        /\ thread[t].pc \in {"found", "answered", "paging"} => thread[t].ver \in Nat
    BY ThreadFacts DEF FriendTypes, Asked, Found, Answered, Pages
  <2>2. QED  BY <2>1 DEF FriendTypes, VersionsInOrder, LogOK
<1>3. QED  BY <1>1, <1>2 DEF VersionsInOrder

(* The types of the server. *)
LEMMA WriteRowTypes ==
    ASSUME FriendTypes, NEW k \in Kinds, NEW f \in Friends, WriteRow(k, f)
    PROVE  FriendTypes'
<1>1. /\ changes < MaxChanges /\ changes' = changes + 1
      /\ row' = [row EXCEPT ![f] = IF k = "insert" \/ (k # "delete" /\ row[f] # 0)
                                    THEN changes + 1 ELSE 0]
      /\ ops' = Append(ops, [kind |-> k, friend |-> f, pc |-> "log"])
      /\ dirty' = dirty \union {f}
      /\ UNCHANGED <<version, elem, sorted, cachedVer, mine, myVersion, thread, overlap>>
      /\ MaxChanges \in Nat
  BY FriendSyncAssumption DEF WriteRow
<1>2. holes' \in BOOLEAN
  BY DEF WriteRow, FriendTypes, ClientOK
<1>3. ClientOK' /\ VersionsInOrder'
  BY <1>1, <1>2, ClientKept DEF FriendTypes, LogOK
<1>4. LogOK'
  <2>1. [kind |-> k, friend |-> f, pc |-> "log"] \in Operations
    BY DEF Operations
  <2>2. QED  BY <1>1, <2>1 DEF FriendTypes, LogOK
<1>5. row' \in [Friends -> 0..MaxChanges]
  BY <1>1 DEF FriendTypes, RowsOK, LogOK
<1>6. CASE k = "insert"
  <2>1. row[f] = 0 /\ order' = Append(order, f) /\ row' = [row EXCEPT ![f] = changes + 1]
    BY <1>1, <1>6 DEF WriteRow, Insertable, Kinds
  <2>2. /\ order' \in Seq(Friends) /\ DOMAIN order' = DOMAIN order \cup {Len(order) + 1}
        /\ order'[Len(order) + 1] = f /\ \A i \in DOMAIN order : order'[i] = order[i]
        /\ DOMAIN order = 1 .. Len(order) /\ Len(order) \in Nat
    BY <2>1 DEF FriendTypes, RowsOK
  <2>3. ~ \E i \in DOMAIN order : order[i] = f
    BY <2>1 DEF FriendTypes, RowsOK
  <2>4. \A i, j \in DOMAIN order' : order'[i] = order'[j] => i = j
    BY <2>2, <2>3 DEF FriendTypes, RowsOK
  <2>5. \A g \in Friends : row'[g] # 0 <=> \E i \in DOMAIN order' : order'[i] = g
    <3>1. row'[f] # 0
      BY <1>1, <2>1 DEF FriendTypes, RowsOK, LogOK
    <3>2. ASSUME NEW g \in Friends, g # f
          PROVE  row'[g] # 0 <=> \E i \in DOMAIN order' : order'[i] = g
      <4>1. row'[g] = row[g]
        BY <2>1, <3>2 DEF FriendTypes, RowsOK
      <4>2. QED  BY <2>2, <3>2, <4>1 DEF FriendTypes, RowsOK
    <3>3. QED  BY <2>2, <3>1, <3>2
  <2>6. QED  BY <1>3, <1>4, <1>5, <2>2, <2>4, <2>5 DEF FriendTypes, RowsOK
<1>7. CASE k = "delete"
  <2>1. order' = RemoveFirst(order, f) /\ row' = [row EXCEPT ![f] = 0]
    BY <1>1, <1>7 DEF WriteRow, Kinds
  <2>2. QED  BY <1>3, <1>4, <1>5, <2>1, RemoveFirstFacts DEF FriendTypes, RowsOK
<1>8. \A g \in Friends : k \in {"update", "pin"} => (row'[g] # 0 <=> row[g] # 0)
  <2>1. changes + 1 # 0
    BY DEF FriendTypes, LogOK
  <2>2. QED  BY <1>1, <2>1 DEF FriendTypes, RowsOK
<1>9. CASE k = "update" \/ (k = "pin" /\ row[f] = 0)
  <2>1. order' = order
    BY <1>9 DEF WriteRow, Kinds
  <2>2. QED  BY <1>3, <1>4, <1>5, <1>8, <1>9, <2>1 DEF FriendTypes, RowsOK
<1>10. CASE k = "pin" /\ row[f] # 0
  <2>1. order' \in Moved(f)
    BY <1>10 DEF WriteRow, Kinds
  <2>2. RowsOK
    BY DEF FriendTypes
  <2>3. /\ order' \in Seq(Friends) /\ \A i, j \in DOMAIN order' : order'[i] = order'[j] => i = j
        /\ \A g \in Friends : (\E i \in DOMAIN order' : order'[i] = g) <=> row[g] # 0
    BY <1>10, <2>1, <2>2, MovedFacts
  <2>4. RowsOK'
    BY <1>5, <1>8, <1>10, <2>3 DEF RowsOK
  <2>5. QED  BY <1>3, <1>4, <2>4 DEF FriendTypes
<1>11. QED  BY <1>6, <1>7, <1>9, <1>10 DEF Kinds

(* The log and the notification. *)
LEMMA HandlerTypes ==
    ASSUME FriendTypes, NEW i \in DOMAIN ops,
           LogVersion(i) \/ Uncache(i) \/ HandlerFails(i)
    PROVE  FriendTypes'
<1>1. ops \in Seq(Operations) /\ ops[i] \in Operations /\ ops[i].friend \in Friends
  <2>1. ops \in Seq(Operations)
    BY DEF FriendTypes, LogOK
  <2>2. ops[i] \in Operations
    BY <2>1
  <2>3. QED  BY <2>1, <2>2 DEF Operations
<1>2. CASE LogVersion(i)
  <2>1. /\ version' = version + 1
        /\ elem' = [elem EXCEPT ![ops[i].friend] = [ver |-> version + 1, state |-> ops[i].kind]]
        /\ ops' = [ops EXCEPT ![i].pc = "uncache"]
        /\ sorted' \in {sorted, version + 1} /\ dirty' = dirty \ {ops[i].friend}
        /\ UNCHANGED <<order, row, cachedVer, changes, mine, myVersion, thread, overlap, holes>>
    BY <1>2 DEF LogVersion, FriendHistory
  <2>2. version' \in Nat /\ version =< version' /\ holes' \in BOOLEAN
    BY <2>1 DEF FriendTypes, LogOK, ClientOK
  <2>3. ClientOK' /\ VersionsInOrder'
    BY <2>1, <2>2, ClientKept
  <2>4. ops' \in Seq(Operations)
    <3>1. [ops[i] EXCEPT !.pc = "uncache"] \in Operations
      BY <1>1 DEF Operations
    <3>2. ops' = [ops EXCEPT ![i] = [ops[i] EXCEPT !.pc = "uncache"]]
      BY <2>1
    <3>3. QED  BY <1>1, <3>1, <3>2
  <2>5. LogOK'
    <3>1. [ver |-> version + 1, state |-> ops[i].kind] \in [ver : Nat, state : Kinds]
      BY <1>1 DEF FriendTypes, LogOK, Operations
    <3>2. elem' \in [Friends -> [ver : Nat, state : Kinds]]
      BY <1>1, <2>1, <3>1 DEF FriendTypes, LogOK
    <3>3. \A f \in Friends : elem'[f].ver =< version'
      BY <1>1, <2>1 DEF FriendTypes, LogOK
    <3>4. QED  BY <2>1, <2>2, <2>4, <3>2, <3>3 DEF FriendTypes, LogOK
  <2>6. QED  BY <2>1, <2>3, <2>5 DEF FriendTypes, RowsOK
<1>3. CASE Uncache(i) \/ HandlerFails(i)
  <2>1. /\ cachedVer' \in {0, cachedVer} /\ ops' = RemoveAt(ops, i)
        /\ UNCHANGED <<order, row, version, elem, sorted, dirty, changes, mine, myVersion,
                       thread, overlap, holes>>
    BY <1>3 DEF Uncache, HandlerFails, FriendHistory
  <2>2. ops' \in Seq(Operations)
    BY <1>1, <2>1, RemoveAtFacts
  <2>3. ClientOK' /\ VersionsInOrder'
    BY <2>1, ClientKept DEF FriendTypes, LogOK, ClientOK
  <2>4. QED  BY <2>1, <2>2, <2>3 DEF FriendTypes, RowsOK, LogOK
<1>4. QED  BY <1>2, <1>3

(* What a step of the client leaves of the server's types. *)
LEMMA ServerKept ==
    ASSUME FriendTypes, UNCHANGED FriendServer
    PROVE  RowsOK' /\ LogOK'
BY DEF FriendTypes, FriendServer, RowsOK, LogOK

(* The types after a synchronisation went on to r. *)
LEMMA ClientMoves ==
    ASSUME FriendTypes, RowsOK', LogOK', version =< version', NEW t \in Threads,
           NEW r \in Works, thread' = [thread EXCEPT ![t] = r],
           mine' \in [Friends -> 0..MaxChanges], myVersion' \in 0..version',
           overlap' \in BOOLEAN, holes' \in BOOLEAN,
           r.pc # "idle" => r.from =< version',
           r.pc \in {"found", "answered", "paging"} =>
             r.from =< r.ver /\ r.ver =< version'
    PROVE  FriendTypes'
<1>1. ClientOK
  BY DEF FriendTypes
<1>2. /\ thread' \in [Threads -> {Resting} \cup Asked \cup Found \cup Answered \cup Pages]
      /\ thread'[t] = r /\ \A u \in Threads : u # t => thread'[u] = thread[u]
  BY <1>1, ThreadMoves
<1>3. ClientOK'
  BY <1>2 DEF ClientOK
<1>4. ASSUME NEW u \in Threads
      PROVE  /\ thread'[u].pc # "idle" => thread'[u].from =< version'
             /\ thread'[u].pc \in {"found", "answered", "paging"} =>
                  thread'[u].from =< thread'[u].ver /\ thread'[u].ver =< version'
  <2>1. CASE u = t
    BY <1>2, <2>1
  <2>2. CASE u # t
    <3>1. /\ thread[u].pc # "idle" => thread[u].from \in Nat
          /\ thread[u].pc \in {"found", "answered", "paging"} => thread[u].ver \in Nat
      BY <1>1, ThreadFacts DEF Asked, Found, Answered, Pages
    <3>2. version \in Nat /\ version' \in Nat
      BY DEF FriendTypes, LogOK
    <3>3. thread'[u] = thread[u]
      BY <1>2, <2>2
    <3>4. /\ thread[u].pc # "idle" => thread[u].from =< version
          /\ thread[u].pc \in {"found", "answered", "paging"} =>
               thread[u].from =< thread[u].ver /\ thread[u].ver =< version
      BY DEF FriendTypes, VersionsInOrder
    <3>5. QED  BY <3>1, <3>2, <3>3, <3>4
  <2>3. QED  BY <2>1, <2>2
<1>5. QED  BY <1>3, <1>4 DEF FriendTypes, VersionsInOrder

(* A synchronisation begins. *)
LEMMA BeginTypes ==
    ASSUME FriendTypes, NEW t \in Threads, Begin(t),
           UNCHANGED <<FriendServer, mine, myVersion, overlap, holes>>
    PROVE  FriendTypes'
<1> DEFINE r == [pc |-> "asked", from |-> myVersion]
<1>1. thread' = [thread EXCEPT ![t] = r]
  BY DEF Begin
<1>2. myVersion \in 0..version /\ version \in Nat /\ version' = version
  BY DEF FriendTypes, ClientOK, LogOK, FriendServer
<1>3. r \in Works /\ r.pc = "asked" /\ r.from = myVersion
  BY <1>2 DEF Works, Asked
<1> HIDE DEF r
<1>4. RowsOK' /\ LogOK'
  BY ServerKept
<1>5. /\ mine' \in [Friends -> 0..MaxChanges] /\ myVersion' \in 0..version'
      /\ overlap' \in BOOLEAN /\ holes' \in BOOLEAN
  BY <1>2 DEF FriendTypes, ClientOK
<1>6. /\ version =< version' /\ r.from =< version'
      /\ r.pc \notin {"found", "answered", "paging"}
  BY <1>2, <1>3
<1>7. QED  BY <1>1, <1>3, <1>4, <1>5, <1>6, ClientMoves

(* The server answers. *)
LEMMA GetVersionTypes ==
    ASSUME FriendTypes, NEW t \in Threads, GetVersion(t)
    PROVE  FriendTypes'
<1> DEFINE v == thread[t].from
           all == [pc |-> "answered", from |-> v, full |-> TRUE, ver |-> Newest,
                   sort |-> FALSE, data |-> NoRows]
           some == [pc |-> "found", from |-> v, full |-> TooMany(v), ver |-> version,
                    sort |-> sorted > v,
                    data |-> [f \in Changed(v) |-> elem[f].state]]
           r == IF v = 0 THEN all ELSE IF v = Newest THEN Resting ELSE some
<1>1. /\ thread[t].pc = "asked" /\ cachedVer' = Newest /\ version' = Created
      /\ thread' = [thread EXCEPT ![t] = r]
      /\ UNCHANGED <<order, row, elem, sorted, dirty, ops, changes, mine, myVersion,
                     overlap, holes>>
  BY DEF GetVersion, FriendHistory
<1>2. version \in Nat /\ cachedVer \in 0..version /\ v \in Nat /\ v =< version
  <2>1. thread[t] \in Asked
    BY <1>1, ThreadFacts DEF FriendTypes
  <2>2. QED  BY <1>1, <2>1 DEF FriendTypes, LogOK, VersionsInOrder, Asked
<1>3. /\ version' \in Nat /\ version =< version' /\ Newest \in 0..version'
      /\ cachedVer' \in 0..version'
  BY <1>1, <1>2 DEF Created, Newest
<1>4. RowsOK'
  BY <1>1 DEF FriendTypes, RowsOK
<1>5. LogOK'
  <2>1. \A f \in Friends : elem[f].ver \in Nat /\ elem[f].ver =< version
    BY DEF FriendTypes, LogOK
  <2>2. \A f \in Friends : elem[f].ver =< version'
    BY <1>2, <1>3, <2>1
  <2>3. QED  BY <1>1, <1>3, <2>2 DEF FriendTypes, LogOK
<1>6. all \in Answered /\ Resting \in Works
  BY <1>2, <1>3, MapTypes DEF Answered, Works
<1>7. some \in Found
  <2>1. TooMany(v) \in BOOLEAN
    BY DEF TooMany
  <2>2. Changed(v) \in SUBSET Friends /\ \A f \in Friends : elem[f].state \in Kinds
    BY DEF Changed, FriendTypes, LogOK
  <2>3. [f \in Changed(v) |-> elem[f].state] \in [Changed(v) -> Kinds]
    BY <2>2
  <2>4. [f \in Changed(v) |-> elem[f].state] \in StateMaps
    BY <2>2, <2>3, MapTypes
  <2>5. QED  BY <1>2, <2>1, <2>4 DEF Found
<1>8. r \in Works
  BY <1>6, <1>7 DEF Works
<1>9. /\ r.pc # "idle" => r.from =< version'
      /\ r.pc \in {"found", "answered", "paging"} => r.from =< r.ver /\ r.ver =< version'
  BY <1>2, <1>3 DEF Resting
<1> HIDE DEF r
<1>10. /\ mine' \in [Friends -> 0..MaxChanges] /\ myVersion' \in 0..version'
       /\ overlap' \in BOOLEAN /\ holes' \in BOOLEAN
  BY <1>1, <1>2, <1>3 DEF FriendTypes, ClientOK
<1>11. QED  BY <1>1, <1>3, <1>4, <1>5, <1>8, <1>9, <1>10, ClientMoves

(* What FindRows answers with. *)
Here(a) == {f \in DOMAIN a.data : a.data[f] = "delete" \/ row[f] # 0}
RowsFor(a) == IF a.full THEN NoRows
              ELSE [f \in Here(a) |-> IF a.data[f] = "delete" THEN 0 ELSE row[f]]
RowAnswer(a) == [a EXCEPT !.pc = "answered", !.data = RowsFor(a)]

(* A thread that has read the rows holds the answer. *)
LEMMA FindRowsFacts ==
    ASSUME FriendTypes, NEW t \in Threads, FindRows(t)
    PROVE  /\ thread[t] \in Found /\ RowAnswer(thread[t]) \in Answered
           /\ thread' = [thread EXCEPT ![t] = RowAnswer(thread[t])]
<1> DEFINE a == thread[t]
<1>1. a \in Found
  BY ThreadFacts DEF FindRows, FriendTypes
<1>2. RowsFor(a) \in RowMaps
  <2>1. Here(a) \in SUBSET Friends /\ \A f \in Here(a) : row[f] \in 0..MaxChanges
    BY <1>1, MapTypes DEF Here, Found, FriendTypes, RowsOK
  <2>2. 0 \in 0..MaxChanges
    BY FriendSyncAssumption
  <2>3. [f \in Here(a) |-> IF a.data[f] = "delete" THEN 0 ELSE row[f]]
          \in [Here(a) -> 0..MaxChanges]
    BY <2>1, <2>2
  <2>4. QED  BY <2>1, <2>3, MapTypes DEF RowsFor
<1>3. RowAnswer(a) \in Answered
  BY <1>1, <1>2 DEF RowAnswer, Answered, Found
<1>4. thread' = [thread EXCEPT ![t] = RowAnswer(a)]
  <2>1. thread' = [thread EXCEPT ![t] = [a EXCEPT !.pc = "answered", !.data = RowsFor(a)]]
    BY DEF FindRows, RowsFor, Here
  <2>2. QED  BY <2>1 DEF RowAnswer
<1>5. QED  BY <1>1, <1>3, <1>4

(* The rows are read. *)
LEMMA FindRowsTypes ==
    ASSUME FriendTypes, NEW t \in Threads, FindRows(t)
    PROVE  FriendTypes'
<1> DEFINE r == RowAnswer(thread[t])
<1>1. /\ thread[t] \in Found /\ r \in Answered /\ thread' = [thread EXCEPT ![t] = r]
  BY FindRowsFacts
<1>2. UNCHANGED <<FriendServer, mine, myVersion, overlap, holes>>
  BY DEF FindRows, FriendHistory
<1>3. version' = version /\ version \in Nat
  BY <1>2 DEF FriendTypes, LogOK, FriendServer
<1>4. /\ r.from = thread[t].from /\ r.ver = thread[t].ver /\ r.pc = "answered"
      /\ thread[t].pc = "found"
  BY <1>1 DEF RowAnswer, Found
<1>5. r.from =< version' /\ r.from =< r.ver /\ r.ver =< version'
  BY <1>3, <1>4 DEF FriendTypes, VersionsInOrder
<1>6. r \in Works
  BY <1>1 DEF Works
<1> HIDE DEF r
<1>7. RowsOK' /\ LogOK'
  BY <1>2, ServerKept
<1>8. /\ mine' \in [Friends -> 0..MaxChanges] /\ myVersion' \in 0..version'
      /\ overlap' \in BOOLEAN /\ holes' \in BOOLEAN
  BY <1>2, <1>3 DEF FriendTypes, ClientOK
<1>9. version =< version'
  BY <1>3
<1>10. QED  BY <1>1, <1>5, <1>6, <1>7, <1>8, <1>9, ClientMoves

(* What the client has after an answer with changes. *)
LEMMA ApplyFacts ==
    ASSUME FriendTypes, NEW t \in Threads, Apply(t)
    PROVE  LET a == thread[t] IN
           /\ a \in Answered /\ ~a.full
           /\ mine' \in [Friends -> 0..MaxChanges]
           /\ DOMAIN a.data \subseteq Friends
           /\ \A f \in Friends : mine'[f] = IF f \in DOMAIN a.data THEN a.data[f] ELSE mine[f]
<1> DEFINE a == thread[t]
<1>1. /\ a \in Answered /\ ~a.full
      /\ mine' = [f \in Friends |-> IF f \in DOMAIN a.data THEN a.data[f] ELSE mine[f]]
  BY ThreadFacts DEF Apply, FriendTypes
<1>2. /\ DOMAIN a.data \subseteq Friends /\ \A f \in DOMAIN a.data : a.data[f] \in 0..MaxChanges
  BY <1>1, MapTypes DEF Answered
<1>3. mine \in [Friends -> 0..MaxChanges]
  BY DEF FriendTypes, ClientOK
<1>4. \A f \in Friends : (IF f \in DOMAIN a.data THEN a.data[f] ELSE mine[f]) \in 0..MaxChanges
  BY <1>2, <1>3
<1>5. mine' \in [Friends -> 0..MaxChanges]
  BY <1>1, <1>4
<1>6. QED  BY <1>1, <1>2, <1>5

(* An answer with changes is applied. *)
LEMMA ApplyTypes ==
    ASSUME FriendTypes, NEW t \in Threads, Apply(t)
    PROVE  FriendTypes'
<1> DEFINE a == thread[t]
<1>1. /\ a \in Answered /\ a.pc = "answered" /\ mine' \in [Friends -> 0..MaxChanges]
      /\ UNCHANGED FriendServer /\ UNCHANGED holes
      /\ thread' = [thread EXCEPT ![t] = Resting]
      /\ myVersion' \in {myVersion, a.ver}
      /\ overlap' = (overlap \/ myVersion # a.from)
  BY ApplyFacts DEF Apply
<1>2. version' = version /\ version \in Nat /\ a.ver \in Nat /\ a.ver =< version
  BY <1>1 DEF FriendTypes, LogOK, FriendServer, VersionsInOrder, Answered
<1>3. myVersion' \in 0..version'
  BY <1>1, <1>2 DEF FriendTypes, ClientOK
<1>4. overlap' \in BOOLEAN /\ holes' \in BOOLEAN
  BY <1>1 DEF FriendTypes, ClientOK
<1>5. Resting \in Works /\ Resting.pc = "idle" /\ version =< version'
  BY <1>2 DEF Works, Resting
<1>6. RowsOK' /\ LogOK'
  BY <1>1, ServerKept
<1>7. QED  BY <1>1, <1>3, <1>4, <1>5, <1>6, ClientMoves

(* Pages are read from the first. *)
FirstPage(a) == [pc |-> "paging", from |-> a.from, ver |-> a.ver, page |-> 0,
                 clash |-> FALSE]

(* A full synchronisation begins: everything is deleted. *)
LEMMA DeleteAllTypes ==
    ASSUME FriendTypes, NEW t \in Threads, DeleteAll(t)
    PROVE  /\ FriendTypes' /\ thread[t] \in Answered
           /\ thread' = [thread EXCEPT ![t] = FirstPage(thread[t])]
           /\ FirstPage(thread[t]) \in Pages
<1> DEFINE a == thread[t]
           r == FirstPage(a)
<1>1. /\ a \in Answered /\ a.pc = "answered" /\ UNCHANGED FriendServer
      /\ mine' = [f \in Friends |-> 0] /\ myVersion' = myVersion /\ holes' = FALSE
      /\ thread' = [thread EXCEPT ![t] = r]
  BY ThreadFacts DEF DeleteAll, FriendTypes, FirstPage
<1>2. overlap' \in BOOLEAN
  BY DEF DeleteAll, FriendTypes, ClientOK
<1>3. /\ version' = version /\ version \in Nat /\ a.from \in Nat /\ a.ver \in Nat
      /\ a.from =< a.ver /\ a.ver =< version
  BY <1>1 DEF FriendTypes, LogOK, FriendServer, VersionsInOrder, Answered
<1>4. /\ r \in Pages /\ r.from =< version' /\ r.from =< r.ver /\ r.ver =< version'
  BY <1>3 DEF FirstPage, Pages
<1>5. r \in Works /\ version =< version'
  BY <1>3, <1>4 DEF Works
<1> HIDE DEF r
<1>6. RowsOK' /\ LogOK'
  BY <1>1, ServerKept
<1>7. mine' \in [Friends -> 0..MaxChanges] /\ myVersion' \in 0..version'
  BY <1>1, <1>3, FriendSyncAssumption DEF FriendTypes, ClientOK
<1>8. FriendTypes'
  BY <1>1, <1>2, <1>4, <1>5, <1>6, <1>7, ClientMoves
<1>9. QED  BY <1>1, <1>4, <1>8 DEF r

(* The indices of a page. *)
PageAt(n) == {i \in DOMAIN order : n * PageSize < i /\ i =< (n + 1) * PageSize}
Enough(n) == (n + 1) * PageSize >= MaxItems
Beyond(n) == Enough(n) /\ Len(order) > (n + 1) * PageSize
LastPage(n) == Cardinality(PageAt(n)) < PageSize \/ Enough(n)
ClashAt(a) == a.clash \/ \E i \in PageAt(a.page) : mine[order[i]] # 0
NextPage(a) == [a EXCEPT !.page = @ + 1, !.clash = ClashAt(a)]

(* The record of the next page. *)
LEMMA PageMoves ==
    ASSUME NEW a \in Pages, NEW c \in BOOLEAN
    PROVE  LET r == [a EXCEPT !.page = a.page + 1, !.clash = c] IN
           /\ r \in Pages /\ r.from = a.from /\ r.ver = a.ver /\ r.page = a.page + 1
<1> DEFINE n == a.page + 1
           r == [a EXCEPT !.page = n, !.clash = c]
<1>1. n \in Nat
  BY DEF Pages
<1> HIDE DEF n
<1>2. r \in Pages
  BY <1>1 DEF Pages
<1>3. r.from = a.from /\ r.ver = a.ver
  BY DEF Pages
<1>4. r.page = n
  BY DEF Pages
<1>5. QED  BY <1>2, <1>3, <1>4 DEF n

(* What reading a page does, in the terms above. *)
LEMMA ReadPageFacts ==
    ASSUME FriendTypes, NEW t \in Threads, ReadPage(t)
    PROVE  LET a == thread[t] IN
           /\ a \in Pages /\ a.pc = "paging" /\ NextPage(a) \in Pages
           /\ NextPage(a).from = a.from /\ NextPage(a).ver = a.ver
           /\ NextPage(a).page = a.page + 1
           /\ mine' = [f \in Friends |->
                IF mine[f] = 0 /\ \E i \in PageAt(a.page) : order[i] = f
                THEN row[f] ELSE mine[f]]
           /\ \/ myVersion' = myVersion
              \/ LastPage(a.page) /\ ~ClashAt(a) /\ myVersion' = a.ver
           /\ overlap' = (overlap \/ myVersion # a.from)
           /\ thread' = [thread EXCEPT ![t] =
                           IF LastPage(a.page) THEN Resting ELSE NextPage(a)]
           /\ holes' = (holes \/ Beyond(a.page))
           /\ UNCHANGED FriendServer
<1> DEFINE a == thread[t]
<1>1. a \in Pages /\ a.pc = "paging"
  BY ThreadFacts DEF ReadPage, FriendTypes
<1>2. ClashAt(a) \in BOOLEAN
  BY <1>1 DEF ClashAt, Pages
<1>3. NextPage(a) \in Pages /\ NextPage(a).from = a.from /\ NextPage(a).ver = a.ver
      /\ NextPage(a).page = a.page + 1
  <2> DEFINE c == ClashAt(a)
             r == [a EXCEPT !.page = a.page + 1, !.clash = c]
  <2>1. c \in BOOLEAN
    BY <1>2
  <2> HIDE DEF c
  <2>2. r \in Pages /\ r.from = a.from /\ r.ver = a.ver /\ r.page = a.page + 1
    BY <1>1, <2>1, PageMoves
  <2>3. QED  BY <2>2 DEF NextPage, c
<1>4. /\ mine' = [f \in Friends |->
           IF mine[f] = 0 /\ \E i \in PageAt(a.page) : order[i] = f
           THEN row[f] ELSE mine[f]]
      /\ \/ myVersion' = myVersion
         \/ LastPage(a.page) /\ ~ClashAt(a) /\ myVersion' = a.ver
      /\ overlap' = (overlap \/ myVersion # a.from)
      /\ holes' = (holes \/ Beyond(a.page))
      /\ UNCHANGED FriendServer
  BY DEF ReadPage, LastPage, Enough, Beyond, PageAt, ClashAt
<1>5. thread' = [thread EXCEPT ![t] = IF LastPage(a.page) THEN Resting ELSE NextPage(a)]
  BY DEF ReadPage, LastPage, Enough, PageAt, ClashAt, NextPage
<1>6. QED  BY <1>1, <1>3, <1>4, <1>5

(* A page is read. *)
LEMMA ReadPageTypes ==
    ASSUME FriendTypes, NEW t \in Threads, ReadPage(t)
    PROVE  FriendTypes'
<1> DEFINE a == thread[t]
           r == IF LastPage(a.page) THEN Resting ELSE NextPage(a)
<1>1. /\ a \in Pages /\ a.pc = "paging" /\ NextPage(a) \in Pages
      /\ NextPage(a).from = a.from /\ NextPage(a).ver = a.ver
      /\ mine' = [f \in Friends |->
           IF mine[f] = 0 /\ \E i \in PageAt(a.page) : order[i] = f
           THEN row[f] ELSE mine[f]]
      /\ \/ myVersion' = myVersion
         \/ LastPage(a.page) /\ ~ClashAt(a) /\ myVersion' = a.ver
      /\ overlap' = (overlap \/ myVersion # a.from)
      /\ thread' = [thread EXCEPT ![t] = r]
      /\ holes' = (holes \/ Beyond(a.page))
      /\ UNCHANGED FriendServer
  BY ReadPageFacts
<1>2. /\ version' = version /\ version \in Nat /\ a.from \in Nat /\ a.ver \in Nat
      /\ a.from =< a.ver /\ a.ver =< version
  BY <1>1 DEF FriendTypes, LogOK, FriendServer, VersionsInOrder, Pages
<1>3. r \in Works
  BY <1>1 DEF Works
<1>4. /\ r.pc # "idle" => r.from =< version'
      /\ r.pc \in {"found", "answered", "paging"} => r.from =< r.ver /\ r.ver =< version'
  <2>1. CASE LastPage(a.page)
    BY <2>1 DEF Resting
  <2>2. CASE ~LastPage(a.page)
    <3>1. r.from = a.from /\ r.ver = a.ver
      BY <1>1, <2>2
    <3>2. QED  BY <1>2, <3>1
  <2>3. QED  BY <2>1, <2>2
<1> HIDE DEF r
<1>5. mine' \in [Friends -> 0..MaxChanges]
  BY <1>1 DEF FriendTypes, ClientOK, RowsOK
<1>6. myVersion' \in 0..version' /\ overlap' \in BOOLEAN /\ holes' \in BOOLEAN
  BY <1>1, <1>2 DEF FriendTypes, ClientOK
<1>7. RowsOK' /\ LogOK' /\ version =< version'
  BY <1>1, <1>2, ServerKept
<1>8. QED  BY <1>1, <1>3, <1>4, <1>5, <1>6, <1>7, ClientMoves

(* A request fails. *)
LEMMA SyncFailsTypes ==
    ASSUME FriendTypes, NEW t \in Threads, SyncFails(t)
    PROVE  FriendTypes'
<1>1. /\ thread' = [thread EXCEPT ![t] = Resting]
      /\ UNCHANGED FriendServer /\ UNCHANGED <<mine, myVersion, overlap, holes>>
  BY DEF SyncFails
<1>2. version' = version /\ version \in Nat /\ version =< version'
  BY <1>1 DEF FriendTypes, LogOK, FriendServer
<1>3. /\ mine' \in [Friends -> 0..MaxChanges] /\ myVersion' \in 0..version'
      /\ overlap' \in BOOLEAN /\ holes' \in BOOLEAN
  BY <1>1, <1>2 DEF FriendTypes, ClientOK
<1>4. Resting \in Works /\ Resting.pc = "idle"
  BY DEF Works, Resting
<1>5. RowsOK' /\ LogOK'
  BY <1>1, ServerKept
<1>6. QED  BY <1>1, <1>2, <1>3, <1>4, <1>5, ClientMoves

(* Every step keeps the types. *)
LEMMA FriendTypesKept ==
    ASSUME FriendTypes, [FriendNext]_FriendVars
    PROVE  FriendTypes'
<1>1. ASSUME NEW k \in Kinds, NEW f \in Friends, WriteRow(k, f)  PROVE FriendTypes'
  BY <1>1, WriteRowTypes
<1>2. ASSUME NEW i \in DOMAIN ops, LogVersion(i) \/ Uncache(i) \/ HandlerFails(i)
      PROVE  FriendTypes'
  BY <1>2, HandlerTypes
<1>3. CASE OnNotice
  BY <1>3, BeginTypes DEF OnNotice, FriendHistory, Threads
<1>4. CASE OnConnect
  BY <1>4, BeginTypes DEF OnConnect, Threads
<1>5. ASSUME NEW t \in Threads, FriendStep(t) \/ SyncFails(t)  PROVE FriendTypes'
  BY <1>5, GetVersionTypes, FindRowsTypes, ApplyTypes, DeleteAllTypes, ReadPageTypes,
     SyncFailsTypes DEF FriendStep
<1>6. CASE UNCHANGED FriendVars
  BY <1>6 DEF FriendVars, FriendServer, FriendHistory, FriendTypes, RowsOK, LogOK,
     ClientOK, VersionsInOrder
<1>7. QED  BY <1>1, <1>2, <1>3, <1>4, <1>5, <1>6 DEF FriendNext

-----------------------------------------------------------------------------
(* The elements above a version only become more. *)
LEMMA TooManyStays ==
    ASSUME LogOK, LogOK', NEW v \in Nat, v =< version, TooMany(v), sorted =< sorted',
           \A f \in Friends : elem[f].ver =< elem'[f].ver
    PROVE  TooMany(v)'
<1>1. Cardinality(Changed(v)) + (IF sorted > v THEN 1 ELSE 0) > LogLimit
  BY DEF TooMany, LogOK
<1>2. Changed(v) \in SUBSET (Changed(v)') /\ Changed(v)' \in SUBSET Friends
  BY DEF Changed, LogOK
<1>3. IsFiniteSet(Friends) /\ LogLimit \in Nat
  BY FriendSyncAssumption
<1>4. /\ IsFiniteSet(Changed(v)')
      /\ Cardinality(Changed(v)) \in Nat /\ Cardinality(Changed(v)') \in Nat
      /\ Cardinality(Changed(v)) =< Cardinality(Changed(v)')
  BY <1>2, <1>3, FS_Subset, FS_CardinalityType
<1>5. sorted > v => sorted' > v
  BY DEF LogOK
<1>6. Cardinality(Changed(v)') + (IF sorted' > v THEN 1 ELSE 0) > LogLimit
  BY <1>1, <1>3, <1>4, <1>5
<1>7. QED  BY <1>6 DEF TooMany

(* Without a change of the log the same friends are asked for. *)
LEMMA TooManySame ==
    ASSUME LogOK, LogOK', version =< version', UNCHANGED <<elem, sorted>>,
           NEW v \in Nat, v =< version
    PROVE  TooMany(v)' <=> TooMany(v)
<1>1. Changed(v)' = Changed(v)
  BY DEF Changed
<1>2. ~(version < v) /\ ~(version' < v)
  BY DEF LogOK
<1>3. QED  BY <1>1, <1>2 DEF TooMany

(* Who is settled depends on the rows and the log alone. *)
LEMMA SettledSame ==
    ASSUME UNCHANGED <<row, elem, dirty>>
    PROVE  \A f, v : SettledAt(f, v)' <=> SettledAt(f, v)
BY DEF SettledAt, Crossed

(* The versions that threads speak of are in the log. *)
LEMMA FromIsOld ==
    ASSUME FriendTypes, NEW t \in Threads, thread[t].pc # "idle"
    PROVE  /\ thread[t].from \in Nat /\ thread[t].from =< version
           /\ thread[t].pc \in {"found", "answered", "paging"} =>
                thread[t].ver \in Nat /\ thread[t].ver =< version
<1>1. /\ thread[t].from \in Nat
      /\ thread[t].pc \in {"found", "answered", "paging"} => thread[t].ver \in Nat
  BY ThreadFacts DEF FriendTypes, Asked, Found, Answered, Pages
<1>2. QED  BY <1>1 DEF FriendTypes, VersionsInOrder

(* The server writes a row, the log or the cache: a friend that is settled  *)
(* afterwards was so before.                                                *)
ServerMoves ==
  /\ UNCHANGED <<mine, myVersion, thread, overlap>> /\ (holes => holes')
  /\ sorted =< sorted' /\ \A f \in Friends : elem[f].ver =< elem'[f].ver
  /\ \A f \in Friends, v \in Nat : v =< version /\ SettledAt(f, v)' =>
       SettledAt(f, v) /\ row'[f] = row[f] /\ elem'[f] = elem[f]
  /\ Paging => \/ holes'
               \/ \A i \in DOMAIN order : i \in DOMAIN order' /\ order'[i] = order[i]

(* Such a step leaves all that is said of the client true: it can only make *)
(* fewer friends settled.                                                   *)
LEMMA ServerHonest ==
    ASSUME FriendTypes, FriendTypes', Honest, ServerMoves
    PROVE  Honest'
<1>1. myVersion \in Nat /\ myVersion =< version /\ myVersion' = myVersion
  BY DEF FriendTypes, ClientOK, LogOK, ServerMoves
<1>2. /\ LogOK /\ LogOK' /\ sorted =< sorted'
      /\ \A f \in Friends : elem[f].ver =< elem'[f].ver
  BY DEF FriendTypes, ServerMoves
<1>3. thread' = thread /\ mine' = mine /\ (holes => holes')
  BY DEF ServerMoves
<1>4. \A f \in Friends, v \in Nat : v =< version /\ SettledAt(f, v)' =>
        SettledAt(f, v) /\ row'[f] = row[f] /\ elem'[f] = elem[f]
  BY DEF ServerMoves
<1>5. \A u \in Threads : Current(thread[u])' <=> Current(thread[u])
  BY <1>1, <1>3 DEF Current, Changes
<1>6. Paging' <=> Paging
  BY <1>3 DEF Paging
<1>7. Intact => Intact'
  BY <1>1, <1>3, <1>4 DEF Intact
<1>8. TooMany(myVersion) => TooMany(myVersion)'
  <2> DEFINE v == myVersion
  <2>1. TooMany(v) => (\A w \in Nat : w = v => TooMany(w)')
    BY <1>1, <1>2, TooManyStays
  <2>2. QED  BY <1>1, <2>1
<1>9. IntactWhere'
  BY <1>1, <1>5, <1>6, <1>7, <1>8 DEF Honest, IntactWhere
<1>10. ASSUME NEW u \in Threads  PROVE ThreadTrue(u)'
  <2> DEFINE a == thread[u]
  <2>1. a' = a /\ ThreadTrue(u)
    BY <1>3 DEF Honest
  <2>2. a.pc \in {"found", "answered"} => Reason(a)'
    <3>1. SUFFICES ASSUME a.pc \in {"found", "answered"}  PROVE Reason(a)'
      OBVIOUS
    <3>2. Reason(a) /\ a.from \in Nat /\ a.from =< version
      BY <2>1, <3>1, FromIsOld DEF ThreadTrue
    <3>3. \A w \in Nat : w = a.from /\ TooMany(w) => TooMany(w)'
      BY <1>2, <3>2, TooManyStays
    <3>4. QED  BY <2>1, <3>2, <3>3 DEF Reason
  <2>3. Changes(a) => AnswerTrue(a)'
    <3>1. SUFFICES ASSUME Changes(a)  PROVE AnswerTrue(a)'
      OBVIOUS
    <3>2. AnswerTrue(a) /\ a.ver \in Nat /\ a.ver =< version
      BY <2>1, <3>1, FromIsOld DEF ThreadTrue, Changes
    <3>3. QED  BY <1>4, <2>1, <3>2 DEF AnswerTrue
  <2>4. a.pc = "paging" => Alone(u)' /\ PageTrue(a)'
    <3>1. SUFFICES ASSUME a.pc = "paging"  PROVE Alone(u)' /\ PageTrue(a)'
      OBVIOUS
    <3>2. Alone(u) /\ PageTrue(a) /\ a.ver \in Nat /\ a.ver =< version
      BY <2>1, <3>1, FromIsOld DEF ThreadTrue
    <3>3. Alone(u)'
      BY <1>1, <1>3, <1>5, <1>8, <3>2 DEF Alone
    <3>4. Paging
      BY <3>1 DEF Paging
    <3>5. \/ holes'
          \/ \A i \in DOMAIN order : i \in DOMAIN order' /\ order'[i] = order[i]
      BY <3>4 DEF ServerMoves
    <3>6. ASSUME NEW f \in Friends, SettledAt(f, a.ver)'
          PROVE  \/ mine'[f] = row'[f]
                 \/ /\ mine'[f] = 0
                    /\ holes' \/ \E i \in DOMAIN order' :
                                     order'[i] = f /\ a.page * PageSize < i
      <4>1. SettledAt(f, a.ver) /\ row'[f] = row[f]
        BY <1>4, <2>1, <3>2, <3>6
      <4>2. \/ mine[f] = row[f]
            \/ /\ mine[f] = 0
               /\ holes \/ \E i \in DOMAIN order : order[i] = f /\ a.page * PageSize < i
        BY <3>2, <4>1 DEF PageTrue
      <4>3. CASE \E i \in DOMAIN order : order[i] = f /\ a.page * PageSize < i
        BY <1>3, <3>5, <4>1, <4>2, <4>3
      <4>4. QED  BY <1>3, <4>1, <4>2, <4>3
    <3>7. QED  BY <2>1, <3>3, <3>6 DEF PageTrue
  <2>5. QED  BY <2>1, <2>2, <2>3, <2>4 DEF ThreadTrue, Changes
<1>11. QED  BY <1>9, <1>10 DEF Honest

(* A row is written: its friend is not settled until the log is written,    *)
(* and only a deletion or a pin moves rows, which is remembered.            *)
LEMMA WriteRowHonest ==
    ASSUME FriendTypes, FriendTypes', Honest, NEW k \in Kinds, NEW f \in Friends,
           WriteRow(k, f)
    PROVE  Honest'
<1>1. /\ row' = [row EXCEPT ![f] =
                     IF k = "insert" \/ (k # "delete" /\ @ # 0) THEN changes + 1
                     ELSE 0]
      /\ dirty' = dirty \union {f}
      /\ holes' = (holes \/ (k \in {"delete", "pin"} /\ row[f] # 0 /\ Paging))
      /\ UNCHANGED <<version, elem, sorted, mine, myVersion, thread, overlap>>
  BY DEF WriteRow
<1>2. /\ row \in [Friends -> 0..MaxChanges]
      /\ \A g \in Friends : elem[g].ver \in Nat
      /\ sorted \in Nat
  BY DEF FriendTypes, LogOK, RowsOK
<1>3. \A g \in Friends : g # f => row'[g] = row[g]
  BY <1>1, <1>2
<1>4. ASSUME NEW g \in Friends, NEW v \in Nat, SettledAt(g, v)'
      PROVE  SettledAt(g, v) /\ row'[g] = row[g] /\ elem'[g] = elem[g]
  <2>1. g # f /\ g \notin dirty
    BY <1>1, <1>4 DEF SettledAt
  <2>2. row'[g] = row[g] /\ elem'[g] = elem[g]
    BY <1>1, <1>3, <2>1
  <2>3. QED  BY <1>4, <2>1, <2>2 DEF SettledAt, Crossed
<1>5. \/ Paging => holes'
      \/ \A i \in DOMAIN order : i \in DOMAIN order' /\ order'[i] = order[i]
  <2>1. CASE k = "insert"
    <3>1. order' = Append(order, f) /\ order \in Seq(Friends)
      BY <2>1 DEF WriteRow, FriendTypes, RowsOK, Kinds
    <3>2. QED  BY <3>1
  <2>2. CASE k = "delete" /\ row[f] = 0
    <3>1. order' = order
      BY <2>2, RemoveFirstFacts DEF WriteRow, FriendTypes, Kinds
    <3>2. QED  BY <3>1
  <2>3. CASE k \in {"delete", "pin"} /\ row[f] # 0
    BY <1>1, <2>3
  <2>4. CASE k = "update" \/ (k = "pin" /\ row[f] = 0)
    <3>1. order' = order
      BY <2>4 DEF WriteRow, Kinds
    <3>2. QED  BY <3>1
  <2>5. QED  BY <2>1, <2>2, <2>3, <2>4 DEF Kinds
<1>6. sorted =< sorted' /\ \A g \in Friends : elem[g].ver =< elem'[g].ver
  BY <1>1, <1>2
<1>7. ServerMoves
  <2>1. UNCHANGED <<mine, myVersion, thread, overlap>> /\ (holes => holes')
    BY <1>1
  <2>2. QED  BY <1>4, <1>5, <1>6, <2>1, Zenon DEF ServerMoves
<1>8. QED  BY <1>7, ServerHonest

(* The log is written: its friend is now above every version that a client  *)
(* or an answer has.  Deleting the cache changes nothing here, nor does the *)
(* end of a handler that fails.                                             *)
LEMMA HandlerHonest ==
    ASSUME FriendTypes, FriendTypes', Honest, NEW i \in DOMAIN ops,
           LogVersion(i) \/ Uncache(i) \/ HandlerFails(i)
    PROVE  Honest'
<1>1. ops \in Seq(Operations)
  BY DEF FriendTypes, LogOK
<1>2. ops[i] \in Operations
  BY <1>1
<1>3. /\ ops[i].friend \in Friends /\ version \in Nat /\ sorted \in 0..version
      /\ elem \in [Friends -> [ver : Nat, state : Kinds]]
      /\ \A g \in Friends : elem[g].ver \in Nat /\ elem[g].ver =< version
  BY <1>2 DEF FriendTypes, LogOK, Operations
<1>4. CASE LogVersion(i)
  <2>1. /\ ops[i].pc = "log" /\ ops' = [ops EXCEPT ![i].pc = "uncache"]
        /\ elem' = [elem EXCEPT ![ops[i].friend] =
                      [ver |-> version + 1, state |-> ops[i].kind]]
        /\ sorted' \in {sorted, version + 1} /\ dirty' = dirty \ {ops[i].friend}
        /\ UNCHANGED <<order, row, mine, myVersion, thread, overlap, holes>>
    BY <1>4 DEF LogVersion, FriendHistory
  <2>2. sorted =< sorted' /\ \A g \in Friends : elem[g].ver =< elem'[g].ver
    BY <1>3, <2>1
  <2>3. ASSUME NEW g \in Friends, NEW v \in Nat, v =< version, SettledAt(g, v)'
        PROVE  SettledAt(g, v) /\ row'[g] = row[g] /\ elem'[g] = elem[g]
    <3>1. g # ops[i].friend
      BY <1>3, <2>1, <2>3 DEF SettledAt
    <3>2. row'[g] = row[g] /\ elem'[g] = elem[g]
      BY <1>3, <2>1, <3>1
    <3>3. g \notin dirty
      BY <2>1, <2>3, <3>1 DEF SettledAt
    <3>4. QED  BY <2>3, <3>2, <3>3 DEF SettledAt, Crossed
  <2>4. ServerMoves
    BY <2>1, <2>2, <2>3 DEF ServerMoves
  <2>5. QED  BY <2>4, ServerHonest
<1>5. CASE Uncache(i) \/ HandlerFails(i)
  <2>1. UNCHANGED <<order, row, version, elem, sorted, dirty, mine, myVersion, thread,
                    overlap, holes>>
    BY <1>5 DEF Uncache, HandlerFails, FriendHistory
  <2>2. \A g \in Friends, v \in Nat : SettledAt(g, v)' <=> SettledAt(g, v)
    BY <2>1, SettledSame
  <2>3. ServerMoves
    BY <1>3, <2>1, <2>2 DEF ServerMoves
  <2>4. QED  BY <2>3, ServerHonest
<1>6. QED  BY <1>4, <1>5

(* A synchronisation goes on to r, and neither the rows nor the client's    *)
(* database change.                                                         *)
LEMMA QuietHonest ==
    ASSUME FriendTypes, FriendTypes', Honest, NEW t \in Threads, NEW r \in Works,
           thread' = [thread EXCEPT ![t] = r],
           UNCHANGED <<order, row, elem, sorted, dirty, mine, myVersion, holes>>,
           version =< version', r.pc # "paging",
           r.pc \in {"found", "answered"} => r.from =< version /\ Reason(r),
           Changes(r) => AnswerTrue(r),
           Current(r) => Current(thread[t]) \/ (~TooMany(myVersion) /\ ~Paging)
    PROVE  Honest'
<1>1. thread'[t] = r /\ \A u \in Threads : u # t => thread'[u] = thread[u]
  BY ThreadMoves DEF FriendTypes
<1>2. \A f, v : SettledAt(f, v)' <=> SettledAt(f, v)
  BY SettledSame
<1>3. /\ myVersion \in Nat /\ myVersion =< version
      /\ \A v \in Nat : v =< version => (TooMany(v)' <=> TooMany(v))
  BY TooManySame DEF FriendTypes, ClientOK, LogOK
<1>4. TooMany(myVersion)' <=> TooMany(myVersion)
  BY <1>3
<1>5. /\ Intact' <=> Intact
      /\ \A a : PageTrue(a)' <=> PageTrue(a)
      /\ \A a : AnswerTrue(a)' <=> AnswerTrue(a)
      /\ \A a : Current(a)' <=> Current(a)
  BY <1>2 DEF Intact, PageTrue, AnswerTrue, Current, Changes
<1>6. \A a : a.from \in Nat /\ a.from =< version => (Reason(a)' <=> Reason(a))
  BY <1>3 DEF Reason
<1>7. r.pc # "idle" => r.from \in Nat
  BY DEF Works, Resting, Asked, Found, Answered, Pages
<1>8. \A u \in Threads : Current(thread'[u]) =>
        Current(thread[u]) \/ (u = t /\ ~TooMany(myVersion) /\ ~Paging)
  BY <1>1
<1>9. ASSUME NEW u \in Threads  PROVE ThreadTrue(u)'
  <2>1. CASE u = t
    <3>1. r.pc \in {"found", "answered"} => Reason(r)'
      BY <1>6, <1>7
    <3>2. Changes(r) => AnswerTrue(r)'
      BY <1>5
    <3>3. QED  BY <1>1, <2>1, <3>1, <3>2 DEF ThreadTrue, Changes
  <2>2. CASE u # t
    <3> DEFINE a == thread[u]
    <3>1. a' = a /\ ThreadTrue(u)
      BY <1>1, <2>2 DEF Honest
    <3>2. a.pc \in {"found", "answered"} => Reason(a)'
      BY <1>6, <3>1, FromIsOld DEF ThreadTrue
    <3>3. Changes(a) => AnswerTrue(a)'
      BY <1>5, <3>1 DEF ThreadTrue
    <3>4. ASSUME a.pc = "paging"  PROVE Alone(u)' /\ PageTrue(a)'
      <4>1. Alone(u) /\ PageTrue(a) /\ Paging
        BY <3>1, <3>4 DEF ThreadTrue, Paging
      <4>2. \A w \in Threads : ~Current(thread'[w])
        BY <1>8, <4>1 DEF Alone
      <4>3. \A w \in Threads : thread'[w].pc = "paging" => w = u
        BY <1>1, <4>1 DEF Alone
      <4>4. Alone(u)'
        BY <1>4, <1>5, <3>1, <4>1, <4>2, <4>3 DEF Alone
      <4>5. QED  BY <1>5, <3>1, <4>1, <4>4
    <3>5. QED  BY <3>1, <3>2, <3>3, <3>4 DEF ThreadTrue, Changes
  <2>3. QED  BY <2>1, <2>2
<1>10. IntactWhere'
  <2>1. SUFFICES ASSUME ~Paging', myVersion # 0,
                        ~TooMany(myVersion) \/ \E u \in Threads : Current(thread'[u])
                 PROVE  Intact
    BY <1>4, <1>5 DEF IntactWhere
  <2>2. CASE thread[t].pc = "paging"
    <3>1. Alone(t) /\ Paging
      BY <2>2 DEF Honest, ThreadTrue, Paging
    <3>2. QED  BY <1>8, <2>1, <3>1 DEF Alone
  <2>3. CASE thread[t].pc # "paging"
    <3>1. ~Paging
      BY <1>1, <2>1, <2>3 DEF Paging
    <3>2. QED  BY <1>8, <2>1, <3>1 DEF Honest, IntactWhere
  <2>4. QED  BY <2>2, <2>3
<1>11. QED  BY <1>9, <1>10 DEF Honest

(* A synchronisation begins. *)
LEMMA BeginHonest ==
    ASSUME FriendTypes, FriendTypes', Honest, NEW t \in Threads, Begin(t),
           UNCHANGED <<FriendServer, mine, myVersion, holes>>
    PROVE  Honest'
<1>1. PICK r : r = [pc |-> "asked", from |-> myVersion]
  OBVIOUS
<1>2. /\ thread' = [thread EXCEPT ![t] = r] /\ r.pc = "asked" /\ r \in Works
      /\ UNCHANGED <<order, row, elem, sorted, dirty, mine, myVersion, holes>>
      /\ version =< version'
  BY <1>1 DEF Begin, Works, Asked, FriendTypes, ClientOK, LogOK, FriendServer
<1>3. ~Changes(r) /\ ~Current(r)
  BY <1>2 DEF Changes, Current
<1>4. QED  BY <1>2, <1>3, QuietHonest

(* The log is read: the answer names every friend above the version the     *)
(* client asked from, or tells it to fetch everything.                      *)
LEMMA GetVersionHonest ==
    ASSUME FriendTypes, FriendTypes', Honest, NEW t \in Threads, GetVersion(t)
    PROVE  Honest'
<1> DEFINE v == thread[t].from
<1>1. PICK r : r = IF v = 0
                   THEN [pc |-> "answered", from |-> v, full |-> TRUE, ver |-> Newest,
                         sort |-> FALSE, data |-> NoRows]
                   ELSE IF v = Newest THEN Resting
                   ELSE [pc |-> "found", from |-> v, full |-> TooMany(v), ver |-> version,
                         sort |-> sorted > v,
                         data |-> [f \in Changed(v) |-> elem[f].state]]
  OBVIOUS
<1>2. /\ thread[t].pc = "asked" /\ version' = Created
      /\ thread' = [thread EXCEPT ![t] = r]
      /\ UNCHANGED <<order, row, elem, sorted, dirty, mine, myVersion, holes>>
  BY <1>1 DEF GetVersion, FriendHistory
<1>3. v \in Nat /\ v =< version /\ version \in Nat
  BY <1>2, FromIsOld DEF FriendTypes, LogOK
<1>4. version =< version'
  BY <1>2, <1>3 DEF Created
<1>5. thread'[t] = r
  BY <1>2 DEF FriendTypes, ClientOK
<1>6. r \in Works
  BY <1>5 DEF FriendTypes, ClientOK, Works
<1>7. TooMany(v) \in BOOLEAN
  BY DEF TooMany
<1>8. r.pc # "paging"
  BY <1>1 DEF Resting
<1>9. r.pc \in {"found", "answered"} => r.from = v /\ Reason(r)
  BY <1>1, <1>7 DEF Resting, Reason
<1>10. Changes(r) =>
         r = [pc |-> "found", from |-> v, full |-> FALSE, ver |-> version,
              sort |-> sorted > v,
              data |-> [f \in Changed(v) |-> elem[f].state]]
  <2>1. CASE v = 0
    BY <1>1, <2>1 DEF Changes
  <2>2. CASE v # 0 /\ v = Newest
    BY <1>1, <2>2 DEF Changes, Resting
  <2>3. CASE v # 0 /\ v # Newest
    <3>1. r.full = TooMany(v)
      BY <1>1, <2>3
    <3>2. Changes(r) => TooMany(v) = FALSE
      BY <1>7, <3>1 DEF Changes
    <3>3. QED  BY <1>1, <2>3, <3>2
  <2>4. QED  BY <2>1, <2>2, <2>3
<1>11. Changes(r) => AnswerTrue(r)
  <2>1. SUFFICES ASSUME Changes(r), NEW f \in Friends
                 PROVE  IF f \in DOMAIN r.data
                        THEN r.data[f] = IF r.pc = "found" THEN elem[f].state ELSE row[f]
                        ELSE elem[f].ver =< r.from
    BY DEF AnswerTrue
  <2>2. /\ r.pc = "found" /\ r.from = v /\ r.data = [g \in Changed(v) |-> elem[g].state]
    BY <1>10, <2>1
  <2>3. f \in DOMAIN r.data <=> elem[f].ver > v
    BY <2>2 DEF Changed
  <2>4. elem[f].ver \in Nat
    BY DEF FriendTypes, LogOK
  <2>5. QED  BY <1>3, <2>2, <2>3, <2>4
<1>12. Current(r) => ~TooMany(myVersion) /\ ~Paging
  <2>1. SUFFICES ASSUME Current(r)  PROVE ~TooMany(myVersion) /\ ~Paging
    OBVIOUS
  <2>2. r.from = myVersion /\ ~r.full /\ r.from = v /\ v # 0
    BY <1>9, <2>1 DEF Current, Changes, Reason
  <2>3. ~TooMany(v)
    <3>1. r.full = FALSE /\ r.pc = "found"
      BY <1>10, <2>1 DEF Current
    <3>2. r = [pc |-> "found", from |-> v, full |-> TooMany(v), ver |-> version,
               sort |-> sorted > v,
               data |-> [f \in Changed(v) |-> elem[f].state]]
      BY <1>1, <3>1 DEF Resting
    <3>3. r.full = TooMany(v)
      BY <3>2
    <3>4. QED  BY <1>7, <3>1, <3>3
  <2>4. ASSUME Paging  PROVE FALSE
    <3>1. PICK u \in Threads : thread[u].pc = "paging"
      BY <2>4 DEF Paging
    <3>2. Alone(u)
      BY <3>1 DEF Honest, ThreadTrue
    <3>3. QED  BY <2>2, <2>3, <3>2 DEF Alone
  <2>5. QED  BY <2>2, <2>3, <2>4
<1>13. r.pc \in {"found", "answered"} => r.from =< version /\ Reason(r)
  BY <1>3, <1>9
<1>14. QED  BY <1>2, <1>4, <1>6, <1>8, <1>11, <1>12, <1>13, QuietHonest

(* The rows are read after the log: a friend changed in between is not      *)
(* settled, and one that is settled has the row that the log speaks of.     *)
LEMMA FindRowsHonest ==
    ASSUME FriendTypes, FriendTypes', Honest, NEW t \in Threads, FindRows(t)
    PROVE  Honest'
<1> DEFINE a == thread[t]
<1>1. PICK r : r = RowAnswer(a)
  OBVIOUS
<1>2. a \in Found /\ r \in Answered /\ thread' = [thread EXCEPT ![t] = r]
  BY <1>1, FindRowsFacts
<1>3. /\ UNCHANGED <<order, row, elem, sorted, dirty, mine, myVersion, holes>>
      /\ version' = version /\ version \in Nat
  BY DEF FindRows, FriendHistory, FriendServer, FriendTypes, LogOK
<1>4. /\ r.pc = "answered" /\ r.from = a.from /\ r.full = a.full /\ r.ver = a.ver
      /\ r.data = RowsFor(a) /\ a.pc = "found"
  <2> DEFINE d == RowsFor(a)
  <2> HIDE DEF d
  <2>1. LET q == [a EXCEPT !.pc = "answered", !.data = d] IN
        /\ q.pc = "answered" /\ q.from = a.from /\ q.full = a.full /\ q.ver = a.ver
        /\ q.data = d
    BY <1>2 DEF Found
  <2>2. r = [a EXCEPT !.pc = "answered", !.data = d]
    BY <1>1 DEF RowAnswer, d
  <2>3. QED  BY <1>2, <2>1, <2>2 DEF Found, d
<1>5. /\ ThreadTrue(t) /\ a.from \in Nat /\ a.from =< version
  BY <1>4, FromIsOld DEF Honest
<1>6. Reason(r)
  BY <1>4, <1>5 DEF ThreadTrue, Reason
<1>7. Changes(r) => AnswerTrue(r)
  <2>1. SUFFICES ASSUME Changes(r), NEW f \in Friends, SettledAt(f, r.ver)
                 PROVE  IF f \in DOMAIN r.data THEN r.data[f] = row[f]
                        ELSE elem[f].ver =< r.from
    BY <1>4 DEF AnswerTrue
  <2>2. Changes(a) /\ AnswerTrue(a)
    BY <1>4, <1>5, <2>1 DEF Changes, ThreadTrue
  <2>3. IF f \in DOMAIN a.data THEN a.data[f] = elem[f].state ELSE elem[f].ver =< a.from
    BY <1>4, <2>1, <2>2 DEF AnswerTrue
  <2>4. r.data = [g \in Here(a) |-> IF a.data[g] = "delete" THEN 0 ELSE row[g]]
    BY <1>4, <2>2 DEF RowsFor, Changes
  <2>5. CASE f \in DOMAIN a.data
    <3>1. a.data[f] = elem[f].state /\ (elem[f].state = "delete" <=> ~(row[f] # 0))
      BY <2>1, <2>3, <2>5 DEF SettledAt, Crossed
    <3>2. f \in Here(a)
      BY <2>5, <3>1 DEF Here
    <3>3. QED  BY <2>4, <3>1, <3>2
  <2>6. CASE f \notin DOMAIN a.data
    <3>1. f \notin DOMAIN r.data
      BY <2>4, <2>6 DEF Here
    <3>2. QED  BY <1>4, <2>3, <2>6, <3>1
  <2>7. QED  BY <2>5, <2>6
<1>8. Current(r) => Current(a)
  BY <1>4 DEF Current, Changes
<1>9. r \in Works /\ r.pc # "paging" /\ r.from =< version /\ version =< version'
  BY <1>2, <1>3, <1>4, <1>5 DEF Works
<1>10. QED  BY <1>2, <1>3, <1>6, <1>7, <1>8, <1>9, QuietHonest

(* A request fails. When it was one for a page, the client keeps part of    *)
(* the list, but also the version that everything is sent for.              *)
LEMMA SyncFailsHonest ==
    ASSUME FriendTypes, FriendTypes', Honest, NEW t \in Threads, SyncFails(t)
    PROVE  Honest'
<1>1. /\ thread' = [thread EXCEPT ![t] = Resting]
      /\ UNCHANGED <<order, row, elem, sorted, dirty, mine, myVersion, holes>>
      /\ version =< version'
  BY DEF SyncFails, FriendServer, FriendTypes, LogOK
<1>2. Resting \in Works /\ Resting.pc = "idle" /\ ~Changes(Resting) /\ ~Current(Resting)
  BY DEF Works, Resting, Changes, Current
<1>3. QED  BY <1>1, <1>2, QuietHonest

(* What a thread other than t is about stays true when no rows change. *)
LEMMA OthersTrue ==
    ASSUME FriendTypes, FriendTypes', Honest, NEW u \in Threads, thread'[u] = thread[u],
           thread[u].pc # "paging", UNCHANGED FriendServer
    PROVE  ThreadTrue(u)'
<1> DEFINE a == thread[u]
<1>1. a' = a /\ ThreadTrue(u) /\ UNCHANGED <<row, elem, dirty>>
  BY DEF Honest, FriendServer
<1>2. /\ version =< version' /\ UNCHANGED <<elem, sorted>> /\ LogOK /\ LogOK'
  BY DEF FriendTypes, LogOK, FriendServer
<1>3. a.pc \in {"found", "answered"} => Reason(a)'
  <2>1. SUFFICES ASSUME a.pc \in {"found", "answered"}  PROVE Reason(a)'
    OBVIOUS
  <2>2. Reason(a) /\ a.from \in Nat /\ a.from =< version
    BY <1>1, <2>1, FromIsOld DEF ThreadTrue
  <2>3. \A v \in Nat : v = a.from => (TooMany(v)' <=> TooMany(v))
    BY <1>2, <2>2, TooManySame
  <2>4. QED  BY <1>1, <2>2, <2>3 DEF Reason
<1>4. Changes(a) => AnswerTrue(a)'
  BY <1>1, SettledSame DEF ThreadTrue, AnswerTrue
<1>5. QED  BY <1>1, <1>3, <1>4 DEF ThreadTrue, Changes

(* No synchronisation does anything to the client's database beside one     *)
(* that reads pages.                                                        *)
LEMMA NobodyPages ==
    ASSUME Honest, NEW t \in Threads, Current(thread[t])
    PROVE  ~Paging
<1>1. ASSUME NEW u \in Threads, thread[u].pc = "paging"  PROVE FALSE
  <2>1. Alone(u)
    BY <1>1 DEF Honest, ThreadTrue
  <2>2. QED  BY <2>1 DEF Alone
<1>2. QED  BY <1>1 DEF Paging

(* An answer with changes is applied: if it was made from the version that  *)
(* the client still has, the client had everything up to that version, and  *)
(* has it still when the version cannot be written.                         *)
LEMMA ApplyHonest ==
    ASSUME FriendTypes, FriendTypes', Honest, NEW t \in Threads, Apply(t), ~overlap'
    PROVE  Honest'
<1> DEFINE a == thread[t]
<1>1. /\ a.pc = "answered" /\ ~a.full /\ a.from = myVersion
      /\ thread' = [thread EXCEPT ![t] = Resting]
      /\ myVersion' \in {myVersion, a.ver} /\ (DOMAIN a.data = {} => myVersion' = myVersion)
      /\ myVersion =< a.ver /\ myVersion \in Nat /\ a.ver \in Nat
      /\ UNCHANGED FriendServer /\ holes' = holes
  <2>1. a.pc = "answered" /\ a.from = myVersion
    BY DEF Apply
  <2>2. a.from =< a.ver /\ a.from \in Nat /\ a.ver \in Nat
    BY <2>1, FromIsOld DEF FriendTypes, VersionsInOrder
  <2>3. QED  BY <2>1, <2>2 DEF Apply
<1>2. /\ DOMAIN a.data \subseteq Friends
      /\ \A f \in Friends : mine'[f] = IF f \in DOMAIN a.data THEN a.data[f] ELSE mine[f]
  BY ApplyFacts
<1>3. Changes(a) /\ Current(a)
  BY <1>1 DEF Current, Changes
<1>4. ~Paging
  BY <1>3, NobodyPages
<1>5. Reason(a) /\ AnswerTrue(a)
  BY <1>1, <1>3 DEF Honest, ThreadTrue
<1>6. Intact
  <2>1. myVersion # 0
    BY <1>1, <1>5 DEF Reason
  <2>2. QED  BY <1>3, <1>4, <2>1 DEF Honest, IntactWhere
<1>7. /\ thread'[t] = Resting /\ \A u \in Threads : u # t => thread'[u] = thread[u]
  BY <1>1 DEF FriendTypes, ClientOK
<1>8. \A f, v : SettledAt(f, v)' <=> SettledAt(f, v)
  BY <1>1, SettledSame DEF FriendServer
<1>9. Intact'
  <2>1. SUFFICES ASSUME NEW f \in Friends, SettledAt(f, myVersion')
                 PROVE  mine'[f] = row[f] \/ (holes /\ mine'[f] = 0)
    BY <1>1, <1>8 DEF Intact, FriendServer
  <2>2. CASE DOMAIN a.data = {}
    BY <1>1, <1>2, <1>6, <2>1, <2>2 DEF Intact
  <2>3. CASE DOMAIN a.data # {}
    <3>1. SettledAt(f, a.ver)
      <4>1. elem[f].ver \in Nat
        BY DEF FriendTypes, LogOK
      <4>2. QED  BY <1>1, <2>1, <4>1 DEF SettledAt
    <3>2. CASE f \in DOMAIN a.data
      BY <1>1, <1>2, <1>5, <3>1, <3>2 DEF AnswerTrue
    <3>3. CASE f \notin DOMAIN a.data
      <4>1. elem[f].ver =< myVersion
        BY <1>1, <1>5, <3>1, <3>3 DEF AnswerTrue
      <4>2. SettledAt(f, myVersion)
        BY <3>1, <4>1 DEF SettledAt
      <4>3. QED  BY <1>2, <1>6, <3>3, <4>2 DEF Intact
    <3>4. QED  BY <3>2, <3>3
  <2>4. QED  BY <2>2, <2>3
<1>10. ASSUME NEW u \in Threads  PROVE ThreadTrue(u)'
  <2>1. CASE u = t
    BY <1>7, <2>1 DEF ThreadTrue, Changes, Resting
  <2>2. CASE u # t
    <3>1. thread[u].pc # "paging"
      BY <1>4 DEF Paging
    <3>2. QED  BY <1>1, <1>7, <2>2, <3>1, OthersTrue
  <2>3. QED  BY <2>1, <2>2
<1>11. QED  BY <1>9, <1>10 DEF Honest, IntactWhere

(* Everything is deleted: the version stays, and it is one for which        *)
(* everything is sent. No other answer waits, or the two would overlap.     *)
LEMMA DeleteAllHonest ==
    ASSUME FriendTypes, FriendTypes', Honest, NEW t \in Threads, DeleteAll(t), ~overlap'
    PROVE  Honest'
<1> DEFINE a == thread[t]
<1>0. PICK r : r = FirstPage(a)
  OBVIOUS
<1>1. /\ a.pc = "answered" /\ a.full /\ a.from = myVersion /\ ~Paging
      /\ mine' = [f \in Friends |-> 0]
      /\ \A u \in Threads : ~Changes(thread[u])
      /\ myVersion' = myVersion /\ UNCHANGED FriendServer
  BY DEF DeleteAll
<1>2. thread' = [thread EXCEPT ![t] = r]
  BY <1>0, DeleteAllTypes
<1>3. r.pc = "paging" /\ r.from = a.from /\ r.ver = a.ver /\ r.page = 0
  BY <1>0 DEF FirstPage
<1>4. /\ thread'[t] = r /\ \A u \in Threads : u # t => thread'[u] = thread[u]
  BY <1>2 DEF FriendTypes, ClientOK
<1>5. Reason(a)
  BY <1>1 DEF Honest, ThreadTrue
<1>6. myVersion \in Nat /\ myVersion =< version /\ LogOK /\ LogOK' /\ version =< version'
      /\ UNCHANGED <<elem, sorted>> /\ order' = order /\ row' = row
  BY <1>1 DEF FriendTypes, ClientOK, LogOK, FriendServer
<1>7. myVersion' = 0 \/ TooMany(myVersion)'
  <2>1. \A v \in Nat : v = myVersion => (TooMany(v)' <=> TooMany(v))
    BY <1>6, TooManySame
  <2>2. QED  BY <1>1, <1>5, <1>6, <2>1 DEF Reason
<1>8. Alone(t)'
  <2>1. \A u \in Threads : ~Changes(thread'[u])
    BY <1>1, <1>3, <1>4 DEF Changes
  <2>2. \A u \in Threads : thread'[u].pc = "paging" => u = t
    BY <1>1, <1>4 DEF Paging
  <2>3. QED  BY <1>1, <1>3, <1>4, <1>7, <2>1, <2>2 DEF Alone, Current, Changes
<1>9. PageTrue(r)'
  <2>1. ASSUME NEW f \in Friends
        PROVE  \/ mine'[f] = row'[f]
               \/ mine'[f] = 0 /\ \E i \in DOMAIN order' :
                                    order'[i] = f /\ 0 * PageSize < i
    <3>1. mine'[f] = 0 /\ row'[f] = row[f]
      BY <1>1, <1>6
    <3>2. CASE row[f] # 0
      <4>1. PICK i \in DOMAIN order : order[i] = f
        BY <3>2 DEF FriendTypes, RowsOK
      <4>2. 0 * PageSize = 0 /\ i > 0
        BY FriendSyncAssumption, <4>1 DEF FriendTypes, RowsOK
      <4>3. QED  BY <1>6, <3>1, <4>1, <4>2
    <3>3. QED  BY <3>1, <3>2
  <2>2. QED  BY <1>3, <1>4, <2>1 DEF PageTrue
<1>10. ASSUME NEW u \in Threads  PROVE ThreadTrue(u)'
  <2>1. CASE u = t
    BY <1>3, <1>4, <1>8, <1>9, <2>1 DEF ThreadTrue, Changes
  <2>2. CASE u # t
    <3>1. thread[u].pc # "paging"
      BY <1>1 DEF Paging
    <3>2. QED  BY <1>1, <1>4, <2>2, <3>1, OthersTrue
  <2>3. QED  BY <2>1, <2>2
<1>11. Paging'
  BY <1>3, <1>4 DEF Paging
<1>12. QED  BY <1>10, <1>11 DEF Honest, IntactWhere

(* After a page that is not full all rows have been read; what the limit    *)
(* leaves unread is remembered.                                             *)
LEMMA LastPageHolds ==
    ASSUME FriendTypes, NEW n \in Nat, LastPage(n), NEW i \in DOMAIN order,
           (n + 1) * PageSize < i
    PROVE  Beyond(n)
<1> DEFINE m == n * PageSize
<1>1. PageSize \in Nat \ {0}
  BY FriendSyncAssumption
<1>2. m \in Nat /\ (n + 1) * PageSize = m + PageSize
  BY <1>1
<1>3. Len(order) \in Nat /\ DOMAIN order = 1 .. Len(order) /\ i \in Nat
  BY DEF FriendTypes, RowsOK
<1>4. PageAt(n) = {j \in DOMAIN order : m < j /\ j =< m + PageSize}
  BY <1>2 DEF PageAt
<1> HIDE DEF m
<1>5. ASSUME m + PageSize < i  PROVE ~(Cardinality(PageAt(n)) < PageSize)
  <2>1. PageAt(n) = (m + 1) .. (m + PageSize)
    BY <1>1, <1>2, <1>3, <1>4, <1>5
  <2>2. Cardinality((m + 1) .. (m + PageSize)) =
          IF m + 1 > m + PageSize THEN 0 ELSE (m + PageSize) - (m + 1) + 1
    BY <1>1, <1>2, FS_Interval
  <2>3. Cardinality((m + 1) .. (m + PageSize)) = PageSize
    BY <1>1, <1>2, <2>2
  <2>4. QED  BY <1>1, <2>1, <2>3
<1>6. Enough(n)
  BY <1>2, <1>5 DEF LastPage
<1>7. Len(order) > (n + 1) * PageSize
  BY <1>1, <1>2, <1>3
<1>8. QED  BY <1>6, <1>7 DEF Beyond

(* A page is read: it ends where the next begins, and the last leaves no    *)
(* row unread that is not remembered. Then the version of the answer is     *)
(* true of what was read.                                                   *)
LEMMA ReadPageHonest ==
    ASSUME FriendTypes, FriendTypes', Honest, NEW t \in Threads, ReadPage(t), ~overlap'
    PROVE  Honest'
<1> DEFINE a == thread[t]
<1>1. /\ a.pc = "paging" /\ a \in Pages /\ NextPage(a) \in Pages
      /\ NextPage(a).from = a.from /\ NextPage(a).ver = a.ver
      /\ NextPage(a).page = a.page + 1
      /\ mine' = [f \in Friends |->
           IF mine[f] = 0 /\ \E i \in PageAt(a.page) : order[i] = f
           THEN row[f] ELSE mine[f]]
      /\ \/ myVersion' = myVersion
         \/ LastPage(a.page) /\ ~ClashAt(a) /\ myVersion' = a.ver
      /\ a.from = myVersion
      /\ thread' = [thread EXCEPT ![t] =
                      IF LastPage(a.page) THEN Resting ELSE NextPage(a)]
      /\ UNCHANGED FriendServer /\ holes' = (holes \/ Beyond(a.page))
  BY ReadPageFacts
<1>2. Alone(t) /\ PageTrue(a)
  BY <1>1 DEF Honest, ThreadTrue
<1>3. \A u \in Threads : u # t => thread'[u] = thread[u] /\ thread[u].pc # "paging"
  BY <1>1, <1>2 DEF FriendTypes, ClientOK, Alone
<1>4. thread'[t] = IF LastPage(a.page) THEN Resting ELSE NextPage(a)
  BY <1>1 DEF FriendTypes, ClientOK
<1>5. ASSUME NEW u \in Threads, u # t  PROVE ThreadTrue(u)'
  BY <1>1, <1>3, <1>5, OthersTrue
<1>6. \A f, v : SettledAt(f, v)' <=> SettledAt(f, v)
  BY <1>1, SettledSame DEF FriendServer
<1>7. ASSUME NEW f \in Friends, SettledAt(f, a.ver)
      PROVE  \/ mine'[f] = row[f]
             \/ /\ mine'[f] = 0
                /\ holes \/ \E i \in DOMAIN order :
                                order[i] = f /\ (a.page + 1) * PageSize < i
  <2>1. mine'[f] = IF mine[f] = 0 /\ \E i \in PageAt(a.page) : order[i] = f
                   THEN row[f] ELSE mine[f]
    BY <1>1
  <2>2. CASE mine[f] = row[f]
    BY <2>1, <2>2
  <2>3. CASE mine[f] = 0 /\ holes
    BY <2>1, <2>3
  <2>4. ASSUME mine[f] = 0, NEW i \in DOMAIN order, order[i] = f, a.page * PageSize < i
        PROVE  mine'[f] = row[f] \/ (mine'[f] = 0 /\ (a.page + 1) * PageSize < i)
    <3>1. CASE i \in PageAt(a.page)
      BY <2>1, <2>4, <3>1
    <3>2. CASE i \notin PageAt(a.page)
      <4>1. i \in Nat /\ (a.page + 1) * PageSize \in Nat
        <5>1. i \in Nat
          BY DEF FriendTypes, RowsOK
        <5>2. a.page \in Nat
          BY <1>1 DEF Pages
        <5>3. PageSize \in Nat
          BY FriendSyncAssumption
        <5>4. QED  BY <5>1, <5>2, <5>3
      <4>2. (a.page + 1) * PageSize < i
        BY <2>4, <3>2, <4>1 DEF PageAt
      <4>3. QED  BY <2>1, <2>4, <4>2
    <3>3. QED  BY <3>1, <3>2
  <2>5. QED  BY <1>2, <1>7, <2>2, <2>3, <2>4 DEF PageTrue
<1>8. /\ myVersion \in Nat /\ myVersion =< version /\ LogOK /\ LogOK'
      /\ version =< version' /\ UNCHANGED <<elem, sorted>> /\ order' = order /\ row' = row
  BY <1>1 DEF FriendTypes, ClientOK, LogOK, FriendServer
<1>9. \A v \in Nat : v = myVersion => (TooMany(v)' <=> TooMany(v))
  BY <1>8, TooManySame
<1>10. CASE ~LastPage(a.page)
  <2>1. PICK r : r = NextPage(a)
    OBVIOUS
  <2>2. /\ thread'[t] = r /\ r.pc = "paging" /\ r.from = myVersion /\ r.ver = a.ver
        /\ r.page = a.page + 1 /\ myVersion' = myVersion
    BY <1>1, <1>4, <1>10, <2>1 DEF Pages
  <2>3. Alone(t)'
    <3>1. \A u \in Threads : ~Current(thread'[u])
      BY <1>2, <1>3, <2>2 DEF Alone, Current, Changes
    <3>2. \A u \in Threads : thread'[u].pc = "paging" => u = t
      BY <1>3
    <3>3. myVersion' = 0 \/ TooMany(myVersion)'
      BY <1>2, <1>8, <1>9, <2>2 DEF Alone
    <3>4. QED  BY <2>2, <3>1, <3>2, <3>3 DEF Alone, Current, Changes
  <2>4. PageTrue(r)'
    BY <1>1, <1>6, <1>7, <1>8, <2>2 DEF PageTrue
  <2>5. ThreadTrue(t)'
    BY <2>2, <2>3, <2>4 DEF ThreadTrue, Changes
  <2>6. Paging'
    BY <2>2 DEF Paging
  <2>7. QED  BY <1>5, <2>5, <2>6 DEF Honest, IntactWhere
<1>11. CASE LastPage(a.page)
  <2>1. ThreadTrue(t)' /\ thread'[t] = Resting
    BY <1>4, <1>11 DEF ThreadTrue, Changes, Resting
  <2>2. CASE myVersion' = myVersion
    <3>1. myVersion' = myVersion
      BY <2>2
    <3>2. myVersion' = 0 \/ TooMany(myVersion)'
      BY <1>2, <1>8, <1>9, <3>1 DEF Alone
    <3>3. \A u \in Threads : ~Current(thread'[u])
      BY <1>2, <1>3, <2>1 DEF Alone, Current, Changes, Resting
    <3>4. \A u \in Threads : ~Current(thread[u])'
      BY <3>1, <3>3 DEF Current, Changes
    <3>5. IntactWhere'
      BY <3>2, <3>4 DEF IntactWhere
    <3>6. QED  BY <1>5, <2>1, <3>5 DEF Honest
  <2>3. CASE myVersion' = a.ver
    <3>1. myVersion' = a.ver
      BY <2>3
    <3>2. a.page \in Nat
      BY <1>1 DEF Pages
    <3>3. \A i \in DOMAIN order : (a.page + 1) * PageSize < i => holes'
      BY <1>1, <1>11, <3>2, LastPageHolds
    <3>4. Intact'
      BY <1>1, <1>6, <1>7, <1>8, <3>1, <3>3 DEF Intact
    <3>5. QED  BY <1>5, <2>1, <3>4 DEF Honest, IntactWhere
  <2>4. QED  BY <1>1, <2>2, <2>3
<1>12. QED  BY <1>10, <1>11

(* As long as no two synchronisations get in each other's way, what is said *)
(* of the client's database and of the answers on their way stays true.     *)
LEMMA HonestKept ==
    ASSUME FriendInv, [FriendNext]_FriendVars
    PROVE  FriendInv'
<1>1. FriendTypes /\ FriendTypes'
  BY FriendTypesKept DEF FriendInv
<1>2. SUFFICES ASSUME ~overlap'  PROVE Honest'
  BY <1>1 DEF FriendInv
<1>3. ~overlap
  <2>1. ASSUME overlap  PROVE overlap'
    BY <2>1 DEF FriendNext, FriendVars, FriendHistory, WriteRow, LogVersion, Uncache,
       HandlerFails, OnNotice, OnConnect, FriendStep, GetVersion, FindRows, Apply, DeleteAll,
       ReadPage, SyncFails
  <2>2. QED  BY <1>2, <2>1, Zenon
<1>4. Honest
  BY <1>3 DEF FriendInv
<1>5. ASSUME NEW k \in Kinds, NEW f \in Friends, WriteRow(k, f)  PROVE Honest'
  BY <1>1, <1>4, <1>5, WriteRowHonest
<1>6. ASSUME NEW i \in DOMAIN ops, LogVersion(i) \/ Uncache(i) \/ HandlerFails(i)
      PROVE  Honest'
  BY <1>1, <1>4, <1>6, HandlerHonest
<1>7. CASE OnNotice
  BY <1>1, <1>4, <1>7, BeginHonest DEF OnNotice, FriendHistory, Threads
<1>8. CASE OnConnect
  BY <1>1, <1>4, <1>8, BeginHonest DEF OnConnect, Threads
<1>9. ASSUME NEW t \in Threads, FriendStep(t) \/ SyncFails(t)  PROVE Honest'
  BY <1>1, <1>2, <1>4, <1>9, GetVersionHonest, FindRowsHonest, ApplyHonest,
     DeleteAllHonest, ReadPageHonest, SyncFailsHonest DEF FriendStep
<1>10. CASE UNCHANGED FriendVars
  <2>1. UNCHANGED <<order, row, version, elem, sorted, dirty, mine, myVersion, thread,
                    overlap, holes>>
    BY <1>10 DEF FriendVars, FriendServer, FriendHistory
  <2>2. ServerMoves
    <3>1. sorted =< sorted' /\ \A f \in Friends : elem[f].ver =< elem'[f].ver
      BY <1>1, <2>1 DEF FriendTypes, LogOK
    <3>2. QED  BY <2>1, <3>1, SettledSame DEF ServerMoves
  <2>3. QED  BY <1>1, <1>4, <2>2, ServerHonest
<1>11. QED  BY <1>5, <1>6, <1>7, <1>8, <1>9, <1>10 DEF FriendNext

(* Nothing has been asked and nothing is there. *)
LEMMA HonestAtFirst ==
    ASSUME FriendInit
    PROVE  FriendInv
<1>1. RowsOK
  BY FriendSyncAssumption DEF FriendInit, RowsOK
<1>2. LogOK
  BY FriendSyncAssumption DEF FriendInit, LogOK, Kinds
<1>3. ClientOK
  <2>1. 0 \in 0 .. MaxChanges /\ 0 \in 0 .. version
    BY FriendSyncAssumption DEF FriendInit
  <2>2. mine \in [Friends -> 0..MaxChanges] /\ myVersion \in 0..version
    BY <2>1 DEF FriendInit
  <2>3. thread = [t \in Threads |-> Resting]
    BY DEF FriendInit
  <2>4. QED  BY <2>2, <2>3 DEF ClientOK, FriendInit
<1>4. \A t \in Threads : thread[t].pc = "idle"
  BY DEF FriendInit, Resting
<1>5. VersionsInOrder
  BY <1>4 DEF VersionsInOrder
<1>6. Honest
  BY <1>4 DEF Honest, IntactWhere, ThreadTrue, Changes, FriendInit
<1>7. QED  BY <1>1, <1>2, <1>3, <1>5, <1>6 DEF FriendInv, FriendTypes

(* What the log will not repeat to the client, the client has, as long as   *)
(* no two synchronisations got in each other's way (IncrementalSync of the  *)
(* client, getVersion and Build of the server): whatever is written between *)
(* the answer and the rows, and however pages, failing requests and         *)
(* handlers, pins and changes interleave.  Excepted are changes that are    *)
(* not in the log or crossed there, and rows no page showed (holes).        *)
THEOREM VersionTellsTheTruth == FriendSpec => []VersionIsHonest
<1>1. FriendInv => VersionIsHonest
  <2>1. SUFFICES ASSUME Honest, myVersion # 0, ~Paging, ~TooMany(myVersion),
                        NEW f \in Friends, SettledAt(f, myVersion)
                 PROVE  mine[f] = row[f] \/ (holes /\ mine[f] = 0)
    BY DEF FriendInv, VersionIsHonest, VersionCovers, SettledAt
  <2>2. QED  BY <2>1 DEF Honest, IntactWhere, Intact
<1>2. QED  BY <1>1, HonestAtFirst, HonestKept, PTL DEF FriendSpec

-----------------------------------------------------------------------------
(* The counters of the friends. *)

(* The handlers that have written a row and not the log. *)
Logging == {i \in DOMAIN ops : ops[i].pc = "log"}

(* A change is with a handler until the client is notified of it; the log   *)
(* counts the changes that are in it, and one for its creation.             *)
CountsOK ==
  /\ notices \in Nat /\ Len(ops) + notices =< changes
  /\ version + Cardinality(Logging) =< changes + 1

BoundedTypes == FriendTypes /\ CountsOK

(* The handlers before the log are among all. *)
LEMMA LoggingFacts ==
    ASSUME FriendTypes
    PROVE  /\ Len(ops) \in Nat /\ DOMAIN ops = 1 .. Len(ops)
           /\ version \in Nat /\ changes \in 0..MaxChanges /\ MaxChanges \in Nat
           /\ IsFiniteSet(Logging) /\ Cardinality(Logging) \in 0 .. Len(ops)
<1>1. Len(ops) \in Nat /\ DOMAIN ops = 1 .. Len(ops)
  BY DEF FriendTypes, LogOK
<1>2. IsFiniteSet(1 .. Len(ops)) /\ Cardinality(1 .. Len(ops)) = Len(ops)
  <2> DEFINE n == Len(ops)
  <2>1. n \in Nat /\ n \in Int /\ 1 \in Int
    BY <1>1
  <2> HIDE DEF n
  <2>2. IsFiniteSet(1 .. n) /\ Cardinality(1 .. n) = IF 1 > n THEN 0 ELSE n - 1 + 1
    BY <2>1, FS_Interval
  <2>3. IsFiniteSet(1 .. n) /\ Cardinality(1 .. n) = n
    BY <2>1, <2>2
  <2>4. QED  BY <2>3 DEF n
<1>3. Logging \in SUBSET (1 .. Len(ops))
  BY <1>1 DEF Logging
<1>4. IsFiniteSet(Logging) /\ Cardinality(Logging) =< Len(ops)
  BY <1>2, <1>3, FS_Subset
<1>5. Cardinality(Logging) \in Nat
  BY <1>4, FS_CardinalityType
<1>6. QED
  BY <1>1, <1>4, <1>5, FriendSyncAssumption DEF FriendTypes, LogOK

(* One change more, and one handler. *)
LEMMA WriteRowCounts ==
    ASSUME BoundedTypes, NEW k \in Kinds, NEW f \in Friends, WriteRow(k, f)
    PROVE  CountsOK'
<1> DEFINE n == Len(ops) + 1
<1>1. /\ changes' = changes + 1 /\ UNCHANGED <<version, notices>>
      /\ ops' = Append(ops, [kind |-> k, friend |-> f, pc |-> "log"])
  BY DEF WriteRow
<1>2. ops \in Seq(Operations)
  BY DEF BoundedTypes, FriendTypes, LogOK
<1>3. /\ Len(ops') = n /\ DOMAIN ops' = DOMAIN ops \cup {n} /\ n \notin DOMAIN ops
      /\ ops'[n].pc = "log" /\ \A i \in DOMAIN ops : ops'[i] = ops[i]
  BY <1>1, <1>2
<1>4. Logging' = Logging \cup {n} /\ n \notin Logging
  BY <1>3 DEF Logging
<1>5. Cardinality(Logging') = Cardinality(Logging) + 1
  BY <1>4, LoggingFacts, FS_AddElement DEF BoundedTypes
<1>6. QED  BY <1>1, <1>3, <1>5, LoggingFacts DEF BoundedTypes, CountsOK

(* A handler goes on from the log, or ends, with or without a notification. *)
LEMMA HandlerCounts ==
    ASSUME BoundedTypes, NEW i \in DOMAIN ops,
           LogVersion(i) \/ Uncache(i) \/ HandlerFails(i)
    PROVE  CountsOK'
<1>1. ops \in Seq(Operations) /\ ops[i] \in Operations
  <2>1. ops \in Seq(Operations)
    BY DEF BoundedTypes, FriendTypes, LogOK
  <2>2. QED  BY <2>1
<1>2. CASE LogVersion(i)
  <2>1. /\ ops[i].pc = "log" /\ version' = version + 1 /\ UNCHANGED <<changes, notices>>
        /\ ops' = [ops EXCEPT ![i].pc = "uncache"]
    BY <1>2 DEF LogVersion
  <2>2. /\ Len(ops') = Len(ops) /\ DOMAIN ops' = DOMAIN ops /\ ops'[i].pc = "uncache"
        /\ \A j \in DOMAIN ops : j # i => ops'[j] = ops[j]
    BY <1>1, <2>1 DEF Operations
  <2>3. Logging' = Logging \ {i} /\ i \in Logging
    BY <2>1, <2>2 DEF Logging
  <2>4. Cardinality(Logging') = Cardinality(Logging) - 1
    BY <2>3, LoggingFacts, FS_RemoveElement DEF BoundedTypes
  <2>5. QED  BY <2>1, <2>2, <2>4, LoggingFacts DEF BoundedTypes, CountsOK
<1>3. CASE Uncache(i) \/ HandlerFails(i)
  <2>1. /\ ops' = RemoveAt(ops, i) /\ notices' \in {notices, notices + 1}
        /\ UNCHANGED <<version, changes>>
    BY <1>3 DEF Uncache, HandlerFails
  <2>2. /\ ops' \in Seq(Operations) /\ Len(ops') = Len(ops) - 1 /\ i \in 1 .. Len(ops)
        /\ \A j \in 1 .. Len(ops) - 1 : ops'[j] = IF j < i THEN ops[j] ELSE ops[j + 1]
    BY <1>1, <2>1, RemoveAtFacts
  <2>3. DOMAIN ops = 1 .. Len(ops) /\ DOMAIN ops' = 1 .. Len(ops) - 1 /\ Len(ops) \in Nat
    BY <2>2, LoggingFacts DEF BoundedTypes
  <2> DEFINE g == [j \in Logging' |-> IF j < i THEN j ELSE j + 1]
  <2>4. \A j \in Logging' : g[j] \in Logging
    BY <2>2, <2>3 DEF Logging
  <2>5. \A j, m \in Logging' : g[j] = g[m] => j = m
    BY <2>2, <2>3 DEF Logging
  <2>6. g \in Injection(Logging', Logging)
    BY <2>4, <2>5 DEF Injection, IsInjective
  <2>7. Cardinality(Logging') =< Cardinality(Logging) /\ IsFiniteSet(Logging')
    BY <2>6, LoggingFacts, FS_Injection DEF BoundedTypes
  <2>8. Cardinality(Logging') \in Nat
    BY <2>7, FS_CardinalityType
  <2>9. QED
    BY <2>1, <2>2, <2>3, <2>7, <2>8, LoggingFacts, SMTT(30) DEF BoundedTypes, CountsOK
<1>4. QED  BY <1>2, <1>3

(* Asking for the newest version creates the log, once. *)
LEMMA GetVersionCounts ==
    ASSUME BoundedTypes, NEW t \in Threads, GetVersion(t)
    PROVE  CountsOK'
<1>1. UNCHANGED <<ops, changes, notices>> /\ version' = Created
  BY DEF GetVersion
<1>2. Logging' = Logging
  BY <1>1 DEF Logging
<1>3. QED  BY <1>1, <1>2, LoggingFacts DEF BoundedTypes, CountsOK, Created

(* Every step keeps the types and the counts. *)
LEMMA BoundedTypesKept ==
    ASSUME BoundedTypes, [FriendNext]_FriendVars
    PROVE  BoundedTypes'
<1>1. SUFFICES CountsOK'
  BY FriendTypesKept DEF BoundedTypes
<1>2. ASSUME ops' = ops, version' = version, changes' = changes,
             notices' \in Nat, notices' =< notices
      PROVE  CountsOK'
  <2>1. Logging' = Logging
    BY <1>2 DEF Logging
  <2>2. QED  BY <1>2, <2>1, LoggingFacts DEF BoundedTypes, CountsOK
<1>3. notices \in Nat
  BY DEF BoundedTypes, CountsOK
<1>4. ASSUME NEW k \in Kinds, NEW f \in Friends, WriteRow(k, f)  PROVE CountsOK'
  BY <1>4, WriteRowCounts
<1>5. ASSUME NEW i \in DOMAIN ops, LogVersion(i) \/ Uncache(i) \/ HandlerFails(i)
      PROVE  CountsOK'
  BY <1>5, HandlerCounts
<1>6. CASE OnNotice
  <2>1. notices > 0 /\ notices' = notices - 1 /\ UNCHANGED <<ops, version, changes>>
    BY <1>6 DEF OnNotice, FriendServer
  <2>2. QED  BY <1>2, <1>3, <2>1
<1>7. CASE OnConnect
  <2>1. UNCHANGED <<ops, version, changes, notices>>
    BY <1>7 DEF OnConnect, FriendServer
  <2>2. QED  BY <1>2, <1>3, <2>1
<1>8. ASSUME NEW t \in Threads, FriendStep(t) \/ SyncFails(t)  PROVE CountsOK'
  <2>1. CASE GetVersion(t)
    BY <2>1, GetVersionCounts
  <2>2. CASE FindRows(t) \/ Apply(t) \/ DeleteAll(t) \/ ReadPage(t) \/ SyncFails(t)
    <3>1. UNCHANGED <<ops, version, changes, notices>>
      BY <2>2 DEF FindRows, Apply, DeleteAll, ReadPage, SyncFails, FriendServer
    <3>2. QED  BY <1>2, <1>3, <3>1
  <2>3. QED  BY <1>8, <2>1, <2>2 DEF FriendStep
<1>9. CASE UNCHANGED FriendVars
  <2>1. UNCHANGED <<ops, version, changes, notices>>
    BY <1>9 DEF FriendVars, FriendServer
  <2>2. QED  BY <1>2, <1>3, <2>1
<1>10. QED  BY <1>4, <1>5, <1>6, <1>7, <1>8, <1>9 DEF FriendNext

(* Nothing is counted at first. *)
LEMMA CountsAtFirst ==
    FriendInit => BoundedTypes
<1> SUFFICES ASSUME FriendInit  PROVE BoundedTypes
  OBVIOUS
<1>1. FriendTypes
  BY HonestAtFirst DEF FriendInv
<1>2. ops = <<>> /\ Logging = {} /\ version = 0 /\ changes = 0 /\ notices = 0
  BY DEF FriendInit, Logging
<1>3. QED  BY <1>1, <1>2, FS_EmptySet DEF BoundedTypes, CountsOK

(* Every variable of the synchronisation of friends keeps its type: a row   *)
(* is in the order once, no version the client stores is ahead of the log,  *)
(* and the log counts no more than there were changes, but for its creation *)
(* (version_log.go, version_synchronizer.go).                               *)
THEOREM FriendTypeCorrect == FriendSpec => []FriendTypeOK
<1>1. BoundedTypes => FriendTypeOK
  <2>1. SUFFICES ASSUME BoundedTypes  PROVE FriendTypeOK
    OBVIOUS
  <2>2. /\ version \in 0 .. MaxChanges + 1 /\ notices \in 0..MaxChanges
    BY <2>1, LoggingFacts DEF BoundedTypes, CountsOK
  <2>3. IsInjective(order)
    BY <2>1 DEF IsInjective, BoundedTypes, FriendTypes, RowsOK
  <2>4. \A t \in Threads :
          thread[t].pc \in {"idle", "asked", "found", "answered", "paging"}
    BY <2>1, ThreadFacts DEF BoundedTypes, FriendTypes
  <2>5. ops \in Seq([kind : Kinds, friend : Friends, pc : {"log", "uncache"}])
    BY <2>1 DEF BoundedTypes, FriendTypes, LogOK, Operations
  <2>6. \A f \in Friends : elem[f].ver \in 0..version
    BY <2>1 DEF BoundedTypes, FriendTypes, LogOK
  <2>7. /\ order \in Seq(Friends) /\ row \in [Friends -> 0..MaxChanges]
        /\ \A f \in Friends : row[f] # 0 <=> \E i \in DOMAIN order : order[i] = f
        /\ {cachedVer, sorted} \subseteq 0..version /\ changes \in 0..MaxChanges
        /\ dirty \subseteq Friends
        /\ mine \in [Friends -> 0..MaxChanges] /\ myVersion \in 0..version
    BY <2>1 DEF BoundedTypes, FriendTypes, RowsOK, LogOK, ClientOK
  <2>8. QED  BY <2>2, <2>3, <2>4, <2>5, <2>6, <2>7 DEF FriendTypeOK
<1>2. BoundedTypes /\ [FriendNext]_FriendVars => BoundedTypes'
  BY BoundedTypesKept
<1>3. QED  BY <1>1, <1>2, CountsAtFirst, PTL DEF FriendSpec

-----------------------------------------------------------------------------
(* The long connection. *)

(* What a message to the gateway that is not a request says. *)
SubInfo == [on : SUBSET Users, off : SUBSET Users]
(* A call, and an entry. *)
CallRecord == [at : {"new", "write", "wait", "done", "failed"},
               user : Users \cup {None}, off : SUBSET Users, entry : Calls \cup {0}]
EntryRecord == [state : {"open", "ok", "error"}, online : BOOLEAN]

(* The types of the connection, of requests, of the online status. *)
ConnOK ==
  /\ status \in {"none", "closed", "connecting", "connected"}
  /\ link \in BOOLEAN /\ loggedOut \in BOOLEAN
  /\ reader \in {"off", "top", "dial", "linked", "announce", "read",
                 "handle", "failed", "ended"}
  /\ frame \in Frame \cup {NoFrame} /\ downlink \in Seq(Frame)
  /\ uplink \in Seq(Requests \cup SubInfo)
  /\ mail \in 0..MailLen /\ breaks \in 0..Breaks /\ pushes \in 0..Pushes

RequestOK ==
  /\ writer \in {"idle", "write", "failing", "wait", "ended"}
  /\ sendOpen \in BOOLEAN
  /\ request \in [Requests -> {"new", "sending", "queued"} \cup Ended]
  /\ send \in Seq(Requests) /\ Len(send) =< SendLen
  /\ tries \in Nat /\ tries < Attempts
  /\ IF writer \in {"idle", "ended"}
     THEN cur = None /\ table = {} /\ answered = {}
     ELSE cur \in Requests /\ answered \subseteq table /\ table \subseteq {cur}

PresenceOK ==
  /\ call \in [Calls -> CallRecord]
  /\ \A k \in Calls : call[k].at # "new" => call[k].user \in Users
  /\ load \in [Users -> Calls \cup {0}]
  /\ entry \in [Calls -> EntryRecord]
  /\ unsub \subseteq Users /\ watch \subseteq Users /\ excused \subseteq Users
  /\ real \in [Users -> BOOLEAN] /\ turns \in 0..Turns
  /\ reply \in Presence /\ noticed \in BOOLEAN

ConnTypes == ConnOK /\ RequestOK /\ PresenceOK

(* What answers say of users. *)
LEMMA NoPresence ==
    /\ <<>> \in Presence /\ DOMAIN <<>> = {}
    /\ \A S \in SUBSET Users : \A p \in [S -> BOOLEAN] : p \in Presence
    /\ \A p \in Presence : /\ DOMAIN p \subseteq Users
                           /\ \A u \in DOMAIN p : p[u] \in BOOLEAN
<1>1. /\ \A S \in SUBSET Users : \A p \in [S -> BOOLEAN] : p \in Presence
      /\ DOMAIN <<>> = {}
  BY DEF Presence
<1>2. <<>> \in Presence
  <2>1. <<>> \in [{} -> BOOLEAN] /\ {} \in SUBSET Users
    OBVIOUS
  <2>2. QED  BY <1>1, <2>1
<1>3. ASSUME NEW p \in Presence
      PROVE  DOMAIN p \subseteq Users /\ \A u \in DOMAIN p : p[u] \in BOOLEAN
  <2>1. PICK S \in SUBSET Users : p \in [S -> BOOLEAN]
    BY DEF Presence
  <2>2. QED  BY <2>1
<1>4. QED  BY <1>1, <1>2, <1>3

(* What frames there are. *)
LEMMA Frames ==
    /\ \A p \in Presence : [type |-> "tips", states |-> p] \in Frame
    /\ \A r \in Requests : [type |-> "reply", req |-> r] \in Frame
    /\ [type |-> "push"] \in Frame /\ [type |-> "kick"] \in Frame
    /\ \A f \in Frame : /\ f # NoFrame
                        /\ f.type \in {"reply", "push", "kick", "tips"}
                        /\ f.type = "tips" => f.states \in Presence
                        /\ f.type = "reply" => f.req \in Requests
<1>1. \A p \in Presence : [type |-> "tips", states |-> p] \in Frame
  BY DEF Frame
<1>2. \A r \in Requests : [type |-> "reply", req |-> r] \in Frame
  BY DEF Frame
<1>3. [type |-> "push"] \in Frame /\ [type |-> "kick"] \in Frame
  BY DEF Frame
<1>4. ASSUME NEW f \in Frame
      PROVE  /\ f # NoFrame
             /\ f.type \in {"reply", "push", "kick", "tips"}
             /\ f.type = "tips" => f.states \in Presence
             /\ f.type = "reply" => f.req \in Requests
  <2>1. /\ f.type \in {"reply", "push", "kick", "tips"}
        /\ f.type = "tips" => f.states \in Presence
        /\ f.type = "reply" => f.req \in Requests
    BY DEF Frame
  <2>2. NoFrame.type = "none"
    BY DEF NoFrame
  <2>3. QED  BY <2>1, <2>2
<1>5. QED  BY <1>1, <1>2, <1>3, <1>4

(* What close leaves behind. *)
LEMMA ShutTypes ==
    ASSUME ConnOK, Shut
    PROVE  /\ status' \in {"none", "closed", "connecting", "connected"}
           /\ link' \in BOOLEAN /\ uplink' \in Seq(Requests \cup SubInfo)
           /\ status' # "connected"
           /\ status # "connected" => status' = status /\ link' = link /\ uplink' = uplink
           /\ status = "connected" => status' = "closed" /\ ~link' /\ uplink' = <<>>
<1>1. CASE status = "connected"
  <2>1. status' = "closed" /\ link' = FALSE /\ uplink' = <<>>
    BY <1>1 DEF Shut
  <2>2. link' \in BOOLEAN
    BY <2>1
  <2>3. QED  BY <1>1, <2>1, <2>2
<1>2. CASE status # "connected"
  <2>1. UNCHANGED <<status, link, uplink>>
    BY <1>2 DEF Shut
  <2>2. QED  BY <1>2, <2>1 DEF ConnOK
<1>3. QED  BY <1>1, <1>2

(* Steps that leave the requests alone. *)
LEMMA RequestStays ==
    ASSUME RequestOK, UNCHANGED <<writer, RequestVars>>
    PROVE  RequestOK'
BY DEF RequestOK, RequestVars

(* Steps that leave the online status alone. *)
LEMMA PresenceStays ==
    ASSUME PresenceOK, UNCHANGED PresenceVars
    PROVE  PresenceOK'
BY DEF PresenceOK, PresenceVars

(* Steps that leave the connection alone. *)
LEMMA ConnStays ==
    ASSUME ConnOK, UNCHANGED <<status, link, reader, frame, mail, loggedOut,
                               uplink, downlink, breaks, pushes>>
    PROVE  ConnOK'
BY DEF ConnOK

(* Connecting and closing. *)
LEMMA ReaderTypes ==
    ASSUME ConnOK,
           Run \/ Loop \/ DialFails \/ Dial \/ Established \/ Announce \/ ReadFrame
             \/ ReadFails \/ OnConnClosed \/ HandlePush \/ HandleKick
             \/ NetworkChanged \/ LinkBreaks \/ LinkExpires \/ Exit
    PROVE  ConnOK'
<1> USE LongConnAssumption
<1>1. CASE Run \/ Exit
  BY <1>1 DEF Run, Exit, ConnOK
<1>2. CASE Loop
  BY <1>2, ShutTypes DEF Loop, ConnOK
<1>3. CASE DialFails
  BY <1>3 DEF DialFails, ConnOK, Break
<1>4. CASE Dial
  BY <1>4 DEF Dial, ConnOK
<1>5. CASE Established
  BY <1>5 DEF Established, ConnOK
<1>6. CASE Announce
  BY <1>6 DEF Announce, Post, ConnOK
<1>7. CASE ReadFrame
  BY <1>7 DEF ReadFrame, ConnOK
<1>8. CASE ReadFails
  BY <1>8, ShutTypes DEF ReadFails, ConnOK
<1>9. CASE OnConnClosed
  BY <1>9 DEF OnConnClosed, ConnOK
<1>10. CASE HandlePush
  BY <1>10 DEF HandlePush, Post, ConnOK
<1>11. CASE HandleKick
  BY <1>11, ShutTypes DEF HandleKick, ConnOK
<1>12. CASE NetworkChanged
  BY <1>12, ShutTypes DEF NetworkChanged, ConnOK, Break
<1>13. CASE LinkBreaks
  <2>1. link' = FALSE /\ uplink' = <<>>
    BY <1>13 DEF LinkBreaks
  <2>2. link' \in BOOLEAN
    BY <2>1
  <2>3. QED  BY <1>13, <2>1, <2>2 DEF LinkBreaks, ConnOK, Break
<1>14. CASE LinkExpires
  <2>1. link' = FALSE /\ uplink' = <<>>
    BY <1>14 DEF LinkExpires
  <2>2. link' \in BOOLEAN
    BY <2>1
  <2>3. QED  BY <1>14, <2>1, <2>2 DEF LinkExpires, ConnOK
<1>15. QED
  BY <1>1, <1>2, <1>3, <1>4, <1>5, <1>6, <1>7, <1>8, <1>9, <1>10, <1>11,
     <1>12, <1>13, <1>14

-----------------------------------------------------------------------------
(* Requests: what the steps of the writer and of the callers leave. *)
LEMMA CallerTypes ==
    ASSUME ConnOK, RequestOK,
           \/ SyncerTakes
           \/ \E r \in Requests : Ask(r) \/ Enqueue(r) \/ ContextEnds(r)
    PROVE  ConnOK' /\ RequestOK'
<1> USE LongConnAssumption
<1>1. ASSUME NEW r \in Requests, Ask(r)  PROVE ConnOK' /\ RequestOK'
  <2>1. request' = [request EXCEPT ![r] = "sending"]
    BY <1>1 DEF Ask
  <2>2. request' \in [Requests -> {"new", "sending", "queued"} \cup Ended]
    BY <2>1 DEF RequestOK
  <2>3. QED  BY <1>1, <2>2 DEF Ask, ConnVars, ConnOK, RequestOK
<1>2. ASSUME NEW r \in Requests, Enqueue(r)  PROVE ConnOK' /\ RequestOK'
  <2>1. /\ request' \in [Requests -> {"new", "sending", "queued"} \cup Ended]
        /\ send' \in Seq(Requests) /\ Len(send') =< SendLen
    <3>1. CASE sendOpen
      <4>1. /\ Len(send) < SendLen /\ send' = Append(send, r)
            /\ request' = [request EXCEPT ![r] = "queued"]
        BY <1>2, <3>1 DEF Enqueue
      <4>2. send' \in Seq(Requests) /\ Len(send') =< SendLen
        BY <4>1 DEF RequestOK
      <4>3. QED  BY <4>1, <4>2 DEF RequestOK
    <3>2. CASE ~sendOpen
      BY <1>2, <3>2 DEF Enqueue, RequestOK, Ended
    <3>3. QED  BY <3>1, <3>2
  <2>2. QED  BY <1>2, <2>1, SMTT(30) DEF Enqueue, ConnVars, ConnOK, RequestOK
<1>3. ASSUME NEW r \in Requests, ContextEnds(r)  PROVE ConnOK' /\ RequestOK'
  <2>1. request' \in [Requests -> {"new", "sending", "queued"} \cup Ended]
    BY <1>3 DEF ContextEnds, RequestOK, Ended
  <2>2. QED  BY <1>3, <2>1 DEF ContextEnds, ConnVars, ConnOK, RequestOK
<1>4. CASE SyncerTakes
  <2>1. request' \in [Requests -> {"new", "sending", "queued"} \cup Ended]
    BY <1>4 DEF SyncerTakes, RequestOK
  <2>2. mail' \in 0..MailLen
    BY <1>4 DEF SyncerTakes, ConnOK
  <2>3. QED  BY <1>4, <2>1, <2>2 DEF SyncerTakes, ConnOK, RequestOK
<1>5. QED  BY <1>1, <1>2, <1>3, <1>4

(* A caller is told. *)
LEMMA ToldTypes ==
    ASSUME RequestOK, NEW r, NEW outcome \in Ended, Told(r, outcome)
    PROVE  request' \in [Requests -> {"new", "sending", "queued"} \cup Ended]
BY DEF Told, RequestOK

(* The writer has done with a request. *)
LEMMA FinishTypes ==
    ASSUME RequestOK, NEW outcome \in Ended, Finish(outcome)
    PROVE  RequestOK'
<1>1. request' \in [Requests -> {"new", "sending", "queued"} \cup Ended]
  BY ToldTypes DEF Finish
<1>2. QED  BY <1>1, LongConnAssumption DEF Finish, RequestOK

(* The steps of the writer: what it has taken it keeps until it is done. *)
LEMMA WriterTypes ==
    ASSUME ConnOK, RequestOK, WriterSteps
    PROVE  ConnOK' /\ RequestOK'
<1> USE LongConnAssumption
<1>1. CASE TakeRequest
  <2>1. ConnOK'
    BY <1>1 DEF TakeRequest, ConnOK
  <2>2. Head(send) \in Requests /\ Tail(send) \in Seq(Requests) /\ Len(Tail(send)) =< SendLen
    BY <1>1 DEF TakeRequest, RequestOK
  <2>3. PICK r \in Requests : r = Head(send)
    BY <2>2
  <2>4. CASE r \in Syncs /\ status # "connected"
    <3>1. Told(r, "failed") /\ UNCHANGED <<writer, cur, table>>
      BY <1>1, <2>3, <2>4 DEF TakeRequest
    <3>2. request' \in [Requests -> {"new", "sending", "queued"} \cup Ended]
      BY <3>1, ToldTypes DEF Ended
    <3>3. QED  BY <1>1, <2>1, <2>2, <3>1, <3>2 DEF TakeRequest, RequestOK
  <2>5. CASE ~(r \in Syncs /\ status # "connected")
    <3>1. writer' = "write" /\ cur' = r /\ table' = {r} /\ UNCHANGED request
      BY <1>1, <2>3, <2>5 DEF TakeRequest
    <3>2. QED  BY <1>1, <2>1, <2>2, <3>1 DEF TakeRequest, RequestOK
  <2>6. QED  BY <2>4, <2>5
<1>2. CASE Write
  <2>1. cur \in Requests
    BY <1>2 DEF Write, RequestOK
  <2>2. uplink' \in Seq(Requests \cup SubInfo)
    <3>1. Append(uplink, cur) \in Seq(Requests \cup SubInfo)
      BY <2>1 DEF ConnOK
    <3>2. QED  BY <1>2, <3>1 DEF Write, ConnOK
  <2>3. ConnOK'
    BY <1>2, <2>2 DEF Write, ConnOK
  <2>4. RequestOK'
    BY <1>2 DEF Write, RequestVars, RequestOK
  <2>5. QED  BY <2>3, <2>4
<1>3. CASE WriteFailed
  <2>1. ConnOK'
    BY <1>3, ShutTypes DEF WriteFailed, ConnOK
  <2>2. CASE tries + 1 < Attempts
    BY <1>3, <2>1, <2>2 DEF WriteFailed, RequestOK
  <2>3. CASE ~(tries + 1 < Attempts)
    BY <1>3, <2>1, <2>3, FinishTypes DEF WriteFailed, Ended
  <2>4. QED  BY <2>2, <2>3
<1>4. CASE WaitEnds
  <2>1. ConnOK'
    BY <1>4 DEF WaitEnds, ConnOK
  <2>2. QED  BY <1>4, <2>1, FinishTypes DEF WaitEnds, Ended
<1>5. CASE WriterEnds
  <2>1. ConnOK'
    BY <1>5, ShutTypes DEF WriterEnds, ConnOK
  <2>2. RequestOK'
    BY <1>5 DEF WriterEnds, RequestOK
  <2>3. QED  BY <2>1, <2>2
<1>6. QED  BY <1>1, <1>2, <1>3, <1>4, <1>5 DEF WriterSteps

(* Answers and what else the gateway sends. *)
LEMMA AnswerTypes ==
    ASSUME ConnOK, RequestOK,
           HandleReply \/ GatewayReplies \/ GatewayPushes \/ GatewayKicks
    PROVE  ConnOK' /\ RequestOK'
<1> USE LongConnAssumption
<1>1. CASE HandleReply
  <2>1. ConnOK'
    BY <1>1, ShutTypes DEF HandleReply, ConnOK
  <2>2. answered' = answered \cup ({frame.req} \cap table)
    BY <1>1 DEF HandleReply
  <2>3. RequestOK'
    BY <1>1, <2>2 DEF HandleReply, RequestOK
  <2>4. QED  BY <2>1, <2>3
<1>2. CASE GatewayReplies
  <2>1. PICK f \in Frame : f = [type |-> "reply", req |-> Head(uplink)]
    BY <1>2, Frames DEF GatewayReplies
  <2>2. downlink' = Append(downlink, f)
    BY <1>2, <2>1 DEF GatewayReplies
  <2>3. downlink' \in Seq(Frame)
    BY <2>2 DEF ConnOK
  <2>4. uplink' \in Seq(Requests \cup SubInfo) /\ link' \in BOOLEAN
    <3>1. CASE Head(uplink) \in Logouts
      <4>1. link' = FALSE /\ uplink' = <<>>
        BY <1>2, <3>1 DEF GatewayReplies
      <4>2. link' \in BOOLEAN
        BY <4>1
      <4>3. QED  BY <4>1, <4>2
    <3>2. CASE Head(uplink) \notin Logouts
      <4>1. uplink # <<>> /\ uplink' = Tail(uplink) /\ link' = link
        BY <1>2, <3>2 DEF GatewayReplies
      <4>2. QED  BY <4>1 DEF ConnOK
    <3>3. QED  BY <3>1, <3>2
  <2>5. ConnOK'
    BY <1>2, <2>3, <2>4 DEF GatewayReplies, ConnOK
  <2>6. QED  BY <1>2, <2>5, RequestStays DEF GatewayReplies
<1>3. CASE GatewayPushes
  <2>1. PICK f \in Frame : f = [type |-> "push"]
    BY Frames
  <2>2. downlink' = Append(downlink, f)
    BY <1>3, <2>1 DEF GatewayPushes
  <2>3. ConnOK'
    BY <1>3, <2>2 DEF GatewayPushes, ConnOK
  <2>4. QED  BY <1>3, <2>3, RequestStays DEF GatewayPushes
<1>4. CASE GatewayKicks
  <2>1. PICK f \in Frame : f = [type |-> "kick"]
    BY Frames
  <2>2. downlink' = Append(downlink, f) /\ link' = FALSE /\ uplink' = <<>>
    BY <1>4, <2>1 DEF GatewayKicks
  <2>3. link' \in BOOLEAN
    BY <2>2
  <2>4. ConnOK'
    BY <1>4, <2>2, <2>3 DEF GatewayKicks, Break, ConnOK
  <2>5. QED  BY <1>4, <2>4, RequestStays DEF GatewayKicks
<1>5. QED  BY <1>1, <1>2, <1>3, <1>4

-----------------------------------------------------------------------------
(* Connecting, questions and the gateway keep the types of the online status. *)
LEMMA StatusTypes ==
    ASSUME ConnTypes,
           \/ Dial \/ Established \/ OnConnClosed
           \/ HandleTips \/ GatewaySubscribes \/ GatewayAnswers \/ GatewayFails
           \/ \E u \in Users : Unsubscribe(u) \/ Turn(u)
           \/ \E k \in Calls : \/ WriteSubInfo(k) \/ CallEnds(k)
                               \/ \E u \in Users : AskStatus(k, u)
    PROVE  PresenceOK'
<1> USE LongConnAssumption DEF ConnTypes
<1>1. CASE Dial
  BY <1>1, NoPresence DEF Dial, PresenceOK
<1>2. CASE Established
  BY <1>2 DEF Established, PresenceOK
<1>3. CASE OnConnClosed
  <2>1. entry' \in [Calls -> EntryRecord]
    BY <1>3 DEF OnConnClosed, Finished, PresenceOK, EntryRecord
  <2>2. QED  BY <1>3, <2>1 DEF OnConnClosed, PresenceOK
<1>4. CASE HandleTips
  <2>1. frame \in Frame /\ frame.states \in Presence
    BY <1>4, Frames DEF HandleTips, ConnOK, NoFrame
  <2>2. PICK p \in Presence : p = frame.states
    BY <2>1
  <2>3. DOMAIN p \subseteq Users /\ \A u \in DOMAIN p : p[u] \in BOOLEAN
    BY NoPresence
  <2>4. entry' = [k \in Calls |->
          IF \E u \in DOMAIN p : load[u] = k
          THEN [state |-> "ok", online |-> p[CHOOSE u \in DOMAIN p : load[u] = k]]
          ELSE entry[k]]
    BY <1>4, <2>2 DEF HandleTips
  <2>5. ASSUME NEW k \in Calls
        PROVE  (IF \E u \in DOMAIN p : load[u] = k
                THEN [state |-> "ok", online |-> p[CHOOSE u \in DOMAIN p : load[u] = k]]
                ELSE entry[k]) \in EntryRecord
    <3>1. CASE \E u \in DOMAIN p : load[u] = k
      <4>1. p[CHOOSE u \in DOMAIN p : load[u] = k] \in BOOLEAN
        BY <2>3, <3>1
      <4>2. QED  BY <3>1, <4>1 DEF EntryRecord
    <3>2. CASE ~ \E u \in DOMAIN p : load[u] = k
      BY <3>2 DEF PresenceOK
    <3>3. QED  BY <3>1, <3>2
  <2>6. entry' \in [Calls -> EntryRecord]
    BY <2>4, <2>5
  <2>7. unsub' \subseteq Users
    BY <1>4, <2>2, <2>3 DEF HandleTips, PresenceOK
  <2>8. QED  BY <1>4, <2>6, <2>7 DEF HandleTips, PresenceOK
<1>5. CASE GatewaySubscribes
  <2>1. PICK sub \in SubInfo : sub = Head(uplink)
    BY <1>5 DEF GatewaySubscribes, ConnOK
  <2>2. sub.on \in SUBSET Users /\ sub.off \in SUBSET Users
    BY DEF SubInfo
  <2>3. reply' \in Presence
    <3>1. [u \in sub.on |-> real[u]] \in [sub.on -> BOOLEAN]
      BY <2>2 DEF PresenceOK
    <3>2. QED  BY <1>5, <2>1, <2>2, <3>1, NoPresence DEF GatewaySubscribes
  <2>4. watch' \subseteq Users /\ excused' \subseteq Users
    BY <1>5, <2>1, <2>2 DEF GatewaySubscribes, PresenceOK
  <2>5. QED  BY <1>5, <2>3, <2>4 DEF GatewaySubscribes, PresenceOK
<1>6. CASE GatewayAnswers
  <2>1. excused' \subseteq Users
    BY <1>6, NoPresence DEF GatewayAnswers, PresenceOK
  <2>2. QED  BY <1>6, <2>1, NoPresence DEF GatewayAnswers, PresenceOK
<1>7. CASE GatewayFails
  <2>1. excused' \subseteq Users
    BY <1>7, NoPresence DEF GatewayFails, PresenceOK
  <2>2. QED  BY <1>7, <2>1, NoPresence DEF GatewayFails, PresenceOK
<1>8. ASSUME NEW u \in Users, Unsubscribe(u)  PROVE PresenceOK'
  <2>1. entry' \in [Calls -> EntryRecord]
    BY <1>8 DEF Unsubscribe, Finished, PresenceOK, EntryRecord
  <2>2. QED  BY <1>8, <2>1 DEF Unsubscribe, PresenceOK
<1>9. ASSUME NEW u \in Users, Turn(u)  PROVE PresenceOK'
  <2>1. real' \in [Users -> BOOLEAN]
    BY <1>9 DEF Turn, PresenceOK
  <2>2. excused' \subseteq Users /\ turns' \in 0..Turns
    BY <1>9 DEF Turn, PresenceOK
  <2>3. QED  BY <1>9, <2>1, <2>2 DEF Turn, PresenceOK
<1>10. ASSUME NEW k \in Calls, WriteSubInfo(k)  PROVE PresenceOK'
  <2>1. entry' \in [Calls -> EntryRecord]
    <3>1. Finished({k}) \in [Calls -> EntryRecord]
      BY DEF Finished, PresenceOK, EntryRecord
    <3>2. QED  BY <1>10, <3>1 DEF WriteSubInfo, PresenceOK
  <2>2. load' \in [Users -> Calls \cup {0}]
    BY <1>10 DEF WriteSubInfo, PresenceOK
  <2>3. PICK s \in {"wait", "failed"} : call' = [call EXCEPT ![k].at = s]
    BY <1>10 DEF WriteSubInfo
  <2>4. /\ call' \in [Calls -> CallRecord]
        /\ \A m \in Calls : call'[m].at # "new" => call'[m].user \in Users
    <3>1. call[k].at # "new"
      BY <1>10 DEF WriteSubInfo
    <3>2. QED  BY <2>3, <3>1 DEF PresenceOK, CallRecord
  <2>5. QED  BY <1>10, <2>1, <2>2, <2>4 DEF WriteSubInfo, PresenceOK
<1>11. ASSUME NEW k \in Calls, CallEnds(k)  PROVE PresenceOK'
  <2>1. PICK s \in {"done", "failed"} : call' = [call EXCEPT ![k].at = s]
    BY <1>11 DEF CallEnds
  <2>2. /\ call' \in [Calls -> CallRecord]
        /\ \A m \in Calls : call'[m].at # "new" => call'[m].user \in Users
    BY <1>11, <2>1 DEF CallEnds, PresenceOK, CallRecord
  <2>3. QED  BY <1>11, <2>2 DEF CallEnds, PresenceOK
<1>12. ASSUME NEW k \in Calls, NEW u \in Users, AskStatus(k, u)  PROVE PresenceOK'
  <2>1. PICK c \in CallRecord : c.user = u /\ call' = [call EXCEPT ![k] = c]
    <3>1. CASE load[u] # 0
      <4>1. PICK s \in {"wait", "done"} : s = IF entry[load[u]].state = "open"
                                              THEN "wait" ELSE "done"
        OBVIOUS
      <4> DEFINE c == [at |-> s, user |-> u, off |-> {}, entry |-> load[u]]
      <4>2. c \in CallRecord /\ c.user = u
        BY DEF CallRecord, PresenceOK
      <4>3. call' = [call EXCEPT ![k] = c]
        BY <1>12, <3>1, <4>1 DEF AskStatus
      <4>4. QED  BY <4>2, <4>3
    <3>2. CASE load[u] = 0
      <4> DEFINE c == [at |-> "write", user |-> u, off |-> unsub \ {u}, entry |-> k]
      <4>1. c \in CallRecord /\ c.user = u
        BY DEF CallRecord, PresenceOK
      <4>2. call' = [call EXCEPT ![k] = c]
        BY <1>12, <3>2 DEF AskStatus
      <4>3. QED  BY <4>1, <4>2
    <3>3. QED  BY <3>1, <3>2
  <2>2. /\ call' \in [Calls -> CallRecord]
        /\ \A m \in Calls : call'[m].at # "new" => call'[m].user \in Users
    BY <1>12, <2>1 DEF PresenceOK
  <2>3. load' \in [Users -> Calls \cup {0}] /\ unsub' \subseteq Users
    BY <1>12 DEF AskStatus, PresenceOK
  <2>4. QED  BY <1>12, <2>2, <2>3 DEF AskStatus, PresenceOK
<1>13. QED
  BY <1>1, <1>2, <1>3, <1>4, <1>5, <1>6, <1>7, <1>8, <1>9, <1>10, <1>11, <1>12

(* Messages to and from the gateway about the online status. *)
LEMMA StatusMessages ==
    ASSUME ConnTypes, PresenceNext
    PROVE  ConnOK'
<1> USE LongConnAssumption DEF ConnTypes
<1>1. CASE HandleTips
  BY <1>1 DEF HandleTips, ConnOK
<1>2. CASE GatewaySubscribes
  BY <1>2 DEF GatewaySubscribes, ConnOK
<1>3. CASE GatewayAnswers
  <2>1. PICK f \in Frame : f = [type |-> "tips", states |-> reply]
    BY Frames DEF PresenceOK
  <2>2. downlink' = Append(downlink, f)
    BY <1>3, <2>1 DEF GatewayAnswers
  <2>3. QED  BY <1>3, <2>2 DEF GatewayAnswers, ConnOK
<1>4. CASE GatewayFails
  BY <1>4 DEF GatewayFails, Break, ConnOK
<1>5. ASSUME NEW u \in Users, Turn(u)  PROVE ConnOK'
  <2>1. [v \in {u} |-> ~real[u]] \in Presence
    <3>1. [v \in {u} |-> ~real[u]] \in [{u} -> BOOLEAN]
      OBVIOUS
    <3>2. QED  BY <3>1, NoPresence
  <2>2. PICK f \in Frame : f = [type |-> "tips", states |-> [v \in {u} |-> ~real[u]]]
    BY <2>1, Frames
  <2>3. downlink' = downlink \/ downlink' = Append(downlink, f)
    BY <1>5, <2>2 DEF Turn
  <2>4. downlink' \in Seq(Frame)
    <3>1. downlink \in Seq(Frame)
      BY DEF ConnOK
    <3>2. Append(downlink, f) \in Seq(Frame)
      BY <3>1, OneMore, Zenon
    <3>3. QED  BY <2>3, <3>1, <3>2, Zenon
  <2>5. QED  BY <1>5, <2>4 DEF Turn, ConnOK
<1>6. ASSUME NEW k \in Calls, WriteSubInfo(k)  PROVE ConnOK'
  <2>1. PICK m \in SubInfo : m = [on |-> {call[k].user}, off |-> call[k].off]
    BY <1>6 DEF WriteSubInfo, PresenceOK, CallRecord, SubInfo
  <2>2. uplink' = uplink \/ uplink' = Append(uplink, m)
    BY <1>6, <2>1 DEF WriteSubInfo
  <2>3. uplink' \in Seq(Requests \cup SubInfo)
    <3>1. uplink \in Seq(Requests \cup SubInfo) /\ m \in Requests \cup SubInfo
      BY DEF ConnOK
    <3>2. Append(uplink, m) \in Seq(Requests \cup SubInfo)
      BY <3>1, OneMore, Zenon
    <3>3. QED  BY <2>2, <3>1, <3>2, Zenon
  <2>4. QED  BY <1>6, <2>3 DEF WriteSubInfo, ConnOK
<1>7. ASSUME NEW k \in Calls, CallEnds(k) \/ \E u \in Users : AskStatus(k, u)
      PROVE  ConnOK'
  BY <1>7 DEF CallEnds, AskStatus, ConnVars, ConnOK
<1>8. ASSUME NEW u \in Users, Unsubscribe(u)  PROVE ConnOK'
  BY <1>8 DEF Unsubscribe, ConnVars, ConnOK
<1>9. QED
  BY <1>1, <1>2, <1>3, <1>4, <1>5, <1>6, <1>7, <1>8 DEF PresenceNext

(* Every step keeps the types. *)
LEMMA ConnTypesKept ==
    ASSUME ConnTypes, [LongConnNext]_LongConnVars
    PROVE  ConnTypes'
<1> USE DEF ConnTypes
<1>1. ASSUME \/ Run \/ Loop \/ DialFails \/ Announce \/ ReadFrame \/ ReadFails
             \/ HandlePush \/ HandleKick \/ NetworkChanged \/ LinkBreaks
             \/ LinkExpires \/ Exit
      PROVE  ConnTypes'
  <2>1. ConnOK'
    BY <1>1, ReaderTypes
  <2>2. UNCHANGED <<writer, RequestVars, PresenceVars>>
    BY <1>1 DEF Run, Loop, DialFails, Announce, ReadFrame, ReadFails, HandlePush,
       HandleKick, NetworkChanged, LinkBreaks, LinkExpires, Exit
  <2>3. QED  BY <2>1, <2>2, RequestStays, PresenceStays
<1>2. ASSUME Dial \/ Established \/ OnConnClosed  PROVE ConnTypes'
  <2>1. ConnOK'
    BY <1>2, ReaderTypes
  <2>2. UNCHANGED <<writer, RequestVars>>
    BY <1>2 DEF Dial, Established, OnConnClosed
  <2>3. PresenceOK'
    BY <1>2, StatusTypes
  <2>4. QED  BY <2>1, <2>2, <2>3, RequestStays
<1>3. ASSUME \/ SyncerTakes \/ WriterSteps \/ HandleReply \/ GatewayReplies
             \/ GatewayPushes \/ GatewayKicks
             \/ \E r \in Requests : Ask(r) \/ Enqueue(r) \/ ContextEnds(r)
      PROVE  ConnTypes'
  <2>1. ConnOK' /\ RequestOK'
    BY <1>3, CallerTypes, WriterTypes, AnswerTypes
  <2>2. UNCHANGED PresenceVars
    BY <1>3 DEF SyncerTakes, WriterSteps, TakeRequest, Write, WriteFailed, WaitEnds,
       WriterEnds, HandleReply, GatewayReplies, GatewayPushes, GatewayKicks,
       Ask, Enqueue, ContextEnds
  <2>3. QED  BY <2>1, <2>2, PresenceStays
<1>4. ASSUME PresenceNext  PROVE ConnTypes'
  <2>1. UNCHANGED <<writer, RequestVars>>
    BY <1>4 DEF PresenceNext, WriteSubInfo, CallEnds, AskStatus, Unsubscribe, Turn,
       HandleTips, GatewaySubscribes, GatewayAnswers, GatewayFails, ConnVars
  <2>2. PresenceOK'
    BY <1>4, StatusTypes DEF PresenceNext
  <2>3. ConnOK'
    BY <1>4, StatusMessages
  <2>4. QED  BY <2>1, <2>2, <2>3, RequestStays
<1>5. ASSUME UNCHANGED LongConnVars  PROVE ConnTypes'
  BY <1>5, RequestStays, PresenceStays, ConnStays DEF LongConnVars, ConnVars
<1>6. QED
  BY <1>1, <1>2, <1>3, <1>4, <1>5 DEF LongConnNext, ConnNext, ReaderSteps, Incidents,
     RequestNext

(* The types before the first step. *)
LEMMA ConnTypesAtFirst == LongConnInit => ConnTypes
<1> SUFFICES ASSUME LongConnInit  PROVE ConnTypes
  OBVIOUS
<1> USE LongConnAssumption DEF LongConnInit
<1>1. ConnOK
  <2>1. status = "none" /\ reader = "off" /\ frame = NoFrame /\ uplink = <<>> /\ downlink = <<>>
        /\ mail = 0 /\ breaks = 0 /\ pushes = 0
    BY DEF ConnInit
  <2>2. link \in BOOLEAN /\ loggedOut \in BOOLEAN
    BY DEF ConnInit
  <2>3. QED  BY <2>1, <2>2 DEF ConnOK
<1>2. RequestOK
  BY DEF ConnInit, RequestInit, RequestOK
<1>3. PresenceOK
  BY NoPresence DEF PresenceInit, PresenceOK, CallRecord, EntryRecord
<1>4. QED  BY <1>1, <1>2, <1>3 DEF ConnTypes

(* Every variable of the long connection keeps its type, whatever is lost,  *)
(* closed, kicked and asked at the same time: no channel takes more than it *)
(* holds, and an answer waits only for the request the writer has taken     *)
(* (long_conn_mgr.go, ws_resp_asyn.go).                                     *)
THEOREM ConnTypeCorrect == LongConnSpec => []LongConnTypeOK
<1>1. ConnTypes => LongConnTypeOK
  <2>1. SUFFICES ASSUME ConnTypes  PROVE LongConnTypeOK
    OBVIOUS
  <2>2. tries \in 0..Attempts
    BY <2>1, LongConnAssumption DEF ConnTypes, RequestOK
  <2>3. cur \in Requests \cup {None} /\ answered \subseteq table /\ table \subseteq {cur} \ {None}
    BY <2>1, RequestsAreNames DEF ConnTypes, RequestOK
  <2>4. QED
    BY <2>1, <2>2, <2>3 DEF ConnTypes, ConnOK, RequestOK, PresenceOK, LongConnTypeOK,
       SubInfo, CallRecord, EntryRecord
<1>2. QED  BY <1>1, ConnTypesAtFirst, ConnTypesKept, PTL DEF LongConnSpec

-----------------------------------------------------------------------------
(* A frame that tells the status of u. *)
Tells(f, u) == f.type = "tips" /\ u \in DOMAIN f.states

(* What the client will hold of u when it has read what is on its way.     *)
TrueInTheEnd(u) ==
  IF \E i \in DOMAIN downlink : Tells(downlink[i], u)
  THEN \E i \in DOMAIN downlink :
         /\ Tells(downlink[i], u) /\ downlink[i].states[u] = real[u]
         /\ \A j \in DOMAIN downlink : Tells(downlink[j], u) => j =< i
  ELSE IF Tells(frame, u) THEN frame.states[u] = real[u]
  ELSE entry[load[u]] = [state |-> "ok", online |-> real[u]]

(* A message to the gateway that subscribes to u. *)
Subscribing(u) ==
  \E i \in DOMAIN uplink : uplink[i] \notin Requests /\ u \in uplink[i].on

(* The message to the gateway, the gateway's answer, or the truth.         *)
OnItsWay(u) ==
  \/ call[load[u]].at = "write"
  \/ Subscribing(u)
  \/ u \in DOMAIN reply
  \/ u \in watch /\ TrueInTheEnd(u)

(* Where the reader stands, and what it holds. *)
ReaderOK ==
  /\ reader \in {"dial", "linked"} => status = "connecting"
  /\ reader = "failed" => status # "connected"
  /\ reader # "handle" => frame = NoFrame
  /\ noticed => status # "connected"

(* An entry belongs to the call that made it, for its user; one made after  *)
(* a connection ended has not been written yet.                             *)
EntriesOK ==
  /\ \A u \in Users : load[u] # 0 => /\ call[load[u]].at # "new"
                                     /\ call[load[u]].user = u
                                     /\ noticed => call[load[u]].at = "write"
  /\ DOMAIN reply \subseteq watch

(* As long as the connection works, the truth of every entry is on its way. *)
KnownOnItsWay ==
  status = "connected" /\ link =>
    \A u \in Users \ excused : load[u] # 0 => OnItsWay(u)

KnownInv == ConnTypes /\ ReaderOK /\ EntriesOK /\ KnownOnItsWay

(* Where the reader stands is kept. *)
LEMMA ReaderKept ==
    ASSUME ConnTypes, ReaderOK, [LongConnNext]_LongConnVars
    PROVE  ReaderOK'
<1> USE DEF ReaderOK
<1>1. ASSUME Run \/ Exit \/ LinkBreaks \/ LinkExpires  PROVE ReaderOK'
  BY <1>1 DEF Run, Exit, LinkBreaks, LinkExpires, PresenceVars
<1>2. ASSUME Loop  PROVE ReaderOK'
  BY <1>2, ShutTypes DEF Loop, PresenceVars, ConnTypes
<1>3. ASSUME DialFails \/ Dial \/ Announce  PROVE ReaderOK'
  BY <1>3 DEF DialFails, Dial, Announce, PresenceVars
<1>4. ASSUME Established  PROVE ReaderOK'
  BY <1>4 DEF Established
<1>5. ASSUME ReadFrame \/ OnConnClosed \/ HandlePush  PROVE ReaderOK'
  BY <1>5 DEF ReadFrame, OnConnClosed, HandlePush, PresenceVars
<1>6. ASSUME ReadFails  PROVE ReaderOK'
  BY <1>6, ShutTypes DEF ReadFails, PresenceVars, ConnTypes
<1>7. ASSUME HandleKick \/ HandleReply  PROVE ReaderOK'
  BY <1>7, ShutTypes DEF HandleKick, HandleReply, PresenceVars, ConnTypes
<1>8. ASSUME NetworkChanged \/ WriteFailed \/ WriterEnds  PROVE ReaderOK'
  BY <1>8, ShutTypes DEF NetworkChanged, WriteFailed, WriterEnds, PresenceVars, ConnTypes
<1>9. ASSUME SyncerTakes \/ TakeRequest \/ Write \/ WaitEnds \/ GatewayReplies
               \/ GatewayPushes \/ GatewayKicks
      PROVE  ReaderOK'
  BY <1>9 DEF SyncerTakes, TakeRequest, Write, WaitEnds, GatewayReplies,
     GatewayPushes, GatewayKicks, PresenceVars
<1>10. ASSUME NEW r \in Requests, Ask(r) \/ Enqueue(r) \/ ContextEnds(r)
       PROVE  ReaderOK'
  BY <1>10 DEF Ask, Enqueue, ContextEnds, ConnVars, PresenceVars
<1>11. ASSUME PresenceNext  PROVE ReaderOK'
  <2>1. CASE HandleTips
    BY <2>1 DEF HandleTips
  <2>2. ASSUME ~HandleTips  PROVE UNCHANGED <<reader, frame, status, noticed>>
    BY <1>11, <2>2 DEF PresenceNext, WriteSubInfo, CallEnds, AskStatus, Unsubscribe,
       Turn, GatewaySubscribes, GatewayAnswers, GatewayFails, ConnVars
  <2>3. QED  BY <2>1, <2>2
<1>12. ASSUME UNCHANGED LongConnVars  PROVE ReaderOK'
  BY <1>12 DEF LongConnVars, ConnVars, PresenceVars
<1>13. QED
  BY <1>1, <1>2, <1>3, <1>4, <1>5, <1>6, <1>7, <1>8, <1>9, <1>10, <1>11, <1>12
     DEF LongConnNext, ConnNext, ReaderSteps, Incidents, RequestNext, WriterSteps

(* Whose the entries are is kept. *)
LEMMA EntriesKept ==
    ASSUME ConnTypes, ReaderOK, EntriesOK, [LongConnNext]_LongConnVars
    PROVE  EntriesOK'
<1> DEFINE Entries == <<call, load, watch, reply, noticed>>
<1>1. ASSUME UNCHANGED Entries  PROVE EntriesOK'
  BY <1>1 DEF EntriesOK
<1>2. ASSUME RequestNext \/ UNCHANGED LongConnVars  PROVE UNCHANGED Entries
  BY <1>2 DEF RequestNext, WriterSteps, SyncerTakes, TakeRequest, Write, WriteFailed,
     WaitEnds, WriterEnds, HandleReply, GatewayReplies, GatewayPushes, GatewayKicks,
     Ask, Enqueue, ContextEnds, LongConnVars, PresenceVars
<1>3. ASSUME \/ Run \/ Loop \/ DialFails \/ Announce \/ ReadFrame \/ ReadFails
             \/ HandlePush \/ HandleKick \/ NetworkChanged \/ LinkBreaks
             \/ LinkExpires \/ Exit \/ HandleTips
      PROVE  UNCHANGED Entries
  BY <1>3 DEF Run, Loop, DialFails, Announce, ReadFrame, ReadFails, HandlePush,
     HandleKick, NetworkChanged, LinkBreaks, LinkExpires, Exit, HandleTips, PresenceVars
<1>4. ASSUME Dial  PROVE EntriesOK'
  BY <1>4, NoPresence DEF Dial, EntriesOK
<1>5. ASSUME Established  PROVE EntriesOK'
  BY <1>5 DEF Established, EntriesOK
<1>6. ASSUME OnConnClosed  PROVE EntriesOK'
  BY <1>6 DEF OnConnClosed, EntriesOK, ConnTypes, PresenceOK
<1>7. ASSUME GatewaySubscribes  PROVE EntriesOK'
  BY <1>7 DEF GatewaySubscribes, EntriesOK
<1>8. ASSUME GatewayAnswers \/ GatewayFails  PROVE EntriesOK'
  BY <1>8, NoPresence DEF GatewayAnswers, GatewayFails, EntriesOK
<1>9. ASSUME NEW u \in Users, Unsubscribe(u)  PROVE EntriesOK'
  BY <1>9 DEF Unsubscribe, EntriesOK, ConnTypes, PresenceOK
<1>10. ASSUME NEW u \in Users, Turn(u)  PROVE UNCHANGED Entries
  BY <1>10 DEF Turn
<1>11. ASSUME NEW k \in Calls, CallEnds(k)  PROVE EntriesOK'
  <2>1. PICK s \in {"done", "failed"} : call' = [call EXCEPT ![k].at = s]
    BY <1>11 DEF CallEnds
  <2>2. call[k].at = "wait" /\ UNCHANGED <<load, watch, reply, noticed>>
    BY <1>11 DEF CallEnds
  <2>3. QED  BY <2>1, <2>2 DEF EntriesOK, ConnTypes, PresenceOK, CallRecord
<1>12. ASSUME NEW k \in Calls, WriteSubInfo(k)  PROVE EntriesOK'
  <2>1. call[k].at = "write" /\ UNCHANGED <<watch, reply, noticed>>
    BY <1>12 DEF WriteSubInfo
  <2>2. CASE status = "connected" /\ call' = [call EXCEPT ![k].at = "wait"] /\ load' = load
    BY <2>1, <2>2 DEF EntriesOK, ReaderOK, ConnTypes, PresenceOK, CallRecord
  <2>3. CASE /\ call' = [call EXCEPT ![k].at = "failed"]
             /\ load' = [u \in Users |-> IF load[u] = k THEN 0 ELSE load[u]]
    BY <2>1, <2>3 DEF EntriesOK, ConnTypes, PresenceOK, CallRecord
  <2>4. QED  BY <1>12, <2>2, <2>3 DEF WriteSubInfo
<1>13. ASSUME NEW k \in Calls, NEW u \in Users, AskStatus(k, u)  PROVE EntriesOK'
  <2>1. call[k].at = "new" /\ UNCHANGED <<watch, reply, noticed>>
    BY <1>13 DEF AskStatus
  <2>2. \A v \in Users : load[v] # k
    BY <2>1, LongConnAssumption DEF EntriesOK
  <2>3. \A m \in Calls : m # k => call'[m] = call[m]
    BY <1>13 DEF AskStatus, ConnTypes, PresenceOK
  <2>4. CASE load[u] # 0
    <3>1. load' = load
      BY <1>13, <2>4 DEF AskStatus
    <3>2. QED  BY <2>1, <2>2, <2>3, <3>1 DEF EntriesOK, ConnTypes, PresenceOK
  <2>5. CASE load[u] = 0
    <3>1. /\ load' = [load EXCEPT ![u] = k]
          /\ call' = [call EXCEPT ![k] =
               [at |-> "write", user |-> u, off |-> unsub \ {u}, entry |-> k]]
      BY <1>13, <2>5 DEF AskStatus
    <3>2. call'[k].at = "write" /\ call'[k].user = u /\ load'[u] = k
      BY <3>1 DEF ConnTypes, PresenceOK
    <3>3. \A v \in Users : v # u => load'[v] = load[v]
      BY <3>1 DEF ConnTypes, PresenceOK
    <3>4. QED  BY <2>1, <2>2, <2>3, <3>2, <3>3 DEF EntriesOK, ConnTypes, PresenceOK
  <2>6. QED  BY <2>4, <2>5
<1>14. QED
  BY <1>1, <1>2, <1>3, <1>4, <1>5, <1>6, <1>7, <1>8, <1>9, <1>10, <1>11, <1>12, <1>13
     DEF LongConnNext, ConnNext, ReaderSteps, Incidents, PresenceNext

-----------------------------------------------------------------------------
(* Another frame on its way, which tells nothing of u. *)
LEMMA OtherFrame ==
    ASSUME ConnOK, NEW u, NEW f \in Frame, ~Tells(f, u),
           downlink' = Append(downlink, f), frame' = frame,
           load'[u] = load[u], entry'[load[u]] = entry[load[u]], real'[u] = real[u],
           TrueInTheEnd(u)
    PROVE  TrueInTheEnd(u)'
<1>1. PICK n \in Nat : n = Len(downlink)
  BY DEF ConnOK
<1>2. /\ DOMAIN downlink = 1..n /\ DOMAIN downlink' = 1 .. n + 1
      /\ downlink'[n + 1] = f /\ \A i \in 1..n : downlink'[i] = downlink[i]
  BY <1>1 DEF ConnOK
<1>3. CASE \E i \in DOMAIN downlink : Tells(downlink[i], u)
  <2>1. PICK i \in DOMAIN downlink :
              /\ Tells(downlink[i], u) /\ downlink[i].states[u] = real[u]
              /\ \A j \in DOMAIN downlink : Tells(downlink[j], u) => j =< i
    BY <1>3 DEF TrueInTheEnd
  <2>2. i \in DOMAIN downlink' /\ downlink'[i] = downlink[i]
    BY <1>2
  <2>3. \A j \in DOMAIN downlink' : Tells(downlink'[j], u) => j =< i
    BY <1>2, <2>1
  <2>4. QED  BY <2>1, <2>2, <2>3 DEF TrueInTheEnd, Tells
<1>4. CASE ~ \E i \in DOMAIN downlink : Tells(downlink[i], u)
  <2>1. ~ \E i \in DOMAIN downlink' : Tells(downlink'[i], u)
    BY <1>2, <1>4
  <2>2. Tells(frame, u)' <=> Tells(frame, u)
    BY DEF Tells
  <2>3. QED  BY <1>4, <2>1, <2>2 DEF TrueInTheEnd, Tells
<1>5. QED  BY <1>3, <1>4

(* A frame that tells the truth of u. *)
LEMMA TrueFrame ==
    ASSUME ConnOK, NEW u, NEW f \in Frame, Tells(f, u),
           downlink' = Append(downlink, f), f.states[u] = real'[u]
    PROVE  TrueInTheEnd(u)'
<1>1. PICK n \in Nat : n = Len(downlink)
  BY DEF ConnOK
<1>2. DOMAIN downlink' = 1 .. n + 1 /\ downlink'[n + 1] = f
  BY <1>1 DEF ConnOK
<1>3. n + 1 \in DOMAIN downlink' /\ \A j \in DOMAIN downlink' : j =< n + 1
  BY <1>2
<1>4. QED  BY <1>2, <1>3 DEF TrueInTheEnd, Tells

(* The next frame is read. *)
LEMMA FrameRead ==
    ASSUME ConnOK, NEW u, ~Tells(frame, u), downlink # <<>>,
           frame' = Head(downlink), downlink' = Tail(downlink),
           UNCHANGED <<load, entry, real>>, TrueInTheEnd(u)
    PROVE  TrueInTheEnd(u)'
<1>1. PICK n \in Nat : n = Len(downlink)
  BY DEF ConnOK
<1>2. /\ DOMAIN downlink = 1..n /\ n >= 1 /\ DOMAIN downlink' = 1 .. n - 1
      /\ frame' = downlink[1] /\ \A i \in 1 .. n - 1 : downlink'[i] = downlink[i + 1]
  BY <1>1 DEF ConnOK
<1>3. CASE \E i \in DOMAIN downlink : Tells(downlink[i], u)
  <2>1. PICK i \in DOMAIN downlink :
              /\ Tells(downlink[i], u) /\ downlink[i].states[u] = real[u]
              /\ \A j \in DOMAIN downlink : Tells(downlink[j], u) => j =< i
    BY <1>3 DEF TrueInTheEnd
  <2>2. CASE i = 1
    <3>1. ~ \E j \in DOMAIN downlink' : Tells(downlink'[j], u)
      <4>1. ASSUME NEW j \in 1 .. n - 1, Tells(downlink'[j], u)  PROVE FALSE
        <5>1. j + 1 \in DOMAIN downlink /\ Tells(downlink[j + 1], u)
          BY <1>2, <4>1
        <5>2. j + 1 =< 1 /\ j \in Nat /\ j >= 1
          BY <2>1, <2>2, <4>1, <5>1
        <5>3. QED  BY <5>2
      <4>2. QED  BY <1>2, <4>1
    <3>2. Tells(frame', u) /\ frame'.states[u] = real'[u]
      BY <1>2, <2>1, <2>2
    <3>3. QED  BY <3>1, <3>2 DEF TrueInTheEnd, Tells
  <2>3. CASE i # 1
    <3>1. PICK j \in 1 .. n - 1 : j = i - 1
      BY <1>2, <2>3
    <3>2. j \in DOMAIN downlink' /\ downlink'[j] = downlink[i] /\ i = j + 1
      BY <1>2, <3>1
    <3>3. ASSUME NEW m \in DOMAIN downlink', Tells(downlink'[m], u)  PROVE m =< j
      <4>1. m + 1 \in DOMAIN downlink /\ downlink'[m] = downlink[m + 1] /\ m \in Nat
        BY <1>2
      <4>2. m + 1 =< i
        BY <2>1, <3>3, <4>1
      <4>3. QED  BY <3>2, <4>1, <4>2
    <3>4. QED  BY <2>1, <3>2, <3>3 DEF TrueInTheEnd, Tells
  <2>4. QED  BY <2>2, <2>3
<1>4. CASE ~ \E i \in DOMAIN downlink : Tells(downlink[i], u)
  <2>1. ~ \E i \in DOMAIN downlink' : Tells(downlink'[i], u)
    <3>1. ASSUME NEW j \in 1 .. n - 1, Tells(downlink'[j], u)  PROVE FALSE
      <4>1. j + 1 \in DOMAIN downlink /\ Tells(downlink[j + 1], u)
        BY <1>2, <3>1
      <4>2. QED  BY <1>4, <4>1
    <3>2. QED  BY <1>2, <3>1
  <2>2. ~Tells(frame', u)
    BY <1>2, <1>4
  <2>3. ~Tells(frame, u)'
    BY <2>2 DEF Tells
  <2>4. QED  BY <1>4, <2>1, <2>3 DEF TrueInTheEnd
<1>5. QED  BY <1>3, <1>4

(* A frame is handled that tells nothing of u. *)
LEMMA FrameDone ==
    ASSUME NEW u, ~Tells(frame, u), frame' = NoFrame, downlink' = downlink,
           load'[u] = load[u], entry'[load[u]] = entry[load[u]], real'[u] = real[u],
           TrueInTheEnd(u)
    PROVE  TrueInTheEnd(u)'
<1>1. ~Tells(frame, u)'
  BY DEF Tells, NoFrame
<1>2. (\E i \in DOMAIN downlink : Tells(downlink[i], u))' <=>
        \E i \in DOMAIN downlink : Tells(downlink[i], u)
  BY DEF Tells
<1>3. QED  BY <1>1, <1>2 DEF TrueInTheEnd, Tells

(* Nothing moves that u depends on. *)
LEMMA SameInTheEnd ==
    ASSUME NEW u, UNCHANGED <<frame, downlink>>, load'[u] = load[u],
           entry'[load[u]] = entry[load[u]], real'[u] = real[u], TrueInTheEnd(u)
    PROVE  TrueInTheEnd(u)'
BY DEF TrueInTheEnd, Tells

(* What is on its way up when a message is added. *)
LEMMA UplinkGrows ==
    ASSUME ConnOK, NEW u, NEW m \in Requests \cup SubInfo, uplink' = Append(uplink, m)
    PROVE  Subscribing(u) \/ (m \notin Requests /\ u \in m.on) => Subscribing(u)'
<1>1. PICK S : S = Requests \cup SubInfo
  OBVIOUS
<1>2. uplink \in Seq(S) /\ m \in S
  BY <1>1 DEF ConnOK
<1>3. PICK n \in Nat : n = Len(uplink)
  BY <1>2
<1>4. /\ DOMAIN uplink = 1..n /\ DOMAIN uplink' = 1 .. n + 1
      /\ uplink'[n + 1] = m /\ \A i \in 1..n : uplink'[i] = uplink[i]
  BY <1>2, <1>3
<1>5. 1..n \subseteq 1 .. n + 1 /\ n + 1 \in 1 .. n + 1
  OBVIOUS
<1>6. ASSUME NEW i \in 1..n, uplink[i] \notin Requests, u \in uplink[i].on
      PROVE  Subscribing(u)'
  BY <1>4, <1>5, <1>6 DEF Subscribing
<1>7. ASSUME m \notin Requests, u \in m.on
      PROVE  Subscribing(u)'
  BY <1>4, <1>5, <1>7 DEF Subscribing
<1>8. QED  BY <1>4, <1>6, <1>7 DEF Subscribing

(* What is on its way up when the gateway takes the first message. *)
LEMMA UplinkShrinks ==
    ASSUME ConnOK, NEW u, uplink # <<>>, uplink' = Tail(uplink),
           Head(uplink) \in Requests \/ u \notin Head(uplink).on
    PROVE  Subscribing(u) => Subscribing(u)'
<1>1. PICK S : S = Requests \cup SubInfo
  OBVIOUS
<1>2. uplink \in Seq(S)
  BY <1>1 DEF ConnOK
<1>3. PICK n \in Nat : n = Len(uplink)
  BY <1>2
<1>4. /\ DOMAIN uplink = 1..n /\ DOMAIN uplink' = 1 .. n - 1 /\ Head(uplink) = uplink[1]
      /\ \A i \in 1 .. n - 1 : uplink'[i] = uplink[i + 1]
  BY <1>2, <1>3
<1>5. ASSUME NEW i \in 1..n, uplink[i] \notin Requests, u \in uplink[i].on
      PROVE  Subscribing(u)'
  <2>1. i # 1
    BY <1>4, <1>5
  <2>2. PICK j \in 1 .. n - 1 : i = j + 1
    <3>1. i - 1 \in 1 .. n - 1 /\ i = (i - 1) + 1
      BY <2>1
    <3>2. QED  BY <3>1
  <2>3. uplink'[j] = uplink[i]
    BY <1>4, <2>2
  <2>4. QED  BY <1>4, <1>5, <2>3 DEF Subscribing
<1>6. QED  BY <1>4, <1>5 DEF Subscribing

(* What is on its way stays so. *)
LEMMA StaysOnItsWay ==
    ASSUME NEW u, OnItsWay(u), load'[u] = load[u], u \in watch => u \in watch',
           call[load[u]].at = "write" => call'[load[u]].at = "write",
           Subscribing(u) => Subscribing(u)', u \in DOMAIN reply => u \in DOMAIN reply',
           TrueInTheEnd(u) => TrueInTheEnd(u)'
    PROVE  OnItsWay(u)'
BY DEF OnItsWay

(* A connection that counts and works did so before, but for the step that  *)
(* establishes it.                                                          *)
LEMMA AliveBefore ==
    ASSUME ConnTypes, ReaderOK, [LongConnNext]_LongConnVars, ~Established,
           status' = "connected", link'
    PROVE  /\ status = "connected" /\ link
           /\ ~NetworkChanged /\ ~ReadFails /\ ~HandleKick /\ ~OnConnClosed /\ ~Dial
           /\ ~DialFails /\ ~LinkBreaks /\ ~LinkExpires /\ ~GatewayKicks
           /\ ~WriteFailed /\ ~WriterEnds
           /\ HandleReply => frame.req \notin Logouts
           /\ GatewayReplies => Head(uplink) \notin Logouts
           /\ Loop => UNCHANGED uplink
<1>1. ~Shut
  BY ShutTypes DEF ConnTypes
<1>2. /\ ~NetworkChanged /\ ~ReadFails /\ ~HandleKick /\ ~WriteFailed /\ ~WriterEnds
      /\ HandleReply => frame.req \notin Logouts
  BY <1>1 DEF NetworkChanged, ReadFails, HandleKick, WriteFailed, WriterEnds, HandleReply
<1>3. /\ ~DialFails /\ ~LinkBreaks /\ ~LinkExpires /\ ~GatewayKicks /\ ~Dial /\ ~OnConnClosed
      /\ GatewayReplies => Head(uplink) \notin Logouts
  BY DEF DialFails, LinkBreaks, LinkExpires, GatewayKicks, Dial, OnConnClosed,
     GatewayReplies, ReaderOK
<1>4. Loop => UNCHANGED <<status, link, uplink>>
  BY <1>1 DEF Loop
<1>5. ASSUME Run \/ Announce \/ ReadFrame \/ HandlePush \/ Exit
      PROVE  UNCHANGED <<status, link>>
  BY <1>5 DEF Run, Announce, ReadFrame, HandlePush, Exit
<1>6. ASSUME RequestNext  PROVE UNCHANGED <<status, link>>
  BY <1>2, <1>3, <1>6 DEF RequestNext, WriterSteps, SyncerTakes, TakeRequest, Write,
     WaitEnds, HandleReply, GatewayReplies, GatewayPushes, Ask, Enqueue, ContextEnds,
     ConnVars
<1>7. ASSUME PresenceNext  PROVE UNCHANGED <<status, link>>
  BY <1>7 DEF PresenceNext, WriteSubInfo, CallEnds, AskStatus, Unsubscribe, Turn,
     HandleTips, GatewaySubscribes, GatewayAnswers, GatewayFails, ConnVars
<1>8. ASSUME UNCHANGED LongConnVars  PROVE UNCHANGED <<status, link>>
  BY <1>8 DEF LongConnVars, ConnVars
<1>9. UNCHANGED <<status, link>>
  BY <1>2, <1>3, <1>4, <1>5, <1>6, <1>7, <1>8 DEF LongConnNext, ConnNext, ReaderSteps,
     Incidents
<1>10. QED  BY <1>2, <1>3, <1>4, <1>9

(* The steps of the connection and of requests. *)
LEMMA ConnectionKnown ==
    ASSUME KnownInv, status = "connected", link, NEW u \in Users, OnItsWay(u),
           \/ /\ UNCHANGED <<frame, uplink, downlink, PresenceVars>>
           \/ Write \/ ReadFrame \/ HandlePush \/ HandleReply \/ GatewayPushes
           \/ GatewayReplies,
           HandleReply => frame.req \notin Logouts,
           GatewayReplies => Head(uplink) \notin Logouts
    PROVE  OnItsWay(u)'
<1> USE DEF KnownInv, ConnTypes
<1>1. UNCHANGED <<call, load, entry, watch, reply, real>>
  BY DEF Write, ReadFrame, HandlePush, HandleReply, GatewayPushes, GatewayReplies,
     PresenceVars
<1>2. CASE UNCHANGED <<frame, uplink, downlink>>
  BY <1>1, <1>2, StaysOnItsWay, SameInTheEnd DEF Subscribing
<1>3. CASE Write
  <2>1. UNCHANGED <<frame, downlink>> /\ cur \in Requests
    BY <1>3 DEF Write, RequestOK
  <2>2. uplink' = Append(uplink, cur)
    BY <1>3 DEF Write
  <2>3. Subscribing(u) => Subscribing(u)'
    BY <2>1, <2>2, UplinkGrows
  <2>4. QED  BY <1>1, <2>1, <2>3, StaysOnItsWay, SameInTheEnd
<1>4. CASE ReadFrame
  <2>1. /\ downlink # <<>> /\ frame' = Head(downlink) /\ downlink' = Tail(downlink)
        /\ uplink' = uplink /\ frame = NoFrame
    BY <1>4 DEF ReadFrame, ReaderOK
  <2>2. ~Tells(frame, u)
    BY <2>1 DEF Tells, NoFrame
  <2>3. TrueInTheEnd(u) => TrueInTheEnd(u)'
    BY <1>1, <2>1, <2>2, FrameRead
  <2>4. QED  BY <1>1, <2>1, <2>3, StaysOnItsWay DEF Subscribing
<1>5. CASE HandlePush \/ HandleReply
  <2>1. frame' = NoFrame /\ downlink' = downlink /\ uplink' = uplink /\ ~Tells(frame, u)
    BY <1>5 DEF HandlePush, HandleReply, Tells
  <2>2. TrueInTheEnd(u) => TrueInTheEnd(u)'
    BY <1>1, <2>1, FrameDone
  <2>3. QED  BY <1>1, <2>1, <2>2, StaysOnItsWay DEF Subscribing
<1>6. CASE GatewayPushes
  <2>1. PICK f \in Frame : f = [type |-> "push"]
    BY Frames
  <2>2. downlink' = Append(downlink, f) /\ frame' = frame /\ uplink' = uplink
    BY <1>6, <2>1 DEF GatewayPushes
  <2>3. ~Tells(f, u)
    BY <2>1 DEF Tells
  <2>4. TrueInTheEnd(u) => TrueInTheEnd(u)'
    BY <1>1, <2>2, <2>3, OtherFrame
  <2>5. QED  BY <1>1, <2>2, <2>4, StaysOnItsWay DEF Subscribing
<1>7. CASE GatewayReplies
  <2>1. /\ uplink # <<>> /\ Head(uplink) \in Requests /\ uplink' = Tail(uplink)
        /\ frame' = frame
    BY <1>7 DEF GatewayReplies
  <2>2. PICK f \in Frame : f = [type |-> "reply", req |-> Head(uplink)]
    BY <2>1, Frames
  <2>3. downlink' = Append(downlink, f) /\ ~Tells(f, u)
    BY <1>7, <2>2 DEF GatewayReplies, Tells
  <2>4. TrueInTheEnd(u) => TrueInTheEnd(u)'
    BY <1>1, <2>1, <2>3, OtherFrame
  <2>5. Subscribing(u) => Subscribing(u)'
    BY <2>1, UplinkShrinks
  <2>6. QED  BY <1>1, <2>4, <2>5, StaysOnItsWay
<1>8. QED  BY <1>2, <1>3, <1>4, <1>5, <1>6, <1>7

(* A call asks for a status. *)
LEMMA AskStatusKnown ==
    ASSUME KnownInv, NEW k \in Calls, NEW v \in Users, AskStatus(k, v),
           NEW u \in Users, load'[u] # 0, load[u] # 0 => OnItsWay(u)
    PROVE  OnItsWay(u)'
<1> USE DEF KnownInv, ConnTypes
<1>1. /\ call[k].at = "new"
      /\ UNCHANGED <<frame, uplink, downlink, entry, watch, reply, real>>
  BY DEF AskStatus, ConnVars
<1>2. CASE load[u] # 0
  <2>1. load'[u] = load[u]
    BY <1>2 DEF AskStatus, PresenceOK
  <2>2. load[u] # k
    BY <1>1, <1>2 DEF EntriesOK
  <2>3. call'[load[u]] = call[load[u]]
    BY <1>2, <2>2 DEF AskStatus, PresenceOK
  <2>4. TrueInTheEnd(u) => TrueInTheEnd(u)'
    BY <1>1, <2>1, SameInTheEnd
  <2>5. Subscribing(u) => Subscribing(u)'
    BY <1>1 DEF Subscribing
  <2>6. QED  BY <1>1, <1>2, <2>1, <2>3, <2>4, <2>5, StaysOnItsWay
<1>3. CASE load[u] = 0
  <2>1. u = v /\ load[v] = 0
    BY <1>3 DEF AskStatus, PresenceOK
  <2>2. /\ load' = [load EXCEPT ![v] = k]
        /\ call' = [call EXCEPT ![k] =
             [at |-> "write", user |-> v, off |-> unsub \ {v}, entry |-> k]]
    BY <2>1, LongConnAssumption DEF AskStatus
  <2>3. load'[u] = k /\ call'[k].at = "write"
    BY <2>1, <2>2 DEF PresenceOK
  <2>4. QED  BY <2>3 DEF OnItsWay
<1>4. QED  BY <1>2, <1>3

(* A call writes its message, or it ends. *)
LEMMA CallKnown ==
    ASSUME KnownInv, status = "connected", link, NEW k \in Calls,
           WriteSubInfo(k) \/ CallEnds(k), NEW u \in Users, load[u] # 0, OnItsWay(u)
    PROVE  OnItsWay(u)'
<1> USE DEF KnownInv, ConnTypes
<1>1. /\ load' = load
      /\ UNCHANGED <<frame, downlink, entry, watch, reply, real>>
  BY DEF WriteSubInfo, CallEnds, ConnVars
<1>2. TrueInTheEnd(u) => TrueInTheEnd(u)'
  BY <1>1, SameInTheEnd
<1>3. load[u] \in Calls
  BY DEF PresenceOK
<1>4. CASE CallEnds(k)
  <2>1. PICK s \in {"done", "failed"} : call' = [call EXCEPT ![k].at = s]
    BY <1>4 DEF CallEnds
  <2>2. call[k].at = "wait" /\ uplink' = uplink
    BY <1>4 DEF CallEnds, ConnVars
  <2>3. call[load[u]].at = "write" => call'[load[u]].at = "write"
    BY <1>3, <2>1, <2>2 DEF PresenceOK, CallRecord
  <2>4. QED  BY <1>1, <1>2, <2>2, <2>3, StaysOnItsWay DEF Subscribing
<1>5. CASE WriteSubInfo(k)
  <2>1. PICK m \in SubInfo : m = [on |-> {call[k].user}, off |-> call[k].off]
    BY <1>5 DEF WriteSubInfo, PresenceOK, CallRecord, SubInfo
  <2>2. /\ call[k].at = "write" /\ call' = [call EXCEPT ![k].at = "wait"]
        /\ uplink' = Append(uplink, m)
    BY <1>5, <2>1 DEF WriteSubInfo
  <2>3. m \notin Requests /\ m.on = {call[k].user}
    BY <2>1, RequestsAreNames DEF SubInfo
  <2>4. Subscribing(u) \/ u = call[k].user => Subscribing(u)'
    BY <2>2, <2>3, UplinkGrows
  <2>5. CASE load[u] = k
    <3>1. u = call[k].user
      BY <2>5 DEF EntriesOK
    <3>2. QED  BY <2>4, <3>1 DEF OnItsWay
  <2>6. CASE load[u] # k
    <3>1. call'[load[u]] = call[load[u]]
      BY <1>3, <2>2, <2>6 DEF PresenceOK
    <3>2. QED  BY <1>1, <1>2, <2>4, <3>1, StaysOnItsWay
  <2>7. QED  BY <2>5, <2>6
<1>6. QED  BY <1>4, <1>5

(* The subscription to another user ends. *)
LEMMA UnsubscribeKnown ==
    ASSUME KnownInv, NEW v \in Users, Unsubscribe(v), NEW u \in Users, load'[u] # 0,
           OnItsWay(u)
    PROVE  OnItsWay(u)'
<1> USE DEF KnownInv, ConnTypes
<1>1. /\ load[v] # 0 /\ load' = [load EXCEPT ![v] = 0] /\ entry' = Finished({load[v]})
      /\ UNCHANGED <<frame, uplink, downlink, call, watch, reply, real>>
  BY DEF Unsubscribe, ConnVars
<1>2. u # v /\ load'[u] = load[u]
  BY <1>1 DEF PresenceOK
<1>3. load[u] # load[v] /\ load[u] \in Calls
  BY <1>1, <1>2 DEF EntriesOK, PresenceOK
<1>4. entry'[load[u]] = entry[load[u]]
  BY <1>1, <1>3 DEF Finished
<1>5. TrueInTheEnd(u) => TrueInTheEnd(u)'
  BY <1>1, <1>2, <1>4, SameInTheEnd
<1>6. QED  BY <1>1, <1>2, <1>5, StaysOnItsWay DEF Subscribing

(* The client reads a status. *)
LEMMA HandleTipsKnown ==
    ASSUME KnownInv, HandleTips, NEW u \in Users, load[u] # 0, OnItsWay(u)
    PROVE  OnItsWay(u)'
<1> USE DEF KnownInv, ConnTypes
<1>1. /\ frame.type = "tips" /\ frame' = NoFrame
      /\ entry' = [k \in Calls |->
           IF \E v \in DOMAIN frame.states : load[v] = k
           THEN [state |-> "ok",
                 online |-> frame.states[CHOOSE v \in DOMAIN frame.states : load[v] = k]]
           ELSE entry[k]]
      /\ UNCHANGED <<uplink, downlink, call, load, watch, reply, real>>
  BY DEF HandleTips
<1>2. frame \in Frame /\ DOMAIN frame.states \subseteq Users
  BY <1>1, Frames, NoPresence DEF ConnOK, NoFrame
<1>3. load[u] \in Calls /\ \A v \in DOMAIN frame.states : load[v] = load[u] => v = u
  BY <1>2 DEF EntriesOK, PresenceOK
<1>4. ASSUME TrueInTheEnd(u)  PROVE TrueInTheEnd(u)'
  <2>1. CASE ~Tells(frame, u)
    <3>1. entry'[load[u]] = entry[load[u]]
      BY <1>1, <1>3, <2>1 DEF Tells
    <3>2. QED  BY <1>1, <1>4, <2>1, <3>1, FrameDone
  <2>2. CASE Tells(frame, u)
    <3>1. (CHOOSE v \in DOMAIN frame.states : load[v] = load[u]) = u
      BY <1>3, <2>2 DEF Tells
    <3>2. entry'[load[u]] = [state |-> "ok", online |-> frame.states[u]]
      BY <1>1, <1>3, <2>2, <3>1 DEF Tells
    <3>3. CASE \E i \in DOMAIN downlink : Tells(downlink[i], u)
      BY <1>1, <1>4, <3>3 DEF TrueInTheEnd, Tells
    <3>4. CASE ~ \E i \in DOMAIN downlink : Tells(downlink[i], u)
      <4>1. frame.states[u] = real[u]
        BY <1>4, <2>2, <3>4 DEF TrueInTheEnd
      <4>2. entry'[load'[u]] = [state |-> "ok", online |-> real'[u]]
        BY <1>1, <3>2, <4>1
      <4>3. ~Tells(frame, u)'
        BY <1>1 DEF Tells, NoFrame
      <4>4. ~ (\E i \in DOMAIN downlink : Tells(downlink[i], u))'
        BY <1>1, <3>4 DEF Tells
      <4>5. QED  BY <4>2, <4>3, <4>4 DEF TrueInTheEnd
    <3>5. QED  BY <3>3, <3>4
  <2>3. QED  BY <2>1, <2>2
<1>5. QED  BY <1>1, <1>4, StaysOnItsWay DEF Subscribing

(* The gateway subscribes. *)
LEMMA GatewaySubscribesKnown ==
    ASSUME KnownInv, GatewaySubscribes, NEW u \in Users, u \notin excused', load[u] # 0,
           u \notin excused => OnItsWay(u)
    PROVE  OnItsWay(u)'
<1> USE DEF KnownInv, ConnTypes
<1>1. PICK sub \in SubInfo : sub = Head(uplink)
  BY DEF GatewaySubscribes, ConnOK
<1>2. /\ uplink # <<>> /\ uplink' = Tail(uplink) /\ reply = <<>>
      /\ watch' = (watch \ sub.off) \cup sub.on
      /\ reply' = [v \in sub.on |-> real[v]]
      /\ excused' = (excused \ sub.on) \cup {v \in sub.off \ sub.on : load[v] # 0}
      /\ UNCHANGED <<frame, downlink, call, load, entry, real>>
  BY <1>1 DEF GatewaySubscribes
<1>3. CASE u \in sub.on
  <2>1. u \in DOMAIN reply'
    BY <1>2, <1>3
  <2>2. QED  BY <2>1 DEF OnItsWay
<1>4. CASE u \notin sub.on
  <2>1. u \notin excused /\ u \notin sub.off
    BY <1>2, <1>4
  <2>2. u \in watch => u \in watch'
    BY <1>2, <2>1
  <2>3. u \notin DOMAIN reply
    BY <1>2
  <2>4. Subscribing(u) => Subscribing(u)'
    BY <1>1, <1>2, <1>4, UplinkShrinks
  <2>5. TrueInTheEnd(u) => TrueInTheEnd(u)'
    BY <1>2, SameInTheEnd
  <2>6. QED  BY <1>2, <2>1, <2>2, <2>3, <2>4, <2>5, StaysOnItsWay
<1>5. QED  BY <1>3, <1>4

(* The gateway answers, or cannot. *)
LEMMA GatewayAnswersKnown ==
    ASSUME KnownInv, GatewayAnswers \/ GatewayFails, NEW u \in Users, u \notin excused',
           OnItsWay(u)
    PROVE  OnItsWay(u)'
<1> USE DEF KnownInv, ConnTypes
<1>1. UNCHANGED <<frame, uplink, call, load, entry, watch, real>>
  BY DEF GatewayAnswers, GatewayFails
<1>2. Subscribing(u) => Subscribing(u)'
  BY <1>1 DEF Subscribing
<1>3. CASE GatewayFails
  <2>1. u \notin DOMAIN reply /\ downlink' = downlink
    BY <1>3 DEF GatewayFails
  <2>2. QED  BY <1>1, <1>2, <2>1, StaysOnItsWay, SameInTheEnd
<1>4. CASE GatewayAnswers
  <2>1. PICK f \in Frame : f = [type |-> "tips", states |-> reply]
    BY Frames DEF PresenceOK
  <2>2. downlink' = Append(downlink, f)
        /\ excused' = excused \cup {v \in DOMAIN reply : reply[v] # real[v]}
    BY <1>4, <2>1 DEF GatewayAnswers
  <2>3. CASE u \in DOMAIN reply
    <3>1. reply[u] = real'[u]
      BY <1>1, <2>2, <2>3
    <3>2. Tells(f, u) /\ f.states[u] = real'[u]
      BY <2>1, <2>3, <3>1 DEF Tells
    <3>3. TrueInTheEnd(u)'
      BY <2>2, <3>2, TrueFrame
    <3>4. u \in watch'
      BY <1>1, <2>3 DEF EntriesOK
    <3>5. QED  BY <3>3, <3>4 DEF OnItsWay
  <2>4. CASE u \notin DOMAIN reply
    <3>1. ~Tells(f, u)
      BY <2>1, <2>4 DEF Tells
    <3>2. TrueInTheEnd(u) => TrueInTheEnd(u)'
      BY <1>1, <2>2, <3>1, OtherFrame
    <3>3. QED  BY <1>1, <1>2, <2>4, <3>2, StaysOnItsWay
  <2>5. QED  BY <2>3, <2>4
<1>5. QED  BY <1>3, <1>4

(* The status of a user changes. *)
LEMMA TurnKnown ==
    ASSUME KnownInv, link, NEW v \in Users, Turn(v), NEW u \in Users, u \notin excused',
           u \notin excused => OnItsWay(u)
    PROVE  OnItsWay(u)'
<1> USE DEF KnownInv, ConnTypes
<1>1. /\ real' = [real EXCEPT ![v] = ~real[v]]
      /\ UNCHANGED <<frame, uplink, call, load, entry, watch, reply>>
  BY DEF Turn
<1>2. Subscribing(u) => Subscribing(u)'
  BY <1>1 DEF Subscribing
<1>3. PICK f \in Frame : f = [type |-> "tips", states |-> [w \in {v} |-> ~real[v]]]
  <2>1. [w \in {v} |-> ~real[v]] \in [{v} -> BOOLEAN]
    OBVIOUS
  <2>2. [w \in {v} |-> ~real[v]] \in Presence
    BY <2>1, NoPresence
  <2>3. QED  BY <2>2, Frames
<1>4. DOMAIN f.states = {v} /\ f.states[v] = ~real[v] /\ f.type = "tips"
  BY <1>3
<1>5. CASE u = v
  <2>1. CASE v \in watch
    <3>1. downlink' = Append(downlink, f)
      BY <1>3, <2>1 DEF Turn
    <3>2. real'[u] = ~real[v]
      BY <1>1, <1>5 DEF PresenceOK
    <3>3. TrueInTheEnd(u)'
      BY <1>4, <1>5, <3>1, <3>2, TrueFrame DEF Tells
    <3>4. QED  BY <1>1, <1>5, <2>1, <3>3 DEF OnItsWay
  <2>2. CASE v \notin watch
    <3>1. excused' = excused
      BY <2>2 DEF Turn
    <3>2. call[load[u]].at = "write" \/ Subscribing(u) \/ u \in DOMAIN reply
      BY <1>5, <2>2, <3>1 DEF OnItsWay
    <3>3. QED  BY <1>1, <1>2, <3>2 DEF OnItsWay
  <2>3. QED  BY <2>1, <2>2
<1>6. CASE u # v
  <2>1. u \notin excused
    BY <1>6 DEF Turn
  <2>2. real'[u] = real[u]
    BY <1>1, <1>6 DEF PresenceOK
  <2>3. ~Tells(f, u)
    BY <1>4, <1>6 DEF Tells
  <2>4. downlink' = downlink \/ downlink' = Append(downlink, f)
    BY <1>3 DEF Turn
  <2>5. TrueInTheEnd(u) => TrueInTheEnd(u)'
    BY <1>1, <2>2, <2>3, <2>4, OtherFrame, SameInTheEnd
  <2>6. QED  BY <1>1, <1>2, <2>1, <2>5, StaysOnItsWay
<1>7. QED  BY <1>5, <1>6

(* Every step keeps what is known of the online status. *)
LEMMA KnownKept ==
    ASSUME KnownInv, [LongConnNext]_LongConnVars
    PROVE  KnownInv'
<1>1. ConnTypes' /\ ReaderOK' /\ EntriesOK'
  BY ConnTypesKept, ReaderKept, EntriesKept DEF KnownInv
<1>2. SUFFICES ASSUME status' = "connected", link',
                      NEW u \in Users, u \notin excused', load'[u] # 0
               PROVE  OnItsWay(u)'
  BY <1>1 DEF KnownInv, KnownOnItsWay
<1>3. CASE Established
  <2>1. noticed /\ load' = load /\ call' = call
    BY <1>2, <1>3 DEF Established
  <2>2. call[load[u]].at = "write"
    BY <1>2, <2>1 DEF KnownInv, EntriesOK
  <2>3. QED  BY <2>1, <2>2 DEF OnItsWay
<1>4. CASE ~Established
  <2>1. /\ status = "connected" /\ link
        /\ ~NetworkChanged /\ ~ReadFails /\ ~HandleKick /\ ~OnConnClosed /\ ~Dial
        /\ ~DialFails /\ ~LinkBreaks /\ ~LinkExpires /\ ~GatewayKicks
        /\ ~WriteFailed /\ ~WriterEnds
        /\ HandleReply => frame.req \notin Logouts
        /\ GatewayReplies => Head(uplink) \notin Logouts
        /\ Loop => UNCHANGED uplink
    BY <1>2, <1>4, AliveBefore DEF KnownInv
  <2>2. u \notin excused /\ load[u] # 0 => OnItsWay(u)
    BY <2>1 DEF KnownInv, KnownOnItsWay
  <2>3. ASSUME \/ UNCHANGED <<frame, uplink, downlink, PresenceVars>>
               \/ Write \/ ReadFrame \/ HandlePush \/ HandleReply \/ GatewayPushes
               \/ GatewayReplies
        PROVE  OnItsWay(u)'
    <3>1. load' = load /\ excused' = excused
      BY <2>3 DEF Write, ReadFrame, HandlePush, HandleReply, GatewayPushes,
         GatewayReplies, PresenceVars
    <3>2. OnItsWay(u)
      BY <1>2, <2>2, <3>1
    <3>3. QED  BY <2>1, <2>3, <3>2, ConnectionKnown
  <2>4. ASSUME \/ Run \/ Loop \/ Announce \/ Exit \/ SyncerTakes \/ TakeRequest \/ WaitEnds
               \/ \E r \in Requests : Ask(r) \/ Enqueue(r) \/ ContextEnds(r)
               \/ UNCHANGED LongConnVars
        PROVE  UNCHANGED <<frame, uplink, downlink, PresenceVars>>
    BY <2>1, <2>4 DEF Run, Loop, Announce, Exit, SyncerTakes, TakeRequest, WaitEnds, Ask,
       Enqueue, ContextEnds, LongConnVars, ConnVars
  <2>5. ASSUME NEW k \in Calls, NEW v \in Users, AskStatus(k, v)
        PROVE  OnItsWay(u)'
    <3>1. excused' = excused
      BY <2>5 DEF AskStatus
    <3>2. QED  BY <1>2, <2>2, <2>5, <3>1, AskStatusKnown
  <2>6. ASSUME NEW k \in Calls, WriteSubInfo(k) \/ CallEnds(k)
        PROVE  OnItsWay(u)'
    <3>1. load' = load /\ excused' = excused
      BY <2>1, <2>6 DEF WriteSubInfo, CallEnds
    <3>2. QED  BY <1>2, <2>1, <2>2, <2>6, <3>1, CallKnown
  <2>7. ASSUME NEW v \in Users, Unsubscribe(v)
        PROVE  OnItsWay(u)'
    <3>1. excused' = excused /\ load[u] # 0
      BY <1>2, <2>7 DEF Unsubscribe, KnownInv, ConnTypes, PresenceOK
    <3>2. QED  BY <1>2, <2>2, <2>7, <3>1, UnsubscribeKnown
  <2>8. CASE HandleTips
    <3>1. excused' = excused /\ load' = load
      BY <2>8 DEF HandleTips
    <3>2. QED  BY <1>2, <2>2, <2>8, <3>1, HandleTipsKnown
  <2>9. CASE GatewaySubscribes
    <3>1. load' = load
      BY <2>9 DEF GatewaySubscribes
    <3>2. QED  BY <1>2, <2>2, <2>9, <3>1, GatewaySubscribesKnown
  <2>10. CASE GatewayAnswers \/ GatewayFails
    <3>1. load' = load /\ u \notin excused
      BY <1>2, <2>10 DEF GatewayAnswers, GatewayFails
    <3>2. QED  BY <1>2, <2>2, <2>10, <3>1, GatewayAnswersKnown
  <2>11. ASSUME NEW v \in Users, Turn(v)
         PROVE  OnItsWay(u)'
    <3>1. load' = load
      BY <2>11 DEF Turn
    <3>2. QED  BY <1>2, <2>1, <2>2, <2>11, <3>1, TurnKnown
  <2>12. QED
    BY <1>4, <2>1, <2>3, <2>4, <2>5, <2>6, <2>7, <2>8, <2>9, <2>10, <2>11
       DEF LongConnNext, ConnNext, ReaderSteps, Incidents, RequestNext, WriterSteps,
           PresenceNext
<1>5. QED  BY <1>3, <1>4

(* Nobody has asked yet. *)
LEMMA KnownAtFirst == LongConnInit => KnownInv
<1> SUFFICES ASSUME LongConnInit  PROVE KnownInv
  OBVIOUS
<1>1. ConnTypes
  BY ConnTypesAtFirst
<1>2. /\ status = "none" /\ reader = "off" /\ frame = NoFrame /\ reply = <<>>
      /\ \A u \in Users : load[u] = 0
  BY DEF LongConnInit, ConnInit, PresenceInit
<1>3. DOMAIN reply = {}
  BY <1>2
<1>4. QED  BY <1>1, <1>2, <1>3 DEF KnownInv, ReaderOK, EntriesOK, KnownOnItsWay

(* Whenever nothing is under way, an entry from which SubscribeUsersStatus  *)
(* and GetUserStatus would answer has the status that the gateway knows     *)
(* (subscription.go of the client and of the gateway), but for the users    *)
(* named in excused.                                                        *)
THEOREM KnownStatusIsTrue == LongConnSpec => []KnownIsTrue
<1>1. KnownInv => KnownIsTrue
  <2>1. SUFFICES ASSUME KnownInv, Settled, NEW u \in Users \ excused, load[u] # 0
                 PROVE  entry[load[u]] = [state |-> "ok", online |-> real[u]]
    BY DEF KnownIsTrue
  <2>2. load[u] \in Calls
    BY <2>1 DEF KnownInv, ConnTypes, PresenceOK
  <2>3. OnItsWay(u) /\ call[load[u]].at # "write" /\ uplink = <<>> /\ reply = <<>>
    BY <2>1, <2>2 DEF Settled, KnownInv, KnownOnItsWay
  <2>4. ~Subscribing(u) /\ u \notin DOMAIN reply
    BY <2>3 DEF Subscribing
  <2>5. TrueInTheEnd(u)
    BY <2>3, <2>4 DEF OnItsWay
  <2>6. downlink = <<>> /\ frame = NoFrame
    BY <2>1 DEF Settled, KnownInv, ReaderOK
  <2>7. ~Tells(frame, u) /\ DOMAIN downlink = {}
    BY <2>6 DEF Tells, NoFrame
  <2>8. QED  BY <2>5, <2>7 DEF TrueInTheEnd
<1>2. QED  BY <1>1, KnownAtFirst, KnownKept, PTL DEF LongConnSpec

-----------------------------------------------------------------------------
(***************************************************************************)
(* Connections and callers.  The reader, the writer, the application and   *)
(* the gateway close the connection at any moment, and close does nothing  *)
(* unless it counts as connected; still no connection is left open when    *)
(* the next one is made or when the reader has ended (LinkInv).  And a     *)
(* caller that waits is that of the request the writer has taken, or is in *)
(* the channel before it (CallersInv).                                     *)
(***************************************************************************)

(* An open connection is known as connected, but for the moment after Dial. *)
LinkInv ==
  /\ link => status = "connected" \/ reader = "linked"
  /\ reader \in {"off", "dial", "linked", "failed", "ended"} => status # "connected"

(* What close leaves open was opened a moment ago. *)
LEMMA ShutLinks ==
    ASSUME ConnOK, LinkInv, Shut
    PROVE  status' # "connected" /\ (link' => reader = "linked")
<1>1. CASE status = "connected"
  BY <1>1, ShutTypes
<1>2. CASE status # "connected"
  BY <1>2, ShutTypes DEF LinkInv
<1>3. QED  BY <1>1, <1>2

(* Every step keeps this. *)
LEMMA LinkKept ==
    ASSUME ConnTypes, LinkInv, [LongConnNext]_LongConnVars
    PROVE  LinkInv'
<1> USE DEF LinkInv
<1>0. ConnOK
  BY DEF ConnTypes
<1>1. CASE Loop
  <2>1. CASE loggedOut
    BY <1>0, <1>1, <2>1, ShutLinks DEF Loop
  <2>2. CASE ~loggedOut
    BY <1>1, <2>2 DEF Loop
  <2>3. QED  BY <2>1, <2>2
<1>2. CASE ReadFails \/ HandleKick
  BY <1>0, <1>2, ShutLinks DEF ReadFails, HandleKick
<1>3. CASE HandleReply
  <2>1. CASE frame.req \in Logouts
    BY <1>0, <1>3, <2>1, ShutLinks DEF HandleReply
  <2>2. CASE frame.req \notin Logouts
    BY <1>3, <2>2 DEF HandleReply
  <2>3. QED  BY <2>1, <2>2
<1>4. CASE NetworkChanged \/ WriteFailed \/ WriterEnds
  BY <1>0, <1>4, ShutLinks DEF NetworkChanged, WriteFailed, WriterEnds
<1>5. CASE DialFails \/ Dial \/ Established \/ Announce \/ ReadFrame
             \/ OnConnClosed \/ HandlePush \/ HandleTips \/ Run
  BY <1>5 DEF DialFails, Dial, Established, Announce, ReadFrame, OnConnClosed,
     HandlePush, HandleTips, Run
<1>6. CASE LinkBreaks \/ LinkExpires \/ GatewayKicks \/ GatewayReplies
  BY <1>6 DEF LinkBreaks, LinkExpires, GatewayKicks, GatewayReplies
<1>7. CASE UNCHANGED <<status, link, reader>>
  BY <1>7
<1>8. CASE Exit \/ SyncerTakes \/ TakeRequest \/ Write \/ WaitEnds \/ GatewayPushes
             \/ GatewaySubscribes \/ GatewayAnswers \/ GatewayFails
             \/ UNCHANGED LongConnVars
  BY <1>7, <1>8 DEF Exit, SyncerTakes, TakeRequest, Write, WaitEnds, GatewayPushes,
     GatewaySubscribes, GatewayAnswers, GatewayFails, LongConnVars, ConnVars
<1>9. CASE \E r \in Requests : Ask(r) \/ Enqueue(r) \/ ContextEnds(r)
  BY <1>7, <1>9 DEF Ask, Enqueue, ContextEnds, ConnVars
<1>10. CASE \/ \E k \in Calls : \/ WriteSubInfo(k) \/ CallEnds(k)
                                \/ \E u \in Users : AskStatus(k, u)
            \/ \E u \in Users : Unsubscribe(u) \/ Turn(u)
  BY <1>7, <1>10, ZenonT(60) DEF WriteSubInfo, CallEnds, AskStatus, Unsubscribe, Turn, ConnVars
<1>11. QED
  BY <1>1, <1>2, <1>3, <1>4, <1>5, <1>6, <1>8, <1>9, <1>10
  DEF LongConnNext, ConnNext, RequestNext, PresenceNext, ReaderSteps, Incidents,
      WriterSteps

(* A new connection is made only when the old one is closed, and the reader *)
(* leaves none open when it ends (reConn, close, long_conn_mgr.go), although *)
(* close does nothing to a connection that has not been announced yet.      *)
OneConnection == reader \in {"dial", "ended"} => ~link

THEOREM NoConnectionIsLeft == LongConnSpec => []OneConnection
<1>1. LongConnInit => LinkInv
  BY DEF LongConnInit, ConnInit, LinkInv
<1>2. LinkInv => OneConnection
  BY DEF LinkInv, OneConnection
<1>3. ConnTypes /\ LinkInv /\ [LongConnNext]_LongConnVars => LinkInv'
  BY LinkKept
<1>4. QED
  BY <1>1, <1>2, <1>3, ConnTypesAtFirst, ConnTypesKept, PTL DEF LongConnSpec

-----------------------------------------------------------------------------
(* The request is in the channel send. *)
InLine(r) == \E i \in DOMAIN send : send[i] = r

(* A caller that waits has its request in the channel or with the writer.   *)
Served == \A r \in Requests : request[r] = "queued" => r = cur \/ InLine(r)

(* Before it is sent a request is in neither, and it is never in both.      *)
SentOnce ==
  /\ \A r \in Requests : request[r] \in {"new", "sending"} => r # cur /\ ~InLine(r)
  /\ \A i, j \in DOMAIN send : send[i] = send[j] => i = j
  /\ ~InLine(cur)

(* The channel is closed after the logout only. *)
ClosedLate ==
  /\ ~sendOpen => loggedOut
  /\ \A r \in Requests : request[r] = "panic" => ~sendOpen

CallersInv == Served /\ SentOnce /\ ClosedLate

(* Steps that touch neither the requests nor the channel. *)
LEMMA CallersStay ==
    ASSUME CallersInv, UNCHANGED <<request, send, sendOpen, cur>>,
           loggedOut => loggedOut'
    PROVE  CallersInv'
BY DEF CallersInv, Served, SentOnce, ClosedLate, InLine

(* A call begins. *)
LEMMA CallersAsk ==
    ASSUME RequestOK, CallersInv, NEW r \in Requests, request[r] = "new",
           request' = [request EXCEPT ![r] = "sending"],
           UNCHANGED <<send, sendOpen, cur, loggedOut>>
    PROVE  CallersInv'
BY DEF RequestOK, CallersInv, Served, SentOnce, ClosedLate, InLine

(* The request goes into the channel, or the caller panics. *)
LEMMA CallersEnqueue ==
    ASSUME RequestOK, CallersInv, NEW r \in Requests, Enqueue(r)
    PROVE  CallersInv'
<1>1. /\ request[r] = "sending" /\ UNCHANGED <<sendOpen, cur, loggedOut>>
      /\ request \in [Requests -> {"new", "sending", "queued"} \cup Ended]
      /\ send \in Seq(Requests)
  BY DEF Enqueue, RequestOK, ConnVars
<1>2. CASE sendOpen
  <2>1. /\ send' = Append(send, r)
        /\ request' = [request EXCEPT ![r] = "queued"]
    BY <1>2 DEF Enqueue
  <2>2. /\ DOMAIN send' = DOMAIN send \cup {Len(send) + 1}
        /\ send'[Len(send) + 1] = r /\ \A i \in DOMAIN send : send'[i] = send[i]
        /\ Len(send) + 1 \notin DOMAIN send
    BY <1>1, <2>1
  <2>3. \A q : InLine(q)' <=> InLine(q) \/ q = r
    BY <2>2 DEF InLine
  <2>4. r # cur /\ ~InLine(r)
    BY <1>1 DEF CallersInv, SentOnce
  <2>5. Served' /\ ClosedLate'
    BY <1>1, <2>1, <2>3 DEF CallersInv, Served, ClosedLate
  <2>6. \A i, j \in DOMAIN send' : send'[i] = send'[j] => i = j
    BY <2>2, <2>4 DEF CallersInv, SentOnce, InLine
  <2>7. \A q \in Requests : request'[q] \in {"new", "sending"} => q # cur' /\ ~InLine(q)'
    BY <1>1, <2>1, <2>3 DEF CallersInv, SentOnce
  <2>8. ~InLine(cur)'
    BY <1>1, <2>3, <2>4 DEF CallersInv, SentOnce
  <2>9. QED  BY <2>5, <2>6, <2>7, <2>8 DEF CallersInv, SentOnce
<1>3. CASE ~sendOpen
  <2>1. request' = [request EXCEPT ![r] = "panic"] /\ UNCHANGED send
    BY <1>3 DEF Enqueue
  <2>2. \A q : InLine(q)' <=> InLine(q)
    BY <2>1 DEF InLine
  <2>3. QED
    BY <1>1, <1>3, <2>1, <2>2 DEF CallersInv, Served, SentOnce, ClosedLate
<1>4. QED  BY <1>2, <1>3

(* A caller that waited is told, or gives up. *)
LEMMA CallersTold ==
    ASSUME RequestOK, CallersInv, NEW r \in Requests,
           NEW outcome \in {"answered", "failed"}, Told(r, outcome),
           UNCHANGED <<sendOpen, loggedOut>>
    PROVE  /\ ClosedLate' /\ request'[r] # "queued"
           /\ \A q \in Requests :
                request'[q] = request[q] \/ (q = r /\ request'[q] = outcome)
<1>1. \A q \in Requests :
        request'[q] = IF q = r /\ request[q] = "queued" THEN outcome ELSE request[q]
  BY DEF RequestOK, Told
<1>2. ClosedLate'
  BY <1>1 DEF CallersInv, ClosedLate
<1>3. QED  BY <1>1, <1>2

(* The writer is done with its request and has told the caller. *)
LEMMA CallersFinish ==
    ASSUME RequestOK, CallersInv, NEW outcome \in {"answered", "failed"},
           cur \in Requests, Finish(outcome), loggedOut' = loggedOut
    PROVE  CallersInv'
<1>1. cur' = None /\ UNCHANGED <<send, sendOpen>> /\ Told(cur, outcome)
  BY DEF Finish
<1>2. /\ ClosedLate'
      /\ request'[cur] # "queued"
      /\ \A q \in Requests :
           request'[q] = request[q] \/ (q = cur /\ request'[q] = outcome)
  BY <1>1, CallersTold
<1>3. \A q : InLine(q)' <=> InLine(q)
  BY <1>1 DEF InLine
<1>4. ~InLine(None) /\ None \notin Requests
  BY RequestsAreNames DEF RequestOK, InLine
<1>5. Served'
  BY <1>2, <1>3 DEF CallersInv, Served
<1>6. SentOnce'
  BY <1>1, <1>2, <1>3, <1>4 DEF CallersInv, SentOnce
<1>7. QED  BY <1>2, <1>5, <1>6 DEF CallersInv

(* The writer takes the first request of the channel. *)
LEMMA CallersTake ==
    ASSUME RequestOK, CallersInv, TakeRequest
    PROVE  CallersInv'
<1> DEFINE r == Head(send)
<1>1. /\ send # <<>> /\ send' = Tail(send) /\ send \in Seq(Requests)
      /\ cur = None /\ UNCHANGED <<sendOpen, loggedOut>>
  BY DEF TakeRequest, RequestOK
<1>2. /\ r \in Requests /\ 1 \in DOMAIN send /\ send[1] = r
      /\ \A i \in DOMAIN send' : i + 1 \in DOMAIN send /\ send'[i] = send[i + 1]
      /\ \A i \in DOMAIN send : i = 1 \/ (i - 1 \in DOMAIN send' /\ send'[i - 1] = send[i])
      /\ DOMAIN send' \subseteq Nat \ {0}
  BY <1>1
<1>3. \/ Told(r, "failed") /\ cur' = cur
      \/ cur' = r /\ request' = request
  BY DEF TakeRequest
<1> HIDE DEF r
<1>4. \A i, j \in DOMAIN send : send[i] = send[j] => i = j
  BY DEF CallersInv, SentOnce
<1>5. \A q : InLine(q)' <=> InLine(q) /\ q # r
  <2> SUFFICES ASSUME NEW q PROVE InLine(q)' <=> InLine(q) /\ q # r
    OBVIOUS
  <2>1. ASSUME NEW i \in DOMAIN send', q = send'[i]  PROVE q # r /\ InLine(q)
    <3>1. i + 1 \in DOMAIN send /\ q = send[i + 1] /\ i + 1 # 1
      BY <1>2, <2>1
    <3>2. QED  BY <1>2, <1>4, <3>1 DEF InLine
  <2>2. ASSUME NEW i \in DOMAIN send, q = send[i], q # r  PROVE InLine(q)'
    <3>1. i - 1 \in DOMAIN send' /\ send'[i - 1] = q
      BY <1>2, <2>2
    <3>2. QED  BY <3>1 DEF InLine
  <2>3. QED  BY <2>1, <2>2 DEF InLine
<1>6. \A i, j \in DOMAIN send' : send'[i] = send'[j] => i = j
  <2>1. SUFFICES ASSUME NEW i \in DOMAIN send', NEW j \in DOMAIN send',
                        send'[i] = send'[j]
                 PROVE  i = j
    OBVIOUS
  <2>2. i + 1 = j + 1
    BY <1>2, <1>4, <2>1
  <2>3. QED  BY <1>2, <2>2
<1>7. ~InLine(None) /\ InLine(r) /\ None \notin Requests
  BY <1>1, <1>2, RequestsAreNames DEF InLine
<1>8. CASE cur' = r /\ request' = request
  <2>1. Served'
    BY <1>1, <1>5, <1>7, <1>8 DEF CallersInv, Served
  <2>2. \A q \in Requests : request'[q] \in {"new", "sending"} => q # cur' /\ ~InLine(q)'
    BY <1>2, <1>5, <1>7, <1>8 DEF CallersInv, SentOnce
  <2>3. ClosedLate'
    BY <1>1, <1>8 DEF CallersInv, ClosedLate
  <2>4. ~InLine(cur)'
    BY <1>5, <1>8
  <2>5. QED  BY <1>6, <2>1, <2>2, <2>3, <2>4 DEF CallersInv, SentOnce
<1>9. CASE Told(r, "failed") /\ cur' = cur
  <2>1. /\ ClosedLate' /\ request'[r] # "queued"
        /\ \A q \in Requests :
             request'[q] = request[q] \/ (q = r /\ request'[q] = "failed")
    BY <1>1, <1>2, <1>9, CallersTold
  <2>2. Served'
    BY <1>1, <1>5, <1>9, <2>1 DEF CallersInv, Served
  <2>3. \A q \in Requests : request'[q] \in {"new", "sending"} => q # cur' /\ ~InLine(q)'
    BY <1>5, <1>9, <2>1 DEF CallersInv, SentOnce
  <2>4. ~InLine(cur)'
    BY <1>1, <1>5, <1>7, <1>9
  <2>5. QED  BY <1>6, <2>1, <2>2, <2>3, <2>4 DEF CallersInv, SentOnce
<1>10. QED  BY <1>3, <1>8, <1>9

(* Every step keeps this. *)
LEMMA CallersKept ==
    ASSUME ConnTypes, CallersInv, [LongConnNext]_LongConnVars
    PROVE  CallersInv'
<1>0. RequestOK
  BY DEF ConnTypes
<1>1. CASE TakeRequest
  BY <1>0, <1>1, CallersTake
<1>2. CASE WriteFailed \/ WaitEnds
  <2>1. cur \in Requests /\ loggedOut' = loggedOut
    BY <1>0, <1>2 DEF WriteFailed, WaitEnds, RequestOK
  <2>2. CASE Finish("failed") \/ Finish("answered")
    BY <1>0, <2>1, <2>2, CallersFinish
  <2>3. CASE UNCHANGED <<request, send, sendOpen, cur>>
    BY <2>1, <2>3, CallersStay
  <2>4. QED  BY <1>2, <2>2, <2>3 DEF WriteFailed, WaitEnds
<1>3. CASE WriterEnds
  <2>1. loggedOut /\ loggedOut' = loggedOut /\ UNCHANGED <<request, send, cur>>
        /\ sendOpen' = FALSE
    BY <1>3 DEF WriterEnds
  <2>2. QED  BY <2>1 DEF CallersInv, Served, SentOnce, ClosedLate, InLine
<1>4. ASSUME NEW r \in Requests, Ask(r)  PROVE CallersInv'
  <2>1. /\ request[r] = "new" /\ request' = [request EXCEPT ![r] = "sending"]
        /\ UNCHANGED <<send, sendOpen, cur, loggedOut>>
    BY <1>4 DEF Ask, ConnVars
  <2>2. QED  BY <1>0, <2>1, CallersAsk
<1>5. CASE SyncerTakes
  <2>1. /\ UNCHANGED <<send, sendOpen, cur, loggedOut>>
        /\ \/ \E r \in Syncs : /\ request[r] = "new"
                               /\ request' = [request EXCEPT ![r] = "sending"]
           \/ UNCHANGED request
    BY <1>5 DEF SyncerTakes
  <2>2. Syncs \subseteq Requests
    BY DEF Requests
  <2>3. QED  BY <1>0, <2>1, <2>2, CallersAsk, CallersStay
<1>6. ASSUME NEW r \in Requests, Enqueue(r)  PROVE CallersInv'
  BY <1>0, <1>6, CallersEnqueue
<1>7. ASSUME NEW r \in Requests, ContextEnds(r)  PROVE CallersInv'
  <2>1. /\ request[r] = "queued" /\ request' = [request EXCEPT ![r] = "failed"]
        /\ UNCHANGED <<send, sendOpen, cur, loggedOut>>
    BY <1>7 DEF ContextEnds, ConnVars
  <2>2. QED
    BY <1>0, <2>1 DEF RequestOK, CallersInv, Served, SentOnce, ClosedLate, InLine
<1>8. CASE \/ UNCHANGED LongConnVars \/ Write \/ HandleReply \/ GatewayReplies
           \/ GatewayPushes \/ GatewayKicks
  BY <1>8, CallersStay DEF LongConnVars, ConnVars, RequestVars, Write, HandleReply,
     GatewayReplies, GatewayPushes, GatewayKicks
<1>9. CASE ConnNext
  BY <1>9, CallersStay DEF ConnNext, ReaderSteps, Incidents, RequestVars, Run, Loop,
     Dial, Established, Announce, ReadFrame, ReadFails, OnConnClosed, HandlePush,
     HandleKick, DialFails, NetworkChanged, LinkBreaks, LinkExpires, Exit
<1>10. CASE PresenceNext
  <2>1. UNCHANGED <<RequestVars, loggedOut>>
    <3>1. CASE \/ \E k \in Calls : \/ WriteSubInfo(k) \/ CallEnds(k)
                                  \/ \E u \in Users : AskStatus(k, u)
               \/ \E u \in Users : Unsubscribe(u)
      BY <3>1 DEF ConnVars, WriteSubInfo, CallEnds, AskStatus, Unsubscribe
    <3>2. CASE \E u \in Users : Turn(u)
      BY <3>2 DEF Turn
    <3>3. CASE HandleTips \/ GatewaySubscribes \/ GatewayAnswers \/ GatewayFails
      BY <3>3 DEF HandleTips, GatewaySubscribes, GatewayAnswers, GatewayFails
    <3>4. QED  BY <1>10, <3>1, <3>2, <3>3 DEF PresenceNext
  <2>2. QED  BY <2>1, CallersStay DEF RequestVars
<1>11. QED
  BY <1>1, <1>2, <1>3, <1>4, <1>5, <1>6, <1>7, <1>8, <1>9, <1>10
  DEF LongConnNext, RequestNext, WriterSteps

(* No caller of SendReqWaitResp waits for an answer that nobody will give:  *)
(* its request is in the channel or with the writer, which tells it the     *)
(* outcome, once, as no request is in two places.  And nobody sends on the  *)
(* closed channel before the logout (writePump, SendReqWaitResp,            *)
(* long_conn_mgr.go).                                                       *)
NobodyForgotten ==
  /\ Served /\ SentOnce
  /\ \A r \in Requests : request[r] = "panic" => loggedOut

THEOREM NoCallerIsForgotten == LongConnSpec => []NobodyForgotten
<1>1. LongConnInit => CallersInv
  BY RequestsAreNames DEF LongConnInit, RequestInit, CallersInv, Served, SentOnce,
     ClosedLate, InLine
<1>2. CallersInv => NobodyForgotten
  BY DEF CallersInv, ClosedLate, NobodyForgotten
<1>3. ConnTypes /\ CallersInv /\ [LongConnNext]_LongConnVars => CallersInv'
  BY CallersKept
<1>4. QED
  BY <1>1, <1>2, <1>3, ConnTypesAtFirst, ConnTypesKept, PTL DEF LongConnSpec

-----------------------------------------------------------------------------
(* The instance of all three. *)

(* Each part makes the steps of its own specification. *)
LEMMA PartsFollow ==
    MCSpec => SyncerSpec /\ FriendSpec /\ LongConnSpec
<1>1. MCInit => SyncerInit /\ FriendInit /\ LongConnInit
  BY DEF MCInit
<1>2. [MCNext]_ClientVars =>
        /\ [SyncerNext]_SyncerVars /\ [FriendNext]_FriendVars
        /\ [LongConnNext]_LongConnVars
  BY DEF MCNext, ClientVars, LongConnNext
<1>3. QED  BY <1>1, <1>2, PTL DEF MCSpec, SyncerSpec, FriendSpec, LongConnSpec

(* In the instance, too, everything has its type and no channel takes more  *)
(* than it holds, whatever the capacities and bounds are.                   *)
THEOREM ClientTypeCorrect == MCSpec => []ClientTypeOK
<1>1. SyncerInv => SyncerTypeOK
  BY DEF SyncerInv
<1>2. SyncerTypeOK /\ FriendTypeOK /\ LongConnTypeOK => ClientTypeOK
  BY DEF ClientTypeOK
<1>3. QED
  BY <1>1, <1>2, PartsFollow, SyncerInvariant, FriendTypeCorrect, ConnTypeCorrect, PTL
=============================================================================
