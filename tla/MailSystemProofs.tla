--------------------------- MODULE MailSystemProofs ---------------------------
(***************************************************************************)
(* What the relay and the mailboxes know of each other, for every set of   *)
(* bots and messages, every limit and any number of faults: the relay      *)
(* takes no mail for read that its bot has not seen, takes no unseen mail  *)
(* away before its time, and keeps the promise of MailDelivery to them.    *)
(***************************************************************************)
EXTENDS MailSystem, MailRelaySafety, FiniteSetTheorems

(***************************************************************************)
(* The inductive invariant                                                 *)
(***************************************************************************)
BoxTypes ==
    /\ cursor \in [Bot -> Seq(Msg)]
    /\ emit \in [Bot -> SUBSET Msg]
    /\ seen \in [Bot -> SUBSET Msg]

\* What says of a message that its bot has read it.
ReadIsSeen ==
    \A b \in Bot :
        /\ receipts[b] \subseteq seen[b] /\ emit[b] \subseteq seen[b]
        /\ Elems(readIds[b]) \subseteq seen[b] /\ Elems(cursor[b]) \subseteq seen[b]

\* The ids in between: listed receipts and those taken and not recorded.
TakenIsSeen ==
    IF pc = "receipts"
    THEN files \subseteq seen[cur] /\ Elems(taken) \subseteq seen[cur]
    ELSE taken = <<>>

\* What the sweep of one bot may take: its listing, fixed when it began.
MayGo(b, m) == m \in seen[b] \/ age[m] > MaxUnreadDays
SweptMayGo ==
    /\ pc \in {"sweepFiles", "sweepDrop"} => \A m \in files : MayGo(cur, m)
    /\ pc = "sweepDrop" => msg \in files

SysInv == TypeInv /\ BoxTypes /\ ReadIsSeen /\ TakenIsSeen /\ SweptMayGo

-----------------------------------------------------------------------------
(***************************************************************************)
(* Lists of ids                                                            *)
(***************************************************************************)
LEMMA ElemsOfAppend ==
    ASSUME NEW S, NEW s \in Seq(S), NEW x \in S
    PROVE  Append(s, x) \in Seq(S) /\ Elems(Append(s, x)) = Elems(s) \cup {x}
<1>1. /\ DOMAIN s = 1..Len(s) /\ Len(s) \in Nat
      /\ DOMAIN Append(s, x) = 1..(Len(s) + 1) /\ Append(s, x) \in Seq(S)
      /\ Append(s, x)[Len(s) + 1] = x /\ \A i \in 1..Len(s) : Append(s, x)[i] = s[i]
    OBVIOUS
<1>2. 1..(Len(s) + 1) = 1..Len(s) \cup {Len(s) + 1}
    BY <1>1
<1> QED BY <1>1, <1>2 DEF Elems

LEMMA ElemsOfConcat ==
    ASSUME NEW S, NEW s \in Seq(S), NEW t \in Seq(S)
    PROVE  s \o t \in Seq(S) /\ Elems(s \o t) \subseteq Elems(s) \cup Elems(t)
<1>1. /\ DOMAIN s = 1..Len(s) /\ DOMAIN t = 1..Len(t) /\ Len(s) \in Nat /\ Len(t) \in Nat
      /\ s \o t \in Seq(S) /\ DOMAIN (s \o t) = 1..(Len(s) + Len(t))
      /\ \A i \in 1..(Len(s) + Len(t)) :
             (s \o t)[i] = IF i <= Len(s) THEN s[i] ELSE t[i - Len(s)]
    OBVIOUS
<1>2. ASSUME NEW i \in DOMAIN (s \o t)
      PROVE  (s \o t)[i] \in Elems(s) \cup Elems(t)
    <2>1. CASE i <= Len(s)
        BY <1>1, <2>1 DEF Elems
    <2>2. CASE i > Len(s)
        <3>1. i - Len(s) \in 1..Len(t)
            BY <1>1, <2>2
        <3> QED BY <1>1, <2>2, <3>1 DEF Elems
    <2> QED BY <1>1, <2>1, <2>2
<1> QED BY <1>1, <1>2 DEF Elems

\* The ids of a list in the cursor's order are those of the set listed.
LEMMA OrdersListTheirSet ==
    ASSUME NEW S \in SUBSET Msg, NEW s \in Box!NewestFirst(S)
    PROVE  s \in Seq(Msg) /\ Elems(s) \subseteq S
<1>1. IsFiniteSet(S)
    BY BoxAssumption, FS_Subset
<1>2. Box!Cardinality(S) \in Nat
    <2>1. Box!Cardinality(S) = Cardinality(S)
        BY DEF Box!Cardinality, Cardinality
    <2> QED BY <1>1, <2>1, FS_CardinalityType
<1>3. s \in [1..Box!Cardinality(S) -> S]
    BY DEF Box!NewestFirst
<1>4. s \in Seq(S)
    BY <1>2, <1>3
<1> QED BY <1>3, <1>4 DEF Elems

-----------------------------------------------------------------------------
LEMMA SysStart == SysInit => SysInv
<1> SUFFICES ASSUME SysInit PROVE SysInv
    OBVIOUS
<1>1. TypeInv
    BY TypeInit DEF SysInit
<1>2. BoxTypes
    BY DEF SysInit, Box!BoxInit, BoxTypes
<1>3. ReadIsSeen
    BY DEF SysInit, Init, Box!BoxInit, ReadIsSeen, Elems
<1>4. TakenIsSeen /\ SweptMayGo
    BY DEF SysInit, Init, TakenIsSeen, SweptMayGo
<1> QED BY <1>1, <1>2, <1>3, <1>4 DEF SysInv

-----------------------------------------------------------------------------
(***************************************************************************)
(* The mailboxes' steps                                                    *)
(***************************************************************************)
\* A save leaves the old cursor or the newest of ids; the faults stay within bounds.
LEMMA Saves ==
    ASSUME SysInv, NEW b \in Bot, NEW ids \in Seq(Msg), Box!Save(b, ids)
    PROVE  /\ cursor' \in [Bot -> Seq(Msg)] /\ faults' \in 0..MaxFaults
           /\ \A c \in Bot : \/ cursor'[c] = cursor[c]
                             \/ c = b /\ Elems(cursor'[c]) \subseteq Elems(ids)
<1>1. cursor \in [Bot -> Seq(Msg)] /\ faults \in 0..MaxFaults /\ MaxFaults \in Nat
    BY LimitAssumption DEF SysInv, BoxTypes, TypeInv, TypeOK, AuxTypes
<1>2. CASE cursor' = [cursor EXCEPT ![b] = LastN(ids, MaxCursor)] /\ UNCHANGED faults
    <2>1. LastN(ids, MaxCursor) \in Seq(Msg) /\ Elems(LastN(ids, MaxCursor)) \subseteq Elems(ids)
        BY BoxAssumption, LastNType
    <2> QED BY <1>1, <1>2, <2>1
<1>3. CASE Box!Fault /\ UNCHANGED cursor
    BY <1>1, <1>3 DEF Box!Fault
<1>4. Box!LastN(ids, MaxCursor) = LastN(ids, MaxCursor)
    BY DEF Box!LastN, LastN
<1> QED BY <1>2, <1>3, <1>4 DEF Box!Save

\* What a mailbox may do to what the relay knows.
BoxKeeps ==
    /\ BoxTypes' /\ ReadIsSeen'
    /\ receipts' \in [Bot -> SUBSET Msg] /\ faults' \in 0..MaxFaults
    /\ \A b \in Bot : seen[b] \subseteq seen'[b]
    /\ UNCHANGED <<inbox, age, relayOnly>>

LEMMA BoxSteps ==
    ASSUME SysInv, Box!BoxNext, UNCHANGED relayOnly
    PROVE  BoxKeeps
<1>0. /\ cursor \in [Bot -> Seq(Msg)] /\ emit \in [Bot -> SUBSET Msg] /\ seen \in [Bot -> SUBSET Msg]
      /\ receipts \in [Bot -> SUBSET Msg] /\ inbox \in [Bot -> SUBSET Msg]
      /\ faults \in 0..MaxFaults /\ MaxFaults \in Nat /\ readIds' = readIds
      /\ \A s : Box!Elems(s) = Elems(s)
    BY LimitAssumption DEF SysInv, BoxTypes, TypeInv, TypeOK, FileTypes, AuxTypes, relayOnly, Box!Elems, Elems
<1>1. ASSUME NEW b \in Bot, NEW S \in SUBSET Msg, NEW ids \in Seq(Msg),
             Elems(ids) \subseteq Elems(cursor[b]) \cup S, Box!Save(b, ids),
             emit' = [emit EXCEPT ![b] = S], seen' = [seen EXCEPT ![b] = @ \cup S],
             UNCHANGED <<inbox, receipts, age>>
      PROVE  BoxKeeps
    <2>1. BoxTypes' /\ faults' \in 0..MaxFaults
        BY <1>0, <1>1, Saves DEF BoxTypes
    <2>2. \A c \in Bot : seen[c] \subseteq seen'[c]
        BY <1>0, <1>1
    <2>3. ASSUME NEW c \in Bot
          PROVE  emit'[c] \subseteq seen'[c] /\ Elems(cursor'[c]) \subseteq seen'[c]
        <3>1. CASE c = b
            <4>1. emit'[b] = S /\ seen'[b] = seen[b] \cup S
                BY <1>0, <1>1
            <4>2. Elems(cursor[b]) \subseteq seen[b]
                BY DEF SysInv, ReadIsSeen
            <4>3. cursor'[b] = cursor[b] \/ Elems(cursor'[b]) \subseteq Elems(ids)
                BY <1>1, Saves
            <4> QED BY <1>1, <3>1, <4>1, <4>2, <4>3
        <3>2. CASE c # b
            <4>1. emit'[c] = emit[c] /\ seen'[c] = seen[c] /\ cursor'[c] = cursor[c]
                BY <1>0, <1>1, <3>2, Saves
            <4> QED BY <4>1 DEF SysInv, ReadIsSeen
        <3> QED BY <3>1, <3>2
    <2>4. ReadIsSeen'
        BY <1>0, <1>1, <2>2, <2>3 DEF SysInv, ReadIsSeen
    <2> QED BY <1>0, <1>1, <2>1, <2>2, <2>4 DEF BoxKeeps
<1>2. ASSUME NEW b \in Bot, NEW m \in Msg, Box!ReadMessage(b, m)
      PROVE  BoxKeeps
    <2>1. Append(cursor[b], m) \in Seq(Msg) /\ Elems(Append(cursor[b], m)) = Elems(cursor[b]) \cup {m}
        BY <1>0, ElemsOfAppend
    <2> QED BY <1>1, <1>2, <2>1 DEF Box!ReadMessage
<1>3. ASSUME NEW b \in Bot, Box!MarkAllRead(b)
      PROVE  BoxKeeps
    <2> DEFINE S == Box!Unread(b)
    <2>1. S \in SUBSET Msg
        BY <1>0 DEF Box!Unread
    <2>2. PICK s \in Box!NewestFirst(S) : Box!Save(b, cursor[b] \o s)
        BY <1>3 DEF Box!MarkAllRead
    <2>3. s \in Seq(Msg) /\ Elems(s) \subseteq S
        BY <2>1, <2>2, OrdersListTheirSet
    <2>4. cursor[b] \o s \in Seq(Msg) /\ Elems(cursor[b] \o s) \subseteq Elems(cursor[b]) \cup S
        BY <1>0, <2>3, ElemsOfConcat
    <2>5. /\ emit' = [emit EXCEPT ![b] = S] /\ seen' = [seen EXCEPT ![b] = @ \cup S]
          /\ UNCHANGED <<inbox, receipts, age>>
        BY <1>3 DEF Box!MarkAllRead
    <2> HIDE DEF S
    <2> QED BY <1>1, <2>1, <2>2, <2>4, <2>5
<1>4. ASSUME NEW b \in Bot, Box!EmitReceipt(b)
      PROVE  BoxKeeps
    <2>1. /\ receipts' = [receipts EXCEPT ![b] = @ \cup emit[b]] /\ emit' = [emit EXCEPT ![b] = {}]
          /\ UNCHANGED <<inbox, age, cursor, seen, faults>>
        BY <1>4 DEF Box!EmitReceipt, Box!IdsToReport
    <2>2. \A c \in Bot : /\ receipts'[c] = IF c = b THEN receipts[c] \cup emit[c] ELSE receipts[c]
                         /\ emit'[c] \subseteq emit[c]
        BY <1>0, <2>1
    <2>3. ReadIsSeen'
        BY <1>0, <2>1, <2>2 DEF SysInv, ReadIsSeen
    <2>4. BoxTypes' /\ receipts' \in [Bot -> SUBSET Msg]
        BY <1>0, <2>1 DEF BoxTypes
    <2> QED BY <1>0, <2>1, <2>3, <2>4 DEF BoxKeeps
<1>5. ASSUME NEW b \in Bot, Box!LoseReceipt(b) \/ Box!LoseCursor(b)
      PROVE  BoxKeeps
    <2>1. /\ UNCHANGED <<inbox, receipts, age, seen>> /\ faults' \in 0..MaxFaults
          /\ emit' \in [Bot -> SUBSET Msg] /\ cursor' \in [Bot -> Seq(Msg)]
        <3>1. <<>> \in Seq(Msg) /\ {} \in SUBSET Msg
            OBVIOUS
        <3>2. CASE Box!LoseReceipt(b)
            BY <1>0, <3>1, <3>2 DEF Box!LoseReceipt, Box!Fault
        <3>3. CASE Box!LoseCursor(b)
            <4>1. cursor' = [cursor EXCEPT ![b] = <<>>]
                BY <3>3 DEF Box!LoseCursor
            <4>2. cursor' \in [Bot -> Seq(Msg)]
                BY <1>0, <3>1, <4>1
            <4> QED BY <1>0, <3>3, <4>2 DEF Box!LoseCursor, Box!Fault
        <3> QED BY <1>5, <3>2, <3>3
    <2>2. \A c \in Bot : /\ emit'[c] = emit[c] \/ emit'[c] = {}
                         /\ cursor'[c] = cursor[c] \/ cursor'[c] = <<>>
        BY <1>0, <1>5 DEF Box!LoseReceipt, Box!LoseCursor
    <2>3. Elems(<<>>) = {}
        BY DEF Elems
    <2>4. ReadIsSeen'
        BY <1>0, <2>1, <2>2, <2>3 DEF SysInv, ReadIsSeen
    <2> QED BY <1>0, <2>1, <2>4 DEF BoxKeeps, BoxTypes
<1> QED BY <1>2, <1>3, <1>4, <1>5 DEF Box!BoxNext

LEMMA BoxStepsKeep ==
    ASSUME SysInv, Box!BoxNext, UNCHANGED relayOnly
    PROVE  SysInv'
<1>1. BoxKeeps
    BY BoxSteps
<1>2. TypeInv'
    BY <1>1 DEF BoxKeeps, relayOnly, routeVars, loopVars, msgVars, memVars, SysInv, TypeInv, TypeOK, PhaseOK,
           FileTypes, RouteTypes, LoopTypes, MsgTypes, MemTypes, AuxTypes, InLoop
<1>3. /\ UNCHANGED <<pc, cur, files, taken, msg, age>>
      /\ \A b \in Bot : seen[b] \subseteq seen'[b]
      /\ pc \in InLoop => cur \in Bot
    BY <1>1 DEF BoxKeeps, relayOnly, loopVars, msgVars, memVars, SysInv, TypeInv, PhaseOK
<1>4. TakenIsSeen'
    BY <1>3 DEF SysInv, TakenIsSeen, InLoop
<1>5. SweptMayGo'
    BY <1>3 DEF SysInv, SweptMayGo, MayGo, InLoop
<1> QED BY <1>1, <1>2, <1>4, <1>5 DEF BoxKeeps, SysInv

-----------------------------------------------------------------------------
(***************************************************************************)
(* The relay's steps                                                       *)
(***************************************************************************)
\* A step of the relay, of the world or of a bot that writes a letter.
RelayMoves ==
    /\ RelayStep \/ FaultStep \/ WorldStep \/ \E m \in Msg : Post(m)
    /\ UNCHANGED boxVars

\* What was read is remembered as it was, and only then.
LEMMA RelayReadsTruly ==
    ASSUME SysInv, TypeInv', RelayMoves
    PROVE  ReadIsSeen' /\ TakenIsSeen'
<1>0. /\ UNCHANGED <<cursor, emit, seen>> /\ ReadIsSeen /\ TakenIsSeen
      /\ receipts \in [Bot -> SUBSET Msg] /\ readIds \in [Bot -> Seq(Msg)]
      /\ taken \in Seq(Msg) /\ files \subseteq Msg /\ seen \in [Bot -> SUBSET Msg]
      /\ pc \in InLoop => cur \in Bot
    BY DEF RelayMoves, boxVars, SysInv, BoxTypes, TypeInv, TypeOK, PhaseOK, FileTypes, LoopTypes, MemTypes
<1>1. CASE BeginBot
    <2>1. /\ cur' \in Bot /\ files' = receipts[cur'] /\ taken' = <<>> /\ pc' = "receipts"
          /\ UNCHANGED <<receipts, readIds>>
        BY <1>1 DEF BeginBot, fileVars, TypeInv, PhaseOK, InLoop
    <2>2. files' \subseteq seen[cur'] /\ Elems(taken') \subseteq seen[cur']
        BY <1>0, <2>1 DEF ReadIsSeen, Elems
    <2> QED BY <1>0, <2>1, <2>2 DEF ReadIsSeen, TakenIsSeen
<1>2. ASSUME NEW m \in Msg, TakeReceipt(m) \/ ReceiptKept(m)
      PROVE  ReadIsSeen' /\ TakenIsSeen'
    <2>1. /\ pc = "receipts" /\ pc' = "receipts" /\ m \in files /\ files' = files \ {m} /\ cur' = cur
          /\ taken' = taken \/ taken' = Append(taken, m)
          /\ readIds' = readIds
          /\ receipts' = receipts \/ receipts' = [receipts EXCEPT ![cur] = @ \ {m}]
        BY <1>2 DEF TakeReceipt, ReceiptKept, fileVars
    <2>2. cur \in Bot /\ files \subseteq seen[cur] /\ Elems(taken) \subseteq seen[cur]
        BY <1>0, <2>1 DEF TakenIsSeen, InLoop
    <2>3. Elems(Append(taken, m)) = Elems(taken) \cup {m}
        BY <1>0, ElemsOfAppend
    <2>4. \A b \in Bot : receipts'[b] \subseteq receipts[b]
        BY <1>0, <2>1
    <2>5. ReadIsSeen'
        BY <1>0, <2>1, <2>4 DEF ReadIsSeen
    <2>6. TakenIsSeen'
        BY <1>0, <2>1, <2>2, <2>3 DEF TakenIsSeen
    <2> QED BY <2>5, <2>6
<1>3. CASE AddReadIds
    <2>1. /\ pc = "receipts" /\ pc' = "files" /\ taken' = <<>> /\ receipts' = receipts
          /\ readIds' = [readIds EXCEPT ![cur] = LastN(readIds[cur] \o taken, MaxReadIds)]
        BY <1>3 DEF AddReadIds
    <2>2. cur \in Bot /\ Elems(taken) \subseteq seen[cur] /\ Elems(readIds[cur]) \subseteq seen[cur]
        BY <1>0, <2>1 DEF TakenIsSeen, ReadIsSeen, InLoop
    <2>3. /\ readIds[cur] \o taken \in Seq(Msg)
          /\ Elems(readIds[cur] \o taken) \subseteq Elems(readIds[cur]) \cup Elems(taken)
        BY <1>0, <2>2, ElemsOfConcat
    <2>4. Elems(LastN(readIds[cur] \o taken, MaxReadIds)) \subseteq seen[cur]
        BY <2>2, <2>3, LastNType, LimitAssumption
    <2>5. \A b \in Bot : Elems(readIds'[b]) \subseteq seen[b]
        BY <1>0, <2>1, <2>2, <2>4 DEF ReadIsSeen
    <2> QED BY <1>0, <2>1, <2>5 DEF ReadIsSeen, TakenIsSeen
<1>4. CASE Crash \/ AbortTick
    <2>1. UNCHANGED <<receipts, readIds>> /\ taken' = <<>> /\ pc' = "idle"
        BY <1>4 DEF Crash, AbortTick, fileVars
    <2> QED BY <1>0, <2>1 DEF ReadIsSeen, TakenIsSeen
<1>5. CASE WorldStep \/ \E m \in Msg : Post(m)
    <2>1. UNCHANGED <<receipts, readIds, taken, pc, files, cur>>
        BY <1>5 DEF WorldStep, Post, Day, SweepFallsDue, ExpireSend, EditRoutes, fileVars, loopVars, memVars
    <2> QED BY <1>0, <2>1 DEF ReadIsSeen, TakenIsSeen
<1>6. CASE /\ UNCHANGED <<receipts, readIds, taken>>
           /\ pc # "receipts" /\ pc' # "receipts"
    BY <1>0, <1>6 DEF ReadIsSeen, TakenIsSeen
<1>7. CASE \/ StartTick \/ EndBot \/ EndBots \/ FileOriginal
           \/ SweepBot \/ DropLive \/ EndSweepBot \/ EndSweep
    BY <1>6, <1>7 DEF StartTick, EndBot, EndBots, FileOriginal, SweepBot, DropLive, EndSweepBot, EndSweep,
           fileVars
<1>8. CASE \/ FileError \/ DropError
           \/ \E b \in Bot : SkipRecipient(b) \/ Deliver(b) \/ DeliverError(b)
    BY <1>6, <1>8 DEF FileError, DropError, SkipRecipient, Deliver, DeliverError, fileVars, memVars
<1>9. CASE \E m \in Msg : \/ RefuseInvalid(m) \/ DeferOverRate(m) \/ Admit(m) \/ AppendToShard(m)
                          \/ RefuseError(m) \/ AppendError(m)
    BY <1>6, <1>9 DEF RefuseInvalid, DeferOverRate, Admit, AppendToShard, RefuseError, AppendError, fileVars,
           memVars
<1> QED BY <1>1, <1>2, <1>3, <1>4, <1>5, <1>7, <1>8, <1>9 DEF RelayMoves, RelayStep, FaultStep

\* What the sweep has listed it may take, for as long as it goes through the listing.
LEMMA SweepTakesTruly ==
    ASSUME SysInv, RelayMoves
    PROVE  SweptMayGo'
<1>0. /\ UNCHANGED <<cursor, emit, seen>> /\ ReadIsSeen /\ SweptMayGo
      /\ age \in [Msg -> 0..MaxAge] /\ MaxAge \in Nat /\ MaxUnreadDays \in Nat
      /\ files \subseteq Msg /\ inbox \in [Bot -> SUBSET Msg]
      /\ pc \in {"bots", "sweep"} => todo \in Seq(Bot)
    BY LimitAssumption DEF RelayMoves, boxVars, SysInv, TypeInv, TypeOK, AuxTypes, FileTypes, LoopTypes, MaxAge
<1>1. CASE SweepBot
    <2>1. /\ pc' = "sweepFiles" /\ cur' = Head(todo) /\ todo # <<>> /\ todo \in Seq(Bot)
          /\ files' = {m \in inbox[cur'] : ArchiveIt(cur', m)} /\ UNCHANGED <<readIds, age>>
        BY <1>0, <1>1 DEF SweepBot, fileVars, auxVars
    <2>2. cur' \in Bot
        BY <2>1
    <2>3. \A m \in files' : m \in seen[cur'] \/ age[m] > MaxUnreadDays
        BY <1>0, <2>1, <2>2 DEF ArchiveIt, ReadIsSeen
    <2> QED BY <1>0, <2>1, <2>3 DEF SweptMayGo, MayGo
<1>2. ASSUME NEW m \in Msg, AppendToShard(m) \/ AppendError(m)
      PROVE  SweptMayGo'
    <2>1. /\ pc = "sweepFiles" /\ m \in files /\ UNCHANGED <<cur, age>>
          /\ \/ pc' = "sweepDrop" /\ msg' = m /\ files' = files
             \/ pc' = "sweepFiles" /\ files' = files \ {m}
        BY <1>2 DEF AppendToShard, AppendError, loopVars, memVars, auxVars
    <2> QED BY <1>0, <2>1 DEF SweptMayGo, MayGo
<1>3. CASE DropLive \/ DropError
    <2>1. pc = "sweepDrop" /\ pc' = "sweepFiles" /\ files' = files \ {msg} /\ UNCHANGED <<cur, age>>
        BY <1>3 DEF DropLive, DropError, auxVars
    <2> QED BY <1>0, <2>1 DEF SweptMayGo, MayGo
<1>4. CASE Day
    <2>1. UNCHANGED <<pc, cur, files, msg>> /\ \A m \in Msg : age'[m] = age[m] \/ age'[m] = age[m] + 1
        BY <1>0, <1>4 DEF Day, loopVars, msgVars, memVars
    <2>2. \A m \in Msg : age[m] > MaxUnreadDays => age'[m] > MaxUnreadDays
        BY <1>0, <2>1
    <2> QED BY <1>0, <2>1, <2>2 DEF SweptMayGo, MayGo
<1>5. CASE \/ SweepFallsDue \/ (\E b \in Bot : ExpireSend(b)) \/ (\E m \in Msg : Post(m))
           \/ (\E r \in RouteFiles, ok \in BOOLEAN : EditRoutes(r, ok))
    <2>1. UNCHANGED <<pc, cur, files, msg, age>>
        BY <1>5 DEF Post, SweepFallsDue, ExpireSend, EditRoutes, loopVars, msgVars, memVars, auxVars
    <2> QED BY <1>0, <2>1 DEF SweptMayGo, MayGo
<1>6. CASE pc' \notin {"sweepFiles", "sweepDrop"}
    BY <1>6 DEF SweptMayGo
<1>7. CASE \/ StartTick \/ BeginBot \/ AddReadIds \/ EndBot \/ EndBots \/ FileOriginal \/ EndSweepBot \/ EndSweep
           \/ FileError \/ AbortTick \/ Crash
    BY <1>6, <1>7 DEF StartTick, BeginBot, AddReadIds, EndBot, EndBots, FileOriginal, EndSweepBot, EndSweep,
           FileError, AbortTick, Crash
<1>8. CASE \/ \E b \in Bot : SkipRecipient(b) \/ Deliver(b) \/ DeliverError(b)
           \/ \E m \in Msg : \/ TakeReceipt(m) \/ RefuseInvalid(m) \/ DeferOverRate(m) \/ Admit(m)
                             \/ ReceiptKept(m) \/ RefuseError(m)
    BY <1>6, <1>8 DEF SkipRecipient, Deliver, DeliverError, TakeReceipt, RefuseInvalid, DeferOverRate, Admit,
           ReceiptKept, RefuseError, memVars
<1> QED BY <1>1, <1>2, <1>3, <1>4, <1>5, <1>7, <1>8 DEF RelayMoves, RelayStep, FaultStep, WorldStep

-----------------------------------------------------------------------------
LEMMA SysStep == SysInv /\ [SysNext]_sysVars => SysInv'
<1> SUFFICES ASSUME SysInv, [SysNext]_sysVars PROVE SysInv'
    OBVIOUS
<1>1. CASE RelayMoves
    <2>1. TypeInv'
        BY <1>1, TypeStep DEF RelayMoves, Next, BotStep, SysInv
    <2>2. BoxTypes'
        BY <1>1 DEF RelayMoves, boxVars, SysInv, BoxTypes
    <2> QED BY <1>1, <2>1, <2>2, RelayReadsTruly, SweepTakesTruly DEF SysInv
<1>2. CASE Box!BoxNext /\ UNCHANGED relayOnly
    BY <1>2, BoxStepsKeep
<1>3. CASE UNCHANGED sysVars
    <2>1. UNCHANGED vars /\ UNCHANGED boxVars
        BY <1>3 DEF sysVars
    <2>2. TypeInv'
        BY <2>1, TypeStep DEF SysInv
    <2>3. BoxTypes' /\ ReadIsSeen'
        BY <2>1 DEF vars, boxVars, fileVars, SysInv, BoxTypes, ReadIsSeen
    <2>4. TakenIsSeen' /\ SweptMayGo'
        BY <2>1 DEF vars, boxVars, loopVars, msgVars, memVars, auxVars, SysInv, TakenIsSeen, SweptMayGo, MayGo
    <2> QED BY <2>2, <2>3, <2>4 DEF SysInv
<1> QED BY <1>1, <1>2, <1>3 DEF SysNext, RelayMoves

LEMMA SysAlways == SysSpec => []SysInv
<1>1. SysInit => SysInv
    BY SysStart
<1>2. SysInv /\ [SysNext]_sysVars => SysInv'
    BY SysStep
<1> QED BY <1>1, <1>2, PTL DEF SysSpec

\* The relay and the mailboxes keep their types together: a mailbox writes nothing that
\* the relay's own steps could trip over.
THEOREM SysTypeCorrect == SysSpec => []SysTypeOK
<1>1. SysInv => SysTypeOK
    BY DEF SysInv, TypeInv, BoxTypes, SysTypeOK, Box!BoxTypeOK
<1> QED BY <1>1, SysAlways, PTL

\* Receipts, read set and the ids in between name only what the bot has seen, whoever
\* crashes and whatever is lost: processReceipts and addReadIds against mailbox.ts.
THEOREM ReadOnlyIfSeen == SysSpec => []ReadSetIsTrue
<1>1. SysInv => ReadSetIsTrue
    <2> SUFFICES ASSUME SysInv, NEW b \in Bot
                 PROVE  /\ receipts[b] \cup emit[b] \cup Elems(readIds[b]) \subseteq seen[b]
                        /\ Elems(cursor[b]) \subseteq seen[b]
                        /\ cur = b => Elems(taken) \subseteq seen[b]
        BY DEF ReadSetIsTrue
    <2>1. cur = b => Elems(taken) \subseteq seen[b]
        BY DEF SysInv, TakenIsSeen, Elems
    <2> QED BY <2>1 DEF SysInv, ReadIsSeen
<1> QED BY <1>1, SysAlways, PTL

\* sweepRetention takes from a live inbox only what its bot has seen or what is past
\* maxUnreadDays, though its listing may be old by the time it moves a file.
THEOREM UnseenMailStays == SysSpec => UnseenStays
<1>1. ASSUME SysInv, [SysNext]_sysVars, NEW b \in Bot, NEW m \in inbox[b] \ inbox'[b]
      PROVE  m \in seen[b] \/ age[m] > MaxUnreadDays
    <2>1. inbox \in [Bot -> SUBSET Msg]
        BY <1>1 DEF SysInv, TypeInv, TypeOK, FileTypes
    <2>2. CASE DropLive
        <3>1. /\ inbox' = [inbox EXCEPT ![cur] = @ \ {msg}] /\ pc = "sweepDrop"
            BY <2>2 DEF DropLive, InboxWithout
        <3>2. b = cur /\ m = msg
            BY <1>1, <2>1, <3>1
        <3> QED BY <1>1, <3>1, <3>2 DEF SysInv, SweptMayGo, MayGo
    <2>3. CASE inbox' = inbox
        BY <1>1, <2>3
    <2>4. CASE \E r \in Bot : Deliver(r)
        BY <1>1, <2>1, <2>4 DEF Deliver
    <2>5. CASE \/ Box!BoxNext \/ UNCHANGED sysVars \/ WorldStep \/ FaultStep \/ \E x \in Msg : Post(x)
        <3>1. inbox' = inbox
            BY <2>5, BoxSteps DEF Box!BoxNext, Box!MarkAllRead, Box!EmitReceipt, Box!LoseReceipt, Box!LoseCursor,
                   Box!ReadMessage, sysVars, vars, fileVars, WorldStep, Day, SweepFallsDue, ExpireSend, EditRoutes,
                   FaultStep, FileError, DropError, AbortTick, Crash, DeliverError, ReceiptKept, RefuseError,
                   AppendError, Post
        <3> QED BY <2>3, <3>1
    <2>6. CASE RelayStep /\ ~DropLive /\ ~\E r \in Bot : Deliver(r)
        <3>1. inbox' = inbox
            BY <2>6 DEF RelayStep, StartTick, BeginBot, AddReadIds, EndBot, EndBots, FileOriginal, SweepBot,
                   EndSweepBot, EndSweep, SkipRecipient, TakeReceipt, RefuseInvalid, DeferOverRate, Admit,
                   AppendToShard, fileVars
        <3> QED BY <2>3, <3>1
    <2> QED BY <1>1, <2>2, <2>4, <2>5, <2>6 DEF SysNext
<1>2. SysInv /\ [SysNext]_sysVars =>
          [\A b \in Bot : \A m \in inbox[b] \ inbox'[b] : m \in seen[b] \/ age[m] > MaxUnreadDays]_sysVars
    BY <1>1
<1> QED BY <1>2, SysAlways, PTL DEF SysSpec, UnseenStays

-----------------------------------------------------------------------------
(***************************************************************************)
(* What the relay keeps with arbitrary bots it keeps with the mailboxes    *)
(***************************************************************************)
\* A mailbox moves no mail, and leaves the relay where it is.
LEMMA BoxMovesNoMail ==
    ASSUME SysInv, Box!BoxNext, UNCHANGED relayOnly
    PROVE  UNCHANGED <<outbox, inbox, archive, sent, refused, posted, cut, pc, cur, files, msg,
                       pending, okTo>>
<1>1. BoxKeeps
    BY BoxSteps
<1> QED BY <1>1 DEF BoxKeeps, relayOnly, loopVars, msgVars, memVars

LEMMA SysSafeStep == SysInv /\ SafeInv /\ [SysNext]_sysVars => SafeInv'
<1> SUFFICES ASSUME SysInv, SafeInv, [SysNext]_sysVars PROVE SafeInv'
    OBVIOUS
<1>1. CASE [Next]_vars
    BY <1>1, TypeStep, LoopStep, FiledOnceStep, HeldStep, RoutedStep, FilingIsTrueStep, LiveStep DEF SafeInv
<1>2. CASE Box!BoxNext /\ UNCHANGED relayOnly
    <2>1. TypeInv'
        BY <1>2, BoxStepsKeep DEF SysInv
    <2>2. UNCHANGED <<outbox, inbox, archive, sent, refused, posted, cut, pc, cur, files, msg,
                      pending, okTo>>
        BY <1>2, BoxMovesNoMail
    <2>3. \A b \in Bot : Holds(b)' = Holds(b)
        BY <2>2 DEF Holds
    <2>4. LoopInv'
        BY <2>2 DEF SafeInv, LoopInv
    <2>5. HeldInv' /\ RoutedOnly'
        BY <2>2, <2>3 DEF SafeInv, HeldInv, RoutedOnly
    <2>6. FilingIsTrue'
        BY <2>2 DEF SafeInv, FilingIsTrue, Holds
    <2>7. FiledOnce' /\ LiveOrArchived'
        BY <2>2 DEF SafeInv, FiledOnce, LiveOrArchived
    <2> QED BY <2>1, <2>4, <2>5, <2>6, <2>7 DEF SafeInv
<1>3. [SysNext]_sysVars => [Next]_vars \/ (Box!BoxNext /\ UNCHANGED relayOnly)
    BY DEF SysNext, Next, BotStep, sysVars
<1> QED BY <1>1, <1>2, <1>3

LEMMA SysSafeAlways == SysSpec => [](SysInv /\ SafeInv)
<1>1. SysInit => SafeInv
    BY SafeInit DEF SysInit
<1> QED BY <1>1, SysAlways, SysSafeStep, PTL DEF SysSpec

\* The relay keeps the promise of the mail also when the bots are the mailboxes, which name in one
\* receipt all that they have read and fail by themselves.
THEOREM SystemKeepsPromise == SysSpec => DeliverySpec
<1>1. SysInit => Delivery!Init
    <2> SUFFICES ASSUME Init PROVE Delivery!Init
        BY DEF SysInit
    <2>1. \A b \in Bot : Holds(b) = {}
        BY DEF Init, Holds
    <2> QED BY <2>1 DEF Init, Delivery!Init
<1>2. SysInv /\ SafeInv /\ [SysNext]_sysVars => [Delivery!Next]_(Delivery!vars)
    <2> SUFFICES ASSUME SysInv, SafeInv, [SysNext]_sysVars
                 PROVE  [Delivery!Next]_(Delivery!vars)
        OBVIOUS
    <2>1. CASE [Next]_vars
        BY <2>1, DeliveryStep
    <2>2. CASE Box!BoxNext /\ UNCHANGED relayOnly
        BY <2>2, BoxMovesNoMail DEF Delivery!vars, Holds
    <2>3. [SysNext]_sysVars => [Next]_vars \/ (Box!BoxNext /\ UNCHANGED relayOnly)
        BY DEF SysNext, Next, BotStep, sysVars
    <2> QED BY <2>1, <2>2, <2>3
<1> QED BY <1>1, <1>2, SysSafeAlways, PTL DEF SysSpec, DeliverySpec, Delivery!Spec

\* Whoever crashes and whatever receipt is lost: no original is lost or filed twice, its filing is
\* true, only routed mail is held, and nothing is live and archived but in a move.
THEOREM SystemKeepsMail == SysSpec => [](FiledOnce /\ FilingIsTrue /\ RoutedOnly /\ LiveOrArchived)
<1>1. SysInv /\ SafeInv => FiledOnce /\ FilingIsTrue /\ RoutedOnly /\ LiveOrArchived
    BY DEF SafeInv
<1> QED BY <1>1, SysSafeAlways, PTL

=============================================================================
