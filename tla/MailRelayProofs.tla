--------------------------- MODULE MailRelayProofs ---------------------------
(***************************************************************************)
(* What the relay keeps, for every set of bots, envelopes, routes files    *)
(* and limits, and for any number of faults.                               *)
(***************************************************************************)
EXTENDS MailRelay, SequenceTheorems, TLAPS

(***************************************************************************)
(* Types are not inductive by themselves: Tail(todo) and the indexes [cur] *)
(* and [msg] are defined only where the tick's position says so.           *)
(***************************************************************************)
InLoop == {"receipts", "files", "deliver", "sweepFiles", "sweepDrop"}

PhaseOK ==
    /\ pc \in InLoop => todo # <<>> /\ cur \in Bot
    /\ pc \in {"deliver", "sweepDrop"} => msg \in Msg

TypeInv == TypeOK /\ PhaseOK

\* slice(-n) of a list of S is a list of S, and invents no element.
LEMMA LastNType ==
    ASSUME NEW S, NEW s \in Seq(S), NEW n \in Nat \ {0}
    PROVE  LastN(s, n) \in Seq(S) /\ Elems(LastN(s, n)) \subseteq Elems(s)
<1> DEFINE k == IF Len(s) > n THEN Len(s) - n + 1 ELSE 1
<1>1. /\ Len(s) \in Nat /\ k \in Nat \ {0}
      /\ \A i \in k..Len(s) : i \in 1..Len(s)
  OBVIOUS
<1>2. \A i \in 1..Len(s) : s[i] \in S
  OBVIOUS
<1> HIDE DEF k
<1>3. \A i \in k..Len(s) : s[i] \in S
  BY <1>1, <1>2
<1>4. /\ SubSeq(s, k, Len(s)) \in Seq(S)
      /\ Len(SubSeq(s, k, Len(s))) = IF k <= Len(s) THEN Len(s) - k + 1 ELSE 0
      /\ \A i \in 1..(Len(s) - k + 1) : SubSeq(s, k, Len(s))[i] = s[k + i - 1]
  BY <1>1, <1>3, SubSeqProperties
<1>5. LastN(s, n) = SubSeq(s, k, Len(s))
  BY DEF LastN, k
<1>6. ASSUME NEW i \in DOMAIN LastN(s, n)
      PROVE  \E j \in DOMAIN s : LastN(s, n)[i] = s[j]
  <2>1. i \in 1..(Len(s) - k + 1)
    BY <1>1, <1>4, <1>5
  <2>2. k + i - 1 \in DOMAIN s
    BY <2>1, <1>1
  <2> QED BY <2>1, <2>2, <1>4, <1>5
<1> QED BY <1>4, <1>5, <1>6 DEF Elems

\* A group of variables that a step leaves alone keeps its types.
LEMMA Frames ==
    /\ FileTypes /\ UNCHANGED fileVars => FileTypes'
    /\ RouteTypes /\ UNCHANGED routeVars => RouteTypes'
    /\ LoopTypes /\ UNCHANGED loopVars => LoopTypes'
    /\ MsgTypes /\ UNCHANGED msgVars => MsgTypes'
    /\ MemTypes /\ UNCHANGED memVars => MemTypes'
    /\ AuxTypes /\ UNCHANGED auxVars => AuxTypes'
<1>1. FileTypes /\ UNCHANGED fileVars => FileTypes'   BY DEF FileTypes, fileVars
<1>2. RouteTypes /\ UNCHANGED routeVars => RouteTypes' BY DEF RouteTypes, routeVars
<1>3. LoopTypes /\ UNCHANGED loopVars => LoopTypes'   BY DEF LoopTypes, loopVars
<1>4. MsgTypes /\ UNCHANGED msgVars => MsgTypes'      BY DEF MsgTypes, msgVars
<1>5. MemTypes /\ UNCHANGED memVars => MemTypes'      BY DEF MemTypes, memVars
<1>6. AuxTypes /\ UNCHANGED auxVars => AuxTypes'      BY DEF AuxTypes, auxVars
<1> QED BY <1>1, <1>2, <1>3, <1>4, <1>5, <1>6

LEMMA TypeInit == Init => TypeInv
<1> SUFFICES ASSUME Init PROVE TypeInv
  OBVIOUS
<1>1. FileTypes  BY DEF Init, FileTypes
<1>2. RouteTypes BY DEF Init, RouteTypes
<1>3. LoopTypes  BY DEF Init, LoopTypes
<1>4. MsgTypes   BY DEF Init, MsgTypes
<1>5. MemTypes   BY LimitAssumption DEF Init, MemTypes, Phase
<1>6. AuxTypes   BY LimitAssumption DEF Init, AuxTypes, MaxAge
<1>7. PhaseOK    BY DEF Init, PhaseOK, InLoop
<1> QED BY <1>1, <1>2, <1>3, <1>4, <1>5, <1>6, <1>7 DEF TypeInv, TypeOK

\* Every step of the relay, of a fault, of the world or of a bot keeps the types.
LEMMA TypeStep == TypeInv /\ [Next]_vars => TypeInv'
<1> SUFFICES ASSUME TypeInv, [Next]_vars PROVE TypeInv'
  OBVIOUS
<1>1. ASSUME StartTick PROVE TypeInv'
  <2>1. LoopTypes'
    BY <1>1, AddressAssumption
       DEF StartTick, TypeInv, TypeOK, LoopTypes, FileTypes
  <2>2. MemTypes'
    BY <1>1 DEF StartTick, TypeInv, TypeOK, RouteTypes, MemTypes, Phase
  <2>3. PhaseOK'
    BY <1>1
       DEF StartTick, TypeInv, TypeOK, PhaseOK, InLoop, LoopTypes, FileTypes,
           loopVars, msgVars, memVars
  <2> QED
    BY <1>1, <2>1, <2>2, <2>3, Frames DEF StartTick, TypeInv, TypeOK
<1>2. ASSUME BeginBot PROVE TypeInv'
  <2>1. LoopTypes'
    BY <1>2, AddressAssumption
       DEF BeginBot, TypeInv, TypeOK, LoopTypes, FileTypes
  <2>2. MemTypes'
    BY <1>2 DEF BeginBot, TypeInv, TypeOK, RouteTypes, MemTypes, Phase
  <2>3. PhaseOK'
    BY <1>2
       DEF BeginBot, TypeInv, TypeOK, PhaseOK, InLoop, LoopTypes, FileTypes,
           loopVars, msgVars, memVars
  <2> QED
    BY <1>2, <2>1, <2>2, <2>3, Frames DEF BeginBot, TypeInv, TypeOK
<1>3. ASSUME NEW m \in Msg, TakeReceipt(m) PROVE TypeInv'
  <2>1. FileTypes'
    BY <1>3, AddressAssumption
       DEF TakeReceipt, TypeInv, TypeOK, PhaseOK, InLoop, FileTypes
  <2>2. LoopTypes'
    BY <1>3, AddressAssumption
       DEF TakeReceipt, TypeInv, TypeOK, LoopTypes, FileTypes
  <2>3. MemTypes'
    BY <1>3 DEF TakeReceipt, TypeInv, TypeOK, RouteTypes, MemTypes, Phase
  <2>4. PhaseOK'
    BY <1>3
       DEF TakeReceipt, TypeInv, TypeOK, PhaseOK, InLoop, LoopTypes, FileTypes,
           loopVars, msgVars, memVars
  <2> QED
    BY <1>3, <2>1, <2>2, <2>3, <2>4, Frames DEF TakeReceipt, TypeInv, TypeOK
<1>4. ASSUME AddReadIds PROVE TypeInv'
  <2>1. cur \in Bot /\ readIds[cur] \o taken \in Seq(Msg)
    BY <1>4 DEF AddReadIds, TypeInv, TypeOK, PhaseOK, InLoop, FileTypes, MemTypes
  <2>2. LastN(readIds[cur] \o taken, MaxReadIds) \in Seq(Msg)
    BY <2>1, LastNType, LimitAssumption
  <2>3. FileTypes'
    BY <1>4, <2>1, <2>2 DEF AddReadIds, TypeInv, TypeOK, FileTypes
  <2>4. LoopTypes'
    BY <1>4, <2>1 DEF AddReadIds, TypeInv, TypeOK, LoopTypes, FileTypes
  <2>5. MemTypes'
    BY <1>4 DEF AddReadIds, TypeInv, TypeOK, RouteTypes, MemTypes, Phase
  <2>6. PhaseOK'
    BY <1>4
       DEF AddReadIds, TypeInv, TypeOK, PhaseOK, InLoop, LoopTypes, FileTypes,
           loopVars, msgVars, memVars
  <2> QED
    BY <1>4, <2>3, <2>4, <2>5, <2>6, Frames DEF AddReadIds, TypeInv, TypeOK
<1>5. ASSUME NEW m \in Msg, RefuseInvalid(m) PROVE TypeInv'
  <2>1. FileTypes'
    BY <1>5, AddressAssumption
       DEF RefuseInvalid, OutboxWithout, TypeInv, TypeOK, PhaseOK, InLoop,
           FileTypes
  <2>2. LoopTypes'
    BY <1>5, AddressAssumption
       DEF RefuseInvalid, TypeInv, TypeOK, LoopTypes, FileTypes
  <2>3. PhaseOK'
    BY <1>5
       DEF RefuseInvalid, TypeInv, TypeOK, PhaseOK, InLoop, LoopTypes,
           FileTypes, loopVars, msgVars, memVars
  <2> QED
    BY <1>5, <2>1, <2>2, <2>3, Frames DEF RefuseInvalid, TypeInv, TypeOK
<1>6. ASSUME NEW m \in Msg, DeferOverRate(m) PROVE TypeInv'
  <2>1. LoopTypes'
    BY <1>6, AddressAssumption
       DEF DeferOverRate, TypeInv, TypeOK, LoopTypes, FileTypes
  <2>2. PhaseOK'
    BY <1>6
       DEF DeferOverRate, TypeInv, TypeOK, PhaseOK, InLoop, LoopTypes,
           FileTypes, loopVars, msgVars, memVars
  <2> QED
    BY <1>6, <2>1, <2>2, Frames DEF DeferOverRate, TypeInv, TypeOK
<1>7. ASSUME NEW m \in Msg, Admit(m) PROVE TypeInv'
  <2>1. LoopTypes'
    BY <1>7, AddressAssumption
       DEF Admit, UnderRate, TypeInv, TypeOK, LoopTypes, FileTypes
  <2>2. MsgTypes'
    BY <1>7, AddressAssumption DEF Admit, UnderRate, TypeInv, TypeOK, MsgTypes
  <2>3. cur \in Bot /\ rate[cur] + 1 \in 0..PerMinute
    BY <1>7, LimitAssumption
       DEF Admit, UnderRate, TypeInv, TypeOK, PhaseOK, InLoop, MemTypes
  <2>4. MemTypes'
    BY <1>7, <2>3 DEF Admit, TypeInv, TypeOK, MemTypes, Phase
  <2>5. PhaseOK'
    BY <1>7
       DEF Admit, TypeInv, TypeOK, PhaseOK, InLoop, LoopTypes, FileTypes,
           loopVars, msgVars, memVars
  <2> QED
    BY <1>7, <2>1, <2>2, <2>4, <2>5, Frames DEF Admit, TypeInv, TypeOK
<1>8. ASSUME NEW b \in Bot, SkipRecipient(b) PROVE TypeInv'
  <2>1. MsgTypes'
    BY <1>8, AddressAssumption DEF SkipRecipient, TypeInv, TypeOK, MsgTypes
  <2>2. PhaseOK'
    BY <1>8
       DEF SkipRecipient, TypeInv, TypeOK, PhaseOK, InLoop, LoopTypes,
           FileTypes, loopVars, msgVars, memVars
  <2> QED
    BY <1>8, <2>1, <2>2, Frames DEF SkipRecipient, TypeInv, TypeOK
<1>9. ASSUME NEW b \in Bot, Deliver(b) PROVE TypeInv'
  <2>1. FileTypes'
    BY <1>9, AddressAssumption
       DEF Deliver, TypeInv, TypeOK, PhaseOK, InLoop, FileTypes
  <2>2. MsgTypes'
    BY <1>9, AddressAssumption DEF Deliver, TypeInv, TypeOK, MsgTypes
  <2>3. PhaseOK'
    BY <1>9
       DEF Deliver, TypeInv, TypeOK, PhaseOK, InLoop, LoopTypes, FileTypes,
           loopVars, msgVars, memVars
  <2> QED
    BY <1>9, <2>1, <2>2, <2>3, Frames DEF Deliver, TypeInv, TypeOK
<1>10. ASSUME NEW b \in Bot, DeliverError(b) PROVE TypeInv'
  <2>1. MsgTypes'
    BY <1>10, AddressAssumption DEF DeliverError, TypeInv, TypeOK, MsgTypes
  <2>2. AuxTypes'
    BY <1>10, LimitAssumption
       DEF DeliverError, Fault, TypeInv, TypeOK, MsgTypes, AuxTypes, MaxAge,
           PhaseOK
  <2>3. PhaseOK'
    BY <1>10
       DEF DeliverError, TypeInv, TypeOK, PhaseOK, InLoop, LoopTypes,
           FileTypes, loopVars, msgVars, memVars
  <2> QED
    BY <1>10, <2>1, <2>2, <2>3, Frames DEF DeliverError, TypeInv, TypeOK
<1>11. ASSUME FileOriginal PROVE TypeInv'
  <2>1. cur \in Bot /\ msg \in Msg
    BY <1>11 DEF FileOriginal, TypeInv, PhaseOK, InLoop
  <2>2. /\ outbox' \in [Bot -> SUBSET Msg]
        /\ sent' \in [Bot -> SUBSET Msg]
        /\ refused' \in [Bot -> SUBSET Msg]
    <3>1. outbox' \in [Bot -> SUBSET Msg]
      BY <1>11, <2>1 DEF FileOriginal, OutboxWithout, TypeInv, TypeOK, FileTypes
    <3>2. /\ sent' = [sent EXCEPT ![cur] = @ \cup {msg}] \/ sent' = sent
          /\ refused' = [refused EXCEPT ![cur] = @ \cup {msg}] \/ refused' = refused
      BY <1>11 DEF FileOriginal
    <3>3. sent \in [Bot -> SUBSET Msg] /\ refused \in [Bot -> SUBSET Msg]
      BY DEF TypeInv, TypeOK, FileTypes
    <3>4. sent' \in [Bot -> SUBSET Msg]
      BY <2>1, <3>2, <3>3
    <3>5. refused' \in [Bot -> SUBSET Msg]
      BY <2>1, <3>2, <3>3
    <3> QED BY <3>1, <3>4, <3>5
  <2>3. FileTypes'
    BY <1>11, <2>2 DEF FileOriginal, TypeInv, TypeOK, FileTypes
  <2>4. MsgTypes'
    BY <1>11, AddressAssumption DEF FileOriginal, TypeInv, TypeOK, MsgTypes
  <2>5. MemTypes'
    BY <1>11 DEF FileOriginal, TypeInv, TypeOK, RouteTypes, MemTypes, Phase
  <2>6. PhaseOK'
    BY <1>11
       DEF FileOriginal, TypeInv, TypeOK, PhaseOK, InLoop, LoopTypes,
           FileTypes, loopVars, msgVars, memVars
  <2> QED
    BY <1>11, <2>3, <2>4, <2>5, <2>6, Frames DEF FileOriginal, TypeInv, TypeOK
<1>12. ASSUME FileError PROVE TypeInv'
  <2>1. MsgTypes'
    BY <1>12, AddressAssumption DEF FileError, TypeInv, TypeOK, MsgTypes
  <2>2. MemTypes'
    BY <1>12 DEF FileError, TypeInv, TypeOK, RouteTypes, MemTypes, Phase
  <2>3. AuxTypes'
    BY <1>12, LimitAssumption
       DEF FileError, Fault, TypeInv, TypeOK, MsgTypes, AuxTypes, MaxAge,
           PhaseOK
  <2>4. PhaseOK'
    BY <1>12
       DEF FileError, TypeInv, TypeOK, PhaseOK, InLoop, LoopTypes, FileTypes,
           loopVars, msgVars, memVars
  <2> QED
    BY <1>12, <2>1, <2>2, <2>3, <2>4, Frames DEF FileError, TypeInv, TypeOK
<1>13. ASSUME EndBot PROVE TypeInv'
  <2>1. LoopTypes'
    BY <1>13 DEF EndBot, TypeInv, TypeOK, LoopTypes, PhaseOK, InLoop
  <2>2. MemTypes'
    BY <1>13 DEF EndBot, TypeInv, TypeOK, RouteTypes, MemTypes, Phase
  <2>3. PhaseOK'
    BY <1>13
       DEF EndBot, TypeInv, TypeOK, PhaseOK, InLoop, LoopTypes, FileTypes,
           loopVars, msgVars, memVars
  <2> QED
    BY <1>13, <2>1, <2>2, <2>3, Frames DEF EndBot, TypeInv, TypeOK
<1>14. ASSUME EndBots PROVE TypeInv'
  <2>1. LoopTypes'
    BY <1>14, AddressAssumption
       DEF EndBots, TypeInv, TypeOK, LoopTypes, FileTypes
  <2>2. MemTypes'
    BY <1>14 DEF EndBots, TypeInv, TypeOK, RouteTypes, MemTypes, Phase
  <2>3. PhaseOK'
    BY <1>14
       DEF EndBots, TypeInv, TypeOK, PhaseOK, InLoop, LoopTypes, FileTypes,
           loopVars, msgVars, memVars
  <2> QED
    BY <1>14, <2>1, <2>2, <2>3, Frames DEF EndBots, TypeInv, TypeOK
<1>15. ASSUME SweepBot PROVE TypeInv'
  <2>1. LoopTypes'
    BY <1>15, AddressAssumption
       DEF SweepBot, TypeInv, TypeOK, LoopTypes, FileTypes
  <2>2. MemTypes'
    BY <1>15 DEF SweepBot, TypeInv, TypeOK, RouteTypes, MemTypes, Phase
  <2>3. PhaseOK'
    BY <1>15
       DEF SweepBot, TypeInv, TypeOK, PhaseOK, InLoop, LoopTypes, FileTypes,
           loopVars, msgVars, memVars
  <2> QED
    BY <1>15, <2>1, <2>2, <2>3, Frames DEF SweepBot, TypeInv, TypeOK
<1>16. ASSUME NEW m \in Msg, AppendToShard(m) PROVE TypeInv'
  <2>1. FileTypes'
    BY <1>16, AddressAssumption
       DEF AppendToShard, ArchiveWith, TypeInv, TypeOK, PhaseOK, InLoop,
           FileTypes
  <2>2. MsgTypes'
    BY <1>16, AddressAssumption DEF AppendToShard, TypeInv, TypeOK, MsgTypes
  <2>3. MemTypes'
    BY <1>16 DEF AppendToShard, TypeInv, TypeOK, RouteTypes, MemTypes, Phase
  <2>4. PhaseOK'
    BY <1>16
       DEF AppendToShard, TypeInv, TypeOK, PhaseOK, InLoop, LoopTypes,
           FileTypes, loopVars, msgVars, memVars
  <2> QED
    BY <1>16, <2>1, <2>2, <2>3, <2>4, Frames DEF AppendToShard, TypeInv, TypeOK
<1>17. ASSUME NEW m \in Msg, AppendError(m) PROVE TypeInv'
  <2>1. LoopTypes'
    BY <1>17, AddressAssumption
       DEF AppendError, TypeInv, TypeOK, LoopTypes, FileTypes
  <2>2. AuxTypes'
    BY <1>17, LimitAssumption
       DEF AppendError, Fault, TypeInv, TypeOK, MsgTypes, AuxTypes, MaxAge,
           PhaseOK
  <2>3. PhaseOK'
    BY <1>17
       DEF AppendError, TypeInv, TypeOK, PhaseOK, InLoop, LoopTypes, FileTypes,
           loopVars, msgVars, memVars
  <2> QED
    BY <1>17, <2>1, <2>2, <2>3, Frames DEF AppendError, TypeInv, TypeOK
<1>18. ASSUME DropLive PROVE TypeInv'
  <2>1. FileTypes'
    BY <1>18, AddressAssumption
       DEF DropLive, InboxWithout, TypeInv, TypeOK, PhaseOK, InLoop, FileTypes
  <2>2. LoopTypes'
    BY <1>18, AddressAssumption
       DEF DropLive, TypeInv, TypeOK, LoopTypes, FileTypes
  <2>3. MsgTypes'
    BY <1>18, AddressAssumption DEF DropLive, TypeInv, TypeOK, MsgTypes
  <2>4. MemTypes'
    BY <1>18 DEF DropLive, TypeInv, TypeOK, RouteTypes, MemTypes, Phase
  <2>5. PhaseOK'
    BY <1>18
       DEF DropLive, TypeInv, TypeOK, PhaseOK, InLoop, LoopTypes, FileTypes,
           loopVars, msgVars, memVars
  <2> QED
    BY <1>18, <2>1, <2>2, <2>3, <2>4, <2>5, Frames
       DEF DropLive, TypeInv, TypeOK
<1>19. ASSUME DropError PROVE TypeInv'
  <2>1. LoopTypes'
    BY <1>19, AddressAssumption
       DEF DropError, TypeInv, TypeOK, LoopTypes, FileTypes
  <2>2. MsgTypes'
    BY <1>19, AddressAssumption DEF DropError, TypeInv, TypeOK, MsgTypes
  <2>3. MemTypes'
    BY <1>19 DEF DropError, TypeInv, TypeOK, RouteTypes, MemTypes, Phase
  <2>4. AuxTypes'
    BY <1>19, LimitAssumption
       DEF DropError, Fault, TypeInv, TypeOK, MsgTypes, AuxTypes, MaxAge,
           PhaseOK
  <2>5. PhaseOK'
    BY <1>19
       DEF DropError, TypeInv, TypeOK, PhaseOK, InLoop, LoopTypes, FileTypes,
           loopVars, msgVars, memVars
  <2> QED
    BY <1>19, <2>1, <2>2, <2>3, <2>4, <2>5, Frames
       DEF DropError, TypeInv, TypeOK
<1>20. ASSUME EndSweepBot PROVE TypeInv'
  <2>1. LoopTypes'
    BY <1>20 DEF EndSweepBot, TypeInv, TypeOK, LoopTypes, PhaseOK, InLoop
  <2>2. MemTypes'
    BY <1>20 DEF EndSweepBot, TypeInv, TypeOK, RouteTypes, MemTypes, Phase
  <2>3. PhaseOK'
    BY <1>20
       DEF EndSweepBot, TypeInv, TypeOK, PhaseOK, InLoop, LoopTypes, FileTypes,
           loopVars, msgVars, memVars
  <2> QED
    BY <1>20, <2>1, <2>2, <2>3, Frames DEF EndSweepBot, TypeInv, TypeOK
<1>21. ASSUME EndSweep PROVE TypeInv'
  <2>1. MemTypes'
    BY <1>21 DEF EndSweep, TypeInv, TypeOK, RouteTypes, MemTypes, Phase
  <2>2. PhaseOK'
    BY <1>21
       DEF EndSweep, TypeInv, TypeOK, PhaseOK, InLoop, LoopTypes, FileTypes,
           loopVars, msgVars, memVars
  <2> QED
    BY <1>21, <2>1, <2>2, Frames DEF EndSweep, TypeInv, TypeOK
<1>22. ASSUME Crash PROVE TypeInv'
  <2>1. LoopTypes'
    BY <1>22, AddressAssumption
       DEF Crash, TypeInv, TypeOK, LoopTypes, FileTypes
  <2>2. MsgTypes'
    BY <1>22, AddressAssumption DEF Crash, TypeInv, TypeOK, MsgTypes
  <2>3. MemTypes'
    BY <1>22, LimitAssumption DEF Crash, TypeInv, TypeOK, MemTypes, Phase
  <2>4. AuxTypes'
    BY <1>22, LimitAssumption
       DEF Crash, Fault, TypeInv, TypeOK, MsgTypes, AuxTypes, MaxAge, PhaseOK
  <2>5. PhaseOK'
    BY <1>22
       DEF Crash, TypeInv, TypeOK, PhaseOK, InLoop, LoopTypes, FileTypes,
           loopVars, msgVars, memVars
  <2> QED
    BY <1>22, <2>1, <2>2, <2>3, <2>4, <2>5, Frames DEF Crash, TypeInv, TypeOK
<1>23. ASSUME Day PROVE TypeInv'
  <2>1. \A m \in Msg : age[m] < MaxAge => age[m] + 1 \in 0..MaxAge
    BY LimitAssumption DEF TypeInv, TypeOK, AuxTypes, MaxAge
  <2>2. AuxTypes'
    BY <1>23, <2>1 DEF Day, TypeInv, TypeOK, AuxTypes
  <2>3. PhaseOK'
    BY <1>23
       DEF Day, TypeInv, TypeOK, PhaseOK, InLoop, LoopTypes, FileTypes,
           loopVars, msgVars, memVars
  <2> QED
    BY <1>23, <2>2, <2>3, Frames DEF Day, TypeInv, TypeOK
<1>24. ASSUME SweepFallsDue PROVE TypeInv'
  <2>1. MemTypes'
    BY <1>24 DEF SweepFallsDue, TypeInv, TypeOK, RouteTypes, MemTypes, Phase
  <2>2. PhaseOK'
    BY <1>24
       DEF SweepFallsDue, TypeInv, TypeOK, PhaseOK, InLoop, LoopTypes,
           FileTypes, loopVars, msgVars, memVars
  <2> QED
    BY <1>24, <2>1, <2>2, Frames DEF SweepFallsDue, TypeInv, TypeOK
<1>25. ASSUME NEW b \in Bot, ExpireSend(b) PROVE TypeInv'
  <2>1. rate[b] - 1 \in 0..PerMinute
    BY <1>25, LimitAssumption DEF ExpireSend, TypeInv, TypeOK, MemTypes
  <2>2. MemTypes'
    BY <1>25, <2>1 DEF ExpireSend, TypeInv, TypeOK, MemTypes
  <2>3. PhaseOK'
    BY <1>25
       DEF ExpireSend, TypeInv, TypeOK, PhaseOK, InLoop, LoopTypes, FileTypes,
           loopVars, msgVars, memVars
  <2> QED
    BY <1>25, <2>2, <2>3, Frames DEF ExpireSend, TypeInv, TypeOK
<1>26. ASSUME NEW r \in RouteFiles, NEW ok \in BOOLEAN, EditRoutes(r, ok) PROVE TypeInv'
  <2>1. RouteTypes'
    BY <1>26 DEF EditRoutes, TypeInv, TypeOK, RouteTypes
  <2>2. PhaseOK'
    BY <1>26
       DEF EditRoutes, TypeInv, TypeOK, PhaseOK, InLoop, LoopTypes, FileTypes,
           loopVars, msgVars, memVars
  <2> QED
    BY <1>26, <2>1, <2>2, Frames DEF EditRoutes, TypeInv, TypeOK
<1>27. ASSUME NEW m \in Msg, Post(m) PROVE TypeInv'
  <2>1. FileTypes'
    BY <1>27, AddressAssumption
       DEF Post, TypeInv, TypeOK, PhaseOK, InLoop, FileTypes
  <2>2. AuxTypes'
    BY <1>27, LimitAssumption
       DEF Post, TypeInv, TypeOK, MsgTypes, AuxTypes, MaxAge, PhaseOK
  <2>3. PhaseOK'
    BY <1>27
       DEF Post, TypeInv, TypeOK, PhaseOK, InLoop, LoopTypes, FileTypes,
           loopVars, msgVars, memVars
  <2> QED
    BY <1>27, <2>1, <2>2, <2>3, Frames DEF Post, TypeInv, TypeOK
<1>28. ASSUME NEW b \in Bot, NEW m \in Msg, DropReceipt(b, m) PROVE TypeInv'
  <2>1. FileTypes'
    BY <1>28, AddressAssumption
       DEF DropReceipt, TypeInv, TypeOK, PhaseOK, InLoop, FileTypes
  <2>2. PhaseOK'
    BY <1>28
       DEF DropReceipt, TypeInv, TypeOK, PhaseOK, InLoop, LoopTypes, FileTypes,
           loopVars, msgVars, memVars
  <2> QED
    BY <1>28, <2>1, <2>2, Frames DEF DropReceipt, TypeInv, TypeOK
<1>29. ASSUME AbortTick PROVE TypeInv'
  <2>1. LoopTypes'
    BY <1>29 DEF AbortTick, TypeInv, TypeOK, LoopTypes
  <2>2. MemTypes'
    BY <1>29 DEF AbortTick, TypeInv, TypeOK, MemTypes, Phase
  <2>3. AuxTypes'
    BY <1>29, LimitAssumption DEF AbortTick, Fault, TypeInv, TypeOK, AuxTypes
  <2>4. PhaseOK'
    BY <1>29 DEF AbortTick, PhaseOK, InLoop
  <2> QED
    BY <1>29, <2>1, <2>2, <2>3, <2>4, Frames DEF AbortTick, TypeInv, TypeOK
<1>30. CASE UNCHANGED vars
  <2>1. PhaseOK'
    BY <1>30 DEF vars, loopVars, msgVars, memVars, TypeInv, PhaseOK
  <2> QED BY <1>30, <2>1, Frames DEF vars, TypeInv, TypeOK
<1>31. ASSUME NEW m \in Msg, ReceiptKept(m) PROVE TypeInv'
  <2>1. LoopTypes'
    BY <1>31 DEF ReceiptKept, TypeInv, TypeOK, LoopTypes
  <2>2. MemTypes'
    BY <1>31 DEF ReceiptKept, TypeInv, TypeOK, MemTypes
  <2>3. AuxTypes'
    BY <1>31, LimitAssumption DEF ReceiptKept, Fault, TypeInv, TypeOK, AuxTypes
  <2>4. PhaseOK'
    BY <1>31
       DEF ReceiptKept, TypeInv, TypeOK, PhaseOK, InLoop, LoopTypes, FileTypes,
           loopVars, msgVars, memVars
  <2> QED
    BY <1>31, <2>1, <2>2, <2>3, <2>4, Frames DEF ReceiptKept, TypeInv, TypeOK
<1>32. ASSUME NEW m \in Msg, RefuseError(m) PROVE TypeInv'
  <2>1. LoopTypes'
    BY <1>32 DEF RefuseError, TypeInv, TypeOK, LoopTypes
  <2>2. AuxTypes'
    BY <1>32, LimitAssumption DEF RefuseError, Fault, TypeInv, TypeOK, AuxTypes
  <2>3. PhaseOK'
    BY <1>32
       DEF RefuseError, TypeInv, TypeOK, PhaseOK, InLoop, LoopTypes, FileTypes,
           loopVars, msgVars, memVars
  <2> QED
    BY <1>32, <2>1, <2>2, <2>3, Frames DEF RefuseError, TypeInv, TypeOK
<1> QED
  BY <1>1, <1>2, <1>3, <1>4, <1>5, <1>6, <1>7, <1>8, <1>9, <1>10, <1>11, <1>12,
     <1>13, <1>14, <1>15, <1>16, <1>17, <1>18, <1>19, <1>20, <1>21, <1>22,
     <1>23, <1>24, <1>25, <1>26, <1>27, <1>28, <1>29, <1>30, <1>31, <1>32
     DEF Next, RelayStep, FaultStep, WorldStep, BotStep

\* Type correctness of the relay, with the positions of its loops.
THEOREM TypeCorrect == Spec => []TypeOK
<1>1. Spec => []TypeInv
  BY TypeInit, TypeStep, PTL DEF Spec
<1>2. TypeInv => TypeOK
  BY DEF TypeInv
<1> QED BY <1>1, <1>2, PTL

=============================================================================
