--------------------------- MODULE MailRelaySafety ---------------------------
(***************************************************************************)
(* The safety of the relay for every set of bots, envelopes, routes files  *)
(* and limits, and any number of faults; and that it implements the mail   *)
(* promise of MailDelivery.                                                *)
(***************************************************************************)
EXTENDS MailRelayProofs

(***************************************************************************)
(* What the loops of a tick rely on: the listing they go through names     *)
(* files that are still there, because only the relay removes them; and    *)
(* the envelope in hand is still where it was picked up.                   *)
(***************************************************************************)
LoopInv ==
    /\ pc \in {"files", "deliver"} => files \subseteq outbox[cur]
    /\ pc = "deliver" =>
        /\ msg \in (outbox[cur] \cap Valid) \ files
        /\ pending \cup okTo \subseteq To[msg]
        /\ pending \cap okTo = {}
        /\ cur \notin okTo
        /\ \A r \in okTo : msg \in inbox[r]
    /\ pc \in {"sweepFiles", "sweepDrop"} => files \subseteq inbox[cur]
    /\ pc = "sweepDrop" => msg \in files \cap archive[cur]

(***************************************************************************)
(* Why anybody holds m: m is filed as sent, or it is being delivered, or a *)
(* fault interrupted its delivery.                                         *)
(***************************************************************************)
HeldInv ==
    \A r \in Bot : \A m \in Holds(r) :
        \/ m \in cut
        \/ m \in sent[Author[m]]
        \/ pc = "deliver" /\ msg = m /\ r \in okTo

\* The steps that move mail.
Loud ==
    \/ FileOriginal \/ DropLive
    \/ \E b \in Bot : Deliver(b)
    \/ \E m \in Msg : Post(m) \/ RefuseInvalid(m) \/ AppendToShard(m)

\* What every other step does: no mail moves, and an envelope in hand is kept
\* in hand or noted as interrupted.
Quiet ==
    /\ UNCHANGED <<outbox, inbox, archive, sent, refused, posted>>
    /\ cut \subseteq cut'
    /\ pc = "deliver" /\ okTo # {} =>
        msg \in cut' \/ (pc' = "deliver" /\ UNCHANGED <<msg, okTo>>)
    /\ pc = "sweepDrop" =>
        msg \in cut' \/ (pc' = "sweepDrop" /\ UNCHANGED <<msg, cur>>)

\* Every step moves mail or is quiet.
LEMMA QuietOrLoud == [Next]_vars => Quiet \/ Loud
<1> SUFFICES ASSUME [Next]_vars PROVE Quiet \/ Loud
  OBVIOUS
<1>1. ASSUME StartTick PROVE Quiet
  BY <1>1 DEF StartTick, Quiet, fileVars, routeVars, loopVars, msgVars, memVars, auxVars
<1>2. ASSUME BeginBot PROVE Quiet
  BY <1>2 DEF BeginBot, Quiet, fileVars, routeVars, loopVars, msgVars, memVars, auxVars
<1>3. ASSUME NEW m \in Msg, TakeReceipt(m) PROVE Quiet
  BY <1>3 DEF TakeReceipt, Quiet, fileVars, routeVars, loopVars, msgVars, memVars, auxVars
<1>4. ASSUME AddReadIds PROVE Quiet
  BY <1>4 DEF AddReadIds, Quiet, fileVars, routeVars, loopVars, msgVars, memVars, auxVars
<1>5. ASSUME NEW m \in Msg, RefuseInvalid(m) PROVE Loud
  BY <1>5 DEF RefuseInvalid, Loud
<1>6. ASSUME NEW m \in Msg, DeferOverRate(m) PROVE Quiet
  BY <1>6 DEF DeferOverRate, Quiet, fileVars, routeVars, loopVars, msgVars, memVars, auxVars
<1>7. ASSUME NEW m \in Msg, Admit(m) PROVE Quiet
  BY <1>7 DEF Admit, Quiet, fileVars, routeVars, loopVars, msgVars, memVars, auxVars
<1>8. ASSUME NEW b \in Bot, SkipRecipient(b) PROVE Quiet
  BY <1>8 DEF SkipRecipient, Quiet, fileVars, routeVars, loopVars, msgVars, memVars, auxVars
<1>9. ASSUME NEW b \in Bot, Deliver(b) PROVE Loud
  BY <1>9 DEF Deliver, Loud
<1>10. ASSUME NEW b \in Bot, DeliverError(b) PROVE Quiet
  BY <1>10 DEF DeliverError, Quiet, fileVars, routeVars, loopVars, msgVars, memVars, auxVars
<1>11. ASSUME FileOriginal PROVE Loud
  BY <1>11 DEF FileOriginal, Loud
<1>12. ASSUME FileError PROVE Quiet
  BY <1>12 DEF FileError, Quiet, fileVars, routeVars, loopVars, msgVars, memVars, auxVars
<1>13. ASSUME EndBot PROVE Quiet
  BY <1>13 DEF EndBot, Quiet, fileVars, routeVars, loopVars, msgVars, memVars, auxVars
<1>14. ASSUME EndBots PROVE Quiet
  BY <1>14 DEF EndBots, Quiet, fileVars, routeVars, loopVars, msgVars, memVars, auxVars
<1>15. ASSUME SweepBot PROVE Quiet
  BY <1>15 DEF SweepBot, Quiet, fileVars, routeVars, loopVars, msgVars, memVars, auxVars
<1>16. ASSUME NEW m \in Msg, AppendToShard(m) PROVE Loud
  BY <1>16 DEF AppendToShard, Loud
<1>17. ASSUME NEW m \in Msg, AppendError(m) PROVE Quiet
  BY <1>17 DEF AppendError, Quiet, fileVars, routeVars, loopVars, msgVars, memVars, auxVars
<1>18. ASSUME DropLive PROVE Loud
  BY <1>18 DEF DropLive, Loud
<1>19. ASSUME DropError PROVE Quiet
  BY <1>19 DEF DropError, Quiet, fileVars, routeVars, loopVars, msgVars, memVars, auxVars
<1>20. ASSUME EndSweepBot PROVE Quiet
  BY <1>20 DEF EndSweepBot, Quiet, fileVars, routeVars, loopVars, msgVars, memVars, auxVars
<1>21. ASSUME EndSweep PROVE Quiet
  BY <1>21 DEF EndSweep, Quiet, fileVars, routeVars, loopVars, msgVars, memVars, auxVars
<1>22. ASSUME AbortTick PROVE Quiet
  BY <1>22 DEF AbortTick, Quiet, fileVars, routeVars, loopVars, msgVars, memVars, auxVars
<1>23. ASSUME Crash PROVE Quiet
  BY <1>23 DEF Crash, Quiet, fileVars, routeVars, loopVars, msgVars, memVars, auxVars
<1>24. ASSUME Day PROVE Quiet
  BY <1>24 DEF Day, Quiet, fileVars, routeVars, loopVars, msgVars, memVars, auxVars
<1>25. ASSUME SweepFallsDue PROVE Quiet
  BY <1>25 DEF SweepFallsDue, Quiet, fileVars, routeVars, loopVars, msgVars, memVars, auxVars
<1>26. ASSUME NEW b \in Bot, ExpireSend(b) PROVE Quiet
  BY <1>26 DEF ExpireSend, Quiet, fileVars, routeVars, loopVars, msgVars, memVars, auxVars
<1>27. ASSUME NEW r \in RouteFiles, NEW ok \in BOOLEAN, EditRoutes(r, ok) PROVE Quiet
  BY <1>27 DEF EditRoutes, Quiet, fileVars, routeVars, loopVars, msgVars, memVars, auxVars
<1>28. ASSUME NEW m \in Msg, Post(m) PROVE Loud
  BY <1>28 DEF Post, Loud
<1>29. ASSUME NEW b \in Bot, NEW m \in Msg, DropReceipt(b, m) PROVE Quiet
  BY <1>29 DEF DropReceipt, Quiet, fileVars, routeVars, loopVars, msgVars, memVars, auxVars
<1>30. CASE UNCHANGED vars
  BY <1>30 DEF vars, Quiet, fileVars, routeVars, loopVars, msgVars, memVars, auxVars
<1>31. ASSUME NEW m \in Msg, ReceiptKept(m) PROVE Quiet
  BY <1>31 DEF ReceiptKept, Quiet, fileVars, routeVars, loopVars, msgVars, memVars, auxVars
<1>32. ASSUME NEW m \in Msg, RefuseError(m) PROVE Quiet
  BY <1>32 DEF RefuseError, Quiet, fileVars, routeVars, loopVars, msgVars, memVars, auxVars
<1> QED
  BY <1>1, <1>2, <1>3, <1>4, <1>5, <1>6, <1>7, <1>8, <1>9, <1>10, <1>11,
     <1>12, <1>13, <1>14, <1>15, <1>16, <1>17, <1>18, <1>19, <1>20, <1>21,
     <1>22, <1>23, <1>24, <1>25, <1>26, <1>27, <1>28, <1>29, <1>30, <1>31, <1>32
     DEF Next, RelayStep, FaultStep, WorldStep, BotStep

\* The loops of a tick keep what they rely on.
LEMMA LoopStep == TypeInv /\ LoopInv /\ [Next]_vars => LoopInv'
<1> SUFFICES ASSUME TypeInv, LoopInv, [Next]_vars PROVE LoopInv'
  OBVIOUS
<1>1. ASSUME StartTick PROVE LoopInv'
  BY <1>1, AddressAssumption DEF StartTick, LoopInv, TypeInv, PhaseOK, InLoop, TypeOK,
     FileTypes, fileVars, routeVars, loopVars, msgVars, memVars, auxVars
<1>2. ASSUME BeginBot PROVE LoopInv'
  BY <1>2, AddressAssumption DEF BeginBot, LoopInv, TypeInv, PhaseOK, InLoop, TypeOK,
     FileTypes, fileVars, routeVars, loopVars, msgVars, memVars, auxVars
<1>3. ASSUME NEW m \in Msg, TakeReceipt(m) PROVE LoopInv'
  BY <1>3, AddressAssumption DEF TakeReceipt, LoopInv, TypeInv, PhaseOK, InLoop, TypeOK,
     FileTypes, fileVars, routeVars, loopVars, msgVars, memVars, auxVars
<1>4. ASSUME AddReadIds PROVE LoopInv'
  BY <1>4, AddressAssumption DEF AddReadIds, LoopInv, TypeInv, PhaseOK, InLoop, TypeOK,
     FileTypes, fileVars, routeVars, loopVars, msgVars, memVars, auxVars
<1>5. ASSUME NEW m \in Msg, RefuseInvalid(m) PROVE LoopInv'
  BY <1>5, AddressAssumption DEF RefuseInvalid, OutboxWithout, LoopInv, TypeInv, PhaseOK, InLoop, TypeOK,
     FileTypes, fileVars, routeVars, loopVars, msgVars, memVars, auxVars
<1>6. ASSUME NEW m \in Msg, DeferOverRate(m) PROVE LoopInv'
  BY <1>6, AddressAssumption DEF DeferOverRate, LoopInv, TypeInv, PhaseOK, InLoop, TypeOK,
     FileTypes, fileVars, routeVars, loopVars, msgVars, memVars, auxVars
<1>7. ASSUME NEW m \in Msg, Admit(m) PROVE LoopInv'
  BY <1>7, AddressAssumption DEF Admit, LoopInv, TypeInv, PhaseOK, InLoop, TypeOK,
     FileTypes, fileVars, routeVars, loopVars, msgVars, memVars, auxVars
<1>8. ASSUME NEW b \in Bot, SkipRecipient(b) PROVE LoopInv'
  BY <1>8, AddressAssumption DEF SkipRecipient, LoopInv, TypeInv, PhaseOK, InLoop, TypeOK,
     FileTypes, fileVars, routeVars, loopVars, msgVars, memVars, auxVars
<1>9. ASSUME NEW b \in Bot, Deliver(b) PROVE LoopInv'
  BY <1>9, AddressAssumption DEF Deliver, Routed, LoopInv, TypeInv, PhaseOK, InLoop, TypeOK,
     FileTypes, fileVars, routeVars, loopVars, msgVars, memVars, auxVars
<1>10. ASSUME NEW b \in Bot, DeliverError(b) PROVE LoopInv'
  BY <1>10, AddressAssumption DEF DeliverError, LoopInv, TypeInv, PhaseOK, InLoop, TypeOK,
     FileTypes, fileVars, routeVars, loopVars, msgVars, memVars, auxVars
<1>11. ASSUME FileOriginal PROVE LoopInv'
  BY <1>11, AddressAssumption DEF FileOriginal, OutboxWithout, LoopInv, TypeInv, PhaseOK, InLoop, TypeOK,
     FileTypes, fileVars, routeVars, loopVars, msgVars, memVars, auxVars
<1>12. ASSUME FileError PROVE LoopInv'
  BY <1>12, AddressAssumption DEF FileError, LoopInv, TypeInv, PhaseOK, InLoop, TypeOK,
     FileTypes, fileVars, routeVars, loopVars, msgVars, memVars, auxVars
<1>13. ASSUME EndBot PROVE LoopInv'
  BY <1>13, AddressAssumption DEF EndBot, LoopInv, TypeInv, PhaseOK, InLoop, TypeOK,
     FileTypes, fileVars, routeVars, loopVars, msgVars, memVars, auxVars
<1>14. ASSUME EndBots PROVE LoopInv'
  BY <1>14, AddressAssumption DEF EndBots, LoopInv, TypeInv, PhaseOK, InLoop, TypeOK,
     FileTypes, fileVars, routeVars, loopVars, msgVars, memVars, auxVars
<1>15. ASSUME SweepBot PROVE LoopInv'
  BY <1>15, AddressAssumption DEF SweepBot, LoopInv, TypeInv, PhaseOK, InLoop, TypeOK,
     FileTypes, fileVars, routeVars, loopVars, msgVars, memVars, auxVars
<1>16. ASSUME NEW m \in Msg, AppendToShard(m) PROVE LoopInv'
  BY <1>16, AddressAssumption DEF AppendToShard, ArchiveWith, LoopInv, TypeInv, PhaseOK, InLoop, TypeOK,
     FileTypes, fileVars, routeVars, loopVars, msgVars, memVars, auxVars
<1>17. ASSUME NEW m \in Msg, AppendError(m) PROVE LoopInv'
  BY <1>17, AddressAssumption DEF AppendError, LoopInv, TypeInv, PhaseOK, InLoop, TypeOK,
     FileTypes, fileVars, routeVars, loopVars, msgVars, memVars, auxVars
<1>18. ASSUME DropLive PROVE LoopInv'
  BY <1>18, AddressAssumption DEF DropLive, InboxWithout, LoopInv, TypeInv, PhaseOK, InLoop, TypeOK,
     FileTypes, fileVars, routeVars, loopVars, msgVars, memVars, auxVars
<1>19. ASSUME DropError PROVE LoopInv'
  BY <1>19, AddressAssumption DEF DropError, LoopInv, TypeInv, PhaseOK, InLoop, TypeOK,
     FileTypes, fileVars, routeVars, loopVars, msgVars, memVars, auxVars
<1>20. ASSUME EndSweepBot PROVE LoopInv'
  BY <1>20, AddressAssumption DEF EndSweepBot, LoopInv, TypeInv, PhaseOK, InLoop, TypeOK,
     FileTypes, fileVars, routeVars, loopVars, msgVars, memVars, auxVars
<1>21. ASSUME EndSweep PROVE LoopInv'
  BY <1>21, AddressAssumption DEF EndSweep, LoopInv, TypeInv, PhaseOK, InLoop, TypeOK,
     FileTypes, fileVars, routeVars, loopVars, msgVars, memVars, auxVars
<1>22. ASSUME AbortTick PROVE LoopInv'
  BY <1>22, AddressAssumption DEF AbortTick, LoopInv, TypeInv, PhaseOK, InLoop, TypeOK,
     FileTypes, fileVars, routeVars, loopVars, msgVars, memVars, auxVars
<1>23. ASSUME Crash PROVE LoopInv'
  BY <1>23, AddressAssumption DEF Crash, LoopInv, TypeInv, PhaseOK, InLoop, TypeOK,
     FileTypes, fileVars, routeVars, loopVars, msgVars, memVars, auxVars
<1>24. ASSUME Day PROVE LoopInv'
  BY <1>24, AddressAssumption DEF Day, LoopInv, TypeInv, PhaseOK, InLoop, TypeOK,
     FileTypes, fileVars, routeVars, loopVars, msgVars, memVars, auxVars
<1>25. ASSUME SweepFallsDue PROVE LoopInv'
  BY <1>25, AddressAssumption DEF SweepFallsDue, LoopInv, TypeInv, PhaseOK, InLoop, TypeOK,
     FileTypes, fileVars, routeVars, loopVars, msgVars, memVars, auxVars
<1>26. ASSUME NEW b \in Bot, ExpireSend(b) PROVE LoopInv'
  BY <1>26, AddressAssumption DEF ExpireSend, LoopInv, TypeInv, PhaseOK, InLoop, TypeOK,
     FileTypes, fileVars, routeVars, loopVars, msgVars, memVars, auxVars
<1>27. ASSUME NEW r \in RouteFiles, NEW ok \in BOOLEAN, EditRoutes(r, ok) PROVE LoopInv'
  BY <1>27, AddressAssumption DEF EditRoutes, LoopInv, TypeInv, PhaseOK, InLoop, TypeOK,
     FileTypes, fileVars, routeVars, loopVars, msgVars, memVars, auxVars
<1>28. ASSUME NEW m \in Msg, Post(m) PROVE LoopInv'
  BY <1>28, AddressAssumption DEF Post, LoopInv, TypeInv, PhaseOK, InLoop, TypeOK,
     FileTypes, fileVars, routeVars, loopVars, msgVars, memVars, auxVars
<1>29. ASSUME NEW b \in Bot, NEW m \in Msg, DropReceipt(b, m) PROVE LoopInv'
  BY <1>29, AddressAssumption DEF DropReceipt, LoopInv, TypeInv, PhaseOK, InLoop, TypeOK,
     FileTypes, fileVars, routeVars, loopVars, msgVars, memVars, auxVars
<1>30. CASE UNCHANGED vars
  BY <1>30 DEF vars, LoopInv, fileVars, routeVars, loopVars, msgVars, memVars, auxVars
<1>31. ASSUME NEW m \in Msg, ReceiptKept(m) PROVE LoopInv'
  BY <1>31, AddressAssumption DEF ReceiptKept, LoopInv, TypeInv, PhaseOK, InLoop, TypeOK,
     FileTypes, fileVars, routeVars, loopVars, msgVars, memVars, auxVars
<1>32. ASSUME NEW m \in Msg, RefuseError(m) PROVE LoopInv'
  BY <1>32, AddressAssumption DEF RefuseError, LoopInv, TypeInv, PhaseOK, InLoop, TypeOK,
     FileTypes, fileVars, routeVars, loopVars, msgVars, memVars, auxVars
<1> QED
  BY <1>1, <1>2, <1>3, <1>4, <1>5, <1>6, <1>7, <1>8, <1>9, <1>10, <1>11,
     <1>12, <1>13, <1>14, <1>15, <1>16, <1>17, <1>18, <1>19, <1>20, <1>21,
     <1>22, <1>23, <1>24, <1>25, <1>26, <1>27, <1>28, <1>29, <1>30, <1>31, <1>32
     DEF Next, RelayStep, FaultStep, WorldStep, BotStep

\* What a step does to the mail a bot holds: a delivery adds the envelope in
\* hand, and nothing else changes it; the sweep only moves messages.
LEMMA HoldsDeliver ==
    ASSUME TypeInv, NEW to \in Bot, Deliver(to)
    PROVE  \A b \in Bot : Holds(b)' = IF b = to THEN Holds(b) \cup {msg} ELSE Holds(b)
  BY DEF Deliver, Holds, TypeInv, TypeOK, FileTypes

LEMMA HoldsSame ==
    ASSUME TypeInv, LoopInv,
           \/ Quiet \/ FileOriginal \/ DropLive
           \/ \E m \in Msg : Post(m) \/ RefuseInvalid(m) \/ AppendToShard(m)
    PROVE  \A b \in Bot : Holds(b)' = Holds(b)
<1>1. CASE Quiet         BY <1>1 DEF Quiet, Holds
<1>2. CASE FileOriginal  BY <1>2 DEF FileOriginal, Holds
<1>3. CASE DropLive
  BY <1>3 DEF DropLive, InboxWithout, Holds, LoopInv, TypeInv, TypeOK, FileTypes
<1>4. ASSUME NEW m \in Msg, Post(m) PROVE \A b \in Bot : Holds(b)' = Holds(b)
  BY <1>4 DEF Post, Holds
<1>5. ASSUME NEW m \in Msg, RefuseInvalid(m) PROVE \A b \in Bot : Holds(b)' = Holds(b)
  BY <1>5 DEF RefuseInvalid, Holds
<1>6. ASSUME NEW m \in Msg, AppendToShard(m) PROVE \A b \in Bot : Holds(b)' = Holds(b)
  BY <1>6 DEF AppendToShard, ArchiveWith, Holds, LoopInv, TypeInv, TypeOK, FileTypes
<1> QED BY <1>1, <1>2, <1>3, <1>4, <1>5, <1>6

\* Filing m under S, sent or refused: m is the author's, and is nowhere else.
LEMMA Filing ==
    ASSUME TypeInv, LoopInv, NEW m \in Msg,
           \/ RefuseInvalid(m)
           \/ FileOriginal /\ m = msg
    PROVE  /\ cur \in Bot /\ m \in outbox[cur]
           /\ outbox' = [outbox EXCEPT ![cur] = @ \ {m}]
           /\ \/ /\ sent' = [sent EXCEPT ![cur] = @ \cup {m}]
                 /\ refused' = refused
              \/ /\ refused' = [refused EXCEPT ![cur] = @ \cup {m}]
                 /\ sent' = sent
           /\ UNCHANGED posted
<1>1. CASE RefuseInvalid(m)
  BY <1>1 DEF RefuseInvalid, OutboxWithout, LoopInv, TypeInv, PhaseOK, InLoop, auxVars
<1>2. CASE FileOriginal /\ m = msg
  BY <1>2 DEF FileOriginal, OutboxWithout, LoopInv, TypeInv, PhaseOK, InLoop, auxVars
<1> QED BY <1>1, <1>2

LEMMA FiledOnceStep ==
    TypeInv /\ LoopInv /\ FiledOnce /\ [Next]_vars => FiledOnce'
<1> SUFFICES ASSUME TypeInv, LoopInv, FiledOnce, Quiet \/ Loud PROVE FiledOnce'
  BY QuietOrLoud
<1>1. CASE Quiet
  BY <1>1 DEF Quiet, FiledOnce
<1>2. ASSUME NEW b \in Bot, Deliver(b) PROVE FiledOnce'
  BY <1>2 DEF Deliver, FiledOnce, memVars, auxVars
<1>3. CASE DropLive
  BY <1>3 DEF DropLive, FiledOnce, auxVars
<1>4. ASSUME NEW m \in Msg, AppendToShard(m) PROVE FiledOnce'
  BY <1>4 DEF AppendToShard, FiledOnce, auxVars
<1>5. ASSUME NEW m \in Msg, Post(m) PROVE FiledOnce'
  BY <1>5, AddressAssumption DEF Post, FiledOnce, TypeInv, TypeOK, FileTypes
<1>6. ASSUME NEW m \in Msg, RefuseInvalid(m) \/ (FileOriginal /\ m = msg) PROVE FiledOnce'
  <2>1. /\ outbox \in [Bot -> SUBSET Msg]
        /\ sent \in [Bot -> SUBSET Msg]
        /\ refused \in [Bot -> SUBSET Msg]
    BY DEF TypeInv, TypeOK, FileTypes
  <2>2. /\ cur \in Bot /\ m \in outbox[cur]
        /\ outbox' = [outbox EXCEPT ![cur] = @ \ {m}]
        /\ \/ /\ sent' = [sent EXCEPT ![cur] = @ \cup {m}]
              /\ refused' = refused
           \/ /\ refused' = [refused EXCEPT ![cur] = @ \cup {m}]
              /\ sent' = sent
        /\ posted' = posted
    BY <1>6, Filing
  <2>3. cur = Author[m] /\ m \in posted
    BY <2>2 DEF FiledOnce
  <2>4. ASSUME NEW b \in Bot, b # cur
        PROVE  outbox'[b] = outbox[b] /\ sent'[b] = sent[b] /\ refused'[b] = refused[b]
    BY <2>1, <2>2, <2>4
  <2>5. /\ outbox'[cur] = outbox[cur] \ {m}
        /\ \/ sent'[cur] = sent[cur] \cup {m} /\ refused'[cur] = refused[cur]
           \/ refused'[cur] = refused[cur] \cup {m} /\ sent'[cur] = sent[cur]
    BY <2>1, <2>2
  <2>6. ASSUME NEW x \in posted, NEW a \in Bot, a = Author[x]
        PROVE \/ x \in outbox'[a]  /\ x \notin sent'[a]   /\ x \notin refused'[a]
              \/ x \in sent'[a]    /\ x \notin outbox'[a] /\ x \notin refused'[a]
              \/ x \in refused'[a] /\ x \notin outbox'[a] /\ x \notin sent'[a]
    BY <2>2, <2>3, <2>4, <2>5, <2>6 DEF FiledOnce
  <2>7. ASSUME NEW b \in Bot, NEW x \in outbox'[b] \cup sent'[b] \cup refused'[b]
        PROVE  x \in posted /\ b = Author[x]
    BY <2>2, <2>3, <2>4, <2>5 DEF FiledOnce
  <2>8. \A x \in posted : Author[x] \in Bot
    BY AddressAssumption DEF TypeInv, TypeOK, AuxTypes
  <2> QED BY <2>2, <2>6, <2>7, <2>8 DEF FiledOnce
<1>7. CASE FileOriginal
  <2>1. msg \in Msg
    BY <1>7 DEF FileOriginal, TypeInv, PhaseOK
  <2> QED BY <1>6, <1>7, <2>1
<1> QED BY <1>1, <1>2, <1>3, <1>4, <1>5, <1>6, <1>7 DEF Loud

LEMMA HeldStep ==
    TypeInv /\ LoopInv /\ FiledOnce /\ HeldInv /\ [Next]_vars => HeldInv'
<1> SUFFICES ASSUME TypeInv, LoopInv, FiledOnce, HeldInv, Quiet \/ Loud,
                    NEW r \in Bot, NEW x \in Holds(r)'
             PROVE  \/ x \in cut'
                    \/ x \in sent'[Author[x]]
                    \/ pc' = "deliver" /\ msg' = x /\ r \in okTo'
  BY QuietOrLoud DEF HeldInv, Holds
<1>1. CASE Quiet
  <2>1. x \in Holds(r)
    BY <1>1, HoldsSame
  <2> QED BY <1>1, <2>1 DEF Quiet, HeldInv
<1>2. ASSUME NEW to \in Bot, Deliver(to)
      PROVE  x \in cut' \/ x \in sent'[Author[x]] \/ (pc' = "deliver" /\ msg' = x /\ r \in okTo')
  <2>1. x \in Holds(r) \/ (x = msg /\ r = to)
    BY <1>2, HoldsDeliver
  <2> QED BY <1>2, <2>1 DEF Deliver, HeldInv, memVars, auxVars
<1>3. CASE FileOriginal
  <2>1. x \in Holds(r)
    BY <1>3, HoldsSame
  <2>2. CASE x \in cut \/ x \in sent[Author[x]]
    <3>1. cur \in Bot /\ cut' = cut /\ sent \in [Bot -> SUBSET Msg]
      BY <1>3 DEF FileOriginal, auxVars, TypeInv, PhaseOK, InLoop, TypeOK, FileTypes
    <3>2. sent' = sent \/ sent' = [sent EXCEPT ![cur] = @ \cup {msg}]
      BY <1>3 DEF FileOriginal
    <3>3. CASE x \in sent[Author[x]]
      <4>1. x \in Msg /\ Author[x] \in Bot
        BY <2>1, AddressAssumption DEF Holds, TypeInv, TypeOK, FileTypes
      <4> QED BY <3>1, <3>2, <3>3, <4>1
    <3> QED BY <2>2, <3>1, <3>3
  <2>3. CASE msg = x /\ r \in okTo
    <3>1. cur \in Bot /\ x \in outbox[cur] /\ cur = Author[x]
      BY <1>3, <2>3, Filing DEF FileOriginal, FiledOnce, TypeInv, PhaseOK
    <3>2. sent' = [sent EXCEPT ![cur] = @ \cup {x}]
      BY <1>3, <2>3 DEF FileOriginal, Delivered
    <3> QED BY <3>1, <3>2 DEF TypeInv, TypeOK, FileTypes
  <2> QED BY <2>1, <2>2, <2>3 DEF HeldInv
<1>4. CASE DropLive
  <2>1. x \in Holds(r)
    BY <1>4, HoldsSame
  <2> QED BY <1>4, <2>1 DEF DropLive, HeldInv, auxVars
<1>5. ASSUME NEW m \in Msg, Post(m) \/ RefuseInvalid(m) \/ AppendToShard(m)
      PROVE  x \in cut' \/ x \in sent'[Author[x]] \/ (pc' = "deliver" /\ msg' = x /\ r \in okTo')
  <2>1. x \in Holds(r)
    BY <1>5, HoldsSame
  <2> QED
    BY <1>5, <2>1
       DEF Post, RefuseInvalid, AppendToShard, HeldInv, auxVars, memVars, msgVars
<1> QED BY <1>1, <1>2, <1>3, <1>4, <1>5 DEF Loud

LEMMA RoutedStep ==
    TypeInv /\ LoopInv /\ FiledOnce /\ RoutedOnly /\ [Next]_vars => RoutedOnly'
<1> SUFFICES ASSUME TypeInv, LoopInv, FiledOnce, RoutedOnly, Quiet \/ Loud,
                    NEW b \in Bot, NEW x \in Holds(b)'
             PROVE  /\ x \in Valid /\ b \in To[x] /\ b # Author[x]
                    /\ <<Author[x], b>> \in UNION RouteFiles
  BY QuietOrLoud DEF RoutedOnly, Holds
<1>1. CASE x \in Holds(b)
  BY <1>1 DEF RoutedOnly
<1>2. ASSUME NEW to \in Bot, Deliver(to), x = msg, b = to
      PROVE  /\ x \in Valid /\ b \in To[x] /\ b # Author[x]
             /\ <<Author[x], b>> \in UNION RouteFiles
  <2>1. cur \in Bot /\ msg \in outbox[cur] \cap Valid /\ to \in To[msg]
    BY <1>2 DEF Deliver, LoopInv, TypeInv, PhaseOK, InLoop
  <2>2. cur = Author[msg]
    BY <2>1 DEF FiledOnce
  <2>3. to # cur /\ <<cur, to>> \in UNION RouteFiles
    BY <1>2 DEF Deliver, Routed, TypeInv, TypeOK, MemTypes
  <2> QED BY <1>2, <2>1, <2>2, <2>3
<1>3. x \in Holds(b) \/ \E to \in Bot : Deliver(to) /\ x = msg /\ b = to
  <2>1. CASE \E to \in Bot : Deliver(to)
    BY <2>1, HoldsDeliver
  <2>2. CASE ~ \E to \in Bot : Deliver(to)
    BY <2>2, HoldsSame DEF Loud
  <2> QED BY <2>1, <2>2
<1> QED BY <1>1, <1>2, <1>3

\* Only a delivery makes a bot hold something new, and nothing is ever taken
\* from it; interrupted envelopes stay noted.
LEMMA Growth ==
    ASSUME TypeInv, LoopInv, [Next]_vars
    PROVE  /\ cut \subseteq cut'
           /\ \A r \in Bot : Holds(r) \subseteq Holds(r)'
           /\ \A r \in Bot : \A x \in Holds(r)' \ Holds(r) : Deliver(r) /\ x = msg
<1>1. CASE \E to \in Bot : Deliver(to)
  <2>1. PICK to \in Bot : Deliver(to)
    BY <1>1
  <2>2. cut' = cut
    BY <2>1 DEF Deliver, auxVars
  <2>3. \A b \in Bot : Holds(b)' = IF b = to THEN Holds(b) \cup {msg} ELSE Holds(b)
    BY <2>1, HoldsDeliver
  <2> QED BY <2>1, <2>2, <2>3
<1>2. CASE ~ \E to \in Bot : Deliver(to)
  <2>1. \A r \in Bot : Holds(r)' = Holds(r)
    BY <1>2, QuietOrLoud, HoldsSame DEF Loud
  <2>2. cut \subseteq cut'
    <3>1. CASE Quiet
      BY <3>1 DEF Quiet
    <3>2. CASE FileOriginal
      BY <3>2 DEF FileOriginal, auxVars
    <3>3. CASE DropLive
      BY <3>3 DEF DropLive, auxVars
    <3>4. ASSUME NEW m \in Msg, Post(m) \/ RefuseInvalid(m) \/ AppendToShard(m)
          PROVE  cut \subseteq cut'
      BY <3>4 DEF Post, RefuseInvalid, AppendToShard, auxVars
    <3> QED BY <1>2, <3>1, <3>2, <3>3, <3>4, QuietOrLoud DEF Loud
  <2> QED BY <2>1, <2>2
<1> QED BY <1>1, <1>2

\* What a step files anew, and why.
LEMMA NewlyFiled ==
    ASSUME TypeInv, [Next]_vars, NEW b \in Bot
    PROVE  /\ \A x \in sent'[b] \ sent[b] : FileOriginal /\ x = msg /\ okTo # {} /\ b = cur
           /\ \A x \in refused'[b] \ refused[b] :
                b = cur /\ (RefuseInvalid(x) \/ (FileOriginal /\ x = msg /\ okTo = {}))
<1> USE DEF TypeInv, TypeOK, FileTypes
<1>1. CASE Quiet
  BY <1>1 DEF Quiet
<1>2. CASE FileOriginal
  BY <1>2 DEF FileOriginal, Delivered, PhaseOK, InLoop
<1>3. CASE DropLive
  BY <1>3 DEF DropLive
<1>4. ASSUME NEW m \in Msg, RefuseInvalid(m)
      PROVE  sent' = sent /\ \A x \in refused'[b] \ refused[b] : b = cur /\ x = m
  BY <1>4 DEF RefuseInvalid, PhaseOK, InLoop
<1>5. ASSUME NEW m \in Msg, Post(m) \/ AppendToShard(m)
      PROVE  sent' = sent /\ refused' = refused
  BY <1>5 DEF Post, AppendToShard
<1>6. ASSUME NEW to \in Bot, Deliver(to)
      PROVE  sent' = sent /\ refused' = refused
  BY <1>6 DEF Deliver
<1> QED BY <1>1, <1>2, <1>3, <1>4, <1>5, <1>6, QuietOrLoud DEF Loud

LEMMA FilingIsTrueStep ==
    TypeInv /\ LoopInv /\ FiledOnce /\ HeldInv /\ RoutedOnly /\ FilingIsTrue /\ [Next]_vars
        => FilingIsTrue'
<1> SUFFICES ASSUME TypeInv, LoopInv, FiledOnce, HeldInv, RoutedOnly, FilingIsTrue,
                    [Next]_vars, NEW b \in Bot
             PROVE  /\ \A x \in sent'[b] : \E r \in To[x] : x \in Holds(r)'
                    /\ \A x \in refused'[b] \ cut' : \A r \in Bot : x \notin Holds(r)'
  BY DEF FilingIsTrue, Holds
<1>1. ASSUME NEW x \in sent'[b] PROVE \E r \in To[x] : x \in Holds(r)'
  <2>1. CASE x \in sent[b]
    <3>1. PICK r \in To[x] : x \in Holds(r)
      BY <2>1 DEF FilingIsTrue
    <3>2. r \in Bot
      BY <2>1, AddressAssumption DEF TypeInv, TypeOK, FileTypes
    <3> QED BY <3>1, <3>2, Growth
  <2>2. CASE x \notin sent[b]
    <3>1. FileOriginal /\ x = msg /\ okTo # {}
      BY <1>1, <2>2, NewlyFiled
    <3>2. PICK r \in okTo : TRUE
      BY <3>1
    <3>3. r \in To[x] /\ r \in Bot /\ x \in Holds(r)
      BY <3>1, <3>2 DEF FileOriginal, LoopInv, Holds, TypeInv, TypeOK, MsgTypes
    <3> QED BY <3>3, Growth
  <2> QED BY <2>1, <2>2
<1>2. ASSUME NEW x \in refused'[b] \ cut', NEW r \in Bot PROVE x \notin Holds(r)'
  <2>1. x \notin cut
    BY <1>2, Growth
  <2>2. CASE x \in refused[b]
    <3>1. x \notin Holds(r)
      BY <2>1, <2>2 DEF FilingIsTrue
    <3>2. ASSUME Deliver(r), x = msg PROVE FALSE
      <4>1. cur \in Bot /\ x \in outbox[cur]
        BY <3>2 DEF Deliver, LoopInv, TypeInv, PhaseOK, InLoop
      <4> QED BY <4>1, <2>2 DEF FiledOnce
    <3> QED BY <3>1, <3>2, Growth
  <2>3. CASE RefuseInvalid(x)
    <3>1. x \notin Valid
      BY <2>3 DEF RefuseInvalid
    <3>2. x \notin Holds(r)
      BY <3>1 DEF RoutedOnly
    <3>3. ~Deliver(r)
      BY <2>3 DEF RefuseInvalid, Deliver
    <3> QED BY <3>2, <3>3, Growth
  <2>4. CASE FileOriginal /\ x = msg /\ okTo = {}
    <3>1. cur \in Bot /\ x \in outbox[cur]
      BY <2>4 DEF FileOriginal, LoopInv, TypeInv, PhaseOK, InLoop
    <3>2. x \notin sent[Author[x]]
      BY <3>1, AddressAssumption DEF FiledOnce
    <3>3. x \notin Holds(r)
      BY <2>1, <2>4, <3>2 DEF HeldInv
    <3>4. ~Deliver(r)
      BY <2>4 DEF FileOriginal, Deliver
    <3> QED BY <3>3, <3>4, Growth
  <2> QED BY <1>2, <2>2, <2>3, <2>4, NewlyFiled
<1> QED BY <1>1, <1>2

LEMMA LiveStep ==
    TypeInv /\ LoopInv /\ FiledOnce /\ HeldInv /\ LiveOrArchived /\ [Next]_vars
        => LiveOrArchived'
<1> SUFFICES ASSUME TypeInv, LoopInv, FiledOnce, HeldInv, LiveOrArchived, [Next]_vars,
                    NEW b \in Bot, NEW x \in inbox'[b] \cap archive'[b]
             PROVE  x \in cut' \/ (pc' = "sweepDrop" /\ cur' = b /\ msg' = x)
  BY DEF LiveOrArchived
<1> USE DEF TypeInv, TypeOK, FileTypes
<1>1. CASE Quiet
  BY <1>1 DEF Quiet, LiveOrArchived
<1>2. CASE FileOriginal
  BY <1>2 DEF FileOriginal, LiveOrArchived, auxVars
<1>3. CASE DropLive
  <2>1. cur \in Bot /\ inbox' = [inbox EXCEPT ![cur] = @ \ {msg}]
    BY <1>3 DEF DropLive, InboxWithout, PhaseOK, InLoop
  <2>2. x \in inbox[b] \cap archive[b] /\ ~(cur = b /\ msg = x) /\ cut' = cut
    BY <1>3, <2>1 DEF DropLive, auxVars
  <2> QED BY <2>2 DEF LiveOrArchived
<1>4. ASSUME NEW to \in Bot, Deliver(to) PROVE x \in cut'
  <2>1. /\ pc = "deliver" /\ cut' = cut /\ archive' = archive
        /\ inbox' = [inbox EXCEPT ![to] = @ \cup {msg}]
    BY <1>4 DEF Deliver, auxVars
  <2>2. CASE x \in inbox[b]
    BY <2>1, <2>2 DEF LiveOrArchived
  <2>3. CASE x \notin inbox[b]
    <3>1. x = msg /\ b = to /\ x \in Holds(b)
      BY <2>1, <2>3 DEF Holds
    <3>2. cur \in Bot /\ x \in outbox[cur] /\ to \notin okTo
      BY <1>4, <3>1 DEF Deliver, LoopInv, PhaseOK, InLoop
    <3>3. x \notin sent[Author[x]]
      BY <3>2, AddressAssumption DEF FiledOnce
    <3> QED BY <2>1, <3>1, <3>2, <3>3 DEF HeldInv
  <2> QED BY <2>2, <2>3
<1>5. ASSUME NEW m \in Msg, AppendToShard(m)
      PROVE  x \in cut' \/ (pc' = "sweepDrop" /\ cur' = b /\ msg' = x)
  <2>1. /\ pc = "sweepFiles" /\ cur \in Bot
        /\ archive' = [archive EXCEPT ![cur] = @ \cup {m}]
        /\ inbox' = inbox /\ cut' = cut /\ cur' = cur /\ msg' = m /\ pc' = "sweepDrop"
    BY <1>5 DEF AppendToShard, ArchiveWith, PhaseOK, InLoop, loopVars, auxVars
  <2>2. CASE x \in archive[b]
    BY <2>1, <2>2 DEF LiveOrArchived
  <2>3. CASE x \notin archive[b]
    BY <2>1, <2>3
  <2> QED BY <2>2, <2>3
<1>6. ASSUME NEW m \in Msg, Post(m) \/ RefuseInvalid(m)
      PROVE  x \in cut' \/ (pc' = "sweepDrop" /\ cur' = b /\ msg' = x)
  BY <1>6 DEF Post, RefuseInvalid, LiveOrArchived, loopVars, msgVars, memVars, auxVars
<1> QED BY <1>1, <1>2, <1>3, <1>4, <1>5, <1>6, QuietOrLoud DEF Loud

-----------------------------------------------------------------------------
\* The invariant all the safety theorems follow from.
SafeInv ==
    /\ TypeInv /\ LoopInv /\ HeldInv
    /\ FiledOnce /\ FilingIsTrue /\ RoutedOnly /\ LiveOrArchived

LEMMA SafeInit == Init => SafeInv
<1> SUFFICES ASSUME Init PROVE SafeInv
  OBVIOUS
<1>1. TypeInv
  BY TypeInit
<1>2. LoopInv
  BY DEF Init, LoopInv
<1>3. \A b \in Bot : Holds(b) = {}
  BY DEF Init, Holds
<1>4. HeldInv /\ RoutedOnly
  BY <1>3 DEF HeldInv, RoutedOnly
<1>5. FiledOnce /\ FilingIsTrue /\ LiveOrArchived
  BY DEF Init, FiledOnce, FilingIsTrue, LiveOrArchived
<1> QED BY <1>1, <1>2, <1>4, <1>5 DEF SafeInv

LEMMA SafeAlways == Spec => []SafeInv
<1>1. SafeInv /\ [Next]_vars => SafeInv'
  BY TypeStep, LoopStep, FiledOnceStep, HeldStep, RoutedStep, FilingIsTrueStep, LiveStep
     DEF SafeInv
<1> QED BY SafeInit, <1>1, PTL DEF Spec

\* Originals are neither lost nor filed twice.
THEOREM OriginalsFiledOnce == Spec => []FiledOnce
<1>1. SafeInv => FiledOnce
  BY DEF SafeInv
<1> QED BY SafeAlways, <1>1, PTL

\* sent/ means delivered, refused/ means undelivered.
THEOREM FilingTrue == Spec => []FilingIsTrue
<1>1. SafeInv => FilingIsTrue
  BY DEF SafeInv
<1> QED BY SafeAlways, <1>1, PTL

\* Mail follows the routes.
THEOREM Routing == Spec => []RoutedOnly
<1>1. SafeInv => RoutedOnly
  BY DEF SafeInv
<1> QED BY SafeAlways, <1>1, PTL

\* A message is live or archived, not both, unless a fault interrupted it.
THEOREM LiveXorArchived == Spec => []LiveOrArchived
<1>1. SafeInv => LiveOrArchived
  BY DEF SafeInv
<1> QED BY SafeAlways, <1>1, PTL

-----------------------------------------------------------------------------
(* Refinement: what the mail promise sees of the relay's files.             *)
Waiting  == UNION {outbox[b] : b \in Bot}
Filed    == UNION {sent[b] \cup refused[b] : b \in Bot}
Holdings == [b \in Bot |-> Holds(b)]

\* An envelope that is refused or filed by the relay is filed by the promise.
LEMMA FileStep ==
    ASSUME SafeInv, NEW m \in Msg,
           RefuseInvalid(m) \/ (FileOriginal /\ m = msg)
    PROVE  Delivery!File(m)
<1> USE DEF SafeInv
<1>1. /\ outbox \in [Bot -> SUBSET Msg]
      /\ sent \in [Bot -> SUBSET Msg]
      /\ refused \in [Bot -> SUBSET Msg]
  BY DEF TypeInv, TypeOK, FileTypes
<1>2. /\ cur \in Bot /\ m \in outbox[cur]
      /\ outbox' = [outbox EXCEPT ![cur] = @ \ {m}]
      /\ \/ /\ sent' = [sent EXCEPT ![cur] = @ \cup {m}]
            /\ refused' = refused
         \/ /\ refused' = [refused EXCEPT ![cur] = @ \cup {m}]
            /\ sent' = sent
  BY Filing
<1>3. \A b \in Bot : b # cur => m \notin outbox[b]
  BY <1>2 DEF FiledOnce
<1>4. \A b \in Bot : outbox'[b] = outbox[b] \ {m}
  BY <1>1, <1>2, <1>3
<1>5. m \in Waiting /\ Waiting' = Waiting \ {m}
  BY <1>2, <1>4 DEF Waiting
<1>6. /\ \A b \in Bot : b # cur => sent'[b] \cup refused'[b] = sent[b] \cup refused[b]
      /\ sent'[cur] \cup refused'[cur] = sent[cur] \cup refused[cur] \cup {m}
  BY <1>1, <1>2
<1>7. Filed' = Filed \cup {m}
  BY <1>2, <1>6 DEF Filed
<1>8. Holdings' = Holdings
  BY HoldsSame DEF Holdings
<1> QED BY <1>5, <1>7, <1>8 DEF Delivery!File, Waiting, Filed, Holdings

\* Every step of the relay is a step of the promise, or is not seen by it.
LEMMA DeliveryStep ==
    SafeInv /\ [Next]_vars => [Delivery!Next]_(Delivery!vars)
<1> SUFFICES ASSUME SafeInv, [Next]_vars
             PROVE  Delivery!Next \/ (Waiting' = Waiting /\ Filed' = Filed /\ Holdings' = Holdings)
  BY DEF Delivery!vars, Waiting, Filed, Holdings
<1> USE DEF SafeInv
<1>1. CASE Quiet
  <2>1. Holdings' = Holdings
    BY <1>1, HoldsSame DEF Holdings
  <2> QED BY <1>1, <2>1 DEF Quiet, Waiting, Filed
<1>2. ASSUME NEW to \in Bot, Deliver(to) PROVE Delivery!Next
  <2>1. cur \in Bot /\ msg \in Msg /\ msg \in outbox[cur] /\ to \in To[msg] /\ to # cur
    BY <1>2 DEF Deliver, Routed, LoopInv, TypeInv, PhaseOK, InLoop
  <2>2. cur = Author[msg]
    BY <2>1 DEF FiledOnce
  <2>3. Holdings' = [Holdings EXCEPT ![to] = @ \cup {msg}]
    BY <1>2, HoldsDeliver DEF Holdings
  <2>4. Waiting' = Waiting /\ Filed' = Filed /\ msg \in Waiting
    BY <1>2, <2>1 DEF Deliver, Waiting, Filed
  <2>5. Delivery!Hand(msg, to)
    BY <2>1, <2>2, <2>3, <2>4 DEF Delivery!Hand, Waiting, Filed, Holdings
  <2> QED BY <2>1, <2>5 DEF Delivery!Next
<1>3. ASSUME NEW m \in Msg, RefuseInvalid(m) \/ (FileOriginal /\ m = msg)
      PROVE  Delivery!Next
  BY <1>3, FileStep DEF Delivery!Next
<1>4. CASE FileOriginal
  <2>1. msg \in Msg
    BY <1>4 DEF FileOriginal, TypeInv, PhaseOK
  <2> QED BY <1>3, <1>4, <2>1
<1>5. CASE DropLive
  <2>1. Holdings' = Holdings
    BY <1>5, HoldsSame DEF Holdings
  <2> QED BY <1>5, <2>1 DEF DropLive, Waiting, Filed
<1>6. ASSUME NEW m \in Msg, AppendToShard(m)
      PROVE  Waiting' = Waiting /\ Filed' = Filed /\ Holdings' = Holdings
  <2>1. Holdings' = Holdings
    BY <1>6, HoldsSame DEF Holdings
  <2> QED BY <1>6, <2>1 DEF AppendToShard, Waiting, Filed
<1>7. ASSUME NEW m \in Msg, Post(m) PROVE Delivery!Next
  <2>1. m \notin Waiting \cup Filed
    BY <1>7 DEF Post, FiledOnce, Waiting, Filed
  <2>2. \A b \in Bot : outbox'[b] = IF b = Author[m] THEN outbox[b] \cup {m} ELSE outbox[b]
    BY <1>7 DEF Post, TypeInv, TypeOK, FileTypes
  <2>3. Waiting' = Waiting \cup {m}
    <3>1. Author[m] \in Bot
      BY AddressAssumption
    <3>2. \A b \in Bot : outbox[b] \subseteq outbox'[b] /\ outbox'[b] \subseteq outbox[b] \cup {m}
      BY <2>2
    <3>3. m \in outbox'[Author[m]]
      BY <2>2, <3>1
    <3>4. Waiting' = UNION {outbox'[b] : b \in Bot}
      BY DEF Waiting
    <3>5. Waiting \subseteq Waiting' /\ m \in Waiting'
      BY <3>1, <3>2, <3>3, <3>4 DEF Waiting
    <3>6. Waiting' \subseteq Waiting \cup {m}
      BY <3>2, <3>4 DEF Waiting
    <3> QED BY <3>5, <3>6
  <2>4. Filed' = Filed
    BY <1>7 DEF Post, Filed
  <2>5. Holdings' = Holdings
    BY <1>7, HoldsSame DEF Holdings
  <2>6. Delivery!Post(m)
    BY <2>1, <2>3, <2>4, <2>5 DEF Delivery!Post, Waiting, Filed, Holdings
  <2> QED BY <2>6 DEF Delivery!Next
<1> QED BY <1>1, <1>2, <1>3, <1>4, <1>5, <1>6, <1>7, QuietOrLoud DEF Loud

\* The relay keeps the promise of the mail.
THEOREM RelayKeepsPromise == Spec => DeliverySpec
<1>1. Init => Delivery!Init
  <2> SUFFICES ASSUME Init PROVE Delivery!Init
    OBVIOUS
  <2>1. \A b \in Bot : Holds(b) = {}
    BY DEF Init, Holds
  <2> QED BY <2>1 DEF Init, Delivery!Init
<1> QED BY <1>1, SafeAlways, DeliveryStep, PTL DEF Spec, DeliverySpec, Delivery!Spec

=============================================================================
