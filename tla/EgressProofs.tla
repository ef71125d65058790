---------------------------- MODULE EgressProofs ----------------------------
(***************************************************************************)
(* What the egress gate keeps, for every set of hosts, addresses, bots and *)
(* connections, and for any number of writes and faults.                   *)
(***************************************************************************)
EXTENDS EgressProxy, WellFoundedInduction, TLAPS

(***************************************************************************)
(* Types are inductive once it is said which files the loop has still to   *)
(* visit in each phase, and that a decision under way has a request and a  *)
(* partition to look in.                                                   *)
(***************************************************************************)
FileTypes ==
    /\ hosts \in [ListFile -> SUBSET Host] /\ cmap \in ClientMap
    /\ mtime \in [File -> Nat]
    /\ writing = [f \in InPlace |-> writing[f]]
    /\ writing["seed"] \in (SUBSET Host) \cup {None}
    /\ writing["map"] \in ClientMap \cup {None}

PolicyTypes == base \in SUBSET Host /\ part \in Partition \cup {None}

LoopTypes ==
    /\ pc \in {"boot", "base", "map", "lists", "stamp", "stampBots", "idle"}
    /\ plan \subseteq File
    /\ armed \in BOOLEAN
    /\ last \in [File -> Nat \cup {-1}] /\ fp \in [File -> Nat \cup {-1}]
    /\ got \in SUBSET Host /\ new \in Partition
    /\ pc = "base" => plan \subseteq BaseFiles
    /\ pc = "lists" => plan \subseteq Bot

ConnTypes ==
    /\ req \in [Conn -> Request \cup {None}]
    /\ dpc \in [Conn -> {"free", "base", "list"}]
    /\ verdict \in [Conn -> {"none", "allow", "deny"}]
    /\ \A c \in Conn : dpc[c] # "free" => req[c] \in Request /\ part \in Partition

CountTypes == missed \in BOOLEAN /\ writes \in 0..MaxWrites /\ faults \in 0..MaxFaults

TypeInv == FileTypes /\ PolicyTypes /\ LoopTypes /\ ConnTypes /\ CountTypes

\* The gate has something in it wherever the loop may be when it is in use.
BlankInv ==
    /\ pc \notin {"boot", "base"} => base # {}
    /\ armed => base # {}
    /\ NeverBlank

(***************************************************************************)
(* Every copy of a list, and of the map, on its way from the files to a    *)
(* decision holds what its file has held.                                  *)
(***************************************************************************)
BaseListed(h) == <<"seed", h>> \in listed \/ <<"learned", h>> \in listed

OwnPart(p) ==
    /\ \A b \in Bot, h \in Host : h \in p.list[b] => <<b, h>> \in listed
    /\ \A ip \in Ip, b \in Bot : p.addr[ip] = b => <<ip, b>> \in mapped

OwnInv ==
    /\ \A f \in ListFile, h \in Host : h \in hosts[f] => <<f, h>> \in listed
    /\ \A ip \in Ip, b \in Bot : cmap[ip] = b => <<ip, b>> \in mapped
    /\ \A h \in Host : h \in base \cup got => BaseListed(h)
    /\ OwnPart(new)
    /\ part \in Partition => OwnPart(part)
    /\ \A c \in Conn :
           dpc[c] # "free" /\ req[c].bot # NoBot => <<req[c].ip, req[c].bot>> \in mapped
    /\ \A c \in Conn : dpc[c] = "list" => req[c].bot # NoBot
    /\ OwnHosts

(***************************************************************************)
(* No stamp is ahead of its file, so a file that changes after it was      *)
(* stamped stays out of step with the stamps.  While the stamps are those  *)
(* of the files, or before the loop is armed while nothing was missed,     *)
(* what the loop has read so far is what the files say.                    *)
(***************************************************************************)
StampsOK == \A f \in File : last[f] <= mtime[f] /\ fp[f] <= mtime[f]

Trusted == IF armed THEN last = StampNow ELSE ~missed

ListsSoFar ==
    /\ new.addr = cmap
    /\ plan \subseteq BotsOf(cmap)
    /\ \A b \in Bot : new.list[b] = IF b \in BotsOf(cmap) \ plan THEN hosts[b] ELSE {}

ReadSoFar ==
    /\ pc = "base" => got \cup UNION {hosts[f] : f \in plan} = BaseNow
    /\ pc \in {"map", "lists"} => base = BaseNow
    /\ pc = "lists" => ListsSoFar
    /\ pc \in {"stamp", "stampBots", "idle"} => InForce \/ BaseNow = {} \/ missed

SeenInv == /\ StampsOK
           /\ pc = "idle" => armed
           /\ Trusted => ReadSoFar

EgressInv == TypeInv /\ BlankInv /\ OwnInv /\ SeenInv

-----------------------------------------------------------------------------
\* A set of naturals that is not empty has a least element.
LEMMA LeastNatural ==
    ASSUME NEW T \in SUBSET Nat, T # {}
    PROVE  \E x \in T : \A y \in T : x <= y
<1>1. PICK x \in T : \A y \in T : <<y, x>> \notin OpToRel(<, Nat)
  BY WFMin, NatLessThanWellFounded, Zenon
<1>2. \A y \in T : ~(y < x)
  BY <1>1, Zenon DEF OpToRel
<1> QED BY <1>2

\* The file that is visited next is one of those still to visit.
LEMMA FirstIsOneOfThem ==
    ASSUME NEW S \in SUBSET File, S # {}
    PROVE  First(S) \in S
<1> DEFINE T == {i \in DOMAIN FileOrder : FileOrder[i] \in S}
           Least(i) == FileOrder[i] \in S /\ \A j \in 1..(i - 1) : FileOrder[j] \notin S
<1>1. /\ FileOrder \in Seq(File)
      /\ \A f \in File : \E i \in DOMAIN FileOrder : FileOrder[i] = f
  <2>1. /\ <<"seed", "learned", "map">> \in Seq(File)
        /\ BotOrder \in Seq(File)
    BY EgressAssumption DEF File, ListFile
  <2>2. /\ Len(FileOrder) = 3 + Len(BotOrder)
        /\ FileOrder[1] = "seed" /\ FileOrder[2] = "learned" /\ FileOrder[3] = "map"
        /\ \A i \in DOMAIN BotOrder : FileOrder[i + 3] = BotOrder[i]
        /\ FileOrder \in Seq(File)
    BY <2>1 DEF FileOrder
  <2>3. \A b \in Bot : \E i \in DOMAIN FileOrder : FileOrder[i] = b
    <3> TAKE b \in Bot
    <3>1. PICK i \in DOMAIN BotOrder : BotOrder[i] = b
      BY EgressAssumption
    <3>2. i + 3 \in DOMAIN FileOrder
      BY <2>1, <2>2, <3>1
    <3> QED BY <2>2, <3>1, <3>2
  <2> QED BY <2>1, <2>2, <2>3 DEF File, ListFile
<1>2. T \in SUBSET Nat /\ T # {}
  BY <1>1
<1>3. PICK i \in T : \A j \in T : i <= j
  BY <1>2, LeastNatural
<1>4. Least(i) /\ i \in DOMAIN FileOrder
  BY <1>1, <1>3
<1> HIDE DEF Least
<1>5. Least(CHOOSE k \in DOMAIN FileOrder : Least(k))
  BY <1>4
<1> QED BY <1>5 DEF First, Least

\* The files of a base or of a partition are list files.
LEMMA FileKinds ==
    /\ BaseFiles \subseteq ListFile /\ Bot \subseteq ListFile /\ ListFile \subseteq File
    /\ BaseFiles \subseteq FixedFiles /\ FixedFiles \subseteq File
    /\ \A m : BotsOf(m) \subseteq Bot
    /\ BaseFiles \cap Bot = {} /\ "map" \notin ListFile
BY EgressAssumption DEF BaseFiles, ListFile, File, FixedFiles, BotsOf

LEMMA TypeInit == Init => TypeInv
<1> SUFFICES ASSUME Init PROVE TypeInv
  OBVIOUS
<1>1. FileTypes
  BY DEF Init, FileTypes, ClientMap, Unmapped, InPlace
<1>2. PolicyTypes
  BY DEF Init, PolicyTypes
<1>3. LoopTypes
  BY DEF Init, LoopTypes, NotStamped, EmptyPart, Unmapped, Partition, ClientMap
<1>4. ConnTypes
  BY DEF Init, ConnTypes
<1>5. CountTypes
  <2>1. missed \in BOOLEAN
    BY DEF Init
  <2>2. writes \in 0..MaxWrites /\ faults \in 0..MaxFaults
    BY EgressAssumption DEF Init
  <2> QED BY <2>1, <2>2 DEF CountTypes
<1> QED BY <1>1, <1>2, <1>3, <1>4, <1>5 DEF TypeInv

\* A group of variables that a step leaves alone keeps its types.
LEMMA Frames ==
    /\ FileTypes /\ UNCHANGED fileVars => FileTypes'
    /\ PolicyTypes /\ UNCHANGED <<base, part>> => PolicyTypes'
    /\ LoopTypes /\ UNCHANGED loopVars => LoopTypes'
    /\ ConnTypes /\ UNCHANGED connVars /\ (part \in Partition => part' \in Partition)
           => ConnTypes'
    /\ CountTypes /\ UNCHANGED <<missed, writes, faults>> => CountTypes'
<1>1. FileTypes /\ UNCHANGED fileVars => FileTypes'
  BY DEF FileTypes, fileVars
<1>2. PolicyTypes /\ UNCHANGED <<base, part>> => PolicyTypes'
  BY DEF PolicyTypes
<1>3. LoopTypes /\ UNCHANGED loopVars => LoopTypes'
  BY DEF LoopTypes, loopVars
<1>4. ConnTypes /\ UNCHANGED connVars /\ (part \in Partition => part' \in Partition)
          => ConnTypes'
  BY DEF ConnTypes, connVars
<1>5. CountTypes /\ UNCHANGED <<missed, writes, faults>> => CountTypes'
  BY DEF CountTypes
<1> QED BY <1>1, <1>2, <1>3, <1>4, <1>5

LEMMA TouchTypes ==
    ASSUME TypeInv, NEW f \in File, Touch(f)
    PROVE  mtime' \in [File -> Nat] /\ missed' \in BOOLEAN
<1>1. mtime' \in [File -> Nat]
  BY DEF Touch, TypeInv, FileTypes
<1>2. missed' \in BOOLEAN
  BY DEF Touch, TypeInv, CountTypes
<1> QED BY <1>1, <1>2

LEMMA WriteCounts ==
    /\ TypeInv /\ WriteBegins => writes' \in 0..MaxWrites
    /\ TypeInv /\ Fault => faults' \in 0..MaxFaults
<1>1. TypeInv /\ WriteBegins => writes' \in 0..MaxWrites
  BY EgressAssumption DEF TypeInv, CountTypes, WriteBegins
<1>2. TypeInv /\ Fault => faults' \in 0..MaxFaults
  BY EgressAssumption DEF TypeInv, CountTypes, Fault
<1> QED BY <1>1, <1>2

\* The writers of the files keep the types.
LEMMA TypeWriter == TypeInv /\ WriterStep => TypeInv'
<1> SUFFICES ASSUME TypeInv, WriterStep PROVE TypeInv'
  OBVIOUS
<1> USE DEF TypeInv
<1>1. ASSUME NEW f \in ListFile, NEW h \in Host, Learn(f, h) PROVE TypeInv'
  <2>1. f \in File /\ Touch(f) /\ WriteBegins
    BY <1>1, FileKinds DEF Learn
  <2>2. hosts' \in [ListFile -> SUBSET Host]
    BY <1>1 DEF Learn, FileTypes
  <2>3. FileTypes'
    BY <1>1, <2>1, <2>2, TouchTypes DEF Learn, FileTypes
  <2>4. CountTypes'
    BY <1>1, <2>1, TouchTypes, WriteCounts DEF Learn, CountTypes
  <2> QED BY <1>1, <2>3, <2>4, Frames DEF Learn
<1>2. ASSUME NEW S \in SUBSET Host, Truncate("seed", S) PROVE TypeInv'
  <2>1. Touch("seed") /\ WriteBegins /\ "seed" \in File
    BY <1>2 DEF Truncate, File, ListFile
  <2>2. hosts' \in [ListFile -> SUBSET Host] /\ cmap' = cmap
    BY <1>2 DEF Truncate, FileTypes
  <2>3. writing' = [f \in InPlace |-> writing'[f]]
        /\ writing'["seed"] = S /\ writing'["map"] = writing["map"]
    BY <1>2 DEF Truncate, FileTypes, InPlace
  <2>4. FileTypes'
    BY <2>1, <2>2, <2>3, TouchTypes DEF FileTypes
  <2>5. CountTypes'
    BY <1>2, <2>1, TouchTypes, WriteCounts DEF Truncate, CountTypes
  <2> QED BY <1>2, <2>4, <2>5, Frames DEF Truncate
<1>3. ASSUME NEW m \in ClientMap, Truncate("map", m) PROVE TypeInv'
  <2>1. Touch("map") /\ WriteBegins /\ "map" \in File
    BY <1>3 DEF Truncate, File
  <2>2. cmap' \in ClientMap /\ hosts' = hosts
    BY <1>3 DEF Truncate, Unmapped, ClientMap
  <2>3. writing' = [f \in InPlace |-> writing'[f]]
        /\ writing'["map"] = m /\ writing'["seed"] = writing["seed"]
    BY <1>3 DEF Truncate, FileTypes, InPlace
  <2>4. FileTypes'
    BY <2>1, <2>2, <2>3, TouchTypes DEF FileTypes
  <2>5. CountTypes'
    BY <1>3, <2>1, TouchTypes, WriteCounts DEF Truncate, CountTypes
  <2> QED BY <1>3, <2>4, <2>5, Frames DEF Truncate
<1>4. ASSUME WriteSeed PROVE TypeInv'
  <2>1. Touch("seed") /\ "seed" \in File
    BY <1>4 DEF WriteSeed, File, ListFile
  <2>2. hosts' \in [ListFile -> SUBSET Host] /\ cmap' = cmap
    BY <1>4 DEF WriteSeed, FileTypes
  <2>3. writing' = [f \in InPlace |-> writing'[f]]
        /\ writing'["seed"] = None /\ writing'["map"] = writing["map"]
    BY <1>4 DEF WriteSeed, FileTypes, InPlace
  <2>4. FileTypes'
    BY <2>1, <2>2, <2>3, TouchTypes DEF FileTypes
  <2>5. CountTypes'
    BY <1>4, <2>1, TouchTypes DEF WriteSeed, CountTypes
  <2> QED BY <1>4, <2>4, <2>5, Frames DEF WriteSeed
<1>5. ASSUME WriteMap PROVE TypeInv'
  <2>1. Touch("map") /\ "map" \in File
    BY <1>5 DEF WriteMap, File
  <2>2. cmap' \in ClientMap /\ hosts' = hosts
    BY <1>5 DEF WriteMap, FileTypes
  <2>3. writing' = [f \in InPlace |-> writing'[f]]
        /\ writing'["map"] = None /\ writing'["seed"] = writing["seed"]
    BY <1>5 DEF WriteMap, FileTypes, InPlace
  <2>4. FileTypes'
    BY <2>1, <2>2, <2>3, TouchTypes DEF FileTypes
  <2>5. CountTypes'
    BY <1>5, <2>1, TouchTypes DEF WriteMap, CountTypes
  <2> QED BY <1>5, <2>4, <2>5, Frames DEF WriteMap
<1>6. ASSUME NEW f \in InPlace, LoseWrite(f) PROVE TypeInv'
  <2>1. /\ writing' = [g \in InPlace |-> writing'[g]]
        /\ \A g \in InPlace : writing'[g] \in {None, writing[g]}
        /\ UNCHANGED <<hosts, cmap, mtime>>
    BY <1>6 DEF LoseWrite, FileTypes
  <2>2. FileTypes'
    BY <2>1 DEF FileTypes, InPlace
  <2>3. CountTypes'
    BY <1>6, WriteCounts DEF LoseWrite, CountTypes, pastVars
  <2> QED BY <1>6, <2>2, <2>3, Frames DEF LoseWrite
<1> QED BY <1>1, <1>2, <1>3, <1>4, <1>5, <1>6 DEF WriterStep

\* The steps of main and of the reload loop keep the types.
LEMMA TypeProxy == TypeInv /\ ProxyStep => TypeInv'
<1> SUFFICES ASSUME TypeInv, ProxyStep PROVE TypeInv'
  OBVIOUS
<1> USE DEF TypeInv
<1>1. ASSUME Boot PROVE TypeInv'
  <2>1. LoopTypes'
    BY <1>1, FileKinds DEF Boot, ReadBase, LoopTypes
  <2>2. CountTypes'
    BY <1>1 DEF Boot, CountTypes
  <2> QED BY <1>1, <2>1, <2>2, Frames DEF Boot
<1>2. ASSUME ReadBaseFile PROVE TypeInv'
  <2>1. First(plan) \in ListFile
    BY <1>2, FirstIsOneOfThem, FileKinds DEF ReadBaseFile, LoopTypes
  <2>2. LoopTypes'
    BY <1>2, <2>1 DEF ReadBaseFile, LoopTypes, FileTypes
  <2> QED BY <1>2, <2>2, Frames DEF ReadBaseFile, pastVars
<1>3. ASSUME RejectBase PROVE TypeInv'
  <2>1. LoopTypes'
    BY <1>3 DEF RejectBase, LoopTypes
  <2> QED BY <1>3, <2>1, Frames DEF RejectBase, pastVars
<1>4. ASSUME StoreBase PROVE TypeInv'
  <2>1. LoopTypes' /\ PolicyTypes' /\ part' = part
    BY <1>4 DEF StoreBase, LoopTypes, PolicyTypes
  <2> QED BY <1>4, <2>1, Frames DEF StoreBase, pastVars
<1>5. ASSUME ReadMap PROVE TypeInv'
  <2>1. new' \in Partition
    BY <1>5 DEF ReadMap, EmptyPart, Partition, FileTypes
  <2>2. LoopTypes'
    BY <1>5, <2>1, FileKinds DEF ReadMap, LoopTypes
  <2> QED BY <1>5, <2>2, Frames DEF ReadMap, pastVars
<1>6. ASSUME ReadList PROVE TypeInv'
  <2>1. First(plan) \in Bot /\ OwnList(First(plan)) \in SUBSET Host
    BY <1>6, FirstIsOneOfThem, FileKinds
       DEF ReadList, LoopTypes, FileTypes, OwnList
  <2>2. new' \in Partition
    BY <1>6, <2>1 DEF ReadList, LoopTypes, Partition
  <2>3. LoopTypes'
    BY <1>6, <2>2 DEF ReadList, LoopTypes
  <2> QED BY <1>6, <2>3, Frames DEF ReadList, pastVars
<1>7. ASSUME StorePart PROVE TypeInv'
  <2>1. EmptyPart \in Partition
    BY DEF EmptyPart, Partition, Unmapped, ClientMap
  <2>2. LoopTypes'
    BY <1>7, <2>1, FileKinds DEF StorePart, LoopTypes, NotStamped
  <2>3. part' \in Partition
    BY <1>7 DEF StorePart, LoopTypes
  <2>4. missed' \in BOOLEAN
    BY <1>7 DEF StorePart
  <2>5. CountTypes'
    BY <1>7, <2>4 DEF StorePart, CountTypes
  <2> QED BY <1>7, <2>2, <2>3, <2>5, Frames DEF StorePart, PolicyTypes
<1>8. ASSUME BeginPoll PROVE TypeInv'
  <2>1. LoopTypes'
    BY <1>8, FileKinds DEF BeginPoll, LoopTypes, NotStamped
  <2> QED BY <1>8, <2>1, Frames DEF BeginPoll, pastVars
<1>9. ASSUME StampFile PROVE TypeInv'
  <2>1. First(plan) \in File
    BY <1>9, FirstIsOneOfThem DEF StampFile, LoopTypes
  <2>2. LoopTypes'
    BY <1>9, <2>1 DEF StampFile, LoopTypes, FileTypes
  <2> QED BY <1>9, <2>2, Frames DEF StampFile, pastVars
<1>10. ASSUME StampBots PROVE TypeInv'
  <2>1. LoopTypes'
    BY <1>10, FileKinds DEF StampBots, WatchedBots, LoopTypes
  <2> QED BY <1>10, <2>1, Frames DEF StampBots, pastVars
<1>11. ASSUME EndStamp PROVE TypeInv'
  <2>1. LoopTypes'
    BY <1>11, FileKinds DEF EndStamp, ReadBase, LoopTypes, NotStamped
  <2> QED BY <1>11, <2>1, Frames DEF EndStamp, pastVars
<1> QED
  BY <1>1, <1>2, <1>3, <1>4, <1>5, <1>6, <1>7, <1>8, <1>9, <1>10, <1>11
     DEF ProxyStep

\* A decision looks in a partition: it began with one, and none is withdrawn.
LEMMA TypeConn == TypeInv /\ ConnStep => TypeInv'
<1> SUFFICES ASSUME TypeInv, NEW c \in Conn,
                    \/ \E ip \in Ip, h \in Host : Ask(c, ip, h)
                    \/ TestBase(c) \/ TestList(c)
             PROVE  TypeInv'
  BY DEF ConnStep
<1> USE DEF TypeInv
<1>1. UNCHANGED <<fileVars, base, part, loopVars, pastVars, faults>>
  BY DEF Ask, TestBase, TestList
<1>2. ASSUME NEW ip \in Ip, NEW h \in Host, Ask(c, ip, h) PROVE ConnTypes'
  <2>1. part \in Partition /\ part.addr[ip] \in Bot \cup {NoBot}
    BY <1>2 DEF Ask, PolicyTypes, Partition, ClientMap
  <2>2. [ip |-> ip, host |-> h, bot |-> part.addr[ip]] \in Request
    BY <2>1 DEF Request
  <2> QED BY <1>1, <1>2, <2>1, <2>2 DEF Ask, ConnTypes
<1>3. ASSUME TestBase(c) PROVE ConnTypes'
  BY <1>1, <1>3 DEF TestBase, Decide, ConnTypes
<1>4. ASSUME TestList(c) PROVE ConnTypes'
  BY <1>1, <1>4 DEF TestList, Decide, ConnTypes
<1> QED BY <1>1, <1>2, <1>3, <1>4, Frames DEF pastVars

\* Every step keeps the types, a death of the proxy included.
LEMMA TypeStep == TypeInv /\ [Next]_vars => TypeInv'
<1> SUFFICES ASSUME TypeInv, [Next]_vars PROVE TypeInv'
  OBVIOUS
<1>1. ASSUME Crash PROVE TypeInv'
  <2>1. LoopTypes'
    BY <1>1
       DEF Crash, LoopTypes, NotStamped, EmptyPart, Unmapped, Partition, ClientMap
  <2>2. PolicyTypes' /\ ConnTypes'
    BY <1>1 DEF Crash, PolicyTypes, ConnTypes
  <2>3. CountTypes'
    BY <1>1, WriteCounts DEF Crash, CountTypes, pastVars, TypeInv
  <2> QED BY <1>1, <2>1, <2>2, <2>3, Frames DEF Crash, TypeInv
<1>2. CASE UNCHANGED vars
  BY <1>2, Frames DEF vars, pastVars, TypeInv
<1> QED BY <1>1, <1>2, TypeWriter, TypeProxy, TypeConn DEF Next

\* Type correctness of the gate and of its files: no phase of the loop visits
\* a file of another kind, and no decision looks in a partition that is not there.
THEOREM EgressTypeCorrect == Spec => []EgressTypeOK
<1>1. Spec => []TypeInv
  BY TypeInit, TypeStep, PTL DEF Spec
<1>2. TypeInv => EgressTypeOK
  BY DEF TypeInv, FileTypes, PolicyTypes, LoopTypes, ConnTypes, CountTypes, EgressTypeOK
<1> QED BY <1>1, <1>2, PTL

-----------------------------------------------------------------------------
\* The base leaves force only with the process, and only a base with
\* something in it replaces it.
LEMMA BlankStep == TypeInv /\ BlankInv /\ [Next]_vars => BlankInv'
<1> SUFFICES ASSUME TypeInv, BlankInv, [Next]_vars PROVE BlankInv'
  OBVIOUS
<1> USE DEF BlankInv, NeverBlank
<1>1. ASSUME Boot \/ ReadBaseFile \/ RejectBase PROVE BlankInv'
  BY <1>1 DEF Boot, ReadBase, ReadBaseFile, RejectBase
<1>2. ASSUME StoreBase PROVE BlankInv'
  BY <1>2 DEF StoreBase, Usable
<1>3. ASSUME ReadMap \/ ReadList \/ StorePart PROVE BlankInv'
  BY <1>3 DEF ReadMap, ReadList, StorePart
<1>4. ASSUME BeginPoll \/ StampFile \/ StampBots \/ EndStamp PROVE BlankInv'
  BY <1>4 DEF BeginPoll, StampFile, StampBots, EndStamp, ReadBase
<1>5. ASSUME WriterStep PROVE UNCHANGED <<base, part, pc, armed>>
  BY <1>5 DEF WriterStep, Learn, Truncate, WriteSeed, WriteMap, LoseWrite, loopVars
<1>6. ASSUME ConnStep PROVE UNCHANGED <<base, part, pc, armed>>
  BY <1>6 DEF ConnStep, Ask, TestBase, TestList, loopVars
<1>7. ASSUME Crash PROVE BlankInv'
  BY <1>7 DEF Crash
<1>8. CASE UNCHANGED vars
  BY <1>8 DEF vars, loopVars
<1> QED BY <1>1, <1>2, <1>3, <1>4, <1>5, <1>6, <1>7, <1>8 DEF Next, ProxyStep

\* "A truncated/unreadable reload must never open OR blank the gate": whoever
\* is served finds a base with something in it, whatever is written when.
THEOREM GateNeverBlank == Spec => []NeverBlank
<1>1. Init => TypeInv /\ BlankInv
  BY TypeInit DEF Init, BlankInv, NeverBlank
<1>2. TypeInv /\ BlankInv /\ [Next]_vars => (TypeInv /\ BlankInv)'
  BY TypeStep, BlankStep
<1>3. BlankInv => NeverBlank
  BY DEF BlankInv
<1> QED BY <1>1, <1>2, <1>3, PTL DEF Spec

-----------------------------------------------------------------------------
LEMMA OwnInit == Init => OwnInv
<1> SUFFICES ASSUME Init PROVE OwnInv
  OBVIOUS
<1>1. OwnPart(new)
  BY EgressAssumption DEF Init, OwnPart, EmptyPart, Unmapped, File, ListFile
<1> QED
  BY <1>1, EgressAssumption DEF Init, OwnInv, OwnHosts, Unmapped, File, ListFile

\* The three copies that a policy passes through are built from what is listed.
LEMMA OwnProxy == TypeInv /\ OwnInv /\ ProxyStep => OwnInv'
<1> SUFFICES ASSUME TypeInv, OwnInv, ProxyStep PROVE OwnInv'
  OBVIOUS
<1> USE DEF TypeInv
<1>1. UNCHANGED <<fileVars, connVars, listed, mapped>>
  BY DEF ProxyStep, Boot, ReadBaseFile, RejectBase, StoreBase, ReadMap, ReadList,
         StorePart, BeginPoll, StampFile, StampBots, EndStamp, pastVars
<1> DEFINE Policies == /\ \A h \in Host : h \in base \cup got => BaseListed(h)
                       /\ OwnPart(new)
                       /\ part \in Partition => OwnPart(part)
<1>2. OwnPart(EmptyPart)
  BY EgressAssumption DEF OwnPart, EmptyPart, Unmapped, File, ListFile
<1>3. Policies
  BY DEF OwnInv
<1>4. Policies' => OwnInv'
  BY <1>1 DEF OwnInv, OwnHosts, fileVars, connVars, BaseListed, OwnPart
<1>5. ASSUME Boot \/ RejectBase \/ BeginPoll \/ StampFile \/ StampBots \/ EndStamp
      PROVE  Policies'
  <2>1. UNCHANGED <<base, part, new>> /\ (got' = got \/ got' = {})
    BY <1>5 DEF Boot, RejectBase, BeginPoll, StampFile, StampBots, EndStamp, ReadBase
  <2> QED BY <1>1, <1>3, <2>1 DEF BaseListed, OwnPart
<1>6. ASSUME ReadBaseFile PROVE Policies'
  <2>1. First(plan) \in BaseFiles
    BY <1>6, FirstIsOneOfThem, FileKinds DEF ReadBaseFile, LoopTypes
  <2>2. \A h \in Host : h \in hosts[First(plan)] => BaseListed(h)
    BY <2>1, FileKinds DEF OwnInv, BaseListed, BaseFiles
  <2> QED BY <1>1, <1>3, <1>6, <2>2 DEF ReadBaseFile, BaseListed, OwnPart
<1>7. ASSUME StoreBase PROVE Policies'
  BY <1>1, <1>3, <1>7 DEF StoreBase, BaseListed, OwnPart
<1>8. ASSUME ReadMap PROVE Policies'
  <2>1. new'.addr = cmap /\ new'.list = EmptyPart.list
    BY <1>8 DEF ReadMap, EmptyPart
  <2>2. OwnPart(new')
    BY <1>2, <2>1 DEF OwnPart, OwnInv
  <2> QED BY <1>1, <1>3, <1>8, <2>2 DEF ReadMap, BaseListed, OwnPart
<1>9. ASSUME ReadList PROVE Policies'
  <2>1. First(plan) \in Bot
    BY <1>9, FirstIsOneOfThem, FileKinds DEF ReadList, LoopTypes
  <2>2. /\ new'.addr = new.addr
        /\ \A b \in Bot : new'.list[b] = IF b = First(plan) THEN hosts[b] ELSE new.list[b]
    BY <1>9, <2>1 DEF ReadList, OwnList, LoopTypes, Partition
  <2>3. \A b \in Bot, h \in Host : h \in hosts[b] => <<b, h>> \in listed
    BY FileKinds DEF OwnInv
  <2>4. OwnPart(new')
    BY <1>3, <2>2, <2>3 DEF OwnPart
  <2> QED BY <1>1, <1>3, <1>9, <2>4 DEF ReadList, BaseListed, OwnPart
<1>10. ASSUME StorePart PROVE Policies'
  BY <1>1, <1>2, <1>3, <1>10 DEF StorePart, BaseListed, OwnPart
<1> QED
  BY <1>4, <1>5, <1>6, <1>7, <1>8, <1>9, <1>10 DEF ProxyStep

\* What the writers write is on record before it is read.
LEMMA OwnWriter == TypeInv /\ OwnInv /\ WriterStep => OwnInv'
<1> SUFFICES ASSUME TypeInv, OwnInv, WriterStep PROVE OwnInv'
  OBVIOUS
<1> USE DEF TypeInv
<1>1. UNCHANGED <<base, part, loopVars, connVars>>
  BY DEF WriterStep, Learn, Truncate, WriteSeed, WriteMap, LoseWrite
<1> DEFINE Filed == /\ \A f \in ListFile, h \in Host : h \in hosts[f] => <<f, h>> \in listed
                    /\ \A ip \in Ip, b \in Bot : cmap[ip] = b => <<ip, b>> \in mapped
           More == listed \subseteq listed' /\ mapped \subseteq mapped'
<1>2. Filed' /\ More => OwnInv'
  BY <1>1 DEF OwnInv, OwnHosts, loopVars, connVars, BaseListed, OwnPart
<1>3. ASSUME NEW f \in ListFile, NEW h \in Host, Learn(f, h) PROVE Filed' /\ More
  BY <1>3 DEF Learn, OwnInv, FileTypes
<1>4. ASSUME NEW S \in SUBSET Host, Truncate("seed", S) PROVE Filed' /\ More
  BY <1>4 DEF Truncate, OwnInv, FileTypes
<1>5. ASSUME NEW m \in ClientMap, Truncate("map", m) PROVE Filed' /\ More
  BY <1>5, EgressAssumption DEF Truncate, OwnInv, Unmapped, File, ListFile
<1>6. ASSUME WriteSeed PROVE Filed' /\ More
  BY <1>6 DEF WriteSeed, OwnInv, FileTypes
<1>7. ASSUME WriteMap PROVE Filed' /\ More
  BY <1>7 DEF WriteMap, OwnInv
<1>8. ASSUME NEW f \in InPlace, LoseWrite(f) PROVE Filed' /\ More
  BY <1>8 DEF LoseWrite, OwnInv, pastVars
<1> QED BY <1>2, <1>3, <1>4, <1>5, <1>6, <1>7, <1>8 DEF WriterStep

\* A decision that allows has found its host in the base, or in the list of
\* the bot that its address was mapped to when it asked.
LEMMA OwnConn == TypeInv /\ OwnInv /\ ConnStep => OwnInv'
<1> SUFFICES ASSUME TypeInv, OwnInv, NEW c \in Conn,
                    \/ \E ip \in Ip, h \in Host : Ask(c, ip, h)
                    \/ TestBase(c) \/ TestList(c)
             PROVE  OwnInv'
  BY DEF ConnStep
<1> USE DEF TypeInv
<1>1. UNCHANGED <<fileVars, base, part, loopVars, pastVars, faults>>
  BY DEF Ask, TestBase, TestList
<1> DEFINE Own(d) ==
               /\ dpc[d] # "free" /\ req[d].bot # NoBot => <<req[d].ip, req[d].bot>> \in mapped
               /\ dpc[d] = "list" => req[d].bot # NoBot
               /\ verdict[d] = "allow" =>
                      \/ BaseListed(req[d].host)
                      \/ \E b \in Bot : /\ <<req[d].ip, b>> \in mapped
                                        /\ <<b, req[d].host>> \in listed
<1>2. \A d \in Conn : Own(d)
  BY DEF OwnInv, OwnHosts, BaseListed
<1>3. (\A d \in Conn : Own(d)') => OwnInv'
  BY <1>1 DEF OwnInv, OwnHosts, BaseListed, OwnPart, fileVars, loopVars, pastVars
<1>4. ASSUME NEW d \in Conn, d # c PROVE Own(d)'
  <2>1. req'[d] = req[d] /\ dpc'[d] = dpc[d] /\ verdict'[d] = verdict[d]
    BY <1>4 DEF Ask, TestBase, TestList, Decide, ConnTypes
  <2> QED BY <1>1, <1>2, <2>1 DEF BaseListed, pastVars
<1>5. ASSUME NEW ip \in Ip, NEW h \in Host, Ask(c, ip, h) PROVE Own(c)'
  <2>1. part \in Partition /\ part.addr[ip] \in Bot \cup {NoBot}
    BY <1>5 DEF Ask, PolicyTypes, Partition, ClientMap
  <2>2. /\ req'[c] = [ip |-> ip, host |-> h, bot |-> part.addr[ip]]
        /\ verdict'[c] = "none" /\ dpc'[c] = "base"
    BY <1>5 DEF Ask, ConnTypes
  <2> QED BY <1>1, <2>1, <2>2 DEF OwnInv, OwnPart, pastVars
<1>6. ASSUME TestBase(c) PROVE Own(c)'
  <2>1. req'[c] = req[c] /\ dpc[c] = "base" /\ req[c] \in Request
    BY <1>6 DEF TestBase, ConnTypes
  <2>2. CASE req[c].host \in base /\ Decide(c, "allow")
    <3>1. BaseListed(req[c].host)
      BY <2>1, <2>2 DEF OwnInv, Request
    <3> QED BY <1>1, <1>2, <2>1, <2>2, <3>1 DEF Decide, ConnTypes, BaseListed, pastVars
  <2>3. CASE Decide(c, "deny")
    BY <1>1, <1>2, <2>1, <2>3 DEF Decide, ConnTypes
  <2>4. CASE req[c].bot # NoBot /\ dpc' = [dpc EXCEPT ![c] = "list"] /\ UNCHANGED verdict
    BY <1>1, <1>2, <2>1, <2>4 DEF ConnTypes, BaseListed, pastVars
  <2> QED BY <1>6, <2>2, <2>3, <2>4 DEF TestBase
<1>7. ASSUME TestList(c) PROVE Own(c)'
  <2>1. /\ req'[c] = req[c] /\ dpc[c] = "list" /\ req[c] \in Request
        /\ part \in Partition /\ dpc'[c] = "free"
    BY <1>7 DEF TestList, Decide, ConnTypes
  <2>2. req[c].bot \in Bot /\ <<req[c].ip, req[c].bot>> \in mapped
    BY <1>2, <2>1 DEF Request
  <2>3. CASE req[c].host \in part.list[req[c].bot]
    BY <1>1, <2>1, <2>2, <2>3 DEF OwnInv, OwnPart, Request, pastVars
  <2>4. CASE req[c].host \notin part.list[req[c].bot]
    BY <1>7, <2>1, <2>4 DEF TestList, Decide, ConnTypes
  <2> QED BY <2>3, <2>4
<1> QED BY <1>3, <1>4, <1>5, <1>6, <1>7

LEMMA OwnStep == TypeInv /\ OwnInv /\ [Next]_vars => OwnInv'
<1> SUFFICES ASSUME TypeInv, OwnInv, [Next]_vars PROVE OwnInv'
  OBVIOUS
<1>1. ASSUME Crash PROVE OwnInv'
  <2>1. OwnPart(EmptyPart)
    BY EgressAssumption DEF OwnPart, EmptyPart, Unmapped, File, ListFile
  <2> QED
    BY <1>1, <2>1, EgressAssumption
       DEF Crash, OwnInv, OwnHosts, OwnPart, fileVars, pastVars
<1>2. CASE UNCHANGED vars
  BY <1>2
     DEF vars, fileVars, loopVars, connVars, pastVars, OwnInv, OwnHosts, OwnPart,
         BaseListed
<1> QED BY <1>1, <1>2, OwnProxy, OwnWriter, OwnConn DEF Next

\* A reload or a write in the middle of a decision mixes old and new, and
\* never the hosts of two bots.
THEOREM HostsOfOwnBot == Spec => []OwnHosts
<1>1. Init => TypeInv /\ OwnInv
  BY TypeInit, OwnInit
<1>2. TypeInv /\ OwnInv /\ [Next]_vars => (TypeInv /\ OwnInv)'
  BY TypeStep, OwnStep
<1>3. OwnInv => OwnHosts
  BY DEF OwnInv
<1> QED BY <1>1, <1>2, <1>3, PTL DEF Spec

-----------------------------------------------------------------------------
LEMMA SeenInit == Init => SeenInv
<1> SUFFICES ASSUME Init PROVE SeenInv
  OBVIOUS
<1>1. StampsOK
  BY DEF Init, StampsOK, NotStamped
<1> QED BY <1>1 DEF Init, SeenInv, ReadSoFar

\* No stamp gets ahead of its file.
LEMMA StampsStep == TypeInv /\ StampsOK /\ [Next]_vars => StampsOK'
<1> SUFFICES ASSUME TypeInv, StampsOK, [Next]_vars PROVE StampsOK'
  OBVIOUS
<1> USE DEF TypeInv, StampsOK
<1>1. CASE UNCHANGED <<mtime, last, fp>>
  BY <1>1
<1>2. ASSUME NEW f, Touch(f), UNCHANGED loopVars PROVE StampsOK'
  <2>1. \A g \in File : mtime[g] \in Nat /\ mtime'[g] \in Nat /\ mtime[g] <= mtime'[g]
    BY <1>2 DEF Touch, FileTypes
  <2>2. \A g \in File : last[g] \in Int /\ fp[g] \in Int
    BY DEF LoopTypes
  <2> QED BY <1>2, <2>1, <2>2 DEF loopVars
<1>3. ASSUME WriterStep PROVE StampsOK'
  <2>1. CASE \E f \in InPlace : LoseWrite(f)
    BY <1>1, <2>1 DEF LoseWrite, loopVars
  <2>2. (\E f \in InPlace : LoseWrite(f)) \/ \E f : Touch(f) /\ UNCHANGED loopVars
    BY <1>3 DEF WriterStep, Learn, Truncate, WriteSeed, WriteMap
  <2> QED BY <1>2, <2>1, <2>2
<1>4. ASSUME Boot \/ ReadBaseFile \/ RejectBase \/ StoreBase \/ ReadMap \/ ReadList \/ StampBots
      PROVE  StampsOK'
  BY <1>1, <1>4
     DEF Boot, ReadBaseFile, RejectBase, StoreBase, ReadMap, ReadList, StampBots, fileVars
<1>5. NotStamped \in [File -> Nat \cup {-1}] /\ \A f \in File : NotStamped[f] <= mtime[f]
  BY DEF NotStamped, FileTypes
<1>6. ASSUME StorePart \/ BeginPoll PROVE StampsOK'
  BY <1>5, <1>6 DEF StorePart, BeginPoll, fileVars
<1>7. ASSUME StampFile PROVE StampsOK'
  BY <1>7 DEF StampFile, fileVars, LoopTypes, FileTypes
<1>8. ASSUME EndStamp PROVE StampsOK'
  BY <1>5, <1>8 DEF EndStamp, fileVars
<1>9. ASSUME Crash PROVE StampsOK'
  BY <1>5, <1>9 DEF Crash, fileVars
<1>10. ASSUME ConnStep PROVE StampsOK'
  BY <1>1, <1>10 DEF ConnStep, Ask, TestBase, TestList, fileVars, loopVars
<1>11. CASE UNCHANGED vars
  BY <1>1, <1>11 DEF vars, fileVars, loopVars
<1> QED
  BY <1>3, <1>4, <1>6, <1>7, <1>8, <1>9, <1>10, <1>11 DEF Next, ProxyStep

\* A file that the fingerprint covers and that changes puts the stamps out of
\* step, or makes the boot miss a change.
LEMMA TouchIsNoticed ==
    ASSUME TypeInv, StampsOK, pc # "boot", NEW f \in FixedFiles \cup BotsOf(cmap'),
           Touch(f), UNCHANGED loopVars
    PROVE  ~Trusted'
<1> USE DEF TypeInv
<1>1. f \in File /\ last' = last /\ armed' = armed /\ armed \in BOOLEAN
  BY FileKinds DEF LoopTypes, loopVars
<1>2. CASE armed
  <2>1. last[f] \in Int /\ mtime[f] \in Nat /\ last[f] <= mtime[f] /\ mtime'[f] = mtime[f] + 1
    BY <1>1 DEF StampsOK, FileTypes, LoopTypes, Touch
  <2>2. StampNow'[f] = mtime'[f]
    BY <1>1 DEF StampNow, WatchedBots, FixedFiles, BaseFiles, BotsOf
  <2>3. last'[f] # StampNow'[f]
    BY <1>1, <2>1, <2>2
  <2> QED BY <1>1, <1>2, <2>3 DEF Trusted
<1>3. CASE ~armed
  BY <1>1, <1>3 DEF Trusted, Touch
<1> QED BY <1>2, <1>3

\* Nothing is claimed at boot; past it, a write is noticed or is none of the
\* files that the policy is made of.
LEMMA SeenWriter == TypeInv /\ SeenInv /\ WriterStep => (Trusted => ReadSoFar)'
<1> SUFFICES ASSUME TypeInv, SeenInv, WriterStep, Trusted', pc # "boot" PROVE ReadSoFar'
  BY DEF WriterStep, Learn, Truncate, WriteSeed, WriteMap, LoseWrite, loopVars, ReadSoFar
<1> USE DEF TypeInv
<1>1. UNCHANGED <<base, part, loopVars>>
  BY DEF WriterStep, Learn, Truncate, WriteSeed, WriteMap, LoseWrite
<1>2. ASSUME NEW f \in FixedFiles, Touch(f) PROVE FALSE
  BY <1>1, <1>2, TouchIsNoticed DEF SeenInv
<1>3. ASSUME NEW f \in InPlace, LoseWrite(f) PROVE ReadSoFar'
  <2>1. UNCHANGED <<hosts, cmap, mtime, missed, base, part, loopVars>>
    BY <1>3 DEF LoseWrite, pastVars
  <2> QED
    BY <2>1
       DEF SeenInv, Trusted, ReadSoFar, ListsSoFar, InForce, BaseNow, PartNow, StampNow,
           loopVars
<1>4. ASSUME NEW b \in ListFile \ InPlace, NEW h \in Host, Learn(b, h) PROVE ReadSoFar'
  <2>1. b \in Bot /\ b \notin BotsOf(cmap) /\ cmap' = cmap
    <3>1. Touch(b) /\ cmap' = cmap
      BY <1>4 DEF Learn
    <3>2. b \notin FixedFiles \cup BotsOf(cmap')
      BY <1>1, <3>1, TouchIsNoticed DEF SeenInv
    <3> QED BY <1>4, <3>1, <3>2 DEF ListFile, FixedFiles, BaseFiles
  <2>2. \A f \in ListFile : f # b => hosts'[f] = hosts[f]
    BY <1>4 DEF Learn, FileTypes
  <2>3. StampNow' = StampNow
    <3>1. \A f \in File : f # b => mtime'[f] = mtime[f]
      BY <1>4 DEF Learn, Touch, FileTypes
    <3>2. b \notin FixedFiles \cup WatchedBots(cmap)
      BY <2>1, EgressAssumption DEF WatchedBots, FixedFiles, BaseFiles
    <3> QED BY <2>1, <3>1, <3>2 DEF StampNow, WatchedBots
  <2>4. Trusted /\ missed' = missed
    <3>1. CASE armed
      BY <1>1, <1>4, <2>3, <3>1 DEF Trusted, loopVars, Learn, Touch, CountTypes
    <3>2. CASE ~armed
      <4>1. missed'
        BY <1>4, <3>2 DEF Learn, Touch
      <4>2. ~missed'
        BY <1>1, <3>2 DEF Trusted, loopVars
      <4> QED BY <4>1, <4>2
    <3> QED BY <3>1, <3>2 DEF LoopTypes
  <2>5. \A f \in BaseFiles : hosts'[f] = hosts[f]
    BY <2>1, <2>2, FileKinds
  <2>6. BaseNow' = BaseNow
    BY <2>5 DEF BaseNow
  <2>7. \A c \in BotsOf(cmap) : hosts'[c] = hosts[c]
    BY <2>1, <2>2, FileKinds
  <2>8. PartNow' = PartNow
    BY <2>1, <2>7 DEF PartNow
  <2>9. pc = "base" => UNION {hosts'[f] : f \in plan} = UNION {hosts[f] : f \in plan}
    BY <2>5 DEF LoopTypes
  <2>10. ListsSoFar => ListsSoFar'
    BY <1>1, <2>1, <2>7 DEF ListsSoFar, loopVars
  <2> QED
    BY <1>1, <2>4, <2>6, <2>8, <2>9, <2>10
       DEF SeenInv, ReadSoFar, InForce, loopVars
<1>5. ASSUME ~\E f \in InPlace : LoseWrite(f)
      PROVE  \/ \E b \in ListFile \ InPlace, h \in Host : Learn(b, h)
             \/ \E f \in FixedFiles : Touch(f)
  BY <1>5
     DEF WriterStep, Learn, Truncate, WriteSeed, WriteMap, FixedFiles, BaseFiles
<1> QED BY <1>2, <1>3, <1>4, <1>5

\* What each phase of the loop has read agrees with the files, as long as
\* they have the stamps that the loop goes by.
LEMMA SeenProxy == TypeInv /\ SeenInv /\ ProxyStep => SeenInv'
<1> SUFFICES ASSUME TypeInv, SeenInv, ProxyStep PROVE SeenInv'
  OBVIOUS
<1> USE DEF TypeInv
<1>1. UNCHANGED <<hosts, cmap, mtime>>
  BY DEF ProxyStep, Boot, ReadBaseFile, RejectBase, StoreBase, ReadMap, ReadList,
         StorePart, BeginPoll, StampFile, StampBots, EndStamp, fileVars
<1>2. BaseNow' = BaseNow /\ PartNow' = PartNow /\ StampNow' = StampNow
  BY <1>1 DEF BaseNow, PartNow, StampNow, BotsOf, WatchedBots
<1>3. UNION {hosts[f] : f \in BaseFiles} = BaseNow
  BY DEF BaseNow
<1>4. StampsOK'
  BY StampsStep DEF SeenInv, Next
<1> DEFINE Claim == (pc = "idle" => armed) /\ (Trusted => ReadSoFar)
<1>5. ASSUME Boot PROVE Claim'
  BY <1>1, <1>3, <1>2, <1>5 DEF Boot, ReadBase, ReadSoFar
<1>6. ASSUME ReadBaseFile PROVE Claim'
  <2>1. First(plan) \in plan
    BY <1>6, FirstIsOneOfThem DEF ReadBaseFile, LoopTypes
  <2>2. got' \cup UNION {hosts[f] : f \in plan'} = got \cup UNION {hosts[f] : f \in plan}
    BY <1>6, <2>1 DEF ReadBaseFile
  <2>3. Trusted' = Trusted /\ pc = "base" /\ pc' = "base"
    BY <1>2, <1>6 DEF ReadBaseFile, Trusted, pastVars
  <2> QED BY <1>1, <1>2, <2>2, <2>3 DEF SeenInv, ReadSoFar
<1>7. ASSUME RejectBase PROVE Claim'
  <2>1. Trusted' = Trusted /\ pc = "base" /\ plan = {} /\ got = {}
    BY <1>2, <1>7 DEF RejectBase, Usable, Trusted, pastVars
  <2>2. Trusted => BaseNow = {}
    BY <2>1 DEF SeenInv, ReadSoFar
  <2> QED BY <1>2, <1>7, <2>1, <2>2 DEF RejectBase, ReadSoFar
<1>8. ASSUME StoreBase PROVE Claim'
  <2>1. Trusted' = Trusted /\ pc = "base" /\ plan = {} /\ base' = got /\ pc' = "map"
    BY <1>2, <1>8 DEF StoreBase, Trusted, pastVars
  <2>2. Trusted => got = BaseNow
    BY <2>1 DEF SeenInv, ReadSoFar
  <2> QED BY <1>2, <2>1, <2>2 DEF ReadSoFar
<1>9. ASSUME ReadMap PROVE Claim'
  <2>1. /\ Trusted' = Trusted /\ pc = "map" /\ pc' = "lists" /\ base' = base
        /\ plan' = BotsOf(cmap)
        /\ new'.addr = cmap /\ \A b \in Bot : new'.list[b] = {}
    BY <1>2, <1>9 DEF ReadMap, Trusted, pastVars, EmptyPart
  <2>2. ListsSoFar'
    BY <1>1, <2>1 DEF ListsSoFar, BotsOf
  <2> QED BY <1>2, <2>1, <2>2 DEF SeenInv, ReadSoFar
<1>10. ASSUME ReadList PROVE Claim'
  <2>1. First(plan) \in plan /\ First(plan) \in Bot
    BY <1>10, FirstIsOneOfThem, FileKinds DEF ReadList, LoopTypes
  <2>2. /\ Trusted' = Trusted /\ pc = "lists" /\ pc' = "lists" /\ base' = base
        /\ plan' = plan \ {First(plan)}
        /\ new'.addr = new.addr
        /\ \A b \in Bot : new'.list[b] = IF b = First(plan) THEN hosts[b] ELSE new.list[b]
    BY <1>2, <1>10, <2>1 DEF ReadList, Trusted, pastVars, OwnList, LoopTypes, Partition
  <2>3. ASSUME ListsSoFar PROVE ListsSoFar'
    <3>1. new'.addr = cmap' /\ plan' \subseteq BotsOf(cmap')
      BY <1>1, <2>2, <2>3 DEF ListsSoFar
    <3>2. \A b \in Bot : new'.list[b] = IF b \in BotsOf(cmap') \ plan' THEN hosts'[b] ELSE {}
      BY <1>1, <2>1, <2>2, <2>3 DEF ListsSoFar
    <3> QED BY <3>1, <3>2 DEF ListsSoFar
  <2> QED BY <1>2, <2>2, <2>3 DEF SeenInv, ReadSoFar
<1>11. ASSUME StorePart PROVE Claim'
  <2>1. /\ pc = "lists" /\ plan = {} /\ base' = base /\ part' = new
        /\ pc' = IF armed THEN "idle" ELSE "stamp"
        /\ armed' = armed /\ last' = last /\ missed' = (missed /\ ~armed)
    BY <1>11 DEF StorePart
  <2>2. Trusted' => Trusted
    BY <1>2, <2>1 DEF Trusted, LoopTypes, CountTypes
  <2>3. ASSUME Trusted PROVE InForce'
    <3>1. base = BaseNow /\ ListsSoFar
      BY <2>1, <2>3 DEF SeenInv, ReadSoFar
    <3>2. new.addr = cmap /\ new.list = PartNow.list
      BY <2>1, <3>1 DEF ListsSoFar, PartNow, LoopTypes, Partition
    <3>3. new = PartNow
      BY <3>2 DEF PartNow, LoopTypes, Partition
    <3> QED BY <1>2, <2>1, <3>1, <3>3 DEF InForce
  <2> QED BY <2>1, <2>2, <2>3 DEF ReadSoFar
<1>12. ASSUME BeginPoll \/ StampFile \/ StampBots PROVE Claim'
  <2>1. /\ Trusted' = Trusted /\ UNCHANGED <<base, part, missed, armed>>
        /\ pc \in {"idle", "stamp", "stampBots"} /\ pc' \in {"stamp", "stampBots"}
    BY <1>2, <1>12 DEF BeginPoll, StampFile, StampBots, Trusted, pastVars
  <2> QED BY <1>2, <2>1 DEF SeenInv, ReadSoFar, InForce
<1>13. ASSUME EndStamp PROVE Claim'
  <2>1. /\ pc = "stampBots" /\ armed' /\ last' = fp
        /\ UNCHANGED <<base, part, missed>>
    BY <1>13 DEF EndStamp, pastVars
  <2>2. CASE armed /\ fp # last
    BY <1>1, <1>2, <1>3, <1>13, <2>1, <2>2 DEF EndStamp, ReadBase, ReadSoFar
  <2>3. CASE ~(armed /\ fp # last)
    <3>1. pc' = "idle"
      BY <1>13, <2>3 DEF EndStamp
    <3>2. Trusted' => Trusted \/ missed
      BY <1>2, <2>1, <2>3 DEF Trusted
    <3>3. Trusted => InForce \/ BaseNow = {} \/ missed
      BY <2>1 DEF SeenInv, ReadSoFar
    <3> QED BY <1>2, <2>1, <3>1, <3>2, <3>3 DEF ReadSoFar, InForce
  <2> QED BY <2>2, <2>3
<1>14. Claim'
  BY <1>5, <1>6, <1>7, <1>8, <1>9, <1>10, <1>11, <1>12, <1>13 DEF ProxyStep
<1> QED BY <1>4, <1>14 DEF SeenInv

LEMMA SeenStep == TypeInv /\ SeenInv /\ [Next]_vars => SeenInv'
<1> SUFFICES ASSUME TypeInv, SeenInv, [Next]_vars PROVE SeenInv'
  OBVIOUS
<1>1. StampsOK'
  BY StampsStep DEF SeenInv
<1>2. ASSUME WriterStep PROVE SeenInv'
  <2>1. UNCHANGED <<pc, armed>>
    BY <1>2 DEF WriterStep, Learn, Truncate, WriteSeed, WriteMap, LoseWrite, loopVars
  <2> QED BY <1>1, <1>2, <2>1, SeenWriter DEF SeenInv
<1>3. ASSUME Crash PROVE SeenInv'
  BY <1>1, <1>3 DEF Crash, SeenInv, ReadSoFar
<1>4. ASSUME ConnStep \/ UNCHANGED vars PROVE SeenInv'
  <2>1. UNCHANGED <<fileVars, base, part, loopVars, pastVars>>
    BY <1>4 DEF ConnStep, Ask, TestBase, TestList, vars
  <2> QED
    BY <1>1, <2>1
       DEF SeenInv, Trusted, ReadSoFar, ListsSoFar, InForce, BaseNow, PartNow, StampNow,
           fileVars, loopVars, pastVars
<1> QED BY <1>2, <1>3, <1>4, SeenProxy DEF Next

\* "Any content change bumps at least one mtime, so the reload loop
\* re-composes": a loop that sleeps on the stamps of the files has put in force
\* what they say, with the two exceptions that the property names.
THEOREM EveryChangeSeen == Spec => []NoChangeUnseen
<1>1. Init => TypeInv /\ SeenInv
  BY TypeInit, SeenInit
<1>2. TypeInv /\ SeenInv /\ [Next]_vars => (TypeInv /\ SeenInv)'
  BY TypeStep, SeenStep
<1>3. SeenInv => NoChangeUnseen
  BY DEF SeenInv, Trusted, ReadSoFar, NoChangeUnseen
<1> QED BY <1>1, <1>2, <1>3, PTL DEF Spec

=============================================================================
