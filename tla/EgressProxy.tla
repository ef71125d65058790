----------------------------- MODULE EgressProxy -----------------------------
(***************************************************************************)
(* The egress proxy, sandbox/egress-proxy/main.go, and the files that say  *)
(* which hosts a bot may reach.  A goroutine polls the files and swaps in  *)
(* a new policy when one of them has changed; meanwhile the connections    *)
(* decide, the vetter appends to the learned stores, and the operator and  *)
(* claw-egress-sync rewrite the seed and the client map in place.          *)
(*                                                                         *)
(* An action is one access to a file or to one of the two atomic pointers: *)
(* files change, and connections decide, between any two of them.          *)
(***************************************************************************)
EXTENDS Integers, Sequences

CONSTANTS
    Host, Ip, Bot,
    BotOrder,   \* the bots, sorted
    Conn,       \* connections that may be under way at the same time
    NoBot,      \* no bot: an address that the client map does not list
    None,       \* no write under way, no partition
    MaxWrites,  \* bound: writes of the files
    MaxFaults   \* bound: deaths of the proxy or of a writer

VARIABLES
    \* files
    hosts,      \* hosts[f]: the entries of a list file
    cmap,       \* the client map
    mtime,      \* mtime[f]: grows with each change, 0 if there is no file
    writing,    \* writing[f]: what the writer of f has still to write
    \* the proxy
    base,       \* allowlistPtr
    part,       \* partPtr: addr, the client map, and list, the bots' own hosts
    pc, plan,   \* where main or reloadLoop is, the files it has still to visit
    armed,      \* reloadLoop has its first fingerprint
    last, fp,   \* last; the fingerprint in the making
    got, new,   \* the list and the partition in the making
    \* the connections
    req,        \* req[c]: the address and host of c, and its bot as resolved
    dpc,        \* where its decision is
    verdict,    \* its latest outcome
    \* history
    missed,     \* a file changed after the boot began and before it was armed
    listed,     \* <<f, host>>: list files and the hosts they have had
    mapped,     \* <<ip, bot>>: the entries the client map has had
    maps,       \* the client maps that were completely written
    writes, faults

ListFile == {"seed", "learned"} \cup Bot
File     == ListFile \cup {"map"}
InPlace  == {"seed", "map"}   \* rewritten in place; the others are appended to

ClientMap == [Ip -> Bot \cup {NoBot}]
Partition == [addr : ClientMap, list : [Bot -> SUBSET Host]]

ASSUME EgressAssumption ==
    /\ BotOrder \in Seq(Bot) /\ \A b \in Bot : \E i \in DOMAIN BotOrder : BotOrder[i] = b
    /\ Bot \cap {"seed", "learned", "map"} = {}
    /\ NoBot \notin File /\ None \notin Partition
    /\ MaxWrites \in Nat /\ MaxFaults \in Nat

fileVars == <<hosts, cmap, mtime, writing>>
loopVars == <<pc, plan, armed, last, fp, got, new>>
connVars == <<req, dpc, verdict>>
pastVars == <<missed, listed, mapped, maps, writes>>
vars == <<fileVars, base, part, loopVars, connVars, pastVars, faults>>

Request   == [ip : Ip, host : Host, bot : Bot \cup {NoBot}]

Unmapped  == [ip \in Ip |-> NoBot]
EmptyPart == [addr |-> Unmapped, list |-> [b \in Bot |-> {}]]
NotStamped == [f \in File |-> -1]

EgressTypeOK ==
    /\ hosts \in [ListFile -> SUBSET Host] /\ cmap \in ClientMap
    /\ mtime \in [File -> Nat]
    /\ writing["seed"] \in (SUBSET Host) \cup {None}
    /\ writing["map"] \in ClientMap \cup {None}
    /\ base \in SUBSET Host
    /\ part \in Partition \cup {None}
    /\ pc \in {"boot", "base", "map", "lists", "stamp", "stampBots", "idle"}
    /\ plan \subseteq File
    /\ armed \in BOOLEAN /\ missed \in BOOLEAN
    /\ last \in [File -> Nat \cup {-1}] /\ fp \in [File -> Nat \cup {-1}]
    /\ got \in SUBSET Host /\ new \in Partition
    /\ req \in [Conn -> Request \cup {None}]
    /\ dpc \in [Conn -> {"free", "base", "list"}]
    /\ verdict \in [Conn -> {"none", "allow", "deny"}]
    /\ writes \in 0..MaxWrites /\ faults \in 0..MaxFaults

\* There is a seed; nothing is learned and no address is mapped yet.
Init ==
    /\ \E S \in (SUBSET Host) \ {{}} :
           /\ hosts = [f \in ListFile |-> IF f = "seed" THEN S ELSE {}]
           /\ listed = {"seed"} \X S
    /\ cmap = Unmapped
    /\ mtime = [f \in File |-> IF f = "seed" THEN 1 ELSE 0]
    /\ writing = [f \in InPlace |-> None]
    /\ base = {} /\ part = None
    /\ pc = "boot" /\ plan = {} /\ armed = FALSE
    /\ last = NotStamped /\ fp = NotStamped
    /\ got = {} /\ new = EmptyPart
    /\ req = [c \in Conn |-> None]
    /\ dpc = [c \in Conn |-> "free"]
    /\ verdict = [c \in Conn |-> "none"]
    /\ missed = FALSE /\ mapped = {} /\ maps = {}
    /\ writes = 0 /\ faults = 0

-----------------------------------------------------------------------------
(* The writers of the files                                                *)

Touch(f) ==
    /\ mtime' = [mtime EXCEPT ![f] = @ + 1]
    /\ missed' = (missed \/ (pc # "boot" /\ ~armed))

WriteBegins == writes < MaxWrites /\ writes' = writes + 1

\* claw-vet appends a host it allows: one short write.
Learn(f, h) ==
    /\ f \in ListFile \ InPlace
    /\ h \notin hosts[f]
    /\ WriteBegins
    /\ Touch(f)
    /\ hosts' = [hosts EXCEPT ![f] = @ \cup {h}]
    /\ listed' = listed \cup {<<f, h>>}
    /\ UNCHANGED <<cmap, writing, base, part, loopVars, connVars, mapped, maps, faults>>

\* A file is opened for rewriting, and is empty for a while.
Truncate(f, content) ==
    /\ writing[f] = None
    /\ WriteBegins
    /\ Touch(f)
    /\ writing' = [writing EXCEPT ![f] = content]
    /\ IF f = "map"
       THEN cmap' = Unmapped /\ UNCHANGED hosts
       ELSE hosts' = [hosts EXCEPT ![f] = {}] /\ UNCHANGED cmap
    /\ UNCHANGED <<base, part, loopVars, connVars, listed, mapped, maps, faults>>

\* The operator's seed.
WriteSeed ==
    /\ writing["seed"] # None
    /\ Touch("seed")
    /\ hosts' = [hosts EXCEPT !["seed"] = writing["seed"]]
    /\ listed' = listed \cup ({"seed"} \X writing["seed"])
    /\ writing' = [writing EXCEPT !["seed"] = None]
    /\ UNCHANGED <<cmap, base, part, loopVars, connVars, mapped, maps, writes, faults>>

\* claw-egress-sync's map of the addresses that docker reports.
WriteMap ==
    /\ writing["map"] # None
    /\ Touch("map")
    /\ cmap' = writing["map"]
    /\ mapped' = mapped \cup {<<ip, writing["map"][ip]>> : ip \in Ip}
    /\ maps' = maps \cup {writing["map"]}
    /\ writing' = [writing EXCEPT !["map"] = None]
    /\ UNCHANGED <<hosts, base, part, loopVars, connVars, listed, writes, faults>>

Fault == faults < MaxFaults /\ faults' = faults + 1

\* A writer dies after the truncation.
LoseWrite(f) ==
    /\ writing[f] # None
    /\ Fault
    /\ writing' = [writing EXCEPT ![f] = None]
    /\ UNCHANGED <<hosts, cmap, mtime, base, part, loopVars, connVars, pastVars>>

-----------------------------------------------------------------------------
(* main and reloadLoop                                                     *)

\* The order in which files are read and stamped, and the first of some files.
FileOrder == <<"seed", "learned", "map">> \o BotOrder

First(S) ==
    LET Least(i) == FileOrder[i] \in S /\ \A j \in 1..(i - 1) : FileOrder[j] \notin S
    IN  FileOrder[CHOOSE i \in DOMAIN FileOrder : Least(i)]

\* partitionBots of a client map.
BotsOf(m) == {b \in Bot : \E ip \in Ip : m[ip] = b}

\* The files of the shared base.
BaseFiles == {"seed", "learned"}

\* The files every fingerprint covers.  Faulty variant: the map is forgotten.
FixedWithoutMap == BaseFiles
FixedFiles == BaseFiles \cup {"map"}

\* The bots whose files a fingerprint covers.
\* Faulty variant: those of a bot that is new in the map are not.
WatchedAtStart(m) == IF armed THEN {} ELSE BotsOf(m)
WatchedBots(m) == BotsOf(m)

ReadBase(phase) ==
    /\ pc' = phase
    /\ plan' = BaseFiles
    /\ got' = {}

\* The container starts; main begins with rebuildAllowlist.
Boot ==
    /\ pc = "boot"
    /\ ReadBase("base")
    /\ missed' = FALSE
    /\ UNCHANGED <<fileVars, base, part, armed, last, fp, new, connVars,
                   listed, mapped, maps, writes, faults>>

ReadBaseFile ==
    /\ pc = "base"
    /\ plan # {}
    /\ got' = got \cup hosts[First(plan)]
    /\ plan' = plan \ {First(plan)}
    /\ UNCHANGED <<fileVars, base, part, pc, armed, last, fp, new, connVars,
                   pastVars, faults>>

\* A base that may be put in force.  Faulty variant: any.
UsableAny(S) == TRUE
Usable(S) == S # {}

\* Nothing usable: the loop keeps what is in force, main gives up and is restarted.
RejectBase ==
    /\ pc = "base"
    /\ plan = {}
    /\ ~Usable(got)
    /\ pc' = IF armed THEN "idle" ELSE "boot"
    /\ UNCHANGED <<fileVars, base, part, plan, armed, last, fp, got, new, connVars,
                   pastVars, faults>>

StoreBase ==
    /\ pc = "base"
    /\ plan = {}
    /\ Usable(got)
    /\ base' = got
    /\ got' = {}
    /\ pc' = "map"
    /\ UNCHANGED <<fileVars, part, plan, armed, last, fp, new, connVars,
                   pastVars, faults>>

\* rebuildPartition: the map, then the lists of its bots.
ReadMap ==
    /\ pc = "map"
    /\ new' = [EmptyPart EXCEPT !.addr = cmap]
    /\ plan' = BotsOf(cmap)
    /\ pc' = "lists"
    /\ UNCHANGED <<fileVars, base, part, armed, last, fp, got, connVars,
                   pastVars, faults>>

\* The hosts read for b.  Faulty variant: one accumulator for all the bots.
SharedList(b) == hosts[b] \cup UNION {new.list[x] : x \in Bot}
OwnList(b) == hosts[b]

ReadList ==
    /\ pc = "lists"
    /\ plan # {}
    /\ new' = [new EXCEPT !.list[First(plan)] = OwnList(First(plan))]
    /\ plan' = plan \ {First(plan)}
    /\ UNCHANGED <<fileVars, base, part, pc, armed, last, fp, got, connVars,
                   pastVars, faults>>

\* The partition is swapped in.  At boot reloadLoop starts next, and the server.
StorePart ==
    /\ pc = "lists"
    /\ plan = {}
    /\ part' = new
    /\ new' = EmptyPart
    /\ missed' = (missed /\ ~armed)
    /\ IF armed THEN pc' = "idle" /\ UNCHANGED <<plan, fp>>
       ELSE pc' = "stamp" /\ plan' = FixedFiles /\ fp' = NotStamped
    /\ UNCHANGED <<fileVars, base, armed, last, got, connVars, listed, mapped, maps,
                   writes, faults>>

\* The ticker fires.
BeginPoll ==
    /\ pc = "idle"
    /\ pc' = "stamp"
    /\ plan' = FixedFiles
    /\ fp' = NotStamped
    /\ UNCHANGED <<fileVars, base, part, armed, last, got, new, connVars,
                   pastVars, faults>>

StampFile ==
    /\ pc \in {"stamp", "stampBots"}
    /\ plan # {}
    /\ fp' = [fp EXCEPT ![First(plan)] = mtime[First(plan)]]
    /\ plan' = plan \ {First(plan)}
    /\ UNCHANGED <<fileVars, base, part, pc, armed, last, got, new, connVars,
                   pastVars, faults>>

\* fingerprint reads the map to know the bots.
StampBots ==
    /\ pc = "stamp"
    /\ plan = {}
    /\ plan' = WatchedBots(cmap)
    /\ pc' = "stampBots"
    /\ UNCHANGED <<fileVars, base, part, armed, last, fp, got, new, connVars,
                   pastVars, faults>>

\* The first fingerprint arms the loop; a later one is compared with last.
EndStamp ==
    /\ pc = "stampBots"
    /\ plan = {}
    /\ armed' = TRUE
    /\ last' = fp
    /\ fp' = NotStamped
    /\ IF armed /\ fp # last
       THEN ReadBase("base")
       ELSE pc' = "idle" /\ UNCHANGED <<plan, got>>
    /\ UNCHANGED <<fileVars, base, part, new, connVars, pastVars, faults>>

\* The proxy dies and is started again.
Crash ==
    /\ pc # "boot"
    /\ Fault
    /\ base' = {} /\ part' = None
    /\ pc' = "boot" /\ plan' = {} /\ armed' = FALSE
    /\ last' = NotStamped /\ fp' = NotStamped
    /\ got' = {} /\ new' = EmptyPart
    /\ req' = [c \in Conn |-> None]
    /\ dpc' = [c \in Conn |-> "free"]
    /\ verdict' = [c \in Conn |-> "none"]
    /\ UNCHANGED <<fileVars, pastVars>>

-----------------------------------------------------------------------------
(* hostAllowedFor, on a connection of its own                              *)

\* botFor: the first of the three loads of a decision.
Ask(c, ip, h) ==
    /\ dpc[c] = "free"
    /\ part # None
    /\ req' = [req EXCEPT ![c] = [ip |-> ip, host |-> h, bot |-> part.addr[ip]]]
    /\ verdict' = [verdict EXCEPT ![c] = "none"]
    /\ dpc' = [dpc EXCEPT ![c] = "base"]
    /\ UNCHANGED <<fileVars, base, part, loopVars, pastVars, faults>>

Decide(c, v) ==
    /\ verdict' = [verdict EXCEPT ![c] = v]
    /\ dpc' = [dpc EXCEPT ![c] = "free"]

\* The base is enough for anybody, and all there is for an unmapped address.
TestBase(c) ==
    /\ dpc[c] = "base"
    /\ \/ req[c].host \in base /\ Decide(c, "allow")
       \/ req[c].host \notin base /\ req[c].bot = NoBot /\ Decide(c, "deny")
       \/ /\ req[c].host \notin base /\ req[c].bot # NoBot
          /\ dpc' = [dpc EXCEPT ![c] = "list"]
          /\ UNCHANGED verdict
    /\ UNCHANGED <<fileVars, base, part, loopVars, req, pastVars, faults>>

\* The bot's own hosts, from the partition as it is by now.
TestList(c) ==
    /\ dpc[c] = "list"
    /\ Decide(c, IF req[c].host \in part.list[req[c].bot] THEN "allow" ELSE "deny")
    /\ UNCHANGED <<fileVars, base, part, loopVars, req, pastVars, faults>>

ProxyStep ==
    \/ Boot \/ ReadBaseFile \/ RejectBase \/ StoreBase
    \/ ReadMap \/ ReadList \/ StorePart
    \/ BeginPoll \/ StampFile \/ StampBots \/ EndStamp

WriterStep ==
    \/ \E f \in ListFile, h \in Host : Learn(f, h)
    \/ \E S \in SUBSET Host : Truncate("seed", S)
    \/ \E m \in ClientMap : Truncate("map", m)
    \/ WriteSeed \/ WriteMap
    \/ \E f \in InPlace : LoseWrite(f)

ConnStep ==
    \E c \in Conn :
        \/ \E ip \in Ip, h \in Host : Ask(c, ip, h)
        \/ TestBase(c) \/ TestList(c)

Next == ProxyStep \/ WriterStep \/ ConnStep \/ Crash

\* The goroutine runs and is restarted with the container.  Nobody owes a
\* write, not even the second half of one, or a request.
Spec == Init /\ [][Next]_vars /\ WF_vars(ProxyStep)

-----------------------------------------------------------------------------
\* What the policy would be if it were built from the files as they are.
BaseNow == UNION {hosts[f] : f \in BaseFiles}
PartNow == [addr |-> cmap,
            list |-> [b \in Bot |-> IF b \in BotsOf(cmap) THEN hosts[b] ELSE {}]]

InForce == base = BaseNow /\ part = PartNow

\* The fingerprint of the files as they are.
StampNow == [f \in File |->
    IF f \in FixedFiles \cup WatchedBots(cmap) THEN mtime[f] ELSE -1]

\* "must never blank the gate": whoever asks finds a base that is not empty.
NeverBlank == part # None => base # {}

\* "Any content change bumps at least one mtime, so the reload loop
\* re-composes": when the loop sleeps and the files have the fingerprint it
\* remembers, their policy is in force, however writes and reads interleaved.
\* Excepted are a base with nothing in it, and a change that came after the
\* boot began to read and before the loop took its first fingerprint.
NoChangeUnseen ==
    pc = "idle" /\ last = StampNow => InForce \/ BaseNow = {} \/ missed

\* An allowed host was listed in the base, or for a bot its address was
\* mapped to: reloads in the middle of a decision or of a write may mix old
\* and new, and never one bot's hosts with another's.
OwnHosts ==
    \A c \in Conn : verdict[c] = "allow" =>
        LET h == req[c].host IN
        \/ <<"seed", h>> \in listed \/ <<"learned", h>> \in listed
        \/ \E b \in Bot : <<req[c].ip, b>> \in mapped /\ <<b, h>> \in listed

\* Once the writers rest the policy of the files is in force in the end, with
\* the same two exceptions.
EventuallyInForce == <>[](InForce \/ BaseNow = {} \/ missed)

\* "A truncated reload must never blank the gate", the last-known-good set is
\* kept, "base AND partition": a reload puts only a complete client map in force.
TruncatedMapKept ==
    [][part # None /\ part' # None => part'.addr \in maps \cup {part.addr}]_vars

=============================================================================
