------------------------------- MODULE VetLoop -------------------------------
(***************************************************************************)
(* The egress vetter, scripts/claw-vet: it reads the candidates the proxy  *)
(* denied from the tail of the proxy's audit stream, and the role policy,  *)
(* the classifier and the honeypot decide which of them it appends to the  *)
(* learned stores.  The daemon "watch" takes one candidate at a time; the  *)
(* operator's run, drain and sandbox-unsafe are processes of their own, so *)
(* the daemon's memo of refusals and the cached role files are not theirs. *)
(*                                                                         *)
(* A verdict of the daemon takes two actions: the gate, and, after the     *)
(* network and the model have answered, the decision; anything happens     *)
(* between the two.  One of the operator's takes one, which may fall there *)
(* as well.  The proxy's side is in EgressProxy.                           *)
(***************************************************************************)
EXTENDS Integers, FiniteSets, SequencesExt

CONSTANTS
    VetHost, VetBot,
    Global,         \* bot "": the store that every bot reads
    ProviderHosts, SharedInfra, AdversarialBots,
    RoleFiles,      \* readable role files: [locked, exclude, own]
    NoFile, Unreadable, Uncached,
    MaxDenials,     \* bound: candidates in the tail of the audit stream
    MaxVetEvents    \* bound: edits of role files, restarts, operator commands

ASSUME VetAssumption ==
    /\ MaxDenials \in Nat /\ MaxVetEvents \in Nat
    /\ Global \notin VetBot
    /\ {NoFile, Unreadable, Uncached} \cap RoleFiles = {}
    /\ NoFile # Unreadable /\ Uncached \notin {NoFile, Unreadable}

VARIABLES
    denied,         \* the vettable denials in the audit's tail, oldest first
    partitioned,    \* the proxy has a client map
    bootSeen,       \* its latest startup or reload record is in the tail
    role,           \* bots/<bot>/role.yaml
    learned,        \* the learned stores, a set of <<host, bot>>
    refused,        \* the daemon's memo
    cache,          \* its _ROLE_CACHE
    judging,        \* the candidate whose classification it awaits, or VetIdle
    \* history
    lived,          \* lived[b]: versions of b's file since the daemon started
    vetEvents

vetVars == <<denied, partitioned, bootSeen, role, learned, refused, cache,
             judging, lived, vetEvents>>

Candidate == VetHost \X (VetBot \cup {Global})
VetIdle == <<>>
NothingCached == [b \in VetBot |-> Uncached]

VetTypeOK ==
    /\ ToSet(denied) \subseteq Candidate /\ Len(denied) <= MaxDenials
    /\ partitioned \in BOOLEAN /\ bootSeen \in BOOLEAN
    /\ role \in [VetBot -> RoleFiles \cup {NoFile, Unreadable}]
    /\ learned \subseteq Candidate /\ refused \subseteq Candidate
    /\ cache \in [VetBot -> RoleFiles \cup {NoFile, Uncached}]
    /\ judging \in Candidate \cup {VetIdle}
    /\ vetEvents \in 0..MaxVetEvents

VetInit ==
    /\ denied = <<>> /\ partitioned \in BOOLEAN /\ bootSeen = TRUE
    /\ role = [b \in VetBot |-> NoFile]
    /\ learned = {} /\ refused = {} /\ vetEvents = 0
    /\ cache = NothingCached /\ judging = VetIdle
    /\ lived = [b \in VetBot |-> {role[b]}]

AlreadyAllowed(c) == c \in learned \/ <<c[1], Global>> \in learned

Event == vetEvents < MaxVetEvents /\ vetEvents' = vetEvents + 1

(***************************************************************************)
(* The role-policy gate.                                                   *)
(***************************************************************************)
\* load_role_policy in a process with cache k
Policy(k, b) == IF k[b] # Uncached THEN k[b] ELSE role[b]

\* The peers that have a file now, as the process knows it, and declare the host.
Claimants(k, c) ==
    {b \in VetBot \ {c[2]} :
        LET f == Policy(k, b)
        IN role[b] # NoFile /\ f \notin {NoFile, Unreadable} /\ c[1] \in f.own}

\* Faulty variant: an unreadable file counts as no file
VetMutGateOpen(k, c) ==
    \/ c[1] \in ProviderHosts
    \/ c[2] = Global /\ partitioned /\ bootSeen
    \/ /\ c[2] # Global
       /\ LET f == Policy(k, c[2]) IN
          f \notin {NoFile, Unreadable} /\ (f.locked \/ c[1] \in f.exclude)

\* policy_gate: is the candidate blocked?  A partition nobody can see in the
\* audit's tail is unknown, and does not block.
Gated(k, c) ==
    \/ c[1] \in ProviderHosts
    \/ c[2] = Global /\ partitioned /\ bootSeen
    \/ /\ c[2] # Global
       /\ LET f == Policy(k, c[2]) IN
          \/ f = Unreadable
          \/ /\ f # NoFile
             /\ \/ f.locked \/ c[1] \in f.exclude
                \/ /\ c[1] \notin f.own \cup SharedInfra
                   /\ Cardinality(Claimants(k, c)) = 1

\* What the daemon has cached by the time the gate answers.  It reads the peers'
\* files only if no rule before that one has decided.
CacheAfter(c) ==
    LET f == Policy(cache, c[2])
        peers == /\ f \notin {NoFile, Unreadable} /\ ~f.locked
                 /\ c[1] \notin f.exclude \cup f.own \cup SharedInfra
    IN  IF c[1] \in ProviderHosts \/ c[2] = Global THEN cache
        ELSE [b \in VetBot |->
                IF (b = c[2] \/ (peers /\ role[b] # NoFile)) /\ Policy(cache, b) # Unreadable
                THEN Policy(cache, b) ELSE cache[b]]

(***************************************************************************)
(* The world: the proxy's audit stream and the operator's files.           *)
(***************************************************************************)
ProxyDenies(h, b) ==
    /\ Len(denied) < MaxDenials /\ (b # Global) = partitioned
    /\ ~AlreadyAllowed(<<h, b>>) /\ <<h, b>> \notin ToSet(denied)
    /\ denied' = Append(denied, <<h, b>>)
    /\ UNCHANGED <<partitioned, bootSeen, role, learned, refused, cache, judging,
                   lived, vetEvents>>

\* The tail is bounded in bytes or lines: the oldest records leave it, the
\* startup record among them.
TailMoves ==
    /\ Event /\ bootSeen' = FALSE
    /\ denied' \in {denied, IF denied = <<>> THEN denied ELSE Tail(denied)}
    /\ UNCHANGED <<partitioned, role, learned, refused, cache, judging, lived>>

ProxyRestarts(part) ==
    /\ Event /\ partitioned' = part /\ bootSeen' = TRUE
    /\ UNCHANGED <<denied, role, learned, refused, cache, judging, lived>>

EditRole(b, f) ==
    /\ Event /\ f # role[b] /\ role' = [role EXCEPT ![b] = f]
    /\ lived' = [lived EXCEPT ![b] = @ \cup {f}]
    /\ UNCHANGED <<denied, partitioned, bootSeen, learned, refused, cache, judging>>

(***************************************************************************)
(* vet_host                                                                *)
(***************************************************************************)
\* Faulty variant: refused candidates are not skipped
VetMutNoMemo == {i \in DOMAIN denied : ~AlreadyAllowed(denied[i])}

\* Where in the tail the candidates are that the daemon still has to judge.
Pending == {i \in DOMAIN denied : ~AlreadyAllowed(denied[i]) /\ denied[i] \notin refused}

\* cmd_watch takes the oldest.  A refusal by the gate is final for the daemon.
WatchPick ==
    /\ judging = VetIdle /\ Pending # {}
    /\ LET c == denied[Min(Pending)] IN
       /\ cache' = CacheAfter(c)
       /\ IF Gated(cache, c)
          THEN refused' = refused \cup {c} /\ UNCHANGED judging
          ELSE judging' = c /\ UNCHANGED refused
    /\ UNCHANGED <<denied, partitioned, bootSeen, role, learned, lived, vetEvents>>

\* PASS, and no manipulation found in the evidence
LearnHosts ==
    /\ judging # VetIdle /\ judging' = VetIdle
    /\ learned' = learned \cup (IF AlreadyAllowed(judging) THEN {} ELSE {judging})
    /\ UNCHANGED <<denied, partitioned, bootSeen, role, refused, cache, lived, vetEvents>>

\* WARN, BLOCK, no answer that parses, a manipulation, or a classifier error
Refuse ==
    /\ judging # VetIdle /\ judging' = VetIdle /\ refused' = refused \cup {judging}
    /\ UNCHANGED <<denied, partitioned, bootSeen, role, learned, cache, lived, vetEvents>>

\* The daemon dies (an exception vet_host does not catch, a deployment) and its
\* container is started again: the memo and the cache are gone.
VetRestart ==
    /\ Event /\ judging' = VetIdle /\ refused' = {} /\ cache' = NothingCached
    /\ lived' = [b \in VetBot |-> {role[b]}]
    /\ UNCHANGED <<denied, partitioned, bootSeen, role, learned>>

\* cmd_run, or cmd_drain at one of its candidates: a process with nothing
\* cached, and the classifier passes.
OperatorVets(c) ==
    /\ Event /\ ~AlreadyAllowed(c) /\ ~Gated(NothingCached, c)
    /\ learned' = learned \cup {c}
    /\ UNCHANGED <<denied, partitioned, bootSeen, role, refused, cache, judging, lived>>

\* cmd_sandbox_unsafe: the operator's word, past the gate and the classifier
SandboxUnsafe(h, b) ==
    /\ Event /\ b \in AdversarialBots /\ ~AlreadyAllowed(<<h, b>>)
    /\ learned' = learned \cup {<<h, b>>}
    /\ UNCHANGED <<denied, partitioned, bootSeen, role, refused, cache, judging, lived>>

VetNext ==
    \/ \E h \in VetHost, b \in VetBot \cup {Global} : ProxyDenies(h, b)
    \/ TailMoves
    \/ \E part \in BOOLEAN : ProxyRestarts(part)
    \/ \E b \in VetBot, f \in RoleFiles \cup {NoFile, Unreadable} : EditRole(b, f)
    \/ WatchPick \/ LearnHosts \/ Refuse
    \/ VetRestart
    \/ \E c \in Candidate : OperatorVets(c)
    \/ \E h \in VetHost, b \in VetBot : SandboxUnsafe(h, b)

VetSpec == VetInit /\ [][VetNext]_vetVars

WatchStep == WatchPick \/ LearnHosts \/ Refuse

(***************************************************************************)
(* Properties                                                              *)
(***************************************************************************)
\* Version f of a bot's role file lets the bot learn h.
Admits(f, h) ==
    f = NoFile \/ (f # Unreadable /\ ~f.locked /\ h \notin f.exclude)

\* A host that the daemon learns for a bot is no provider's, and some version of
\* the bot's role file that was in place since the daemon started admits it:
\* neither the cache nor the time the classifier takes lets in a host that only
\* an older file allowed.
VetWithinRole ==
    [][judging # VetIdle /\ judging \in learned' \ learned /\ judging' = VetIdle =>
        /\ judging[1] \notin ProviderHosts
        /\ judging[2] # Global =>
             \E f \in lived[judging[2]] : Admits(f, judging[1])]_vetVars

\* Every candidate in the audit's tail is in the end allowed, refused by the
\* daemon, or out of the tail: one that is refused again and again does not
\* keep the daemon from the others.
VetEventuallyJudged ==
    \A c \in Candidate :
        (c \in ToSet(denied)) ~> (AlreadyAllowed(c) \/ c \in refused \/ c \notin ToSet(denied))
=============================================================================
