------------------------------- MODULE ChromeMcp -------------------------------
(***************************************************************************)
(* The pool of Chrome MCP sessions of the browser extension (chrome-mcp.ts)*)
(* A session is a child process with an MCP client.  It is cached under a  *)
(* key made of the profile and its options; a call for one key closes what *)
(* the profile has under its other keys.  Creation, attaching and closing  *)
(* are awaited, so that calls interleave at each of these points.  A status*)
(* probe ("ephemeral") uses what is there and otherwise a session of its   *)
(* own, which it closes.                                                   *)
(***************************************************************************)
EXTENDS Integers

CONSTANTS
    McpKey,         \* cache keys
    McpProfileOf,   \* McpProfileOf[k]: the profile of key k
    McpCaller,      \* calls that may be under way at the same time
    MaxMcpSessions, \* bound: child processes ever started
    NoSession

McpSession == 1..MaxMcpSessions

ASSUME McpAssumption ==
    /\ MaxMcpSessions \in Nat /\ NoSession \notin McpSession

VARIABLES
    cached,         \* sessions: the map of the sessions
    pending,        \* pendingSessions: the session a creation under way will make
    started,        \* how many child processes were started
    keyOf,          \* the key a session was created for
    creating,       \* sessions whose creation has not returned
    attach,         \* of a session: its promise "ready"
    alive,          \* sessions whose process runs and is not closed
    call,           \* call[c]: the step it is at and what it leased
    abandoned       \* sessions that a caller stopped waiting for (history)

mcpVars == <<cached, pending, started, keyOf, creating, attach, alive, call, abandoned>>

Idle == [pc |-> "idle", key |-> NoSession, s |-> NoSession, temp |-> FALSE, probe |-> FALSE,
         retried |-> FALSE]

McpTypeOK ==
    /\ cached \in [McpKey -> McpSession \cup {NoSession}]
    /\ pending \in [McpKey -> McpSession \cup {NoSession}]
    /\ started \in 0..MaxMcpSessions /\ keyOf \in [McpSession -> McpKey \cup {NoSession}]
    /\ creating \cup alive \cup abandoned \subseteq 1..started
    /\ attach \in [McpSession -> {"waiting", "ok", "failed"}]
    /\ \A c \in McpCaller : call[c].pc \in {"idle", "lookup", "join", "attach", "tool", "again"}

McpInit ==
    /\ cached = [k \in McpKey |-> NoSession] /\ pending = cached /\ started = 0
    /\ keyOf = [s \in McpSession |-> NoSession] /\ attach = [s \in McpSession |-> "waiting"]
    /\ creating = {} /\ alive = {} /\ abandoned = {} /\ call = [c \in McpCaller |-> Idle]

Goto(c, rec) == call' = [call EXCEPT ![c] = rec]
Rivals(p, keep) == {k \in McpKey \ {keep} : McpProfileOf[k] = p}

\* closeChromeMcpSessionsForProfile: what is pending is forgotten, and closed by its
\* creation when that returns; what is cached is closed.
CloseKeys(ks) ==
    /\ pending' = [k \in McpKey |-> IF k \in ks THEN NoSession ELSE pending[k]]
    /\ cached' = [k \in McpKey |-> IF k \in ks THEN NoSession ELSE cached[k]]
    /\ alive' = alive \ {cached[k] : k \in ks}

\* A new session for the key, by its creation if it is shared.
Start(k) ==
    /\ started < MaxMcpSessions /\ started' = started + 1
    /\ keyOf' = [keyOf EXCEPT ![started + 1] = k] /\ alive' = alive \cup {started + 1}

(***************************************************************************)
(* leaseSession                                                            *)
(***************************************************************************)
\* getSession first closes the profile's other sessions, and awaits that; a status
\* probe does not.
BeginLease(c, k, probe, retried) ==
    /\ IF probe THEN UNCHANGED <<cached, pending, alive>>
       ELSE CloseKeys(Rivals(McpProfileOf[k], k))
    /\ Goto(c, [Idle EXCEPT !.pc = "lookup", !.key = k, !.probe = probe, !.retried = retried])
    /\ UNCHANGED <<started, keyOf, creating, attach, abandoned>>

BeginCall(c, k, probe) == call[c].pc = "idle" /\ BeginLease(c, k, probe, FALSE)
RetryCall(c) == call[c].pc = "again" /\ BeginLease(c, call[c].key, call[c].probe, TRUE)

\* The cached session, if its process runs; then the one that is being created,
\* which several calls may wait for; otherwise a new one: shared, or for a probe
\* its own.
Lookup(c) ==
    LET k == call[c].key
        s == IF cached[k] \in alive THEN cached[k] ELSE NoSession
    IN /\ call[c].pc = "lookup" /\ cached' = [cached EXCEPT ![k] = s]
       /\ \/ /\ s # NoSession /\ Goto(c, [call[c] EXCEPT !.pc = "attach", !.s = s])
             /\ UNCHANGED <<pending, started, keyOf, creating, alive>>
          \/ /\ s = NoSession /\ pending[k] # NoSession
             /\ Goto(c, [call[c] EXCEPT !.pc = "join", !.s = pending[k]])
             /\ UNCHANGED <<pending, started, keyOf, creating, alive>>
          \/ /\ s = NoSession /\ pending[k] = NoSession /\ Start(k)
             /\ IF call[c].probe
                THEN /\ Goto(c, [call[c] EXCEPT !.pc = "attach", !.s = started + 1, !.temp = TRUE])
                     /\ UNCHANGED <<pending, creating>>
                ELSE /\ Goto(c, [call[c] EXCEPT !.pc = "join", !.s = started + 1])
                     /\ pending' = [pending EXCEPT ![k] = started + 1]
                     /\ creating' = creating \cup {started + 1}
       /\ UNCHANGED <<attach, abandoned>>

\* Faulty variant: the creation caches its session also if it was forgotten
McpMutCreated(s) ==
    /\ s \in creating /\ creating' = creating \ {s}
    /\ cached' = [cached EXCEPT ![keyOf[s]] = s]
    /\ UNCHANGED <<pending, started, keyOf, attach, alive, call, abandoned>>

\* The creation returns: the session is cached, or closed if nobody waits for it
\* under the key any more.
Created(s) ==
    /\ s \in creating /\ creating' = creating \ {s}
    /\ IF pending[keyOf[s]] = s
       THEN cached' = [cached EXCEPT ![keyOf[s]] = s] /\ UNCHANGED alive
       ELSE alive' = alive \ {s} /\ UNCHANGED cached
    /\ UNCHANGED <<pending, started, keyOf, attach, call, abandoned>>

\* A call that waited for it goes on; only a probe leaves the entry to the others.
Joined(c) ==
    LET k == call[c].key
    IN /\ call[c].pc = "join" /\ call[c].s \notin creating
       /\ pending' = IF pending[k] = call[c].s /\ ~call[c].probe
                     THEN [pending EXCEPT ![k] = NoSession] ELSE pending
       /\ Goto(c, [call[c] EXCEPT !.pc = "attach"])
       /\ UNCHANGED <<cached, started, keyOf, creating, attach, alive, abandoned>>

\* createRealSession's handshake ends: a failure closes the client.
Attaches(s) ==
    /\ s \in 1..started \ creating /\ attach[s] = "waiting"
    /\ \/ s \in alive /\ attach' = [attach EXCEPT ![s] = "ok"] /\ UNCHANGED alive
       \/ attach' = [attach EXCEPT ![s] = "failed"] /\ alive' = alive \ {s}
    /\ UNCHANGED <<cached, pending, started, keyOf, creating, call, abandoned>>

AttachOk(c) ==
    /\ call[c].pc = "attach" /\ attach[call[c].s] = "ok"
    /\ Goto(c, [call[c] EXCEPT !.pc = "tool"])
    /\ UNCHANGED <<cached, pending, started, keyOf, creating, attach, alive, abandoned>>

\* waitForChromeMcpReady fails, or its time is over while the session still
\* attaches: the session is dropped from the cache, and closed if it is temporary.
AttachFails(c) ==
    LET s == call[c].s  k == call[c].key
    IN /\ call[c].pc = "attach" /\ attach[s] \in {"waiting", "failed"}
       /\ cached' = IF ~call[c].temp /\ cached[k] = s THEN [cached EXCEPT ![k] = NoSession]
                    ELSE cached
       /\ alive' = IF call[c].temp THEN alive \ {s} ELSE alive
       /\ abandoned' = IF ~call[c].temp /\ cached[k] = s THEN abandoned \cup {s} ELSE abandoned
       /\ Goto(c, Idle) /\ UNCHANGED <<pending, started, keyOf, creating, attach>>

(***************************************************************************)
(* callTool                                                                *)
(***************************************************************************)
\* A session that failed its call is dropped and closed, unless another one is
\* under its key by now.
DropLeased(c) ==
    LET s == call[c].s  k == call[c].key
    IN /\ cached' = IF ~call[c].temp /\ cached[k] = s THEN [cached EXCEPT ![k] = NoSession]
                    ELSE cached
       /\ alive' = IF call[c].temp \/ cached[k] = s THEN alive \ {s} ELSE alive

ToolReturns(c) ==
    /\ call[c].pc = "tool" /\ call[c].s \in alive /\ Goto(c, Idle)
    /\ alive' = IF call[c].temp THEN alive \ {call[c].s} ELSE alive
    /\ UNCHANGED <<cached, pending, started, keyOf, creating, attach, abandoned>>

\* A transport error, a timeout or an abort.
ToolFails(c) ==
    /\ call[c].pc = "tool" /\ DropLeased(c) /\ Goto(c, Idle)
    /\ UNCHANGED <<pending, started, keyOf, creating, attach, abandoned>>

\* A stale selected page: the call is made again, once, on a new lease.
ToolStale(c) ==
    /\ call[c].pc = "tool" /\ call[c].s \in alive /\ ~call[c].retried
    /\ DropLeased(c)
    /\ Goto(c, [Idle EXCEPT !.pc = "again", !.key = call[c].key, !.probe = call[c].probe])
    /\ UNCHANGED <<pending, started, keyOf, creating, attach, abandoned>>

(***************************************************************************)
(* Outside calls                                                           *)
(***************************************************************************)
\* The process ends by itself (transport.pid is null).
McpProcessDies(s) ==
    /\ s \in alive \ creating /\ alive' = alive \ {s}
    /\ UNCHANGED <<cached, pending, started, keyOf, creating, attach, call, abandoned>>

\* closeChromeMcpSession(profile); the profile's keys all go.
CloseProfile(p) ==
    /\ CloseKeys(Rivals(p, NoSession)) /\ <<cached', pending'>> # <<cached, pending>>
    /\ UNCHANGED <<started, keyOf, creating, attach, call, abandoned>>

\* stopAllChromeMcpSessions: the profiles that have a cached session.
StopAll ==
    LET names == {McpProfileOf[k] : k \in {k \in McpKey : cached[k] # NoSession}}
    IN /\ names # {} /\ CloseKeys({k \in McpKey : McpProfileOf[k] \in names})
       /\ UNCHANGED <<started, keyOf, creating, attach, call, abandoned>>

McpNext ==
    \/ \E c \in McpCaller, k \in McpKey, probe \in BOOLEAN : BeginCall(c, k, probe)
    \/ \E c \in McpCaller : RetryCall(c) \/ Lookup(c) \/ Joined(c) \/ AttachOk(c) \/ AttachFails(c)
    \/ \E c \in McpCaller : ToolReturns(c) \/ ToolFails(c) \/ ToolStale(c)
    \/ \E s \in McpSession : Created(s) \/ Attaches(s) \/ McpProcessDies(s)
    \/ \E p \in {McpProfileOf[k] : k \in McpKey} : CloseProfile(p)
    \/ StopAll

McpSpec == McpInit /\ [][McpNext]_mcpVars

\* Every child process that runs can still be closed: it is cached, or on its way
\* into the cache, or some call's own; the exception is a session whose caller gave
\* up waiting while it attached, which is dropped and not closed.
NoSessionLeaked ==
    \A s \in alive :
        \/ \E k \in McpKey : cached[k] = s
        \/ s \in creating \cup abandoned
        \/ \E c \in McpCaller : call[c].temp /\ call[c].s = s
=============================================================================
