----------------------------- MODULE BrowserProofs -----------------------------
(***************************************************************************)
(* What the parts of the browser extension keep, each by itself, for any   *)
(* numbers of callers, keys, pages, tabs and processes, and whatever the   *)
(* interleaving of their awaits; and, at the end, that the six parts keep  *)
(* it side by side, as MCBrowser puts them together.                       *)
(***************************************************************************)
EXTENDS MCBrowser, FiniteSetTheorems, SequenceTheorems, TLAPS

(***************************************************************************)
(* ChromeMcp: the pool of Chrome MCP sessions                              *)
(***************************************************************************)
McpCallRecord == [pc : {"idle", "lookup", "join", "attach", "tool", "again"},
                  key : McpKey \cup {NoSession}, s : McpSession \cup {NoSession},
                  temp : BOOLEAN, probe : BOOLEAN, retried : BOOLEAN]

McpTypes ==
    /\ cached \in [McpKey -> McpSession \cup {NoSession}]
    /\ pending \in [McpKey -> McpSession \cup {NoSession}]
    /\ started \in 0..MaxMcpSessions /\ keyOf \in [McpSession -> McpKey \cup {NoSession}]
    /\ creating \subseteq 1..started /\ alive \subseteq 1..started /\ abandoned \subseteq 1..started
    /\ attach \in [McpSession -> {"waiting", "ok", "failed"}]
    /\ call \in [McpCaller -> McpCallRecord]

\* Where a call has a key, a session, and a session of its own.
CallsOK ==
    \A c \in McpCaller :
        /\ call[c].pc # "idle" => call[c].key \in McpKey
        /\ call[c].pc \in {"join", "attach", "tool"} => call[c].s \in 1..started
        /\ call[c].temp => call[c].pc \in {"attach", "tool"}

\* A creation under way has its key to itself, and nothing is cached there meanwhile.
PendingOK ==
    /\ \A s \in 1..started : keyOf[s] \in McpKey
    /\ \A k \in McpKey : pending[k] # NoSession =>
           /\ pending[k] \in 1..started /\ keyOf[pending[k]] = k
           /\ pending[k] \in creating => cached[k] = NoSession

McpInv == McpTypes /\ CallsOK /\ PendingOK /\ NoSessionLeaked

LEMMA McpStart == McpInit => McpInv
<1> SUFFICES ASSUME McpInit PROVE McpInv
    OBVIOUS
<1>1. call \in [McpCaller -> McpCallRecord]
    BY DEF McpInit, Idle, McpCallRecord
<1>2. McpTypes
    BY <1>1, McpAssumption DEF McpInit, McpTypes
<1>3. CallsOK /\ PendingOK
    BY DEF McpInit, CallsOK, PendingOK, Idle
<1>4. NoSessionLeaked
    BY DEF McpInit, NoSessionLeaked
<1> QED BY <1>2, <1>3, <1>4 DEF McpInv

\* Closing keys forgets what is under them, and closes what is cached there.
LEMMA ClosesKeys ==
    ASSUME McpInv, NEW ks, CloseKeys(ks)
    PROVE  /\ cached' \in [McpKey -> McpSession \cup {NoSession}]
           /\ pending' \in [McpKey -> McpSession \cup {NoSession}]
           /\ alive' \subseteq alive
           /\ \A k \in McpKey : /\ cached'[k] = IF k \in ks THEN NoSession ELSE cached[k]
                                /\ pending'[k] = IF k \in ks THEN NoSession ELSE pending[k]
           /\ \A k \in McpKey : k \in ks => cached[k] \notin alive'
<1>1. /\ cached \in [McpKey -> McpSession \cup {NoSession}]
      /\ pending \in [McpKey -> McpSession \cup {NoSession}]
    BY DEF McpInv, McpTypes
<1>2. /\ cached' \in [McpKey -> McpSession \cup {NoSession}]
      /\ \A k \in McpKey : cached'[k] = IF k \in ks THEN NoSession ELSE cached[k]
    BY <1>1 DEF CloseKeys
<1>3. /\ pending' \in [McpKey -> McpSession \cup {NoSession}]
      /\ \A k \in McpKey : pending'[k] = IF k \in ks THEN NoSession ELSE pending[k]
    BY <1>1 DEF CloseKeys
<1>4. alive' \subseteq alive /\ \A k \in McpKey : k \in ks => cached[k] \notin alive'
    BY DEF CloseKeys
<1> QED BY <1>2, <1>3, <1>4

\* Closing keys while the calls stay as they are, or one of them has no session of its own.
LEMMA ClosingKeepsPool ==
    ASSUME McpInv, NEW ks, CloseKeys(ks),
           UNCHANGED <<started, keyOf, creating, attach, abandoned>>,
           call' \in [McpCaller -> McpCallRecord], CallsOK',
           \A c \in McpCaller : call[c].temp => call'[c] = call[c]
    PROVE  McpInv'
<1>1. McpTypes'
    BY ClosesKeys DEF McpInv, McpTypes
<1>2. PendingOK'
    BY ClosesKeys DEF McpInv, PendingOK
<1>3. NoSessionLeaked'
    <2> SUFFICES ASSUME NEW s \in alive'
                 PROVE  \/ \E k \in McpKey : cached'[k] = s
                        \/ s \in creating' \cup abandoned'
                        \/ \E c \in McpCaller : call'[c].temp /\ call'[c].s = s
        BY DEF NoSessionLeaked
    <2>1. s \in alive
        BY ClosesKeys
    <2>2. CASE \E k \in McpKey : cached[k] = s
        <3>1. PICK k \in McpKey : cached[k] = s
            BY <2>2
        <3>2. cached'[k] = s
            BY <3>1, ClosesKeys
        <3> QED BY <3>2
    <2>3. CASE s \in creating \cup abandoned
        BY <2>3
    <2>4. CASE \E c \in McpCaller : call[c].temp /\ call[c].s = s
        BY <2>4
    <2> QED BY <2>1, <2>2, <2>3, <2>4 DEF McpInv, NoSessionLeaked
<1> QED BY <1>1, <1>2, <1>3 DEF McpInv

-----------------------------------------------------------------------------
\* A call moves to a record.
LEMMA CallGoes ==
    ASSUME McpInv, NEW c \in McpCaller, NEW rec \in McpCallRecord, Goto(c, rec)
    PROVE  /\ call' \in [McpCaller -> McpCallRecord]
           /\ \A d \in McpCaller : call'[d] = IF d = c THEN rec ELSE call[d]
BY DEF McpInv, McpTypes, Goto

LEMMA LeaseSteps ==
    ASSUME McpInv, NEW c \in McpCaller, NEW k \in McpKey, NEW probe \in BOOLEAN, NEW retried \in BOOLEAN,
           call[c].pc \in {"idle", "again"}, BeginLease(c, k, probe, retried)
    PROVE  McpInv'
<1> DEFINE rec == [Idle EXCEPT !.pc = "lookup", !.key = k, !.probe = probe, !.retried = retried]
<1>1. rec \in McpCallRecord
    BY DEF McpCallRecord, Idle
<1>2. Goto(c, rec) /\ UNCHANGED <<started, keyOf, creating, attach, abandoned>>
    BY DEF BeginLease
<1>3. /\ rec.pc = "lookup" /\ rec.key = k /\ rec.temp = FALSE
    BY DEF Idle
<1> HIDE DEF rec
<1>4. /\ call' \in [McpCaller -> McpCallRecord]
      /\ \A d \in McpCaller : call'[d] = IF d = c THEN rec ELSE call[d]
    BY <1>1, <1>2, CallGoes
<1>5. CallsOK'
    BY <1>2, <1>3, <1>4 DEF McpInv, CallsOK
<1>6. \A d \in McpCaller : call[d].temp => call'[d] = call[d]
    BY <1>4 DEF McpInv, CallsOK
<1>7. CASE CloseKeys(Rivals(McpProfileOf[k], k))
    BY <1>2, <1>4, <1>5, <1>6, <1>7, ClosingKeepsPool
<1>8. CASE UNCHANGED <<cached, pending, alive>>
    <2>1. McpTypes' /\ PendingOK'
        BY <1>2, <1>4, <1>8 DEF McpInv, McpTypes, PendingOK
    <2>2. NoSessionLeaked'
        BY <1>2, <1>6, <1>8 DEF McpInv, NoSessionLeaked
    <2> QED BY <1>5, <2>1, <2>2 DEF McpInv
<1> QED BY <1>7, <1>8 DEF BeginLease

\* One call moves, to a record that is in order; the others keep what they have.
LEMMA CallMoves ==
    ASSUME McpInv, NEW c \in McpCaller, NEW rec \in McpCallRecord, Goto(c, rec),
           1..started \subseteq 1..started',
           rec.pc # "idle" => rec.key \in McpKey,
           rec.pc \in {"join", "attach", "tool"} => rec.s \in 1..started',
           rec.temp => rec.pc \in {"attach", "tool"}
    PROVE  /\ call' \in [McpCaller -> McpCallRecord]
           /\ call'[c] = rec /\ \A d \in McpCaller \ {c} : call'[d] = call[d]
           /\ CallsOK'
<1>1. /\ call' \in [McpCaller -> McpCallRecord]
      /\ \A d \in McpCaller : call'[d] = IF d = c THEN rec ELSE call[d]
    BY CallGoes
<1>2. CallsOK'
    BY <1>1 DEF McpInv, CallsOK
<1> QED BY <1>1, <1>2

\* The session a call has under way is of the pool, its key a key.
LEMMA Leased ==
    ASSUME McpInv, NEW c \in McpCaller
    PROVE  /\ call[c] \in McpCallRecord /\ call[c].temp \in BOOLEAN
           /\ call[c].pc # "idle" => call[c].key \in McpKey
           /\ call[c].pc \in {"join", "attach", "tool"} => call[c].s \in 1..started /\ call[c].s \in McpSession
           /\ call[c].temp => call[c].pc \in {"attach", "tool"}
<1>1. call[c] \in McpCallRecord /\ started \in 0..MaxMcpSessions /\ MaxMcpSessions \in Nat
    BY McpAssumption DEF McpInv, McpTypes
<1>2. 1..started \subseteq McpSession
    BY <1>1 DEF McpSession
<1>3. call[c].temp \in BOOLEAN
    BY <1>1 DEF McpCallRecord
<1> QED BY <1>1, <1>2, <1>3 DEF McpInv, CallsOK

\* What runs is numbered, and no number is NoSession.
LEMMA AliveIsNumbered ==
    ASSUME McpInv
    PROVE  /\ alive \subseteq McpSession /\ NoSession \notin alive
           /\ creating \subseteq McpSession /\ 1..started \subseteq McpSession
           /\ started \in Nat
<1>1. started \in 0..MaxMcpSessions /\ MaxMcpSessions \in Nat /\ NoSession \notin McpSession
    BY McpAssumption DEF McpInv, McpTypes
<1>2. 1..started \subseteq McpSession /\ started \in Nat
    BY <1>1 DEF McpSession
<1>3. alive \subseteq 1..started /\ creating \subseteq 1..started
    BY DEF McpInv, McpTypes
<1> QED BY <1>1, <1>2, <1>3

\* A lookup that finds a session, or a creation under way, starts nothing.
LEMMA LookupFinds ==
    ASSUME McpInv, NEW c \in McpCaller, Lookup(c),
           UNCHANGED <<pending, started, keyOf, creating, alive>>
    PROVE  McpInv'
<1> DEFINE k == call[c].key
           s == IF cached[k] \in alive THEN cached[k] ELSE NoSession
<1>0. /\ k \in McpKey /\ call[c].pc = "lookup" /\ call[c].temp = FALSE /\ call[c] \in McpCallRecord
      /\ cached \in [McpKey -> McpSession \cup {NoSession}]
      /\ UNCHANGED <<attach, abandoned>>
    BY Leased DEF Lookup, McpInv, McpTypes
<1>1. /\ cached' = [cached EXCEPT ![k] = s]
      /\ \/ s # NoSession /\ Goto(c, [call[c] EXCEPT !.pc = "attach", !.s = s])
         \/ s = NoSession /\ pending[k] # NoSession
            /\ Goto(c, [call[c] EXCEPT !.pc = "join", !.s = pending[k]])
         \/ started' = started + 1
    BY DEF Lookup, Start
<1>2. s \in McpSession \cup {NoSession} /\ (s # NoSession => s \in 1..started /\ cached[k] = s)
    BY <1>0 DEF McpInv, McpTypes
<1>3. started' # started + 1
    BY AliveIsNumbered
<1> HIDE DEF k, s
<1>4. /\ cached' \in [McpKey -> McpSession \cup {NoSession}]
      /\ \A j \in McpKey : cached'[j] = IF j = k THEN s ELSE cached[j]
    BY <1>0, <1>1, <1>2
<1>5. CASE s # NoSession /\ Goto(c, [call[c] EXCEPT !.pc = "attach", !.s = s])
    <2> DEFINE rec == [call[c] EXCEPT !.pc = "attach", !.s = s]
    <2>1. rec \in McpCallRecord /\ rec.pc = "attach" /\ rec.s = s /\ rec.key = k /\ rec.temp = FALSE
        BY <1>0, <1>2 DEF McpCallRecord, k
    <2> HIDE DEF rec
    <2>2. /\ call' \in [McpCaller -> McpCallRecord] /\ CallsOK'
          /\ call'[c] = rec /\ \A d \in McpCaller \ {c} : call'[d] = call[d]
        BY <1>0, <1>2, <1>5, <2>1, CallMoves DEF rec
    <2>3. McpTypes' /\ PendingOK'
        BY <1>0, <1>2, <1>4, <1>5, <2>2 DEF McpInv, McpTypes, PendingOK
    <2>4. NoSessionLeaked'
        BY <1>0, <1>2, <1>4, <1>5, <2>2 DEF McpInv, NoSessionLeaked
    <2> QED BY <2>2, <2>3, <2>4 DEF McpInv
<1>6. CASE s = NoSession /\ pending[k] # NoSession
           /\ Goto(c, [call[c] EXCEPT !.pc = "join", !.s = pending[k]])
    <2> DEFINE rec == [call[c] EXCEPT !.pc = "join", !.s = pending[k]]
    <2>0. pending[k] \in 1..started /\ pending[k] \in McpSession
        BY <1>0, <1>6 DEF McpInv, PendingOK, McpTypes
    <2>1. rec \in McpCallRecord /\ rec.pc = "join" /\ rec.s = pending[k] /\ rec.key = k /\ rec.temp = FALSE
        BY <1>0, <2>0 DEF McpCallRecord, k
    <2> HIDE DEF rec
    <2>2. /\ call' \in [McpCaller -> McpCallRecord] /\ CallsOK'
          /\ call'[c] = rec /\ \A d \in McpCaller \ {c} : call'[d] = call[d]
        BY <1>0, <1>6, <2>0, <2>1, CallMoves DEF rec
    <2>3. McpTypes' /\ PendingOK'
        BY <1>0, <1>4, <1>6, <2>2 DEF McpInv, McpTypes, PendingOK
    <2>4. cached[k] \notin alive
        BY <1>6, AliveIsNumbered DEF s
    <2>5. NoSessionLeaked'
        BY <1>0, <1>4, <2>2, <2>4 DEF McpInv, NoSessionLeaked
    <2> QED BY <2>2, <2>3, <2>5 DEF McpInv
<1> QED BY <1>1, <1>3, <1>5, <1>6

\* A lookup that finds neither starts a session: its own, or the creation of a shared one.
LEMMA LookupStarts ==
    ASSUME McpInv, NEW c \in McpCaller, Lookup(c), Start(call[c].key),
           cached[call[c].key] \notin alive, pending[call[c].key] = NoSession
    PROVE  McpInv'
<1> DEFINE k == call[c].key
           n == started + 1
<1>0. /\ k \in McpKey /\ call[c].pc = "lookup" /\ call[c].temp = FALSE /\ call[c] \in McpCallRecord
      /\ cached \in [McpKey -> McpSession \cup {NoSession}]
      /\ keyOf \in [McpSession -> McpKey \cup {NoSession}]
      /\ UNCHANGED <<attach, abandoned>>
    BY Leased DEF Lookup, McpInv, McpTypes
<1>1. /\ n \in McpSession /\ started' = n /\ started' \in 0..MaxMcpSessions /\ n \notin 1..started
      /\ 1..started' = 1..started \cup {n}
    <2>1. started \in 0..MaxMcpSessions /\ MaxMcpSessions \in Nat
        BY McpAssumption DEF McpInv, McpTypes
    <2> QED BY <2>1 DEF Start, McpSession
<1>2. /\ keyOf' = [keyOf EXCEPT ![n] = k] /\ alive' = alive \cup {n} /\ pending[k] = NoSession
      /\ cached' = [cached EXCEPT ![k] = NoSession] /\ cached[k] \notin alive
      /\ \/ /\ Goto(c, [call[c] EXCEPT !.pc = "attach", !.s = n, !.temp = TRUE])
            /\ UNCHANGED <<pending, creating>>
         \/ /\ Goto(c, [call[c] EXCEPT !.pc = "join", !.s = n])
            /\ pending' = [pending EXCEPT ![k] = n] /\ creating' = creating \cup {n}
    BY AliveIsNumbered DEF Lookup, Start
<1> HIDE DEF k, n
<1>3. /\ cached' \in [McpKey -> McpSession \cup {NoSession}]
      /\ \A j \in McpKey : cached'[j] = IF j = k THEN NoSession ELSE cached[j]
      /\ keyOf' \in [McpSession -> McpKey \cup {NoSession}]
      /\ \A s \in McpSession : keyOf'[s] = IF s = n THEN k ELSE keyOf[s]
    BY <1>0, <1>1, <1>2
<1>4. CASE /\ Goto(c, [call[c] EXCEPT !.pc = "attach", !.s = n, !.temp = TRUE])
           /\ UNCHANGED <<pending, creating>>
    <2> DEFINE rec == [call[c] EXCEPT !.pc = "attach", !.s = n, !.temp = TRUE]
    <2>1. rec \in McpCallRecord /\ rec.pc = "attach" /\ rec.s = n /\ rec.key = k /\ rec.temp = TRUE
        BY <1>0, <1>1 DEF McpCallRecord, k
    <2> HIDE DEF rec
    <2>2. /\ call' \in [McpCaller -> McpCallRecord] /\ CallsOK'
          /\ call'[c] = rec /\ \A d \in McpCaller \ {c} : call'[d] = call[d]
        BY <1>0, <1>1, <1>4, <2>1, CallMoves DEF rec
    <2>3. McpTypes'
        BY <1>0, <1>1, <1>2, <1>3, <1>4, <2>2 DEF McpInv, McpTypes
    <2>4. PendingOK'
        BY <1>0, <1>1, <1>2, <1>3, <1>4, AliveIsNumbered DEF McpInv, PendingOK
    <2>5. NoSessionLeaked'
        BY <1>0, <1>2, <1>3, <1>4, <2>1, <2>2 DEF McpInv, NoSessionLeaked
    <2> QED BY <2>2, <2>3, <2>4, <2>5 DEF McpInv
<1>5. CASE /\ Goto(c, [call[c] EXCEPT !.pc = "join", !.s = n])
           /\ pending' = [pending EXCEPT ![k] = n] /\ creating' = creating \cup {n}
    <2> DEFINE rec == [call[c] EXCEPT !.pc = "join", !.s = n]
    <2>1. rec \in McpCallRecord /\ rec.pc = "join" /\ rec.s = n /\ rec.key = k /\ rec.temp = FALSE
        BY <1>0, <1>1 DEF McpCallRecord, k
    <2> HIDE DEF rec
    <2>2. /\ call' \in [McpCaller -> McpCallRecord] /\ CallsOK'
          /\ call'[c] = rec /\ \A d \in McpCaller \ {c} : call'[d] = call[d]
        BY <1>0, <1>1, <1>5, <2>1, CallMoves DEF rec
    <2>3. /\ pending' \in [McpKey -> McpSession \cup {NoSession}]
          /\ \A j \in McpKey : pending'[j] = IF j = k THEN n ELSE pending[j]
        BY <1>0, <1>1, <1>5 DEF McpInv, McpTypes
    <2>4. McpTypes'
        BY <1>0, <1>1, <1>2, <1>3, <1>5, <2>2, <2>3 DEF McpInv, McpTypes
    <2>5. PendingOK'
        BY <1>0, <1>1, <1>2, <1>3, <1>5, <2>3, AliveIsNumbered DEF McpInv, PendingOK
    <2>6. NoSessionLeaked'
        BY <1>0, <1>2, <1>3, <1>5, <2>2 DEF McpInv, NoSessionLeaked
    <2> QED BY <2>2, <2>4, <2>5, <2>6 DEF McpInv
<1> QED BY <1>2, <1>4, <1>5

LEMMA LookupSteps == ASSUME McpInv, NEW c \in McpCaller, Lookup(c) PROVE McpInv'
<1>1. \/ UNCHANGED <<pending, started, keyOf, creating, alive>>
      \/ /\ Start(call[c].key) /\ cached[call[c].key] \notin alive /\ pending[call[c].key] = NoSession
    BY AliveIsNumbered DEF Lookup
<1> QED BY <1>1, LookupFinds, LookupStarts

-----------------------------------------------------------------------------
LEMMA CreatedSteps == ASSUME McpInv, NEW s \in McpSession, Created(s) PROVE McpInv'
<1> DEFINE k == keyOf[s]
<1>1. /\ s \in creating /\ creating' = creating \ {s} /\ s \in 1..started /\ k \in McpKey
      /\ UNCHANGED <<pending, started, keyOf, attach, call, abandoned>>
    BY DEF Created, McpInv, McpTypes, PendingOK
<1>2. CASE pending[k] = s /\ cached' = [cached EXCEPT ![k] = s] /\ UNCHANGED alive
    <2>1. cached[k] = NoSession
        BY <1>1, <1>2, AliveIsNumbered, McpAssumption DEF McpInv, PendingOK
    <2>2. /\ cached' \in [McpKey -> McpSession \cup {NoSession}]
          /\ \A j \in McpKey : cached'[j] = IF j = k THEN s ELSE cached[j]
        BY <1>1, <1>2 DEF McpInv, McpTypes
    <2>3. McpTypes' /\ CallsOK'
        BY <1>1, <1>2, <2>2 DEF McpInv, McpTypes, CallsOK
    <2>4. PendingOK'
        BY <1>1, <1>2, <2>2 DEF McpInv, PendingOK
    <2>5. NoSessionLeaked'
        BY <1>1, <1>2, <2>1, <2>2, AliveIsNumbered DEF McpInv, NoSessionLeaked
    <2> QED BY <2>3, <2>4, <2>5 DEF McpInv
<1>3. CASE alive' = alive \ {s} /\ UNCHANGED cached
    <2>1. McpTypes' /\ CallsOK' /\ PendingOK'
        BY <1>1, <1>3 DEF McpInv, McpTypes, CallsOK, PendingOK
    <2>2. NoSessionLeaked'
        BY <1>1, <1>3 DEF McpInv, NoSessionLeaked
    <2> QED BY <2>1, <2>2 DEF McpInv
<1> QED BY <1>2, <1>3 DEF Created

LEMMA JoinedSteps == ASSUME McpInv, NEW c \in McpCaller, Joined(c) PROVE McpInv'
<1> DEFINE rec == [call[c] EXCEPT !.pc = "attach"]
<1>0. /\ call[c].pc = "join" /\ call[c].s \in 1..started /\ call[c].key \in McpKey
      /\ call[c].temp = FALSE /\ call[c] \in McpCallRecord
      /\ UNCHANGED <<cached, started, keyOf, creating, attach, alive, abandoned>>
      /\ Goto(c, rec)
    BY Leased DEF Joined
<1>1. rec \in McpCallRecord /\ rec.pc = "attach" /\ rec.s = call[c].s /\ rec.key = call[c].key /\ rec.temp = FALSE
    BY <1>0 DEF McpCallRecord
<1> HIDE DEF rec
<1>2. /\ call' \in [McpCaller -> McpCallRecord] /\ CallsOK'
      /\ call'[c] = rec /\ \A d \in McpCaller \ {c} : call'[d] = call[d]
    BY <1>0, <1>1, CallMoves
<1>3. /\ pending' \in [McpKey -> McpSession \cup {NoSession}]
      /\ \A j \in McpKey : pending'[j] = pending[j] \/ pending'[j] = NoSession
    BY DEF Joined, McpInv, McpTypes
<1>4. McpTypes' /\ PendingOK'
    BY <1>0, <1>2, <1>3 DEF McpInv, McpTypes, PendingOK
<1>5. NoSessionLeaked'
    BY <1>0, <1>2 DEF McpInv, NoSessionLeaked
<1> QED BY <1>2, <1>4, <1>5 DEF McpInv

\* The processes: a handshake ends, or one dies.
LEMMA ProcessSteps ==
    ASSUME McpInv, NEW s \in McpSession, Attaches(s) \/ McpProcessDies(s)
    PROVE  McpInv'
<1>1. /\ alive' \subseteq alive /\ attach' \in [McpSession -> {"waiting", "ok", "failed"}]
      /\ UNCHANGED <<cached, pending, started, keyOf, creating, call, abandoned>>
    BY DEF Attaches, McpProcessDies, McpInv, McpTypes
<1>2. McpTypes' /\ CallsOK' /\ PendingOK'
    BY <1>1 DEF McpInv, McpTypes, CallsOK, PendingOK
<1>3. NoSessionLeaked'
    BY <1>1 DEF McpInv, NoSessionLeaked
<1> QED BY <1>2, <1>3 DEF McpInv

-----------------------------------------------------------------------------
\* A call lets its session go: a session of its own is closed, a cached one is left where
\* it is, or dropped from the cache and then closed or given up.
LEMMA LetsGo ==
    ASSUME McpInv, NEW c \in McpCaller, NEW rec \in McpCallRecord, Goto(c, rec),
           call[c].pc \in {"attach", "tool"}, rec.temp = FALSE, rec.pc \in {"idle", "again"},
           rec.pc = "again" => rec.key \in McpKey,
           UNCHANGED <<pending, started, keyOf, creating, attach>>,
           alive' \subseteq alive, abandoned \subseteq abandoned', abandoned' \subseteq 1..started,
           call[c].temp => call[c].s \notin alive',
           \/ cached' = cached
           \/ /\ cached[call[c].key] = call[c].s
              /\ cached' = [cached EXCEPT ![call[c].key] = NoSession]
              /\ call[c].s \in abandoned' \/ call[c].s \notin alive'
    PROVE  McpInv'
<1>1. /\ call' \in [McpCaller -> McpCallRecord] /\ CallsOK'
      /\ call'[c] = rec /\ \A d \in McpCaller \ {c} : call'[d] = call[d]
    BY CallMoves
<1>2. /\ cached' \in [McpKey -> McpSession \cup {NoSession}]
      /\ \A j \in McpKey : \/ cached'[j] = cached[j]
                           \/ /\ cached[j] = call[c].s /\ cached'[j] = NoSession
                              /\ call[c].s \in abandoned' \/ call[c].s \notin alive'
    BY Leased DEF McpInv, McpTypes
<1>3. McpTypes' /\ PendingOK'
    BY <1>1, <1>2 DEF McpInv, McpTypes, PendingOK
<1>4. NoSessionLeaked'
    <2> SUFFICES ASSUME NEW s \in alive'
                 PROVE  \/ \E k \in McpKey : cached'[k] = s
                        \/ s \in creating' \cup abandoned'
                        \/ \E d \in McpCaller : call'[d].temp /\ call'[d].s = s
        BY DEF NoSessionLeaked
    <2>1. \/ \E k \in McpKey : cached[k] = s
          \/ s \in creating \cup abandoned
          \/ \E d \in McpCaller : call[d].temp /\ call[d].s = s
        BY DEF McpInv, NoSessionLeaked
    <2>2. CASE \E k \in McpKey : cached[k] = s
        BY <1>2, <2>2
    <2>3. CASE \E d \in McpCaller : call[d].temp /\ call[d].s = s
        BY <1>1, <2>3
    <2> QED BY <2>1, <2>2, <2>3
<1> QED BY <1>1, <1>3, <1>4 DEF McpInv

LEMMA IdleIsRecord == Idle \in McpCallRecord /\ Idle.temp = FALSE /\ Idle.pc = "idle"
BY DEF Idle, McpCallRecord

LEMMA AttachOkSteps == ASSUME McpInv, NEW c \in McpCaller, AttachOk(c) PROVE McpInv'
<1> DEFINE rec == [call[c] EXCEPT !.pc = "tool"]
<1>0. /\ call[c].pc = "attach" /\ call[c].s \in 1..started /\ call[c].key \in McpKey
      /\ call[c] \in McpCallRecord /\ Goto(c, rec)
      /\ UNCHANGED <<cached, pending, started, keyOf, creating, attach, alive, abandoned>>
    BY Leased DEF AttachOk
<1>1. rec \in McpCallRecord /\ rec.pc = "tool" /\ rec.s = call[c].s /\ rec.key = call[c].key
    BY <1>0 DEF McpCallRecord
<1>2. call[c].temp => rec.temp
    BY <1>0 DEF McpCallRecord
<1> HIDE DEF rec
<1>3. /\ call' \in [McpCaller -> McpCallRecord] /\ CallsOK'
      /\ call'[c] = rec /\ \A d \in McpCaller \ {c} : call'[d] = call[d]
    BY <1>0, <1>1, CallMoves
<1>4. McpTypes' /\ PendingOK'
    BY <1>0, <1>3 DEF McpInv, McpTypes, PendingOK
<1>5. \A d \in McpCaller : call[d].temp => call'[d].temp /\ call'[d].s = call[d].s
    BY <1>1, <1>2, <1>3
<1>6. NoSessionLeaked'
    BY <1>0, <1>5 DEF McpInv, NoSessionLeaked
<1> QED BY <1>3, <1>4, <1>6 DEF McpInv

LEMMA AttachFailsSteps == ASSUME McpInv, NEW c \in McpCaller, AttachFails(c) PROVE McpInv'
<1>1. /\ call[c].pc = "attach" /\ call[c].s \in 1..started /\ Goto(c, Idle)
      /\ UNCHANGED <<pending, started, keyOf, creating, attach>>
    BY Leased DEF AttachFails
<1>2. /\ alive' \subseteq alive /\ (call[c].temp => call[c].s \notin alive')
      /\ abandoned \subseteq abandoned' /\ abandoned' \subseteq 1..started
    BY <1>1 DEF AttachFails, McpInv, McpTypes
<1>3. \/ cached' = cached
      \/ /\ cached[call[c].key] = call[c].s
         /\ cached' = [cached EXCEPT ![call[c].key] = NoSession]
         /\ call[c].s \in abandoned'
    BY DEF AttachFails
<1> QED BY <1>1, <1>2, <1>3, LetsGo, IdleIsRecord

LEMMA ToolSteps ==
    ASSUME McpInv, NEW c \in McpCaller, ToolReturns(c) \/ ToolFails(c) \/ ToolStale(c)
    PROVE  McpInv'
<1>1. /\ call[c].pc = "tool" /\ call[c].key \in McpKey /\ call[c].probe \in BOOLEAN
      /\ UNCHANGED <<pending, started, keyOf, creating, attach, abandoned>>
      /\ abandoned \subseteq 1..started
    <2>1. call[c].pc = "tool" /\ UNCHANGED <<pending, started, keyOf, creating, attach, abandoned>>
        BY DEF ToolReturns, ToolFails, ToolStale
    <2>2. call[c].probe \in BOOLEAN
        BY Leased DEF McpCallRecord
    <2> QED BY <2>1, <2>2, Leased DEF McpInv, McpTypes
<1>2. CASE ToolReturns(c)
    <2>1. /\ Goto(c, Idle) /\ cached' = cached /\ alive' \subseteq alive
          /\ call[c].temp => call[c].s \notin alive'
        BY <1>2 DEF ToolReturns
    <2> QED BY <1>1, <2>1, LetsGo, IdleIsRecord
<1>3. ASSUME DropLeased(c)
      PROVE  /\ alive' \subseteq alive /\ (call[c].temp => call[c].s \notin alive')
             /\ \/ cached' = cached
                \/ /\ cached[call[c].key] = call[c].s
                   /\ cached' = [cached EXCEPT ![call[c].key] = NoSession]
                   /\ call[c].s \notin alive'
    BY <1>3 DEF DropLeased
<1>4. CASE ToolFails(c)
    BY <1>1, <1>3, <1>4, LetsGo, IdleIsRecord DEF ToolFails
<1>5. CASE ToolStale(c)
    <2> DEFINE rec == [Idle EXCEPT !.pc = "again", !.key = call[c].key, !.probe = call[c].probe]
    <2>1. rec \in McpCallRecord /\ rec.pc = "again" /\ rec.key = call[c].key /\ rec.temp = FALSE
        BY <1>1 DEF Idle, McpCallRecord
    <2>2. Goto(c, rec) /\ DropLeased(c)
        BY <1>5 DEF ToolStale
    <2> HIDE DEF rec
    <2> QED BY <1>1, <1>3, <2>1, <2>2, LetsGo
<1> QED BY <1>2, <1>4, <1>5

\* A profile is closed, or all of them.
LEMMA CloseSteps ==
    ASSUME McpInv, StopAll \/ \E p \in {McpProfileOf[k] : k \in McpKey} : CloseProfile(p)
    PROVE  McpInv'
<1>1. /\ \E ks : CloseKeys(ks)
      /\ UNCHANGED <<started, keyOf, creating, attach, call, abandoned>>
    BY DEF CloseProfile, StopAll
<1>2. CallsOK' /\ call' \in [McpCaller -> McpCallRecord]
    BY <1>1 DEF McpInv, McpTypes, CallsOK
<1> QED BY <1>1, <1>2, ClosingKeepsPool

LEMMA McpStep == McpInv /\ [McpNext]_mcpVars => McpInv'
<1> SUFFICES ASSUME McpInv, [McpNext]_mcpVars PROVE McpInv'
    OBVIOUS
<1>1. ASSUME NEW c \in McpCaller, NEW k \in McpKey, NEW probe \in BOOLEAN, BeginCall(c, k, probe)
      PROVE  McpInv'
    BY <1>1, LeaseSteps DEF BeginCall
<1>2. ASSUME NEW c \in McpCaller, RetryCall(c)
      PROVE  McpInv'
    <2>1. call[c].key \in McpKey /\ call[c].probe \in BOOLEAN
        BY <1>2, Leased DEF RetryCall, McpCallRecord
    <2> QED BY <1>2, <2>1, LeaseSteps DEF RetryCall
<1>3. CASE UNCHANGED mcpVars
    BY <1>3 DEF mcpVars, McpInv, McpTypes, CallsOK, PendingOK, NoSessionLeaked
<1> QED BY <1>1, <1>2, <1>3, LookupSteps, CreatedSteps, JoinedSteps, ProcessSteps, AttachOkSteps,
       AttachFailsSteps, ToolSteps, CloseSteps DEF McpNext

LEMMA McpAlways == McpSpec => []McpInv
<1>1. McpInit => McpInv
    BY McpStart
<1>2. McpInv /\ [McpNext]_mcpVars => McpInv'
    BY McpStep
<1> QED BY <1>1, <1>2, PTL DEF McpSpec

\* Type correctness of the pool.
THEOREM McpTypeCorrect == McpSpec => []McpTypeOK
<1>1. McpInv => McpTypeOK
    BY DEF McpInv, McpTypes, McpTypeOK, McpCallRecord
<1> QED BY <1>1, McpAlways, PTL

\* No child process that chrome-mcp.ts started is left running where nothing can close it,
\* but for one whose caller gave up waiting while it attached.
THEOREM EverySessionCloses == McpSpec => []NoSessionLeaked
<1>1. McpInv => NoSessionLeaked
    BY DEF McpInv
<1> QED BY <1>1, McpAlways, PTL

-----------------------------------------------------------------------------
(***************************************************************************)
(* PwSession: the Playwright connection and its quarantine                 *)
(***************************************************************************)
PwLookupRecord == [pc : {"idle", "policy", "join", "pages", "find", "check", "has", "refused", "stale"},
                   want : PwPage \cup {AnyPage}, on : PwConn \cup {NoConn},
                   page : PwPage \cup {AnyPage}, since : SUBSET PwPage, mayRetry : BOOLEAN]

\* The types; OpenIsCached needs them and nothing else.
PwTypes ==
    /\ cachedConn \in PwConn \cup {NoConn} /\ connecting \in PwConn \cup {NoConn}
    /\ conn \in [PwConn -> {"none", "trying", "up", "failed", "closed"}]
    /\ settling \subseteq PwConn /\ replaced \subseteq PwConn
    /\ openPages \subseteq PwPage /\ freshPages \subseteq PwPage /\ blockedTargets \subseteq PwPage
    /\ blockedRefs \subseteq PwConn \X PwPage /\ refusals \in 0..MaxRefusals
    /\ lookup \in [PwCaller -> PwLookupRecord]

\* A request r while the targets bt and the page objects br are quarantined: what it has
\* chosen was in quarantine when it began only if its last check still sees it there.
RequestOK(r, bt, br) ==
    /\ r.pc \in {"join", "pages", "find", "check", "has", "refused"} => r.on \in PwConn
    /\ r.pc \in {"find", "check", "has", "refused"} => r.page \in PwPage
    /\ r.pc \in {"find", "has"} => r.page \notin r.since
    /\ r.pc = "find" => \A p \in r.since : p \in bt \/ <<r.on, p>> \in br
    /\ r.pc = "check" => r.since \subseteq bt

RequestsOK == \A c \in PwCaller : RequestOK(lookup[c], blockedTargets, blockedRefs)

PwInv == PwTypes /\ OpenIsCached /\ RequestsOK

\* More quarantine does a request no harm, and an ended one none if since is emptied.
LEMMA QuarantineGrows ==
    ASSUME NEW r, NEW bt, NEW br, NEW bt2, NEW br2, RequestOK(r, bt, br), bt \subseteq bt2, br \subseteq br2
    PROVE  RequestOK(r, bt2, br2)
BY DEF RequestOK

\* One request moves, to a record that is in order.
LEMMA RequestMoves ==
    ASSUME PwInv, NEW c \in PwCaller, NEW rec \in PwLookupRecord, Becomes(c, rec),
           RequestOK(rec, blockedTargets', blockedRefs'),
           blockedTargets \subseteq blockedTargets', blockedRefs \subseteq blockedRefs'
    PROVE  lookup' \in [PwCaller -> PwLookupRecord] /\ RequestsOK'
<1>1. /\ lookup' \in [PwCaller -> PwLookupRecord]
      /\ \A d \in PwCaller : lookup'[d] = IF d = c THEN rec ELSE lookup[d]
    BY DEF PwInv, PwTypes, Becomes
<1>2. ASSUME NEW d \in PwCaller
      PROVE  RequestOK(lookup'[d], blockedTargets', blockedRefs')
    <2>1. CASE d = c
        BY <1>1, <2>1
    <2>2. CASE d # c
        <3>1. RequestOK(lookup[d], blockedTargets, blockedRefs)
            BY DEF PwInv, RequestsOK
        <3>2. RequestOK(lookup[d], blockedTargets', blockedRefs')
            BY <3>1, QuarantineGrows
        <3> QED BY <1>1, <2>2, <3>2
    <2> QED BY <2>1, <2>2
<1> QED BY <1>1, <1>2 DEF RequestsOK

\* What is known of a request where it is.
LEMMA AtRequest ==
    ASSUME PwInv, NEW c \in PwCaller
    PROVE  /\ lookup[c] \in PwLookupRecord
           /\ RequestOK(lookup[c], blockedTargets, blockedRefs)
           /\ NoLookup \in PwLookupRecord /\ NoLookup.pc = "idle"
BY DEF PwInv, PwTypes, RequestsOK, NoLookup, PwLookupRecord

LEMMA PwStart == PwInit => PwInv
<1> SUFFICES ASSUME PwInit PROVE PwInv
    OBVIOUS
<1>1. NoLookup \in PwLookupRecord /\ NoLookup.pc = "idle"
    BY DEF NoLookup, PwLookupRecord
<1>2. PwTypes
    BY <1>1, PwAssumption DEF PwInit, PwTypes
<1>3. RequestsOK
    BY <1>1 DEF PwInit, RequestsOK, RequestOK
<1>4. OpenIsCached
    BY DEF PwInit, OpenIsCached
<1> QED BY <1>2, <1>3, <1>4 DEF PwInv

\* The steps of the connections leave the requests and the quarantine alone.
LEMMA ConnectionSteps ==
    ASSUME PwInv, ForceDisconnect \/ \E b \in PwConn : ConnectEnds(b) \/ Settle(b) \/ Disconnected(b)
    PROVE  PwInv'
<1>1. UNCHANGED <<lookup, openPages, freshPages, blockedTargets, blockedRefs, refusals>>
    BY DEF ForceDisconnect, ConnectEnds, Settle, Disconnected, pageVars, blockVars
<1>2. RequestsOK'
    BY <1>1 DEF PwInv, RequestsOK
<1>3. CASE ForceDisconnect
    BY <1>1, <1>2, <1>3, PwAssumption DEF ForceDisconnect, TakeCached, PwInv, PwTypes, OpenIsCached
<1>4. ASSUME NEW b \in PwConn, ConnectEnds(b)
      PROVE  PwInv'
    BY <1>1, <1>2, <1>4, PwAssumption DEF ConnectEnds, PwInv, PwTypes, OpenIsCached
<1>5. ASSUME NEW b \in PwConn, Settle(b) \/ Disconnected(b)
      PROVE  PwInv'
    BY <1>1, <1>2, <1>5, PwAssumption DEF Settle, Disconnected, PwInv, PwTypes, OpenIsCached
<1> QED BY <1>3, <1>4, <1>5

\* A record of no consequence: a request that is over or has only begun.
LEMMA PlainRequest ==
    ASSUME NEW r, NEW bt, NEW br, r.pc \in {"idle", "policy", "stale"}
    PROVE  RequestOK(r, bt, br)
BY DEF RequestOK

\* The steps before a page is chosen.
LEMMA ConnectSteps ==
    ASSUME PwInv, NEW c \in PwCaller,
           \/ \E want \in PwPage \cup {AnyPage} : BeginLookup(c, want)
           \/ PolicyChecked(c) \/ JoinEnds(c)
    PROVE  PwInv'
<1>0. UNCHANGED <<openPages, freshPages, blockedTargets, blockedRefs, refusals>>
    BY DEF BeginLookup, PolicyChecked, JoinEnds, pageVars, blockVars
<1>1. ASSUME NEW rec \in PwLookupRecord, Becomes(c, rec),
             RequestOK(rec, blockedTargets, blockedRefs), UNCHANGED connVars
      PROVE  PwInv'
    <2>1. lookup' \in [PwCaller -> PwLookupRecord] /\ RequestsOK'
        BY <1>0, <1>1, RequestMoves
    <2> QED BY <1>0, <1>1, <2>1 DEF connVars, PwInv, PwTypes, OpenIsCached
<1>2. ASSUME NEW want \in PwPage \cup {AnyPage}, BeginLookup(c, want)
      PROVE  PwInv'
    <2> DEFINE rec0 == [NoLookup EXCEPT !.want = want, !.mayRetry = cachedConn # NoConn]
               rec1 == [rec0 EXCEPT !.pc = "pages", !.on = cachedConn]
               rec2 == [rec0 EXCEPT !.pc = "policy"]
    <2>1. rec0 \in PwLookupRecord /\ rec2 \in PwLookupRecord /\ rec2.pc = "policy"
        BY DEF NoLookup, PwLookupRecord
    <2>2. CASE cachedConn # NoConn
        <3>1. cachedConn \in PwConn
            BY <2>2 DEF PwInv, PwTypes
        <3>2. rec1 \in PwLookupRecord /\ rec1.pc = "pages" /\ rec1.on = cachedConn
            BY <2>1, <3>1 DEF PwLookupRecord
        <3>3. Becomes(c, rec1) /\ UNCHANGED connVars
            BY <1>2, <2>2 DEF BeginLookup, Connect
        <3> HIDE DEF rec1
        <3>4. RequestOK(rec1, blockedTargets, blockedRefs)
            BY <3>1, <3>2 DEF RequestOK
        <3> QED BY <1>1, <3>2, <3>3, <3>4
    <2>3. CASE cachedConn = NoConn
        <3>1. Becomes(c, rec2) /\ UNCHANGED connVars
            BY <1>2, <2>3 DEF BeginLookup, Connect
        <3> HIDE DEF rec2
        <3> QED BY <1>1, <2>1, <3>1, PlainRequest
    <2> QED BY <2>2, <2>3
<1>3. CASE PolicyChecked(c)
    <2>1. ASSUME NEW b \in PwConn, Becomes(c, [lookup[c] EXCEPT !.pc = "join", !.on = b])
          PROVE  lookup' \in [PwCaller -> PwLookupRecord] /\ RequestsOK'
        <3> DEFINE rec == [lookup[c] EXCEPT !.pc = "join", !.on = b]
        <3>1. rec \in PwLookupRecord /\ rec.pc = "join" /\ rec.on = b
            BY AtRequest DEF PwLookupRecord
        <3> HIDE DEF rec
        <3>2. RequestOK(rec, blockedTargets, blockedRefs)
            BY <3>1 DEF RequestOK
        <3> QED BY <1>0, <2>1, <3>1, <3>2, RequestMoves DEF rec
    <2>2. CASE /\ connecting # NoConn /\ UNCHANGED connVars
               /\ Becomes(c, [lookup[c] EXCEPT !.pc = "join", !.on = connecting])
        <3>1. connecting \in PwConn
            BY <2>2 DEF PwInv, PwTypes
        <3>2. lookup' \in [PwCaller -> PwLookupRecord] /\ RequestsOK'
            BY <2>1, <2>2, <3>1
        <3> QED BY <1>0, <2>2, <3>2 DEF connVars, PwInv, PwTypes, OpenIsCached
    <2>3. ASSUME NEW b \in PwConn, conn[b] = "none", conn' = [conn EXCEPT ![b] = "trying"], connecting' = b,
                 Becomes(c, [lookup[c] EXCEPT !.pc = "join", !.on = b]),
                 UNCHANGED <<cachedConn, settling, replaced>>
          PROVE  PwInv'
        <3>1. lookup' \in [PwCaller -> PwLookupRecord] /\ RequestsOK'
            BY <2>1, <2>3
        <3> QED BY <1>0, <2>3, <3>1 DEF PwInv, PwTypes, OpenIsCached
    <2> QED BY <1>3, <2>2, <2>3 DEF PolicyChecked
<1>4. CASE JoinEnds(c)
    <2> DEFINE rec == [lookup[c] EXCEPT !.pc = "pages"]
    <2>1. lookup[c].on \in PwConn
        BY <1>4, AtRequest DEF JoinEnds, At, RequestOK
    <2>2. rec \in PwLookupRecord /\ rec.pc = "pages" /\ rec.on = lookup[c].on
        BY AtRequest DEF PwLookupRecord
    <2>3. UNCHANGED connVars /\ (Becomes(c, NoLookup) \/ Becomes(c, rec))
        BY <1>4 DEF JoinEnds
    <2> HIDE DEF rec
    <2>4. RequestOK(rec, blockedTargets, blockedRefs)
        BY <2>1, <2>2 DEF RequestOK
    <2> QED BY <1>1, <2>2, <2>3, <2>4, AtRequest, PlainRequest
<1> QED BY <1>2, <1>3, <1>4

\* The record of a request that has chosen a page.
LEMMA Chosen ==
    ASSUME PwInv, NEW c \in PwCaller, NEW next \in {"check", "has", "refused"}, NEW p \in PwPage,
           NEW since, Choose(c, next, p, since)
    PROVE  \E rec \in PwLookupRecord :
               /\ Becomes(c, rec)
               /\ rec.pc = next /\ rec.page = p /\ rec.on = lookup[c].on /\ rec.since = since \cap {p}
<1> DEFINE rec == [NoLookup EXCEPT !.pc = next, !.on = lookup[c].on, !.page = p, !.since = since \cap {p}]
<1>1. lookup[c].on \in PwConn \cup {NoConn}
    BY AtRequest DEF PwLookupRecord
<1>2. rec \in PwLookupRecord /\ rec.pc = next /\ rec.page = p /\ rec.on = lookup[c].on
      /\ rec.since = since \cap {p}
    BY <1>1 DEF NoLookup, PwLookupRecord
<1>3. Becomes(c, rec)
    BY DEF Choose
<1> QED BY <1>2, <1>3

\* The choice of a page, and its last check.
LEMMA ChoiceSteps ==
    ASSUME PwInv, NEW c \in PwCaller,
           FindPage(c) \/ CheckPage(c) \/ \E unknown \in SUBSET PwPage : PartitionPages(c, unknown)
    PROVE  PwInv'
<1>0. UNCHANGED <<openPages, freshPages, blockedTargets, blockedRefs, refusals>> /\ UNCHANGED connVars
      /\ openPages \subseteq PwPage
    BY DEF FindPage, CheckPage, PartitionPages, pageVars, blockVars, PwInv, PwTypes
<1>1. ASSUME NEW rec \in PwLookupRecord, Becomes(c, rec), RequestOK(rec, blockedTargets, blockedRefs)
      PROVE  PwInv'
    <2>1. lookup' \in [PwCaller -> PwLookupRecord] /\ RequestsOK'
        BY <1>0, <1>1, RequestMoves
    <2> QED BY <1>0, <2>1 DEF connVars, PwInv, PwTypes, OpenIsCached
<1>2. ASSUME Becomes(c, NoLookup) \/ Becomes(c, [lookup[c] EXCEPT !.pc = "stale"])
      PROVE  PwInv'
    <2>1. CASE Becomes(c, NoLookup)
        BY <1>1, <2>1, AtRequest, PlainRequest
    <2>2. CASE Becomes(c, [lookup[c] EXCEPT !.pc = "stale"])
        <3> DEFINE rec == [lookup[c] EXCEPT !.pc = "stale"]
        <3>1. rec \in PwLookupRecord /\ rec.pc = "stale"
            BY AtRequest DEF PwLookupRecord
        <3>2. Becomes(c, rec)
            BY <2>2
        <3> HIDE DEF rec
        <3> QED BY <1>1, <3>1, <3>2, PlainRequest
    <2> QED BY <1>2, <2>1, <2>2
<1>3. ASSUME NEW p \in PwPage, NEW since, p \notin since, Choose(c, "has", p, since), lookup[c].on \in PwConn
      PROVE  PwInv'
    <2>1. PICK rec \in PwLookupRecord :
              /\ Becomes(c, rec) /\ rec.pc = "has" /\ rec.page = p /\ rec.on = lookup[c].on
              /\ rec.since = since \cap {p}
        BY <1>3, Chosen
    <2>2. RequestOK(rec, blockedTargets, blockedRefs)
        BY <1>3, <2>1 DEF RequestOK
    <2> QED BY <1>1, <2>1, <2>2
<1>4. ASSUME NEW unknown \in SUBSET PwPage, PartitionPages(c, unknown)
      PROVE  PwInv'
    <2> DEFINE b == lookup[c].on  ok == Accessible(b, unknown)
    <2>1. b \in PwConn
        BY <1>4, AtRequest DEF PartitionPages, At, RequestOK
    <2>2. ASSUME NEW p \in ok
          PROVE  p \in PwPage /\ p \notin Quarantined(b)
        BY <1>0, <2>2 DEF Accessible, PagesOn, Quarantined
    <2>3. CASE Becomes(c, NoLookup) \/ Becomes(c, [lookup[c] EXCEPT !.pc = "stale"])
        BY <1>2, <2>3
    <2>4. ASSUME NEW p \in ok, Choose(c, "has", p, Quarantined(b))
          PROVE  PwInv'
        BY <1>3, <2>1, <2>2, <2>4
    <2>5. ASSUME NEW p \in ok,
                 Becomes(c, [lookup[c] EXCEPT !.pc = "find", !.page = p, !.since = Quarantined(b)])
          PROVE  PwInv'
        <3> DEFINE rec == [lookup[c] EXCEPT !.pc = "find", !.page = p, !.since = Quarantined(b)]
        <3>1. Quarantined(b) \in SUBSET PwPage
            BY DEF Quarantined, PwInv, PwTypes
        <3>2. rec \in PwLookupRecord /\ rec.pc = "find" /\ rec.page = p /\ rec.on = b
              /\ rec.since = Quarantined(b)
            BY <2>2, <3>1, AtRequest DEF PwLookupRecord
        <3> HIDE DEF rec
        <3>3. \A q \in Quarantined(b) : q \in blockedTargets \/ <<b, q>> \in blockedRefs
            BY DEF Quarantined
        <3>4. RequestOK(rec, blockedTargets, blockedRefs)
            BY <2>1, <2>2, <3>2, <3>3 DEF RequestOK
        <3> QED BY <1>1, <2>5, <3>2, <3>4 DEF rec
    <2> QED BY <1>4, <2>3, <2>4, <2>5 DEF PartitionPages
<1>5. CASE FindPage(c)
    <2> DEFINE b == lookup[c].on  want == lookup[c].want
    <2>1. /\ b \in PwConn /\ lookup[c].page \in PwPage /\ lookup[c].page \notin lookup[c].since
          /\ \A p \in lookup[c].since : p \in blockedTargets \/ <<b, p>> \in blockedRefs
        BY <1>5, AtRequest DEF FindPage, At, RequestOK
    <2>2. CASE Becomes(c, NoLookup) \/ Becomes(c, [lookup[c] EXCEPT !.pc = "stale"])
        BY <1>2, <2>2
    <2>3. CASE Choose(c, "has", lookup[c].page, lookup[c].since)
        BY <1>3, <2>1, <2>3
    <2>4. CASE /\ want \in PagesOn(b) /\ <<b, want>> \notin blockedRefs
               /\ Choose(c, "check", want, lookup[c].since)
        <3>1. want \in PwPage
            BY <1>0, <2>4 DEF PagesOn
        <3>2. PICK rec \in PwLookupRecord :
                  /\ Becomes(c, rec) /\ rec.pc = "check" /\ rec.page = want /\ rec.on = b
                  /\ rec.since = lookup[c].since \cap {want}
            BY <2>4, <3>1, Chosen
        <3>3. RequestOK(rec, blockedTargets, blockedRefs)
            BY <2>1, <2>4, <3>1, <3>2 DEF RequestOK
        <3> QED BY <1>1, <3>2, <3>3
    <2> QED BY <1>5, <2>2, <2>3, <2>4 DEF FindPage
<1>6. CASE CheckPage(c)
    <2>1. /\ lookup[c].on \in PwConn /\ lookup[c].page \in PwPage /\ lookup[c].since \subseteq blockedTargets
        BY <1>6, AtRequest DEF CheckPage, At, RequestOK
    <2>2. CASE Becomes(c, NoLookup)
        BY <1>2, <2>2
    <2>3. CASE Choose(c, "has", lookup[c].page, {})
        BY <1>3, <2>1, <2>3
    <2>4. CASE lookup[c].page \notin blockedTargets /\ Becomes(c, [lookup[c] EXCEPT !.pc = "has"])
        <3> DEFINE rec == [lookup[c] EXCEPT !.pc = "has"]
        <3>1. rec \in PwLookupRecord /\ rec.pc = "has" /\ rec.page = lookup[c].page
              /\ rec.on = lookup[c].on /\ rec.since = lookup[c].since
            BY AtRequest DEF PwLookupRecord
        <3> HIDE DEF rec
        <3>2. RequestOK(rec, blockedTargets, blockedRefs)
            BY <2>1, <2>4, <3>1 DEF RequestOK
        <3> QED BY <1>1, <2>4, <3>1, <3>2 DEF rec
    <2> QED BY <1>6, <2>2, <2>3, <2>4 DEF CheckPage
<1> QED BY <1>4, <1>5, <1>6

\* A connection is closed and the quarantine with it: nothing is held against any request.
LEMMA ClosingEndsQuarantine ==
    ASSUME PwInv, NEW rest \in [PwCaller -> PwLookupRecord], CloseConnection(rest),
           \A c \in PwCaller : rest[c] = lookup[c] \/ rest[c].pc = "policy"
    PROVE  PwInv'
<1>1. /\ cachedConn' = NoConn /\ connecting' = NoConn
      /\ conn' = IF cachedConn # NoConn THEN [conn EXCEPT ![cachedConn] = "closed"] ELSE conn
      /\ UNCHANGED <<settling, replaced, openPages, freshPages, refusals>>
      /\ blockedTargets' = {} /\ blockedRefs' = {}
    BY DEF CloseConnection, TakeCached
<1>2. ASSUME NEW c \in PwCaller
      PROVE  lookup'[c] \in PwLookupRecord /\ RequestOK(lookup'[c], blockedTargets', blockedRefs')
    <2> DEFINE rec == [rest[c] EXCEPT !.since = {}]
    <2>1. rec \in PwLookupRecord /\ rec.since = {} /\ rec.pc = rest[c].pc /\ rec.on = rest[c].on
          /\ rec.page = rest[c].page
        BY DEF PwLookupRecord
    <2>2. lookup'[c] = rec
        BY DEF CloseConnection
    <2> HIDE DEF rec
    <2>3. RequestOK(rest[c], blockedTargets, blockedRefs)
        BY AtRequest, PlainRequest
    <2>4. RequestOK(rec, blockedTargets', blockedRefs')
        BY <2>1, <2>3 DEF RequestOK
    <2> QED BY <2>1, <2>2, <2>4
<1>3. lookup' \in [PwCaller -> PwLookupRecord] /\ RequestsOK'
    BY <1>2 DEF CloseConnection, RequestsOK
<1>4. PwTypes' /\ OpenIsCached'
    BY <1>1, <1>3 DEF PwInv, PwTypes, OpenIsCached
<1> QED BY <1>3, <1>4 DEF PwInv

LEMMA StopSteps ==
    ASSUME PwInv, StopPlaywright \/ \E c \in PwCaller : StaleSelection(c)
    PROVE  PwInv'
<1>0. lookup \in [PwCaller -> PwLookupRecord]
    BY DEF PwInv, PwTypes
<1>1. CASE StopPlaywright
    BY <1>0, <1>1, ClosingEndsQuarantine DEF StopPlaywright
<1>2. ASSUME NEW c \in PwCaller, StaleSelection(c)
      PROVE  PwInv'
    <2> DEFINE rec == [NoLookup EXCEPT !.pc = "policy", !.want = lookup[c].want]
    <2>1. rec \in PwLookupRecord /\ rec.pc = "policy"
        BY AtRequest DEF NoLookup, PwLookupRecord
    <2>2. \/ CloseConnection([lookup EXCEPT ![c] = rec])
          \/ Becomes(c, NoLookup) /\ UNCHANGED <<connVars, pageVars>>
        BY <1>2 DEF StaleSelection
    <2> HIDE DEF rec
    <2>3. CASE CloseConnection([lookup EXCEPT ![c] = rec])
        <3>1. /\ [lookup EXCEPT ![c] = rec] \in [PwCaller -> PwLookupRecord]
              /\ \A d \in PwCaller : \/ [lookup EXCEPT ![c] = rec][d] = lookup[d]
                                     \/ [lookup EXCEPT ![c] = rec][d].pc = "policy"
            BY <1>0, <2>1
        <3> QED BY <2>3, <3>1, ClosingEndsQuarantine
    <2>4. CASE Becomes(c, NoLookup) /\ UNCHANGED <<connVars, pageVars>>
        <3>1. UNCHANGED <<blockedTargets, blockedRefs>>
            BY <2>4 DEF pageVars, blockVars
        <3>2. lookup' \in [PwCaller -> PwLookupRecord] /\ RequestsOK'
            BY <2>4, <3>1, AtRequest, PlainRequest, RequestMoves
        <3> QED BY <2>4, <3>2 DEF connVars, pageVars, blockVars, PwInv, PwTypes, OpenIsCached
    <2> QED BY <2>2, <2>3, <2>4
<1> QED BY <1>1, <1>2

\* What a request does with its page, and the two steps of a refused navigation.
LEMMA PageSteps ==
    ASSUME PwInv, NEW c \in PwCaller,
           \/ UsePage(c) \/ NavigationRefused(c) \/ QuarantineTarget(c)
           \/ \E p \in PwPage : CreatePage(c, p)
    PROVE  PwInv'
<1>0. /\ UNCHANGED connVars /\ openPages \subseteq PwPage /\ freshPages \subseteq PwPage
      /\ refusals \in 0..MaxRefusals /\ MaxRefusals \in Nat
    BY PwAssumption DEF UsePage, NavigationRefused, QuarantineTarget, CreatePage, PwInv, PwTypes
<1>1. ASSUME lookup' \in [PwCaller -> PwLookupRecord], RequestsOK', openPages' \subseteq PwPage,
             freshPages' \subseteq PwPage, blockedTargets' \subseteq PwPage,
             blockedRefs' \subseteq PwConn \X PwPage, refusals' \in 0..MaxRefusals
      PROVE  PwInv'
    BY <1>0, <1>1 DEF connVars, PwInv, PwTypes, OpenIsCached
<1>2. CASE UsePage(c)
    <2>1. UNCHANGED <<freshPages, blockedTargets, blockedRefs, refusals>>
          /\ openPages' \subseteq openPages /\ Becomes(c, NoLookup)
        BY <1>2 DEF UsePage, blockVars
    <2>2. lookup' \in [PwCaller -> PwLookupRecord] /\ RequestsOK'
        BY <2>1, AtRequest, PlainRequest, RequestMoves
    <2> QED BY <1>0, <1>1, <2>1, <2>2 DEF PwInv, PwTypes
<1>3. CASE NavigationRefused(c)
    <2> DEFINE b == lookup[c].on  p == lookup[c].page
    <2>1. b \in PwConn /\ p \in PwPage
        BY <1>3, AtRequest DEF NavigationRefused, At, RequestOK
    <2>2. /\ blockedRefs' = blockedRefs \cup {<<b, p>>} /\ refusals < MaxRefusals
          /\ refusals' = refusals + 1 /\ UNCHANGED <<openPages, freshPages, blockedTargets>>
        BY <1>3 DEF NavigationRefused
    <2>3. PICK rec \in PwLookupRecord :
              /\ Becomes(c, rec) /\ rec.pc = "refused" /\ rec.page = p /\ rec.on = b
        BY <1>3, <2>1, Chosen DEF NavigationRefused
    <2>4. RequestOK(rec, blockedTargets', blockedRefs')
        BY <2>1, <2>3 DEF RequestOK
    <2>5. lookup' \in [PwCaller -> PwLookupRecord] /\ RequestsOK'
        BY <2>2, <2>3, <2>4, RequestMoves
    <2>6. refusals' \in 0..MaxRefusals
        BY <1>0, <2>2
    <2> QED BY <1>0, <1>1, <2>1, <2>2, <2>5, <2>6 DEF PwInv, PwTypes
<1>4. CASE QuarantineTarget(c)
    <2>1. lookup[c].page \in PwPage
        BY <1>4, AtRequest DEF QuarantineTarget, At, RequestOK
    <2>2. /\ UNCHANGED <<freshPages, blockedRefs, refusals>> /\ openPages' \subseteq openPages
          /\ blockedTargets \subseteq blockedTargets'
          /\ blockedTargets' \subseteq blockedTargets \cup {lookup[c].page} /\ Becomes(c, NoLookup)
        BY <1>4 DEF QuarantineTarget
    <2>3. lookup' \in [PwCaller -> PwLookupRecord] /\ RequestsOK'
        BY <2>2, AtRequest, PlainRequest, RequestMoves
    <2> QED BY <1>0, <1>1, <2>1, <2>2, <2>3 DEF PwInv, PwTypes
<1>5. ASSUME NEW p \in PwPage, CreatePage(c, p)
      PROVE  PwInv'
    <2> DEFINE rec == [NoLookup EXCEPT !.pc = "has", !.on = cachedConn, !.page = p]
    <2>1. cachedConn \in PwConn /\ openPages' = openPages \cup {p} /\ freshPages' = freshPages \ {p}
          /\ UNCHANGED <<blockedTargets, blockedRefs, refusals>> /\ Becomes(c, rec)
        BY <1>5 DEF CreatePage, PwInv, PwTypes, blockVars
    <2>2. rec \in PwLookupRecord /\ rec.pc = "has" /\ rec.on = cachedConn /\ rec.page = p /\ rec.since = {}
        BY <2>1 DEF NoLookup, PwLookupRecord
    <2> HIDE DEF rec
    <2>3. RequestOK(rec, blockedTargets, blockedRefs)
        BY <2>1, <2>2 DEF RequestOK
    <2>4. lookup' \in [PwCaller -> PwLookupRecord] /\ RequestsOK'
        BY <2>1, <2>2, <2>3, RequestMoves
    <2> QED BY <1>0, <1>1, <2>1, <2>4 DEF PwInv, PwTypes
<1> QED BY <1>2, <1>3, <1>4, <1>5

LEMMA PwStep == PwInv /\ [PwNext]_pwVars => PwInv'
<1> SUFFICES ASSUME PwInv, [PwNext]_pwVars PROVE PwInv'
    OBVIOUS
<1>1. CASE UNCHANGED pwVars
    BY <1>1 DEF pwVars, connVars, pageVars, blockVars, PwInv, PwTypes, OpenIsCached, RequestsOK
<1> QED BY <1>1, ConnectionSteps, ConnectSteps, ChoiceSteps, StopSteps, PageSteps DEF PwNext

LEMMA PwAlways == PwSpec => []PwInv
<1>1. PwInit => PwInv
    BY PwStart
<1>2. PwInv /\ [PwNext]_pwVars => PwInv'
    BY PwStep
<1> QED BY <1>1, <1>2, PTL DEF PwSpec

\* Type correctness of the connection, the quarantine and the requests.
THEOREM PwTypeCorrect == PwSpec => []PwTypeOK
<1>1. PwInv => PwTypeOK
    BY DEF PwInv, PwTypes, PwTypeOK, PwLookupRecord
<1> QED BY <1>1, PwAlways, PTL

\* pw-session.ts hands out no page that was quarantined when the choice began, whatever
\* connects, disconnects and refusals come between its awaits.
THEOREM QuarantineIsKept == PwSpec => []QuarantineHolds
<1>1. PwInv => QuarantineHolds
    BY DEF PwInv, RequestsOK, RequestOK, QuarantineHolds, At
<1> QED BY <1>1, PwAlways, PTL

\* The end of a connection never costs the cache its successor.
THEOREM OpenStaysCached == PwSpec => []OpenIsCached
<1>1. PwInv => OpenIsCached
    BY DEF PwInv
<1> QED BY <1>1, PwAlways, PTL

(***************************************************************************)
(* ChromeLaunch: ensure, stop and reset of the managed Chrome              *)
(***************************************************************************)
LaunchOp == [pc : {"idle", "reconcile", "probe", "probeWs", "probeAgain", "restart", "launch",
                   "spawn", "wait", "ready", "check", "reset", "stop"},
             chrome : Chrome \cup {NoChrome}, relaunch : BOOLEAN, retried : BOOLEAN]

FlagTypes ==
    /\ ensuring \in LaunchCaller \cup {NoCaller}
    /\ reconcile \in BOOLEAN /\ cooling \in BOOLEAN
    /\ failures \in 0..LaunchThreshold /\ (cooling => failures = LaunchThreshold)

LaunchTypes ==
    /\ chrome \in [Chrome -> Life]
    /\ running \in Chrome \cup {NoChrome}
    /\ op \in [LaunchCaller -> LaunchOp]
    /\ excused \subseteq Chrome
    /\ FlagTypes

OnePort == \A p, q \in Chrome : InPort(p) /\ InPort(q) => p = q

\* Judging: the caller has launched a process.  Waiting: for one that was found gone.
Judging == {"wait", "ready", "check"}
Waiting == {"reconcile", "restart", "stop"}
Ensuring == {"reconcile", "probe", "probeWs", "probeAgain", "restart", "launch", "spawn"}
            \cup Judging
Awaits(c, p) == op[c].pc = "wait" /\ op[c].chrome = p

\* Who waits has a process to wait for.
OpsOK ==
    \A c \in LaunchCaller :
        /\ op[c].pc \in Judging \cup Waiting => op[c].chrome \in Chrome
        /\ op[c].pc \in Waiting => Gone(op[c].chrome)

\* As long as no reset has forgotten an ensure in flight, one caller launches at a time,
\* beside no living process but its own, and what lives is recorded or awaited.
InOrder ==
    /\ \A c \in LaunchCaller : op[c].pc \in Ensuring => ensuring = c
    /\ \A c \in LaunchCaller, p \in Chrome :
         Alive(p) => /\ op[c].pc # "spawn"
                     /\ op[c].pc \in Judging => op[c].chrome = p
    /\ \A p \in Chrome : chrome[p] = "starting" => \E c \in LaunchCaller : Awaits(c, p)
    /\ \A p \in Chrome :
         Alive(p) => running = p \/ p \in excused \/ \E c \in LaunchCaller : Awaits(c, p)

LaunchInv == LaunchTypes /\ OnePort /\ OpsOK /\ (excused # Chrome => InOrder)

LEMMA AtMostOne ==
    ASSUME NEW S, IsFiniteSet(S)
    PROVE  Cardinality(S) <= 1 <=> \A p, q \in S : p = q
<1>1. Cardinality(S) \in Nat /\ (Cardinality(S) = 0 <=> S = {})
    BY FS_CardinalityType, FS_EmptySet
<1>2. Cardinality(S) = 1 <=> \E x : S = {x}
    BY FS_Singleton
<1>3. CASE S = {}
    BY <1>1, <1>3
<1>4. CASE S # {}
    <2>1. Cardinality(S) <= 1 <=> Cardinality(S) = 1
        BY <1>1, <1>4
    <2>2. (\A p, q \in S : p = q) <=> \E x : S = {x}
        <3>1. PICK x : x \in S
            BY <1>4
        <3>2. ASSUME \A p, q \in S : p = q PROVE S = {x}
            BY <3>1, <3>2
        <3> QED BY <3>2
    <2> QED BY <1>2, <2>1, <2>2
<1> QED BY <1>3, <1>4

LEMMA LaunchStart == LaunchInit => LaunchInv
<1> SUFFICES ASSUME LaunchInit PROVE LaunchInv
    OBVIOUS
<1>1. PICK inherited \in SUBSET Chrome :
         /\ Cardinality(inherited) <= 1
         /\ chrome = [p \in Chrome |-> IF p \in inherited THEN "up" ELSE "none"]
         /\ excused = inherited
    BY DEF LaunchInit
<1>2. op \in [LaunchCaller -> LaunchOp]
    BY DEF LaunchInit, NoOp, LaunchOp
<1>3. LaunchTypes
    <2>1. chrome \in [Chrome -> Life] /\ excused \subseteq Chrome
        BY <1>1 DEF Life
    <2>2. failures \in 0..LaunchThreshold
        BY LaunchAssumption DEF LaunchInit
    <2>3. reconcile \in BOOLEAN /\ cooling \in BOOLEAN /\ ~cooling
        BY DEF LaunchInit
    <2> QED BY <1>2, <2>1, <2>2, <2>3 DEF LaunchInit, LaunchTypes, FlagTypes
<1>4. \A p, q \in inherited : p = q
    BY <1>1, LaunchAssumption, FS_Subset, AtMostOne
<1>5. OnePort
    BY <1>1, <1>4 DEF OnePort, InPort
<1>6. OpsOK
    BY DEF LaunchInit, OpsOK, NoOp, Judging, Waiting
<1>7. InOrder
    BY <1>1 DEF LaunchInit, InOrder, NoOp, Judging, Ensuring, Alive
<1> QED BY <1>3, <1>5, <1>6, <1>7 DEF LaunchInv

\* No process comes to life and none comes back to the port.
Fading ==
    \A p \in Chrome : /\ Alive(p)' => Alive(p)
                      /\ chrome'[p] = "starting" => chrome[p] = "starting"
                      /\ InPort(p)' => InPort(p)
                      /\ Gone(p) => Gone(p)'

LEMMA TurnsTo ==
    ASSUME LaunchTypes, NEW p \in Chrome, NEW life \in Life, Turns(p, life)
    PROVE  /\ chrome' \in [Chrome -> Life] /\ chrome'[p] = life
           /\ \A q \in Chrome : q # p => chrome'[q] = chrome[q]
BY DEF LaunchTypes, Turns

\* A killed process is not alive.
LEMMA KillFades ==
    ASSUME LaunchTypes, NEW p \in Chrome, Kill(p)
    PROVE  chrome' \in [Chrome -> Life] /\ Fading /\ ~Alive(p)'
<1>1. chrome \in [Chrome -> Life]
    BY DEF LaunchTypes
<1>2. /\ \A q \in Chrome : q # p => chrome'[q] = chrome[q]
      /\ chrome'[p] = CASE chrome[p] = "starting" -> "dead"
                        [] chrome[p] \in {"up", "hung", "mute"} -> "dying"
                        [] OTHER -> chrome[p]
      /\ DOMAIN chrome' = Chrome /\ chrome' = [q \in Chrome |-> chrome'[q]]
    BY <1>1 DEF Kill
<1>3. CASE chrome[p] = "starting"
    <2>1. chrome'[p] = "dead"
        BY <1>2, <1>3
    <2>2. chrome' \in [Chrome -> Life]
        BY <1>1, <1>2, <2>1 DEF Life
    <2> QED BY <1>2, <1>3, <2>1, <2>2 DEF Fading, Alive, InPort, Gone
<1>4. CASE chrome[p] \in {"up", "hung", "mute"}
    <2>1. chrome'[p] = "dying"
        BY <1>2, <1>4
    <2>2. chrome' \in [Chrome -> Life]
        BY <1>1, <1>2, <2>1 DEF Life
    <2> QED BY <1>2, <1>4, <2>1, <2>2 DEF Fading, Alive, InPort, Gone
<1>5. CASE chrome[p] \notin {"starting", "up", "hung", "mute"}
    <2>1. chrome'[p] = chrome[p]
        BY <1>2, <1>5
    <2>2. chrome' \in [Chrome -> Life]
        BY <1>1, <1>2, <2>1
    <2> QED BY <1>2, <1>5, <2>1, <2>2 DEF Fading, Alive, InPort, Gone
<1> QED BY <1>3, <1>4, <1>5

LEMMA StillFading ==
    ASSUME UNCHANGED chrome PROVE Fading
BY DEF Fading, Alive, InPort, Gone

\* A step of the processes.
LEMMA ProcessKeepsLaunch ==
    ASSUME LaunchInv, CalmOps, chrome' \in [Chrome -> Life], Fading,
           running' \in {running, NoChrome},
           \A p \in Chrome : running = p /\ Alive(p)' => running' = p
    PROVE  LaunchInv'
<1>1. LaunchTypes'
    BY DEF LaunchInv, LaunchTypes, FlagTypes, CalmOps, failureVars
<1>2. OnePort'
    BY DEF LaunchInv, OnePort, Fading
<1>3. OpsOK'
    BY DEF LaunchInv, OpsOK, Fading, CalmOps
<1>4. ASSUME excused' # Chrome PROVE InOrder'
    <2>1. InOrder /\ op' = op /\ ensuring' = ensuring /\ excused' = excused
        BY <1>4 DEF LaunchInv, CalmOps
    <2>2. \A c \in LaunchCaller : op'[c].pc \in Ensuring => ensuring' = c
        BY <2>1 DEF InOrder
    <2>3. \A c \in LaunchCaller, p \in Chrome :
             Alive(p)' => /\ op'[c].pc # "spawn"
                          /\ op'[c].pc \in Judging => op'[c].chrome = p
        BY <2>1 DEF InOrder, Fading
    <2>4. \A p \in Chrome : chrome'[p] = "starting" => \E c \in LaunchCaller : Awaits(c, p)'
        BY <2>1 DEF InOrder, Fading, Awaits
    <2>5. \A p \in Chrome : Alive(p)' => running' = p \/ p \in excused'
                                         \/ \E c \in LaunchCaller : Awaits(c, p)'
        BY <2>1 DEF InOrder, Fading, Awaits
    <2> QED BY <2>2, <2>3, <2>4, <2>5 DEF InOrder
<1> QED BY <1>1, <1>2, <1>3, <1>4 DEF LaunchInv

LEMMA ProcessesKeepLaunch ==
    ASSUME LaunchInv, NEW p \in Chrome, ComesUp(p) \/ Dies(p) \/ Falters(p) \/ Reap(p)
    PROVE  LaunchInv'
<1>1. LaunchTypes /\ chrome \in [Chrome -> Life]
    BY DEF LaunchInv, LaunchTypes
<1>2. CASE Dies(p) \/ Falters(p) \/ Reap(p)
    <2>1. PICK life \in {"dead", "hung", "mute", "reaped"} : Turns(p, life)
        BY <1>2 DEF Dies, Falters, Reap
    <2>2. /\ chrome' \in [Chrome -> Life] /\ chrome'[p] = life
          /\ \A q \in Chrome : q # p => chrome'[q] = chrome[q]
        BY <1>1, <2>1, TurnsTo DEF Life
    <2>3. \/ chrome[p] \in {"dying", "dead"} /\ life \in {"dead", "reaped"}
          \/ Alive(p) /\ life = "dead"
          \/ chrome[p] = "up" /\ life \in {"hung", "mute"}
        BY <1>1, <1>2, <2>2, TurnsTo DEF Dies, Falters, Reap, Life
    <2>4. Fading
        BY <2>2, <2>3 DEF Fading, Alive, InPort, Gone
    <2>5. /\ running' \in {running, NoChrome}
          /\ \A q \in Chrome : running = q /\ Alive(q)' => running' = q
        <3>1. CASE Dies(p) \/ Falters(p)
            BY <3>1 DEF Dies, Falters
        <3>2. CASE Reap(p)
            <4>1. chrome[p] = "dead" /\ chrome'[p] = "reaped"
                BY <1>1, <3>2, TurnsTo DEF Reap, Life
            <4>2. running' = running \/ (running = p /\ running' = NoChrome)
                BY <3>2 DEF Reap
            <4> QED BY <4>1, <4>2, <2>4 DEF Alive, Fading
        <3> QED BY <1>2, <3>1, <3>2
    <2>6. CalmOps
        BY <1>2 DEF Dies, Falters, Reap
    <2> QED BY <2>2, <2>4, <2>5, <2>6, ProcessKeepsLaunch
<1>3. CASE ComesUp(p)
    <2>1. /\ chrome' \in [Chrome -> Life] /\ chrome'[p] = "up" /\ chrome[p] = "starting"
          /\ \A q \in Chrome : q # p => chrome'[q] = chrome[q]
        BY <1>1, <1>3, TurnsTo DEF ComesUp, Life
    <2>2. UNCHANGED <<running, ensuring, reconcile, failures, cooling, op, excused>>
        BY <1>3 DEF ComesUp, CalmOps, failureVars
    <2>3. LaunchTypes'
        BY <2>1, <2>2, <1>1 DEF LaunchTypes, FlagTypes
    <2>4. OnePort'
        BY <1>3, <2>1 DEF ComesUp, PortFree, OnePort, InPort
    <2>5. \A q \in Chrome : (Alive(q)' => Alive(q)) /\ (Gone(q) => Gone(q)')
                            /\ (chrome'[q] = "starting" => chrome[q] = "starting")
        BY <2>1 DEF Alive, Gone
    <2>6. OpsOK'
        BY <2>2, <2>5 DEF LaunchInv, OpsOK
    <2>7. ASSUME excused' # Chrome PROVE InOrder'
        <3>1. InOrder
            BY <2>2, <2>7 DEF LaunchInv
        <3> QED BY <3>1, <2>2, <2>5 DEF InOrder, Awaits
    <2> QED BY <2>3, <2>4, <2>6, <2>7 DEF LaunchInv
<1> QED BY <1>2, <1>3

\* A step of caller c.  The processes only fade, and what was recorded or awaited is so
\* again, is excused or no longer lives.
LEMMA CallerKeepsLaunch ==
    ASSUME LaunchInv, NEW c \in LaunchCaller, NEW rec \in LaunchOp,
           op' = [op EXCEPT ![c] = rec], LaunchTypes', Fading, excused \subseteq excused',
           rec.pc \in Judging \cup Waiting => rec.chrome \in Chrome,
           rec.pc \in Waiting => chrome'[rec.chrome] \in {"dead", "reaped"},
           excused' # Chrome =>
               /\ \A d \in LaunchCaller : d # c /\ op[d].pc \in Ensuring => ensuring' = d
               /\ rec.pc \in Ensuring => ensuring' = c
               /\ \A p \in Chrome :
                    Alive(p)' => /\ rec.pc # "spawn"
                                 /\ rec.pc \in Judging => rec.chrome = p
                                 /\ running = p => running' = p \/ p \in excused'
                                 /\ Awaits(c, p) =>
                                      \/ rec.pc = "wait" /\ rec.chrome = p
                                      \/ running' = p /\ chrome'[p] # "starting"
    PROVE  LaunchInv'
<1>1. op \in [LaunchCaller -> LaunchOp]
    BY DEF LaunchInv, LaunchTypes
<1>2. op'[c] = rec /\ \A d \in LaunchCaller : d # c => op'[d] = op[d]
    BY <1>1
<1>3. OnePort'
    BY DEF LaunchInv, OnePort, Fading
<1>4. OpsOK'
    <2> SUFFICES ASSUME NEW d \in LaunchCaller
                 PROVE  /\ op'[d].pc \in Judging \cup Waiting => op'[d].chrome \in Chrome
                        /\ op'[d].pc \in Waiting => Gone(op[d].chrome)'
        BY DEF OpsOK
    <2>1. CASE d = c
        BY <1>2, <2>1 DEF Gone
    <2>2. CASE d # c
        BY <1>2, <2>2 DEF LaunchInv, OpsOK, Fading, Gone, Waiting
    <2> QED BY <2>1, <2>2
<1>5. ASSUME excused' # Chrome PROVE InOrder'
    <2>1. InOrder
        BY <1>5 DEF LaunchInv, LaunchTypes
    <2>2. \A d \in LaunchCaller : op'[d].pc \in Ensuring => ensuring' = d
        BY <1>2, <1>5
    <2>3. ASSUME NEW d \in LaunchCaller, NEW p \in Chrome, Alive(p)'
          PROVE  /\ op'[d].pc # "spawn"
                 /\ op'[d].pc \in Judging => op'[d].chrome = p
        <3>1. CASE d = c
            BY <1>2, <1>5, <2>3, <3>1
        <3>2. CASE d # c
            BY <1>2, <2>1, <2>3, <3>2 DEF InOrder, Fading
        <3> QED BY <3>1, <3>2
    <2>4. \A d \in LaunchCaller, p \in Chrome :
             Awaits(d, p) /\ Alive(p)' => \/ Awaits(d, p)'
                                          \/ running' = p /\ chrome'[p] # "starting"
        BY <1>2, <1>5 DEF Awaits
    <2>5. ASSUME NEW p \in Chrome, chrome'[p] = "starting"
          PROVE  \E d \in LaunchCaller : Awaits(d, p)'
        <3>1. Alive(p)' /\ chrome[p] = "starting"
            BY <2>5 DEF Fading, Alive
        <3>2. PICK d \in LaunchCaller : Awaits(d, p)
            BY <2>1, <3>1 DEF InOrder
        <3> QED BY <2>4, <2>5, <3>1, <3>2
    <2>6. ASSUME NEW p \in Chrome, Alive(p)'
          PROVE  running' = p \/ p \in excused' \/ \E d \in LaunchCaller : Awaits(d, p)'
        <3>1. running = p \/ p \in excused \/ \E d \in LaunchCaller : Awaits(d, p)
            BY <2>1, <2>6 DEF InOrder, Fading
        <3> QED BY <1>5, <2>4, <2>6, <3>1
    <2> QED BY <2>2, <2>3, <2>5, <2>6 DEF InOrder
<1> QED BY <1>3, <1>4, <1>5 DEF LaunchInv

\* The count of the failures and the cooldown.
Counts == NoFailures \/ Failed \/ UNCHANGED failureVars

LEMMA FlagsKeep ==
    ASSUME LaunchInv, Counts, ensuring' \in LaunchCaller \cup {NoCaller}, reconcile' \in BOOLEAN
    PROVE  FlagTypes'
<1>1. /\ failures \in 0..LaunchThreshold /\ cooling \in BOOLEAN
      /\ cooling => failures = LaunchThreshold
    BY DEF LaunchInv, LaunchTypes, FlagTypes
<1>2. CASE NoFailures
    <2>1. failures' \in 0..LaunchThreshold
        BY <1>2, LaunchAssumption DEF NoFailures
    <2>2. cooling' = FALSE
        BY <1>2 DEF NoFailures
    <2> QED BY <2>1, <2>2 DEF FlagTypes
<1>3. CASE Failed
    <2>1. /\ failures' \in 0..LaunchThreshold
          /\ failures + 1 >= LaunchThreshold => failures' = LaunchThreshold
        BY <1>1, <1>3, LaunchAssumption DEF Failed
    <2>2. cooling' = (failures + 1 >= LaunchThreshold)
        BY <1>3 DEF Failed
    <2>3. cooling' \in BOOLEAN
        BY <2>2
    <2>4. cooling' => failures' = LaunchThreshold
        BY <2>1, <2>2
    <2> QED BY <2>1, <2>3, <2>4 DEF FlagTypes
<1>4. CASE UNCHANGED failureVars
    <2>1. failures' = failures /\ cooling' = cooling
        BY <1>4 DEF failureVars
    <2> QED BY <1>1, <2>1 DEF FlagTypes
<1> QED BY <1>2, <1>3, <1>4 DEF Counts

\* A record of op with another step, and with another process.
LEMMA OpRecords ==
    ASSUME LaunchTypes, NEW c \in LaunchCaller,
           NEW pc \in Ensuring \cup Waiting \cup {"idle", "reset"}
    PROVE  /\ op[c] \in LaunchOp /\ NoOp \in LaunchOp
           /\ [op[c] EXCEPT !.pc = pc] \in LaunchOp
           /\ [op[c] EXCEPT !.pc = pc].pc = pc
           /\ [op[c] EXCEPT !.pc = pc].chrome = op[c].chrome
           /\ \A p \in Chrome :
                 /\ [op[c] EXCEPT !.pc = pc, !.chrome = p] \in LaunchOp
                 /\ [op[c] EXCEPT !.pc = pc, !.chrome = p].pc = pc
                 /\ [op[c] EXCEPT !.pc = pc, !.chrome = p].chrome = p
<1>1. op[c] \in LaunchOp
    BY DEF LaunchTypes
<1>2. NoOp \in LaunchOp
    BY DEF NoOp, LaunchOp
<1> QED BY <1>1, <1>2 DEF LaunchOp, Ensuring, Judging, Waiting

\* The call of c ends.
LEMMA DoneKeeps ==
    ASSUME LaunchInv, NEW c \in LaunchCaller, Done(c), Counts, UNCHANGED <<excused, reconcile>>,
           chrome' \in [Chrome -> Life], running' \in Chrome \cup {NoChrome}, Fading,
           excused # Chrome => \A p \in Chrome :
               Alive(p)' => (running = p => running' = p) /\ ~Awaits(c, p)
    PROVE  LaunchInv'
<1> DEFINE rec == NoOp
<1>1. LaunchTypes /\ FlagTypes
    BY DEF LaunchInv, LaunchTypes
<1>2. rec \in LaunchOp /\ rec.pc = "idle" /\ op' = [op EXCEPT ![c] = rec]
    BY <1>1, OpRecords DEF Done, AtRest, NoOp, LaunchOp
<1>3. ensuring' \in LaunchCaller \cup {NoCaller} /\ (ensuring # c => ensuring' = ensuring)
    BY <1>1 DEF Done, FlagTypes
<1>4. reconcile' \in BOOLEAN
    BY <1>1 DEF FlagTypes
<1>5. FlagTypes'
    BY <1>3, <1>4, FlagsKeep
<1>6. op' \in [LaunchCaller -> LaunchOp]
    BY <1>1, <1>2 DEF LaunchTypes
<1>7. LaunchTypes'
    BY <1>1, <1>5, <1>6 DEF LaunchTypes
<1>8. "idle" \notin Ensuring /\ "idle" \notin Judging \cup Waiting
    BY DEF Ensuring, Judging, Waiting
<1>9. excused # Chrome => \A d \in LaunchCaller : d # c /\ op[d].pc \in Ensuring => ensuring' = d
    BY <1>3 DEF LaunchInv, InOrder
<1> HIDE DEF rec
<1> QED BY <1>2, <1>7, <1>8, <1>9, CallerKeepsLaunch

\* A call that stops what is recorded, before it goes on or ends.
LEMMA StopKeeps ==
    ASSUME LaunchInv, NEW c \in LaunchCaller, NEW pc \in Waiting, NEW rec \in LaunchOp,
           StopRunning(c, pc, [op EXCEPT ![c] = rec]), Counts, UNCHANGED excused,
           ensuring' \in LaunchCaller \cup {NoCaller}, reconcile' \in BOOLEAN,
           rec.pc \in {"idle", "probe", "launch"}, op[c].pc # "wait",
           excused # Chrome =>
               /\ \A d \in LaunchCaller : d # c /\ op[d].pc \in Ensuring => ensuring' = d
               /\ rec.pc \in Ensuring \/ pc \in Ensuring => ensuring' = c
    PROVE  LaunchInv'
<1>1. LaunchTypes /\ FlagTypes'
    BY FlagsKeep DEF LaunchInv
<1>2. rec.pc \notin Judging \cup Waiting /\ rec.pc # "spawn" /\ pc \notin Judging /\ pc # "spawn"
    BY DEF Judging, Waiting
<1>3. \A p \in Chrome : ~Awaits(c, p)
    BY DEF Awaits
<1>4. CASE running = NoChrome
    <2>1. op' = [op EXCEPT ![c] = rec] /\ chrome' = chrome /\ running' = running
        BY <1>4 DEF StopRunning
    <2>2. op' \in [LaunchCaller -> LaunchOp]
        BY <1>1, <2>1 DEF LaunchTypes
    <2>3. LaunchTypes' /\ Fading
        BY <1>1, <2>1, <2>2, StillFading DEF LaunchTypes
    <2> QED BY <1>2, <1>3, <2>1, <2>3, CallerKeepsLaunch
<1>5. CASE running # NoChrome /\ Gone(running)
    <2> DEFINE rec2 == [op[c] EXCEPT !.pc = pc, !.chrome = running]
    <2>1. op' = [op EXCEPT ![c] = rec2] /\ chrome' = chrome /\ running' = running
        BY <1>5, <1>1 DEF StopRunning, LaunchTypes
    <2>2. running \in Chrome
        BY <1>1, <1>5 DEF LaunchTypes
    <2>3. rec2 \in LaunchOp /\ rec2.pc = pc /\ rec2.chrome = running
        <3>1. op[c] \in LaunchOp
            BY <1>1 DEF LaunchTypes
        <3> QED BY <2>2, <3>1 DEF LaunchOp, Waiting
    <2>4. chrome'[rec2.chrome] \in {"dead", "reaped"}
        BY <1>5, <2>1, <2>3 DEF Gone
    <2> HIDE DEF rec2
    <2>5. op' \in [LaunchCaller -> LaunchOp]
        BY <1>1, <2>1, <2>3 DEF LaunchTypes
    <2>6. LaunchTypes' /\ Fading
        BY <1>1, <2>1, <2>5, StillFading DEF LaunchTypes
    <2> QED BY <1>2, <1>3, <2>1, <2>2, <2>3, <2>4, <2>6, CallerKeepsLaunch
<1>6. CASE running # NoChrome /\ ~Gone(running)
    <2>1. op' = [op EXCEPT ![c] = rec] /\ Kill(running) /\ running' = NoChrome
        BY <1>6 DEF StopRunning
    <2>2. running \in Chrome
        BY <1>1, <1>6 DEF LaunchTypes
    <2>4. /\ chrome' \in [Chrome -> Life] /\ Fading
          /\ \A q \in Chrome : q = running => ~Alive(q)'
        <3>1. ASSUME NEW q \in Chrome, q = running
              PROVE  chrome' \in [Chrome -> Life] /\ Fading /\ ~Alive(q)'
            <4>1. Kill(q)
                BY <2>1, <3>1
            <4> QED BY <1>1, <4>1, KillFades
        <3> QED BY <2>2, <3>1
    <2>5. op' \in [LaunchCaller -> LaunchOp]
        BY <1>1, <2>1 DEF LaunchTypes
    <2>6. LaunchTypes'
        BY <1>1, <2>1, <2>4, <2>5 DEF LaunchTypes
    <2> QED BY <1>2, <1>3, <2>1, <2>4, <2>6, CallerKeepsLaunch
<1> QED BY <1>4, <1>5, <1>6

LEMMA StopBrowserKeeps ==
    ASSUME LaunchInv, NEW c \in LaunchCaller, StopBrowser(c) \/ ResetStops(c)
    PROVE  LaunchInv'
<1>1. LaunchTypes /\ FlagTypes
    BY DEF LaunchInv, LaunchTypes
<1>2. NoOp \in LaunchOp /\ NoOp.pc = "idle" /\ "idle" \notin Ensuring /\ "stop" \notin Ensuring
    BY DEF NoOp, LaunchOp, Ensuring, Judging
<1>3. StopRunning(c, "stop", [op EXCEPT ![c] = NoOp]) /\ UNCHANGED <<ensuring, excused>>
    BY DEF StopBrowser, ResetStops, AtRest
<1>4. Counts /\ reconcile' \in BOOLEAN
    BY <1>1 DEF StopBrowser, ResetStops, Counts, FlagTypes
<1>5. op[c].pc \in {"idle", "reset"} /\ op[c].pc # "wait"
    BY DEF StopBrowser, ResetStops, OpAt
<1>6. excused # Chrome => \A d \in LaunchCaller : op[d].pc \in Ensuring => ensuring' = d
    BY <1>3 DEF LaunchInv, InOrder
<1>7. ensuring' \in LaunchCaller \cup {NoCaller}
    BY <1>1, <1>3 DEF FlagTypes
<1> QED BY <1>2, <1>3, <1>4, <1>5, <1>6, <1>7, StopKeeps DEF Waiting

\* The wait for a process that was found gone is over.
LEMMA EmptiedKeeps ==
    ASSUME LaunchInv, NEW c \in LaunchCaller, NEW rec \in LaunchOp, Emptied(c),
           op' = [op EXCEPT ![c] = rec], UNCHANGED <<ensuring, reconcile, failureVars>>,
           op[c].pc \in Waiting, rec.pc \in {"idle", "probe", "launch"},
           rec.pc \in Ensuring => op[c].pc \in Ensuring
    PROVE  LaunchInv'
<1>1. LaunchTypes /\ FlagTypes
    BY DEF LaunchInv, LaunchTypes
<1>2. running' = NoChrome /\ chrome' = chrome
      /\ excused' = excused \cup ({running} \ {NoChrome, op[c].chrome})
    BY DEF Emptied
<1>3. FlagTypes'
    BY <1>1 DEF FlagTypes, failureVars
<1>4. op' \in [LaunchCaller -> LaunchOp]
    BY <1>1 DEF LaunchTypes
<1>5. LaunchTypes'
    BY <1>1, <1>2, <1>3, <1>4 DEF LaunchTypes
<1>6. Fading
    BY <1>2, StillFading
<1>7. rec.pc \notin Judging \cup Waiting /\ rec.pc # "spawn"
    BY DEF Judging, Waiting
<1>8. ~Alive(op[c].chrome)
    BY DEF LaunchInv, OpsOK, Gone, Alive
<1>9. ASSUME NEW p \in Chrome, Alive(p)', running = p PROVE p \in excused'
    <2>1. Alive(p)
        BY <1>2, <1>9 DEF Alive
    <2> QED BY <1>2, <1>8, <1>9, <2>1, LaunchAssumption
<1>10. \A p \in Chrome : ~Awaits(c, p)
    BY DEF Awaits, Waiting
<1>11. ASSUME excused' # Chrome
       PROVE  /\ \A d \in LaunchCaller : op[d].pc \in Ensuring => ensuring' = d
              /\ rec.pc \in Ensuring => ensuring' = c
    <2>1. excused # Chrome
        BY <1>2, <1>11, <1>5 DEF LaunchTypes
    <2> QED BY <2>1 DEF LaunchInv, InOrder
<1> QED BY <1>2, <1>5, <1>6, <1>7, <1>9, <1>10, <1>11, CallerKeepsLaunch

LEMMA WaitsEnd ==
    ASSUME LaunchInv, NEW c \in LaunchCaller, StopEnds(c) \/ Stopped(c)
    PROVE  LaunchInv'
<1>1. Emptied(c) /\ UNCHANGED <<ensuring, reconcile, failureVars>>
    BY DEF StopEnds, Stopped
<1>2. PICK rec \in LaunchOp :
          /\ op' = [op EXCEPT ![c] = rec] /\ op[c].pc \in Waiting
          /\ rec.pc \in {"idle", "probe", "launch"}
          /\ rec.pc \in Ensuring => op[c].pc \in Ensuring
    <2>1. CASE StopEnds(c)
        <3>1. NoOp \in LaunchOp /\ NoOp.pc = "idle"
            BY DEF NoOp, LaunchOp
        <3>2. op' = [op EXCEPT ![c] = NoOp] /\ op[c].pc \in Waiting
            BY <2>1 DEF StopEnds, OpAt, AtRest, Waiting
        <3> QED BY <3>1, <3>2 DEF Ensuring, Judging
    <2>2. CASE OpAt(c, "reconcile") /\ op' = [op EXCEPT ![c] = [NoOp EXCEPT !.pc = "probe"]]
        <3>1. /\ [NoOp EXCEPT !.pc = "probe"] \in LaunchOp
              /\ [NoOp EXCEPT !.pc = "probe"].pc = "probe"
            BY DEF NoOp, LaunchOp
        <3> QED BY <2>2, <3>1 DEF Ensuring, Waiting, OpAt
    <2>3. CASE /\ OpAt(c, "restart")
               /\ op' = [op EXCEPT ![c] = [NoOp EXCEPT !.pc = "launch", !.relaunch = TRUE]]
        <3>1. /\ [NoOp EXCEPT !.pc = "launch", !.relaunch = TRUE] \in LaunchOp
              /\ [NoOp EXCEPT !.pc = "launch", !.relaunch = TRUE].pc = "launch"
            BY DEF NoOp, LaunchOp
        <3> QED BY <2>3, <3>1 DEF Ensuring, Waiting, OpAt
    <2> QED BY <2>1, <2>2, <2>3 DEF Stopped
<1> QED BY <1>1, <1>2, EmptiedKeeps

\* A reset that forgets an ensure in flight excuses every process.
LEMMA ResetKeeps ==
    ASSUME LaunchInv, NEW c \in LaunchCaller, Reset(c)
    PROVE  LaunchInv'
<1> DEFINE rec == [op[c] EXCEPT !.pc = "reset"]
<1>1. LaunchTypes /\ FlagTypes
    BY DEF LaunchInv, LaunchTypes
<1>2. rec \in LaunchOp /\ rec.pc = "reset"
    BY <1>1, OpRecords
<1>3. op' = [op EXCEPT ![c] = rec] /\ op[c].pc = "idle"
    BY DEF Reset, OpGoes, OpAt
<1> HIDE DEF rec
<1>4. UNCHANGED <<chrome, running, reconcile>> /\ ensuring' = NoCaller /\ Counts
    BY DEF Reset, Counts
<1>5. FlagTypes'
    BY <1>1, <1>4, FlagsKeep DEF FlagTypes
<1>6. op' \in [LaunchCaller -> LaunchOp]
    BY <1>1, <1>2, <1>3 DEF LaunchTypes
<1>7. excused' \in {excused, Chrome} /\ (ensuring # NoCaller => excused' = Chrome)
    BY DEF Reset
<1>8. LaunchTypes' /\ Fading /\ excused \subseteq excused'
    BY <1>1, <1>4, <1>5, <1>6, <1>7, StillFading DEF LaunchTypes
<1>9. excused' # Chrome => \A d \in LaunchCaller : op[d].pc \notin Ensuring
    BY <1>7, LaunchAssumption DEF LaunchInv, InOrder
<1>10. rec.pc \notin Judging \cup Waiting \cup Ensuring /\ rec.pc # "spawn"
    BY <1>2 DEF Judging, Waiting, Ensuring
<1>11. \A p \in Chrome : ~Awaits(c, p)
    BY <1>3 DEF Awaits
<1> QED BY <1>2, <1>3, <1>4, <1>8, <1>9, <1>10, <1>11, CallerKeepsLaunch

\* An ensure goes to another step of its own, and nothing lives when it is about to spawn.
LEMMA GoesOnKeeps ==
    ASSUME LaunchInv, NEW c \in LaunchCaller, NEW pc \in {"probe", "probeWs", "probeAgain", "launch", "spawn"},
           OpGoes(c, pc), UNCHANGED <<chrome, running, reconcile, failureVars, excused>>,
           \/ op[c].pc \in Ensuring /\ ensuring' = ensuring
           \/ ensuring = NoCaller /\ ensuring' = c,
           op[c].pc # "wait",
           excused # Chrome /\ pc = "spawn" => \A p \in Chrome : ~Alive(p)
    PROVE  LaunchInv'
<1> DEFINE rec == [op[c] EXCEPT !.pc = pc]
<1>1. LaunchTypes /\ FlagTypes
    BY DEF LaunchInv, LaunchTypes
<1>2. pc \in Ensuring /\ pc \notin Judging \cup Waiting
    BY DEF Ensuring, Judging, Waiting
<1>3. rec \in LaunchOp /\ rec.pc = pc
    <2>1. op[c] \in LaunchOp
        BY <1>1 DEF LaunchTypes
    <2> QED BY <2>1 DEF LaunchOp
<1>4. op' = [op EXCEPT ![c] = rec]
    BY DEF OpGoes
<1> HIDE DEF rec
<1>5. FlagTypes' /\ chrome' = chrome /\ running' = running /\ excused' = excused
    BY <1>1 DEF FlagTypes, failureVars
<1>6. op' \in [LaunchCaller -> LaunchOp]
    BY <1>1, <1>3, <1>4 DEF LaunchTypes
<1>7. LaunchTypes' /\ Fading
    BY <1>1, <1>5, <1>6, StillFading DEF LaunchTypes
<1>8. \A p \in Chrome : ~Awaits(c, p) /\ (Alive(p)' => Alive(p))
    BY <1>5 DEF Awaits, Alive
<1>9. excused' # Chrome =>
        /\ \A d \in LaunchCaller : d # c /\ op[d].pc \in Ensuring => ensuring' = d
        /\ ensuring' = c
    BY <1>5, LaunchAssumption DEF LaunchInv, InOrder
<1> QED BY <1>2, <1>3, <1>4, <1>5, <1>7, <1>8, <1>9, CallerKeepsLaunch

LEMMA EnsureKeeps ==
    ASSUME LaunchInv, NEW c \in LaunchCaller, Ensure(c)
    PROVE  LaunchInv'
<1>1. LaunchTypes /\ FlagTypes
    BY DEF LaunchInv, LaunchTypes
<1>2. op[c].pc = "idle" /\ ensuring = NoCaller /\ ensuring' = c /\ excused' = excused
    BY DEF Ensure, OpAt
<1>3. CASE reconcile
    <2> DEFINE rec == [op[c] EXCEPT !.pc = "probe"]
    <2>1. rec \in LaunchOp /\ rec.pc = "probe" /\ "probe" \in Ensuring
        BY <1>1, OpRecords DEF Ensuring
    <2>2. StopRunning(c, "reconcile", [op EXCEPT ![c] = rec]) /\ Counts /\ reconcile' = FALSE
        BY <1>3 DEF Ensure, Counts
    <2> HIDE DEF rec
    <2>3. excused # Chrome => \A d \in LaunchCaller : op[d].pc \notin Ensuring
        BY <1>2, LaunchAssumption DEF LaunchInv, InOrder
    <2> QED BY <1>2, <2>1, <2>2, <2>3, StopKeeps DEF Waiting
<1>4. CASE ~reconcile
    <2>1. OpGoes(c, "probe") /\ UNCHANGED <<chrome, running, reconcile, failureVars>>
        BY <1>4 DEF Ensure
    <2> QED BY <1>2, <2>1, GoesOnKeeps
<1> QED BY <1>3, <1>4

LEMMA ProbeKeeps ==
    ASSUME LaunchInv, NEW c \in LaunchCaller, Probe(c) \/ ProbeAgain(c) \/ ProbeWs(c)
    PROVE  LaunchInv'
<1>1. LaunchTypes /\ FlagTypes /\ excused' = excused /\ reconcile' = reconcile
    BY DEF LaunchInv, LaunchTypes, Probe, ProbeAgain, ProbeWs
<1>2. op[c].pc \in {"probe", "probeAgain", "probeWs"} /\ op[c].pc # "wait" /\ op[c].pc \in Ensuring
    BY DEF Probe, ProbeAgain, ProbeWs, OpAt, Ensuring
<1>3. \A p \in Chrome : ~Awaits(c, p)
    BY <1>2 DEF Awaits
<1>4. CASE Probe(c)
    <2>1. PICK pc \in {"probeWs", "probeAgain", "launch"} : OpGoes(c, pc)
        BY <1>4 DEF Probe
    <2>2. UNCHANGED <<chrome, running, reconcile, failureVars, excused, ensuring>>
        BY <1>4 DEF Probe
    <2> QED BY <1>2, <2>1, <2>2, GoesOnKeeps
<1>5. CASE ProbeAgain(c) /\ ~WsOK
    <2>1. OpGoes(c, "launch") /\ UNCHANGED <<chrome, running, reconcile, failureVars, excused, ensuring>>
        BY <1>5 DEF ProbeAgain
    <2> QED BY <1>2, <2>1, GoesOnKeeps
<1>6. CASE Done(c) /\ Counts /\ UNCHANGED <<chrome, running>>
    <2>1. chrome' \in [Chrome -> Life] /\ running' \in Chrome \cup {NoChrome} /\ Fading
        BY <1>1, <1>6, StillFading DEF LaunchTypes
    <2> QED BY <1>1, <1>3, <1>6, <2>1, DoneKeeps
<1>7. CASE ProbeAgain(c) /\ WsOK
    BY <1>6, <1>7 DEF ProbeAgain, Counts
<1>8. CASE ProbeWs(c) /\ (WsOK \/ running = NoChrome)
    BY <1>6, <1>8 DEF ProbeWs, Counts
<1>9. CASE ProbeWs(c) /\ ~(WsOK \/ running = NoChrome)
    <2> DEFINE rec == [op[c] EXCEPT !.pc = "launch", !.relaunch = TRUE]
    <2>1. op[c] \in LaunchOp
        BY <1>1 DEF LaunchTypes
    <2>2. rec \in LaunchOp /\ rec.pc = "launch"
        BY <2>1 DEF LaunchOp
    <2>3. [op EXCEPT ![c].pc = "launch", ![c].relaunch = TRUE] = [op EXCEPT ![c] = rec]
        BY <1>1, <2>1 DEF LaunchTypes, LaunchOp
    <2>4. StopRunning(c, "restart", [op EXCEPT ![c] = rec]) /\ Counts /\ ensuring' = ensuring
        BY <1>9, <2>3 DEF ProbeWs, Counts
    <2> HIDE DEF rec
    <2>5. excused # Chrome =>
            /\ \A d \in LaunchCaller : d # c /\ op[d].pc \in Ensuring => ensuring' = d
            /\ ensuring' = c
        BY <1>2, <2>4 DEF LaunchInv, InOrder
    <2>6. ensuring' \in LaunchCaller \cup {NoCaller} /\ reconcile' \in BOOLEAN
        BY <1>1, <2>4 DEF FlagTypes
    <2> QED BY <1>1, <1>2, <2>2, <2>4, <2>5, <2>6, StopKeeps DEF Waiting
<1> QED BY <1>4, <1>5, <1>7, <1>8, <1>9

\* With the port free, what lives could only be starting, and is awaited by nobody.
LEMMA LaunchKeeps ==
    ASSUME LaunchInv, NEW c \in LaunchCaller, Launch(c)
    PROVE  LaunchInv'
<1>1. LaunchTypes /\ FlagTypes /\ excused' = excused /\ reconcile' = reconcile
      /\ chrome' = chrome /\ running' = running
    BY DEF LaunchInv, LaunchTypes, Launch
<1>2. op[c].pc = "launch" /\ op[c].pc # "wait" /\ op[c].pc \in Ensuring
    BY DEF Launch, OpAt, Ensuring
<1>3. CASE Done(c) /\ Counts
    <2>1. chrome' \in [Chrome -> Life] /\ running' \in Chrome \cup {NoChrome} /\ Fading
        BY <1>1, StillFading DEF LaunchTypes
    <2>2. \A p \in Chrome : ~Awaits(c, p)
        BY <1>2 DEF Awaits
    <2> QED BY <1>1, <1>3, <2>1, <2>2, DoneKeeps
<1>4. CASE /\ PortFree /\ OpGoes(c, "spawn") /\ UNCHANGED <<ensuring, failureVars>>
    <2>1. ASSUME excused # Chrome, NEW p \in Chrome, Alive(p) PROVE FALSE
        <3>1. chrome[p] = "starting" /\ InOrder
            BY <1>4, <2>1 DEF PortFree, InPort, Alive, LaunchInv
        <3>2. PICK d \in LaunchCaller : Awaits(d, p)
            BY <3>1 DEF InOrder
        <3>3. op[d].pc = "wait" /\ op[d].pc \in Ensuring
            BY <3>2 DEF Awaits, Ensuring, Judging
        <3>4. d = c
            BY <1>2, <3>1, <3>3 DEF InOrder
        <3> QED BY <1>2, <3>3, <3>4
    <2> QED BY <1>1, <1>2, <1>4, <2>1, GoesOnKeeps
<1> QED BY <1>3, <1>4 DEF Launch, Counts

LEMMA SpawnKeeps ==
    ASSUME LaunchInv, NEW c \in LaunchCaller, NEW p \in Chrome, Spawn(c, p)
    PROVE  LaunchInv'
<1> DEFINE rec == [op[c] EXCEPT !.pc = "wait", !.chrome = p]
<1>1. LaunchTypes /\ FlagTypes /\ op[c] \in LaunchOp
    BY DEF LaunchInv, LaunchTypes
<1>2. op[c].pc = "spawn" /\ chrome[p] = "none" /\ Turns(p, "starting")
      /\ UNCHANGED <<running, ensuring, reconcile, failureVars, excused>>
    BY DEF Spawn, OpAt
<1>3. rec \in LaunchOp /\ rec.pc = "wait" /\ rec.chrome = p
    BY <1>1 DEF LaunchOp
<1>4. op' = [op EXCEPT ![c] = rec]
    BY <1>1 DEF Spawn, LaunchTypes
<1> HIDE DEF rec
<1>5. /\ op' \in [LaunchCaller -> LaunchOp] /\ op'[c] = rec
      /\ \A d \in LaunchCaller : d # c => op'[d] = op[d]
    BY <1>1, <1>3, <1>4 DEF LaunchTypes
<1>6. /\ chrome' \in [Chrome -> Life] /\ chrome'[p] = "starting"
      /\ \A q \in Chrome : q # p => chrome'[q] = chrome[q]
    BY <1>1, <1>2, TurnsTo DEF Life
<1>7. FlagTypes'
    BY <1>1, <1>2 DEF FlagTypes, failureVars
<1>8. LaunchTypes'
    BY <1>1, <1>2, <1>5, <1>6, <1>7 DEF LaunchTypes
<1>9. OnePort'
    BY <1>6 DEF LaunchInv, OnePort, InPort
<1>10. OpsOK'
    <2> SUFFICES ASSUME NEW d \in LaunchCaller
                 PROVE  /\ op'[d].pc \in Judging \cup Waiting => op'[d].chrome \in Chrome
                        /\ op'[d].pc \in Waiting => Gone(op[d].chrome)'
        BY DEF OpsOK
    <2>1. CASE d = c
        BY <1>3, <1>5, <2>1 DEF Waiting
    <2>2. CASE d # c
        <3>1. \A q \in Chrome : Gone(q) => Gone(q)'
            BY <1>2, <1>6 DEF Gone
        <3> QED BY <1>5, <2>2, <3>1 DEF LaunchInv, OpsOK
    <2> QED BY <2>1, <2>2
<1>11. ASSUME excused' # Chrome PROVE InOrder'
    <2>1. InOrder /\ ensuring' = ensuring
        BY <1>2, <1>11 DEF LaunchInv
    <2>2. \A d \in LaunchCaller : op[d].pc \in Ensuring => d = c
        BY <1>2, <2>1 DEF InOrder, Ensuring
    <2>3. \A d \in LaunchCaller : op'[d].pc \in Ensuring => ensuring' = d
        BY <1>2, <1>5, <2>1, <2>2 DEF InOrder, Ensuring
    <2>4. \A q \in Chrome : Alive(q)' => q = p
        <3>1. \A q \in Chrome : ~Alive(q)
            BY <1>2, <2>1 DEF InOrder
        <3> QED BY <1>6, <3>1 DEF Alive
    <2>5. \A d \in LaunchCaller : op'[d].pc # "spawn" /\ (op'[d].pc \in Judging => d = c)
        BY <1>3, <1>5, <2>2 DEF Ensuring
    <2>6. Awaits(c, p)'
        BY <1>3, <1>5 DEF Awaits
    <2>7. \A q \in Chrome : chrome'[q] = "starting" => Alive(q)'
        BY DEF Alive
    <2> QED BY <1>3, <1>5, <2>3, <2>4, <2>5, <2>6, <2>7 DEF InOrder
<1> QED BY <1>8, <1>9, <1>10, <1>11 DEF LaunchInv

\* The process that answers is the caller's own, and recorded from now on.
LEMMA AttachKeeps ==
    ASSUME LaunchInv, NEW c \in LaunchCaller, Attach(c)
    PROVE  LaunchInv'
<1>1. LaunchTypes /\ FlagTypes /\ op[c] \in LaunchOp
    BY DEF LaunchInv, LaunchTypes
<1>2. op[c].pc = "wait" /\ HttpOK /\ running' = op[c].chrome
      /\ UNCHANGED <<chrome, ensuring, reconcile, failureVars, excused>>
    BY DEF Attach, OpAt
<1>3. PICK pc \in {"check", "ready"} : OpGoes(c, pc)
    BY DEF Attach
<1> DEFINE rec == [op[c] EXCEPT !.pc = pc]
<1>4. rec \in LaunchOp /\ rec.pc = pc /\ rec.chrome = op[c].chrome
    BY <1>1 DEF LaunchOp
<1>5. op' = [op EXCEPT ![c] = rec]
    BY <1>3 DEF OpGoes
<1> HIDE DEF rec
<1>6. op[c].chrome \in Chrome /\ op[c].pc \in Ensuring /\ op[c].pc \in Judging
    BY <1>2 DEF LaunchInv, OpsOK, Judging, Ensuring
<1>7. FlagTypes'
    BY <1>1, <1>2 DEF FlagTypes, failureVars
<1>8. op' \in [LaunchCaller -> LaunchOp]
    BY <1>1, <1>4, <1>5 DEF LaunchTypes
<1>9. LaunchTypes' /\ Fading
    BY <1>1, <1>2, <1>6, <1>7, <1>8, StillFading DEF LaunchTypes
<1>10. rec.pc \in Judging /\ rec.pc \notin Waiting /\ rec.pc # "spawn"
    BY <1>4 DEF Judging, Waiting
<1>11. ASSUME excused' # Chrome
       PROVE  /\ \A d \in LaunchCaller : d # c /\ op[d].pc \in Ensuring => ensuring' = d
              /\ ensuring' = c
              /\ \A p \in Chrome :
                    Alive(p)' => p = op[c].chrome /\ chrome'[p] # "starting"
    <2>1. InOrder
        BY <1>2, <1>11 DEF LaunchInv
    <2>2. PICK q \in Chrome : chrome[q] \in {"up", "hung"}
        BY <1>2 DEF HttpOK
    <2>3. \A p \in Chrome : Alive(p)' => p = op[c].chrome
        BY <1>2, <1>6, <2>1 DEF InOrder, Alive
    <2>4. q = op[c].chrome
        BY <1>2, <2>2, <2>3 DEF Alive
    <2> QED BY <1>2, <1>6, <2>1, <2>2, <2>3, <2>4 DEF InOrder
<1> QED BY <1>2, <1>4, <1>5, <1>6, <1>9, <1>10, <1>11, CallerKeepsLaunch

LEMMA LaunchTimesOutKeeps ==
    ASSUME LaunchInv, NEW c \in LaunchCaller, LaunchTimesOut(c)
    PROVE  LaunchInv'
<1>1. LaunchTypes /\ FlagTypes /\ op[c] \in LaunchOp
    BY DEF LaunchInv, LaunchTypes
<1>2. op[c].pc = "wait" /\ Kill(op[c].chrome) /\ UNCHANGED <<running, reconcile, excused>>
    BY DEF LaunchTimesOut, OpAt
<1>3. op[c].chrome \in Chrome /\ op[c].pc \in Ensuring /\ op[c].pc \in Judging
    BY <1>2 DEF LaunchInv, OpsOK, Judging, Ensuring
<1>4. chrome' \in [Chrome -> Life] /\ Fading /\ \A p \in Chrome : Awaits(c, p) => ~Alive(p)'
    <2>1. ASSUME NEW p \in Chrome, p = op[c].chrome
          PROVE  chrome' \in [Chrome -> Life] /\ Fading /\ ~Alive(p)'
        <3>1. Kill(p)
            BY <1>2, <2>1
        <3> QED BY <1>1, <3>1, KillFades
    <2> QED BY <1>3, <2>1 DEF Awaits
<1>5. CASE Failed /\ Done(c)
    <2>1. running' \in Chrome \cup {NoChrome}
        BY <1>1, <1>2 DEF LaunchTypes
    <2> QED BY <1>2, <1>4, <1>5, <2>1, DoneKeeps DEF Counts
<1>6. CASE /\ op' = [op EXCEPT ![c].pc = "spawn", ![c].chrome = NoChrome, ![c].retried = TRUE]
           /\ UNCHANGED <<ensuring, failureVars>>
    <2> DEFINE rec == [op[c] EXCEPT !.pc = "spawn", !.chrome = NoChrome, !.retried = TRUE]
    <2>1. rec \in LaunchOp /\ rec.pc = "spawn"
        BY <1>1 DEF LaunchOp
    <2>2. op' = [op EXCEPT ![c] = rec]
        BY <1>1, <1>6 DEF LaunchTypes
    <2> HIDE DEF rec
    <2>3. FlagTypes'
        BY <1>1, <1>2, <1>6 DEF FlagTypes, failureVars
    <2>4. op' \in [LaunchCaller -> LaunchOp]
        BY <1>1, <2>1, <2>2 DEF LaunchTypes
    <2>5. LaunchTypes'
        BY <1>1, <1>2, <1>4, <2>3, <2>4 DEF LaunchTypes
    <2>6. rec.pc \notin Judging \cup Waiting
        BY <2>1 DEF Judging, Waiting
    <2>7. ASSUME excused' # Chrome
          PROVE  /\ \A d \in LaunchCaller : op[d].pc \in Ensuring => ensuring' = d
                 /\ \A p \in Chrome : ~Alive(p)'
        <3>1. InOrder
            BY <1>2, <2>7 DEF LaunchInv
        <3>2. \A p \in Chrome : Alive(p)' => Awaits(c, p)
            BY <1>2, <1>3, <1>4, <3>1 DEF InOrder, Fading, Awaits
        <3> QED BY <1>4, <1>6, <3>1, <3>2 DEF InOrder
    <2> QED BY <1>2, <1>3, <1>4, <2>1, <2>2, <2>5, <2>6, <2>7, CallerKeepsLaunch
<1> QED BY <1>5, <1>6 DEF LaunchTimesOut

\* The launch has been judged.
LEMMA JudgedKeeps ==
    ASSUME LaunchInv, NEW c \in LaunchCaller, Ready(c) \/ NotReady(c) \/ NotReachable(c)
    PROVE  LaunchInv'
<1>1. LaunchTypes /\ FlagTypes /\ op[c] \in LaunchOp
    BY DEF LaunchInv, LaunchTypes
<1>2. op[c].pc \in {"ready", "check"} /\ Done(c) /\ Counts /\ UNCHANGED <<reconcile, excused>>
    BY DEF Ready, NotReady, NotReachable, OpAt, Counts
<1>3. \A p \in Chrome : ~Awaits(c, p)
    BY <1>2 DEF Awaits
<1>4. CASE chrome' = chrome /\ running' = running
    <2>1. chrome' \in [Chrome -> Life] /\ running' \in Chrome \cup {NoChrome} /\ Fading
        BY <1>1, <1>4, StillFading DEF LaunchTypes
    <2> QED BY <1>2, <1>3, <1>4, <2>1, DoneKeeps
<1>5. CASE NotReady(c)
    <2>1. Kill(op[c].chrome) /\ running' = NoChrome
        BY <1>5 DEF NotReady
    <2>2. op[c].chrome \in Chrome /\ op[c].pc \in Judging
        BY <1>2 DEF LaunchInv, OpsOK, Judging
    <2>3. /\ chrome' \in [Chrome -> Life] /\ Fading
          /\ \A p \in Chrome : p = op[c].chrome => ~Alive(p)'
        <3>1. ASSUME NEW p \in Chrome, p = op[c].chrome
              PROVE  chrome' \in [Chrome -> Life] /\ Fading /\ ~Alive(p)'
            <4>1. Kill(p)
                BY <2>1, <3>1
            <4> QED BY <1>1, <4>1, KillFades
        <3> QED BY <2>2, <3>1
    <2>4. excused # Chrome => \A p \in Chrome : ~Alive(p)'
        BY <2>2, <2>3 DEF LaunchInv, InOrder, Fading
    <2> QED BY <1>2, <1>3, <2>1, <2>3, <2>4, DoneKeeps
<1>6. Ready(c) \/ NotReachable(c) => chrome' = chrome /\ running' = running
    BY DEF Ready, NotReachable
<1> QED BY <1>4, <1>5, <1>6

LEMMA LaunchSteps == LaunchInv /\ [LaunchNext]_launchVars => LaunchInv'
<1> SUFFICES ASSUME LaunchInv, [LaunchNext]_launchVars PROVE LaunchInv'
    OBVIOUS
<1>1. CASE UNCHANGED <<chrome, running, ensuring, op, excused, failures>>
           /\ cooling' \in {cooling, FALSE} /\ reconcile' \in {reconcile, TRUE}
    <2>1. FlagTypes'
        <3>1. FlagTypes
            BY DEF LaunchInv, LaunchTypes
        <3>2. reconcile' \in BOOLEAN
            BY <1>1, <3>1, Zenon DEF FlagTypes
        <3>3. cooling' \in BOOLEAN /\ (cooling' => cooling)
            <4>1. cooling \in BOOLEAN
                BY <3>1, Zenon DEF FlagTypes
            <4>2. CASE cooling' = cooling
                BY <4>1, <4>2
            <4>3. CASE cooling' = FALSE
                BY <4>3
            <4> QED BY <1>1, <4>2, <4>3
        <3>4. /\ ensuring' \in LaunchCaller \cup {NoCaller}
              /\ failures' \in 0..LaunchThreshold
              /\ cooling => failures' = LaunchThreshold
            BY <1>1, <3>1 DEF FlagTypes
        <3> QED BY <3>2, <3>3, <3>4, Zenon DEF FlagTypes
    <2>2. LaunchTypes'
        BY <1>1, <2>1 DEF LaunchInv, LaunchTypes
    <2>3. OnePort' /\ OpsOK' /\ (excused' # Chrome => InOrder')
        BY <1>1 DEF LaunchInv, OnePort, InPort, OpsOK, Gone, InOrder, Alive, Awaits
    <2> QED BY <2>2, <2>3 DEF LaunchInv
<1>2. CASE CoolsDown
    BY <1>1, <1>2 DEF CoolsDown
<1>3. CASE Reload
    BY <1>1, <1>3 DEF Reload, failureVars
<1>4. CASE UNCHANGED launchVars
    BY <1>1, <1>4 DEF launchVars
<1>5. CASE \E p \in Chrome : ComesUp(p) \/ Dies(p) \/ Falters(p) \/ Reap(p)
    BY <1>5, ProcessesKeepLaunch
<1>6. ASSUME NEW c \in LaunchCaller,
             \/ StopBrowser(c) \/ StopEnds(c) \/ Reset(c) \/ ResetStops(c)
             \/ Ensure(c) \/ Stopped(c) \/ Probe(c) \/ ProbeAgain(c) \/ ProbeWs(c) \/ Launch(c)
             \/ \E p \in Chrome : Spawn(c, p)
             \/ Attach(c) \/ LaunchTimesOut(c) \/ Ready(c) \/ NotReady(c) \/ NotReachable(c)
      PROVE  LaunchInv'
    BY <1>6, StopBrowserKeeps, WaitsEnd, ResetKeeps, EnsureKeeps, ProbeKeeps, LaunchKeeps,
       SpawnKeeps, AttachKeeps, LaunchTimesOutKeeps, JudgedKeeps
<1> QED BY <1>2, <1>3, <1>4, <1>5, <1>6 DEF LaunchNext

\* Chrome processes, the profile and its callers keep their types, and one process at
\* most holds the port.
THEOREM LaunchTypeCorrect == LaunchSpec => []LaunchTypeOK
<1>1. LaunchInv => LaunchTypeOK
    <2> SUFFICES ASSUME LaunchInv PROVE LaunchTypeOK
        OBVIOUS
    <2>1. LaunchTypes /\ FlagTypes /\ OnePort
        BY DEF LaunchInv, LaunchTypes
    <2>2. Cardinality({p \in Chrome : InPort(p)}) <= 1
        <3>1. IsFiniteSet({p \in Chrome : InPort(p)})
            BY LaunchAssumption, FS_Subset
        <3> QED BY <2>1, <3>1, AtMostOne DEF OnePort
    <2> QED BY <2>1, <2>2 DEF LaunchTypes, FlagTypes, LaunchOp, LaunchTypeOK
<1> QED BY <1>1, LaunchStart, LaunchSteps, PTL DEF LaunchSpec

\* No Chrome that lives is out of reach of stop and reset, but for those that a forgotten
\* ensure or a late stop excuses.
THEOREM NoneIsOrphaned == LaunchSpec => []NoChromeOrphaned
<1>1. LaunchInv => NoChromeOrphaned
    <2> SUFFICES ASSUME LaunchInv, NEW p \in Chrome, Alive(p)
                 PROVE  \/ running = p \/ p \in excused
                        \/ \E c \in LaunchCaller : Holds(c, p)
        BY DEF NoChromeOrphaned
    <2>1. CASE excused = Chrome
        BY <2>1
    <2>2. CASE excused # Chrome
        BY <2>2 DEF LaunchInv, InOrder, Awaits, Holds
    <2> QED BY <2>1, <2>2
<1> QED BY <1>1, LaunchStart, LaunchSteps, PTL DEF LaunchSpec

(***************************************************************************)
(* TabAliases: the labels of the tabs                                      *)
(***************************************************************************)
TabsRead == UNION {[S -> TabUrl] : S \in SUBSET TabTarget}
TabCallRecord == [pc : {"idle", "read", "opened", "focusing"}, tabs : TabsRead,
                  tab : TabTarget \cup {NoTarget}]

AliasTypes ==
    /\ page \in [TabTarget -> TabUrl \cup {Unborn, Shut}]
    /\ DOMAIN byTargetId \subseteq TabTarget
    /\ \A t \in DOMAIN byTargetId : byTargetId[t] \in Alias
    /\ lastTarget \in TabTarget \cup {NoTarget}
    /\ tabCalls \in [TabCaller -> TabCallRecord]
    /\ named \in [TabLabel -> TabTarget \cup {NoTarget}]
    /\ overlooked \subseteq TabTarget

\* A tab that is listed, opened, resolved or labelled has been there: it does not appear
\* any more.
SeenAreBorn ==
    /\ \A c \in TabCaller : /\ \A t \in DOMAIN tabCalls[c].tabs : page[t] # Unborn
                            /\ tabCalls[c].pc = "opened" =>
                                 tabCalls[c].tab \in TabTarget /\ page[tabCalls[c].tab] # Unborn
    /\ \A l \in TabLabel : named[l] # NoTarget => page[named[l]] # Unborn

AliasInv == AliasTypes /\ SeenAreBorn /\ LabelSticks

LEMMA ReadTabs ==
    ASSUME NEW f \in TabsRead
    PROVE  DOMAIN f \subseteq TabTarget /\ \A t \in DOMAIN f : f[t] \in TabUrl
BY DEF TabsRead

LEMMA AreTabsRead ==
    ASSUME NEW S \in SUBSET TabTarget, NEW f \in [S -> TabUrl]
    PROVE  f \in TabsRead
BY DEF TabsRead

LEMMA NothingRead == NoTabs \in TabsRead /\ NoTabCall \in TabCallRecord /\ DOMAIN NoTabs = {}
<1>1. NoTabs \in [{} -> TabUrl] /\ DOMAIN NoTabs = {}
    BY DEF NoTabs
<1>2. NoTabs \in TabsRead
    BY <1>1, AreTabsRead
<1> QED BY <1>1, <1>2 DEF NoTabCall, TabCallRecord

LEMMA AliasStart == AliasInit => AliasInv
<1> SUFFICES ASSUME AliasInit PROVE AliasInv
    OBVIOUS
<1>1. tabCalls \in [TabCaller -> TabCallRecord]
    BY NothingRead DEF AliasInit
<1>2. AliasTypes
    BY <1>1 DEF AliasInit, AliasTypes
<1>3. SeenAreBorn
    BY NothingRead DEF AliasInit, SeenAreBorn, NoTabCall
<1>4. LabelSticks
    BY AliasAssumption DEF AliasInit, LabelSticks, OpenTabs
<1> QED BY <1>2, <1>3, <1>4 DEF AliasInv

\* A step of the browser: what was seen stays so, and only a page not seen before is new.
LEMMA PagesKeepAlias ==
    ASSUME AliasInv, NEW t \in TabTarget, NEW life \in TabUrl \cup {Shut},
           page' = [page EXCEPT ![t] = life], life \in TabUrl => page[t] \in TabUrl \cup {Unborn},
           UNCHANGED <<byTargetId, lastTarget, tabCalls, named, overlooked>>
    PROVE  AliasInv'
<1>1. AliasTypes /\ SeenAreBorn /\ LabelSticks
    BY DEF AliasInv
<1>2. /\ page' \in [TabTarget -> TabUrl \cup {Unborn, Shut}] /\ page'[t] = life
      /\ \A u \in TabTarget : u # t => page'[u] = page[u]
    BY <1>1 DEF AliasTypes
<1>3. \A u \in TabTarget : page[u] # Unborn => page'[u] # Unborn /\ (u \in OpenTabs' => u \in OpenTabs)
    BY <1>2, AliasAssumption DEF OpenTabs
<1>4. AliasTypes'
    BY <1>1, <1>2 DEF AliasTypes
<1>5. \A c \in TabCaller : DOMAIN tabCalls[c].tabs \subseteq TabTarget
    BY <1>1, ReadTabs DEF AliasTypes, TabCallRecord
<1>6. SeenAreBorn'
    BY <1>1, <1>3, <1>5 DEF SeenAreBorn, AliasTypes
<1>7. LabelSticks'
    <2> SUFFICES ASSUME NEW l \in TabLabel, named[l] \in OpenTabs' \ overlooked
                 PROVE  /\ named[l] \in DOMAIN byTargetId
                        /\ {u \in DOMAIN byTargetId : byTargetId[u].label = l} = {named[l]}
        BY DEF LabelSticks
    <2>1. named[l] \in TabTarget /\ named[l] # NoTarget
        BY AliasAssumption DEF OpenTabs
    <2>2. named[l] \in OpenTabs \ overlooked
        BY <1>1, <1>3, <2>1 DEF SeenAreBorn
    <2> QED BY <1>1, <2>2 DEF LabelSticks
<1> QED BY <1>4, <1>6, <1>7 DEF AliasInv

LEMMA BrowserKeepsAlias ==
    ASSUME AliasInv, NEW t \in TabTarget, NEW url \in TabUrl,
           Goes(t) \/ Navigates(t, url) \/ Appears(t, url)
    PROVE  AliasInv'
<1>1. CASE Goes(t)
    BY <1>1, PagesKeepAlias, AliasAssumption DEF Goes
<1>2. CASE Navigates(t, url) \/ Appears(t, url)
    BY <1>2, PagesKeepAlias, AliasAssumption DEF Navigates, Appears, OpenTabs
<1> QED BY <1>1, <1>2

\* A step of call c: what it lists or has opened has been there.
LEMMA CallKeepsAlias ==
    ASSUME AliasInv, NEW c \in TabCaller, NEW rec \in TabCallRecord,
           tabCalls' = [tabCalls EXCEPT ![c] = rec], page' = page,
           DOMAIN byTargetId' \subseteq TabTarget,
           \A t \in DOMAIN byTargetId' : byTargetId'[t] \in Alias,
           lastTarget' \in TabTarget \cup {NoTarget},
           named' \in [TabLabel -> TabTarget \cup {NoTarget}],
           overlooked' \subseteq TabTarget,
           \A t \in DOMAIN rec.tabs : page[t] # Unborn,
           rec.pc # "opened",
           \A l \in TabLabel : named'[l] # named[l] /\ named'[l] # NoTarget
                                 => page[named'[l]] # Unborn,
           LabelSticks'
    PROVE  AliasInv'
<1>1. AliasTypes /\ SeenAreBorn
    BY DEF AliasInv
<1>2. /\ tabCalls' \in [TabCaller -> TabCallRecord] /\ tabCalls'[c] = rec
      /\ \A d \in TabCaller : d # c => tabCalls'[d] = tabCalls[d]
    BY <1>1 DEF AliasTypes
<1>3. AliasTypes'
    BY <1>1, <1>2 DEF AliasTypes
<1>4. SeenAreBorn'
    <2>1. ASSUME NEW d \in TabCaller
          PROVE  /\ \A t \in DOMAIN tabCalls'[d].tabs : page'[t] # Unborn
                 /\ tabCalls'[d].pc = "opened" =>
                      tabCalls'[d].tab \in TabTarget /\ page'[tabCalls'[d].tab] # Unborn
        <3>1. CASE d = c
            BY <1>2, <3>1
        <3>2. CASE d # c
            BY <1>1, <1>2, <3>2 DEF SeenAreBorn
        <3> QED BY <3>1, <3>2
    <2>2. \A l \in TabLabel : named'[l] # NoTarget => page'[named'[l]] # Unborn
        BY <1>1 DEF SeenAreBorn
    <2> QED BY <2>1, <2>2 DEF SeenAreBorn
<1> QED BY <1>3, <1>4 DEF AliasInv

\* Labels stay where they are when the aliases and the ghosts do.
LEMMA SticksAgain ==
    ASSUME LabelSticks, UNCHANGED <<page, byTargetId, named, overlooked>>
    PROVE  LabelSticks'
BY DEF LabelSticks, OpenTabs

LEMMA QuietCallsKeepAlias ==
    ASSUME AliasInv, NEW c \in TabCaller, Begin(c) \/ Focused(c) \/ Throws(c)
    PROVE  AliasInv'
<1>1. AliasTypes /\ SeenAreBorn /\ LabelSticks
    BY DEF AliasInv
<1>2. UNCHANGED <<page, byTargetId, named, overlooked>>
    BY DEF Begin, Focused, Throws
<1>3. lastTarget' \in TabTarget \cup {NoTarget}
    BY <1>1 DEF Begin, Focused, Throws, AliasTypes, OpenTabs
<1>4. LabelSticks'
    BY <1>1, <1>2, SticksAgain
<1>5. CASE tabCalls' = [tabCalls EXCEPT ![c] = NoTabCall]
    <2>1. NoTabCall \in TabCallRecord /\ DOMAIN NoTabCall.tabs = {} /\ NoTabCall.pc # "opened"
        BY NothingRead DEF NoTabCall
    <2> QED BY <1>1, <1>2, <1>3, <1>4, <1>5, <2>1, CallKeepsAlias DEF AliasTypes
<1>6. CASE Begin(c)
    <2> DEFINE rec == [tabCalls[c] EXCEPT !.pc = "read", !.tabs = Listing]
    <2>1. tabCalls[c] \in TabCallRecord
        BY <1>1 DEF AliasTypes
    <2>2. /\ Listing \in TabsRead /\ DOMAIN Listing = OpenTabs
          /\ OpenTabs \subseteq TabTarget /\ \A t \in OpenTabs : page[t] \in TabUrl
        <3>1. OpenTabs \in SUBSET TabTarget /\ \A t \in OpenTabs : page[t] \in TabUrl
            BY DEF OpenTabs
        <3>2. Listing \in [OpenTabs -> TabUrl] /\ DOMAIN Listing = OpenTabs
            BY <3>1 DEF Listing
        <3>3. Listing \in TabsRead
            BY <3>1, <3>2, AreTabsRead
        <3> QED BY <3>1, <3>2, <3>3
    <2>3. rec \in TabCallRecord /\ rec.pc = "read" /\ rec.tabs = Listing
        BY <2>1, <2>2 DEF TabCallRecord
    <2>4. tabCalls' = [tabCalls EXCEPT ![c] = rec]
        BY <1>1, <1>6, <2>1 DEF Begin, AliasTypes, TabCallRecord
    <2> HIDE DEF rec
    <2>5. \A t \in DOMAIN rec.tabs : page[t] # Unborn
        BY <2>2, <2>3, AliasAssumption
    <2> QED BY <1>1, <1>2, <1>3, <1>4, <2>3, <2>4, <2>5, CallKeepsAlias DEF AliasTypes
<1> QED BY <1>5, <1>6 DEF Focused, Throws, Leave

LEMMA OpensKeepsAlias ==
    ASSUME AliasInv, NEW c \in TabCaller, NEW t \in TabTarget, NEW url \in TabUrl, Opens(c, t, url)
    PROVE  AliasInv'
<1>1. AliasTypes /\ SeenAreBorn /\ LabelSticks
    BY DEF AliasInv
<1>2. /\ page[t] = Unborn /\ page' = [page EXCEPT ![t] = url] /\ lastTarget' = t
      /\ UNCHANGED <<byTargetId, named, overlooked>>
    BY DEF Opens
<1>3. /\ page' \in [TabTarget -> TabUrl \cup {Unborn, Shut}] /\ page'[t] = url
      /\ \A u \in TabTarget : u # t => page'[u] = page[u]
    BY <1>1, <1>2 DEF AliasTypes
<1>4. \A u \in TabTarget : page[u] # Unborn => page'[u] # Unborn /\ (u \in OpenTabs' => u \in OpenTabs)
    BY <1>2, <1>3, AliasAssumption DEF OpenTabs
<1> DEFINE rec == [tabCalls[c] EXCEPT !.pc = "opened", !.tab = t]
<1>5. tabCalls[c] \in TabCallRecord
    BY <1>1 DEF AliasTypes
<1>6. /\ rec \in TabCallRecord /\ rec.pc = "opened" /\ rec.tab = t
      /\ rec.tabs = tabCalls[c].tabs
    BY <1>5 DEF TabCallRecord
<1>7. tabCalls' = [tabCalls EXCEPT ![c] = rec]
    BY <1>1, <1>5 DEF Opens, AliasTypes, TabCallRecord
<1> HIDE DEF rec
<1>8. /\ tabCalls' \in [TabCaller -> TabCallRecord] /\ tabCalls'[c] = rec
      /\ \A d \in TabCaller : d # c => tabCalls'[d] = tabCalls[d]
    BY <1>1, <1>6, <1>7 DEF AliasTypes
<1>9. AliasTypes'
    BY <1>1, <1>2, <1>3, <1>8 DEF AliasTypes
<1>10. \A d \in TabCaller : DOMAIN tabCalls[d].tabs \subseteq TabTarget
    BY <1>1, ReadTabs DEF AliasTypes, TabCallRecord
<1>11. SeenAreBorn'
    <2>1. ASSUME NEW d \in TabCaller
          PROVE  /\ \A u \in DOMAIN tabCalls'[d].tabs : page'[u] # Unborn
                 /\ tabCalls'[d].pc = "opened" =>
                      tabCalls'[d].tab \in TabTarget /\ page'[tabCalls'[d].tab] # Unborn
        <3>1. CASE d = c
            BY <1>1, <1>3, <1>4, <1>6, <1>8, <1>10, <3>1, AliasAssumption DEF SeenAreBorn
        <3>2. CASE d # c
            BY <1>1, <1>4, <1>8, <1>10, <3>2 DEF SeenAreBorn
        <3> QED BY <3>1, <3>2
    <2>2. \A l \in TabLabel : named'[l] # NoTarget => page'[named'[l]] # Unborn
        BY <1>1, <1>2, <1>4 DEF SeenAreBorn, AliasTypes
    <2> QED BY <2>1, <2>2 DEF SeenAreBorn
<1>12. LabelSticks'
    <2> SUFFICES ASSUME NEW l \in TabLabel, named[l] \in OpenTabs' \ overlooked
                 PROVE  /\ named[l] \in DOMAIN byTargetId
                        /\ {u \in DOMAIN byTargetId : byTargetId[u].label = l} = {named[l]}
        BY <1>2 DEF LabelSticks
    <2>1. named[l] \in TabTarget /\ named[l] # NoTarget
        BY AliasAssumption DEF OpenTabs
    <2>2. named[l] \in OpenTabs \ overlooked
        BY <1>1, <1>4, <2>1 DEF SeenAreBorn
    <2> QED BY <1>1, <2>2 DEF LabelSticks
<1> QED BY <1>9, <1>11, <1>12 DEF AliasInv

\* Aliases of tabs, and labels in them where they were last given.
AreAliases(by) == DOMAIN by \subseteq TabTarget /\ \A t \in DOMAIN by : by[t] \in Alias
SticksIn(by, names, excuses) ==
    \A l \in TabLabel : names[l] \in OpenTabs \ excuses =>
        /\ names[l] \in DOMAIN by
        /\ \A u \in DOMAIN by : by[u].label = l <=> u = names[l]

LEMMA LabelSticksIn ==
    /\ LabelSticks => SticksIn(byTargetId, named, overlooked)
    /\ page' = page /\ SticksIn(byTargetId', named', overlooked') => LabelSticks'
<1>1. ASSUME LabelSticks, NEW l \in TabLabel, named[l] \in OpenTabs \ overlooked
      PROVE  /\ named[l] \in DOMAIN byTargetId
             /\ \A u \in DOMAIN byTargetId : byTargetId[u].label = l <=> u = named[l]
    <2>1. {u \in DOMAIN byTargetId : byTargetId[u].label = l} = {named[l]}
        BY <1>1 DEF LabelSticks
    <2> QED BY <2>1
<1>2. ASSUME page' = page, SticksIn(byTargetId', named', overlooked'),
             NEW l \in TabLabel, named'[l] \in OpenTabs' \ overlooked'
      PROVE  /\ named'[l] \in DOMAIN byTargetId'
             /\ {u \in DOMAIN byTargetId' : byTargetId'[u].label = l} = {named'[l]}
    <2>1. OpenTabs' = OpenTabs
        BY <1>2 DEF OpenTabs
    <2>2. /\ named'[l] \in DOMAIN byTargetId'
          /\ \A u \in DOMAIN byTargetId' : byTargetId'[u].label = l <=> u = named'[l]
        BY <1>2, <2>1 DEF SticksIn
    <2> QED BY <2>2
<1> QED BY <1>1, <1>2 DEF LabelSticks, SticksIn

\* A label given to a tab is on it and on no other, and the others stay.
LEMMA LabelGiven ==
    ASSUME NEW by, AreAliases(by), NEW t \in TabTarget, NEW url \in TabUrl, NEW l \in TabLabel,
           NEW excuses, SticksIn(by, named, excuses), named \in [TabLabel -> TabTarget \cup {NoTarget}]
    PROVE  /\ AreAliases(AssignAlias(by, t, url, l))
           /\ Naming(t, l) \in [TabLabel -> TabTarget \cup {NoTarget}]
           /\ \A k \in TabLabel : Naming(t, l)[k] \in {t, NoTarget, named[k]}
           /\ SticksIn(AssignAlias(by, t, url, l), Naming(t, l), excuses \ {t})
<1> DEFINE by2 == AssignAlias(by, t, url, l)
           names == Naming(t, l)
<1>1. /\ DOMAIN by2 = (DOMAIN by) \cup {t}
      /\ \A u \in DOMAIN by2 :
           by2[u] = IF u # t THEN IF by[u].label = l THEN [by[u] EXCEPT !.label = NoLabel] ELSE by[u]
                    ELSE [label |-> l, url |-> url]
    BY AliasAssumption DEF AssignAlias
<1>2. /\ names \in [TabLabel -> TabTarget \cup {NoTarget}]
      /\ \A k \in TabLabel : names[k] = IF k = l THEN t ELSE IF named[k] = t THEN NoTarget ELSE named[k]
    BY DEF Naming
<1> HIDE DEF by2, names
<1>3. ASSUME NEW u \in DOMAIN by2
      PROVE  /\ by2[u] \in Alias
             /\ u = t => by2[u].label = l
             /\ u # t => by2[u].label = IF by[u].label = l THEN NoLabel ELSE by[u].label
    <2>1. CASE u = t
        <3>1. by2[u] = [label |-> l, url |-> url]
            BY <1>1, <2>1
        <3> QED BY <2>1, <3>1 DEF Alias
    <2>2. CASE u # t
        <3>1. u \in DOMAIN by /\ by[u] \in Alias
            BY <1>1, <2>2 DEF AreAliases
        <3>2. [by[u] EXCEPT !.label = NoLabel] \in Alias
              /\ [by[u] EXCEPT !.label = NoLabel].label = NoLabel
            BY <3>1 DEF Alias
        <3>3. by2[u] = IF by[u].label = l THEN [by[u] EXCEPT !.label = NoLabel] ELSE by[u]
            BY <1>1, <2>2
        <3>4. CASE by[u].label = l
            BY <2>2, <3>2, <3>3, <3>4
        <3>5. CASE by[u].label # l
            BY <2>2, <3>1, <3>3, <3>5
        <3> QED BY <3>4, <3>5
    <2> QED BY <2>1, <2>2
<1>4. AreAliases(by2)
    BY <1>1, <1>3 DEF AreAliases
<1>5. SticksIn(by2, names, excuses \ {t})
    <2> SUFFICES ASSUME NEW k \in TabLabel, names[k] \in OpenTabs \ (excuses \ {t})
                 PROVE  /\ names[k] \in DOMAIN by2
                        /\ \A u \in DOMAIN by2 : by2[u].label = k <=> u = names[k]
        BY DEF SticksIn
    <2>1. CASE k = l
        <3>1. names[k] = t
            BY <1>2, <2>1
        <3>2. \A u \in DOMAIN by2 : by2[u].label = k <=> u = t
            BY <1>3, <2>1, AliasAssumption
        <3> QED BY <1>1, <3>1, <3>2
    <2>2. CASE k # l
        <3>1. names[k] = named[k] /\ named[k] # t
            BY <1>2, <2>2, AliasAssumption DEF OpenTabs
        <3>2. named[k] \in DOMAIN by /\ \A u \in DOMAIN by : by[u].label = k <=> u = named[k]
            BY <3>1 DEF SticksIn
        <3>3. ASSUME NEW u \in DOMAIN by2 PROVE by2[u].label = k <=> u = named[k]
            <4>1. CASE u = t
                BY <1>3, <2>2, <3>1, <4>1
            <4>2. CASE u # t
                <5>1. u \in DOMAIN by
                    BY <1>1, <4>2
                <5> QED BY <1>3, <2>2, <3>2, <4>2, <5>1, AliasAssumption
            <4> QED BY <4>1, <4>2
        <3> QED BY <1>1, <3>1, <3>2, <3>3
    <2> QED BY <2>1, <2>2
<1> QED BY <1>2, <1>4, <1>5 DEF by2, names

\* An alias without a label of its own leaves the labels where they are.
LEMMA NoLabelGiven ==
    ASSUME NEW by, AreAliases(by), NEW t \in TabTarget, NEW url \in TabUrl,
           NEW excuses, SticksIn(by, named, excuses)
    PROVE  /\ AreAliases(AssignAlias(by, t, url, NoLabel))
           /\ SticksIn(AssignAlias(by, t, url, NoLabel), named, excuses)
<1> DEFINE by2 == AssignAlias(by, t, url, NoLabel)
<1>1. /\ DOMAIN by2 = (DOMAIN by) \cup {t}
      /\ \A u \in DOMAIN by2 :
           by2[u] = IF u # t THEN by[u]
                    ELSE [label |-> IF t \in DOMAIN by THEN by[t].label ELSE NoLabel, url |-> url]
    BY DEF AssignAlias
<1> HIDE DEF by2
<1>2. ASSUME NEW u \in DOMAIN by2
      PROVE  /\ by2[u] \in Alias
             /\ by2[u].label = IF u \in DOMAIN by THEN by[u].label ELSE NoLabel
    <2>1. CASE u # t
        BY <1>1, <2>1 DEF AreAliases
    <2>2. CASE u = t /\ t \in DOMAIN by
        <3>1. by[t].label \in TabLabel \cup {NoLabel}
            BY <2>2 DEF AreAliases, Alias
        <3>2. by2[u] = [label |-> by[t].label, url |-> url]
            BY <1>1, <2>2
        <3> QED BY <2>2, <3>1, <3>2 DEF Alias
    <2>3. CASE u = t /\ t \notin DOMAIN by
        <3>1. by2[u] = [label |-> NoLabel, url |-> url]
            BY <1>1, <2>3
        <3> QED BY <2>3, <3>1 DEF Alias
    <2> QED BY <2>1, <2>2, <2>3
<1>3. AreAliases(by2)
    BY <1>1, <1>2 DEF AreAliases
<1>4. SticksIn(by2, named, excuses)
    <2> SUFFICES ASSUME NEW k \in TabLabel, named[k] \in OpenTabs \ excuses
                 PROVE  /\ named[k] \in DOMAIN by2
                        /\ \A u \in DOMAIN by2 : by2[u].label = k <=> u = named[k]
        BY DEF SticksIn
    <2>1. named[k] \in DOMAIN by /\ \A u \in DOMAIN by : by[u].label = k <=> u = named[k]
        BY DEF SticksIn
    <2> QED BY <1>1, <1>2, <2>1, AliasAssumption
<1> QED BY <1>3, <1>4 DEF by2

LEMMA OpenedKeepsAlias ==
    ASSUME AliasInv, NEW c \in TabCaller, Opened(c)
    PROVE  AliasInv'
<1> DEFINE t == tabCalls[c].tab
<1>1. AliasTypes /\ SeenAreBorn /\ SticksIn(byTargetId, named, overlooked) /\ AreAliases(byTargetId)
    BY LabelSticksIn DEF AliasInv, AliasTypes, AreAliases
<1>2. t \in TabTarget /\ page[t] # Unborn
    BY <1>1 DEF Opened, SeenAreBorn
<1>3. UNCHANGED <<page, lastTarget>> /\ tabCalls' = [tabCalls EXCEPT ![c] = NoTabCall]
    BY DEF Opened, Leave
<1>4. PICK url \in TabUrl, l \in TabLabel \cup {NoLabel} :
         /\ byTargetId' = AssignAlias(byTargetId, t, url, l)
         /\ IF l = NoLabel THEN UNCHANGED <<named, overlooked>>
            ELSE named' = Naming(t, l) /\ overlooked' = overlooked \ {t}
    BY DEF Opened
<1> HIDE DEF t
<1>5. named \in [TabLabel -> TabTarget \cup {NoTarget}] /\ overlooked \subseteq TabTarget
    BY <1>1 DEF AliasTypes
<1>6. /\ AreAliases(byTargetId') /\ named' \in [TabLabel -> TabTarget \cup {NoTarget}]
      /\ \A k \in TabLabel : named'[k] \in {t, NoTarget, named[k]}
      /\ SticksIn(byTargetId', named', overlooked') /\ overlooked' \subseteq TabTarget
    <2>1. CASE l = NoLabel
        BY <1>1, <1>2, <1>4, <1>5, <2>1, NoLabelGiven
    <2>2. CASE l # NoLabel
        <3>1. l \in TabLabel /\ byTargetId' = AssignAlias(byTargetId, t, url, l)
              /\ named' = Naming(t, l) /\ overlooked' = overlooked \ {t}
            BY <1>4, <2>2
        <3>2. /\ AreAliases(AssignAlias(byTargetId, t, url, l))
              /\ Naming(t, l) \in [TabLabel -> TabTarget \cup {NoTarget}]
              /\ \A k \in TabLabel : Naming(t, l)[k] \in {t, NoTarget, named[k]}
              /\ SticksIn(AssignAlias(byTargetId, t, url, l), Naming(t, l), overlooked \ {t})
            BY <1>1, <1>2, <1>5, <3>1, LabelGiven
        <3>3. overlooked' \subseteq TabTarget
            BY <1>5, <3>1
        <3> QED BY <3>1, <3>2, <3>3, Zenon
    <2> QED BY <2>1, <2>2
<1>7. LabelSticks'
    BY <1>3, <1>6, LabelSticksIn
<1>8. NoTabCall \in TabCallRecord /\ DOMAIN NoTabCall.tabs = {} /\ NoTabCall.pc # "opened"
    BY NothingRead DEF NoTabCall
<1> QED BY <1>1, <1>2, <1>3, <1>6, <1>7, <1>8, CallKeepsAlias DEF AliasTypes, AreAliases

\* A replacement moves aliases of tabs that are not listed to tabs that have none.
LEMMA ReplacesStale ==
    ASSUME NEW tabs, NEW m \in Replacements(tabs)
    PROVE  /\ DOMAIN m \subseteq (DOMAIN byTargetId) \ (DOMAIN tabs)
           /\ \A a \in DOMAIN m : m[a] \in (DOMAIN tabs) \ (DOMAIN byTargetId)
<1>1. PICK S \in SUBSET StaleIds(tabs) : m \in [S -> NewIds(tabs)]
    BY DEF Replacements
<1> QED BY <1>1 DEF StaleIds, NewIds

\* An applied listing keeps every label on its tab, if that tab is open and listed.
LEMMA ListingApplied ==
    ASSUME AliasInv, NEW tabs \in TabsRead, NEW m \in Replacements(tabs)
    PROVE  /\ DOMAIN AssignAliases(tabs, m) = DOMAIN tabs
           /\ AreAliases(AssignAliases(tabs, m))
           /\ Missed(tabs) \subseteq TabTarget
           /\ SticksIn(AssignAliases(tabs, m), named, Missed(tabs))
<1> DEFINE by == AssignAliases(tabs, m)
           Label(t) == IF \E a \in DOMAIN m : m[a] = t
                         THEN byTargetId[CHOOSE a \in DOMAIN m : m[a] = t].label
                       ELSE IF t \in DOMAIN byTargetId THEN byTargetId[t].label ELSE NoLabel
<1>1. AreAliases(byTargetId) /\ SticksIn(byTargetId, named, overlooked) /\ overlooked \subseteq TabTarget
    BY LabelSticksIn DEF AliasInv, AliasTypes, AreAliases
<1>2. DOMAIN tabs \subseteq TabTarget /\ \A t \in DOMAIN tabs : tabs[t] \in TabUrl
    BY ReadTabs
<1>3. /\ DOMAIN m \subseteq (DOMAIN byTargetId) \ (DOMAIN tabs)
      /\ \A a \in DOMAIN m : m[a] \in (DOMAIN tabs) \ (DOMAIN byTargetId)
    BY ReplacesStale
<1>4. DOMAIN by = DOMAIN tabs /\ \A t \in DOMAIN tabs : by[t] = [label |-> Label(t), url |-> tabs[t]]
    BY DEF AssignAliases
<1> HIDE DEF by
<1>5. ASSUME NEW t \in DOMAIN tabs
      PROVE  \/ t \in DOMAIN byTargetId /\ Label(t) = byTargetId[t].label
             \/ /\ t \notin DOMAIN byTargetId
                /\ \/ Label(t) = NoLabel
                   \/ \E a \in (DOMAIN byTargetId) \ (DOMAIN tabs) : Label(t) = byTargetId[a].label
    <2>1. CASE \E a \in DOMAIN m : m[a] = t
        <3> DEFINE b == CHOOSE a \in DOMAIN m : m[a] = t
        <3>1. b \in DOMAIN m /\ m[b] = t
            BY <2>1
        <3>2. Label(t) = byTargetId[b].label
            BY <2>1
        <3> HIDE DEF b
        <3>3. b \in (DOMAIN byTargetId) \ (DOMAIN tabs) /\ t \notin DOMAIN byTargetId
            BY <1>3, <3>1
        <3> HIDE DEF Label
        <3> QED BY <3>2, <3>3
    <2>2. CASE ~ \E a \in DOMAIN m : m[a] = t
        BY <2>2
    <2> QED BY <2>1, <2>2
<1> HIDE DEF Label
<1>6. \A t \in DOMAIN tabs : Label(t) \in TabLabel \cup {NoLabel}
    BY <1>1, <1>5 DEF AreAliases, Alias
<1>7. AreAliases(by)
    BY <1>2, <1>4, <1>6 DEF AreAliases, Alias
<1>8. \A t \in DOMAIN tabs : by[t].label = Label(t)
    BY <1>4
<1>9. Missed(tabs) \subseteq TabTarget
    BY <1>1 DEF Missed, OpenTabs
<1>10. SticksIn(by, named, Missed(tabs))
    <2> SUFFICES ASSUME NEW l \in TabLabel, named[l] \in OpenTabs \ Missed(tabs)
                 PROVE  /\ named[l] \in DOMAIN by
                        /\ \A u \in DOMAIN by : by[u].label = l <=> u = named[l]
        BY DEF SticksIn
    <2>1. named[l] \in DOMAIN tabs /\ named[l] \in OpenTabs \ overlooked
        BY DEF Missed
    <2>2. /\ named[l] \in DOMAIN byTargetId
          /\ \A u \in DOMAIN byTargetId : byTargetId[u].label = l <=> u = named[l]
        BY <1>1, <2>1 DEF SticksIn
    <2>3. ASSUME NEW u \in DOMAIN tabs PROVE Label(u) = l <=> u = named[l]
        <3>1. CASE u \in DOMAIN byTargetId
            BY <1>5, <2>2, <3>1
        <3>2. CASE u \notin DOMAIN byTargetId
            BY <1>5, <2>1, <2>2, <3>2, AliasAssumption
        <3> QED BY <3>1, <3>2
    <2> QED BY <1>4, <1>8, <2>1, <2>3
<1> QED BY <1>4, <1>7, <1>9, <1>10 DEF by

LEMMA ApplyKeepsAlias ==
    ASSUME AliasInv, NEW c \in TabCaller, Apply(c)
    PROVE  AliasInv'
<1> DEFINE tabs == tabCalls[c].tabs
<1>1. AliasTypes /\ SeenAreBorn /\ tabCalls[c] \in TabCallRecord
    BY DEF AliasInv, AliasTypes
<1>2. tabs \in TabsRead /\ \A t \in DOMAIN tabs : page[t] # Unborn
    BY <1>1 DEF TabCallRecord, SeenAreBorn
<1>3. DOMAIN tabs \subseteq TabTarget /\ (\A t \in DOMAIN tabs : tabs[t] \in TabUrl) /\ page' = page
    BY <1>2, ReadTabs DEF Apply
<1>4. PICK m \in Replacements(tabs) :
         LET by == AssignAliases(tabs, m)
             last == IF lastTarget \in DOMAIN m THEN m[lastTarget] ELSE lastTarget
         IN \/ /\ byTargetId' = by /\ lastTarget' = last /\ Leave(c)
               /\ overlooked' = Missed(tabs) /\ UNCHANGED named
            \/ /\ lastTarget' \in IF last \in DOMAIN by THEN {last} ELSE DOMAIN by
               /\ byTargetId' = by /\ Leave(c)
               /\ overlooked' = Missed(tabs) /\ UNCHANGED named
            \/ \E t \in Resolved(by) :
                 \/ Labels(t, by, last, tabs) /\ Leave(c)
                 \/ /\ Targets(c, t, by, last)
                    /\ overlooked' = Missed(tabs) /\ UNCHANGED named
    BY DEF Apply
<1> DEFINE by == AssignAliases(tabs, m)
           last == IF lastTarget \in DOMAIN m THEN m[lastTarget] ELSE lastTarget
<1>5. /\ DOMAIN by = DOMAIN tabs /\ AreAliases(by)
      /\ Missed(tabs) \subseteq TabTarget /\ SticksIn(by, named, Missed(tabs))
    BY <1>2, ListingApplied
<1>6. last \in TabTarget \cup {NoTarget}
    BY <1>1, <1>3, ReplacesStale DEF AliasTypes
<1>7. named \in [TabLabel -> TabTarget \cup {NoTarget}]
    BY <1>1 DEF AliasTypes
<1>8. PICK t \in DOMAIN by \cup {NoTarget} :
        \/ /\ byTargetId' = by /\ lastTarget' \in {last} \cup DOMAIN by /\ Leave(c)
           /\ overlooked' = Missed(tabs) /\ named' = named
        \/ t \in DOMAIN by /\ Labels(t, by, last, tabs) /\ Leave(c)
        \/ /\ t \in DOMAIN by /\ Targets(c, t, by, last)
           /\ overlooked' = Missed(tabs) /\ named' = named
    BY <1>4 DEF Resolved
<1> HIDE DEF by, last, tabs
<1>9. NoTabCall \in TabCallRecord /\ DOMAIN NoTabCall.tabs = {} /\ NoTabCall.pc # "opened"
    BY NothingRead DEF NoTabCall
<1>10. CASE /\ byTargetId' = by /\ overlooked' = Missed(tabs) /\ named' = named
            /\ lastTarget' \in TabTarget \cup {NoTarget}
            /\ \E rec \in TabCallRecord :
                  /\ tabCalls' = [tabCalls EXCEPT ![c] = rec]
                  /\ DOMAIN rec.tabs = {} /\ rec.pc # "opened"
    <2>1. LabelSticks'
        BY <1>3, <1>5, <1>10, LabelSticksIn
    <2> QED BY <1>3, <1>5, <1>7, <1>10, <2>1, CallKeepsAlias DEF AreAliases
<1>11. CASE /\ byTargetId' = by /\ lastTarget' \in {last} \cup DOMAIN by /\ Leave(c)
            /\ overlooked' = Missed(tabs) /\ named' = named
    BY <1>3, <1>5, <1>6, <1>9, <1>10, <1>11 DEF Leave
<1>12. CASE t \in DOMAIN by /\ Labels(t, by, last, tabs) /\ Leave(c)
    <2>1. PICK l \in TabLabel : byTargetId' = AssignAlias(by, t, tabs[t], l) /\ named' = Naming(t, l)
        BY <1>12 DEF Labels
    <2>2. overlooked' = Missed(tabs) \ {t} /\ lastTarget' = last
        BY <1>12 DEF Labels
    <2>3. t \in TabTarget /\ tabs[t] \in TabUrl /\ page[t] # Unborn
        BY <1>2, <1>3, <1>5, <1>12
    <2>4. /\ AreAliases(byTargetId') /\ named' \in [TabLabel -> TabTarget \cup {NoTarget}]
          /\ \A k \in TabLabel : named'[k] \in {t, NoTarget, named[k]}
          /\ SticksIn(byTargetId', named', overlooked')
        BY <1>5, <1>7, <2>1, <2>2, <2>3, LabelGiven
    <2>5. LabelSticks'
        BY <1>3, <2>4, LabelSticksIn
    <2> QED BY <1>3, <1>5, <1>6, <1>9, <1>12, <2>2, <2>3, <2>4, <2>5, CallKeepsAlias DEF AreAliases, Leave
<1>13. CASE /\ t \in DOMAIN by /\ Targets(c, t, by, last)
            /\ overlooked' = Missed(tabs) /\ named' = named
    <2>1. byTargetId' = by /\ t \in TabTarget
        BY <1>3, <1>5, <1>13 DEF Targets
    <2>2. CASE lastTarget' = t /\ Leave(c)
        BY <1>9, <1>10, <1>13, <2>1, <2>2 DEF Leave
    <2>3. CASE /\ tabCalls' = [tabCalls EXCEPT ![c] = [NoTabCall EXCEPT !.pc = "focusing", !.tab = t]]
               /\ lastTarget' = last
        <3> DEFINE rec == [NoTabCall EXCEPT !.pc = "focusing", !.tab = t]
        <3>1. rec \in TabCallRecord /\ rec.tabs = NoTabCall.tabs /\ rec.pc = "focusing"
            BY <1>9, <2>1 DEF TabCallRecord
        <3>2. tabCalls' = [tabCalls EXCEPT ![c] = rec]
            BY <2>3
        <3> HIDE DEF rec
        <3> QED BY <1>6, <1>9, <1>10, <1>13, <2>1, <2>3, <3>1, <3>2
    <2> QED BY <1>13, <2>2, <2>3 DEF Targets
<1> QED BY <1>8, <1>11, <1>12, <1>13

LEMMA AliasSteps == AliasInv /\ [AliasNext]_aliasVars => AliasInv'
<1> SUFFICES ASSUME AliasInv, [AliasNext]_aliasVars PROVE AliasInv'
    OBVIOUS
<1>1. CASE UNCHANGED aliasVars
    BY <1>1 DEF aliasVars, AliasInv, AliasTypes, SeenAreBorn, LabelSticks, OpenTabs
<1>2. ASSUME NEW t \in TabTarget,
             Goes(t) \/ \E url \in TabUrl : Navigates(t, url) \/ Appears(t, url)
      PROVE  AliasInv'
    <2>1. CASE Goes(t)
        <3>1. page[t] \in TabUrl
            BY <2>1 DEF Goes, OpenTabs
        <3> QED BY <2>1, <3>1, BrowserKeepsAlias
    <2> QED BY <1>2, <2>1, BrowserKeepsAlias
<1>3. ASSUME NEW c \in TabCaller,
             \/ Begin(c) \/ Apply(c) \/ Focused(c) \/ Throws(c)
             \/ \E t \in TabTarget, url \in TabUrl : Opens(c, t, url)
             \/ Opened(c)
      PROVE  AliasInv'
    BY <1>3, QuietCallsKeepAlias, ApplyKeepsAlias, OpensKeepsAlias, OpenedKeepsAlias
<1> QED BY <1>1, <1>2, <1>3 DEF AliasNext

\* The aliases, the listings that calls hold and what is remembered of tabs keep their types.
THEOREM AliasTypeCorrect == AliasSpec => []AliasTypeOK
<1>1. AliasInv => AliasTypeOK
    <2> SUFFICES ASSUME AliasInv PROVE AliasTypeOK
        OBVIOUS
    <2>1. AliasTypes
        BY DEF AliasInv
    <2>2. \A c \in TabCaller : /\ tabCalls[c].pc \in {"idle", "read", "opened", "focusing"}
                               /\ DOMAIN tabCalls[c].tabs \subseteq TabTarget
                               /\ tabCalls[c].tab \in TabTarget \cup {NoTarget}
        BY <2>1, ReadTabs DEF AliasTypes, TabCallRecord
    <2> QED BY <2>1, <2>2 DEF AliasTypes, AliasTypeOK
<1> QED BY <1>1, AliasStart, AliasSteps, PTL DEF AliasSpec

\* However calls overlap and pages come and go, the label of an open tab is on that tab
\* alone, until a listing from before the tab is applied.
THEOREM LabelsStick == AliasSpec => []LabelSticks
<1>1. AliasInv => LabelSticks
    BY DEF AliasInv
<1> QED BY <1>1, AliasStart, AliasSteps, PTL DEF AliasSpec

(***************************************************************************)
(* SessionTabs: the tabs of the agents' sessions                           *)
(***************************************************************************)
TabsTypes ==
    /\ unopened \subseteq AgentTab /\ open \subseteq AgentTab /\ unclosed \subseteq AgentTab
    /\ arriving \subseteq TabSession \X AgentTab /\ leaving \subseteq TabSession \X AgentTab
    /\ tracked \in [TabSession -> Seq(AgentTab)]
    /\ idle \in [TabSession -> Nat] /\ \A s \in TabSession : idle[s] <= Len(tracked[s])
    /\ closing \in [Closer -> SUBSET AgentTab]

Tool(s, t) == <<s, t>> \in arriving
Registry(s, t) == \E i \in 1..Len(tracked[s]) : tracked[s][i] = t
Pass(k, t) == t \in closing[k]

\* No tab has two keepers, whether it is open or not, and no registry has a tab twice.
NeverTwo ==
    \A t \in AgentTab :
        /\ \A r, s \in TabSession : /\ Tool(r, t) /\ Tool(s, t) => r = s
                                    /\ Registry(r, t) /\ Registry(s, t) => r = s
                                    /\ ~(Tool(r, t) /\ Registry(s, t))
        /\ \A j, k \in Closer : Pass(j, t) /\ Pass(k, t) => j = k
        /\ \A s \in TabSession, k \in Closer : Pass(k, t) => ~Tool(s, t) /\ ~Registry(s, t)
        /\ t \in unclosed => /\ \A s \in TabSession : ~Tool(s, t) /\ ~Registry(s, t)
                             /\ \A k \in Closer : ~Pass(k, t)
TrackedOnce ==
    \A s \in TabSession : \A i, j \in 1..Len(tracked[s]) : tracked[s][i] = tracked[s][j] => i = j
NeverNone ==
    \A t \in open : \/ \E s \in TabSession : Tool(s, t) \/ Registry(s, t)
                    \/ \E k \in Closer : Pass(k, t)
                    \/ t \in unclosed

\* A tab to come has no keeper, and what the tool is about to untrack is closed.
TabsToCome ==
    \A t \in unopened : /\ t \notin open /\ t \notin unclosed
                        /\ \A s \in TabSession : ~Tool(s, t) /\ ~Registry(s, t) /\ <<s, t>> \notin leaving
                        /\ \A k \in Closer : ~Pass(k, t)
LeavingIsClosed == \A s \in TabSession, t \in AgentTab : <<s, t>> \in leaving => t \notin open

TabsInv == TabsTypes /\ NeverTwo /\ TrackedOnce /\ NeverNone /\ TabsToCome /\ LeavingIsClosed

LEMMA TabsStart == TabsInit => TabsInv
<1> SUFFICES ASSUME TabsInit PROVE TabsInv
    OBVIOUS
<1>1. \A s \in TabSession : tracked[s] = <<>> /\ Len(tracked[s]) = 0
    BY DEF TabsInit
<1>2. TabsTypes
    BY <1>1 DEF TabsInit, TabsTypes
<1>3. \A s \in TabSession, t \in AgentTab : ~Tool(s, t) /\ ~Registry(s, t)
    BY <1>1 DEF TabsInit, Tool, Registry
<1>4. \A k \in Closer, t \in AgentTab : ~Pass(k, t)
    BY DEF TabsInit, Pass
<1>5. NeverTwo /\ NeverNone /\ TabsToCome /\ LeavingIsClosed
    BY <1>3, <1>4 DEF TabsInit, NeverTwo, NeverNone, TabsToCome, LeavingIsClosed
<1>6. TrackedOnce
    BY <1>1 DEF TrackedOnce
<1> QED BY <1>2, <1>5, <1>6 DEF TabsInv

\* A sequence without its i-th element.
LEMMA RemovedAt ==
    ASSUME NEW S, NEW seq \in Seq(S), NEW i \in 1..Len(seq)
    PROVE  /\ RemoveAt(seq, i) \in Seq(S) /\ Len(RemoveAt(seq, i)) = Len(seq) - 1
           /\ \A j \in 1..(Len(seq) - 1) :
                 RemoveAt(seq, i)[j] = IF j < i THEN seq[j] ELSE seq[j + 1]
<1> DEFINE front == SubSeq(seq, 1, i - 1)
           back == SubSeq(seq, i + 1, Len(seq))
<1>1. Len(seq) \in Nat /\ \A j \in 1..Len(seq) : seq[j] \in S
    OBVIOUS
<1>2. /\ front \in Seq(S) /\ Len(front) = i - 1 /\ \A j \in 1..(i - 1) : front[j] = seq[j]
    BY <1>1, SubSeqProperties
<1>3. /\ back \in Seq(S) /\ Len(back) = Len(seq) - i
      /\ \A j \in 1..(Len(seq) - i) : back[j] = seq[i + j]
    BY <1>1, SubSeqProperties
<1> HIDE DEF front, back
<1>4. front \o back \in Seq(S) /\ Len(front \o back) = Len(seq) - 1
    <2>1. front \o back \in Seq(S) /\ Len(front \o back) = Len(front) + Len(back)
        BY <1>2, <1>3, ConcatProperties
    <2>2. (i - 1) + (Len(seq) - i) = Len(seq) - 1
        BY <1>1
    <2> QED BY <1>2, <1>3, <2>1, <2>2
<1>5. \A j \in 1..(Len(seq) - 1) :
         (front \o back)[j] = IF j < i THEN front[j] ELSE back[j - (i - 1)]
    BY <1>1, <1>2, <1>3, ConcatProperties
<1>6. RemoveAt(seq, i) = front \o back
    BY DEF RemoveAt, front, back
<1>7. ASSUME NEW j \in 1..(Len(seq) - 1)
      PROVE  (front \o back)[j] = IF j < i THEN seq[j] ELSE seq[j + 1]
    <2>1. CASE j < i
        <3>1. j \in 1..(i - 1)
            BY <2>1
        <3> QED BY <1>2, <1>5, <2>1, <3>1
    <2>2. CASE ~(j < i)
        <3>1. j - (i - 1) \in 1..(Len(seq) - i) /\ i + (j - (i - 1)) = j + 1
            BY <1>1, <2>2
        <3> QED BY <1>3, <1>5, <2>2, <3>1
    <2> QED BY <2>1, <2>2
<1> QED BY <1>4, <1>6, <1>7

\* What the step of a tool or of the browser leaves alone.
LEMMA RegistryStays ==
    ASSUME UNCHANGED tracked
    PROVE  TrackedOnce' = TrackedOnce /\ \A s, t : Registry(s, t)' = Registry(s, t)
BY DEF TrackedOnce, Registry

LEMMA OpenTabKeeps ==
    ASSUME TabsInv, NEW s \in TabSession, NEW t \in AgentTab, OpenTab(s, t)
    PROVE  TabsInv'
<1>1. /\ t \in unopened /\ unopened' = unopened \ {t} /\ open' = open \cup {t}
      /\ arriving' = arriving \cup {<<s, t>>}
      /\ UNCHANGED <<leaving, tracked, idle, closing, unclosed>>
    BY DEF OpenTab, registryVars, closeVars
<1>2. TabsTypes'
    BY <1>1 DEF TabsInv, TabsTypes
<1>3. \A r \in TabSession, u \in AgentTab :
         /\ Tool(r, u)' <=> Tool(r, u) \/ (r = s /\ u = t)
         /\ Registry(r, u)' <=> Registry(r, u)
    BY <1>1, RegistryStays DEF Tool
<1>4. \A k \in Closer, u \in AgentTab : Pass(k, u)' <=> Pass(k, u)
    BY <1>1 DEF Pass
<1>5. TrackedOnce'
    BY <1>1, RegistryStays DEF TabsInv
<1>6. NeverTwo'
    BY <1>1, <1>3, <1>4 DEF TabsInv, NeverTwo, TabsToCome
<1>7. NeverNone'
    BY <1>1, <1>2, <1>3, <1>4 DEF TabsInv, NeverNone, TabsTypes
<1>8. TabsToCome'
    BY <1>1, <1>2, <1>3, <1>4 DEF TabsInv, TabsToCome, TabsTypes
<1>9. LeavingIsClosed'
    BY <1>1 DEF TabsInv, LeavingIsClosed, TabsToCome
<1> QED BY <1>2, <1>5, <1>6, <1>7, <1>8, <1>9 DEF TabsInv

Injective(seq) == \A i, j \in 1..Len(seq) : seq[i] = seq[j] => i = j
Has(seq, u) == \E i \in 1..Len(seq) : seq[i] = u

\* One session's registry becomes another sequence without repetition.
LEMMA RegistrySet ==
    ASSUME TabsInv, NEW s \in TabSession, NEW seq \in Seq(AgentTab), Injective(seq),
           tracked' = [tracked EXCEPT ![s] = seq]
    PROVE  /\ tracked' \in [TabSession -> Seq(AgentTab)] /\ tracked'[s] = seq
           /\ \A r \in TabSession : r # s => tracked'[r] = tracked[r]
           /\ TrackedOnce'
           /\ \A u : Registry(s, u)' <=> Has(seq, u)
           /\ \A r \in TabSession : \A u : r # s => (Registry(r, u)' <=> Registry(r, u))
<1>1. /\ tracked' \in [TabSession -> Seq(AgentTab)] /\ tracked'[s] = seq
      /\ \A r \in TabSession : r # s => tracked'[r] = tracked[r]
    BY DEF TabsInv, TabsTypes
<1>2. \A u : Registry(s, u)' <=> Has(seq, u)
    BY <1>1 DEF Registry, Has
<1>3. \A r \in TabSession : \A u : r # s => (Registry(r, u)' <=> Registry(r, u))
    BY <1>1 DEF Registry
<1>4. TrackedOnce'
    <2> SUFFICES ASSUME NEW r \in TabSession
                 PROVE  \A i, j \in 1..Len(tracked'[r]) : tracked'[r][i] = tracked'[r][j] => i = j
        BY DEF TrackedOnce
    <2>1. CASE r = s
        BY <1>1, <2>1 DEF Injective
    <2>2. CASE r # s
        BY <1>1, <2>2 DEF TabsInv, TrackedOnce
    <2> QED BY <2>1, <2>2
<1> QED BY <1>1, <1>2, <1>3, <1>4

\* The registry of a session without a tab.
LEMMA RegistryWithout ==
    ASSUME TabsInv, NEW s \in TabSession, NEW i \in 1..Len(tracked[s])
    PROVE  /\ RemoveAt(tracked[s], i) \in Seq(AgentTab) /\ Injective(RemoveAt(tracked[s], i))
           /\ Len(RemoveAt(tracked[s], i)) = Len(tracked[s]) - 1
           /\ \A u : Has(RemoveAt(tracked[s], i), u) <=> Registry(s, u) /\ u # tracked[s][i]
<1> DEFINE seq == tracked[s]
           shorter == RemoveAt(seq, i)
<1>1. seq \in Seq(AgentTab) /\ Len(seq) \in Nat /\ Injective(seq) /\ i \in 1..Len(seq)
    BY DEF TabsInv, TabsTypes, TrackedOnce, Injective
<1>2. \A u : Registry(s, u) <=> Has(seq, u)
    BY DEF Registry, Has
<1> HIDE DEF seq
<1>3. /\ shorter \in Seq(AgentTab) /\ Len(shorter) = Len(seq) - 1
      /\ \A j \in 1..(Len(seq) - 1) : shorter[j] = IF j < i THEN seq[j] ELSE seq[j + 1]
    BY <1>1, RemovedAt
<1> HIDE DEF shorter
<1>4. ASSUME NEW j \in 1..Len(shorter)
      PROVE  \E n \in 1..Len(seq) : shorter[j] = seq[n] /\ n # i /\ n = IF j < i THEN j ELSE j + 1
    <2>1. CASE j < i
        BY <1>1, <1>3, <2>1
    <2>2. CASE ~(j < i)
        <3>1. j + 1 \in 1..Len(seq) /\ j + 1 # i
            BY <1>1, <1>3, <2>2
        <3> QED BY <1>3, <2>2, <3>1
    <2> QED BY <2>1, <2>2
<1>5. Injective(shorter)
    <2> SUFFICES ASSUME NEW j \in 1..Len(shorter), NEW k \in 1..Len(shorter), shorter[j] = shorter[k]
                 PROVE  j = k
        BY DEF Injective
    <2>1. PICK m \in 1..Len(seq) : shorter[j] = seq[m] /\ m = IF j < i THEN j ELSE j + 1
        BY <1>4
    <2>2. PICK n \in 1..Len(seq) : shorter[k] = seq[n] /\ n = IF k < i THEN k ELSE k + 1
        BY <1>4
    <2>3. m = n
        BY <1>1, <2>1, <2>2 DEF Injective
    <2> QED BY <1>1, <1>3, <2>1, <2>2, <2>3
<1>6. ASSUME NEW u PROVE Has(shorter, u) <=> Has(seq, u) /\ u # seq[i]
    <2>1. ASSUME Has(shorter, u) PROVE Has(seq, u) /\ u # seq[i]
        BY <1>1, <1>4, <2>1 DEF Has, Injective
    <2>2. ASSUME Has(seq, u), u # seq[i] PROVE Has(shorter, u)
        <3>1. PICK n \in 1..Len(seq) : seq[n] = u /\ n # i
            BY <2>2 DEF Has
        <3>2. CASE n < i
            <4>1. n \in 1..(Len(seq) - 1) /\ shorter[n] = u
                BY <1>1, <1>3, <3>1, <3>2
            <4> QED BY <1>3, <4>1 DEF Has
        <3>3. CASE n > i
            <4>1. n - 1 \in 1..(Len(seq) - 1) /\ ~(n - 1 < i) /\ (n - 1) + 1 = n
                BY <1>1, <3>1, <3>3
            <4>2. shorter[n - 1] = u
                BY <1>3, <3>1, <4>1
            <4> QED BY <1>3, <4>1, <4>2 DEF Has
        <3> QED BY <1>1, <3>1, <3>2, <3>3
    <2> QED BY <2>1, <2>2
<1> QED BY <1>2, <1>3, <1>5, <1>6 DEF seq, shorter

\* Appending a tab that the sequence does not have.
LEMMA RegistryWith ==
    ASSUME NEW seq \in Seq(AgentTab), Injective(seq), NEW t \in AgentTab, ~Has(seq, t)
    PROVE  /\ Append(seq, t) \in Seq(AgentTab) /\ Injective(Append(seq, t))
           /\ Len(Append(seq, t)) = Len(seq) + 1
           /\ \A u : Has(Append(seq, t), u) <=> Has(seq, u) \/ u = t
<1> DEFINE longer == Append(seq, t)
<1>1. /\ longer \in Seq(AgentTab) /\ Len(longer) = Len(seq) + 1 /\ Len(seq) \in Nat
      /\ \A i \in 1..Len(seq) : longer[i] = seq[i]
      /\ longer[Len(seq) + 1] = t
    BY AppendProperties
<1> HIDE DEF longer
<1>2. 1..Len(longer) = (1..Len(seq)) \cup {Len(seq) + 1}
    BY <1>1
<1>3. \A u : Has(longer, u) <=> Has(seq, u) \/ u = t
    BY <1>1, <1>2 DEF Has
<1>4. Injective(longer)
    BY <1>1, <1>2 DEF Has, Injective
<1> QED BY <1>1, <1>3, <1>4 DEF longer

\* A step that says which tabs each keeper has after it keeps the invariant.
LEMMA KeepersKeep ==
    ASSUME TabsInv, TabsTypes', TrackedOnce', UNCHANGED <<unopened, open, leaving>>,
           NEW t \in AgentTab, t \notin unopened,
           \A s \in TabSession, u \in AgentTab : u # t =>
               (Tool(s, u)' <=> Tool(s, u)) /\ (Registry(s, u)' <=> Registry(s, u)),
           \A k \in Closer, u \in AgentTab : u # t => (Pass(k, u)' <=> Pass(k, u)),
           \A u \in AgentTab : u # t => (u \in unclosed' <=> u \in unclosed),
           \A r, s \in TabSession : /\ Tool(r, t)' /\ Tool(s, t)' => r = s
                                    /\ Registry(r, t)' /\ Registry(s, t)' => r = s
                                    /\ ~(Tool(r, t)' /\ Registry(s, t)'),
           \A j, k \in Closer : Pass(j, t)' /\ Pass(k, t)' => j = k,
           \A s \in TabSession, k \in Closer : Pass(k, t)' => ~Tool(s, t)' /\ ~Registry(s, t)',
           t \in unclosed' => /\ \A s \in TabSession : ~Tool(s, t)' /\ ~Registry(s, t)'
                              /\ \A k \in Closer : ~Pass(k, t)',
           t \in open => \/ \E s \in TabSession : Tool(s, t)' \/ Registry(s, t)'
                         \/ \E k \in Closer : Pass(k, t)'
                         \/ t \in unclosed'
    PROVE  TabsInv'
<1>1. NeverTwo'
    <2> SUFFICES ASSUME NEW u \in AgentTab
                 PROVE  /\ \A r, s \in TabSession : /\ Tool(r, u)' /\ Tool(s, u)' => r = s
                                                    /\ Registry(r, u)' /\ Registry(s, u)' => r = s
                                                    /\ ~(Tool(r, u)' /\ Registry(s, u)')
                        /\ \A j, k \in Closer : Pass(j, u)' /\ Pass(k, u)' => j = k
                        /\ \A s \in TabSession, k \in Closer :
                              Pass(k, u)' => ~Tool(s, u)' /\ ~Registry(s, u)'
                        /\ u \in unclosed' => /\ \A s \in TabSession : ~Tool(s, u)' /\ ~Registry(s, u)'
                                              /\ \A k \in Closer : ~Pass(k, u)'
        BY DEF NeverTwo
    <2>1. CASE u = t
        BY <2>1
    <2>2. CASE u # t
        BY <2>2 DEF TabsInv, NeverTwo
    <2> QED BY <2>1, <2>2
<1>2. NeverNone'
    BY DEF TabsInv, NeverNone, TabsTypes
<1>3. TabsToCome'
    BY DEF TabsInv, TabsToCome, TabsTypes
<1>4. LeavingIsClosed'
    BY DEF TabsInv, LeavingIsClosed
<1> QED BY <1>1, <1>2, <1>3, <1>4 DEF TabsInv

\* A tab moves from the tool to the registry.
LEMMA TrackKeeps ==
    ASSUME TabsInv, NEW s \in TabSession, NEW t \in AgentTab, Track(s, t)
    PROVE  TabsInv'
<1>1. /\ Tool(s, t) /\ arriving' = arriving \ {<<s, t>>}
      /\ tracked' = [tracked EXCEPT ![s] = Append(tracked[s], t)]
      /\ UNCHANGED <<unopened, open, leaving, idle, closing, unclosed>>
    BY DEF Track, browserVars, closeVars, Tool
<1>2. TabsTypes /\ tracked[s] \in Seq(AgentTab) /\ Injective(tracked[s]) /\ Len(tracked[s]) \in Nat
    BY DEF TabsInv, TabsTypes, TrackedOnce, Injective
<1>3. ~Registry(s, t) /\ \A u : Registry(s, u) <=> Has(tracked[s], u)
    BY <1>1 DEF TabsInv, NeverTwo, Registry, Has
<1> DEFINE seq == Append(tracked[s], t)
<1>4. /\ seq \in Seq(AgentTab) /\ Injective(seq) /\ Len(seq) = Len(tracked[s]) + 1
      /\ \A u : Has(seq, u) <=> Registry(s, u) \/ u = t
    BY <1>2, <1>3, RegistryWith
<1>5. tracked' = [tracked EXCEPT ![s] = seq]
    BY <1>1
<1> HIDE DEF seq
<1>6. /\ tracked' \in [TabSession -> Seq(AgentTab)] /\ tracked'[s] = seq
      /\ \A r \in TabSession : r # s => tracked'[r] = tracked[r]
      /\ TrackedOnce'
      /\ \A u : Registry(s, u)' <=> Has(seq, u)
      /\ \A r \in TabSession : \A u : r # s => (Registry(r, u)' <=> Registry(r, u))
    BY <1>4, <1>5, RegistrySet
<1>7. \A r \in TabSession : idle[r] <= Len(tracked'[r])
    BY <1>2, <1>4, <1>6 DEF TabsTypes
<1>8. TabsTypes'
    BY <1>1, <1>2, <1>6, <1>7 DEF TabsTypes
<1>9. \A r \in TabSession, u \in AgentTab :
         /\ Tool(r, u)' <=> Tool(r, u) /\ ~(r = s /\ u = t)
         /\ Registry(r, u)' <=> Registry(r, u) \/ (r = s /\ u = t)
    BY <1>1, <1>4, <1>6 DEF Tool
<1>10. \A k \in Closer, u \in AgentTab : Pass(k, u)' <=> Pass(k, u)
    BY <1>1 DEF Pass
<1>11. t \notin unopened
    BY <1>1 DEF TabsInv, TabsToCome
<1> HIDE DEF TabsInv
<1>12. NeverTwo
    BY DEF TabsInv
<1> QED BY <1>1, <1>6, <1>8, <1>9, <1>10, <1>11, <1>12, KeepersKeep DEF NeverTwo

\* A tab that was used is tracked as before.
LEMMA TouchKeeps ==
    ASSUME TabsInv, NEW s \in TabSession, NEW t \in AgentTab, Touch(s, t)
    PROVE  TabsInv'
<1>1. PICK i \in 1..Len(tracked[s]) :
         /\ tracked[s][i] = t
         /\ tracked' = [tracked EXCEPT ![s] = Append(RemoveAt(tracked[s], i), t)]
         /\ idle' = [idle EXCEPT ![s] = IF i <= idle[s] THEN idle[s] - 1 ELSE idle[s]]
    BY DEF Touch
<1>2. UNCHANGED <<unopened, open, arriving, leaving, closing, unclosed>>
    BY DEF Touch, browserVars, toolVars, closeVars
<1>3. TabsTypes /\ Len(tracked[s]) \in Nat /\ Registry(s, t)
    BY <1>1 DEF TabsInv, TabsTypes, Registry
<1> DEFINE shorter == RemoveAt(tracked[s], i)
           seq == Append(shorter, t)
<1>4. /\ shorter \in Seq(AgentTab) /\ Injective(shorter) /\ Len(shorter) = Len(tracked[s]) - 1
      /\ \A u : Has(shorter, u) <=> Registry(s, u) /\ u # t
    BY <1>1, RegistryWithout
<1> HIDE DEF shorter
<1>5. /\ seq \in Seq(AgentTab) /\ Injective(seq) /\ Len(seq) = Len(shorter) + 1
      /\ \A u : Has(seq, u) <=> Has(shorter, u) \/ u = t
    BY <1>4, RegistryWith
<1>6. tracked' = [tracked EXCEPT ![s] = seq]
    BY <1>1 DEF shorter
<1> HIDE DEF seq
<1>7. /\ tracked' \in [TabSession -> Seq(AgentTab)] /\ tracked'[s] = seq
      /\ \A r \in TabSession : r # s => tracked'[r] = tracked[r]
      /\ TrackedOnce'
      /\ \A u : Registry(s, u)' <=> Has(seq, u)
      /\ \A r \in TabSession : \A u : r # s => (Registry(r, u)' <=> Registry(r, u))
    BY <1>5, <1>6, RegistrySet
<1>8. /\ idle' \in [TabSession -> Nat]
      /\ \A r \in TabSession : idle'[r] <= idle[r]
    BY <1>1, <1>3 DEF TabsTypes
<1>9. ASSUME NEW r \in TabSession PROVE idle'[r] <= Len(tracked'[r])
    <2>1. Len(tracked'[r]) = Len(tracked[r])
        BY <1>3, <1>4, <1>5, <1>7
    <2>2. idle[r] \in Nat /\ idle[r] <= Len(tracked[r]) /\ Len(tracked[r]) \in Nat /\ idle'[r] \in Nat
        BY <1>3, <1>8 DEF TabsTypes
    <2> QED BY <1>8, <2>1, <2>2
<1>10. TabsTypes'
    BY <1>2, <1>3, <1>7, <1>8, <1>9 DEF TabsTypes
<1>11. \A r \in TabSession, u \in AgentTab :
          (Tool(r, u)' <=> Tool(r, u)) /\ (Registry(r, u)' <=> Registry(r, u))
    BY <1>2, <1>3, <1>4, <1>5, <1>7 DEF Tool
<1>12. \A k \in Closer, u \in AgentTab : Pass(k, u)' <=> Pass(k, u)
    BY <1>2 DEF Pass
<1>13. NeverTwo /\ NeverNone /\ t \notin unopened
    BY <1>3 DEF TabsInv, TabsToCome
<1> QED BY <1>2, <1>7, <1>10, <1>11, <1>12, <1>13, KeepersKeep DEF NeverTwo, NeverNone

LEMMA CloseByToolKeeps ==
    ASSUME TabsInv, NEW s \in TabSession, NEW t \in AgentTab, CloseByTool(s, t)
    PROVE  TabsInv'
<1>1. /\ t \in open /\ open' = open \ {t} /\ leaving \subseteq leaving'
      /\ \A r \in TabSession, u \in AgentTab : <<r, u>> \in leaving' => <<r, u>> \in leaving \/ u = t
      /\ UNCHANGED <<unopened, arriving, tracked, idle, closing, unclosed>>
    BY DEF CloseByTool, registryVars, closeVars
<1>2. leaving' \subseteq TabSession \X AgentTab
    BY DEF CloseByTool, TabsInv, TabsTypes
<1>3. TabsTypes'
    BY <1>1, <1>2 DEF TabsInv, TabsTypes
<1>4. /\ TrackedOnce'
      /\ \A r \in TabSession, u \in AgentTab :
            (Tool(r, u)' <=> Tool(r, u)) /\ (Registry(r, u)' <=> Registry(r, u))
      /\ \A k \in Closer, u \in AgentTab : Pass(k, u)' <=> Pass(k, u)
    BY <1>1, RegistryStays DEF TabsInv, Tool, Pass
<1>5. NeverTwo'
    BY <1>1, <1>4 DEF TabsInv, NeverTwo
<1>6. NeverNone'
    BY <1>1, <1>4 DEF TabsInv, NeverNone, TabsTypes
<1>7. TabsToCome'
    BY <1>1, <1>4 DEF TabsInv, TabsToCome, TabsTypes
<1>8. LeavingIsClosed'
    BY <1>1 DEF TabsInv, LeavingIsClosed
<1> QED BY <1>3, <1>4, <1>5, <1>6, <1>7, <1>8 DEF TabsInv

\* Steps that lose keepers only of tabs that are closed.
LEMMA ClosedLoseKeepers ==
    ASSUME TabsInv, TabsTypes', TrackedOnce', UNCHANGED <<unopened, unclosed>>,
           open' \subseteq open, leaving' \subseteq leaving,
           \A s \in TabSession, u \in AgentTab : /\ Tool(s, u)' => Tool(s, u)
                                                 /\ Registry(s, u)' => Registry(s, u)
                                                 /\ u \in open' => /\ Tool(s, u) => Tool(s, u)'
                                                                   /\ Registry(s, u) => Registry(s, u)',
           \A k \in Closer, u \in AgentTab : /\ Pass(k, u)' => Pass(k, u)
                                             /\ u \in open' => (Pass(k, u) => Pass(k, u)')
    PROVE  TabsInv'
<1>1. NeverTwo'
    BY DEF TabsInv, NeverTwo
<1>2. NeverNone'
    BY DEF TabsInv, NeverNone, TabsTypes
<1>3. TabsToCome'
    BY DEF TabsInv, TabsToCome, TabsTypes
<1>4. LeavingIsClosed'
    BY DEF TabsInv, LeavingIsClosed
<1> QED BY <1>1, <1>2, <1>3, <1>4 DEF TabsInv

LEMMA UntrackKeeps ==
    ASSUME TabsInv, NEW s \in TabSession, NEW t \in AgentTab, Untrack(s, t)
    PROVE  TabsInv'
<1>1. /\ t \notin open /\ leaving' \subseteq leaving /\ Forget(s, t)
      /\ UNCHANGED <<unopened, open, arriving, closing, unclosed>>
    BY DEF Untrack, browserVars, closeVars, TabsInv, LeavingIsClosed
<1>2. TabsTypes /\ Len(tracked[s]) \in Nat /\ tracked[s] \in Seq(AgentTab)
    BY DEF TabsInv, TabsTypes
<1>3. \A r \in TabSession, u \in AgentTab : Tool(r, u)' <=> Tool(r, u)
    BY <1>1 DEF Tool
<1>4. \A k \in Closer, u \in AgentTab : Pass(k, u)' <=> Pass(k, u)
    BY <1>1 DEF Pass
<1>5. CASE UNCHANGED <<tracked, idle>>
    <2>1. TabsTypes'
        BY <1>1, <1>2, <1>5 DEF TabsTypes
    <2>2. TrackedOnce' /\ \A r \in TabSession, u \in AgentTab : Registry(r, u)' <=> Registry(r, u)
        BY <1>5, RegistryStays DEF TabsInv
    <2> QED BY <1>1, <1>3, <1>4, <2>1, <2>2, ClosedLoseKeepers
<1>6. CASE \E i \in 1..Len(tracked[s]) :
             /\ tracked[s][i] = t
             /\ tracked' = [tracked EXCEPT ![s] = RemoveAt(@, i)]
             /\ idle' = [idle EXCEPT ![s] = IF i <= @ THEN @ - 1 ELSE @]
    <2>1. PICK i \in 1..Len(tracked[s]) :
             /\ tracked[s][i] = t
             /\ tracked' = [tracked EXCEPT ![s] = RemoveAt(tracked[s], i)]
             /\ idle' = [idle EXCEPT ![s] = IF i <= idle[s] THEN idle[s] - 1 ELSE idle[s]]
        BY <1>6
    <2> DEFINE seq == RemoveAt(tracked[s], i)
    <2>2. /\ seq \in Seq(AgentTab) /\ Injective(seq) /\ Len(seq) = Len(tracked[s]) - 1
          /\ \A u : Has(seq, u) <=> Registry(s, u) /\ u # t
        BY <2>1, RegistryWithout
    <2>3. tracked' = [tracked EXCEPT ![s] = seq]
        BY <2>1
    <2> HIDE DEF seq
    <2>4. /\ tracked' \in [TabSession -> Seq(AgentTab)] /\ tracked'[s] = seq
          /\ \A r \in TabSession : r # s => tracked'[r] = tracked[r]
          /\ TrackedOnce'
          /\ \A u : Registry(s, u)' <=> Has(seq, u)
          /\ \A r \in TabSession : \A u : r # s => (Registry(r, u)' <=> Registry(r, u))
        BY <2>2, <2>3, RegistrySet
    <2>5. /\ idle' \in [TabSession -> Nat]
          /\ idle'[s] = IF i <= idle[s] THEN idle[s] - 1 ELSE idle[s]
          /\ \A r \in TabSession : r # s => idle'[r] = idle[r]
        BY <1>2, <2>1 DEF TabsTypes
    <2>6. ASSUME NEW r \in TabSession PROVE idle'[r] <= Len(tracked'[r])
        <3>1. CASE r = s
            <4>1. idle[s] \in Nat /\ idle[s] <= Len(tracked[s])
                BY <1>2 DEF TabsTypes
            <4>2. idle'[s] <= Len(tracked[s]) - 1
                BY <1>2, <2>5, <4>1
            <4> QED BY <2>2, <2>4, <3>1, <4>2
        <3>2. CASE r # s
            BY <1>2, <2>4, <2>5, <3>2 DEF TabsTypes
        <3> QED BY <3>1, <3>2
    <2>7. TabsTypes'
        BY <1>1, <1>2, <2>4, <2>5, <2>6 DEF TabsTypes
    <2>8. \A r \in TabSession, u \in AgentTab :
             /\ Registry(r, u)' => Registry(r, u)
             /\ u \in open' => (Registry(r, u) => Registry(r, u)')
        BY <1>1, <2>2, <2>4
    <2> QED BY <1>1, <1>3, <1>4, <2>4, <2>7, <2>8, ClosedLoseKeepers
<1> QED BY <1>1, <1>5, <1>6 DEF Forget, registryVars

LEMMA GoesIdleKeeps ==
    ASSUME TabsInv, NEW s \in TabSession, GoesIdle(s)
    PROVE  TabsInv'
<1>1. /\ idle[s] < Len(tracked[s]) /\ idle' = [idle EXCEPT ![s] = idle[s] + 1]
      /\ UNCHANGED <<unopened, open, arriving, leaving, tracked, closing, unclosed>>
    BY DEF GoesIdle, browserVars, toolVars, closeVars
<1>2. TabsTypes
    BY DEF TabsInv
<1>3. /\ idle' \in [TabSession -> Nat] /\ idle'[s] = idle[s] + 1
      /\ \A r \in TabSession : r # s => idle'[r] = idle[r]
    BY <1>1, <1>2 DEF TabsTypes
<1>4. \A r \in TabSession : idle'[r] <= Len(tracked[r])
    BY <1>1, <1>2, <1>3 DEF TabsTypes
<1>5. TabsTypes'
    BY <1>1, <1>2, <1>3, <1>4 DEF TabsTypes
<1>6. /\ TrackedOnce'
      /\ \A r \in TabSession, u \in AgentTab :
            (Tool(r, u)' <=> Tool(r, u)) /\ (Registry(r, u)' <=> Registry(r, u))
      /\ \A k \in Closer, u \in AgentTab : Pass(k, u)' <=> Pass(k, u)
    BY <1>1, RegistryStays DEF TabsInv, Tool, Pass
<1> QED BY <1>1, <1>5, <1>6, ClosedLoseKeepers

LEMMA CloseNextKeeps ==
    ASSUME TabsInv, NEW k \in Closer, NEW t \in AgentTab, CloseNext(k, t)
    PROVE  TabsInv'
<1>1. /\ Pass(k, t) /\ closing' = [closing EXCEPT ![k] = closing[k] \ {t}]
      /\ UNCHANGED <<unopened, arriving, leaving, tracked, idle>>
    BY DEF CloseNext, toolVars, registryVars, Pass
<1>2. TabsTypes
    BY DEF TabsInv
<1>3. closing' \in [Closer -> SUBSET AgentTab]
    BY <1>1, <1>2 DEF TabsTypes
<1>4. \A j \in Closer, u \in AgentTab : Pass(j, u)' <=> Pass(j, u) /\ ~(j = k /\ u = t)
    BY <1>1, <1>2 DEF TabsTypes, Pass
<1>5. /\ TrackedOnce'
      /\ \A r \in TabSession, u \in AgentTab :
            (Tool(r, u)' <=> Tool(r, u)) /\ (Registry(r, u)' <=> Registry(r, u))
    BY <1>1, RegistryStays DEF TabsInv, Tool
<1>6. NeverTwo /\ t \notin unopened
    BY <1>1 DEF TabsInv, TabsToCome
<1>7. CASE open' = open \ {t} /\ UNCHANGED unclosed
    <2>1. TabsTypes'
        BY <1>1, <1>2, <1>3, <1>7 DEF TabsTypes
    <2> QED BY <1>1, <1>4, <1>5, <1>7, <2>1, ClosedLoseKeepers
<1>8. CASE t \in open /\ unclosed' = unclosed \cup {t} /\ UNCHANGED open
    <2>1. TabsTypes'
        BY <1>1, <1>2, <1>3, <1>8 DEF TabsTypes
    <2>2. /\ \A s \in TabSession : ~Tool(s, t)' /\ ~Registry(s, t)'
          /\ \A j \in Closer : ~Pass(j, t)'
        BY <1>1, <1>4, <1>5, <1>6 DEF NeverTwo
    <2> QED BY <1>1, <1>4, <1>5, <1>6, <1>8, <2>1, <2>2, KeepersKeep
<1> QED BY <1>7, <1>8 DEF CloseNext

\* The two parts of a registry share no tab, and lose none.
LEMMA RegistrySplit ==
    ASSUME NEW seq \in Seq(AgentTab), Injective(seq), NEW n \in 0..Len(seq)
    PROVE  /\ SubSeq(seq, n + 1, Len(seq)) \in Seq(AgentTab)
           /\ Injective(SubSeq(seq, n + 1, Len(seq)))
           /\ Len(SubSeq(seq, 1, n)) = n
           /\ ToSet(SubSeq(seq, 1, n)) \subseteq AgentTab
           /\ \A u : /\ Has(seq, u) <=> \/ u \in ToSet(SubSeq(seq, 1, n))
                                        \/ Has(SubSeq(seq, n + 1, Len(seq)), u)
                     /\ ~(u \in ToSet(SubSeq(seq, 1, n)) /\ Has(SubSeq(seq, n + 1, Len(seq)), u))
<1> DEFINE front == SubSeq(seq, 1, n)
           back == SubSeq(seq, n + 1, Len(seq))
<1>1. Len(seq) \in Nat /\ (\A j \in 1..Len(seq) : seq[j] \in AgentTab) /\ n \in Nat
    OBVIOUS
<1>2. /\ front \in Seq(AgentTab) /\ Len(front) = n /\ \A j \in 1..n : front[j] = seq[j]
    BY <1>1, SubSeqProperties
<1>3. /\ back \in Seq(AgentTab) /\ Len(back) = Len(seq) - n
      /\ \A j \in 1..(Len(seq) - n) : back[j] = seq[n + j]
    BY <1>1, SubSeqProperties
<1> HIDE DEF front, back
<1>4. \A u : u \in ToSet(front) <=> \E j \in 1..n : seq[j] = u
    <2>1. DOMAIN front = 1..n
        BY <1>1, <1>2
    <2> QED BY <1>2, <2>1 DEF ToSet
<1>5. ASSUME NEW u PROVE Has(back, u) <=> \E j \in (n + 1)..Len(seq) : seq[j] = u
    <2>1. ASSUME Has(back, u) PROVE \E j \in (n + 1)..Len(seq) : seq[j] = u
        <3>1. PICK j \in 1..(Len(seq) - n) : back[j] = u
            BY <1>3, <2>1 DEF Has
        <3>2. n + j \in (n + 1)..Len(seq) /\ seq[n + j] = u
            BY <1>1, <1>3, <3>1
        <3> QED BY <3>2
    <2>2. ASSUME NEW j \in (n + 1)..Len(seq), seq[j] = u PROVE Has(back, u)
        <3>1. j - n \in 1..(Len(seq) - n) /\ n + (j - n) = j
            BY <1>1, <2>2
        <3>2. back[j - n] = u
            BY <1>3, <2>2, <3>1
        <3> QED BY <1>3, <3>1, <3>2 DEF Has
    <2> QED BY <2>1, <2>2
<1>6. 1..Len(seq) = (1..n) \cup ((n + 1)..Len(seq)) /\ (1..n) \cap ((n + 1)..Len(seq)) = {}
    BY <1>1
<1>7. ASSUME NEW u
      PROVE  /\ Has(seq, u) <=> u \in ToSet(front) \/ Has(back, u)
             /\ ~(u \in ToSet(front) /\ Has(back, u))
    <2>1. Has(seq, u) <=> u \in ToSet(front) \/ Has(back, u)
        BY <1>4, <1>5, <1>6 DEF Has
    <2>2. ASSUME u \in ToSet(front), Has(back, u) PROVE FALSE
        <3>1. PICK i \in 1..n : seq[i] = u
            BY <1>4, <2>2
        <3>2. PICK j \in (n + 1)..Len(seq) : seq[j] = u
            BY <1>5, <2>2
        <3>3. i # j /\ i \in 1..Len(seq) /\ j \in 1..Len(seq)
            BY <1>1, <3>1, <3>2
        <3> QED BY <3>1, <3>2, <3>3 DEF Injective
    <2> QED BY <2>1, <2>2
<1>8. Injective(back)
    <2> SUFFICES ASSUME NEW i \in 1..Len(back), NEW j \in 1..Len(back), back[i] = back[j] PROVE i = j
        BY DEF Injective
    <2>1. n + i \in 1..Len(seq) /\ n + j \in 1..Len(seq) /\ seq[n + i] = seq[n + j]
        BY <1>1, <1>3
    <2>2. n + i = n + j
        BY <2>1 DEF Injective
    <2> QED BY <1>1, <1>3, <2>2
<1>9. ToSet(front) \subseteq AgentTab
    BY <1>1, <1>4
<1> QED BY <1>2, <1>3, <1>7, <1>8, <1>9 DEF front, back

\* What is stale is the front of the registry.
LEMMA StaleIsFront ==
    ASSUME TabsTypes, NEW s \in TabSession
    PROVE  \E n \in 0..Len(tracked[s]) : Stale(s) = SubSeq(tracked[s], 1, n)
<1>1. idle[s] \in Nat /\ Len(tracked[s]) \in Nat /\ idle[s] <= Len(tracked[s]) /\ MaxTabsPerSession \in Nat
    BY TabsAssumption DEF TabsTypes
<1> DEFINE used == Len(tracked[s]) - idle[s]
           excess == IF MaxTabsPerSession > 0 /\ used > MaxTabsPerSession
                     THEN used - MaxTabsPerSession ELSE 0
<1>2. idle[s] + excess \in 0..Len(tracked[s])
    BY <1>1
<1>3. Stale(s) = SubSeq(tracked[s], 1, idle[s] + excess)
    BY DEF Stale
<1> HIDE DEF excess
<1> QED BY <1>2, <1>3

\* Keepers handed over to the pass of k: what sessions lose, k gets.
LEMMA HandedOver ==
    ASSUME TabsInv, TabsTypes', TrackedOnce', NEW k \in Closer,
           UNCHANGED <<unopened, open, leaving, unclosed>>,
           \A s \in TabSession, u \in AgentTab :
              (Tool(s, u)' <=> Tool(s, u)) /\ (Registry(s, u)' => Registry(s, u)),
           \A u \in AgentTab :
              Pass(k, u)' <=> \/ Pass(k, u)
                              \/ \E s \in TabSession : Registry(s, u) /\ ~Registry(s, u)',
           \A j \in Closer, u \in AgentTab : j # k => (Pass(j, u)' <=> Pass(j, u))
    PROVE  TabsInv'
<1>1. NeverTwo'
    <2> SUFFICES ASSUME NEW u \in AgentTab
                 PROVE  /\ \A r, s \in TabSession : /\ Tool(r, u)' /\ Tool(s, u)' => r = s
                                                    /\ Registry(r, u)' /\ Registry(s, u)' => r = s
                                                    /\ ~(Tool(r, u)' /\ Registry(s, u)')
                        /\ \A i, j \in Closer : Pass(i, u)' /\ Pass(j, u)' => i = j
                        /\ \A s \in TabSession, j \in Closer :
                              Pass(j, u)' => ~Tool(s, u)' /\ ~Registry(s, u)'
                        /\ u \in unclosed' => /\ \A s \in TabSession : ~Tool(s, u)' /\ ~Registry(s, u)'
                                              /\ \A j \in Closer : ~Pass(j, u)'
        BY DEF NeverTwo
    <2>1. CASE \E s \in TabSession : Registry(s, u) /\ ~Registry(s, u)'
        <3>2. PICK s \in TabSession : Registry(s, u) /\ ~Registry(s, u)'
            BY <2>1
        <3>3. /\ \A r \in TabSession : ~Tool(r, u)' /\ ~Registry(r, u)'
              /\ \A j \in Closer : Pass(j, u)' => j = k
              /\ u \notin unclosed'
            BY <3>2 DEF TabsInv, NeverTwo
        <3> QED BY <3>3
    <2>2. CASE ~ \E s \in TabSession : Registry(s, u) /\ ~Registry(s, u)'
        BY <2>2 DEF TabsInv, NeverTwo
    <2> QED BY <2>1, <2>2
<1>2. NeverNone'
    <2> SUFFICES ASSUME NEW u \in open'
                 PROVE  \/ \E s \in TabSession : Tool(s, u)' \/ Registry(s, u)'
                        \/ \E j \in Closer : Pass(j, u)'
                        \/ u \in unclosed'
        BY DEF NeverNone
    <2>1. u \in open /\ u \in AgentTab
        BY DEF TabsInv, TabsTypes
    <2>2. CASE \E s \in TabSession : Registry(s, u)
        BY <2>1, <2>2
    <2>3. CASE \E j \in Closer : Pass(j, u)
        <3>1. PICK j \in Closer : Pass(j, u)
            BY <2>3
        <3>2. Pass(j, u)'
            BY <2>1, <3>1
        <3> QED BY <3>2
    <2>4. CASE u \in unclosed \/ \E s \in TabSession : Tool(s, u)
        BY <2>1, <2>4
    <2> QED BY <2>1, <2>2, <2>3, <2>4 DEF TabsInv, NeverNone
<1>3. TabsToCome'
    <2> SUFFICES ASSUME NEW u \in unopened'
                 PROVE  /\ u \notin open' /\ u \notin unclosed'
                        /\ \A s \in TabSession :
                              ~Tool(s, u)' /\ ~Registry(s, u)' /\ <<s, u>> \notin leaving'
                        /\ \A j \in Closer : ~Pass(j, u)'
        BY DEF TabsToCome
    <2>1. u \in unopened /\ u \in AgentTab
        BY DEF TabsInv, TabsTypes
    <2>2. /\ u \notin open /\ u \notin unclosed
          /\ \A s \in TabSession : ~Tool(s, u) /\ ~Registry(s, u) /\ <<s, u>> \notin leaving
          /\ \A j \in Closer : ~Pass(j, u)
        BY <2>1 DEF TabsInv, TabsToCome
    <2>3. \A j \in Closer : ~Pass(j, u)'
        BY <2>1, <2>2
    <2> QED BY <2>1, <2>2, <2>3
<1>4. LeavingIsClosed'
    BY DEF TabsInv, LeavingIsClosed
<1> QED BY <1>1, <1>2, <1>3, <1>4 DEF TabsInv

LEMMA SweepKeeps ==
    ASSUME TabsInv, NEW k \in Sweep, SweepTabs(k)
    PROVE  TabsInv'
<1>1. TabsTypes /\ k \in Closer /\ PrimarySession \subseteq TabSession
    BY TabsAssumption DEF TabsInv, Closer
<1>2. /\ closing[k] = {}
      /\ closing' = [closing EXCEPT ![k] = UNION {ToSet(Stale(s)) : s \in PrimarySession}]
      /\ tracked' = [s \in TabSession |->
                       IF s \in PrimarySession
                       THEN SubSeq(tracked[s], Len(Stale(s)) + 1, Len(tracked[s])) ELSE tracked[s]]
      /\ idle' = [s \in TabSession |-> IF s \in PrimarySession THEN 0 ELSE idle[s]]
      /\ UNCHANGED <<unopened, open, arriving, leaving, unclosed>>
    BY DEF SweepTabs, browserVars, toolVars
<1>3. ASSUME NEW s \in PrimarySession
      PROVE  /\ tracked'[s] \in Seq(AgentTab) /\ Injective(tracked'[s])
             /\ ToSet(Stale(s)) \subseteq AgentTab
             /\ \A u : /\ Registry(s, u) <=> u \in ToSet(Stale(s)) \/ Registry(s, u)'
                       /\ ~(u \in ToSet(Stale(s)) /\ Registry(s, u)')
    <2>1. s \in TabSession /\ tracked[s] \in Seq(AgentTab) /\ Injective(tracked[s])
        BY <1>1 DEF TabsInv, TabsTypes, TrackedOnce, Injective
    <2>2. PICK n \in 0..Len(tracked[s]) : Stale(s) = SubSeq(tracked[s], 1, n)
        BY <1>1, <2>1, StaleIsFront
    <2> DEFINE back == SubSeq(tracked[s], n + 1, Len(tracked[s]))
    <2>3. /\ back \in Seq(AgentTab) /\ Injective(back) /\ Len(Stale(s)) = n
          /\ ToSet(Stale(s)) \subseteq AgentTab
          /\ \A u : /\ Has(tracked[s], u) <=> u \in ToSet(Stale(s)) \/ Has(back, u)
                    /\ ~(u \in ToSet(Stale(s)) /\ Has(back, u))
        BY <2>1, <2>2, RegistrySplit
    <2>4. tracked'[s] = back
        BY <1>2, <2>1, <2>3
    <2> HIDE DEF back
    <2>5. \A u : /\ Registry(s, u) <=> Has(tracked[s], u)
                 /\ Registry(s, u)' <=> Has(back, u)
        BY <2>4 DEF Registry, Has
    <2> QED BY <2>3, <2>4, <2>5
<1>4. \A s \in TabSession : s \notin PrimarySession => tracked'[s] = tracked[s]
    BY <1>2
<1>5. ASSUME NEW s \in TabSession
      PROVE  tracked'[s] \in Seq(AgentTab) /\ Injective(tracked'[s]) /\ idle'[s] \in Nat
             /\ idle'[s] <= Len(tracked'[s])
    <2>1. CASE s \in PrimarySession
        <3>1. tracked'[s] \in Seq(AgentTab) /\ Len(tracked'[s]) \in Nat
            BY <1>3, <2>1
        <3>2. idle'[s] = 0
            BY <1>2, <2>1
        <3>3. Injective(tracked'[s])
            BY <1>3, <2>1
        <3> QED BY <3>1, <3>2, <3>3
    <2>2. CASE s \notin PrimarySession
        BY <1>1, <1>2, <1>4, <2>2 DEF TabsInv, TabsTypes, TrackedOnce, Injective
    <2> QED BY <2>1, <2>2
<1>6. /\ tracked' \in [TabSession -> Seq(AgentTab)] /\ idle' \in [TabSession -> Nat]
      /\ \A s \in TabSession : idle'[s] <= Len(tracked'[s])
    <2>1. tracked' = [s \in TabSession |-> tracked'[s]] /\ idle' = [s \in TabSession |-> idle'[s]]
        BY <1>2
    <2> QED BY <1>5, <2>1
<1> DEFINE taken == UNION {ToSet(Stale(s)) : s \in PrimarySession}
<1>7. /\ taken \subseteq AgentTab
      /\ \A u : u \in taken <=> \E s \in PrimarySession : u \in ToSet(Stale(s))
    BY <1>3
<1>8. closing' = [closing EXCEPT ![k] = taken]
    BY <1>2
<1> HIDE DEF taken
<1>9. /\ closing' \in [Closer -> SUBSET AgentTab] /\ closing'[k] = taken
      /\ \A j \in Closer : j # k => closing'[j] = closing[j]
    BY <1>1, <1>7, <1>8 DEF TabsTypes
<1>10. TabsTypes'
    BY <1>1, <1>2, <1>6, <1>9 DEF TabsTypes
<1>11. TrackedOnce'
    BY <1>5 DEF TrackedOnce, Injective
<1>12. ASSUME NEW s \in TabSession, NEW u \in AgentTab
       PROVE  /\ Tool(s, u)' <=> Tool(s, u)
              /\ Registry(s, u)' => Registry(s, u)
              /\ Registry(s, u) /\ ~Registry(s, u)' <=> s \in PrimarySession /\ u \in ToSet(Stale(s))
    <2>1. Tool(s, u)' <=> Tool(s, u)
        BY <1>2 DEF Tool
    <2>2. CASE s \in PrimarySession
        BY <1>3, <2>1, <2>2
    <2>3. CASE s \notin PrimarySession
        <3>1. Registry(s, u)' <=> Registry(s, u)
            BY <1>4, <2>3 DEF Registry
        <3> QED BY <2>1, <2>3, <3>1
    <2> QED BY <2>2, <2>3
<1>13. \A u \in AgentTab :
          Pass(k, u)' <=> \/ Pass(k, u)
                          \/ \E s \in TabSession : Registry(s, u) /\ ~Registry(s, u)'
    BY <1>1, <1>2, <1>7, <1>9, <1>12 DEF Pass
<1>14. \A j \in Closer, u \in AgentTab : j # k => (Pass(j, u)' <=> Pass(j, u))
    BY <1>9 DEF Pass
<1> QED BY <1>1, <1>2, <1>10, <1>11, <1>12, <1>13, <1>14, HandedOver

LEMMA EndSessionKeeps ==
    ASSUME TabsInv, NEW s \in TabSession, EndSession(s)
    PROVE  TabsInv'
<1>1. TabsTypes /\ s \in Closer /\ tracked[s] \in Seq(AgentTab) /\ closing[s] \subseteq AgentTab
    BY DEF TabsInv, TabsTypes, Closer
<1>2. /\ closing' = [closing EXCEPT ![s] = closing[s] \cup ToSet(tracked[s])]
      /\ tracked' = [tracked EXCEPT ![s] = <<>>] /\ idle' = [idle EXCEPT ![s] = 0]
      /\ UNCHANGED <<unopened, open, arriving, leaving, unclosed>>
    BY DEF EndSession, browserVars, toolVars
<1>3. <<>> \in Seq(AgentTab) /\ Injective(<<>>) /\ Len(<<>>) = 0 /\ \A u : ~Has(<<>>, u)
    BY DEF Injective, Has
<1>4. /\ tracked' \in [TabSession -> Seq(AgentTab)] /\ tracked'[s] = <<>>
      /\ \A r \in TabSession : r # s => tracked'[r] = tracked[r]
      /\ TrackedOnce'
      /\ \A u : Registry(s, u)' <=> Has(<<>>, u)
      /\ \A r \in TabSession : \A u : r # s => (Registry(r, u)' <=> Registry(r, u))
    BY <1>2, <1>3, RegistrySet
<1>5. /\ idle' \in [TabSession -> Nat] /\ idle'[s] = 0
      /\ \A r \in TabSession : r # s => idle'[r] = idle[r]
    BY <1>1, <1>2 DEF TabsTypes
<1>6. \A r \in TabSession : idle'[r] <= Len(tracked'[r])
    BY <1>1, <1>3, <1>4, <1>5 DEF TabsTypes
<1>7. \A u : u \in ToSet(tracked[s]) <=> Registry(s, u)
    <2>1. DOMAIN tracked[s] = 1..Len(tracked[s])
        BY <1>1
    <2> QED BY <2>1 DEF ToSet, Registry
<1>8. ToSet(tracked[s]) \subseteq AgentTab
    BY <1>1 DEF ToSet
<1> DEFINE taken == closing[s] \cup ToSet(tracked[s])
<1>9. taken \subseteq AgentTab /\ \A u : u \in taken <=> u \in closing[s] \/ Registry(s, u)
    BY <1>1, <1>7, <1>8
<1>10. closing' = [closing EXCEPT ![s] = taken]
    BY <1>2
<1> HIDE DEF taken
<1>11. /\ closing' \in [Closer -> SUBSET AgentTab] /\ closing'[s] = taken
       /\ \A j \in Closer : j # s => closing'[j] = closing[j]
    BY <1>1, <1>9, <1>10 DEF TabsTypes
<1>12. TabsTypes'
    BY <1>1, <1>2, <1>4, <1>5, <1>6, <1>11 DEF TabsTypes
<1>13. \A r \in TabSession, u \in AgentTab :
         /\ (Tool(r, u)' <=> Tool(r, u)) /\ (Registry(r, u)' => Registry(r, u))
         /\ Registry(r, u) /\ ~Registry(r, u)' <=> r = s /\ Registry(s, u)
    BY <1>2, <1>3, <1>4 DEF Tool
<1>14. \A u \in AgentTab :
         Pass(s, u)' <=> \/ Pass(s, u)
                         \/ \E r \in TabSession : Registry(r, u) /\ ~Registry(r, u)'
    BY <1>9, <1>11, <1>13 DEF Pass
<1>15. \A j \in Closer, u \in AgentTab : j # s => (Pass(j, u)' <=> Pass(j, u))
    BY <1>11 DEF Pass
<1> QED BY <1>1, <1>2, <1>4, <1>12, <1>13, <1>14, <1>15, HandedOver

LEMMA TabsSteps == TabsInv /\ [TabsNext]_tabsVars => TabsInv'
<1> SUFFICES ASSUME TabsInv, [TabsNext]_tabsVars PROVE TabsInv'
    OBVIOUS
<1>1. CASE UNCHANGED tabsVars
    <2>1. TabsTypes' /\ LeavingIsClosed'
        BY <1>1 DEF tabsVars, TabsInv, TabsTypes, LeavingIsClosed
    <2>2. TrackedOnce' /\ NeverTwo' /\ NeverNone' /\ TabsToCome'
        BY <1>1 DEF tabsVars, TabsInv, TrackedOnce, NeverTwo, NeverNone, TabsToCome, Tool, Registry, Pass
    <2> QED BY <2>1, <2>2 DEF TabsInv
<1>2. ASSUME NEW s \in TabSession, NEW t \in AgentTab,
             OpenTab(s, t) \/ Track(s, t) \/ Touch(s, t) \/ CloseByTool(s, t) \/ Untrack(s, t)
      PROVE  TabsInv'
    BY <1>2, OpenTabKeeps, TrackKeeps, TouchKeeps, CloseByToolKeeps, UntrackKeeps
<1>3. ASSUME NEW s \in TabSession, GoesIdle(s) \/ EndSession(s) PROVE TabsInv'
    BY <1>3, GoesIdleKeeps, EndSessionKeeps
<1> QED BY <1>1, <1>2, <1>3, SweepKeeps, CloseNextKeeps DEF TabsNext

\* What a set of keepers that are all the same one counts for.
LEMMA CountsOne ==
    ASSUME NEW S, \A x, y \in S : x = y
    PROVE  Cardinality(S) = IF S = {} THEN 0 ELSE 1
<1>1. CASE S = {}
    BY <1>1, FS_EmptySet
<1>2. CASE S # {}
    <2>1. PICK x : S = {x}
        BY <1>2
    <2> QED BY <1>2, <2>1, FS_Singleton
<1> QED BY <1>1, <1>2

\* The registries, the tool calls and the passes keep their types.
THEOREM TabsTypeCorrect == TabsSpec => []TabsTypeOK
<1>1. TabsInv => TabsTypeOK
    <2> SUFFICES ASSUME TabsInv PROVE TabsTypeOK
        OBVIOUS
    <2>1. TabsTypes
        BY DEF TabsInv
    <2>2. ASSUME NEW s \in TabSession
          PROVE  ToSet(tracked[s]) \subseteq AgentTab /\ idle[s] \in 0..Len(tracked[s])
        <3>1. tracked[s] \in Seq(AgentTab) /\ idle[s] \in Nat /\ idle[s] <= Len(tracked[s])
            BY <2>1 DEF TabsTypes
        <3>2. ToSet(tracked[s]) \subseteq AgentTab
            BY <3>1 DEF ToSet
        <3>3. Len(tracked[s]) \in Nat
            BY <3>1
        <3> QED BY <3>1, <3>2, <3>3
    <2> QED BY <2>1, <2>2 DEF TabsTypes, TabsTypeOK
<1> QED BY <1>1, TabsStart, TabsSteps, PTL DEF TabsSpec

\* An open tab has one keeper, neither none nor two, whatever tools, sweeps and ends of
\* sessions do between each other's awaits.
THEOREM OneKeeperEach == TabsSpec => []OneKeeper
<1>1. TabsInv => OneKeeper
    <2> SUFFICES ASSUME TabsInv, NEW t \in open
                 PROVE  Cardinality({s \in TabSession : <<s, t>> \in arriving})
                        + Cardinality({s \in TabSession : t \in ToSet(tracked[s])})
                        + Cardinality({k \in Closer : t \in closing[k]})
                        + (IF t \in unclosed THEN 1 ELSE 0) = 1
        BY DEF OneKeeper
    <2> DEFINE tool == {s \in TabSession : <<s, t>> \in arriving}
               registry == {s \in TabSession : t \in ToSet(tracked[s])}
               pass == {k \in Closer : t \in closing[k]}
    <2>1. t \in AgentTab
        BY DEF TabsInv, TabsTypes
    <2>2. \A s \in TabSession : t \in ToSet(tracked[s]) <=> Registry(s, t)
        <3> TAKE s \in TabSession
        <3>1. DOMAIN tracked[s] = 1..Len(tracked[s])
            BY DEF TabsInv, TabsTypes
        <3> QED BY <3>1 DEF ToSet, Registry
    <2>3. /\ \A s : s \in tool <=> s \in TabSession /\ Tool(s, t)
          /\ \A s : s \in registry <=> s \in TabSession /\ Registry(s, t)
          /\ \A k : k \in pass <=> k \in Closer /\ Pass(k, t)
        BY <2>2 DEF Tool, Pass
    <2> HIDE DEF tool, registry, pass
    <2>4. /\ \A r, s \in tool : r = s
          /\ \A r, s \in registry : r = s
          /\ \A j, k \in pass : j = k
          /\ registry # {} => tool = {}
          /\ pass # {} => tool = {} /\ registry = {}
          /\ t \in unclosed => tool = {} /\ registry = {} /\ pass = {}
        BY <2>1, <2>3 DEF TabsInv, NeverTwo
    <2>5. tool # {} \/ registry # {} \/ pass # {} \/ t \in unclosed
        BY <2>3 DEF TabsInv, NeverNone
    <2>6. /\ Cardinality(tool) = IF tool = {} THEN 0 ELSE 1
          /\ Cardinality(registry) = IF registry = {} THEN 0 ELSE 1
          /\ Cardinality(pass) = IF pass = {} THEN 0 ELSE 1
        BY <2>4, CountsOne
    <2>7. Cardinality(tool) + Cardinality(registry) + Cardinality(pass)
          + (IF t \in unclosed THEN 1 ELSE 0) = 1
        BY <2>4, <2>5, <2>6
    <2> QED BY <2>7 DEF tool, registry, pass
<1> QED BY <1>1, TabsStart, TabsSteps, PTL DEF TabsSpec

(***************************************************************************)
(* PageArms: the waiters of a page                                         *)
(***************************************************************************)
WaiterRecord == [pc : {"idle", "waiting", "took", "expired", "acted", "superseded", "failed", "timeout"},
                 kind : ArmKind, arm : Nat, click : {"no", "clicking", "clicked"},
                 event : PageEvent \cup {NoEvent}]

ArmsTypes ==
    /\ armId \in [ArmKind -> Nat] /\ downloadWaiterDepth \in Nat
    /\ waiter \in [ArmCall -> WaiterRecord]
    /\ emitted \in [PageEvent -> ArmKind \cup {"none"}] /\ managed \subseteq PageEvent

\* The calls of a kind that were armed have the numbers up to the newest, each its own.
Armed(k) == {c \in ArmCall : waiter[c].pc # "idle" /\ waiter[c].kind = k}
NumbersOK ==
    /\ \A k \in ArmKind : armId[k] = Cardinality(Armed(k))
    /\ \A k \in ArmKind : armId[k] > 0 => \E c \in Armed(k) : waiter[c].arm = armId[k]
    /\ \A k \in ArmKind : \A c \in Armed(k) : waiter[c].arm \in 1..armId[k]
    /\ \A k \in ArmKind : \A c, d \in Armed(k) : waiter[c].arm = waiter[d].arm => c = d
    /\ \A c \in ArmCall : waiter[c].pc = "idle" => waiter[c].arm = 0

DepthOK == downloadWaiterDepth = Cardinality(Listening("download"))

\* The newest of those that took an event is the only one to act on it, and is superseded
\* only by one that came later.
EventsOK ==
    /\ \A c \in ArmCall : waiter[c].event # NoEvent =>
         /\ waiter[c].pc \in {"took", "acted", "superseded", "failed"}
         /\ emitted[waiter[c].event] = waiter[c].kind
    /\ \A c, d \in ArmCall :
         waiter[c].pc = "acted" /\ waiter[c].event # NoEvent /\ waiter[d].event = waiter[c].event
           => waiter[d].arm <= waiter[c].arm
    /\ \A c \in ArmCall : waiter[c].pc = "superseded" => NewerThan(c) # {}
    /\ \A e \in managed : emitted[e] = "download" /\ Takers(e) = {}
    /\ \A e \in PageEvent : emitted[e] = "download" => Takers(e) # {} \/ e \in managed

ArmsInv == ArmsTypes /\ NumbersOK /\ DepthOK /\ EventsOK

LEMMA ArmsStart == ArmsInit => ArmsInv
<1> SUFFICES ASSUME ArmsInit PROVE ArmsInv
    OBVIOUS
<1>1. waiter \in [ArmCall -> WaiterRecord]
    BY DEF ArmsInit, NotArmed, WaiterRecord, ArmKind
<1>2. ArmsTypes
    BY <1>1 DEF ArmsInit, ArmsTypes
<1>3. Listening("download") = {} /\ \A k \in ArmKind : Armed(k) = {} /\ armId[k] = 0
    BY DEF ArmsInit, NotArmed, Listening, Armed
<1>4. NumbersOK
    <2>1. \A k \in ArmKind : armId[k] = Cardinality(Armed(k)) /\ ~(armId[k] > 0)
        BY <1>3, FS_EmptySet
    <2>2. \A c \in ArmCall : waiter[c].arm = 0
        BY DEF ArmsInit, NotArmed
    <2> QED BY <1>3, <2>1, <2>2 DEF NumbersOK
<1>5. DepthOK
    BY <1>3, FS_EmptySet DEF ArmsInit, DepthOK
<1>6. EventsOK
    BY ArmsAssumption DEF ArmsInit, NotArmed, EventsOK, Takers, ArmKind
<1> QED BY <1>2, <1>4, <1>5, <1>6 DEF ArmsInv

\* What Max({0, n}) is.
LEMMA MaxOfZero == ASSUME NEW n \in Nat PROVE Max({0, n}) = n
<1>1. n \in {0, n} /\ \A y \in {0, n} : n >= y
    OBVIOUS
<1>2. \A x \in {0, n} : (\A y \in {0, n} : x >= y) => x = n
    OBVIOUS
<1> QED BY <1>1, <1>2 DEF Max

\* A bounded set of numbers has a greatest.
LEMMA Greatest ==
    ASSUME NEW T \in SUBSET Nat, T # {}, NEW n \in Nat, \A x \in T : x <= n
    PROVE  \E x \in T : \A y \in T : y <= x
<1> DEFINE U == {n - x : x \in T}
           R == OpToRel(<, Nat)
<1>1. U \subseteq Nat /\ U # {}
    <2>1. \A x \in T : n - x \in Nat
        OBVIOUS
    <2>2. PICK x \in T : TRUE
        OBVIOUS
    <2>3. n - x \in U
        BY <2>2
    <2> QED BY <2>1, <2>3
<1>2. IsWellFoundedOn(R, Nat)
    BY NatLessThanWellFounded
<1> HIDE DEF R
<1>3. PICK u \in U : \A v \in U : ~(<<v, u>> \in R)
    BY <1>1, <1>2, WFMin
<1>4. \A v \in U : ~(v < u)
    <2> TAKE v \in U
    <2>1. v \in Nat /\ u \in Nat /\ <<v, u>> \notin R
        BY <1>1, <1>3
    <2> QED BY <2>1 DEF R, OpToRel
<1>5. PICK x \in T : u = n - x
    BY <1>3
<1>6. ASSUME NEW y \in T PROVE y <= x
    <2>1. n - y \in U
        BY <1>6
    <2>2. ~(n - y < n - x)
        BY <1>4, <1>5, <2>1
    <2> QED BY <2>2
<1> QED BY <1>6

\* The counter after a cleanup of calls: those of them that listened count no longer.
LEMMA ReleasedCount ==
    ASSUME ArmsInv, NEW cs \in SUBSET ArmCall
    PROVE  /\ Released(cs) = Cardinality(Listening("download") \ cs)
           /\ Released(cs) \in Nat
<1> DEFINE L == Listening("download")
<1>1. IsFiniteSet(L) /\ L \subseteq ArmCall
    BY ArmsAssumption, FS_Subset DEF Listening
<1>2. /\ IsFiniteSet(L \cap cs) /\ IsFiniteSet(L \ cs)
      /\ Cardinality(L \cap cs) \in Nat /\ Cardinality(L \ cs) \in Nat /\ Cardinality(L) \in Nat
    BY <1>1, FS_Subset, FS_CardinalityType
<1>3. Cardinality(L \ cs) = Cardinality(L) - Cardinality(L \cap cs)
    BY <1>1, FS_Difference
<1>4. downloadWaiterDepth = Cardinality(L) /\ cs \cap L = L \cap cs
    BY DEF ArmsInv, DepthOK
<1>5. Released(cs) = Max({0, Cardinality(L \ cs)})
    BY <1>3, <1>4 DEF Released
<1> QED BY <1>2, <1>5, MaxOfZero

\* What a step leaves of a waiter that it does not arm.
SameNumbers ==
    \A c \in ArmCall : /\ waiter'[c].kind = waiter[c].kind /\ waiter'[c].arm = waiter[c].arm
                       /\ waiter'[c].pc = "idle" <=> waiter[c].pc = "idle"

\* A step that arms nobody leaves the numbers as they are.
LEMMA NumbersKept ==
    ASSUME ArmsInv, armId' = armId, SameNumbers
    PROVE  NumbersOK'
<1>1. \A k \in ArmKind : Armed(k)' = Armed(k)
    BY DEF SameNumbers, Armed
<1>2. \A k \in ArmKind : armId'[k] = Cardinality(Armed(k)')
    BY <1>1 DEF ArmsInv, NumbersOK
<1>3. \A k \in ArmKind : Armed(k) \subseteq ArmCall
    BY DEF Armed
<1>4. \A k \in ArmKind : armId'[k] > 0 => \E c \in Armed(k)' : waiter'[c].arm = armId'[k]
    BY <1>1, <1>3 DEF ArmsInv, NumbersOK, SameNumbers
<1>5. \A k \in ArmKind : \A c \in Armed(k)' : waiter'[c].arm \in 1..armId'[k]
    BY <1>1, <1>3 DEF ArmsInv, NumbersOK, SameNumbers
<1>6. \A k \in ArmKind : \A c, d \in Armed(k)' : waiter'[c].arm = waiter'[d].arm => c = d
    BY <1>1, <1>3 DEF ArmsInv, NumbersOK, SameNumbers
<1>7. \A c \in ArmCall : waiter'[c].pc = "idle" => waiter'[c].arm = 0
    BY DEF ArmsInv, NumbersOK, SameNumbers
<1> QED BY <1>2, <1>4, <1>5, <1>6, <1>7 DEF NumbersOK

\* Numbers are of armed calls of a kind, up to the newest.
LEMMA ArmedNumbers ==
    ASSUME ArmsInv, NEW c \in ArmCall, waiter[c].pc # "idle"
    PROVE  /\ waiter[c].kind \in ArmKind /\ c \in Armed(waiter[c].kind)
           /\ armId[waiter[c].kind] \in Nat
           /\ waiter[c].arm \in 1..armId[waiter[c].kind]
<1>1. waiter[c].kind \in ArmKind /\ armId \in [ArmKind -> Nat]
    BY DEF ArmsInv, ArmsTypes, WaiterRecord
<1>2. c \in Armed(waiter[c].kind)
    BY DEF Armed
<1> QED BY <1>1, <1>2 DEF ArmsInv, NumbersOK

\* A call that finds a newer number is not the newest.
LEMMA SomeoneNewer ==
    ASSUME ArmsInv, NEW c \in ArmCall, waiter[c].pc # "idle",
           waiter[c].arm # armId[waiter[c].kind]
    PROVE  NewerThan(c) # {}
<1>1. /\ waiter[c].kind \in ArmKind /\ armId[waiter[c].kind] \in Nat
      /\ waiter[c].arm \in 1..armId[waiter[c].kind]
    BY ArmedNumbers
<1>2. PICK d \in Armed(waiter[c].kind) : waiter[d].arm = armId[waiter[c].kind]
    BY <1>1 DEF ArmsInv, NumbersOK
<1>3. d \in ArmCall /\ waiter[d].kind = waiter[c].kind /\ waiter[d].arm > waiter[c].arm
    BY <1>1, <1>2 DEF Armed
<1> QED BY <1>3 DEF NewerThan

\* A step of calls that go on, without an event.
LEMMA EventsKept ==
    ASSUME ArmsInv, SameNumbers, emitted' = emitted, managed' = managed,
           \A c \in ArmCall : waiter'[c].event = waiter[c].event,
           \A c \in ArmCall : waiter'[c].event # NoEvent =>
              waiter'[c].pc \in {"took", "acted", "superseded", "failed"},
           \A c \in ArmCall : waiter'[c].pc = "acted" /\ waiter[c].pc # "acted" =>
              waiter[c].pc # "idle" /\ waiter[c].arm = armId[waiter[c].kind],
           \A c \in ArmCall : waiter'[c].pc = "superseded" /\ waiter[c].pc # "superseded" =>
              waiter[c].pc # "idle" /\ waiter[c].arm # armId[waiter[c].kind]
    PROVE  EventsOK'
<1>1. \A e \in PageEvent : Takers(e)' = Takers(e)
    BY DEF Takers
<1>2. \A c \in ArmCall : NewerThan(c)' = NewerThan(c)
    BY DEF NewerThan, SameNumbers
<1>3. \A c \in ArmCall : waiter'[c].event # NoEvent =>
         /\ waiter'[c].pc \in {"took", "acted", "superseded", "failed"}
         /\ emitted'[waiter'[c].event] = waiter'[c].kind
    BY DEF ArmsInv, EventsOK, SameNumbers
<1>4. ASSUME NEW c \in ArmCall, NEW d \in ArmCall, waiter'[c].pc = "acted",
             waiter'[c].event # NoEvent, waiter'[d].event = waiter'[c].event
      PROVE  waiter'[d].arm <= waiter'[c].arm
    <2>1. waiter'[c].arm = waiter[c].arm /\ waiter'[d].arm = waiter[d].arm
        BY DEF SameNumbers
    <2>2. waiter[c].event # NoEvent /\ waiter[d].event = waiter[c].event
        BY <1>4
    <2>3. CASE waiter[c].pc = "acted"
        BY <2>1, <2>2, <2>3 DEF ArmsInv, EventsOK
    <2>4. CASE waiter[c].pc # "acted"
        <3>1. waiter[c].arm = armId[waiter[c].kind]
            BY <1>4, <2>4
        <3>2. waiter[d].kind = waiter[c].kind
            BY <2>2 DEF ArmsInv, EventsOK
        <3>3. waiter[d].pc # "idle"
            BY <2>2 DEF ArmsInv, EventsOK
        <3>4. waiter[d].arm <= armId[waiter[d].kind]
            BY <3>3, ArmedNumbers
        <3> QED BY <2>1, <3>1, <3>2, <3>4
    <2> QED BY <2>3, <2>4
<1>5. ASSUME NEW c \in ArmCall, waiter'[c].pc = "superseded" PROVE NewerThan(c)' # {}
    <2>1. NewerThan(c) # {}
        BY <1>5, SomeoneNewer DEF ArmsInv, EventsOK
    <2> QED BY <1>2, <2>1
<1>6. managed \subseteq PageEvent
    BY DEF ArmsInv, ArmsTypes
<1>7. \A e \in managed' : emitted'[e] = "download" /\ Takers(e)' = {}
    BY <1>1, <1>6 DEF ArmsInv, EventsOK
<1>8. \A e \in PageEvent : emitted'[e] = "download" => Takers(e)' # {} \/ e \in managed'
    BY <1>1 DEF ArmsInv, EventsOK
<1> QED BY <1>3, <1>4, <1>5, <1>7, <1>8 DEF EventsOK

\* What a step does that changes the record of one call only, but for its number.
LEMMA OneWaiter ==
    ASSUME ArmsInv, NEW c \in ArmCall, NEW w \in WaiterRecord,
           waiter' = [waiter EXCEPT ![c] = w],
           w.kind = waiter[c].kind, w.arm = waiter[c].arm,
           waiter[c].pc # "idle", w.pc # "idle"
    PROVE  /\ waiter' \in [ArmCall -> WaiterRecord] /\ SameNumbers
           /\ waiter'[c] = w /\ \A d \in ArmCall \ {c} : waiter'[d] = waiter[d]
<1>1. waiter \in [ArmCall -> WaiterRecord]
    BY DEF ArmsInv, ArmsTypes
<1>2. waiter' \in [ArmCall -> WaiterRecord]
    BY <1>1
<1>3. waiter'[c] = w /\ \A d \in ArmCall \ {c} : waiter'[d] = waiter[d]
    BY <1>1
<1> QED BY <1>2, <1>3 DEF SameNumbers

LEMMA WaiterExpiresKeeps == ASSUME ArmsInv, NEW c \in ArmCall, WaiterExpires(c) PROVE ArmsInv'
<1> DEFINE w == [waiter[c] EXCEPT !.pc = "expired"]
<1>1. waiter[c] \in WaiterRecord /\ waiter[c].pc = "waiting"
    BY DEF WaiterExpires, ArmsInv, ArmsTypes
<1>2. /\ w \in WaiterRecord /\ w.pc = "expired" /\ w.kind = waiter[c].kind
      /\ w.arm = waiter[c].arm /\ w.event = waiter[c].event
    BY <1>1 DEF WaiterRecord
<1>3. waiter' = [waiter EXCEPT ![c] = w]
    BY DEF WaiterExpires
<1> HIDE DEF w
<1>4. /\ waiter' \in [ArmCall -> WaiterRecord] /\ SameNumbers
      /\ waiter'[c] = w /\ \A d \in ArmCall \ {c} : waiter'[d] = waiter[d]
    BY <1>1, <1>2, <1>3, OneWaiter
<1>5. armId' = armId /\ emitted' = emitted /\ managed' = managed
    BY DEF WaiterExpires
<1>6. Listening("download")' = Listening("download") \ {c}
    BY <1>2, <1>4 DEF Listening
<1>7. DepthOK' /\ downloadWaiterDepth' \in Nat
    BY <1>6, ReleasedCount DEF WaiterExpires, DepthOK
<1>8. ArmsTypes'
    BY <1>4, <1>5, <1>7 DEF ArmsInv, ArmsTypes
<1>9. NumbersOK'
    BY <1>4, <1>5, NumbersKept
<1>10. waiter[c].event = NoEvent
    BY <1>1 DEF ArmsInv, EventsOK
<1>11. EventsOK'
    <2>1. \A d \in ArmCall : waiter'[d].event = waiter[d].event
        BY <1>2, <1>4
    <2>2. \A d \in ArmCall : waiter'[d].event # NoEvent =>
             waiter'[d].pc \in {"took", "acted", "superseded", "failed"}
        BY <1>2, <1>4, <1>10 DEF ArmsInv, EventsOK
    <2>3. \A d \in ArmCall : waiter'[d].pc \in {"acted", "superseded"} => waiter'[d].pc = waiter[d].pc
        BY <1>2, <1>4
    <2> QED BY <1>4, <1>5, <2>1, <2>2, <2>3, EventsKept
<1> QED BY <1>7, <1>8, <1>9, <1>11 DEF ArmsInv

LEMMA ClickEndsKeeps == ASSUME ArmsInv, NEW c \in ArmCall, ClickEnds(c) PROVE ArmsInv'
<1> DEFINE w == [waiter[c] EXCEPT !.click = "clicked"]
<1>1. waiter[c] \in WaiterRecord /\ waiter[c].pc \in {"waiting", "took", "expired"}
    BY DEF ClickEnds, ArmsInv, ArmsTypes
<1>2. /\ w \in WaiterRecord /\ w.pc = waiter[c].pc /\ w.kind = waiter[c].kind
      /\ w.arm = waiter[c].arm /\ w.event = waiter[c].event
    BY <1>1 DEF WaiterRecord
<1>3. waiter' = [waiter EXCEPT ![c] = w]
    BY DEF ClickEnds
<1> HIDE DEF w
<1>4. /\ waiter' \in [ArmCall -> WaiterRecord] /\ SameNumbers
      /\ waiter'[c] = w /\ \A d \in ArmCall \ {c} : waiter'[d] = waiter[d]
    BY <1>1, <1>2, <1>3, OneWaiter
<1>5. /\ armId' = armId /\ emitted' = emitted /\ managed' = managed
      /\ downloadWaiterDepth' = downloadWaiterDepth
    BY DEF ClickEnds
<1>6. Listening("download")' = Listening("download")
    BY <1>2, <1>4 DEF Listening
<1>7. DepthOK'
    BY <1>5, <1>6 DEF ArmsInv, DepthOK
<1>8. ArmsTypes'
    BY <1>4, <1>5 DEF ArmsInv, ArmsTypes
<1>9. NumbersOK'
    BY <1>4, <1>5, NumbersKept
<1>10. \A d \in ArmCall : waiter'[d].event = waiter[d].event /\ waiter'[d].pc = waiter[d].pc
    BY <1>2, <1>4
<1>11. \A d \in ArmCall : waiter'[d].event # NoEvent =>
             waiter'[d].pc \in {"took", "acted", "superseded", "failed"}
    BY <1>10 DEF ArmsInv, EventsOK
<1>12. EventsOK'
    BY <1>4, <1>5, <1>10, <1>11, EventsKept
<1> QED BY <1>7, <1>8, <1>9, <1>12 DEF ArmsInv

LEMMA ClickFailsKeeps == ASSUME ArmsInv, NEW c \in ArmCall, ClickFails(c) PROVE ArmsInv'
<1> DEFINE w == [waiter[c] EXCEPT !.pc = "failed"]
<1>1. waiter[c] \in WaiterRecord /\ waiter[c].pc \in {"waiting", "took", "expired"}
    BY DEF ClickFails, ArmsInv, ArmsTypes
<1>2. /\ w \in WaiterRecord /\ w.pc = "failed" /\ w.kind = waiter[c].kind
      /\ w.arm = waiter[c].arm /\ w.event = waiter[c].event
    BY <1>1 DEF WaiterRecord
<1>3. waiter' = [waiter EXCEPT ![c] = w]
    BY DEF ClickFails
<1> HIDE DEF w
<1>4. /\ waiter' \in [ArmCall -> WaiterRecord] /\ SameNumbers
      /\ waiter'[c] = w /\ \A d \in ArmCall \ {c} : waiter'[d] = waiter[d]
    BY <1>1, <1>2, <1>3, OneWaiter
<1>5. armId' = armId /\ emitted' = emitted /\ managed' = managed
    BY DEF ClickFails
<1>6. Listening("download")' = Listening("download") \ {c}
    BY <1>2, <1>4 DEF Listening
<1>7. DepthOK' /\ downloadWaiterDepth' \in Nat
    BY <1>6, ReleasedCount DEF ClickFails, DepthOK
<1>8. ArmsTypes'
    BY <1>4, <1>5, <1>7 DEF ArmsInv, ArmsTypes
<1>9. NumbersOK'
    BY <1>4, <1>5, NumbersKept
<1>10. EventsOK'
    <2>1. \A d \in ArmCall : waiter'[d].event = waiter[d].event
        BY <1>2, <1>4
    <2>2. \A d \in ArmCall : waiter'[d].event # NoEvent =>
             waiter'[d].pc \in {"took", "acted", "superseded", "failed"}
        BY <1>2, <1>4 DEF ArmsInv, EventsOK
    <2>3. \A d \in ArmCall : waiter'[d].pc \in {"acted", "superseded"} => waiter'[d].pc = waiter[d].pc
        BY <1>2, <1>4
    <2> QED BY <1>4, <1>5, <2>1, <2>2, <2>3, EventsKept
<1> QED BY <1>7, <1>8, <1>9, <1>10 DEF ArmsInv

LEMMA CallGoesOnKeeps == ASSUME ArmsInv, NEW c \in ArmCall, CallGoesOn(c) PROVE ArmsInv'
<1>1. waiter[c] \in WaiterRecord /\ waiter[c].pc \in {"took", "expired"}
    BY DEF CallGoesOn, ArmsInv, ArmsTypes
<1>2. PICK pc \in CASE waiter[c].pc = "expired" -> {"timeout"}
                     [] waiter[c].arm # armId[waiter[c].kind] -> {"superseded"}
                     [] OTHER -> {"acted", "failed"} :
         /\ waiter' = [waiter EXCEPT ![c].pc = pc]
         /\ downloadWaiterDepth' =
               IF waiter[c].kind = "download" /\ pc # "acted" THEN Released({c})
               ELSE downloadWaiterDepth
    BY DEF CallGoesOn
<1>3. /\ pc \in {"timeout", "superseded", "acted", "failed"}
      /\ pc = "superseded" => waiter[c].arm # armId[waiter[c].kind]
      /\ pc = "acted" => waiter[c].arm = armId[waiter[c].kind]
      /\ pc = "timeout" => waiter[c].pc = "expired"
    <2>1. CASE waiter[c].pc = "expired"
        BY <1>2, <2>1
    <2>2. CASE waiter[c].pc # "expired" /\ waiter[c].arm # armId[waiter[c].kind]
        BY <1>2, <2>2
    <2>3. CASE waiter[c].pc # "expired" /\ waiter[c].arm = armId[waiter[c].kind]
        BY <1>2, <2>3
    <2> QED BY <2>1, <2>2, <2>3
<1> DEFINE w == [waiter[c] EXCEPT !.pc = pc]
<1>4. /\ w \in WaiterRecord /\ w.pc = pc /\ w.kind = waiter[c].kind
      /\ w.arm = waiter[c].arm /\ w.event = waiter[c].event
    BY <1>1, <1>3 DEF WaiterRecord
<1>5. waiter' = [waiter EXCEPT ![c] = w]
    BY <1>2
<1> HIDE DEF w
<1>6. waiter[c].pc # "idle" /\ w.pc # "idle"
    BY <1>1, <1>3, <1>4
<1>7. /\ waiter' \in [ArmCall -> WaiterRecord] /\ SameNumbers
      /\ waiter'[c] = w /\ \A d \in ArmCall \ {c} : waiter'[d] = waiter[d]
    BY <1>4, <1>5, <1>6, OneWaiter
<1>8. armId' = armId /\ emitted' = emitted /\ managed' = managed
    BY DEF CallGoesOn
<1>9. /\ Listening("download")' = Listening("download")
      /\ Listening("download") \ {c} = Listening("download")
    BY <1>1, <1>3, <1>4, <1>7 DEF Listening
<1>10. DepthOK' /\ downloadWaiterDepth' \in Nat
    <2>1. Released({c}) = Cardinality(Listening("download")) /\ Released({c}) \in Nat
        BY <1>9, ReleasedCount
    <2>2. downloadWaiterDepth = Cardinality(Listening("download")) /\ downloadWaiterDepth \in Nat
        BY DEF ArmsInv, DepthOK, ArmsTypes
    <2>3. downloadWaiterDepth' \in {Released({c}), downloadWaiterDepth}
        BY <1>2
    <2> QED BY <1>9, <2>1, <2>2, <2>3 DEF DepthOK
<1>11. ArmsTypes'
    BY <1>7, <1>8, <1>10 DEF ArmsInv, ArmsTypes
<1>12. NumbersOK'
    BY <1>7, <1>8, NumbersKept
<1>13. EventsOK'
    <2>1. \A d \in ArmCall : waiter'[d].event = waiter[d].event
        BY <1>4, <1>7
    <2>2. waiter[c].pc = "expired" => waiter[c].event = NoEvent
        BY DEF ArmsInv, EventsOK
    <2>3. \A d \in ArmCall : waiter'[d].event # NoEvent =>
             waiter'[d].pc \in {"took", "acted", "superseded", "failed"}
        BY <1>3, <1>4, <1>7, <2>2 DEF ArmsInv, EventsOK
    <2>4. \A d \in ArmCall : waiter'[d].pc = "acted" /\ waiter[d].pc # "acted" =>
              waiter[d].pc # "idle" /\ waiter[d].arm = armId[waiter[d].kind]
        BY <1>3, <1>4, <1>6, <1>7
    <2>5. \A d \in ArmCall : waiter'[d].pc = "superseded" /\ waiter[d].pc # "superseded" =>
              waiter[d].pc # "idle" /\ waiter[d].arm # armId[waiter[d].kind]
        BY <1>3, <1>4, <1>6, <1>7
    <2> QED BY <1>7, <1>8, <2>1, <2>3, <2>4, <2>5, EventsKept
<1> QED BY <1>10, <1>11, <1>12, <1>13 DEF ArmsInv

LEMMA PageEmitsKeeps ==
    ASSUME ArmsInv, NEW e \in PageEvent, NEW k \in ArmKind, PageEmits(e, k)
    PROVE  ArmsInv'
<1>1. /\ waiter \in [ArmCall -> WaiterRecord] /\ emitted \in [PageEvent -> ArmKind \cup {"none"}]
      /\ armId \in [ArmKind -> Nat] /\ managed \subseteq PageEvent
      /\ downloadWaiterDepth \in Nat
    BY DEF ArmsInv, ArmsTypes
<1>2. /\ emitted[e] = "none" /\ emitted' = [emitted EXCEPT ![e] = k] /\ armId' = armId
      /\ waiter' = [c \in ArmCall |-> IF c \in Listening(k)
                                      THEN [waiter[c] EXCEPT !.pc = "took", !.event = e]
                                      ELSE waiter[c]]
      /\ managed' = IF k = "download" /\ downloadWaiterDepth = 0 THEN managed \cup {e} ELSE managed
      /\ downloadWaiterDepth' = IF k = "download" THEN Released(Listening(k))
                                ELSE downloadWaiterDepth
    BY DEF PageEmits
<1>3. \A c \in Listening(k) : c \in ArmCall /\ waiter[c].pc = "waiting" /\ waiter[c].kind = k
    BY DEF Listening
<1>4. ASSUME NEW c \in Listening(k)
      PROVE  /\ waiter'[c] \in WaiterRecord /\ waiter'[c].pc = "took" /\ waiter'[c].event = e
             /\ waiter'[c].kind = waiter[c].kind /\ waiter'[c].arm = waiter[c].arm
    <2> DEFINE w == [waiter[c] EXCEPT !.pc = "took", !.event = e]
    <2>1. waiter[c] \in WaiterRecord
        BY <1>1, <1>3
    <2>2. /\ w \in WaiterRecord /\ w.pc = "took" /\ w.event = e
          /\ w.kind = waiter[c].kind /\ w.arm = waiter[c].arm
        BY <2>1 DEF WaiterRecord
    <2>3. waiter'[c] = w
        BY <1>2, <1>3
    <2> HIDE DEF w
    <2> QED BY <2>2, <2>3
<1>5. \A c \in ArmCall \ Listening(k) : waiter'[c] = waiter[c]
    BY <1>2
<1>6. waiter' \in [ArmCall -> WaiterRecord]
    <2>1. \A c \in ArmCall : waiter'[c] \in WaiterRecord
        BY <1>1, <1>4, <1>5
    <2>2. waiter' = [c \in ArmCall |-> waiter'[c]]
        BY <1>2
    <2> QED BY <2>1, <2>2
<1>7. SameNumbers
    BY <1>3, <1>4, <1>5 DEF SameNumbers
<1>8. NumbersOK'
    BY <1>2, <1>7, NumbersKept
<1>9. ASSUME k = "download" PROVE DepthOK'
    <2>1. Listening("download")' = {}
        BY <1>3, <1>4, <1>5, <1>9 DEF Listening
    <2>2. Released(Listening(k)) = Cardinality(Listening("download") \ Listening(k))
        BY <1>3, ReleasedCount
    <2>3. Listening("download") \ Listening(k) = {}
        BY <1>9
    <2>4. downloadWaiterDepth' = Cardinality({}) /\ Cardinality({}) = 0
        BY <1>2, <1>9, <2>2, <2>3, FS_EmptySet
    <2> QED BY <2>1, <2>4 DEF DepthOK
<1>10. ASSUME k # "download" PROVE DepthOK'
    <2>1. \A c \in Listening("download") : c \notin Listening(k)
        BY <1>10 DEF Listening
    <2>2. Listening("download")' = Listening("download")
        BY <1>4, <1>5, <2>1 DEF Listening
    <2> QED BY <1>2, <1>10, <2>2 DEF ArmsInv, DepthOK
<1>11. DepthOK'
    BY <1>9, <1>10
<1>12. downloadWaiterDepth' \in Nat
    BY <1>1, <1>2, <1>3, ReleasedCount
<1>13. managed' \subseteq PageEvent /\ managed \subseteq managed'
       /\ (e \in managed' => e \in managed \/ (k = "download" /\ downloadWaiterDepth = 0))
       /\ \A x \in managed' : x = e \/ x \in managed
    BY <1>1, <1>2
<1>14. /\ emitted' \in [PageEvent -> ArmKind \cup {"none"}] /\ emitted'[e] = k
       /\ \A x \in PageEvent \ {e} : emitted'[x] = emitted[x]
    BY <1>1, <1>2
<1>15. ArmsTypes'
    BY <1>1, <1>2, <1>6, <1>12, <1>13, <1>14 DEF ArmsTypes
<1>16. e # NoEvent /\ "none" \notin ArmKind
    BY ArmsAssumption DEF ArmKind
\* Nobody took the event, or saved it, before it happened.
<1>17. \A c \in ArmCall : waiter[c].event # e
    <2> SUFFICES ASSUME NEW c \in ArmCall, waiter[c].event = e PROVE FALSE
        OBVIOUS
    <2>1. waiter[c].kind \in ArmKind
        BY <1>1 DEF WaiterRecord
    <2>2. emitted[e] = waiter[c].kind
        BY <1>16 DEF ArmsInv, EventsOK
    <2> QED BY <1>2, <1>16, <2>1, <2>2
<1>18. e \notin managed
    BY <1>2 DEF ArmsInv, EventsOK
<1>19. \A c \in ArmCall : /\ waiter'[c].event # e => waiter'[c] = waiter[c]
                          /\ waiter'[c].event = e => c \in Listening(k)
    BY <1>4, <1>5, <1>17
<1>20. \A c \in ArmCall : waiter'[c].event # NoEvent =>
          /\ waiter'[c].pc \in {"took", "acted", "superseded", "failed"}
          /\ emitted'[waiter'[c].event] = waiter'[c].kind
    <2> SUFFICES ASSUME NEW c \in ArmCall, waiter'[c].event # NoEvent
                 PROVE  /\ waiter'[c].pc \in {"took", "acted", "superseded", "failed"}
                        /\ emitted'[waiter'[c].event] = waiter'[c].kind
        OBVIOUS
    <2>1. CASE c \in Listening(k)
        BY <1>3, <1>4, <1>14, <2>1
    <2>2. CASE c \notin Listening(k)
        <3>1. waiter'[c] = waiter[c] /\ waiter[c].event \in PageEvent \ {e}
            BY <1>1, <1>5, <1>17, <2>2 DEF WaiterRecord
        <3> QED BY <1>14, <3>1 DEF ArmsInv, EventsOK
    <2> QED BY <2>1, <2>2
<1>21. ASSUME NEW c \in ArmCall, NEW d \in ArmCall, waiter'[c].pc = "acted",
              waiter'[c].event # NoEvent, waiter'[d].event = waiter'[c].event
       PROVE  waiter'[d].arm <= waiter'[c].arm
    <2>1. c \notin Listening(k)
        BY <1>4, <1>21
    <2>2. waiter'[c] = waiter[c] /\ waiter'[d].event # e
        BY <1>5, <1>17, <1>21, <2>1
    <2>3. waiter'[d] = waiter[d]
        BY <1>19, <2>2
    <2> QED BY <1>21, <2>2, <2>3 DEF ArmsInv, EventsOK
<1>22. ASSUME NEW c \in ArmCall, waiter'[c].pc = "superseded" PROVE NewerThan(c)' # {}
    <2>1. c \notin Listening(k)
        BY <1>4, <1>22
    <2>2. NewerThan(c)' = NewerThan(c)
        BY <1>7 DEF NewerThan, SameNumbers
    <2> QED BY <1>5, <1>22, <2>1, <2>2 DEF ArmsInv, EventsOK
<1>23. \A x \in PageEvent \ {e} : Takers(x)' = Takers(x)
    <2>1. \A x \in PageEvent \ {e} : \A c \in ArmCall : waiter'[c].event = x <=> waiter[c].event = x
        <3>1. \A c \in ArmCall : c \in Listening(k) =>
                 waiter'[c].event = e /\ waiter[c].event = NoEvent
            BY <1>3, <1>4 DEF ArmsInv, EventsOK
        <3> QED BY <1>5, <3>1, ArmsAssumption
    <2> QED BY <2>1 DEF Takers
<1>24. Takers(e)' = Listening(k)
    BY <1>3, <1>4, <1>19 DEF Takers
<1>25. \A x \in managed' : emitted'[x] = "download" /\ Takers(x)' = {}
    <2> SUFFICES ASSUME NEW x \in managed' PROVE emitted'[x] = "download" /\ Takers(x)' = {}
        OBVIOUS
    <2>1. CASE x = e
        <3>1. k = "download" /\ Cardinality(Listening("download")) = 0
            BY <1>13, <1>18, <2>1 DEF ArmsInv, DepthOK
        <3>2. IsFiniteSet(Listening("download"))
            BY ArmsAssumption, FS_Subset DEF Listening
        <3>3. Listening("download") = {}
            BY <3>1, <3>2, FS_EmptySet
        <3> QED BY <1>14, <1>24, <2>1, <3>1, <3>3
    <2>2. CASE x # e
        <3>1. x \in managed /\ x \in PageEvent \ {e}
            BY <1>1, <1>13, <2>2
        <3> QED BY <1>14, <1>23, <3>1 DEF ArmsInv, EventsOK
    <2> QED BY <2>1, <2>2
<1>26. \A x \in PageEvent : emitted'[x] = "download" => Takers(x)' # {} \/ x \in managed'
    <2> SUFFICES ASSUME NEW x \in PageEvent, emitted'[x] = "download"
                 PROVE  Takers(x)' # {} \/ x \in managed'
        OBVIOUS
    <2>1. CASE x = e
        <3>1. k = "download"
            BY <1>14, <2>1
        <3>2. CASE downloadWaiterDepth = 0
            BY <1>2, <2>1, <3>1, <3>2
        <3>3. CASE downloadWaiterDepth # 0
            <4>1. Listening("download") # {}
                BY <3>3, FS_EmptySet DEF ArmsInv, DepthOK
            <4> QED BY <1>24, <2>1, <3>1, <4>1
        <3> QED BY <3>2, <3>3
    <2>2. CASE x # e
        BY <1>13, <1>14, <1>23, <2>2 DEF ArmsInv, EventsOK
    <2> QED BY <2>1, <2>2
<1>27. EventsOK'
    BY <1>20, <1>21, <1>22, <1>25, <1>26 DEF EventsOK
<1> QED BY <1>8, <1>11, <1>15, <1>27 DEF ArmsInv

LEMMA ArmWaiterKeeps ==
    ASSUME ArmsInv, NEW c \in ArmCall, NEW k \in ArmKind, NEW click \in {"no", "clicking"},
           ArmWaiter(c, k, click)
    PROVE  ArmsInv'
<1> DEFINE n == armId[k] + 1
           w == [pc |-> "waiting", kind |-> k, arm |-> n, click |-> click, event |-> NoEvent]
<1>1. /\ waiter \in [ArmCall -> WaiterRecord] /\ armId \in [ArmKind -> Nat]
      /\ downloadWaiterDepth \in Nat
    BY DEF ArmsInv, ArmsTypes
<1>2. n \in Nat /\ n > 0 /\ n > armId[k]
    BY <1>1
<1>3. /\ waiter[c].pc = "idle" /\ armId' = [armId EXCEPT ![k] = n]
      /\ waiter' = [waiter EXCEPT ![c] = w]
      /\ downloadWaiterDepth' = downloadWaiterDepth + (IF k = "download" THEN 1 ELSE 0)
      /\ emitted' = emitted /\ managed' = managed
    BY DEF ArmWaiter
<1>4. /\ w \in WaiterRecord /\ w.pc = "waiting" /\ w.kind = k /\ w.arm = n /\ w.event = NoEvent
    BY <1>2 DEF WaiterRecord
<1>5. n = armId[k] + 1
    OBVIOUS
<1> HIDE DEF w, n
<1>6. /\ waiter' \in [ArmCall -> WaiterRecord] /\ waiter'[c] = w
      /\ \A d \in ArmCall \ {c} : waiter'[d] = waiter[d]
    BY <1>1, <1>3, <1>4
<1>7. /\ armId' \in [ArmKind -> Nat] /\ armId'[k] = n
      /\ \A j \in ArmKind \ {k} : armId'[j] = armId[j]
    BY <1>1, <1>2, <1>3
<1>8. /\ Armed(k)' = Armed(k) \cup {c} /\ c \notin Armed(k)
      /\ \A j \in ArmKind \ {k} : Armed(j)' = Armed(j) /\ c \notin Armed(j)
    BY <1>3, <1>4, <1>6 DEF Armed
<1>9. \A j \in ArmKind : IsFiniteSet(Armed(j)) /\ Armed(j) \subseteq ArmCall
    BY ArmsAssumption, FS_Subset DEF Armed
<1>10. \A j \in ArmKind : armId'[j] = Cardinality(Armed(j)')
    <2>1. armId'[k] = Cardinality(Armed(k)')
        <3>1. Cardinality(Armed(k) \cup {c}) = Cardinality(Armed(k)) + 1
            BY <1>8, <1>9, FS_AddElement
        <3> QED BY <1>5, <1>7, <1>8, <3>1 DEF ArmsInv, NumbersOK
    <2>2. \A j \in ArmKind \ {k} : armId'[j] = Cardinality(Armed(j)')
        BY <1>7, <1>8 DEF ArmsInv, NumbersOK
    <2> QED BY <2>1, <2>2
<1>11. \A j \in ArmKind : armId'[j] > 0 => \E d \in Armed(j)' : waiter'[d].arm = armId'[j]
    <2>1. c \in Armed(k)' /\ waiter'[c].arm = armId'[k]
        BY <1>4, <1>6, <1>7, <1>8
    <2>2. \A j \in ArmKind \ {k} : \A d \in Armed(j) : d \in ArmCall \ {c}
        BY <1>8, <1>9
    <2>3. \A j \in ArmKind \ {k} : armId'[j] > 0 =>
             \E d \in Armed(j)' : waiter'[d].arm = armId'[j]
        BY <1>6, <1>7, <1>8, <2>2 DEF ArmsInv, NumbersOK
    <2> QED BY <2>1, <2>3
<1>12. \A j \in ArmKind : \A d \in Armed(j) : d \in ArmCall \ {c} /\ waiter'[d] = waiter[d]
    BY <1>6, <1>8, <1>9
<1>13. \A j \in ArmKind : \A d \in Armed(j)' : waiter'[d].arm \in 1..armId'[j]
    <2>1. waiter'[c].arm \in 1..armId'[k]
        BY <1>2, <1>4, <1>6, <1>7
    <2>2. ASSUME NEW j \in ArmKind, NEW d \in Armed(j) PROVE waiter'[d].arm \in 1..armId'[j]
        <3>1. waiter'[d].arm \in 1..armId[j] /\ armId[j] \in Nat
            BY <1>1, <1>12 DEF ArmsInv, NumbersOK
        <3>2. armId'[j] \in Nat /\ armId[j] <= armId'[j]
            BY <1>1, <1>2, <1>7
        <3> QED BY <3>1, <3>2
    <2> QED BY <1>8, <2>1, <2>2
<1>14. \A j \in ArmKind : \A d, f \in Armed(j)' : waiter'[d].arm = waiter'[f].arm => d = f
    <2>1. \A j \in ArmKind : \A d, f \in Armed(j) : waiter'[d].arm = waiter'[f].arm => d = f
        BY <1>12 DEF ArmsInv, NumbersOK
    <2>2. \A d \in Armed(k) : waiter'[d].arm # waiter'[c].arm
        <3>1. \A d \in Armed(k) : waiter'[d].arm \in 1..armId[k]
            BY <1>12 DEF ArmsInv, NumbersOK
        <3> QED BY <1>1, <1>2, <1>4, <1>6, <3>1
    <2> QED BY <1>8, <2>1, <2>2
<1>15. NumbersOK'
    <2>1. \A d \in ArmCall : waiter'[d].pc = "idle" => waiter'[d].arm = 0
        BY <1>4, <1>6 DEF ArmsInv, NumbersOK
    <2> QED BY <1>10, <1>11, <1>13, <1>14, <2>1 DEF NumbersOK
<1>16. DepthOK' /\ downloadWaiterDepth' \in Nat
    <2> DEFINE L == Listening("download")
    <2>1. IsFiniteSet(L) /\ c \notin L /\ downloadWaiterDepth = Cardinality(L)
        BY <1>3, ArmsAssumption, FS_Subset DEF Listening, ArmsInv, DepthOK
    <2>2. CASE k = "download"
        <3>1. L' = L \cup {c}
            BY <1>3, <1>4, <1>6, <2>2 DEF Listening
        <3>2. Cardinality(L \cup {c}) = Cardinality(L) + 1
            BY <2>1, FS_AddElement
        <3>3. downloadWaiterDepth' = downloadWaiterDepth + 1
            BY <1>3, <2>2
        <3> QED BY <1>1, <2>1, <3>1, <3>2, <3>3 DEF DepthOK
    <2>3. CASE k # "download"
        <3>1. L' = L
            BY <1>3, <1>4, <1>6, <2>3 DEF Listening
        <3> QED BY <1>1, <1>3, <2>1, <2>3, <3>1 DEF DepthOK
    <2> QED BY <2>2, <2>3
<1>17. waiter[c].event = NoEvent /\ waiter[c].arm = 0
    BY <1>3 DEF ArmsInv, EventsOK, NumbersOK
<1>18. \A d \in ArmCall : waiter'[d].event = waiter[d].event
    BY <1>4, <1>6, <1>17
<1>19. \A d \in ArmCall : waiter'[d].event # NoEvent => waiter'[d] = waiter[d]
    BY <1>4, <1>6
<1>20. \A e \in PageEvent : Takers(e)' = Takers(e)
    BY <1>18 DEF Takers
<1>21. \A d \in ArmCall : waiter'[d].event # NoEvent =>
          /\ waiter'[d].pc \in {"took", "acted", "superseded", "failed"}
          /\ emitted'[waiter'[d].event] = waiter'[d].kind
    BY <1>3, <1>19 DEF ArmsInv, EventsOK
<1>22. \A d, f \in ArmCall :
          waiter'[d].pc = "acted" /\ waiter'[d].event # NoEvent /\ waiter'[f].event = waiter'[d].event
            => waiter'[f].arm <= waiter'[d].arm
    BY <1>19 DEF ArmsInv, EventsOK
<1>23. ASSUME NEW d \in ArmCall, waiter'[d].pc = "superseded" PROVE NewerThan(d)' # {}
    <2>1. waiter'[d] = waiter[d] /\ waiter[d].pc = "superseded"
        BY <1>4, <1>6, <1>23
    <2>2. PICK m \in NewerThan(d) : TRUE
        BY <2>1 DEF ArmsInv, EventsOK
    <2>3. /\ m \in ArmCall /\ waiter[m].kind = waiter[d].kind /\ waiter[m].arm > waiter[d].arm
        BY DEF NewerThan
    <2>4. waiter[d].arm \in Nat
        BY <1>1 DEF WaiterRecord
    <2>5. m # c
        BY <1>17, <2>3, <2>4
    <2>6. waiter'[m] = waiter[m]
        BY <1>6, <2>3, <2>5
    <2> QED BY <2>1, <2>3, <2>6 DEF NewerThan
<1>24. managed \subseteq PageEvent
    BY DEF ArmsInv, ArmsTypes
<1>25. EventsOK'
    <2>1. \A e \in managed' : emitted'[e] = "download" /\ Takers(e)' = {}
        BY <1>3, <1>20, <1>24 DEF ArmsInv, EventsOK
    <2>2. \A e \in PageEvent : emitted'[e] = "download" => Takers(e)' # {} \/ e \in managed'
        BY <1>3, <1>20 DEF ArmsInv, EventsOK
    <2> QED BY <1>21, <1>22, <1>23, <2>1, <2>2 DEF EventsOK
<1>26. ArmsTypes'
    BY <1>3, <1>6, <1>7, <1>16 DEF ArmsInv, ArmsTypes
<1> QED BY <1>15, <1>16, <1>25, <1>26 DEF ArmsInv

LEMMA ArmsStep == ArmsInv /\ [ArmsNext]_armVars => ArmsInv'
<1> SUFFICES ASSUME ArmsInv, [ArmsNext]_armVars PROVE ArmsInv'
    OBVIOUS
<1>1. ASSUME NEW c \in ArmCall, waitForDownload(c) PROVE ArmsInv'
    BY <1>1, ArmWaiterKeeps DEF waitForDownload, ArmKind
<1>2. ASSUME NEW c \in ArmCall, downloadByClick(c) PROVE ArmsInv'
    BY <1>2, ArmWaiterKeeps DEF downloadByClick, ArmKind
<1>3. ASSUME NEW c \in ArmCall, armFileUpload(c) PROVE ArmsInv'
    BY <1>3, ArmWaiterKeeps DEF armFileUpload, ArmKind
<1>4. ASSUME NEW c \in ArmCall, armDialog(c) PROVE ArmsInv'
    BY <1>4, ArmWaiterKeeps DEF armDialog, ArmKind
<1>5. ASSUME NEW c \in ArmCall, WaiterExpires(c) PROVE ArmsInv'
    BY <1>5, WaiterExpiresKeeps
<1>6. ASSUME NEW c \in ArmCall, ClickEnds(c) PROVE ArmsInv'
    BY <1>6, ClickEndsKeeps
<1>7. ASSUME NEW c \in ArmCall, ClickFails(c) PROVE ArmsInv'
    BY <1>7, ClickFailsKeeps
<1>8. ASSUME NEW c \in ArmCall, CallGoesOn(c) PROVE ArmsInv'
    BY <1>8, CallGoesOnKeeps
<1>9. ASSUME NEW e \in PageEvent, NEW k \in ArmKind, PageEmits(e, k) PROVE ArmsInv'
    BY <1>9, PageEmitsKeeps
<1>10. CASE UNCHANGED armVars
    <2>1. \A k \in ArmKind : Armed(k)' = Armed(k)
        BY <1>10 DEF armVars, Armed
    <2>2. Listening("download")' = Listening("download")
        BY <1>10 DEF armVars, Listening
    <2>3. \A e \in PageEvent : Takers(e)' = Takers(e)
        BY <1>10 DEF armVars, Takers
    <2>4. \A c \in ArmCall : NewerThan(c)' = NewerThan(c)
        BY <1>10 DEF armVars, NewerThan
    <2>5. ArmsTypes'
        BY <1>10 DEF armVars, ArmsInv, ArmsTypes
    <2>6. SameNumbers /\ armId' = armId
        BY <1>10 DEF armVars, SameNumbers
    <2>7. NumbersOK'
        BY <2>6, NumbersKept
    <2>8. DepthOK'
        BY <1>10, <2>2 DEF armVars, ArmsInv, DepthOK
    <2>9. waiter' = waiter /\ emitted' = emitted /\ managed' = managed
        BY <1>10 DEF armVars
    <2>10. \A c \in ArmCall : waiter'[c].event # NoEvent =>
              waiter'[c].pc \in {"took", "acted", "superseded", "failed"}
        BY <2>9 DEF ArmsInv, EventsOK
    <2>11. EventsOK'
        BY <2>6, <2>9, <2>10, EventsKept
    <2> QED BY <2>5, <2>7, <2>8, <2>11 DEF ArmsInv
<1> QED BY <1>1, <1>2, <1>3, <1>4, <1>5, <1>6, <1>7, <1>8, <1>9, <1>10 DEF ArmsNext

LEMMA ArmsInductive == ArmsSpec => []ArmsInv
<1> QED BY ArmsStart, ArmsStep, PTL DEF ArmsSpec

LEMMA ArmsTyped == ArmsInv => ArmsTypeOK
<1> SUFFICES ASSUME ArmsInv PROVE ArmsTypeOK
    OBVIOUS
<1>1. IsFiniteSet(ArmCall) /\ Cardinality(ArmCall) \in Nat
    BY ArmsAssumption, FS_CardinalityType
<1>2. \A k \in ArmKind : Armed(k) \subseteq ArmCall
    BY DEF Armed
<1>3. \A k \in ArmKind : armId[k] \in 0..Cardinality(ArmCall)
    <2> TAKE k \in ArmKind
    <2>1. armId[k] = Cardinality(Armed(k)) /\ armId[k] \in Nat
        BY DEF ArmsInv, ArmsTypes, NumbersOK
    <2>2. Cardinality(Armed(k)) <= Cardinality(ArmCall)
        BY <1>1, <1>2, FS_Subset
    <2> QED BY <1>1, <2>1, <2>2
<1>4. armId \in [ArmKind -> 0..Cardinality(ArmCall)]
    BY <1>3 DEF ArmsInv, ArmsTypes
<1>5. downloadWaiterDepth \in 0..Cardinality(ArmCall)
    <2>1. Listening("download") \subseteq ArmCall
        BY DEF Listening
    <2>2. Cardinality(Listening("download")) <= Cardinality(ArmCall)
        BY <1>1, <2>1, FS_Subset
    <2> QED BY <1>1, <2>2 DEF ArmsInv, ArmsTypes, DepthOK
<1>6. \A c \in ArmCall :
         /\ waiter[c].pc \in {"idle", "waiting", "took", "expired",
                              "acted", "superseded", "failed", "timeout"}
         /\ waiter[c].kind \in ArmKind /\ waiter[c].click \in {"no", "clicking", "clicked"}
         /\ waiter[c].event \in PageEvent \cup {NoEvent}
    <2> TAKE c \in ArmCall
    <2>1. waiter[c] \in WaiterRecord
        BY DEF ArmsInv, ArmsTypes
    <2> QED BY <2>1 DEF WaiterRecord
<1> QED BY <1>4, <1>5, <1>6 DEF ArmsTypeOK, ArmsInv, ArmsTypes

\* The calls and events of a page have the type of ArmsTypeOK: neither the numbers of a kind
\* nor the counter of waiting downloads (pw-session.ts) exceed the calls there were.
THEOREM ArmsTypeCorrect == ArmsSpec => []ArmsTypeOK
<1> QED BY ArmsInductive, ArmsTyped, PTL

\* Of the calls that took an event one has the greatest number.
LEMMA NewestTaker ==
    ASSUME ArmsInv, NEW e \in PageEvent, Takers(e) # {}
    PROVE  \E c \in Takers(e) : NewerThan(c) \cap Takers(e) = {}
<1>1. /\ IsFiniteSet(ArmCall) /\ Cardinality(ArmCall) \in Nat /\ Takers(e) \subseteq ArmCall
      /\ waiter \in [ArmCall -> WaiterRecord] /\ armId \in [ArmKind -> Nat]
    BY ArmsAssumption, FS_CardinalityType DEF ArmsInv, ArmsTypes, Takers
<1>2. e # NoEvent
    BY ArmsAssumption
<1>3. \A c \in Takers(e) : waiter[c].pc # "idle" /\ waiter[c].kind = emitted[e]
    BY <1>2 DEF Takers, ArmsInv, EventsOK
<1>4. \A c \in Takers(e) : waiter[c].arm \in Nat /\ waiter[c].arm <= armId[emitted[e]]
    BY <1>1, <1>3, ArmedNumbers
<1>5. armId[emitted[e]] \in Nat
    <2>1. PICK c \in Takers(e) : TRUE
        OBVIOUS
    <2> QED BY <1>1, <1>3, <2>1, ArmedNumbers
<1> DEFINE T == {waiter[c].arm : c \in Takers(e)}
<1>6. T \in SUBSET Nat /\ T # {} /\ \A x \in T : x <= armId[emitted[e]]
    BY <1>4
<1>7. \E x \in T : \A y \in T : y <= x
    <2> HIDE DEF T
    <2> QED BY <1>5, <1>6, Greatest
<1>8. PICK c \in Takers(e) : \A d \in Takers(e) : waiter[d].arm <= waiter[c].arm
    BY <1>7
<1>9. \A d \in Takers(e) : ~(waiter[d].arm > waiter[c].arm)
    BY <1>4, <1>8
<1> QED BY <1>9 DEF NewerThan

LEMMA HandledOnce == ArmsInv => ArmedHandledOnce
<1> SUFFICES ASSUME ArmsInv, NEW e \in PageEvent, emitted[e] # "none"
             PROVE  LET takers == Takers(e)
                        acted == {c \in takers : waiter[c].pc = "acted"}
                    IN /\ Cardinality(acted) + Cardinality(managed \cap {e}) <= 1
                       /\ emitted[e] = "download" => takers # {} \/ e \in managed
                       /\ \/ takers = {} \/ acted # {}
                          \/ \E c \in takers :
                                /\ NewerThan(c) \cap takers = {}
                                /\ waiter[c].pc \in {"took", "failed"} \/ NewerThan(c) # {}
    BY DEF ArmedHandledOnce
<1> DEFINE takers == Takers(e)
           acted == {c \in takers : waiter[c].pc = "acted"}
<1>1. /\ IsFiniteSet(ArmCall) /\ takers \subseteq ArmCall /\ e # NoEvent
      /\ waiter \in [ArmCall -> WaiterRecord]
    BY ArmsAssumption DEF ArmsInv, ArmsTypes, Takers
<1>2. \A c \in takers : waiter[c].event = e /\ waiter[c].pc # "idle"
                        /\ waiter[c].pc \in {"took", "acted", "superseded", "failed"}
                        /\ waiter[c].kind = emitted[e] /\ waiter[c].arm \in Nat
    <2> SUFFICES ASSUME NEW c \in takers
                 PROVE  /\ waiter[c].event = e /\ waiter[c].arm \in Nat
                        /\ waiter[c].pc \in {"took", "acted", "superseded", "failed"}
                        /\ waiter[c].kind = emitted[e]
        OBVIOUS
    <2>1. waiter[c].event = e
        BY DEF Takers
    <2>2. waiter[c] \in WaiterRecord
        BY <1>1
    <2> QED BY <1>1, <2>1, <2>2 DEF ArmsInv, EventsOK, WaiterRecord
\* Two that acted on the event had both the greatest number.
<1>3. \A c, d \in acted : c = d
    <2> TAKE c, d \in acted
    <2>1. waiter[c].arm <= waiter[d].arm /\ waiter[d].arm <= waiter[c].arm
        BY <1>1, <1>2 DEF ArmsInv, EventsOK
    <2>2. waiter[c].arm = waiter[d].arm
        BY <1>2, <2>1
    <2>3. waiter[c].kind \in ArmKind /\ c \in Armed(waiter[c].kind) /\ d \in Armed(waiter[c].kind)
        BY <1>1, <1>2, ArmedNumbers
    <2> QED BY <2>2, <2>3 DEF ArmsInv, NumbersOK
<1>4. Cardinality(acted) = 0 \/ Cardinality(acted) = 1
    <2>1. CASE acted = {}
        BY <2>1, FS_EmptySet
    <2>2. CASE acted # {}
        <3>1. PICK c \in acted : TRUE
            BY <2>2
        <3>2. acted = {c}
            BY <1>3, <3>1
        <3> QED BY <3>2, FS_Singleton
    <2> QED BY <2>1, <2>2
<1>5. Cardinality(acted) + Cardinality(managed \cap {e}) <= 1
    <2>1. CASE e \in managed
        <3>1. acted = {} /\ managed \cap {e} = {e}
            BY <2>1 DEF ArmsInv, EventsOK
        <3>2. Cardinality(acted) = 0 /\ Cardinality(managed \cap {e}) = 1
            BY <3>1, FS_EmptySet, FS_Singleton
        <3> QED BY <3>2
    <2>2. CASE e \notin managed
        <3>1. managed \cap {e} = {}
            BY <2>2
        <3>2. Cardinality(managed \cap {e}) = 0
            BY <3>1, FS_EmptySet
        <3> QED BY <1>4, <3>2
    <2> QED BY <2>1, <2>2
<1>6. emitted[e] = "download" => takers # {} \/ e \in managed
    BY DEF ArmsInv, EventsOK
<1>7. \/ takers = {} \/ acted # {}
      \/ \E c \in takers : /\ NewerThan(c) \cap takers = {}
                           /\ waiter[c].pc \in {"took", "failed"} \/ NewerThan(c) # {}
    <2> SUFFICES ASSUME takers # {}, acted = {}
                 PROVE  \E c \in takers : /\ NewerThan(c) \cap takers = {}
                                          /\ waiter[c].pc \in {"took", "failed"} \/ NewerThan(c) # {}
        OBVIOUS
    <2>1. PICK c \in takers : NewerThan(c) \cap takers = {}
        BY NewestTaker
    <2>2. waiter[c].pc # "acted"
        BY <2>1
    <2>3. waiter[c].pc \in {"took", "failed"} \/ NewerThan(c) # {}
        BY <1>1, <1>2, <2>1, <2>2 DEF ArmsInv, EventsOK
    <2> QED BY <2>1, <2>3
<1> QED BY <1>5, <1>6, <1>7

\* Of any calls of the three tools and events of the page, in any order, an event is handled
\* once: by the page's own handler (pw-session.ts) or by the newest of the calls that took it
\* (pw-tools-core.downloads.ts), and no download is lost without a call that failed or that
\* was replaced by one armed too late to take it.
THEOREM HandledByTheNewest == ArmsSpec => []ArmedHandledOnce
<1> QED BY ArmsInductive, HandledOnce, PTL

(***************************************************************************)
(* The six parts side by side                                              *)
(***************************************************************************)
\* Seen from a part, what the six do together is what it does alone.
LEMMA PartsAlone ==
    BrowserSpec => /\ McpSpec /\ PwSpec /\ TabsSpec
                   /\ LaunchSpec /\ AliasSpec /\ ArmsSpec
<1>1. BrowserInit => McpInit /\ PwInit /\ TabsInit /\ LaunchInit /\ AliasInit /\ ArmsInit
    BY DEF BrowserInit
<1>2. [BrowserNext]_allVars => /\ [McpNext]_mcpVars /\ [PwNext]_pwVars /\ [TabsNext]_tabsVars
                               /\ [LaunchNext]_launchVars /\ [AliasNext]_aliasVars
                               /\ [ArmsNext]_armVars
    BY DEF BrowserNext, allVars
<1> QED BY <1>1, <1>2, PTL
        DEF BrowserSpec, McpSpec, PwSpec, TabsSpec, LaunchSpec, AliasSpec, ArmsSpec

\* The parts of the extension keep their types together.
THEOREM BrowserTypeCorrect == BrowserSpec => []BrowserTypeOK
<1> DEFINE Focus == focus \in {"mcp", "pw", "tabs", "launch", "alias", "arms"}
<1>1. BrowserInit => Focus
    BY DEF BrowserInit
<1>2. Focus /\ [BrowserNext]_allVars => Focus'
    BY DEF BrowserNext, Moves, allVars
<1>3. Focus /\ McpTypeOK /\ PwTypeOK /\ TabsTypeOK /\ LaunchTypeOK /\ AliasTypeOK /\ ArmsTypeOK
         => BrowserTypeOK
    BY DEF BrowserTypeOK
<1> HIDE DEF Focus
<1>4. BrowserSpec => []Focus
    BY <1>1, <1>2, PTL DEF BrowserSpec
<1> QED BY <1>3, <1>4, PartsAlone, McpTypeCorrect, PwTypeCorrect, TabsTypeCorrect,
           LaunchTypeCorrect, AliasTypeCorrect, ArmsTypeCorrect, PTL
=============================================================================
