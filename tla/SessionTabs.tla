------------------------------ MODULE SessionTabs ------------------------------
(***************************************************************************)
(* The tabs that the sessions of the agents opened with the browser tool:  *)
(* session-tab-registry.ts remembers them, the sweep of                    *)
(* session-tab-cleanup.ts closes those that were idle too long or are too  *)
(* many, and the end of a session closes the rest.  A close is awaited, so *)
(* that tools, sweeps and ends of sessions interleave with it.             *)
(*                                                                         *)
(* tracked[s] is in the order of lastUsedAt; its first idle[s] tabs were   *)
(* not used for idleMs.  A tab has one base url and profile.               *)
(***************************************************************************)
EXTENDS Integers, FiniteSets, SequencesExt

CONSTANTS
    TabSession,
    PrimarySession,     \* no subagent's, no cron job's, no ACP session
    AgentTab,
    Sweep,              \* the timers: an old one may still sweep after a restart
    MaxTabsPerSession   \* tabCleanup.maxTabsPerSession

ASSUME TabsAssumption == PrimarySession \subseteq TabSession /\ MaxTabsPerSession \in Nat

VARIABLES
    unopened, open,     \* the tabs to come, and those there are
    arriving,           \* <<session, tab>>: opened, and the tool has yet to hear of it
    leaving,            \* <<session, tab>>: closed by the tool, and still tracked
    tracked, idle,
    closing,            \* closing[k]: what a sweep or the end of a session has yet to close
    unclosed            \* tabs whose close failed, and was warned of (history)

tabsVars == <<unopened, open, arriving, leaving, tracked, idle, closing, unclosed>>

Closer == Sweep \cup TabSession

TabsTypeOK ==
    /\ unopened \cup open \cup unclosed \subseteq AgentTab
    /\ arriving \cup leaving \subseteq TabSession \X AgentTab
    /\ \A s \in TabSession : ToSet(tracked[s]) \subseteq AgentTab /\ idle[s] \in 0..Len(tracked[s])
    /\ closing \in [Closer -> SUBSET AgentTab]

TabsInit ==
    /\ unopened = AgentTab /\ open = {} /\ arriving = {} /\ leaving = {}
    /\ tracked = [s \in TabSession |-> <<>>] /\ idle = [s \in TabSession |-> 0]
    /\ closing = [k \in Closer |-> {}] /\ unclosed = {}

browserVars == <<unopened, open>>
toolVars == <<arriving, leaving>>
registryVars == <<tracked, idle>>
closeVars == <<closing, unclosed>>

(***************************************************************************)
(* The browser tool                                                        *)
(***************************************************************************)
OpenTab(s, t) ==
    /\ t \in unopened /\ unopened' = unopened \ {t} /\ open' = open \cup {t}
    /\ arriving' = arriving \cup {<<s, t>>} /\ UNCHANGED <<leaving, registryVars, closeVars>>

\* trackSessionBrowserTab, once browserOpenTab has returned
Track(s, t) ==
    /\ <<s, t>> \in arriving /\ arriving' = arriving \ {<<s, t>>}
    /\ tracked' = [tracked EXCEPT ![s] = Append(@, t)]
    /\ UNCHANGED <<browserVars, leaving, idle, closeVars>>

\* The registry of a session has a tab at most once.
Forget(s, t) ==
    IF t \in ToSet(tracked[s])
    THEN \E i \in 1..Len(tracked[s]) :
           /\ tracked[s][i] = t
           /\ tracked' = [tracked EXCEPT ![s] = RemoveAt(@, i)]
           /\ idle' = [idle EXCEPT ![s] = IF i <= @ THEN @ - 1 ELSE @]
    ELSE UNCHANGED registryVars

\* touchSessionBrowserTab, after an action on the tab: what is not tracked stays so.
Touch(s, t) ==
    /\ \E i \in 1..Len(tracked[s]) :
         /\ tracked[s][i] = t
         /\ tracked' = [tracked EXCEPT ![s] = Append(RemoveAt(@, i), t)]
         /\ idle' = [idle EXCEPT ![s] = IF i <= @ THEN @ - 1 ELSE @]
    /\ UNCHANGED <<browserVars, toolVars, closeVars>>

\* action "close": the browser first, then untrackSessionBrowserTab.  The tool may have
\* been given an alias of the tab, which the registry does not know.
CloseByTool(s, t) ==
    /\ t \in open /\ open' = open \ {t}
    /\ leaving' \in {leaving, leaving \cup {<<s, t>>}}
    /\ UNCHANGED <<unopened, arriving, registryVars, closeVars>>

Untrack(s, t) ==
    /\ <<s, t>> \in leaving /\ leaving' = leaving \ {<<s, t>>} /\ Forget(s, t)
    /\ UNCHANGED <<browserVars, arriving, closeVars>>

GoesIdle(s) ==
    /\ idle[s] < Len(tracked[s]) /\ idle' = [idle EXCEPT ![s] = @ + 1]
    /\ UNCHANGED <<browserVars, toolVars, tracked, closeVars>>

(***************************************************************************)
(* closeTrackedTabs and those who call it                                  *)
(***************************************************************************)
\* takeStaleTrackedTabs: the idle ones, and the oldest of the others beyond the limit
Stale(s) ==
    LET used == Len(tracked[s]) - idle[s]
        excess == IF MaxTabsPerSession > 0 /\ used > MaxTabsPerSession
                  THEN used - MaxTabsPerSession ELSE 0
    IN SubSeq(tracked[s], 1, idle[s] + excess)

\* Faulty variant: a session with a stale tab is forgotten as a whole
TabsMutTake(k) ==
    /\ closing[k] = {}
    /\ closing' = [closing EXCEPT ![k] = UNION {ToSet(Stale(s)) : s \in PrimarySession}]
    /\ tracked' = [s \in TabSession |->
                     IF s \in PrimarySession /\ Stale(s) # <<>> THEN <<>> ELSE tracked[s]]
    /\ idle' = [s \in TabSession |-> IF s \in PrimarySession THEN 0 ELSE idle[s]]
    /\ UNCHANGED <<browserVars, toolVars, unclosed>>

\* A sweep takes what is stale out of the registry, and begins no other while it closes.
SweepTabs(k) ==
    /\ closing[k] = {}
    /\ closing' = [closing EXCEPT ![k] = UNION {ToSet(Stale(s)) : s \in PrimarySession}]
    /\ tracked' = [s \in TabSession |->
                     IF s \in PrimarySession
                     THEN SubSeq(tracked[s], Len(Stale(s)) + 1, Len(tracked[s])) ELSE tracked[s]]
    /\ idle' = [s \in TabSession |-> IF s \in PrimarySession THEN 0 ELSE idle[s]]
    /\ UNCHANGED <<browserVars, toolVars, unclosed>>

\* closeTrackedBrowserTabsForSessions
EndSession(s) ==
    /\ tracked[s] # <<>>
    /\ closing' = [closing EXCEPT ![s] = @ \cup ToSet(tracked[s])]
    /\ tracked' = [tracked EXCEPT ![s] = <<>>] /\ idle' = [idle EXCEPT ![s] = 0]
    /\ UNCHANGED <<browserVars, toolVars, unclosed>>

\* One close after the other; one that fails is warned of and not tried again, and one
\* of a tab that is gone is no failure.
CloseNext(k, t) ==
    /\ t \in closing[k] /\ closing' = [closing EXCEPT ![k] = @ \ {t}]
    /\ \/ open' = open \ {t} /\ UNCHANGED unclosed
       \/ t \in open /\ unclosed' = unclosed \cup {t} /\ UNCHANGED open
    /\ UNCHANGED <<unopened, toolVars, registryVars>>

TabsNext ==
    \/ \E s \in TabSession, t \in AgentTab :
          OpenTab(s, t) \/ Track(s, t) \/ Touch(s, t) \/ CloseByTool(s, t) \/ Untrack(s, t)
    \/ \E s \in TabSession : GoesIdle(s) \/ EndSession(s)
    \/ \E k \in Sweep : SweepTabs(k)
    \/ \E k \in Closer, t \in AgentTab : CloseNext(k, t)

TabsSpec == TabsInit /\ [][TabsNext]_tabsVars

\* A tab that is open has exactly one keeper: the tool call that opened it, the registry
\* of one session, one pass that is about to close it, or the log that says it could not
\* be closed.  No interleaving of tools, sweeps and ends loses a tab or closes it twice.
OneKeeper ==
    \A t \in open :
        Cardinality({s \in TabSession : <<s, t>> \in arriving})
        + Cardinality({s \in TabSession : t \in ToSet(tracked[s])})
        + Cardinality({k \in Closer : t \in closing[k]})
        + (IF t \in unclosed THEN 1 ELSE 0) = 1
=============================================================================
