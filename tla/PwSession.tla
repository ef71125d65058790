------------------------------- MODULE PwSession -------------------------------
(***************************************************************************)
(* The Playwright connection of the browser extension (pw-session.ts): one *)
(* cached connection per CDP url, a table of the connects under way, and   *)
(* the pages and targets that are quarantined because a navigation was     *)
(* refused by the policy.  Requests look a page up by its target id; each  *)
(* await of a lookup lets the others run.                                  *)
(*                                                                         *)
(* One CDP url; a page and its target id are one value.  A connection sees *)
(* the pages through objects of its own, so that a page quarantined as an  *)
(* object is known to one connection only.                                 *)
(***************************************************************************)
EXTENDS Integers

CONSTANTS
    PwPage, PwCaller, AnyPage, NoConn,
    MaxConns,       \* bound: connects
    MaxRefusals     \* bound: navigations that the policy refuses

PwConn == 1..MaxConns

ASSUME PwAssumption == MaxConns \in Nat /\ MaxRefusals \in Nat /\ NoConn \notin PwConn

VARIABLES
    cachedConn,     \* cachedByCdpUrl
    connecting,     \* connectingByCdpUrl
    conn,           \* conn[b]: "none", "trying", "up", "failed" or "closed"
    settling,       \* connects that returned and whose finally has still to run
    openPages, freshPages,  \* the pages there are, those that are yet to come
    blockedTargets, blockedRefs,
    refusals,       \* navigations refused so far
    lookup,         \* lookup[c]: the step a request is at; since: what was quarantined
                    \* when it began to choose (history)
    replaced        \* connections that another one took the place of (history)

connVars == <<cachedConn, connecting, conn, settling, replaced>>
blockVars == <<blockedTargets, blockedRefs, refusals>>
pageVars == <<openPages, freshPages, blockVars>>
pwVars == <<connVars, pageVars, lookup>>

NoLookup == [pc |-> "idle", want |-> AnyPage, on |-> NoConn, page |-> AnyPage, since |-> {},
             mayRetry |-> FALSE]

PwTypeOK ==
    /\ cachedConn \in PwConn \cup {NoConn} /\ connecting \in PwConn \cup {NoConn}
    /\ conn \in [PwConn -> {"none", "trying", "up", "failed", "closed"}]
    /\ settling \cup replaced \subseteq PwConn
    /\ openPages \cup freshPages \cup blockedTargets \subseteq PwPage
    /\ blockedRefs \subseteq PwConn \X PwPage /\ refusals \in 0..MaxRefusals
    /\ \A c \in PwCaller : lookup[c].pc \in {"idle", "policy", "join", "pages", "find",
                                             "check", "has", "refused", "stale"}

PwInit ==
    /\ cachedConn = NoConn /\ connecting = NoConn /\ conn = [b \in PwConn |-> "none"]
    /\ settling = {} /\ replaced = {} /\ openPages \in SUBSET PwPage
    /\ freshPages = PwPage \ openPages
    /\ blockedTargets = {} /\ blockedRefs = {} /\ refusals = 0
    /\ lookup = [c \in PwCaller |-> NoLookup]

At(c, pc) == lookup[c].pc = pc
Becomes(c, rec) == lookup' = [lookup EXCEPT ![c] = rec]
Quarantined(b) == blockedTargets \cup {p \in PwPage : <<b, p>> \in blockedRefs}

(***************************************************************************)
(* connectBrowser                                                          *)
(***************************************************************************)
\* The cache is asked first; a miss awaits the policy's check of the endpoint.
Connect(c, rec) ==
    Becomes(c, IF cachedConn # NoConn THEN [rec EXCEPT !.pc = "pages", !.on = cachedConn]
               ELSE [rec EXCEPT !.pc = "policy"])

\* The cache is not asked again: only a connect that is under way is joined.
PolicyChecked(c) ==
    /\ At(c, "policy")
    /\ \/ /\ connecting # NoConn /\ UNCHANGED connVars
          /\ Becomes(c, [lookup[c] EXCEPT !.pc = "join", !.on = connecting])
       \/ /\ connecting = NoConn
          /\ \E b \in PwConn :
                /\ conn[b] = "none" /\ \A a \in PwConn : a < b => conn[a] # "none"
                /\ conn' = [conn EXCEPT ![b] = "trying"] /\ connecting' = b
                /\ Becomes(c, [lookup[c] EXCEPT !.pc = "join", !.on = b])
          /\ UNCHANGED <<cachedConn, settling, replaced>>
    /\ UNCHANGED pageVars

\* connectWithRetry ends: the connection goes into the cache, whatever is there.
ConnectEnds(b) ==
    /\ conn[b] = "trying" /\ settling' = settling \cup {b}
    /\ \/ /\ conn' = [conn EXCEPT ![b] = "up"] /\ cachedConn' = b
          /\ replaced' = IF cachedConn # NoConn THEN replaced \cup {cachedConn} ELSE replaced
       \/ conn' = [conn EXCEPT ![b] = "failed"] /\ UNCHANGED <<cachedConn, replaced>>
    /\ UNCHANGED <<connecting, lookup, pageVars>>

\* Its finally clears the table, also of a later connect.
Settle(b) ==
    /\ b \in settling /\ settling' = settling \ {b} /\ connecting' = NoConn
    /\ UNCHANGED <<cachedConn, conn, replaced, lookup, pageVars>>

JoinEnds(c) ==
    LET b == lookup[c].on
    IN /\ At(c, "join") /\ conn[b] # "trying" /\ b \notin settling
       /\ Becomes(c, IF conn[b] = "failed" THEN NoLookup ELSE [lookup[c] EXCEPT !.pc = "pages"])
       /\ UNCHANGED <<connVars, pageVars>>

\* Faulty variant: any connection that ends empties the cache
PwMutDisconnected(b) ==
    /\ conn[b] = "up" /\ conn' = [conn EXCEPT ![b] = "closed"] /\ cachedConn' = NoConn
    /\ UNCHANGED <<connecting, settling, replaced, lookup, pageVars>>

\* The "disconnected" event: the cache forgets the connection, if it is this one.
Disconnected(b) ==
    /\ conn[b] = "up" /\ conn' = [conn EXCEPT ![b] = "closed"]
    /\ cachedConn' = IF cachedConn = b THEN NoConn ELSE cachedConn
    /\ UNCHANGED <<connecting, settling, replaced, lookup, pageVars>>

\* takeCachedPlaywrightBrowserConnection and the close of what it returns.
TakeCached ==
    /\ cachedConn' = NoConn /\ connecting' = NoConn
    /\ conn' = IF cachedConn # NoConn THEN [conn EXCEPT ![cachedConn] = "closed"] ELSE conn
    /\ UNCHANGED <<settling, replaced>>

\* closePlaywrightBrowserConnection ends the quarantine too.
CloseConnection(rest) ==
    /\ TakeCached /\ blockedTargets' = {} /\ blockedRefs' = {}
    /\ UNCHANGED <<openPages, freshPages, refusals>>
    /\ lookup' = [c \in PwCaller |-> [rest[c] EXCEPT !.since = {}]]

StopPlaywright ==
    /\ cachedConn # NoConn \/ connecting # NoConn \/ blockedTargets # {}
    /\ CloseConnection(lookup)

\* forceDisconnectPlaywrightForTarget and the eviction of a stale connection do not.
ForceDisconnect ==
    /\ cachedConn # NoConn \/ connecting # NoConn
    /\ TakeCached /\ UNCHANGED <<lookup, pageVars>>

(***************************************************************************)
(* getPageForTargetId                                                      *)
(***************************************************************************)
BeginLookup(c, want) ==
    /\ At(c, "idle") /\ want \notin blockedTargets
    /\ Connect(c, [NoLookup EXCEPT !.want = want, !.mayRetry = cachedConn # NoConn])
    /\ UNCHANGED <<connVars, pageVars>>

PagesOn(b) == IF conn[b] = "up" THEN openPages ELSE {}

\* The page a request has chosen, before its last check or after it.
Choose(c, pc, p, since) ==
    Becomes(c, [NoLookup EXCEPT !.pc = pc, !.on = lookup[c].on, !.page = p,
                                !.since = since \cap {p}])

\* partitionAccessiblePages: "unknown" are the pages whose target id cannot be
\* read just now; they are out as soon as any target is quarantined.
Accessible(b, unknown) ==
    {p \in PagesOn(b) : /\ <<b, p>> \notin blockedRefs
                        /\ IF p \in unknown THEN blockedTargets = {} ELSE p \notin blockedTargets}

PartitionPages(c, unknown) ==
    LET b == lookup[c].on  ok == Accessible(b, unknown)
    IN /\ At(c, "pages")
       /\ \/ ok = {} /\ PagesOn(b) # {} /\ Becomes(c, NoLookup)
          \/ ok = {} /\ PagesOn(b) = {} /\ Becomes(c, [lookup[c] EXCEPT !.pc = "stale"])
          \/ lookup[c].want = AnyPage /\ \E p \in ok : Choose(c, "has", p, Quarantined(b))
          \/ lookup[c].want # AnyPage /\ \E p \in ok :
                Becomes(c, [lookup[c] EXCEPT !.pc = "find", !.page = p, !.since = Quarantined(b)])
       /\ UNCHANGED <<connVars, pageVars>>

\* Faulty variant: only the target ids are looked at
PwMutFind(c) ==
    LET b == lookup[c].on  want == lookup[c].want
    IN /\ At(c, "find")
       /\ want \in PagesOn(b) /\ Choose(c, "check", want, lookup[c].since)
       /\ UNCHANGED <<connVars, pageVars>>

\* findPageByTargetId: the page is refused if it is quarantined as an object; if it
\* cannot be found, the only page there is stands for it.
FindPage(c) ==
    LET b == lookup[c].on  want == lookup[c].want
    IN /\ At(c, "find")
       /\ \/ want \in PagesOn(b)
             /\ IF <<b, want>> \in blockedRefs THEN Becomes(c, NoLookup)
                ELSE Choose(c, "check", want, lookup[c].since)
          \/ PagesOn(b) = {lookup[c].page}
             /\ Choose(c, "has", lookup[c].page, lookup[c].since)
          \/ PagesOn(b) # {lookup[c].page} /\ Becomes(c, [lookup[c] EXCEPT !.pc = "stale"])
       /\ UNCHANGED <<connVars, pageVars>>

\* Its target id is read and looked up; an id that cannot be read is let pass, and
\* what was quarantined before says nothing more of it.
CheckPage(c) ==
    /\ At(c, "check")
    /\ \/ Becomes(c, IF lookup[c].page \in blockedTargets THEN NoLookup
                     ELSE [lookup[c] EXCEPT !.pc = "has"])
       \/ Choose(c, "has", lookup[c].page, {})
    /\ UNCHANGED <<connVars, pageVars>>

\* "No pages" and "tab not found" on a connection that was cached: it is closed, and
\* everything is tried once more.
StaleSelection(c) ==
    /\ At(c, "stale")
    /\ IF lookup[c].mayRetry
       THEN CloseConnection([lookup EXCEPT ![c] =
                                [NoLookup EXCEPT !.pc = "policy", !.want = lookup[c].want]])
       ELSE Becomes(c, NoLookup) /\ UNCHANGED <<connVars, pageVars>>

\* The request does its work on the page, or closes it.
UsePage(c) ==
    /\ At(c, "has") /\ Becomes(c, NoLookup)
    /\ openPages' \in {openPages, openPages \ {lookup[c].page}}
    /\ UNCHANGED <<connVars, freshPages, blockVars>>

(***************************************************************************)
(* Pages and their quarantine                                              *)
(***************************************************************************)
\* gotoPageWithNavigationGuard refuses a navigation: the page object first ...
NavigationRefused(c) ==
    /\ At(c, "has") /\ refusals < MaxRefusals /\ refusals' = refusals + 1
    /\ blockedRefs' = blockedRefs \cup {<<lookup[c].on, lookup[c].page>>}
    /\ Choose(c, "refused", lookup[c].page, {})
    /\ UNCHANGED <<connVars, openPages, freshPages, blockedTargets>>

\* ... then its target, if an id is known, and the page is closed, if it can be.
QuarantineTarget(c) ==
    /\ At(c, "refused") /\ Becomes(c, NoLookup)
    /\ blockedTargets' \in {blockedTargets, blockedTargets \cup {lookup[c].page}}
    /\ openPages' \in {openPages, openPages \ {lookup[c].page}}
    /\ UNCHANGED <<connVars, freshPages, blockedRefs, refusals>>

\* createPageViaPlaywright on a connection that is cached: a page of a new target id,
\* which its caller then sends to the url it was asked for.
CreatePage(c, p) ==
    /\ At(c, "idle") /\ cachedConn # NoConn /\ p \in freshPages
    /\ openPages' = openPages \cup {p} /\ freshPages' = freshPages \ {p}
    /\ Becomes(c, [NoLookup EXCEPT !.pc = "has", !.on = cachedConn, !.page = p])
    /\ UNCHANGED <<connVars, blockVars>>

PwNext ==
    \/ \E c \in PwCaller, want \in PwPage \cup {AnyPage} : BeginLookup(c, want)
    \/ \E c \in PwCaller, unknown \in SUBSET PwPage : PartitionPages(c, unknown)
    \/ \E c \in PwCaller : PolicyChecked(c) \/ JoinEnds(c) \/ FindPage(c) \/ CheckPage(c)
    \/ \E c \in PwCaller : StaleSelection(c) \/ UsePage(c) \/ NavigationRefused(c)
    \/ \E c \in PwCaller : QuarantineTarget(c)
    \/ \E b \in PwConn : ConnectEnds(b) \/ Settle(b) \/ Disconnected(b)
    \/ \E c \in PwCaller, p \in PwPage : CreatePage(c, p)
    \/ StopPlaywright \/ ForceDisconnect

PwSpec == PwInit /\ [][PwNext]_pwVars

\* A page that was quarantined, as an object or by its target, when a request
\* began to choose among the pages is not what the request gets, unless the
\* connection was closed meanwhile or the target id could not be read at the end.
QuarantineHolds ==
    \A c \in PwCaller : At(c, "has") => lookup[c].page \notin lookup[c].since

\* An open connection is the cached one, or one whose place a second connect took:
\* the end of an older connection never costs the cache its successor.
OpenIsCached == \A b \in PwConn : conn[b] = "up" => cachedConn = b \/ b \in replaced
=============================================================================
