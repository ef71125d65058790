------------------------------ MODULE TabAliases ------------------------------
(***************************************************************************)
(* The labels that agents give to the tabs of one browser profile          *)
(* (server-context.tab-ops.ts), and the calls that look a tab up by one    *)
(* (server-context.selection.ts).  The browser names a tab by a target id  *)
(* that may change under it; each listing of the tabs moves the aliases of *)
(* ids that are gone to ids that are new, when it is sure enough.          *)
(*                                                                         *)
(* A listing is read from the browser, an await later it is applied: calls *)
(* overlap, and may apply their listings in another order.  Tab ids (t1,   *)
(* t2, ...), which are counted up and move with the labels, the match of a *)
(* target id by prefix and the kinds of targets are left out.              *)
(***************************************************************************)
EXTENDS FiniteSets

CONSTANTS
    TabTarget,    \* target ids, each used once
    TabUrl,
    TabLabel,
    TabCaller,
    NoLabel, NoTarget,
    Unborn, Shut  \* a target id that is not used yet, one that is gone

ASSUME AliasAssumption ==
    /\ NoLabel \notin TabLabel /\ NoTarget \notin TabTarget
    /\ {Unborn, Shut} \cap TabUrl = {} /\ Unborn # Shut /\ TabTarget \cap TabLabel = {}

VARIABLES
    page,        \* the browser: the URL of each target, or Unborn or Shut
    byTargetId,  \* tabAliases.byTargetId
    lastTarget,  \* profileState.lastTargetId
    tabCalls,    \* the call of each caller
    named,       \* ghost: the target that each label was last given to
    overlooked   \* ghost: the labelled targets that an applied listing lacked

aliasVars == <<page, byTargetId, lastTarget, tabCalls, named, overlooked>>

OpenTabs == {t \in TabTarget : page[t] \in TabUrl}
Listing == [t \in OpenTabs |-> page[t]]
Alias == [label : TabLabel \cup {NoLabel}, url : TabUrl]

\* A call: where it is, the listing it holds, the tab it has opened or resolved.  What
\* it was asked, which nothing reads before its listing is applied, is chosen then.
NoTabs == [t \in {} |-> NoLabel]
NoTabCall == [pc |-> "idle", tabs |-> NoTabs, tab |-> NoTarget]

AliasTypeOK ==
    /\ page \in [TabTarget -> TabUrl \cup {Unborn, Shut}]
    /\ DOMAIN byTargetId \subseteq TabTarget /\ \A t \in DOMAIN byTargetId : byTargetId[t] \in Alias
    /\ lastTarget \in TabTarget \cup {NoTarget}
    /\ \A c \in TabCaller :
         /\ tabCalls[c].pc \in {"idle", "read", "opened", "focusing"}
         /\ DOMAIN tabCalls[c].tabs \subseteq TabTarget
         /\ tabCalls[c].tab \in TabTarget \cup {NoTarget}
    /\ named \in [TabLabel -> TabTarget \cup {NoTarget}]
    /\ overlooked \subseteq TabTarget

AliasInit ==
    /\ page = [t \in TabTarget |-> Unborn]
    /\ byTargetId = [t \in {} |-> NoLabel]
    /\ lastTarget = NoTarget
    /\ tabCalls = [c \in TabCaller |-> NoTabCall]
    /\ named = [l \in TabLabel |-> NoTarget]
    /\ overlooked = {}

---------------------------------------------------------------------------
(* The aliases. *)

\* assignTabAlias: a label given to one tab is taken from every other.
AssignAlias(by, t, url, label) ==
    [u \in (DOMAIN by) \cup {t} |->
       IF u # t THEN IF label # NoLabel /\ by[u].label = label
                       THEN [by[u] EXCEPT !.label = NoLabel] ELSE by[u]
       ELSE [label |-> IF label = NoLabel /\ t \in DOMAIN by THEN by[t].label ELSE label,
             url |-> url]]

StaleIds(tabs) == (DOMAIN byTargetId) \ (DOMAIN tabs)
\* Faulty variant: a tab that has an alias may take over that of another.
AnyIds(tabs) == DOMAIN tabs
NewIds(tabs) == (DOMAIN tabs) \ (DOMAIN byTargetId)

\* isConfidentReplacement: the same URL, or the only one gone and the only one new.
Confident(old, t, tabs) ==
    \/ byTargetId[old].url = tabs[t]
    \/ Cardinality(StaleIds(tabs)) = 1 /\ Cardinality(NewIds(tabs)) = 1

\* Each stale id takes, in the order of the aliases, the first candidate that is left:
\* a matching to which no pair can be added, which depends on orders left out here.
Replacements(tabs) ==
    {m \in UNION {[S -> NewIds(tabs)] : S \in SUBSET StaleIds(tabs)} :
       /\ \A a, b \in DOMAIN m : m[a] = m[b] => a = b
       /\ \A a \in DOMAIN m : Confident(a, m[a], tabs)
       /\ \A a \in StaleIds(tabs) \ DOMAIN m, t \in NewIds(tabs) :
            Confident(a, t, tabs) => \E b \in DOMAIN m : m[b] = t}

\* assignTabAliases: stale ids are replaced or forgotten, new ones get an alias.
AssignAliases(tabs, m) ==
    [t \in DOMAIN tabs |->
       [label |-> IF \E a \in DOMAIN m : m[a] = t
                    THEN byTargetId[CHOOSE a \in DOMAIN m : m[a] = t].label
                  ELSE IF t \in DOMAIN byTargetId THEN byTargetId[t].label ELSE NoLabel,
        url |-> tabs[t]]]

\* resolveTargetIdFromTabs: what some name, a target id or a label, stands for.
Resolved(by) == {t \in DOMAIN by : \E name \in TabTarget \cup TabLabel : name \in {t, by[t].label}}

---------------------------------------------------------------------------
(* The browser: pages navigate and go, by the user, by themselves, by closeTab or by   *)
(* the limit on the number of tabs.                                                    *)

Navigates(t, url) ==
    /\ t \in OpenTabs /\ page[t] # url /\ page' = [page EXCEPT ![t] = url]
    /\ UNCHANGED <<byTargetId, lastTarget, tabCalls, named, overlooked>>

Goes(t) ==
    /\ t \in OpenTabs /\ page' = [page EXCEPT ![t] = Shut]
    /\ UNCHANGED <<byTargetId, lastTarget, tabCalls, named, overlooked>>

\* A window opened by a page, or the same page under another id.
Appears(t, url) ==
    /\ page[t] = Unborn /\ page' = [page EXCEPT ![t] = url]
    /\ UNCHANGED <<byTargetId, lastTarget, tabCalls, named, overlooked>>

---------------------------------------------------------------------------
(* The calls. *)

Leave(c) == tabCalls' = [tabCalls EXCEPT ![c] = NoTabCall]

\* Every call but openTab starts by reading the tabs.
Begin(c) ==
    /\ tabCalls[c].pc = "idle"
    /\ tabCalls' = [tabCalls EXCEPT ![c].pc = "read", ![c].tabs = Listing]
    /\ UNCHANGED <<page, byTargetId, lastTarget, named, overlooked>>

\* The ghosts: a label given to t, a listing that lacks open tabs.
Naming(t, label) ==
    [l \in TabLabel |-> IF l = label THEN t ELSE IF named[l] = t THEN NoTarget ELSE named[l]]
Missed(tabs) == overlooked \cup (OpenTabs \ DOMAIN tabs)

\* labelTab
Labels(t, by, last, tabs) ==
    /\ \E l \in TabLabel : byTargetId' = AssignAlias(by, t, tabs[t], l) /\ named' = Naming(t, l)
    /\ overlooked' = Missed(tabs) \ {t}
    /\ lastTarget' = last

\* ensureTabAvailable, on its second listing (its first, and the blank tab it opens when
\* there is none, are calls of their own here); focusTab, which acts an await later.
\* closeTab only sends what Goes does.
Targets(c, t, by, last) ==
    /\ byTargetId' = by
    /\ \/ lastTarget' = t /\ Leave(c)
       \/ /\ tabCalls' = [tabCalls EXCEPT ![c] = [NoTabCall EXCEPT !.pc = "focusing", !.tab = t]]
          /\ lastTarget' = last

\* listTabs, applied to the aliases of now, and what the call does with it before its
\* next await: "by" and "last" are the aliases and lastTargetId after it.
Apply(c) ==
    LET tabs == tabCalls[c].tabs
    IN /\ tabCalls[c].pc = "read"
       /\ \E m \in Replacements(tabs) :
            LET by == AssignAliases(tabs, m)
                last == IF lastTarget \in DOMAIN m THEN m[lastTarget] ELSE lastTarget
            IN \/ \* listTabs itself, a name that resolves to nothing
                  /\ byTargetId' = by /\ lastTarget' = last /\ Leave(c)
                  /\ overlooked' = Missed(tabs) /\ UNCHANGED named
               \/ \* ensureTabAvailable without a name
                  /\ lastTarget' \in IF last \in DOMAIN by THEN {last} ELSE DOMAIN by
                  /\ byTargetId' = by /\ Leave(c)
                  /\ overlooked' = Missed(tabs) /\ UNCHANGED named
               \/ \E t \in Resolved(by) :
                    \/ Labels(t, by, last, tabs) /\ Leave(c)
                    \/ /\ Targets(c, t, by, last)
                       /\ overlooked' = Missed(tabs) /\ UNCHANGED named
       /\ UNCHANGED page

Focused(c) ==
    /\ tabCalls[c].pc = "focusing" /\ tabCalls[c].tab \in OpenTabs
    /\ lastTarget' = tabCalls[c].tab /\ Leave(c)
    /\ UNCHANGED <<page, byTargetId, named, overlooked>>

\* The tab is gone, or the navigation has led where it may not: the call throws.
Throws(c) ==
    /\ \/ tabCalls[c].pc = "focusing" /\ tabCalls[c].tab \notin OpenTabs
       \/ tabCalls[c].pc = "opened"
    /\ Leave(c)
    /\ UNCHANGED <<page, byTargetId, lastTarget, named, overlooked>>

\* openTab: the browser makes the tab.  The listings in which openTab waits for it to
\* show are calls of their own here.
Opens(c, t, url) ==
    /\ tabCalls[c].pc = "idle" /\ page[t] = Unborn
    /\ page' = [page EXCEPT ![t] = url]
    /\ lastTarget' = t
    /\ tabCalls' = [tabCalls EXCEPT ![c].pc = "opened", ![c].tab = t]
    /\ UNCHANGED <<byTargetId, named, overlooked>>

\* The URL is that of a listing or of the request.
Opened(c) ==
    LET t == tabCalls[c].tab
    IN /\ tabCalls[c].pc = "opened" /\ Leave(c)
       /\ \E url \in TabUrl, l \in TabLabel \cup {NoLabel} :
            /\ byTargetId' = AssignAlias(byTargetId, t, url, l)
            /\ IF l = NoLabel THEN UNCHANGED <<named, overlooked>>
               ELSE named' = Naming(t, l) /\ overlooked' = overlooked \ {t}
       /\ UNCHANGED <<page, lastTarget>>

AliasNext ==
    \/ \E t \in TabTarget :
         \/ Goes(t)
         \/ \E url \in TabUrl : Navigates(t, url) \/ Appears(t, url)
    \/ \E c \in TabCaller :
         \/ Begin(c) \/ Apply(c) \/ Focused(c) \/ Throws(c)
         \/ \E t \in TabTarget, url \in TabUrl : Opens(c, t, url)
         \/ Opened(c)

AliasSpec == AliasInit /\ [][AliasNext]_aliasVars

---------------------------------------------------------------------------
\* While a labelled tab is open, its label is on it and on no other tab, whatever pages
\* come, navigate and go, and however the calls overlap: the guess that moves the label
\* of a tab that is gone must never take one from a tab that is not.  Excused is a tab
\* that an applied listing lacked, one read before the tab was there.
LabelSticks ==
    \A l \in TabLabel :
        LET t == named[l]
        IN t \in OpenTabs \ overlooked =>
             /\ t \in DOMAIN byTargetId
             /\ {u \in DOMAIN byTargetId : byTargetId[u].label = l} = {t}
=============================================================================
