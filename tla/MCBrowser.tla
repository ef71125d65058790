------------------------------ MODULE MCBrowser ------------------------------
(***************************************************************************)
(* Six parts of the browser extension, each on a small instance.  They    *)
(* share no state that these models have: "focus", chosen at the start, is *)
(* the part that moves (see MCComponents).                                 *)
(***************************************************************************)
EXTENDS ChromeMcp, PwSession, SessionTabs, ChromeLaunch, TabAliases, PageArms, TLC

CONSTANTS
    k1, k2,
    x1, x2, \* the callers
    p1, p2  \* pages, tabs, targets, processes

VARIABLE focus

\* Two keys of one profile.
MCProfileOf == [k \in {k1, k2} |-> "p"]

BrowserTypeOK ==
    /\ focus \in {"mcp", "pw", "tabs", "launch", "alias", "arms"}
    /\ McpTypeOK /\ PwTypeOK /\ TabsTypeOK /\ LaunchTypeOK /\ AliasTypeOK
    /\ ArmsTypeOK

\* A part that is not looked at starts in one of its initial states only.
BrowserInit ==
    /\ focus \in {"mcp", "pw", "tabs", "launch", "alias", "arms"}
    /\ McpInit /\ TabsInit /\ AliasInit /\ ArmsInit
    /\ PwInit /\ (focus # "pw" => openPages = {})
    /\ LaunchInit /\ (focus # "launch" => excused = {})

Moves(name) == focus = name /\ UNCHANGED focus

BrowserNext ==
    \/ Moves("mcp") /\ McpNext /\ UNCHANGED <<pwVars, tabsVars, launchVars, aliasVars, armVars>>
    \/ Moves("pw") /\ PwNext /\ UNCHANGED <<mcpVars, tabsVars, launchVars, aliasVars, armVars>>
    \/ Moves("tabs") /\ TabsNext /\ UNCHANGED <<mcpVars, pwVars, launchVars, aliasVars, armVars>>
    \/ Moves("launch") /\ LaunchNext /\ UNCHANGED <<mcpVars, pwVars, tabsVars, aliasVars, armVars>>
    \/ Moves("alias") /\ AliasNext /\ UNCHANGED <<mcpVars, pwVars, tabsVars, launchVars, armVars>>
    \/ Moves("arms") /\ ArmsNext /\ UNCHANGED <<mcpVars, pwVars, tabsVars, launchVars, aliasVars>>

allVars == <<focus, mcpVars, pwVars, tabsVars, launchVars, aliasVars, armVars>>
BrowserSpec == BrowserInit /\ [][BrowserNext]_allVars

\* The callers are alike, and so are p1 and p2 everywhere.
Interchangeable == Permutations({x1, x2}) \cup Permutations({p1, p2})
=============================================================================
