------------------------------ MODULE MailSystem ------------------------------
(***************************************************************************)
(* The relay and the mailboxes of the bots together: the bots of MailRelay *)
(* post what they like, and drop a receipt only when Mailbox does.  The    *)
(* properties relate what a bot has read to what the relay may take away   *)
(* from it, across the two processes, their crashes and lost receipts.     *)
(***************************************************************************)
EXTENDS MailRelay, FiniteSets

CONSTANT MaxCursor

ASSUME BoxAssumption == MaxCursor \in Nat \ {0} /\ IsFiniteSet(Msg)

VARIABLES cursor, emit, seen

boxVars == <<cursor, emit, seen>>
sysVars == <<vars, boxVars>>

Box == INSTANCE Mailbox

SysTypeOK == TypeOK /\ Box!BoxTypeOK

SysInit == Init /\ Box!BoxInit

\* What the mailboxes leave to the relay.
relayOnly == <<outbox, archive, sent, refused, readIds, routeVars, loopVars,
               msgVars, memVars, posted, cut>>

SysNext ==
    \/ (RelayStep \/ FaultStep \/ WorldStep) /\ UNCHANGED boxVars
    \/ (\E m \in Msg : Post(m)) /\ UNCHANGED boxVars
    \/ Box!BoxNext /\ UNCHANGED relayOnly

\* The relay polls for ever and is restarted when it dies, days and the
\* sweep interval go by, the rate window slides.  Nobody owes a read, a post,
\* an edit of the routes or a fault.
SysSpec ==
    /\ SysInit /\ [][SysNext]_sysVars
    /\ WF_sysVars(RelayStep /\ UNCHANGED boxVars)
    /\ WF_sysVars(SweepFallsDue /\ UNCHANGED boxVars)
    /\ WF_sysVars(Day /\ UNCHANGED boxVars)
    /\ \A b \in Bot : WF_sysVars(ExpireSend(b) /\ UNCHANGED boxVars)

-----------------------------------------------------------------------------
\* The relay believes nothing to be read that its bot has not seen: receipts,
\* read set and the ids in between tell the truth whoever crashes.
ReadSetIsTrue ==
    \A b \in Bot :
        /\ receipts[b] \cup emit[b] \cup Elems(readIds[b]) \subseteq seen[b]
        /\ Elems(cursor[b]) \subseteq seen[b]
        /\ cur = b => Elems(taken) \subseteq seen[b]

\* Mail the bot has not seen leaves its inbox only past maxUnreadDays, so the
\* unread count the bot is shown misses nothing younger.
UnseenStays ==
    [][\A b \in Bot : \A m \in inbox[b] \ inbox'[b] :
          m \in seen[b] \/ age[m] > MaxUnreadDays]_sysVars

\* Every posted envelope is filed in the end, though the rate defers it and
\* crashes and failed renames put it back.
EventuallyFiled ==
    \A m \in Msg : (m \in posted) ~> (m \in sent[Author[m]] \cup refused[Author[m]])

\* Every delivered message leaves the live inbox in the end, even if its
\* receipt was lost or its id dropped from the read set.
EventuallyArchived ==
    \A b \in Bot, m \in Msg : (m \in inbox[b]) ~> (m \in archive[b] \ inbox[b])

=============================================================================
