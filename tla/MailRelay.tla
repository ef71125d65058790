------------------------------ MODULE MailRelay ------------------------------
(***************************************************************************)
(* The host-side mail relay, scripts/claw-mail-relay.mjs.  One process     *)
(* polls every bot's mail directory: it consumes the read receipts,        *)
(* delivers the outbox to the inboxes the routes allow, files each         *)
(* original under sent/ or refused/, and now and then sweeps old mail out  *)
(* of the live inboxes into the archive shards.                            *)
(*                                                                         *)
(* Each action is one file-system effect of the tick: between two of them  *)
(* a bot may write its outbox, an operation may fail, or the relay may     *)
(* crash.  A crash keeps the files and loses what is in memory.  The bots  *)
(* are arbitrary here (any receipt, any time); MailSystem puts the real    *)
(* mailboxes in their place.                                               *)
(***************************************************************************)
EXTENDS CappedSeq

CONSTANTS
    Bot, Msg, Author, To,
    Valid,          \* envelopes that parse and pass validate()
    RouteFiles,     \* contents the routes file may have: sets of <<from, to>>
    Listing,        \* the bot directories in readdirSync order
    Readable,       \* Readable[b]: ids b's receipts may name
    None,           \* no bot, no message
    PerMinute,      \* rateLimit.perSenderPerMinute
    LiveReadDays,   \* retention.liveReadDays
    MaxUnreadDays,  \* retention.maxUnreadDays
    MaxReadIds,     \* ids kept in .read.json (5000 in the code)
    MaxFaults       \* bound: crashes and failed operations in a behaviour

ASSUME AddressAssumption ==
    /\ Author \in [Msg -> Bot]
    /\ To \in [Msg -> SUBSET Bot]
    /\ Valid \subseteq Msg
    /\ RouteFiles # {} /\ \A r \in RouteFiles : r \subseteq Bot \X Bot
    /\ Listing \in Seq(Bot)
    /\ Readable \in [Bot -> SUBSET Msg]
    /\ None \notin Bot \cup Msg

ASSUME LimitAssumption ==
    /\ PerMinute \in Nat \ {0}
    /\ LiveReadDays \in Nat
    /\ MaxUnreadDays \in Nat
    /\ LiveReadDays <= MaxUnreadDays
    /\ MaxReadIds \in Nat \ {0}
    /\ MaxFaults \in Nat

VARIABLES
    \* files
    outbox,     \* outbox[b]: envelopes b has written and the relay not filed
    receipts,   \* receipts[b]: ids in b's _receipt_ files, one file per id
    inbox,      \* inbox[b]: live messages
    archive,    \* archive[b]: messages in b's shards (MailArchive: the files)
    sent,       \* sent[b]: b's originals that reached somebody
    refused,    \* refused[b]: b's originals that reached nobody
    readIds,    \* readIds[b]: .read.json, oldest id first
    routes,     \* the routes file; routesOk: it can be read and parsed
    routesOk,
    \* memory
    policy,     \* routesCache
    rate,       \* rate[b]: sends of b within the last minute (sendTimes)
    sweepDue,   \* sweepIntervalMs has passed since lastSweepMs
    pc,         \* where the tick is
    todo,       \* bots the loop has still to visit, in listing order
    cur,        \* the bot it is at
    files,      \* what is left of the directory listing it goes through
    taken,      \* ids of the receipts consumed and not yet recorded
    msg,        \* the envelope in hand
    pending,    \* recipients of msg still to be served
    okTo,       \* deliveredTo
    \* the world, and history
    age,        \* age[m]: whole days since the envelope's ts
    posted,     \* history: every envelope ever written to an outbox
    cut,        \* history: envelopes whose processing a fault interrupted
    faults

fileVars  == <<outbox, receipts, inbox, archive, sent, refused, readIds>>
routeVars == <<routes, routesOk>>
loopVars  == <<todo, cur, files>>
msgVars   == <<msg, pending, okTo>>
memVars   == <<policy, rate, sweepDue, pc, taken>>
auxVars   == <<age, posted, cut, faults>>
vars == <<fileVars, routeVars, loopVars, msgVars, memVars, auxVars>>

MaxAge == MaxUnreadDays + 1   \* ages beyond both retention limits are alike

\* What b can recall: the live inbox and the archive shards.
Holds(b) == inbox[b] \cup archive[b]

Phase == {"idle", "bots", "receipts", "files", "deliver",
          "sweep", "sweepFiles", "sweepDrop"}

FileTypes ==
    /\ outbox   \in [Bot -> SUBSET Msg]
    /\ receipts \in [Bot -> SUBSET Msg]
    /\ inbox    \in [Bot -> SUBSET Msg]
    /\ archive  \in [Bot -> SUBSET Msg]
    /\ sent     \in [Bot -> SUBSET Msg]
    /\ refused  \in [Bot -> SUBSET Msg]
    /\ readIds  \in [Bot -> Seq(Msg)]

RouteTypes == routes \in RouteFiles /\ routesOk \in BOOLEAN

LoopTypes ==
    /\ todo \in Seq(Bot)
    /\ cur \in Bot \cup {None}
    /\ files \subseteq Msg

MsgTypes ==
    /\ msg \in Msg \cup {None}
    /\ pending \subseteq Bot
    /\ okTo \subseteq Bot

MemTypes ==
    /\ policy \in RouteFiles \cup {{}}
    /\ rate \in [Bot -> 0..PerMinute]
    /\ sweepDue \in BOOLEAN
    /\ pc \in Phase
    /\ taken \in Seq(Msg)

AuxTypes ==
    /\ age \in [Msg -> 0..MaxAge]
    /\ posted \subseteq Msg
    /\ cut \subseteq Msg
    /\ faults \in 0..MaxFaults

TypeOK ==
    FileTypes /\ RouteTypes /\ LoopTypes /\ MsgTypes /\ MemTypes /\ AuxTypes

Init ==
    /\ outbox   = [b \in Bot |-> {}]
    /\ receipts = [b \in Bot |-> {}]
    /\ inbox    = [b \in Bot |-> {}]
    /\ archive  = [b \in Bot |-> {}]
    /\ sent     = [b \in Bot |-> {}]
    /\ refused  = [b \in Bot |-> {}]
    /\ readIds  = [b \in Bot |-> <<>>]
    /\ routes \in RouteFiles
    /\ routesOk \in BOOLEAN
    /\ policy = {}
    /\ rate = [b \in Bot |-> 0]
    /\ sweepDue = TRUE
    /\ pc = "idle"
    /\ todo = <<>>
    /\ cur = None
    /\ files = {}
    /\ taken = <<>>
    /\ msg = None
    /\ pending = {}
    /\ okTo = {}
    /\ age = [m \in Msg |-> 0]
    /\ posted = {}
    /\ cut = {}
    /\ faults = 0

-----------------------------------------------------------------------------
(* The world around the relay                                              *)

\* A bot renames a finished envelope into its outbox (writeOutbound).
Post(m) ==
    /\ m \notin posted
    /\ outbox' = [outbox EXCEPT ![Author[m]] = @ \cup {m}]
    /\ posted' = posted \cup {m}
    /\ UNCHANGED <<receipts, inbox, archive, sent, refused, readIds, routeVars,
                   loopVars, msgVars, memVars, age, cut, faults>>

\* A bot drops a read receipt (emitReadReceipt).
DropReceipt(b, m) ==
    /\ m \in Readable[b]
    /\ receipts' = [receipts EXCEPT ![b] = @ \cup {m}]
    /\ UNCHANGED <<outbox, inbox, archive, sent, refused, readIds, routeVars,
                   loopVars, msgVars, memVars, auxVars>>

\* The operator rewrites the routes file, or leaves it unreadable.
EditRoutes(r, ok) ==
    /\ routes' = r
    /\ routesOk' = ok
    /\ UNCHANGED <<fileVars, loopVars, msgVars, memVars, auxVars>>

\* A day goes by.
Day ==
    /\ \E m \in posted : age[m] < MaxAge
    /\ age' = [m \in Msg |-> IF m \in posted /\ age[m] < MaxAge
                            THEN age[m] + 1 ELSE age[m]]
    /\ UNCHANGED <<fileVars, routeVars, loopVars, msgVars, memVars,
                   posted, cut, faults>>

\* A timestamp leaves b's sliding window.
ExpireSend(b) ==
    /\ rate[b] > 0
    /\ rate' = [rate EXCEPT ![b] = @ - 1]
    /\ UNCHANGED <<fileVars, routeVars, loopVars, msgVars, policy, sweepDue,
                   pc, taken, auxVars>>

\* sweepIntervalMs goes by.
SweepFallsDue ==
    /\ ~sweepDue
    /\ sweepDue' = TRUE
    /\ UNCHANGED <<fileVars, routeVars, loopVars, msgVars, policy, rate, pc,
                   taken, auxVars>>

-----------------------------------------------------------------------------
(* One tick: processOnce, then maybeSweep                                  *)

Fault == faults < MaxFaults /\ faults' = faults + 1

\* loadRoutes: an unreadable file leaves the last good policy, which is
\* deny-all when there was none.
StartTick ==
    /\ pc = "idle"
    /\ policy' = IF routesOk THEN routes ELSE policy
    /\ todo' = Listing
    /\ pc' = "bots"
    /\ UNCHANGED <<fileVars, routeVars, cur, files, msgVars, rate, sweepDue,
                   taken, auxVars>>

\* The next bot directory; processReceipts lists its receipts.
BeginBot ==
    /\ pc = "bots"
    /\ todo # <<>>
    /\ cur' = Head(todo)
    /\ files' = receipts[Head(todo)]
    /\ taken' = <<>>
    /\ pc' = "receipts"
    /\ UNCHANGED <<fileVars, routeVars, todo, msgVars, policy, rate, sweepDue,
                   auxVars>>

\* A receipt is read and deleted; its id is remembered, once, if it is new.
TakeReceipt(m) ==
    /\ pc = "receipts"
    /\ m \in files
    /\ files' = files \ {m}
    /\ receipts' = [receipts EXCEPT ![cur] = @ \ {m}]
    /\ taken' = IF m \in Elems(readIds[cur]) THEN taken ELSE Append(taken, m)
    /\ UNCHANGED <<outbox, inbox, archive, sent, refused, readIds, routeVars,
                   todo, cur, msgVars, policy, rate, sweepDue, pc, auxVars>>

\* rmSync throws: the id is remembered, and the file is there again next tick.
ReceiptKept(m) ==
    /\ pc = "receipts"
    /\ m \in files
    /\ Fault
    /\ files' = files \ {m}
    /\ taken' = IF m \in Elems(readIds[cur]) THEN taken ELSE Append(taken, m)
    /\ UNCHANGED <<fileVars, routeVars, todo, cur, msgVars, policy, rate,
                   sweepDue, pc, age, posted, cut>>

\* addReadIds with what was taken, then the listing of the outbox.
AddReadIds ==
    /\ pc = "receipts"
    /\ files = {}
    /\ readIds' = [readIds EXCEPT ![cur] = LastN(@ \o taken, MaxReadIds)]
    /\ taken' = <<>>
    /\ files' = outbox[cur]
    /\ pc' = "files"
    /\ UNCHANGED <<outbox, receipts, inbox, archive, sent, refused, routeVars,
                   todo, cur, msgVars, policy, rate, sweepDue, auxVars>>

\* underRate, but for the push of the timestamp that Admit makes.
\* Faulty variants: one send too many fits the window; one too few.
UnderRateInclusive(b) == rate[b] <= PerMinute
UnderRateShort(b) == rate[b] + 1 < PerMinute
UnderRate(b) == rate[b] < PerMinute

\* The outbox once archive has renamed m out of it.
\* Faulty variant: the original is copied and stays.
OutboxCopied(m) == outbox
OutboxWithout(m) == [outbox EXCEPT ![cur] = @ \ {m}]

\* Unparseable or invalid: filed under refused/ before the rate is charged.
RefuseInvalid(m) ==
    /\ pc = "files"
    /\ m \in files \ Valid
    /\ files' = files \ {m}
    /\ outbox' = OutboxWithout(m)
    /\ refused' = [refused EXCEPT ![cur] = @ \cup {m}]
    /\ UNCHANGED <<receipts, inbox, archive, sent, readIds, routeVars, todo,
                   cur, msgVars, memVars, auxVars>>

\* archive swallows a failed rename: the next tick refuses the file again.
RefuseError(m) ==
    /\ pc = "files"
    /\ m \in files \ Valid
    /\ Fault
    /\ files' = files \ {m}
    /\ UNCHANGED <<fileVars, routeVars, todo, cur, msgVars, memVars,
                   age, posted, cut>>

\* Over the rate: the file stays in the outbox for the next tick.
DeferOverRate(m) ==
    /\ pc = "files"
    /\ m \in files \cap Valid
    /\ ~UnderRate(cur)
    /\ files' = files \ {m}
    /\ UNCHANGED <<fileVars, routeVars, todo, cur, msgVars, memVars, auxVars>>

\* Under the rate: the send is counted and the recipients, deduplicated, wait.
Admit(m) ==
    /\ pc = "files"
    /\ m \in files \cap Valid
    /\ UnderRate(cur)
    /\ rate' = [rate EXCEPT ![cur] = @ + 1]
    /\ files' = files \ {m}
    /\ msg' = m
    /\ pending' = To[m]
    /\ okTo' = {}
    /\ pc' = "deliver"
    /\ UNCHANGED <<fileVars, routeVars, todo, cur, policy, sweepDue, taken,
                   auxVars>>

\* The relay may deliver msg, from the outbox of cur, to this recipient.
\* Faulty variant: the test for the sender is missing.
RoutedToSelf(to) == <<cur, to>> \in policy
Routed(to) == to # cur /\ <<cur, to>> \in policy

\* A recipient that is the sender, or that no route allows.
SkipRecipient(to) ==
    /\ pc = "deliver"
    /\ to \in pending
    /\ ~Routed(to)
    /\ pending' = pending \ {to}
    /\ UNCHANGED <<fileVars, routeVars, loopVars, msg, okTo, memVars, auxVars>>

\* deliver: write-temp-then-rename into the inbox; same name, same file.
Deliver(to) ==
    /\ pc = "deliver"
    /\ to \in pending
    /\ Routed(to)
    /\ inbox' = [inbox EXCEPT ![to] = @ \cup {msg}]
    /\ okTo' = okTo \cup {to}
    /\ pending' = pending \ {to}
    /\ UNCHANGED <<outbox, receipts, archive, sent, refused, readIds,
                   routeVars, loopVars, msg, memVars, auxVars>>

\* deliver throws: the recipient is counted as refused, never tried again.
DeliverError(to) ==
    /\ pc = "deliver"
    /\ to \in pending
    /\ Routed(to)
    /\ Fault
    /\ pending' = pending \ {to}
    /\ UNCHANGED <<fileVars, routeVars, loopVars, msg, okTo, memVars,
                   age, posted, cut>>

\* deliveredTo is not empty.  Faulty variant: the test is forgotten.
DeliveredAnyhow == TRUE
Delivered == okTo # {}

\* archive: out of the outbox, to sent/ if anybody got it, else to refused/.
FileOriginal ==
    /\ pc = "deliver"
    /\ pending = {}
    /\ outbox' = OutboxWithout(msg)
    /\ IF Delivered
       THEN /\ sent' = [sent EXCEPT ![cur] = @ \cup {msg}]
            /\ UNCHANGED refused
       ELSE /\ refused' = [refused EXCEPT ![cur] = @ \cup {msg}]
            /\ UNCHANGED sent
    /\ msg' = None
    /\ okTo' = {}
    /\ pc' = "files"
    /\ UNCHANGED <<receipts, inbox, archive, readIds, routeVars, loopVars,
                   pending, policy, rate, sweepDue, taken, auxVars>>

\* archive swallows a failed rename: the original is still in the outbox.
FileError ==
    /\ pc = "deliver"
    /\ pending = {}
    /\ Fault
    /\ cut' = IF okTo # {} THEN cut \cup {msg} ELSE cut
    /\ msg' = None
    /\ okTo' = {}
    /\ pc' = "files"
    /\ UNCHANGED <<fileVars, routeVars, loopVars, pending, policy, rate,
                   sweepDue, taken, age, posted>>

EndBot ==
    /\ pc = "files"
    /\ files = {}
    /\ todo' = Tail(todo)
    /\ cur' = None
    /\ pc' = "bots"
    /\ UNCHANGED <<fileVars, routeVars, files, msgVars, policy, rate, sweepDue,
                   taken, auxVars>>

\* processOnce is over; maybeSweep starts a sweep if one is due.
EndBots ==
    /\ pc = "bots"
    /\ todo = <<>>
    /\ IF sweepDue THEN pc' = "sweep" /\ todo' = Listing
                   ELSE pc' = "idle" /\ UNCHANGED todo
    /\ sweepDue' = FALSE
    /\ UNCHANGED <<fileVars, routeVars, cur, files, msgVars, policy, rate,
                   taken, auxVars>>

-----------------------------------------------------------------------------
(* sweepRetention                                                          *)

\* archiveIt.  Faulty variants: the read set is ignored; the cap for unread
\* mail is missing.
ArchiveWhenOld(b, m) == age[m] > LiveReadDays
ArchiveReadOnly(b, m) == m \in Elems(readIds[b]) /\ age[m] > LiveReadDays
ArchiveIt(b, m) ==
    \/ m \in Elems(readIds[b]) /\ age[m] > LiveReadDays
    \/ age[m] > MaxUnreadDays

\* The next bot: the read set and the inbox listing, fixed for its sweep.
SweepBot ==
    /\ pc = "sweep"
    /\ todo # <<>>
    /\ cur' = Head(todo)
    /\ files' = LET b == Head(todo) IN {m \in inbox[b] : ArchiveIt(b, m)}
    /\ pc' = "sweepFiles"
    /\ UNCHANGED <<fileVars, routeVars, todo, msgVars, policy, rate, sweepDue,
                   taken, auxVars>>

\* The archive with m in the shards of cur.
\* Faulty variant: the append fails and nobody notices.
ArchiveUnwritten(m) == archive
ArchiveWith(m) == [archive EXCEPT ![cur] = @ \cup {m}]

\* appendToShard: the envelope is in the archive before it leaves the inbox.
AppendToShard(m) ==
    /\ pc = "sweepFiles"
    /\ m \in files
    /\ archive' = ArchiveWith(m)
    /\ msg' = m
    /\ pc' = "sweepDrop"
    /\ UNCHANGED <<outbox, receipts, inbox, sent, refused, readIds, routeVars,
                   loopVars, pending, okTo, policy, rate, sweepDue, taken,
                   auxVars>>

\* The append throws: the message stays live until the next sweep.
AppendError(m) ==
    /\ pc = "sweepFiles"
    /\ m \in files
    /\ Fault
    /\ files' = files \ {m}
    /\ UNCHANGED <<fileVars, routeVars, todo, cur, msgVars, memVars,
                   age, posted, cut>>

\* The inbox without the message in hand.  Faulty variant: it is not removed.
InboxUntouched == inbox
InboxWithout == [inbox EXCEPT ![cur] = @ \ {msg}]

\* rmSync(src).
DropLive ==
    /\ pc = "sweepDrop"
    /\ inbox' = InboxWithout
    /\ files' = files \ {msg}
    /\ msg' = None
    /\ pc' = "sweepFiles"
    /\ UNCHANGED <<outbox, receipts, archive, sent, refused, readIds,
                   routeVars, todo, cur, pending, okTo, policy, rate, sweepDue,
                   taken, auxVars>>

\* rmSync throws: the message is live and archived, and archived again later.
DropError ==
    /\ pc = "sweepDrop"
    /\ Fault
    /\ cut' = cut \cup {msg}
    /\ files' = files \ {msg}
    /\ msg' = None
    /\ pc' = "sweepFiles"
    /\ UNCHANGED <<fileVars, routeVars, todo, cur, pending, okTo, policy, rate,
                   sweepDue, taken, age, posted>>

EndSweepBot ==
    /\ pc = "sweepFiles"
    /\ files = {}
    /\ todo' = Tail(todo)
    /\ cur' = None
    /\ pc' = "sweep"
    /\ UNCHANGED <<fileVars, routeVars, files, msgVars, policy, rate, sweepDue,
                   taken, auxVars>>

EndSweep ==
    /\ pc = "sweep"
    /\ todo = <<>>
    /\ pc' = "idle"
    /\ UNCHANGED <<fileVars, routeVars, loopVars, msgVars, policy, rate,
                   sweepDue, taken, auxVars>>

-----------------------------------------------------------------------------
\* The relay container dies and is started again: the files stay, the route
\* cache, the rate windows, the sweep clock and the tick in progress go.
Crash ==
    /\ Fault
    /\ cut' = IF \/ pc = "deliver" /\ okTo # {}
                 \/ pc = "sweepDrop"
              THEN cut \cup {msg} ELSE cut
    /\ policy' = {}
    /\ rate' = [b \in Bot |-> 0]
    /\ sweepDue' = TRUE
    /\ pc' = "idle"
    /\ todo' = <<>>
    /\ cur' = None
    /\ files' = {}
    /\ taken' = <<>>
    /\ msg' = None
    /\ pending' = {}
    /\ okTo' = {}
    /\ UNCHANGED <<fileVars, routeVars, age, posted>>

\* An exception ends the tick early: the directories of a bot cannot be made
\* or listed, or its read set cannot be written, and the receipts taken are lost.
AbortTick ==
    /\ \/ pc \in {"bots", "sweep"} /\ todo # <<>>
       \/ pc = "receipts" /\ files = {}
    /\ Fault
    /\ pc' = "idle"
    /\ todo' = <<>>
    /\ cur' = None
    /\ files' = {}
    /\ taken' = <<>>
    /\ UNCHANGED <<fileVars, routeVars, msgVars, policy, rate, sweepDue,
                   age, posted, cut>>

\* A step of the running relay that does not fail.
RelayStep ==
    \/ StartTick \/ BeginBot \/ AddReadIds \/ EndBot \/ EndBots
    \/ FileOriginal
    \/ SweepBot \/ DropLive \/ EndSweepBot \/ EndSweep
    \/ \E b \in Bot : SkipRecipient(b) \/ Deliver(b)
    \/ \E m \in Msg : \/ TakeReceipt(m)
                      \/ RefuseInvalid(m) \/ DeferOverRate(m) \/ Admit(m)
                      \/ AppendToShard(m)

\* A failed operation, or a crash.
FaultStep ==
    \/ FileError \/ DropError \/ AbortTick \/ Crash
    \/ \E b \in Bot : DeliverError(b)
    \/ \E m \in Msg : ReceiptKept(m) \/ RefuseError(m) \/ AppendError(m)

\* Time, and the operator.
WorldStep ==
    \/ Day \/ SweepFallsDue
    \/ \E b \in Bot : ExpireSend(b)
    \/ \E r \in RouteFiles, ok \in BOOLEAN : EditRoutes(r, ok)

\* The bots, which need not be well-behaved.
BotStep ==
    \/ \E m \in Msg : Post(m)
    \/ \E b \in Bot, m \in Msg : DropReceipt(b, m)

Next == RelayStep \/ FaultStep \/ WorldStep \/ BotStep

Spec == Init /\ [][Next]_vars

-----------------------------------------------------------------------------
(* Safety                                                                  *)

\* A posted envelope is in exactly one place of its author's tree: waiting in
\* the outbox, or filed under sent/, or filed under refused/; nobody else's
\* tree has it, and an envelope nobody posted is nowhere.  Deferrals, swallowed
\* rename errors and crashes neither lose an original nor file it twice.
FiledOnce ==
    /\ \A m \in posted : LET a == Author[m] IN
        \/ m \in outbox[a]  /\ m \notin sent[a]   /\ m \notin refused[a]
        \/ m \in sent[a]    /\ m \notin outbox[a] /\ m \notin refused[a]
        \/ m \in refused[a] /\ m \notin outbox[a] /\ m \notin sent[a]
    /\ \A b \in Bot : \A m \in outbox[b] \cup sent[b] \cup refused[b] :
        m \in posted /\ b = Author[m]

\* An original under sent/ was really delivered: some recipient still holds
\* it.  One under refused/ reached nobody, unless a fault cut an earlier
\* attempt short after a first delivery.
FilingIsTrue ==
    \A b \in Bot :
        /\ \A m \in sent[b] : \E r \in To[m] : m \in Holds(r)
        /\ \A m \in refused[b] \ cut : \A r \in Bot : m \notin Holds(r)

\* Routing is default-deny: what a bot holds is valid mail that names it, sent
\* by another bot over a route the operator grants at some time.
RoutedOnly ==
    \A b \in Bot : \A m \in Holds(b) :
        m \in Valid /\ b \in To[m] /\ b # Author[m] /\ <<Author[m], b>> \in UNION RouteFiles

\* A message is live and archived at once only while the sweep moves it, or
\* when a fault interrupted its move or its delivery.
LiveOrArchived ==
    \A b \in Bot : \A m \in inbox[b] \cap archive[b] :
        m \in cut \/ (pc = "sweepDrop" /\ cur = b /\ msg = m)

\* The relay implements the mail promise: envelopes are handed out only while
\* they wait, filed once, and held for ever after.
Delivery == INSTANCE MailDelivery
    WITH waiting <- UNION {outbox[b] : b \in Bot},
         filed   <- UNION {sent[b] \cup refused[b] : b \in Bot},
         holds   <- [b \in Bot |-> Holds(b)]

DeliverySpec == Delivery!Spec

=============================================================================
