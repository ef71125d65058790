------------------------------ MODULE MailWaker ------------------------------
(***************************************************************************)
(* The host daemon that wakes a bot when mail lands in its inbox,          *)
(* scripts/claw-mail-waker.mjs.  A tick loads the cursor file, walks the   *)
(* bots one by one, asks docker whether each runs and what its inbox       *)
(* lists, starts a turn for the messages the cursor does not name, and     *)
(* saves the cursor.  setInterval starts the next tick without waiting for *)
(* the one before: Tick is the set of ticks that may run at once.          *)
(***************************************************************************)
EXTENDS Naturals, Sequences

CONSTANTS
    Msg, Bot,
    Dest,        \* Dest[m]: the bot m is delivered to
    Roster,      \* BOTS, in Object.entries order
    Tick,        \* ticks that may be under way at the same time
    NoId,        \* no message
    MaxFaults    \* bound: crashes, failed saves, docker calls with no answer

ASSUME WakerAssumption ==
    /\ Dest \in [Msg -> Bot]
    /\ Roster \in Seq(Bot)
    /\ NoId \notin Msg
    /\ Tick # {}
    /\ MaxFaults \in Nat

VARIABLES
    inbox,       \* messages lying in their bot's inbox
    cursor,      \* the cursor file: ids already woken for, or Unset
    pc, todo,    \* where each tick is, the bots it has still to visit
    state, snap, \* its copy of the cursor, the last listing it got
    booted,      \* the first tick, which main awaits, is over
    inFlight,    \* bots with a wake under way
    wakes,       \* wakes[b]: turns this process has started and not seen end
    woken,       \* history: woken[m]: turns that named m
    arrived,     \* history: messages ever delivered
    late,        \* history: those delivered once their bot had a cursor
    lost,        \* history: crashes and failed saves
    faults

worldVars == <<inbox, arrived, late>>
tickVars  == <<pc, todo, state, snap>>
turnVars  == <<inFlight, wakes, woken>>
faultVars == <<lost, faults>>
vars == <<worldVars, cursor, tickVars, booted, turnVars, faultVars>>

\* No entry for a bot in the cursor, told from an entry that names nothing.
Unset == {NoId}

NoCursor == [b \in Bot |-> Unset]

\* A bot's entry names mail of that bot only.
Cursors == {c \in [Bot -> (SUBSET Msg) \cup {Unset}] :
               \A b \in Bot : c[b] = Unset \/ \A m \in c[b] : Dest[m] = b}

WakerTypeOK ==
    /\ inbox \subseteq arrived /\ late \subseteq arrived /\ arrived \subseteq Msg
    /\ cursor \in Cursors
    /\ pc \in [Tick -> {"idle", "loop", "asked", "listed"}]
    /\ todo \in [Tick -> Seq(Bot)]
    /\ state \in [Tick -> Cursors]
    /\ snap \in [Tick -> SUBSET Msg]
    /\ booted \in BOOLEAN
    /\ inFlight \subseteq Bot
    /\ wakes \in [Bot -> Nat]
    /\ woken \in [Msg -> Nat]
    /\ lost \in 0..faults /\ faults \in 0..MaxFaults

Init ==
    /\ inbox = {} /\ arrived = {} /\ late = {}
    /\ cursor = NoCursor
    /\ pc = [t \in Tick |-> "idle"]
    /\ todo = [t \in Tick |-> <<>>]
    /\ state = [t \in Tick |-> NoCursor]
    /\ snap = [t \in Tick |-> {}]
    /\ booted = FALSE
    /\ inFlight = {}
    /\ wakes = [b \in Bot |-> 0]
    /\ woken = [m \in Msg |-> 0]
    /\ lost = 0 /\ faults = 0

Fault == faults < MaxFaults /\ faults' = faults + 1

\* The relay delivers a message.
Arrive(m) ==
    /\ m \notin arrived
    /\ inbox' = inbox \cup {m}
    /\ arrived' = arrived \cup {m}
    /\ late' = IF cursor[Dest[m]] = Unset THEN late ELSE late \cup {m}
    /\ UNCHANGED <<cursor, tickVars, booted, turnVars, faultVars>>

\* The relay's sweep archives it.
Leave(m) ==
    /\ m \in inbox
    /\ inbox' = inbox \ {m}
    /\ UNCHANGED <<arrived, late, cursor, tickVars, booted, turnVars, faultVars>>

\* loadState.  main awaits the first tick; the timer waits for nobody.
StartTick(t) ==
    /\ pc[t] = "idle"
    /\ booted \/ \A u \in Tick : pc[u] = "idle"
    /\ state' = [state EXCEPT ![t] = cursor]
    /\ todo' = [todo EXCEPT ![t] = Roster]
    /\ pc' = [pc EXCEPT ![t] = "loop"]
    /\ UNCHANGED <<worldVars, cursor, snap, booted, turnVars, faultVars>>

\* The tick may look at b: no wake of b is under way.
\* Faulty variant: the test is dropped.
MayVisitAny(b) == TRUE
MayVisit(b) == b \notin inFlight

NextBot(t) ==
    /\ todo' = [todo EXCEPT ![t] = Tail(@)]
    /\ snap' = [snap EXCEPT ![t] = {}]
    /\ pc' = [pc EXCEPT ![t] = "loop"]

SkipBot(t) ==
    /\ pc[t] = "loop"
    /\ todo[t] # <<>>
    /\ ~MayVisit(Head(todo[t]))
    /\ NextBot(t)
    /\ UNCHANGED <<worldVars, cursor, state, booted, turnVars, faultVars>>

\* isRunning is called; the tick awaits docker from here to Handle.
AskBot(t) ==
    /\ pc[t] = "loop"
    /\ todo[t] # <<>>
    /\ MayVisit(Head(todo[t]))
    /\ pc' = [pc EXCEPT ![t] = "asked"]
    /\ UNCHANGED <<worldVars, cursor, todo, state, snap, booted, turnVars, faultVars>>

\* Not running, or a docker call failed: the bot is left for the next tick.
NoAnswer(t) ==
    /\ pc[t] \in {"asked", "listed"}
    /\ Fault
    /\ NextBot(t)
    /\ UNCHANGED <<worldVars, cursor, state, booted, turnVars, lost>>

\* What ls finds in the container of b.
\* Faulty variant: every container sees the whole mail tree.
ListedAll(b) == inbox
Listed(b) == {m \in inbox : Dest[m] = b}

\* ls runs in the container.
ListInbox(t) ==
    /\ pc[t] = "asked"
    /\ snap' = [snap EXCEPT ![t] = Listed(Head(todo[t]))]
    /\ pc' = [pc EXCEPT ![t] = "listed"]
    /\ UNCHANGED <<worldVars, cursor, todo, state, booted, turnVars, faultVars>>

\* What the cursor says of the bot after its listing: all that is there.
\* Faulty variant: the entry is pruned to the listing, and not extended.
MarkedOld(t, b) == IF state[t][b] = Unset THEN snap[t] ELSE snap[t] \cap state[t][b]
Marked(t, b) == snap[t]

\* A bot with no cursor is seeded and not woken.
\* Faulty variant: a bot is taken for new whenever its cursor names nothing.
UnseenWhenEmpty(t, b) == state[t][b] \in {Unset, {}}
FirstSeen(t, b) == state[t][b] = Unset

Seed(t) == LET b == Head(todo[t]) IN
    /\ pc[t] = "listed"
    /\ FirstSeen(t, b)
    /\ state' = [state EXCEPT ![t][b] = Marked(t, b)]
    /\ NextBot(t)
    /\ UNCHANGED <<worldVars, cursor, booted, turnVars, faultVars>>

\* A bot the cursor knows: a turn is started if the listing has new ids.
Handle(t) == LET b == Head(todo[t])
                 fresh == snap[t] \ state[t][b] IN
    /\ pc[t] = "listed"
    /\ ~FirstSeen(t, b)
    /\ state' = [state EXCEPT ![t][b] = Marked(t, b)]
    /\ NextBot(t)
    /\ IF fresh = {}
       THEN UNCHANGED turnVars
       ELSE /\ inFlight' = inFlight \cup {b}
            /\ wakes' = [wakes EXCEPT ![b] = @ + 1]
            /\ woken' = [m \in Msg |-> IF m \in fresh THEN woken[m] + 1 ELSE woken[m]]
    /\ UNCHANGED <<worldVars, cursor, booted, faultVars>>

\* inFlight once a turn of b is over.
\* Faulty variant: an early return on an error leaves the bot marked.
StillInFlight(b) == inFlight
LandedInFlight(b) == inFlight \ {b}

\* docker exec returns, with a reply, an error or a timeout: no retry.
WakeEnds(b) ==
    /\ wakes[b] > 0
    /\ wakes' = [wakes EXCEPT ![b] = @ - 1]
    /\ inFlight' = LandedInFlight(b)
    /\ UNCHANGED <<worldVars, cursor, tickVars, booted, woken, faultVars>>

\* saveState: write-temp-then-rename; a failure is logged and forgotten.
EndTick(t) ==
    /\ pc[t] = "loop"
    /\ todo[t] = <<>>
    /\ \/ cursor' = state[t] /\ UNCHANGED faultVars
       \/ Fault /\ lost' = lost + 1 /\ UNCHANGED cursor
    /\ pc' = [pc EXCEPT ![t] = "idle"]
    /\ state' = [state EXCEPT ![t] = NoCursor]
    /\ booted' = TRUE
    /\ UNCHANGED <<worldVars, todo, snap, turnVars>>

\* launchd restarts the daemon; turns it had started are no longer its own.
Crash ==
    /\ Fault
    /\ lost' = lost + 1
    /\ pc' = [t \in Tick |-> "idle"]
    /\ todo' = [t \in Tick |-> <<>>]
    /\ state' = [t \in Tick |-> NoCursor]
    /\ snap' = [t \in Tick |-> {}]
    /\ booted' = FALSE
    /\ inFlight' = {}
    /\ wakes' = [b \in Bot |-> 0]
    /\ UNCHANGED <<worldVars, cursor, woken>>

TickStep(t) ==
    \/ StartTick(t) \/ SkipBot(t) \/ AskBot(t) \/ ListInbox(t)
    \/ Seed(t) \/ Handle(t) \/ EndTick(t)

Next ==
    \/ \E t \in Tick : TickStep(t) \/ NoAnswer(t)
    \/ \E b \in Bot : WakeEnds(b)
    \/ \E m \in Msg : Arrive(m) \/ Leave(m)
    \/ Crash

\* The timer fires, docker calls end (their timeouts see to it) and so do the
\* turns; nobody owes a message, a crash or a failure.
Spec ==
    /\ Init /\ [][Next]_vars
    /\ \A t \in Tick : WF_vars(TickStep(t))
    /\ \A b \in Bot : WF_vars(WakeEnds(b))

-----------------------------------------------------------------------------
\* "Don't overlap a bot's own wake": a bot never runs two wake turns of this
\* daemon at once, and inFlight names exactly the bots that run one.
OneWake == \A b \in Bot : wakes[b] <= 1 /\ (b \in inFlight <=> wakes[b] = 1)

\* "Any LATER message wakes normally": once a bot has a saved cursor, a
\* message that arrives is never marked as woken for without a turn that names it.
LaterMailWakes ==
    \A m \in late :
        cursor[Dest[m]] # Unset /\ m \in cursor[Dest[m]] => woken[m] > 0

\* A message is announced once, and once more at worst for each cursor lost to
\* a crash or a failed save.
WokenOnce == \A m \in Msg : woken[m] <= 1 + lost

\* A message that arrives once its bot has a cursor, and stays, wakes the bot
\* in the end, though docker fails, a wake is under way or the daemon restarts.
EventuallyWoken == \A m \in Msg : (m \in late) ~> (woken[m] > 0 \/ m \notin inbox)

=============================================================================
