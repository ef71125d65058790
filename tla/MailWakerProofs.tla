--------------------------- MODULE MailWakerProofs ---------------------------
(***************************************************************************)
(* What the wake daemon owes a bot, for every set of messages and bots,    *)
(* every roster and any number of faults.  What it owes as long as a tick  *)
(* ends before the next one starts is proved under OneTick: the timer does *)
(* not wait, and with two ticks at once a bot is woken twice (the run      *)
(* waker_overlap).                                                          *)
(***************************************************************************)
EXTENDS MailWaker, TLAPS

OneTick == \A t, u \in Tick : t = u

(***************************************************************************)
(* Head(todo[t]) is a bot where the position of t says so, and a listing   *)
(* names mail of that bot.                                                 *)
(***************************************************************************)
Visiting(t) == pc[t] \in {"asked", "listed"}

Positions ==
    \A t \in Tick :
        /\ Visiting(t) => todo[t] # <<>>
        /\ pc[t] = "listed" => \A m \in snap[t] : Dest[m] = Head(todo[t])

TypeInv == WakerTypeOK /\ Positions

\* inFlight names the bots with a turn under way, and the bot that is being
\* visited is not one of them.
FlightInv ==
    /\ OneWake
    /\ \A t \in Tick : Visiting(t) => Head(todo[t]) \notin inFlight

(***************************************************************************)
(* Known[b] is what the daemon takes for announced: the cursor file        *)
(* between ticks, the copy of it during a tick.  A message that is not     *)
(* known and may still be announced has used up no more than the faults.   *)
(***************************************************************************)
Known(t) == IF pc[t] = "idle" THEN cursor ELSE state[t]

InSight(t, m) == m \in inbox \/ (pc[t] = "listed" /\ m \in snap[t])

\* Nothing is known, listed or announced that has not arrived.
PastInv ==
    /\ \A m \in Msg : woken[m] > 0 => m \in arrived
    /\ \A b \in Bot, m \in Msg : m \in cursor[b] => m \in arrived
    /\ \A t \in Tick, m \in Msg : m \in snap[t] => m \in arrived
    /\ \A t \in Tick, b \in Bot, m \in Msg : m \in state[t][b] => m \in arrived

OnceInv ==
    /\ WokenOnce
    /\ \A t \in Tick, m \in Msg :
           InSight(t, m) /\ m \notin Known(t)[Dest[m]] => woken[m] <= lost
    /\ \A t \in Tick, m \in Msg :
           pc[t] = "listed" /\ m \in inbox /\ Dest[m] = Head(todo[t])
               /\ m \in state[t][Dest[m]] => m \in snap[t]

\* A bot that has a cursor keeps one, so its late mail is never seeded.
LateInv ==
    /\ \A m \in late : cursor[Dest[m]] # Unset
    /\ \A t \in Tick, b \in Bot : cursor[b] # Unset => Known(t)[b] # Unset
    /\ \A t \in Tick, m \in late : m \in Known(t)[Dest[m]] => woken[m] > 0
    /\ LaterMailWakes

WakerInv == TypeInv /\ FlightInv /\ PastInv /\ OnceInv /\ LateInv

-----------------------------------------------------------------------------
\* An entry that names mail of its bot may be put in a cursor.
LEMMA CursorEntry ==
    ASSUME NEW c \in Cursors, NEW b \in Bot, NEW S \in SUBSET Msg,
           \A m \in S : Dest[m] = b
    PROVE  [c EXCEPT ![b] = S] \in Cursors
BY DEF Cursors

LEMMA EmptyCursor == NoCursor \in Cursors
BY DEF NoCursor, Cursors, Unset

\* A list of messages is not the mark of a bot without a cursor.
LEMMA ListsAreSet == ASSUME NEW S \in SUBSET Msg PROVE S # Unset
BY WakerAssumption DEF Unset

LEMMA TypeInit == Init => TypeInv
<1> SUFFICES ASSUME Init PROVE TypeInv
  OBVIOUS
<1>1. /\ cursor \in Cursors /\ state \in [Tick -> Cursors]
      /\ todo \in [Tick -> Seq(Bot)]
  BY EmptyCursor DEF Init
<1>2. lost \in 0..faults /\ faults \in 0..MaxFaults
  BY WakerAssumption DEF Init
<1> QED BY <1>1, <1>2 DEF Init, TypeInv, WakerTypeOK, Positions, Visiting

\* Every step of a tick, of a turn, of the mail or of a fault keeps the types.
LEMMA TypeStep == TypeInv /\ [Next]_vars => TypeInv'
<1> SUFFICES ASSUME TypeInv, [Next]_vars PROVE TypeInv'
  OBVIOUS
<1> USE DEF TypeInv, WakerTypeOK
<1>1. ASSUME NEW t \in Tick, StartTick(t) PROVE TypeInv'
  BY <1>1, WakerAssumption
     DEF StartTick, Positions, Visiting, worldVars, turnVars, faultVars
<1>2. ASSUME NEW t \in Tick, SkipBot(t) PROVE TypeInv'
  BY <1>2
     DEF SkipBot, NextBot, Positions, Visiting, worldVars, turnVars, faultVars
<1>3. ASSUME NEW t \in Tick, AskBot(t) PROVE TypeInv'
  BY <1>3 DEF AskBot, Positions, Visiting, worldVars, turnVars, faultVars
<1>4. ASSUME NEW t \in Tick, ListInbox(t) PROVE TypeInv'
  <2>1. Listed(Head(todo[t])) \in SUBSET Msg
    BY DEF Listed
  <2>2. /\ snap' \in [Tick -> SUBSET Msg]
        /\ pc' \in [Tick -> {"idle", "loop", "asked", "listed"}]
    BY <1>4, <2>1 DEF ListInbox
  <2>3. Positions'
    BY <1>4, <2>1 DEF ListInbox, Positions, Visiting, Listed
  <2> QED
    BY <1>4, <2>2, <2>3 DEF ListInbox, worldVars, turnVars, faultVars
<1>5. ASSUME NEW t \in Tick, Seed(t) PROVE TypeInv'
  <2>1. Head(todo[t]) \in Bot /\ Tail(todo[t]) \in Seq(Bot)
    BY <1>5 DEF Seed, Positions, Visiting
  <2>2. [state[t] EXCEPT ![Head(todo[t])] = snap[t]] \in Cursors
    BY <1>5, <2>1, CursorEntry DEF Seed, Positions
  <2>3. state' \in [Tick -> Cursors]
    BY <1>5, <2>2 DEF Seed, Marked
  <2> QED
    BY <1>5, <2>1, <2>3
       DEF Seed, NextBot, Positions, Visiting, worldVars, turnVars, faultVars
<1>6. ASSUME NEW t \in Tick, Handle(t) PROVE TypeInv'
  <2>1. Head(todo[t]) \in Bot /\ Tail(todo[t]) \in Seq(Bot)
    BY <1>6 DEF Handle, Positions, Visiting
  <2>2. [state[t] EXCEPT ![Head(todo[t])] = snap[t]] \in Cursors
    BY <1>6, <2>1, CursorEntry DEF Handle, Positions
  <2>3. state' \in [Tick -> Cursors]
    BY <1>6, <2>2 DEF Handle, Marked
  <2>4. inFlight' \subseteq Bot /\ wakes' \in [Bot -> Nat] /\ woken' \in [Msg -> Nat]
    <3>1. CASE snap[t] \ state[t][Head(todo[t])] = {}
      BY <1>6, <3>1 DEF Handle, turnVars
    <3>2. CASE snap[t] \ state[t][Head(todo[t])] # {}
      <4>1. wakes' \in [Bot -> Nat] /\ inFlight' \subseteq Bot
        BY <1>6, <2>1, <3>2 DEF Handle
      <4>2. woken' \in [Msg -> Nat]
        BY <1>6, <3>2 DEF Handle
      <4> QED BY <4>1, <4>2
    <3> QED BY <3>1, <3>2
  <2> QED
    BY <1>6, <2>1, <2>3, <2>4
       DEF Handle, NextBot, Positions, Visiting, worldVars, faultVars
<1>7. ASSUME NEW t \in Tick, EndTick(t) PROVE TypeInv'
  <2>1. lost' \in 0..faults' /\ faults' \in 0..MaxFaults
    BY <1>7, WakerAssumption DEF EndTick, Fault, faultVars
  <2> QED
    BY <1>7, <2>1, EmptyCursor
       DEF EndTick, Positions, Visiting, worldVars, turnVars
<1>8. ASSUME NEW t \in Tick, NoAnswer(t) PROVE TypeInv'
  <2>1. Tail(todo[t]) \in Seq(Bot)
    BY <1>8 DEF NoAnswer, Positions, Visiting
  <2>2. lost' \in 0..faults' /\ faults' \in 0..MaxFaults
    BY <1>8, WakerAssumption DEF NoAnswer, Fault
  <2> QED
    BY <1>8, <2>1, <2>2
       DEF NoAnswer, NextBot, Positions, Visiting, worldVars, turnVars
<1>9. ASSUME NEW b \in Bot, WakeEnds(b) PROVE TypeInv'
  BY <1>9
     DEF WakeEnds, LandedInFlight, Positions, Visiting, worldVars, tickVars,
         faultVars
<1>10. ASSUME NEW m \in Msg, Arrive(m) PROVE TypeInv'
  BY <1>10 DEF Arrive, Positions, Visiting, tickVars, turnVars, faultVars
<1>11. ASSUME NEW m \in Msg, Leave(m) PROVE TypeInv'
  BY <1>11 DEF Leave, Positions, Visiting, tickVars, turnVars, faultVars
<1>12. ASSUME Crash PROVE TypeInv'
  <2>1. lost' \in 0..faults' /\ faults' \in 0..MaxFaults
    BY <1>12, WakerAssumption DEF Crash, Fault
  <2> QED
    <3>1. state' \in [Tick -> Cursors] /\ todo' \in [Tick -> Seq(Bot)]
      BY <1>12, EmptyCursor DEF Crash
    <3>2. Positions'
      BY <1>12 DEF Crash, Positions, Visiting
    <3> QED BY <1>12, <2>1, <3>1, <3>2 DEF Crash, worldVars
<1>13. CASE UNCHANGED vars
  BY <1>13
     DEF vars, Positions, Visiting, worldVars, tickVars, turnVars, faultVars
<1> QED
  BY <1>1, <1>2, <1>3, <1>4, <1>5, <1>6, <1>7, <1>8, <1>9, <1>10, <1>11, <1>12,
     <1>13
     DEF Next, TickStep

\* Type correctness of the daemon, overlapping ticks included: no tick takes
\* the head of an empty roster, and a cursor entry names mail of its own bot.
THEOREM WakerTypeCorrect == Spec => []WakerTypeOK
<1>1. Spec => []TypeInv
  BY TypeInit, TypeStep, PTL DEF Spec
<1>2. TypeInv => WakerTypeOK
  BY DEF TypeInv
<1> QED BY <1>1, <1>2, PTL

-----------------------------------------------------------------------------
LEMMA FlightInit == Init => FlightInv
BY DEF Init, FlightInv, OneWake, Visiting

\* A turn is started for the bot that is being visited, which had none; the
\* only tick there is then visits nobody.
LEMMA FlightStep ==
    ASSUME OneTick, TypeInv, FlightInv, [Next]_vars
    PROVE  FlightInv'
<1> USE DEF TypeInv, WakerTypeOK, FlightInv, OneWake
<1>1. ASSUME NEW t \in Tick, StartTick(t) \/ SkipBot(t) \/ EndTick(t) \/ NoAnswer(t)
      PROVE  FlightInv'
  <2>1. UNCHANGED turnVars /\ ~Visiting(t)' /\ \A u \in Tick : u # t => UNCHANGED <<pc[u], todo[u]>>
    BY <1>1 DEF StartTick, SkipBot, EndTick, NoAnswer, NextBot, Visiting
  <2> QED BY <2>1 DEF turnVars, Visiting
<1>2. ASSUME NEW t \in Tick, AskBot(t) PROVE FlightInv'
  BY <1>2 DEF AskBot, MayVisit, Visiting, turnVars
<1>3. ASSUME NEW t \in Tick, ListInbox(t) PROVE FlightInv'
  BY <1>3 DEF ListInbox, Visiting, turnVars
<1>4. ASSUME NEW t \in Tick, Seed(t) PROVE FlightInv'
  BY <1>4 DEF Seed, NextBot, Visiting, turnVars
<1>5. ASSUME NEW t \in Tick, Handle(t) PROVE FlightInv'
  <2>1. \A u \in Tick : ~Visiting(u)'
    BY <1>5 DEF OneTick, Handle, NextBot, Visiting
  <2>2. Head(todo[t]) \in Bot /\ Head(todo[t]) \notin inFlight
    BY <1>5 DEF Handle, Positions, Visiting
  <2>3. OneWake'
    <3>1. CASE snap[t] \ state[t][Head(todo[t])] = {}
      BY <1>5, <3>1 DEF Handle, turnVars
    <3>2. CASE snap[t] \ state[t][Head(todo[t])] # {}
      <4>1. /\ inFlight' = inFlight \cup {Head(todo[t])}
            /\ wakes' = [wakes EXCEPT ![Head(todo[t])] = @ + 1]
        BY <1>5, <3>2 DEF Handle
      <4> QED BY <2>2, <4>1
    <3> QED BY <3>1, <3>2
  <2> QED BY <2>1, <2>3
<1>6. ASSUME NEW b \in Bot, WakeEnds(b) PROVE FlightInv'
  BY <1>6 DEF WakeEnds, LandedInFlight, Visiting, tickVars
<1>7. ASSUME NEW m \in Msg, Arrive(m) \/ Leave(m) PROVE FlightInv'
  BY <1>7 DEF Arrive, Leave, Visiting, tickVars, turnVars
<1>8. ASSUME Crash PROVE FlightInv'
  BY <1>8 DEF Crash, Visiting
<1>9. CASE UNCHANGED vars
  BY <1>9 DEF vars, Visiting, tickVars, turnVars
<1> QED
  BY <1>1, <1>2, <1>3, <1>4, <1>5, <1>6, <1>7, <1>8, <1>9 DEF Next, TickStep

\* "Don't overlap a bot's own wake", if ticks do not overlap either.
THEOREM OneWakeAtATime == ASSUME OneTick PROVE Spec => []OneWake
<1>1. Init => TypeInv /\ FlightInv
  BY TypeInit, FlightInit
<1>2. TypeInv /\ FlightInv /\ [Next]_vars => (TypeInv /\ FlightInv)'
  BY TypeStep, FlightStep
<1>3. TypeInv /\ FlightInv => OneWake
  BY DEF FlightInv
<1> QED BY <1>1, <1>2, <1>3, PTL DEF Spec

-----------------------------------------------------------------------------
LEMMA PastInit == Init => PastInv
BY WakerAssumption DEF Init, PastInv, NoCursor, Unset

\* What a tick knows it has read from the cursor file or from an inbox.
LEMMA PastStep ==
    ASSUME TypeInv, PastInv, [Next]_vars
    PROVE  PastInv'
<1> USE DEF TypeInv, WakerTypeOK, PastInv
<1>1. \A b \in Bot, m \in Msg : m \notin NoCursor[b]
  BY WakerAssumption DEF NoCursor, Unset
<1>2. ASSUME NEW t \in Tick, StartTick(t) PROVE PastInv'
  BY <1>2 DEF StartTick, worldVars, turnVars
<1>3. ASSUME NEW t \in Tick, SkipBot(t) \/ AskBot(t) \/ NoAnswer(t) PROVE PastInv'
  BY <1>3 DEF SkipBot, AskBot, NoAnswer, NextBot, worldVars, turnVars
<1>4. ASSUME NEW t \in Tick, ListInbox(t) PROVE PastInv'
  BY <1>4 DEF ListInbox, Listed, worldVars, turnVars
<1>5. ASSUME NEW t \in Tick, Seed(t) PROVE PastInv'
  BY <1>5 DEF Seed, Marked, NextBot, worldVars, turnVars
<1>6. ASSUME NEW t \in Tick, Handle(t) PROVE PastInv'
  <2>1. \A m \in Msg : woken'[m] > 0 => m \in arrived
    <3>1. CASE snap[t] \ state[t][Head(todo[t])] = {}
      BY <1>6, <3>1 DEF Handle, turnVars
    <3>2. CASE snap[t] \ state[t][Head(todo[t])] # {}
      BY <1>6, <3>2 DEF Handle
    <3> QED BY <3>1, <3>2
  <2>2. \A u \in Tick, b \in Bot, m \in Msg : m \in state'[u][b] => m \in arrived
    BY <1>6 DEF Handle, Marked
  <2> QED BY <1>6, <2>1, <2>2 DEF Handle, NextBot, worldVars
<1>7. ASSUME NEW t \in Tick, EndTick(t) PROVE PastInv'
  BY <1>1, <1>7 DEF EndTick, worldVars, turnVars
<1>8. ASSUME NEW b \in Bot, WakeEnds(b) PROVE PastInv'
  BY <1>8 DEF WakeEnds, worldVars, tickVars
<1>9. ASSUME NEW m \in Msg, Arrive(m) \/ Leave(m) PROVE PastInv'
  BY <1>9 DEF Arrive, Leave, tickVars, turnVars
<1>10. ASSUME Crash PROVE PastInv'
  BY <1>1, <1>10 DEF Crash, worldVars
<1>11. CASE UNCHANGED vars
  BY <1>11 DEF vars, worldVars, tickVars, turnVars
<1> QED
  BY <1>2, <1>3, <1>4, <1>5, <1>6, <1>7, <1>8, <1>9, <1>10, <1>11
     DEF Next, TickStep

-----------------------------------------------------------------------------
LEMMA OnceInit == Init => OnceInv
BY DEF Init, OnceInv, WokenOnce, InSight, Known

\* The case of the lemma below that starts a turn, or finds nothing new.
LEMMA OnceHandle ==
    ASSUME OneTick, TypeInv, OnceInv, NEW t \in Tick, Handle(t)
    PROVE  OnceInv'
<1> DEFINE b == Head(todo[t])
           fresh == snap[t] \ state[t][b]
<1> USE DEF TypeInv, WakerTypeOK
<1>1. /\ pc[t] = "listed" /\ pc' = [pc EXCEPT ![t] = "loop"]
      /\ state' = [state EXCEPT ![t][b] = snap[t]]
      /\ b \in Bot /\ \A m \in snap[t] : Dest[m] = b
      /\ UNCHANGED <<inbox, lost>>
  BY DEF Handle, Marked, NextBot, Positions, Visiting, worldVars, faultVars
<1>2. \A m \in Msg : woken'[m] = IF m \in fresh THEN woken[m] + 1 ELSE woken[m]
  <2>1. CASE fresh = {}
    BY <2>1 DEF Handle, turnVars
  <2>2. CASE fresh # {}
    BY <2>2 DEF Handle
  <2> QED BY <2>1, <2>2
<1>3. \A m \in fresh : m \in Msg /\ woken[m] <= lost
  BY <1>1 DEF OnceInv, InSight, Known
<1>4. ASSUME NEW m \in Msg PROVE woken'[m] <= 1 + lost'
  <2>1. woken[m] \in Nat /\ lost \in Nat /\ woken[m] <= 1 + lost
    BY DEF OnceInv, WokenOnce
  <2>2. CASE m \in fresh
    BY <1>1, <1>2, <1>3, <2>1, <2>2
  <2>3. CASE m \notin fresh
    BY <1>1, <1>2, <2>1, <2>3
  <2> QED BY <2>2, <2>3
<1>5. ASSUME NEW m \in Msg, InSight(t, m)', m \notin Known(t)'[Dest[m]]
      PROVE  woken'[m] <= lost'
  <2>1. m \in inbox /\ m \notin state'[t][Dest[m]] /\ Dest[m] \in Bot
    BY <1>1, <1>5, WakerAssumption DEF InSight, Known
  <2>2. CASE Dest[m] = b
    <3>1. state'[t][b] = snap[t] /\ m \notin snap[t]
      BY <1>1, <2>1, <2>2 DEF Cursors
    <3>2. m \notin state[t][b]
      BY <1>1, <2>1, <2>2, <3>1 DEF OnceInv
    <3> QED BY <1>1, <1>2, <2>1, <2>2, <3>1, <3>2 DEF OnceInv, InSight, Known
  <2>3. CASE Dest[m] # b
    <3>1. m \notin fresh /\ m \notin state[t][Dest[m]]
      BY <1>1, <2>1, <2>3
    <3> QED BY <1>1, <1>2, <2>1, <3>1 DEF OnceInv, InSight, Known
  <2> QED BY <2>2, <2>3
<1>6. \A u \in Tick : u = t /\ pc'[u] = "loop"
  BY <1>1 DEF OneTick
<1> QED BY <1>4, <1>5, <1>6 DEF OnceInv, WokenOnce

\* A cursor that is not saved costs one announcement more; nothing else does.
LEMMA OnceStep ==
    ASSUME OneTick, TypeInv, PastInv, OnceInv, [Next]_vars
    PROVE  OnceInv'
<1> USE DEF TypeInv, WakerTypeOK
<1>1. ASSUME NEW t \in Tick, StartTick(t) PROVE OnceInv'
  BY <1>1
     DEF OneTick, StartTick, OnceInv, WokenOnce, InSight, Known, worldVars, turnVars,
         faultVars
<1>2. ASSUME NEW t \in Tick, SkipBot(t) \/ AskBot(t) PROVE OnceInv'
  BY <1>2
     DEF OneTick, SkipBot, AskBot, NextBot, OnceInv, WokenOnce, InSight, Known,
         worldVars, turnVars, faultVars
<1>3. ASSUME NEW t \in Tick, NoAnswer(t) PROVE OnceInv'
  BY <1>3
     DEF OneTick, NoAnswer, NextBot, OnceInv, WokenOnce, InSight, Known,
         worldVars, turnVars
<1>4. ASSUME NEW t \in Tick, ListInbox(t) PROVE OnceInv'
  BY <1>4
     DEF OneTick, ListInbox, Listed, OnceInv, WokenOnce, InSight, Known,
         worldVars, turnVars, faultVars
<1>5. ASSUME NEW t \in Tick, Seed(t) PROVE OnceInv'
  <2> DEFINE b == Head(todo[t])
  <2>1. /\ pc[t] = "listed" /\ pc' = [pc EXCEPT ![t] = "loop"]
        /\ state' = [state EXCEPT ![t][b] = snap[t]]
        /\ b \in Bot
        /\ UNCHANGED <<inbox, lost, woken>>
    BY <1>5
       DEF Seed, Marked, NextBot, Positions, Visiting, worldVars, turnVars, faultVars
  <2>2. \A m \in Msg : m \notin state[t][b]
    BY <1>5, WakerAssumption DEF Seed, FirstSeen, Unset
  <2>3. \A u \in Tick : u = t /\ pc'[u] = "loop"
    BY <2>1 DEF OneTick
  <2>4. ASSUME NEW m \in Msg, m \in inbox, m \notin Known(t)'[Dest[m]]
        PROVE  m \notin Known(t)[Dest[m]]
    BY <2>1, <2>2, <2>4, WakerAssumption DEF Known
  <2> QED BY <2>1, <2>3, <2>4 DEF OnceInv, WokenOnce, InSight
<1>6. ASSUME NEW t \in Tick, Handle(t) PROVE OnceInv'
  BY <1>6, OnceHandle
<1>7. ASSUME NEW t \in Tick, EndTick(t) PROVE OnceInv'
  <2>1. /\ pc[t] = "loop" /\ pc' = [pc EXCEPT ![t] = "idle"]
        /\ UNCHANGED <<inbox, woken>>
        /\ \A u \in Tick : u = t
    BY <1>7 DEF EndTick, OneTick, worldVars, turnVars
  <2>2. CASE cursor' = state[t] /\ UNCHANGED faultVars
    BY <2>1, <2>2 DEF OnceInv, WokenOnce, InSight, Known, faultVars
  <2>3. CASE lost' = lost + 1
    BY <2>1, <2>3 DEF OnceInv, WokenOnce, InSight
  <2> QED BY <1>7, <2>2, <2>3 DEF EndTick
<1>8. ASSUME NEW b \in Bot, WakeEnds(b) PROVE OnceInv'
  BY <1>8
     DEF WakeEnds, OnceInv, WokenOnce, InSight, Known, worldVars, tickVars, faultVars
<1>9. ASSUME NEW m \in Msg, Arrive(m) PROVE OnceInv'
  <2>1. \A t \in Tick : m \notin snap[t] /\ \A b \in Bot : m \notin state[t][b]
    BY <1>9 DEF Arrive, PastInv
  <2>2. woken[m] <= lost
    BY <1>9 DEF Arrive, PastInv
  <2> QED
    BY <1>9, <2>1, <2>2, WakerAssumption
       DEF Arrive, OnceInv, WokenOnce, InSight, Known, tickVars, turnVars, faultVars
<1>10. ASSUME NEW m \in Msg, Leave(m) PROVE OnceInv'
  BY <1>10
     DEF Leave, OnceInv, WokenOnce, InSight, Known, tickVars, turnVars, faultVars
<1>11. ASSUME Crash PROVE OnceInv'
  BY <1>11 DEF Crash, OnceInv, WokenOnce, InSight, Known, worldVars
<1>12. CASE UNCHANGED vars
  BY <1>12
     DEF vars, OnceInv, WokenOnce, InSight, Known, worldVars, tickVars, turnVars,
         faultVars
<1> QED
  BY <1>1, <1>2, <1>3, <1>4, <1>5, <1>6, <1>7, <1>8, <1>9, <1>10, <1>11, <1>12
     DEF Next, TickStep

\* A message is announced once, and once more at worst for every cursor that a
\* crash or a failed save has lost, if ticks do not overlap.
THEOREM AnnouncedOnce == ASSUME OneTick PROVE Spec => []WokenOnce
<1> DEFINE I == TypeInv /\ PastInv /\ OnceInv
<1>1. Init => I
  BY TypeInit, PastInit, OnceInit
<1>2. I /\ [Next]_vars => I'
  BY TypeStep, PastStep, OnceStep
<1>3. I => WokenOnce
  BY DEF OnceInv
<1> QED BY <1>1, <1>2, <1>3, PTL DEF Spec

-----------------------------------------------------------------------------
LEMMA LateInit == Init => LateInv
BY DEF Init, LateInv, LaterMailWakes, Known

\* A bot that had a cursor when the mail came is never taken for a new one, so
\* what a tick adds to what is known it has announced.
LEMMA LateStep ==
    ASSUME OneTick, TypeInv, PastInv, LateInv, [Next]_vars
    PROVE  LateInv'
<1> USE DEF TypeInv, WakerTypeOK
<1>1. ASSUME NEW t \in Tick, StartTick(t) PROVE LateInv'
  BY <1>1
     DEF OneTick, StartTick, LateInv, LaterMailWakes, Known, worldVars, turnVars
<1>2. ASSUME NEW t \in Tick, SkipBot(t) \/ AskBot(t) PROVE LateInv'
  BY <1>2
     DEF OneTick, SkipBot, AskBot, NextBot, LateInv, LaterMailWakes, Known,
         worldVars, turnVars
<1>3. ASSUME NEW t \in Tick, NoAnswer(t) PROVE LateInv'
  BY <1>3
     DEF OneTick, NoAnswer, NextBot, LateInv, LaterMailWakes, Known, worldVars,
         turnVars
<1>4. ASSUME NEW t \in Tick, ListInbox(t) PROVE LateInv'
  BY <1>4
     DEF OneTick, ListInbox, LateInv, LaterMailWakes, Known, worldVars, turnVars
<1>5. ASSUME NEW t \in Tick, Seed(t) \/ Handle(t) PROVE LateInv'
  <2> DEFINE b == Head(todo[t])
  <2>1. /\ pc[t] = "listed" /\ pc' = [pc EXCEPT ![t] = "loop"]
        /\ state' = [state EXCEPT ![t][b] = snap[t]]
        /\ b \in Bot
        /\ UNCHANGED <<late, cursor>>
    BY <1>5 DEF Seed, Handle, Marked, NextBot, Positions, Visiting, worldVars
  <2>2. \A u \in Tick : u = t /\ pc'[u] = "loop"
    BY <2>1 DEF OneTick
  <2>3. \A m \in Msg : woken[m] > 0 => woken'[m] > 0
    <3>1. CASE UNCHANGED turnVars
      BY <3>1 DEF turnVars
    <3>2. CASE woken' = [m \in Msg |-> IF m \in snap[t] \ state[t][b]
                                       THEN woken[m] + 1 ELSE woken[m]]
      BY <3>2
    <3> QED BY <1>5, <3>1, <3>2 DEF Seed, Handle
  <2>4. LaterMailWakes' /\ \A m \in late' : cursor'[Dest[m]] # Unset
    BY <2>1, <2>3 DEF LateInv, LaterMailWakes
  <2>5. \A c \in Bot : state'[t][c] = IF c = b THEN snap[t] ELSE state[t][c]
    BY <2>1 DEF Cursors
  <2>6. snap[t] # Unset
    BY ListsAreSet
  <2>7. \A c \in Bot : cursor[c] # Unset => state'[t][c] # Unset
    BY <2>1, <2>5, <2>6 DEF LateInv, Known
  <2>8. ASSUME NEW m \in late
        PROVE  m \in state'[t][Dest[m]] => woken'[m] > 0
    <3>1. m \in Msg /\ Dest[m] \in Bot /\ state[t][Dest[m]] # Unset
      BY <2>1, WakerAssumption DEF LateInv, Known
    <3>2. CASE Dest[m] # b
      BY <2>1, <2>3, <2>5, <3>1, <3>2 DEF LateInv, Known
    <3>3. CASE Dest[m] = b
      <4>1. state'[t][Dest[m]] = snap[t]
        BY <2>5, <3>1, <3>3
      <4>2. CASE m \in snap[t] /\ m \notin state[t][b]
        <5>1. ~FirstSeen(t, b)
          BY <3>1, <3>3 DEF FirstSeen
        <5>2. Handle(t)
          BY <1>5, <5>1 DEF Seed
        <5>3. woken'[m] = woken[m] + 1
          BY <3>1, <4>2, <5>2 DEF Handle
        <5> QED BY <3>1, <4>1, <5>3
      <4>3. CASE m \in snap[t] /\ m \in state[t][b]
        BY <2>1, <2>3, <3>1, <3>3, <4>1, <4>3 DEF LateInv, Known
      <4>4. CASE m \notin snap[t]
        BY <4>1, <4>4
      <4> QED BY <4>2, <4>3, <4>4
    <3> QED BY <3>2, <3>3
  <2> QED BY <2>1, <2>2, <2>4, <2>7, <2>8 DEF LateInv, Known
<1>6. ASSUME NEW t \in Tick, EndTick(t) PROVE LateInv'
  <2>1. /\ pc[t] = "loop" /\ pc' = [pc EXCEPT ![t] = "idle"]
        /\ UNCHANGED <<late, woken>>
        /\ \A u \in Tick : u = t
    BY <1>6 DEF EndTick, OneTick, worldVars, turnVars
  <2>2. \A u \in Tick : Known(u)' = cursor'
    BY <2>1 DEF Known
  <2>3. CASE cursor' = cursor
    BY <2>1, <2>2, <2>3, WakerAssumption DEF LateInv, LaterMailWakes
  <2>4. CASE cursor' = state[t]
    <3>1. Known(t) = state[t]
      BY <2>1 DEF Known
    <3>2. \A m \in late : cursor'[Dest[m]] # Unset
      BY <2>4, <3>1, WakerAssumption DEF LateInv
    <3> QED BY <2>1, <2>2, <2>4, <3>1, <3>2 DEF LateInv, LaterMailWakes
  <2> QED BY <1>6, <2>3, <2>4 DEF EndTick
<1>7. ASSUME NEW b \in Bot, WakeEnds(b) PROVE LateInv'
  BY <1>7 DEF WakeEnds, LateInv, LaterMailWakes, Known, worldVars, tickVars
<1>8. ASSUME NEW m \in Msg, Arrive(m) PROVE LateInv'
  <2>1. /\ m \notin cursor[Dest[m]]
        /\ \A t \in Tick : m \notin state[t][Dest[m]]
    BY <1>8, WakerAssumption DEF Arrive, PastInv
  <2> QED
    BY <1>8, <2>1, WakerAssumption
       DEF Arrive, LateInv, LaterMailWakes, Known, tickVars, turnVars
<1>9. ASSUME NEW m \in Msg, Leave(m) PROVE LateInv'
  BY <1>9 DEF Leave, LateInv, LaterMailWakes, Known, tickVars, turnVars
<1>10. ASSUME Crash PROVE LateInv'
  BY <1>10 DEF Crash, LateInv, LaterMailWakes, Known, worldVars
<1>11. CASE UNCHANGED vars
  BY <1>11 DEF vars, LateInv, LaterMailWakes, Known, worldVars, tickVars, turnVars
<1> QED
  BY <1>1, <1>2, <1>3, <1>4, <1>5, <1>6, <1>7, <1>8, <1>9, <1>10, <1>11
     DEF Next, TickStep

\* "Any LATER message wakes normally": what is marked as seen and came after
\* the bot had a cursor has been announced, if ticks do not overlap.
THEOREM LaterMailAnnounced == ASSUME OneTick PROVE Spec => []LaterMailWakes
<1> DEFINE I == TypeInv /\ PastInv /\ LateInv
<1>1. Init => I
  BY TypeInit, PastInit, LateInit
<1>2. I /\ [Next]_vars => I'
  BY TypeStep, PastStep, LateStep
<1>3. I => LaterMailWakes
  BY DEF LateInv
<1> QED BY <1>1, <1>2, <1>3, PTL DEF Spec

=============================================================================
