------------------------------ MODULE SleepCycle ------------------------------
(***************************************************************************)
(* The sleep-cycle extension: what resets a conversation, and what its     *)
(* next turn is told of it.  A cycle (of a context nap, of the sleep_deep  *)
(* tool, or of the before_reset hook) reads the tails of the transcripts,  *)
(* resets the sessions, awaits the ranking of memories, and saves ONE      *)
(* record, which the memory-prompt supplement puts into the prompt of      *)
(* every turn while it is fresh.                                           *)
(*                                                                         *)
(* An action is what runs between two awaits.  openclaw runs the turns of  *)
(* one session one after the other, and the cycles beside them.  A         *)
(* transcript is its session and its number; what is said in it is not     *)
(* modelled, only whether it has a user or assistant turn.                 *)
(***************************************************************************)
EXTENDS Integers, FiniteSets

CONSTANTS
    SleepSession,
    Matching,       \* the sessions whose key contains one of sessionMatch
    MaxCycles,      \* bound: cycles
    MaxEpoch,       \* bound: resets of a session
    MaxSleepFaults  \* bound: crashes, and calls and writes that fail

ASSUME SleepAssumption ==
    Matching \subseteq SleepSession /\ MaxCycles \in Nat /\ MaxEpoch \in Nat /\ MaxSleepFaults \in Nat

VARIABLES
    \* openclaw
    epoch,          \* epoch[s]: how many transcripts of s were archived
    talked,         \* talked[s]: its live transcript has a turn
    inTurn,         \* inTurn[s]: a turn is under way
    \* context-nap: the sessions that napped less than minMsBetweenNaps ago
    rested,         \* lastNapMsByKey
    \* the cycles under way (want: the sessions to reset, listed: those still to
    \* be reset, as listed, now: the one being reset, tails: the handoff), and
    \* lastCycle in sleep-cycle-state.json
    cycle, wakeFile,
    \* history
    owed,           \* owed[s]: the transcript the next turn is to hear of, or -1
    excuse,         \* <<transcript, cause>>: what became of its handoff
    missed,         \* why the latest turn began without the handoff it was owed
    cycles, sleepFaults

sleepSessions == <<epoch, talked, inTurn>>
sleepGhosts == <<owed, excuse, missed>>
sleepVars == <<sleepSessions, rested, cycle, wakeFile, sleepGhosts, cycles, sleepFaults>>

Cycle == 1..MaxCycles
Transcript == SleepSession \X (0..MaxEpoch)
NoJob == [pc |-> "off", want |-> {}, listed |-> {}, now |-> {}, tails |-> {}]
MissCause == {"early", "overwritten", "lost", "raced", "old", "unexplained"}

SleepTypeOK ==
    /\ epoch \in [SleepSession -> 0..MaxEpoch]
    /\ talked \in [SleepSession -> BOOLEAN] /\ inTurn \in [SleepSession -> BOOLEAN]
    /\ rested \subseteq SleepSession
    /\ \A j \in Cycle :
        /\ cycle[j].pc \in {"off", "list", "reset", "rank", "saved"}
        /\ cycle[j].want \subseteq SleepSession /\ cycle[j].listed \subseteq Transcript
        /\ cycle[j].now \subseteq cycle[j].listed /\ cycle[j].tails \subseteq Transcript
    /\ wakeFile.handoff \subseteq Transcript /\ wakeFile.fresh \in BOOLEAN
    /\ owed \in [SleepSession -> -1..MaxEpoch] /\ excuse \subseteq Transcript \X MissCause
    /\ missed \subseteq MissCause /\ cycles \in 0..MaxCycles /\ sleepFaults \in 0..MaxSleepFaults

SleepInit ==
    /\ epoch = [s \in SleepSession |-> 0]
    /\ talked = [s \in SleepSession |-> FALSE] /\ inTurn = [s \in SleepSession |-> FALSE]
    /\ rested = {}
    /\ cycle = [j \in Cycle |-> NoJob] /\ wakeFile = [handoff |-> {}, fresh |-> FALSE]
    /\ owed = [s \in SleepSession |-> -1] /\ excuse = {} /\ missed = {}
    /\ cycles = 0 /\ sleepFaults = 0

SleepFault == sleepFaults < MaxSleepFaults /\ sleepFaults' = sleepFaults + 1
KeepJob(j, r) == cycle' = [cycle EXCEPT ![j] = r] /\ UNCHANGED cycles
StartCycle(r) ==
    /\ cycles < MaxCycles /\ cycles' = cycles + 1 /\ cycle' = [cycle EXCEPT ![cycles'] = r]

\* minMsBetweenNaps have gone by since the latest nap ...
TimePasses ==
    /\ rested # {} /\ rested' = {}
    /\ UNCHANGED <<sleepSessions, cycle, wakeFile, sleepGhosts, cycles, sleepFaults>>

\* ... and, since the record was saved, the 20 h of buildWakingLines.
RecordAges ==
    /\ wakeFile.fresh /\ wakeFile' = [wakeFile EXCEPT !.fresh = FALSE] /\ rested' = {}
    /\ UNCHANGED <<sleepSessions, cycle, sleepGhosts, cycles, sleepFaults>>

(***************************************************************************)
(* Turns and their hooks                                                   *)
(***************************************************************************)
\* buildWakingLines, at the default hour limit of 24: the transcripts a prompt tells of
HandoffShown == IF wakeFile.fresh THEN wakeFile.handoff ELSE {}

\* A handoff is still on its way: a cycle has the tail and has not saved.
OnItsWay(s) == \E j \in Cycle : <<s, owed[s]>> \in cycle[j].tails /\ cycle[j].pc # "saved"

\* openclaw is between a before_reset and the reset, which a turn waits for.
Resetting(s) ==
    \E j \in Cycle : cycle[j].pc \in {"rank", "saved"} /\ \E t \in cycle[j].now : t[1] = s

\* A cycle awaits the reset of s, and found no turn when it read the tail.
ReadBefore(s) ==
    \E j \in Cycle : cycle[j].pc = "reset" /\ <<s, epoch[s]>> \in cycle[j].now \ cycle[j].tails

TurnBegins(s) ==
    /\ ~inTurn[s] /\ ~Resetting(s) /\ inTurn' = [inTurn EXCEPT ![s] = TRUE]
    /\ talked' = [talked EXCEPT ![s] = TRUE]
    /\ LET why == {x[2] : x \in {y \in excuse : y[1] = <<s, owed[s]>>}}
                    \cup (IF OnItsWay(s) THEN {"early"} ELSE {})
                    \cup (IF <<s, owed[s]>> \in wakeFile.handoff THEN {"old"} ELSE {})
       IN missed' = IF owed[s] < 0 \/ <<s, owed[s]>> \in HandoffShown THEN {}
                    ELSE IF why = {} THEN {"unexplained"} ELSE why
    /\ owed' = [owed EXCEPT ![s] = -1]
    /\ excuse' = {x \in excuse : x[1][1] # s \/ x[1][2] >= epoch[s]} \cup
                 (IF ReadBefore(s) THEN {<<<<s, epoch[s]>>, "raced">>} ELSE {})
    /\ UNCHANGED <<cycles, epoch, rested, cycle, wakeFile, sleepFaults>>

\* onLlmOutput arms the turn if the prompt is over the threshold and the session
\* has not napped of late; onAgentEnd then runs runDeepSleep with this session.
TurnEnds(s, over) ==
    /\ inTurn[s] /\ inTurn' = [inTurn EXCEPT ![s] = FALSE]
    /\ IF over /\ s \in Matching \ rested
       THEN rested' = rested \cup {s} /\ StartCycle([NoJob EXCEPT !.pc = "list", !.want = {s}])
       ELSE UNCHANGED <<rested, cycle, cycles>>
    /\ UNCHANGED <<epoch, talked, wakeFile, sleepGhosts, sleepFaults>>

(***************************************************************************)
(* Resets.  openclaw archives the transcript and starts another.           *)
(***************************************************************************)
\* Another cycle is busy with s, or s has got another transcript since j listed
\* it, so that the tail that j looked for was not there.
Overlaps(j, s) ==
    \/ <<s, epoch[s]>> \notin cycle[j].listed
    \/ \E k \in Cycle \ {j} :
        s \in cycle[k].want \/ \E t \in cycle[k].listed \cup cycle[k].tails : t[1] = s

ResetSession(j, s) ==
    /\ epoch[s] < MaxEpoch /\ epoch' = [epoch EXCEPT ![s] = @ + 1]
    /\ talked' = [talked EXCEPT ![s] = FALSE]
    /\ owed' = [owed EXCEPT ![s] = IF talked[s] THEN epoch[s] ELSE @]
    /\ excuse' = IF Overlaps(j, s) THEN excuse \cup {<<<<s, epoch[s]>>, "raced">>} ELSE excuse

\* The sleep_deep tool, run by its cron or by hand
SleepDeep ==
    /\ StartCycle([NoJob EXCEPT !.pc = "list", !.want = Matching])
    /\ UNCHANGED <<sleepSessions, rested, wakeFile, sleepGhosts, sleepFaults>>

\* sessions.list: the targets that exist, and the transcripts they have now
ListTargets(j) ==
    /\ cycle[j].pc = "list"
    /\ LET there == {s \in cycle[j].want : talked[s] \/ epoch[s] > 0} IN
       KeepJob(j, [cycle[j] EXCEPT !.pc = IF there = {} THEN "rank" ELSE "reset", !.want = {},
                              !.listed = {<<s, epoch[s]>> : s \in there}])
    /\ UNCHANGED <<sleepSessions, rested, wakeFile, sleepGhosts, sleepFaults>>

ListTargetsFails(j) ==
    /\ cycle[j].pc = "list" /\ SleepFault /\ KeepJob(j, NoJob)
    /\ UNCHANGED <<sleepSessions, rested, wakeFile, sleepGhosts>>

\* extractTail: nothing if the file is not there or has no turn
TailOf(t) == IF t = <<t[1], epoch[t[1]]>> /\ talked[t[1]] THEN {t} ELSE {}

\* Faulty variant: only the last target's tail is handed on
SleepMutLastTail(j) ==
    /\ cycle[j].pc = "reset" /\ cycle[j].now = {}
    /\ \E t \in cycle[j].listed : KeepJob(j, [cycle[j] EXCEPT !.now = {t}, !.tails = TailOf(t)])
    /\ UNCHANGED <<sleepSessions, rested, wakeFile, sleepGhosts, sleepFaults>>

\* The tail of the next target is read, and its reset is asked for ...
AskReset(j) ==
    /\ cycle[j].pc = "reset" /\ cycle[j].now = {}
    /\ \E t \in cycle[j].listed :
        KeepJob(j, [cycle[j] EXCEPT !.now = {t}, !.tails = @ \cup TailOf(t)])
    /\ UNCHANGED <<sleepSessions, rested, wakeFile, sleepGhosts, sleepFaults>>

\* ... which succeeds, or fails without stopping the cycle.
NextTarget(j, t) ==
    KeepJob(j, [cycle[j] EXCEPT !.now = {}, !.listed = @ \ {t},
                           !.pc = IF cycle[j].listed = {t} THEN "rank" ELSE @])

ResetDone(j) ==
    /\ cycle[j].pc = "reset"
    /\ \E t \in cycle[j].now : ResetSession(j, t[1]) /\ NextTarget(j, t)
    /\ UNCHANGED <<inTurn, rested, wakeFile, missed, sleepFaults>>

ResetFails(j) ==
    /\ cycle[j].pc = "reset" /\ SleepFault
    /\ \E t \in cycle[j].now : NextTarget(j, t)
    /\ UNCHANGED <<sleepSessions, rested, wakeFile, sleepGhosts>>

\* handleBeforeReset of a daily or idle reset; openclaw's own reset follows at
\* some time.  A session without a turn stages nothing.
BeforeReset(s) ==
    /\ ~inTurn[s] /\ ~Resetting(s)
    /\ StartCycle([NoJob EXCEPT !.listed = {<<s, epoch[s]>>}, !.now = {<<s, epoch[s]>>},
                         !.tails = TailOf(<<s, epoch[s]>>),
                         !.pc = IF talked[s] THEN "rank" ELSE "saved"])
    /\ UNCHANGED <<sleepSessions, rested, wakeFile, sleepGhosts, sleepFaults>>

ScheduledReset(j) ==
    /\ cycle[j].pc \in {"rank", "saved"}
    /\ \E t \in cycle[j].now : ResetSession(j, t[1])
    /\ KeepJob(j, IF cycle[j].pc = "saved" THEN NoJob ELSE [cycle[j] EXCEPT !.now = {}, !.listed = {}])
    /\ UNCHANGED <<inTurn, rested, wakeFile, missed, sleepFaults>>

(***************************************************************************)
(* The ranking is over, and the record is saved.  It has no session, and   *)
(* takes the place of whatever was there; a write that fails says nothing. *)
(***************************************************************************)
AfterSave(j) == KeepJob(j, IF cycle[j].now = {} THEN NoJob ELSE [cycle[j] EXCEPT !.pc = "saved"])

ExcuseTails(tails, why) == excuse' = excuse \cup (tails \X {why})

SaveCycle(j) ==
    /\ cycle[j].pc = "rank" /\ AfterSave(j)
    /\ wakeFile' = [handoff |-> cycle[j].tails, fresh |-> TRUE]
    /\ excuse' = {x \in excuse : x[1] \notin cycle[j].tails}
                    \cup ((wakeFile.handoff \ cycle[j].tails) \X {"overwritten"})
    /\ UNCHANGED <<sleepSessions, rested, owed, missed, sleepFaults>>

SaveCycleFails(j) ==
    /\ cycle[j].pc = "rank" /\ SleepFault /\ AfterSave(j)
    /\ ExcuseTails(cycle[j].tails, "lost")
    /\ UNCHANGED <<sleepSessions, rested, wakeFile, owed, missed>>

\* The gateway, of which all this is a part, dies: the cycles and the naps are
\* forgotten, and the turns are over.
SleepCrash ==
    /\ SleepFault
    /\ cycle' = [j \in Cycle |-> NoJob] /\ inTurn' = [s \in SleepSession |-> FALSE]
    /\ rested' = {}
    /\ ExcuseTails(UNION {cycle[j].tails : j \in {k \in Cycle : cycle[k].pc # "saved"}}, "lost")
    /\ UNCHANGED <<cycles, epoch, talked, wakeFile, owed, missed>>

SleepNext ==
    \/ TimePasses \/ RecordAges
    \/ \E s \in SleepSession : TurnBegins(s) \/ BeforeReset(s)
    \/ \E s \in SleepSession, over \in BOOLEAN : TurnEnds(s, over)
    \/ SleepDeep
    \/ \E j \in Cycle :
        \/ ListTargets(j) \/ ListTargetsFails(j) \/ AskReset(j)
        \/ ResetDone(j) \/ ResetFails(j)
        \/ ScheduledReset(j) \/ SaveCycle(j) \/ SaveCycleFails(j)
    \/ SleepCrash

SleepSpec == SleepInit /\ [][SleepNext]_sleepVars

(***************************************************************************)
(* Properties                                                              *)
(***************************************************************************)
\* The first turn after a reset is told where the conversation left off, unless
\* it began before the cycle had saved, another cycle has saved since, a crash
\* or a failed write lost the record, two cycles were at the session together,
\* or the record is too old.  Nothing else loses a handoff.
HandoffMissesExplained == "unexplained" \notin missed
=============================================================================
