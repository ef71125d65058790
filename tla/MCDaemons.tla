------------------------------ MODULE MCDaemons ------------------------------
(***************************************************************************)
(* Three loops that poll, and what each owes in the end: the wake daemon,  *)
(* the watch of claw-vet, and the passes of the skill audit.  They share   *)
(* no state; "focus", chosen at the start, is the one that runs.           *)
(***************************************************************************)
EXTENDS MailWaker, VetLoop, SkillAudit

CONSTANTS b1, b2, h1, h2, k1, k2, v1, v2

VARIABLE focus

\* Two bots; the mail is for the first of them.
MCDest == [m \in Msg |-> b1]
MCRoster == <<b1, b2>>
MCRoleFiles == {[locked |-> TRUE, exclude |-> {}, own |-> {}],
                [locked |-> FALSE, exclude |-> {}, own |-> {h1}]}

WakerMoves == focus = "waker" /\ UNCHANGED <<focus, vetVars, skillVars>>
VetMoves == focus = "vet" /\ UNCHANGED <<focus, vars, skillVars>>
SkillMoves == focus = "skill" /\ UNCHANGED <<focus, vars, vetVars>>

DaemonsInit ==
    /\ focus \in {"waker", "vet", "skill"}
    /\ Init /\ VetInit /\ SkillInit /\ (focus # "vet" => partitioned)

DaemonsNext ==
    \/ WakerMoves /\ Next
    \/ VetMoves /\ VetNext
    \/ SkillMoves /\ SkillNext

\* The fairness of MailWaker's Spec; the watch sleeps a while and looks again, and a
\* pass begins with every poll.
daemonsVars == <<focus, vars, vetVars, skillVars>>
DaemonsSpec ==
    /\ DaemonsInit /\ [][DaemonsNext]_daemonsVars
    /\ \A t \in Tick : WF_daemonsVars(WakerMoves /\ TickStep(t))
    /\ \A b \in Bot : WF_daemonsVars(WakerMoves /\ WakeEnds(b))
    /\ WF_daemonsVars(VetMoves /\ WatchStep)
    /\ WF_daemonsVars(SkillMoves /\ AuditStep)
=============================================================================
