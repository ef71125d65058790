------------------------------ MODULE SkillAudit ------------------------------
(***************************************************************************)
(* The clawhub-skill-audit extension.  A pass (at the start, by the poll,  *)
(* or when openclaw reports a change) takes a snapshot of every skill on   *)
(* disk and audits, one after the other, those whose content was not       *)
(* audited before: it awaits the model's verdict, writes it to the trail,  *)
(* marks the content as seen, and moves a blocked skill to the quarantine. *)
(* Skills are installed, replaced and removed at any time.                 *)
(*                                                                         *)
(* A skill is its directory, a version is what snapshotSkill sees of its   *)
(* content: the hash of the first files, cut to their first bytes.         *)
(***************************************************************************)
EXTENDS Integers, FiniteSets

CONSTANTS
    Skill, Version,
    Bad,            \* the versions for which the model's verdict is "block"
    Missing,        \* no such directory
    MaxInstalls,    \* bound: changes of the skills' directories
    MaxAuditFaults  \* bound: crashes, failed calls, failed writes and moves

ASSUME SkillAssumption ==
    /\ Missing \notin Version
    /\ MaxInstalls \in Nat /\ MaxAuditFaults \in Nat

VARIABLES
    installed,      \* installed[s]: the version in the directory of s
    \* the plugin
    auditing,       \* a pass is under way
    fresh,          \* the snapshots it has still to audit
    auditPc,        \* "verdict": the model is asked; "trail", "seen" and "act":
                    \* what follows its answer, between which the process may die
    answer,         \* its answer: "block", "other" (pass or warn) or "error"
    seen,           \* the index, in memory
    \* files
    seenFile,       \* seen.json
    trail,          \* the audit trail: <<skill, version, answer>>
    \* history
    spared,         \* blocked, and not moved for a reason: see BlockedIsGone
    installs, auditFaults

skillVars == <<installed, auditing, fresh, auditPc, answer, seen, seenFile, trail,
               spared, installs, auditFaults>>
Snapshot == Skill \X Version

SkillTypeOK ==
    /\ installed \in [Skill -> Version \cup {Missing}] /\ auditing \in BOOLEAN
    /\ fresh \subseteq Snapshot /\ auditPc \in {"idle", "verdict", "trail", "seen", "act"}
    /\ answer \in {"none", "block", "other", "error"}
    /\ seen \subseteq Snapshot /\ seenFile \subseteq Snapshot /\ spared \subseteq Snapshot
    /\ trail \subseteq Skill \X Version \X {"block", "other", "error"}
    /\ installs \in 0..MaxInstalls /\ auditFaults \in 0..MaxAuditFaults

SkillInit ==
    /\ installed = [s \in Skill |-> Missing] /\ auditing = FALSE /\ fresh = {}
    /\ auditPc = "idle" /\ answer = "none"
    /\ seen = {} /\ seenFile = {} /\ trail = {} /\ spared = {}
    /\ installs = 0 /\ auditFaults = 0

AuditFault == auditFaults < MaxAuditFaults /\ auditFaults' = auditFaults + 1

\* The skill that is being audited: the passes take them in the order of the scan.
Current == CHOOSE x \in fresh : TRUE

\* clawhub, or somebody's hand
Install(s, v) ==
    /\ installs < MaxInstalls /\ installs' = installs + 1 /\ v # installed[s]
    /\ installed' = [installed EXCEPT ![s] = v]
    /\ spared' = spared \cup ({<<s, v>>} \cap seen)
    /\ UNCHANGED <<auditing, fresh, auditPc, answer, seen, seenFile, trail, auditFaults>>

(***************************************************************************)
(* auditNow                                                                *)
(***************************************************************************)
OnDisk == {x \in Snapshot : installed[x[1]] = x[2]}

\* It does nothing while a pass is under way, or if nothing is fresh.
BeginPass ==
    /\ ~auditing /\ OnDisk \ seen # {}
    /\ auditing' = TRUE /\ fresh' = OnDisk \ seen /\ auditPc' = "verdict"
    /\ UNCHANGED <<installed, answer, seen, seenFile, trail, spared, installs, auditFaults>>

\* runAudit answers: with what the model says of the version, or an error.
AuditVerdict ==
    /\ auditPc = "verdict" /\ auditPc' = "trail"
    /\ \/ answer' = (IF Current[2] \in Bad THEN "block" ELSE "other") /\ UNCHANGED auditFaults
       \/ AuditFault /\ answer' = "error"
    /\ UNCHANGED <<installed, auditing, fresh, seen, seenFile, trail, spared, installs>>

\* store.record: the record is a new file of the trail ...
WriteTrail ==
    /\ auditPc = "trail" /\ auditPc' = "seen"
    /\ trail' = trail \cup {<<Current[1], Current[2], answer>>}
    /\ UNCHANGED <<installed, auditing, fresh, answer, seen, seenFile, spared, installs, auditFaults>>

\* ... and then its key goes into the index, whatever the verdict, "error" too.
MarkSeen ==
    /\ auditPc = "seen" /\ auditPc' = "act"
    /\ seen' = seen \cup {Current} /\ seenFile' = seen \cup {Current}
    /\ UNCHANGED <<installed, auditing, fresh, answer, trail, spared, installs, auditFaults>>

NextFresh ==
    /\ fresh' = fresh \ {Current} /\ answer' = "none"
    /\ IF fresh = {Current} THEN auditing' = FALSE /\ auditPc' = "idle"
       ELSE auditPc' = "verdict" /\ UNCHANGED auditing

\* Faulty variant: a blocked skill is moved only at the first of its versions
SkillMutQuarantine ==
    /\ auditPc = "act" /\ NextFresh
    /\ installed' = IF answer = "block" /\ \A x \in seen \ {Current} : x[1] # Current[1]
                    THEN [installed EXCEPT ![Current[1]] = Missing] ELSE installed
    /\ UNCHANGED <<seen, seenFile, trail, spared, installs, auditFaults>>

\* quarantineSkill moves the directory, with what it holds by now.
Quarantine ==
    /\ auditPc = "act" /\ NextFresh
    /\ installed' = IF answer = "block" THEN [installed EXCEPT ![Current[1]] = Missing]
                    ELSE installed
    /\ UNCHANGED <<seen, seenFile, trail, spared, installs, auditFaults>>

\* A move that fails is logged, and not tried again.
QuarantineFails ==
    /\ auditPc = "act" /\ answer = "block" /\ AuditFault /\ NextFresh
    /\ spared' = spared \cup {Current}
    /\ UNCHANGED <<installed, seen, seenFile, trail, installs>>

\* Faulty variant: content is seen even if its record could not be written
SkillMutSeenAnyway ==
    /\ auditPc \in {"trail", "seen"} /\ AuditFault
    /\ auditing' = FALSE /\ fresh' = {} /\ auditPc' = "idle" /\ answer' = "none"
    /\ seen' = seen \cup {Current} /\ spared' = spared \cup {Current}
    /\ UNCHANGED <<installed, seenFile, trail, installs>>

\* Faulty variant: the flag of a pass that failed stays up
SkillMutFlag ==
    /\ auditPc \in {"trail", "seen"} /\ AuditFault
    /\ fresh' = {} /\ auditPc' = "idle" /\ answer' = "none"
    /\ seen' = IF auditPc = "seen" THEN seen \cup {Current} ELSE seen
    /\ spared' = IF auditPc = "seen" THEN spared \cup {Current} ELSE spared
    /\ UNCHANGED <<installed, auditing, seenFile, trail, installs>>

\* A write of store.record fails: the pass is over, and if only the index could
\* not be written the content is nevertheless seen, until the process ends.
RecordFails ==
    /\ auditPc \in {"trail", "seen"} /\ AuditFault
    /\ auditing' = FALSE /\ fresh' = {} /\ auditPc' = "idle" /\ answer' = "none"
    /\ seen' = IF auditPc = "seen" THEN seen \cup {Current} ELSE seen
    /\ spared' = IF auditPc = "seen" THEN spared \cup {Current} ELSE spared
    /\ UNCHANGED <<installed, seenFile, trail, installs>>

AuditorCrash ==
    /\ AuditFault /\ auditing' = FALSE /\ fresh' = {} /\ auditPc' = "idle" /\ answer' = "none"
    /\ seen' = seenFile
    /\ spared' = IF auditPc = "act" THEN spared \cup {Current} ELSE spared
    /\ UNCHANGED <<installed, seenFile, trail, installs>>

AuditStep == BeginPass \/ AuditVerdict \/ WriteTrail \/ MarkSeen \/ Quarantine

SkillNext ==
    \/ \E s \in Skill, v \in Version \cup {Missing} : Install(s, v)
    \/ BeginPass \/ AuditVerdict \/ WriteTrail \/ MarkSeen \/ Quarantine
    \/ QuarantineFails \/ RecordFails \/ AuditorCrash

SkillSpec == SkillInit /\ [][SkillNext]_skillVars

(***************************************************************************)
(* Properties                                                              *)
(***************************************************************************)
\* Content that counts as audited has its record in the trail, over crashes and
\* failed writes: losing the index costs audits, never the trail.
SeenHasTrail ==
    \A x \in seen \cup seenFile : \E a \in {"block", "other", "error"} : <<x[1], x[2], a>> \in trail

\* A version that was audited and blocked is not on disk once its audit is over,
\* unless its move or the write of its record failed, the process died between
\* record and move, it was installed again after it had been seen, or a later
\* audit of it ended in an error, which counts as an audit.
BlockedIsGone ==
    \A x \in OnDisk \cap seen :
        <<x[1], x[2], "block">> \in trail =>
            x \in spared \/ <<x[1], x[2], "error">> \in trail
            \/ (auditPc = "act" /\ x = Current)

\* What is installed and stays is audited in the end, through crashes and failed
\* writes.
EventuallyAudited == \A x \in Snapshot : (x \in OnDisk) ~> (x \in seen \/ x \notin OnDisk)
=============================================================================
