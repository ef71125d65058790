---------------------------- MODULE GatewayProofs ----------------------------
(***************************************************************************)
(* What the plugins of the gateway keep, for every configuration, any      *)
(* number of requests, skills, runs and calls, and any number of faults:   *)
(* the approval gate, the skill audit, the reviewer, the vetter and the    *)
(* sleep cycle.  They share no state, and the theorems of each are about   *)
(* its own specification; the last is about the module that puts them and  *)
(* the archive side by side.                                               *)
(***************************************************************************)
EXTENDS MCComponents, MailArchiveProofs, WellFoundedInduction

(***************************************************************************)
(* The approval gate                                                       *)
(***************************************************************************)
\* A request that is not over has no outcome, and no reply was taken for it.
NotYetAnswered ==
    \A i \in GateId : stage[i] # "over" =>
        outcome[i] = "none" /\ \A words \in Words : <<i, words>> \notin taken

GateInv == GateTypeOK /\ ResolvedByItsReply /\ NotYetAnswered

GateOutcome == {"none", "allowed", "approved", "denied", "timeout", "failed", "solution", "skip"}

\* checkApiApproval allows, denies or asks.
LEMMA PolicyAnswers ==
    ASSUME NEW q \in ApiRequest
    PROVE  CheckApiApproval(q) \in {"none", "allowed", "denied", "ask"}
<1> DEFINE rule(k) == ServiceRule(ApiPolicy.services[k], q)
           services == {k \in DOMAIN ApiPolicy.services : rule(k) # "none"}
<1>1. \A k : rule(k) \in {"none", "allowed", "ask"}
    BY DEF ServiceRule
<1>2. rule(Min(services)) \in {"none", "allowed", "ask"}
    BY <1>1
<1> HIDE DEF rule, services
<1>3. CheckApiApproval(q) =
          IF q.host \in ApiPolicy.denied THEN "denied"
          ELSE IF services # {} THEN rule(Min(services))
          ELSE IF \E k \in DOMAIN ApiPolicy.allowlist : AllowRule(ApiPolicy.allowlist[k], q)
          THEN "allowed"
          ELSE IF q.method \in ApiPolicy.approvalMethods \/ ApiPolicy.default = "deny"
          THEN "ask" ELSE "allowed"
    BY DEF CheckApiApproval, rule, services
<1> QED BY <1>2, <1>3

\* What a message means is an outcome of its own.
LEMMA MeaningIsAnOutcome ==
    ASSUME NEW i \in GateId, NEW words \in Words
    PROVE  /\ Meaning(i, words) \in GateOutcome
           /\ i \in ApiId \ YesIds /\ Meaning(i, words) = "approved" => words = "approve"
BY DEF Meaning, GateOutcome, Words

\* A request that waits is over, with no approval, solution or skip in it.
LEMMA EndsUnanswered ==
    ASSUME GateInv, NEW i \in GateId, stage[i] # "over",
           NEW o \in GateOutcome \ {"approved", "solution", "skip"},
           Over(i, o), UNCHANGED <<readable, taken, gateReplies>>
    PROVE  GateInv'
<1>1. /\ stage \in [GateId -> {"new", "sending", "pending", "over"}]
      /\ outcome \in [GateId -> GateOutcome] /\ taken \subseteq GateId \X Words
    BY DEF GateInv, GateTypeOK, GateOutcome
<1>2. \A k \in GateId : stage'[k] = IF k = i THEN "over" ELSE stage[k]
    BY <1>1 DEF Over
<1>3. \A k \in GateId : outcome'[k] = IF k = i THEN o ELSE outcome[k]
    BY <1>1 DEF Over
<1>4. GateTypeOK'
    BY <1>1 DEF GateInv, GateTypeOK, GateOutcome, Over
<1>5. \A t \in taken : t[1] \in GateId /\ t[1] # i
    <2>1. SUFFICES ASSUME NEW t \in taken PROVE t[1] \in GateId /\ t[1] # i
        OBVIOUS
    <2> QED BY <1>1, <2>1 DEF GateInv, ResolvedByItsReply
<1>6. ResolvedByItsReply'
    <2>1. \A k \in GateId : outcome'[k] \in {"approved", "solution", "skip"} =>
              \E words \in Words : <<k, words>> \in taken' /\ outcome'[k] = Meaning(k, words)
        BY <1>3 DEF GateInv, ResolvedByItsReply
    <2>2. \A t \in taken' : stage'[t[1]] = "over" /\ outcome'[t[1]] = Meaning(t[1], t[2])
        BY <1>2, <1>3, <1>5 DEF GateInv, ResolvedByItsReply
    <2>3. \A k \in ApiId \ YesIds : outcome'[k] = "approved" => <<k, "approve">> \in taken'
        BY <1>3 DEF GateInv, ResolvedByItsReply, GateId
    <2> QED BY <2>1, <2>2, <2>3 DEF ResolvedByItsReply
<1>7. NotYetAnswered'
    BY <1>2, <1>3 DEF GateInv, NotYetAnswered
<1> QED BY <1>4, <1>6, <1>7 DEF GateInv

\* A step that leaves outcomes and replies alone, and lets nothing be over.
LEMMA NothingAnswered ==
    ASSUME GateInv, GateTypeOK', UNCHANGED <<outcome, taken>>,
           \A i \in GateId : (stage[i] = "over") <=> (stage'[i] = "over")
    PROVE  GateInv'
<1>1. \A t \in taken : t[1] \in GateId
    BY DEF GateInv, GateTypeOK
<1>2. ResolvedByItsReply'
    BY <1>1 DEF GateInv, ResolvedByItsReply
<1>3. NotYetAnswered'
    BY DEF GateInv, NotYetAnswered
<1> QED BY <1>2, <1>3 DEF GateInv

\* A reply to a request that waits decides that request.
LEMMA ReplyDecides ==
    ASSUME GateInv, NEW i \in GateId, NEW words \in Words, Reply(i, words)
    PROVE  GateInv'
<1>1. /\ stage \in [GateId -> {"new", "sending", "pending", "over"}]
      /\ outcome \in [GateId -> GateOutcome] /\ taken \subseteq GateId \X Words
      /\ gateReplies \in 0..MaxReplies /\ readable \subseteq GateId
    BY DEF GateInv, GateTypeOK, GateOutcome
<1>2. gateReplies' \in 0..MaxReplies
    BY <1>1, GateAssumption DEF Reply
<1>3. CASE stage[i] # "pending"
    <2>1. UNCHANGED <<stage, outcome, taken, readable>>
        BY <1>3 DEF Reply
    <2>2. GateTypeOK'
        BY <1>1, <1>2, <2>1 DEF GateInv, GateTypeOK
    <2> QED BY <2>1, <2>2, NothingAnswered
<1>4. CASE stage[i] = "pending"
    <2>1. Over(i, Meaning(i, words)) /\ taken' = taken \cup {<<i, words>>}
        BY <1>4 DEF Reply
    <2>2. \A k \in GateId : stage'[k] = IF k = i THEN "over" ELSE stage[k]
        BY <1>1, <2>1 DEF Over
    <2>3. \A k \in GateId : outcome'[k] = IF k = i THEN Meaning(i, words) ELSE outcome[k]
        BY <1>1, <2>1 DEF Over
    <2>4. Meaning(i, words) \in GateOutcome
        BY MeaningIsAnOutcome
    <2>5. GateTypeOK'
        <3>1. outcome' \in [GateId -> GateOutcome]
            BY <1>1, <2>1, <2>4 DEF Over
        <3>2. stage' \in [GateId -> {"new", "sending", "pending", "over"}]
            BY <1>1, <2>1 DEF Over
        <3>3. taken' \subseteq GateId \X Words
            BY <1>1, <2>1
        <3>4. readable' \subseteq GateId
            BY <1>1 DEF Reply
        <3> QED BY <1>2, <3>1, <3>2, <3>3, <3>4 DEF GateTypeOK, GateOutcome
    <2>6. \A t \in taken : t[1] \in GateId /\ t[1] # i
        BY <1>1, <1>4 DEF GateInv, ResolvedByItsReply
    <2>7. ResolvedByItsReply'
        <3>1. ASSUME NEW k \in GateId, outcome'[k] \in {"approved", "solution", "skip"}
              PROVE  \E w \in Words : <<k, w>> \in taken' /\ outcome'[k] = Meaning(k, w)
            <4>1. CASE k = i
                BY <2>1, <2>3, <4>1
            <4>2. CASE k # i
                BY <2>1, <2>3, <3>1, <4>2 DEF GateInv, ResolvedByItsReply
            <4> QED BY <4>1, <4>2
        <3>2. ASSUME NEW t \in taken'
              PROVE  stage'[t[1]] = "over" /\ outcome'[t[1]] = Meaning(t[1], t[2])
            <4>1. CASE t \in taken
                BY <2>2, <2>3, <2>6, <4>1 DEF GateInv, ResolvedByItsReply
            <4>2. CASE t = <<i, words>>
                BY <2>2, <2>3, <4>2
            <4> QED BY <2>1, <4>1, <4>2
        <3>3. ASSUME NEW k \in ApiId \ YesIds, outcome'[k] = "approved"
              PROVE  <<k, "approve">> \in taken'
            <4>1. CASE k = i
                BY <2>1, <2>3, <3>3, <4>1, MeaningIsAnOutcome
            <4>2. CASE k # i
                BY <2>1, <2>3, <3>3, <4>2 DEF GateInv, ResolvedByItsReply, GateId
            <4> QED BY <4>1, <4>2
        <3> QED BY <3>1, <3>2, <3>3 DEF ResolvedByItsReply
    <2>8. NotYetAnswered'
        BY <2>1, <2>2, <2>3 DEF GateInv, NotYetAnswered
    <2> QED BY <2>5, <2>7, <2>8 DEF GateInv
<1> QED BY <1>3, <1>4

LEMMA GateStart == GateInit => GateInv
<1> SUFFICES ASSUME GateInit PROVE GateInv
    OBVIOUS
<1>1. GateTypeOK
    BY GateAssumption DEF GateInit, GateTypeOK
<1>2. ResolvedByItsReply
    BY DEF GateInit, ResolvedByItsReply, GateId
<1>3. NotYetAnswered
    BY DEF GateInit, NotYetAnswered
<1> QED BY <1>1, <1>2, <1>3 DEF GateInv

LEMMA GateStep == GateInv /\ [GateNext]_gateVars => GateInv'
<1> SUFFICES ASSUME GateInv, [GateNext]_gateVars PROVE GateInv'
    OBVIOUS
<1>0. GateTypeOK
    BY DEF GateInv
<1>1. ASSUME NEW q \in ApiRequest, AskApi(q)
      PROVE  GateInv'
    <2>1. q.id \in GateId
        BY DEF GateId, ApiId
    <2>2. CASE CheckApiApproval(q) = "ask"
        <3>1. /\ stage' = [stage EXCEPT ![q.id] = "sending"] /\ stage[q.id] = "new"
              /\ UNCHANGED <<outcome, readable, taken, gateReplies>>
            BY <1>1, <2>2 DEF AskApi
        <3>2. GateTypeOK'
            BY <1>0, <2>1, <3>1 DEF GateTypeOK
        <3>3. \A i \in GateId : (stage[i] = "over") <=> (stage'[i] = "over")
            BY <1>0, <3>1 DEF GateTypeOK
        <3> QED BY <3>1, <3>2, <3>3, NothingAnswered
    <2>3. CASE CheckApiApproval(q) # "ask"
        <3>1. /\ Over(q.id, CheckApiApproval(q)) /\ stage[q.id] # "over"
              /\ UNCHANGED <<readable, taken, gateReplies>>
            BY <1>1, <2>3 DEF AskApi
        <3>2. CheckApiApproval(q) \in GateOutcome \ {"approved", "solution", "skip"}
            BY <2>3, PolicyAnswers DEF GateOutcome
        <3> QED BY <2>1, <3>1, <3>2, EndsUnanswered
    <2> QED BY <2>2, <2>3
<1>2. ASSUME NEW i \in CaptchaId, AskCaptcha(i)
      PROVE  GateInv'
    <2>1. i \in GateId /\ GateTypeOK'
        BY <1>0, <1>2 DEF AskCaptcha, GateTypeOK, GateId
    <2>2. \A k \in GateId : (stage[k] = "over") <=> (stage'[k] = "over")
        BY <1>0, <1>2, <2>1 DEF AskCaptcha, GateTypeOK
    <2> QED BY <1>2, <2>1, <2>2, NothingAnswered DEF AskCaptcha
<1>3. ASSUME NEW i \in GateId, Shown(i)
      PROVE  GateInv'
    <2>1. GateTypeOK' /\ UNCHANGED <<stage, outcome, taken>>
        BY <1>0, <1>3 DEF Shown, GateTypeOK
    <2> QED BY <2>1, NothingAnswered
<1>4. ASSUME NEW i \in GateId, SendReturns(i)
      PROVE  GateInv'
    <2>1. GateTypeOK'
        BY <1>0, <1>4 DEF SendReturns, GateTypeOK
    <2>2. \A k \in GateId : (stage[k] = "over") <=> (stage'[k] = "over")
        BY <1>0, <1>4 DEF SendReturns, GateTypeOK
    <2> QED BY <1>4, <2>1, <2>2, NothingAnswered DEF SendReturns
<1>5. ASSUME NEW i \in GateId, SendFails(i)
      PROVE  GateInv'
    BY <1>5, EndsUnanswered DEF SendFails, GateOutcome
<1>6. ASSUME NEW i \in GateId, TimesOut(i)
      PROVE  GateInv'
    BY <1>6, EndsUnanswered DEF TimesOut, GateOutcome
<1>7. ASSUME NEW i \in GateId, NEW words \in Words, Reply(i, words)
      PROVE  GateInv'
    BY <1>7, ReplyDecides
<1>8. CASE UNCHANGED gateVars
    <2>1. GateTypeOK' /\ UNCHANGED <<stage, outcome, taken>>
        BY <1>0, <1>8 DEF gateVars, GateTypeOK
    <2> QED BY <2>1, NothingAnswered
<1> QED BY <1>1, <1>2, <1>3, <1>4, <1>5, <1>6, <1>7, <1>8 DEF GateNext

\* Every request is in a state of its life, with an outcome of its kind.
THEOREM GateTypeCorrect == GateSpec => []GateTypeOK
<1>1. GateInv => GateTypeOK
    BY DEF GateInv
<1> QED BY <1>1, GateStart, GateStep, PTL DEF GateSpec

\* handlePotentialApiApprovalResponse and its twin for the CAPTCHA: whatever the
\* replies, the timers and the sends that fail, a request is approved, solved or
\* skipped only by a reply that named it while it waited, and none is lost.
THEOREM RepliesDecide == GateSpec => []ResolvedByItsReply
<1>1. GateInv => ResolvedByItsReply
    BY DEF GateInv
<1> QED BY <1>1, GateStart, GateStep, PTL DEF GateSpec

(***************************************************************************)
(* The skill audit                                                         *)
(***************************************************************************)
\* What is still to audit was not seen, and the record of what is being
\* audited is in the trail before its key is in the index.
PassOK ==
    /\ auditPc # "idle" => auditing /\ fresh # {}
    /\ auditPc \in {"verdict", "trail", "seen"} => fresh \cap seen = {}
    /\ auditPc = "act" => fresh \cap seen = {Current}
    /\ auditPc \in {"seen", "act"} => <<Current[1], Current[2], answer>> \in trail

\* The model blocks a bad version and no other, if it answers.
AnswersOK ==
    /\ auditPc \in {"trail", "seen", "act"} =>
           /\ answer = "block" => Current[2] \in Bad
           /\ answer = "other" => Current[2] \notin Bad
           /\ answer # "none"
    /\ \A x \in Snapshot : <<x[1], x[2], "block">> \in trail => x[2] \in Bad

SkillInv ==
    /\ SkillTypeOK /\ PassOK /\ AnswersOK
    /\ seenFile \subseteq seen
    /\ SeenHasTrail /\ BlockedIsGone

\* While a pass is under way there is a skill that is being audited.
LEMMA CurrentIsFresh ==
    ASSUME SkillTypeOK, fresh # {}
    PROVE  Current \in fresh /\ Current \in Snapshot
BY DEF Current, SkillTypeOK

LEMMA CurrentStays == ASSUME UNCHANGED fresh PROVE Current' = Current
BY DEF Current

LEMMA SkillStart == SkillInit => SkillInv
<1> SUFFICES ASSUME SkillInit PROVE SkillInv
    OBVIOUS
<1>1. SkillTypeOK
    <2>1. installs \in 0..MaxInstalls /\ auditFaults \in 0..MaxAuditFaults
        BY SkillAssumption DEF SkillInit
    <2>2. installed \in [Skill -> Version \cup {Missing}]
        BY DEF SkillInit
    <2> QED BY <2>1, <2>2 DEF SkillInit, SkillTypeOK
<1>2. PassOK /\ AnswersOK /\ seenFile \subseteq seen
    BY DEF SkillInit, PassOK, AnswersOK
<1>3. SeenHasTrail /\ BlockedIsGone
    BY DEF SkillInit, SeenHasTrail, BlockedIsGone
<1> QED BY <1>1, <1>2, <1>3 DEF SkillInv

\* An installation: what is put back after it was seen is spared.
LEMMA InstallKeeps ==
    ASSUME SkillInv, NEW s \in Skill, NEW v \in Version \cup {Missing}, Install(s, v)
    PROVE  SkillInv'
<1>1. UNCHANGED <<auditing, fresh, auditPc, answer, seen, seenFile, trail>> /\ Current' = Current
    BY CurrentStays DEF Install
<1>2. SkillTypeOK'
    <2>1. installed' \in [Skill -> Version \cup {Missing}]
        BY DEF SkillInv, SkillTypeOK, Install
    <2>2. spared' \subseteq Snapshot /\ installs' \in 0..MaxInstalls /\ auditFaults' = auditFaults
        BY SkillAssumption DEF SkillInv, SkillTypeOK, Install
    <2> QED BY <1>1, <2>1, <2>2 DEF SkillInv, SkillTypeOK
<1>3. PassOK' /\ AnswersOK' /\ seenFile' \subseteq seen'
    BY <1>1 DEF SkillInv, PassOK, AnswersOK
<1>4. SeenHasTrail'
    BY <1>1 DEF SkillInv, SeenHasTrail
<1>5. BlockedIsGone'
    <2>1. SUFFICES ASSUME NEW x \in Snapshot, installed'[x[1]] = x[2], x \in seen,
                          <<x[1], x[2], "block">> \in trail
                   PROVE  x \in spared' \/ <<x[1], x[2], "error">> \in trail
                          \/ (auditPc = "act" /\ x = Current)
        BY <1>1 DEF BlockedIsGone, OnDisk
    <2>2. x = <<x[1], x[2]>> /\ x[1] \in Skill
        BY DEF Snapshot
    <2>3. installed'[x[1]] = IF x[1] = s THEN v ELSE installed[x[1]]
        BY <2>2 DEF Install, SkillInv, SkillTypeOK
    <2>4. CASE x[1] = s
        BY <2>1, <2>2, <2>3, <2>4 DEF Install
    <2>5. CASE x[1] # s
        BY <2>1, <2>3, <2>5 DEF Install, SkillInv, BlockedIsGone, OnDisk
    <2> QED BY <2>4, <2>5
<1> QED BY <1>2, <1>3, <1>4, <1>5 DEF SkillInv

\* A pass begins with what is on disk and not seen; its first step is a verdict.
LEMMA BeginKeeps == ASSUME SkillInv, BeginPass PROVE SkillInv'
<1>1. SkillTypeOK'
    BY DEF SkillInv, SkillTypeOK, BeginPass, OnDisk
<1>2. auditPc = "idle" /\ auditPc' = "verdict" /\ UNCHANGED <<installed, seen, seenFile, trail, spared>>
    BY DEF BeginPass, SkillInv, SkillTypeOK, PassOK
<1>3. PassOK'
    BY <1>2 DEF BeginPass, PassOK
<1>4. AnswersOK' /\ seenFile' \subseteq seen' /\ SeenHasTrail'
    BY <1>2 DEF SkillInv, AnswersOK, SeenHasTrail
<1>5. BlockedIsGone'
    BY <1>2 DEF SkillInv, BlockedIsGone, OnDisk
<1> QED BY <1>1, <1>3, <1>4, <1>5 DEF SkillInv

LEMMA VerdictKeeps == ASSUME SkillInv, AuditVerdict PROVE SkillInv'
<1>1. /\ auditPc = "verdict" /\ auditPc' = "trail" /\ Current' = Current
      /\ UNCHANGED <<installed, auditing, fresh, seen, seenFile, trail, spared, installs>>
    BY CurrentStays DEF AuditVerdict
<1>2. SkillTypeOK'
    BY <1>1, SkillAssumption DEF SkillInv, SkillTypeOK, AuditVerdict, AuditFault
<1>3. PassOK' /\ seenFile' \subseteq seen' /\ SeenHasTrail'
    BY <1>1 DEF SkillInv, PassOK, SeenHasTrail
<1>4. AnswersOK'
    BY <1>1 DEF SkillInv, AnswersOK, AuditVerdict
<1>5. BlockedIsGone'
    BY <1>1 DEF SkillInv, BlockedIsGone, OnDisk
<1> QED BY <1>2, <1>3, <1>4, <1>5 DEF SkillInv

\* A record changes nothing for what was seen: its skill was not.
LEMMA TrailKeeps == ASSUME SkillInv, WriteTrail PROVE SkillInv'
<1>1. /\ auditPc = "trail" /\ auditPc' = "seen" /\ Current' = Current
      /\ trail' = trail \cup {<<Current[1], Current[2], answer>>}
      /\ UNCHANGED <<installed, auditing, fresh, answer, seen, seenFile, spared, installs, auditFaults>>
    BY CurrentStays DEF WriteTrail
<1>2. Current \in fresh /\ Current \in Snapshot /\ Current \notin seen
    BY <1>1, CurrentIsFresh DEF SkillInv, PassOK
<1>3. answer \in {"block", "other", "error"}
    BY <1>1 DEF SkillInv, SkillTypeOK, AnswersOK
<1>4. SkillTypeOK'
    <2>1. trail' \subseteq Skill \X Version \X {"block", "other", "error"}
        BY <1>1, <1>2, <1>3 DEF SkillInv, SkillTypeOK, Snapshot
    <2> QED BY <1>1, <2>1 DEF SkillInv, SkillTypeOK
<1>5. PassOK' /\ seenFile' \subseteq seen'
    BY <1>1 DEF SkillInv, PassOK
<1>6. AnswersOK'
    BY <1>1 DEF SkillInv, AnswersOK
<1>7. SeenHasTrail'
    BY <1>1 DEF SkillInv, SeenHasTrail
<1>8. BlockedIsGone'
    <2>1. SUFFICES ASSUME NEW x \in Snapshot, installed[x[1]] = x[2], x \in seen,
                          <<x[1], x[2], "block">> \in trail'
                   PROVE  x \in spared \/ <<x[1], x[2], "error">> \in trail'
        BY <1>1 DEF BlockedIsGone, OnDisk
    <2>2. x = <<x[1], x[2]>> /\ Current = <<Current[1], Current[2]>> /\ x # Current
        BY <1>2, <2>1 DEF Snapshot
    <2>3. <<x[1], x[2], "block">> \in trail
        BY <1>1, <2>1, <2>2
    <2> QED BY <1>1, <2>1, <2>3 DEF SkillInv, BlockedIsGone, OnDisk
<1> QED BY <1>4, <1>5, <1>6, <1>7, <1>8 DEF SkillInv

\* What is marked as seen has its record, and its action is the next step.
LEMMA SeenKeeps == ASSUME SkillInv, MarkSeen PROVE SkillInv'
<1>1. /\ auditPc = "seen" /\ auditPc' = "act" /\ Current' = Current
      /\ seen' = seen \cup {Current} /\ seenFile' = seen \cup {Current}
      /\ UNCHANGED <<installed, auditing, fresh, answer, trail, spared, installs, auditFaults>>
    BY CurrentStays DEF MarkSeen
<1>2. Current \in fresh /\ Current \in Snapshot
    BY <1>1, CurrentIsFresh DEF SkillInv, PassOK
<1>3. SkillTypeOK'
    BY <1>1, <1>2 DEF SkillInv, SkillTypeOK
<1>4. PassOK' /\ seenFile' \subseteq seen'
    BY <1>1, <1>2 DEF SkillInv, PassOK
<1>5. AnswersOK'
    BY <1>1 DEF SkillInv, AnswersOK
<1>6. SeenHasTrail'
    <2>1. answer \in {"block", "other", "error"} /\ <<Current[1], Current[2], answer>> \in trail
        BY <1>1 DEF SkillInv, SkillTypeOK, AnswersOK, PassOK
    <2> QED BY <1>1, <2>1 DEF SkillInv, SeenHasTrail
<1>7. BlockedIsGone'
    BY <1>1 DEF SkillInv, BlockedIsGone, OnDisk
<1> QED BY <1>3, <1>4, <1>5, <1>6, <1>7 DEF SkillInv

\* The last step of a skill: a blocked one is moved, or its move fails.
LEMMA ActKeeps ==
    ASSUME SkillInv, Quarantine \/ QuarantineFails
    PROVE  SkillInv'
<1>1. /\ auditPc = "act" /\ NextFresh /\ UNCHANGED <<seen, seenFile, trail, installs>>
    BY DEF Quarantine, QuarantineFails
<1>2. Current \in fresh /\ Current \in Snapshot /\ fresh \cap seen = {Current}
    BY <1>1, CurrentIsFresh DEF SkillInv, PassOK
<1>3. /\ auditPc' \in {"idle", "verdict"} /\ answer' = "none" /\ fresh' = fresh \ {Current}
      /\ auditPc' # "idle" => auditing' = auditing /\ fresh' # {}
    BY <1>1, <1>2 DEF NextFresh
<1>4. /\ spared' = spared \/ (spared' = spared \cup {Current})
      /\ \/ installed' = installed
         \/ installed' = [installed EXCEPT ![Current[1]] = Missing]
    BY DEF Quarantine, QuarantineFails
<1>5. SkillTypeOK'
    <2>1. installed' \in [Skill -> Version \cup {Missing}]
        BY <1>2, <1>4 DEF SkillInv, SkillTypeOK, Snapshot
    <2>2. spared' \subseteq Snapshot /\ fresh' \subseteq Snapshot
        BY <1>2, <1>3, <1>4 DEF SkillInv, SkillTypeOK
    <2>3. auditFaults' \in 0..MaxAuditFaults
        BY SkillAssumption DEF SkillInv, SkillTypeOK, Quarantine, QuarantineFails, AuditFault
    <2>4. auditing' \in BOOLEAN
        BY <1>1 DEF NextFresh, SkillInv, SkillTypeOK
    <2> QED BY <1>1, <1>3, <2>1, <2>2, <2>3, <2>4 DEF SkillInv, SkillTypeOK
<1>6. PassOK'
    <2>1. fresh' \cap seen' = {}
        BY <1>1, <1>2, <1>3
    <2>2. auditPc' # "idle" => auditing' /\ fresh' # {}
        BY <1>1, <1>3 DEF SkillInv, PassOK
    <2> QED BY <1>3, <2>1, <2>2 DEF PassOK
<1>7. AnswersOK' /\ seenFile' \subseteq seen' /\ SeenHasTrail'
    BY <1>1, <1>3 DEF SkillInv, AnswersOK, SeenHasTrail
<1>8. BlockedIsGone'
    <2>1. SUFFICES ASSUME NEW x \in Snapshot, installed'[x[1]] = x[2], x \in seen,
                          <<x[1], x[2], "block">> \in trail
                   PROVE  x \in spared' \/ <<x[1], x[2], "error">> \in trail
        BY <1>1 DEF BlockedIsGone, OnDisk
    <2>2. x[1] \in Skill /\ x[2] \in Version /\ Current[1] \in Skill
        BY <1>2 DEF Snapshot
    <2>3. installed[x[1]] = x[2]
        BY <1>4, <2>1, <2>2, SkillAssumption DEF SkillInv, SkillTypeOK
    <2>4. x # Current => x \in spared \/ <<x[1], x[2], "error">> \in trail
        BY <2>1, <2>3 DEF SkillInv, BlockedIsGone, OnDisk
    <2>5. CASE x # Current
        BY <1>4, <2>4, <2>5
    <2>6. CASE x = Current /\ answer = "block"
        <3>1. CASE QuarantineFails
            BY <2>6, <3>1 DEF QuarantineFails
        <3>2. CASE Quarantine
            <4>1. installed'[x[1]] = Missing
                BY <2>2, <2>6, <3>2 DEF Quarantine, SkillInv, SkillTypeOK
            <4> QED BY <2>1, <2>2, <4>1, SkillAssumption
        <3> QED BY <3>1, <3>2
    <2>7. CASE x = Current /\ answer = "other"
        BY <1>1, <2>1, <2>7 DEF SkillInv, AnswersOK
    <2>8. CASE x = Current /\ answer = "error"
        BY <1>1, <2>8 DEF SkillInv, PassOK
    <2> QED BY <1>1, <2>5, <2>6, <2>7, <2>8 DEF SkillInv, SkillTypeOK, AnswersOK
<1> QED BY <1>5, <1>6, <1>7, <1>8 DEF SkillInv

\* A write that fails ends the pass; what is seen without its action is spared.
LEMMA FailKeeps == ASSUME SkillInv, RecordFails PROVE SkillInv'
<1>1. /\ auditPc \in {"trail", "seen"} /\ auditPc' = "idle" /\ fresh' = {} /\ answer' = "none"
      /\ auditing' = FALSE /\ UNCHANGED <<installed, seenFile, trail, installs>>
    BY DEF RecordFails
<1>2. Current \in fresh /\ Current \in Snapshot
    BY <1>1, CurrentIsFresh DEF SkillInv, PassOK
<1>3. \/ UNCHANGED <<seen, spared>>
      \/ /\ auditPc = "seen" /\ seen' = seen \cup {Current} /\ spared' = spared \cup {Current}
    BY DEF RecordFails
<1>4. SkillTypeOK'
    <2>1. seen' \subseteq Snapshot /\ spared' \subseteq Snapshot
        BY <1>2, <1>3 DEF SkillInv, SkillTypeOK
    <2>2. auditFaults' \in 0..MaxAuditFaults
        BY SkillAssumption DEF SkillInv, SkillTypeOK, RecordFails, AuditFault
    <2> QED BY <1>1, <2>1, <2>2 DEF SkillInv, SkillTypeOK
<1>5. PassOK' /\ AnswersOK' /\ seenFile' \subseteq seen'
    BY <1>1, <1>3 DEF SkillInv, PassOK, AnswersOK
<1>6. SeenHasTrail'
    <2>1. auditPc = "seen" =>
              answer \in {"block", "other", "error"} /\ <<Current[1], Current[2], answer>> \in trail
        BY DEF SkillInv, SkillTypeOK, AnswersOK, PassOK
    <2> QED BY <1>1, <1>3, <2>1 DEF SkillInv, SeenHasTrail
<1>7. BlockedIsGone'
    BY <1>1, <1>3 DEF SkillInv, BlockedIsGone, OnDisk
<1> QED BY <1>4, <1>5, <1>6, <1>7 DEF SkillInv

\* After a crash less was seen; a blocked skill that was not moved is spared.
LEMMA CrashKeeps == ASSUME SkillInv, AuditorCrash PROVE SkillInv'
<1>1. /\ auditPc' = "idle" /\ fresh' = {} /\ answer' = "none" /\ auditing' = FALSE
      /\ seen' = seenFile /\ UNCHANGED <<installed, seenFile, trail, installs>>
      /\ spared' = IF auditPc = "act" THEN spared \cup {Current} ELSE spared
    BY DEF AuditorCrash
<1>2. auditPc = "act" => Current \in Snapshot
    BY CurrentIsFresh DEF SkillInv, PassOK
<1>3. SkillTypeOK'
    <2>1. seen' \subseteq Snapshot /\ spared' \subseteq Snapshot
        BY <1>1, <1>2 DEF SkillInv, SkillTypeOK
    <2>2. auditFaults' \in 0..MaxAuditFaults
        BY SkillAssumption DEF SkillInv, SkillTypeOK, AuditorCrash, AuditFault
    <2> QED BY <1>1, <2>1, <2>2 DEF SkillInv, SkillTypeOK
<1>4. PassOK' /\ AnswersOK' /\ seenFile' \subseteq seen' /\ SeenHasTrail'
    BY <1>1 DEF SkillInv, PassOK, AnswersOK, SeenHasTrail
<1>5. BlockedIsGone'
    BY <1>1 DEF SkillInv, BlockedIsGone, OnDisk
<1> QED BY <1>3, <1>4, <1>5 DEF SkillInv

LEMMA SkillStep == SkillInv /\ [SkillNext]_skillVars => SkillInv'
<1> SUFFICES ASSUME SkillInv, [SkillNext]_skillVars PROVE SkillInv'
    OBVIOUS
<1>1. ASSUME NEW s \in Skill, NEW v \in Version \cup {Missing}, Install(s, v)
      PROVE  SkillInv'
    BY <1>1, InstallKeeps
<1>2. CASE BeginPass \/ AuditVerdict \/ WriteTrail \/ MarkSeen
    BY <1>2, BeginKeeps, VerdictKeeps, TrailKeeps, SeenKeeps
<1>3. CASE Quarantine \/ QuarantineFails
    BY <1>3, ActKeeps
<1>4. CASE RecordFails \/ AuditorCrash
    BY <1>4, FailKeeps, CrashKeeps
<1>5. CASE UNCHANGED skillVars
    <2>1. Current' = Current
        BY <1>5, CurrentStays DEF skillVars
    <2> QED BY <1>5, <2>1 DEF skillVars, SkillInv, SkillTypeOK, PassOK, AnswersOK, SeenHasTrail,
                              BlockedIsGone, OnDisk
<1> QED BY <1>1, <1>2, <1>3, <1>4, <1>5 DEF SkillNext

\* The passes, the index and the trail keep their types.
THEOREM SkillTypeCorrect == SkillSpec => []SkillTypeOK
<1>1. SkillInv => SkillTypeOK
    BY DEF SkillInv
<1> QED BY <1>1, SkillStart, SkillStep, PTL DEF SkillSpec

\* store.record: over crashes and failed writes, content that counts as audited
\* has its record in the trail.
THEOREM SeenIsRecorded == SkillSpec => []SeenHasTrail
<1>1. SkillInv => SeenHasTrail
    BY DEF SkillInv
<1> QED BY <1>1, SkillStart, SkillStep, PTL DEF SkillSpec

\* auditNow: a version that was blocked is off the disk once its audit is over, but
\* for the reasons the property lists.
THEOREM BlockedLeaves == SkillSpec => []BlockedIsGone
<1>1. SkillInv => BlockedIsGone
    BY DEF SkillInv
<1> QED BY <1>1, SkillStart, SkillStep, PTL DEF SkillSpec

(***************************************************************************)
(* The reviewer                                                            *)
(***************************************************************************)
Entry == [run : ReviewRun, prompt : {"ask", "later"}]

\* The table has no more than RequestCap entries.  A later prompt is in it only for
\* a run it had dropped, and a run it has not dropped is in it from its first prompt on.
TableOK ==
    /\ requestByRun \in Seq(Entry) /\ Len(requestByRun) <= RequestCap
    /\ \A i \in DOMAIN requestByRun :
           requestByRun[i].prompt = "later" => requestByRun[i].run \in evictedRuns
    /\ \A r \in ReviewRun : prompts[r] > 0 /\ r \notin evictedRuns =>
           \E i \in DOMAIN requestByRun : requestByRun[i].run = r

\* What a call that is being judged remembers of its run.
CallOK(c) ==
    /\ c.run \in ReviewRun /\ c.l1.verdict \in Verdict /\ c.request \in Prompt
    /\ c.request = "later" => c.run \in evictedRuns

ReviewInv ==
    /\ ReviewTypeOK /\ TableOK /\ \A c \in judgingCalls : CallOK(c)
    /\ LoosenedOnlyByConsent /\ MandatoryIsJudged

\* A set of naturals that is not empty has a least element, which Min names.
LEMMA MinIsOneOfThem ==
    ASSUME NEW S \in SUBSET Nat, S # {}
    PROVE  Min(S) \in S
<1>1. PICK x \in S : \A y \in S : <<y, x>> \notin OpToRel(<, Nat)
    BY WFMin, NatLessThanWellFounded, Zenon
<1>2. \A y \in S : ~(y < x)
    BY <1>1, Zenon DEF OpToRel
<1>3. \A y \in S : x =< y
    BY <1>2
<1> QED BY <1>3 DEF Min

\* A rule decides with a verdict, also one that the configuration set.
LEMMA RulesGiveVerdicts ==
    ASSUME cfg \in ReviewConfig, NEW kind, NEW f, NEW k \in DOMAIN RulesOf(kind, f)
    PROVE  k \in Nat /\ RulesOf(kind, f)[k].decision.verdict \in Verdict
<1>1. {cfg.destructive, cfg.substitution, cfg.compound, cfg.gitignored} \subseteq Verdict
    BY ReviewAssumption
<1>2. \A applies, v, p : Rule(applies, v, p).decision.verdict = v
    BY DEF Rule, Decided
<1>3. CASE kind = "cron"
    BY <1>2, <1>3 DEF RulesOf, CronRules, Verdict
<1>4. CASE kind = "exec"
    <2>1. RulesOf(kind, f) = ExecRules(f)
        BY <1>4 DEF RulesOf
    <2>2. k \in 1..8
        BY <2>1 DEF ExecRules
    <2>3. ExecRules(f)[k].decision.verdict \in {cfg.destructive, cfg.substitution, cfg.compound, "deny", "escalate"}
        BY <1>2, <2>2 DEF ExecRules
    <2> QED BY <1>1, <2>1, <2>2, <2>3 DEF Verdict
<1>5. CASE kind = "write"
    <2>1. RulesOf(kind, f) = WriteRules(f)
        BY <1>5 DEF RulesOf
    <2>2. k \in 1..4
        BY <2>1 DEF WriteRules
    <2>3. WriteRules(f)[k].decision.verdict \in {cfg.gitignored, "deny", "escalate"}
        BY <1>2, <2>2 DEF WriteRules
    <2> QED BY <1>1, <2>1, <2>2, <2>3 DEF Verdict
<1>6. CASE kind = "read"
    BY <1>2, <1>6 DEF RulesOf, ReadRules, Verdict
<1>7. CASE kind \notin {"cron", "exec", "write", "read"}
    BY <1>7 DEF RulesOf
<1> QED BY <1>3, <1>4, <1>5, <1>6, <1>7

LEMMA HardVerdict ==
    ASSUME cfg \in ReviewConfig, NEW t \in ToolCall
    PROVE  EvaluateHard(t).verdict \in Verdict
<1> DEFINE rules(i) == RulesOf(t.kind, t.targets[i])
           stopped == {i \in DOMAIN t.targets : Hits(rules(i)) # {}}
           first == rules(Min(stopped))
<1>1. CASE stopped = {}
    BY <1>1 DEF EvaluateHard, DefaultAllow, Decided, Verdict
<1>2. CASE stopped # {}
    <2>1. stopped \subseteq Nat
        BY ReviewAssumption
    <2>2. Hits(first) # {}
        <3>1. Min(stopped) \in stopped
            BY <1>2, <2>1, MinIsOneOfThem
        <3> QED BY <3>1
    <2> HIDE DEF stopped
    <2>3. Min(Hits(first)) \in Hits(first)
        <3>1. Hits(first) \in SUBSET Nat
            BY RulesGiveVerdicts DEF Hits
        <3> QED BY <2>2, <3>1, MinIsOneOfThem
    <2>4. first[Min(Hits(first))].decision.verdict \in Verdict
        BY <2>3, RulesGiveVerdicts DEF Hits
    <2> QED BY <1>2, <2>4 DEF EvaluateHard, stopped
<1> QED BY <1>1, <1>2

\* What the hook finds in the table.
LEMMA RequestFound ==
    ASSUME TableOK, NEW r
    PROVE  /\ RequestOf(r) \in Prompt
           /\ RequestOf(r) = "none" <=> \A i \in DOMAIN requestByRun : requestByRun[i].run # r
           /\ RequestOf(r) = "later" => r \in evictedRuns
<1> DEFINE mine == {i \in DOMAIN requestByRun : requestByRun[i].run = r}
<1>1. ASSUME NEW i \in DOMAIN requestByRun
      PROVE  requestByRun[i].prompt \in {"ask", "later"}
    <2>1. requestByRun[i] \in Entry
        BY DEF TableOK
    <2> QED BY <2>1 DEF Entry
<1>2. CASE mine = {}
    BY <1>2 DEF RequestOf, Prompt
<1>3. CASE mine # {}
    <2>1. PICK i \in mine : RequestOf(r) = requestByRun[i].prompt
        BY <1>3 DEF RequestOf
    <2> QED BY <1>1, <2>1 DEF Prompt, TableOK
<1> QED BY <1>2, <1>3

\* The orders of the verdicts.
LEMMA StrictnessIs ==
    /\ Strictness["allow"] = 0 /\ Strictness["escalate"] = 1 /\ Strictness["deny"] = 2
BY DEF Strictness, Verdict

\* Both layers together loosen a verdict of the rules only by consent; where the
\* constitution is mandatory they need its answer.
LEMMA CombinedVerdict ==
    ASSUME NEW l1, l1.verdict \in Verdict, NEW request \in Prompt,
           NEW said \in Verdict \cup {NoAnswer}
    PROVE  LET d == Combined(l1, request, said)
           IN  /\ d.verdict \in Verdict
               /\ \/ d = l1
                  \/ d.verdict = "deny"
                  \/ d.verdict = "escalate" /\ l1.verdict = "allow"
                  \/ /\ d.verdict = "allow" /\ l1.verdict = "escalate" /\ l1.principle = "cron-mutation"
                     /\ request # "none" /\ said = "allow"
               /\ cfg.mandatory /\ said \notin {"allow", "escalate"} => d.verdict = "deny"
<1>0. NoAnswer \notin Verdict /\ Verdict = {"allow", "escalate", "deny"}
    BY ReviewAssumption DEF Verdict
<1> DEFINE d == Combined(l1, request, said)
           consent == /\ l1.verdict = "escalate" /\ l1.principle \in CONSENT_SATISFIABLE
                      /\ request # "none" /\ said = "allow"
<1>1. CASE consent
    <2>1. d.verdict = "allow" /\ l1.principle = "cron-mutation"
        BY <1>1 DEF Combined, Decided, CONSENT_SATISFIABLE
    <2> QED BY <1>0, <1>1, <2>1
<1>2. CASE ~consent /\ said # NoAnswer
    <2>1. d = TightenOnly(l1, said) /\ said \in Verdict
        BY <1>2 DEF Combined
    <2>2. d = l1 \/ (Strictness[said] > Strictness[l1.verdict] /\ d.verdict = said)
        <3>1. Strictness[said] \in Int /\ Strictness[l1.verdict] \in Int
            BY <1>0, <2>1, StrictnessIs
        <3> QED BY <2>1, <3>1 DEF TightenOnly, Decided
    <2>3. said = "deny" => d.verdict = "deny"
        <3>1. said = "deny" /\ Strictness[said] <= Strictness[l1.verdict] => l1.verdict = "deny"
            BY <1>0, StrictnessIs
        <3> QED BY <2>1, <3>1 DEF TightenOnly, Decided
    <2>4. d = l1 \/ d.verdict = "deny" \/ (d.verdict = "escalate" /\ l1.verdict = "allow")
        BY <1>0, <2>1, <2>2, StrictnessIs
    <2> QED BY <1>0, <2>1, <2>3, <2>4
<1>3. CASE ~consent /\ said = NoAnswer
    <2>1. d = IF cfg.mandatory THEN Decided("deny", "unavailable-fail-closed") ELSE l1
        BY <1>3 DEF Combined
    <2>2. CASE cfg.mandatory
        BY <1>0, <2>1, <2>2 DEF Decided
    <2>3. CASE ~cfg.mandatory
        BY <2>1, <2>3
    <2> QED BY <2>2, <2>3
<1> QED BY <1>1, <1>2, <1>3

\* The step for a run with nobody to ask.
LEMMA UnattendedVerdict ==
    ASSUME NEW d, d.verdict \in Verdict, NEW run
    PROVE  LET u == Unattended(d, run)
           IN  /\ u.verdict \in Verdict
               /\ u.verdict = d.verdict \/ d.verdict = "escalate"
               /\ u.verdict # d.verdict /\ u.verdict # "deny" =>
                      run \in UnattendedRun /\ d.principle \notin NEVER_DOWNGRADE
BY DEF Unattended, Decided, Verdict

\* What a verdict d on call c must be like for the reviewer's promises.
Founded(c, said, d) ==
    /\ d.verdict \in Verdict
    /\ \/ d = c.l1
       \/ d.verdict = "deny"
       \/ d.verdict = "escalate" /\ c.l1.verdict = "allow"
       \/ /\ d.verdict = "allow" /\ c.l1.verdict = "escalate" /\ c.l1.principle = "cron-mutation"
          /\ c.request # "none" /\ said = "allow"
    /\ cfg.l2Mode = "enforce" /\ cfg.mandatory /\ cfg.constitution
           /\ said \notin {"allow", "escalate"} => d.verdict = "deny"

LEMMA ConcludeKeeps ==
    ASSUME NEW c, CallOK(c), NEW said, NEW d, Founded(c, said, d), Conclude(c, said, d),
           UNCHANGED <<cfg, evictedRuns>>
    PROVE  LoosenedOnlyByConsent' /\ MandatoryIsJudged' /\ last'.outcome \in Verdict
<1> DEFINE u == Unattended(d, c.run)
<1>0. Verdict = {"allow", "escalate", "deny"}
    BY DEF Verdict
<1>1. /\ last'.run = c.run /\ last'.l1 = c.l1 /\ last'.request = c.request /\ last'.answer = said
      /\ last'.outcome = IF cfg.mode = "enforce" THEN u.verdict ELSE "allow"
    BY DEF Conclude
<1>2. d.verdict \in Verdict /\ c.l1.verdict \in Verdict /\ c.request \in Prompt
    BY DEF Founded, CallOK
<1>3. /\ u.verdict \in Verdict
      /\ u.verdict = d.verdict \/ d.verdict = "escalate"
      /\ u.verdict # d.verdict /\ u.verdict # "deny" =>
             c.run \in UnattendedRun /\ d.principle \notin NEVER_DOWNGRADE
    BY <1>2, UnattendedVerdict
<1> HIDE DEF u
<1>4. last'.outcome \in Verdict
    BY <1>0, <1>1, <1>3
<1>5. ASSUME cfg.mode = "enforce", Strictness[u.verdict] < Strictness[c.l1.verdict]
      PROVE  /\ c.l1.verdict = "escalate"
             /\ \/ c.run \in UnattendedRun /\ c.l1.principle \notin NEVER_DOWNGRADE
                \/ /\ c.l1.principle = "cron-mutation" /\ said = "allow"
                   /\ \/ c.request = "ask"
                      \/ c.request = "later" /\ c.run \in evictedRuns
    <2>1. u.verdict # "deny" /\ c.l1.verdict # "allow" /\ u.verdict # c.l1.verdict
        BY <1>0, <1>2, <1>3, <1>5, StrictnessIs
    <2>2. CASE d = c.l1
        BY <1>3, <2>1, <2>2
    <2>3. CASE d # c.l1
        <3>1. d.verdict # "deny"
            BY <1>3, <2>1
        <3>2. /\ c.l1.verdict = "escalate" /\ c.l1.principle = "cron-mutation"
              /\ c.request # "none" /\ said = "allow"
            BY <2>1, <2>3, <3>1 DEF Founded
        <3>3. c.request = "ask" \/ (c.request = "later" /\ c.run \in evictedRuns)
            BY <1>2, <3>2 DEF CallOK, Prompt
        <3> QED BY <3>2, <3>3
    <2> QED BY <2>2, <2>3
<1>6. LoosenedOnlyByConsent'
    BY <1>1, <1>5 DEF LoosenedOnlyByConsent
<1>7. MandatoryIsJudged'
    BY <1>1, <1>3 DEF MandatoryIsJudged, Founded
<1> QED BY <1>4, <1>6, <1>7

LEMMA ReviewStart == ReviewInit => ReviewInv
<1> SUFFICES ASSUME ReviewInit PROVE ReviewInv
    OBVIOUS
<1>1. prompts \in [ReviewRun -> 0..MaxPrompts] /\ l2InFlight \in 0..InflightCap /\ calls \in 0..MaxCalls
    BY ReviewAssumption DEF ReviewInit
<1>2. last.outcome = "none"
    BY DEF ReviewInit, NothingYet
<1>3. ReviewTypeOK
    BY <1>1, <1>2, ReviewAssumption DEF ReviewInit, ReviewTypeOK
<1>4. TableOK
    BY ReviewAssumption DEF ReviewInit, TableOK
<1>5. LoosenedOnlyByConsent /\ MandatoryIsJudged
    BY <1>2 DEF LoosenedOnlyByConsent, MandatoryIsJudged
<1> QED BY <1>3, <1>4, <1>5 DEF ReviewInit, ReviewInv

\* A full table drops its first entry for the new one.
LEMMA TableAfter ==
    ASSUME TableOK, NEW r \in ReviewRun, NEW p \in {"ask", "later"}, RequestOf(r) = "none",
           (p = "later") => (r \in evictedRuns), RememberRequest(r, p)
    PROVE  /\ requestByRun' \in Seq(Entry) /\ Len(requestByRun') <= RequestCap
           /\ evictedRuns \subseteq evictedRuns' /\ evictedRuns' \subseteq evictedRuns \cup ReviewRun
           /\ \A i \in DOMAIN requestByRun' :
                  requestByRun'[i].prompt = "later" => requestByRun'[i].run \in evictedRuns'
           /\ \E i \in DOMAIN requestByRun' : requestByRun'[i].run = r
           /\ \A k \in ReviewRun \ evictedRuns' :
                  (\E i \in DOMAIN requestByRun : requestByRun[i].run = k) =>
                      \E i \in DOMAIN requestByRun' : requestByRun'[i].run = k
<1> DEFINE n == Len(requestByRun)
           e == [run |-> r, prompt |-> p]
<1>1. e \in Entry /\ e.run = r /\ e.prompt = p
    BY DEF Entry
<1> HIDE DEF e
<1>2. requestByRun \in Seq(Entry) /\ n \in Nat /\ n <= RequestCap /\ RequestCap \in Nat \ {0}
    BY ReviewAssumption DEF TableOK
<1>3. \A i \in 1..n : requestByRun[i].run \in ReviewRun
    <2>1. \A i \in 1..n : requestByRun[i] \in Entry
        BY <1>2
    <2> QED BY <2>1 DEF Entry
<1>4. CASE n < RequestCap
    <2>1. requestByRun' = Append(requestByRun, e) /\ evictedRuns' = evictedRuns
        BY <1>2, <1>4 DEF RememberRequest, e
    <2>2. /\ requestByRun' \in Seq(Entry) /\ Len(requestByRun') = n + 1 /\ requestByRun'[n + 1] = e
          /\ \A i \in 1..n : requestByRun'[i] = requestByRun[i]
        BY <1>1, <1>2, <2>1
    <2>3. DOMAIN requestByRun = 1..n /\ DOMAIN requestByRun' = 1..(n + 1)
        BY <1>2, <2>2
    <2>4. \A i \in 1..(n + 1) : i \in 1..n \/ i = n + 1
        BY <1>2
    <2>5. \A i \in DOMAIN requestByRun' :
              requestByRun'[i].prompt = "later" => requestByRun'[i].run \in evictedRuns'
        BY <1>1, <2>1, <2>2, <2>3, <2>4 DEF TableOK
    <2>6. \E i \in DOMAIN requestByRun' : requestByRun'[i].run = r
        BY <1>1, <1>2, <2>2, <2>3
    <2>7. 1..n \subseteq 1..(n + 1)
        BY <1>2
    <2> QED BY <1>2, <1>4, <2>1, <2>2, <2>3, <2>5, <2>6, <2>7
<1>5. CASE n = RequestCap
    <2>1. /\ requestByRun' = Append(Tail(requestByRun), e) /\ n >= 1
          /\ evictedRuns' = evictedRuns \cup {requestByRun[1].run}
        BY <1>2, <1>5 DEF RememberRequest, e
    <2>2. /\ Tail(requestByRun) \in Seq(Entry) /\ Len(Tail(requestByRun)) = n - 1
          /\ \A i \in 1..(n - 1) : Tail(requestByRun)[i] = requestByRun[i + 1]
        BY <1>2, <2>1
    <2>3. /\ requestByRun' \in Seq(Entry) /\ Len(requestByRun') = n /\ requestByRun'[n] = e
          /\ \A i \in 1..(n - 1) : requestByRun'[i] = requestByRun[i + 1]
        BY <1>1, <1>2, <2>1, <2>2
    <2>4. DOMAIN requestByRun = 1..n /\ DOMAIN requestByRun' = 1..n
        BY <1>2, <2>3
    <2>5. ASSUME NEW i \in DOMAIN requestByRun', requestByRun'[i].prompt = "later"
          PROVE  requestByRun'[i].run \in evictedRuns'
        <3>1. CASE i = n
            BY <1>1, <2>1, <2>3, <2>5, <3>1
        <3>2. CASE i # n
            <4>1. i \in 1..(n - 1) /\ i + 1 \in DOMAIN requestByRun
                BY <1>2, <2>4, <3>2
            <4> QED BY <2>1, <2>3, <2>5, <4>1 DEF TableOK
        <3> QED BY <3>1, <3>2
    <2>6. \E i \in DOMAIN requestByRun' : requestByRun'[i].run = r
        <3>1. n \in DOMAIN requestByRun'
            BY <1>2, <2>1, <2>4
        <3> QED BY <1>1, <2>3, <3>1
    <2>7. ASSUME NEW k \in ReviewRun \ evictedRuns',
                 NEW i \in DOMAIN requestByRun, requestByRun[i].run = k
          PROVE  \E j \in DOMAIN requestByRun' : requestByRun'[j].run = k
        <3>1. i # 1
            BY <2>1, <2>7
        <3>2. i - 1 \in 1..(n - 1) /\ (i - 1) + 1 = i /\ i - 1 \in DOMAIN requestByRun'
            BY <1>2, <2>4, <3>1
        <3>3. requestByRun'[i - 1] = requestByRun[i]
            BY <2>3, <3>2
        <3> QED BY <2>7, <3>2, <3>3
    <2>8. requestByRun[1].run \in ReviewRun
        BY <1>2, <1>3, <2>1
    <2> QED BY <1>2, <1>5, <2>1, <2>3, <2>5, <2>6, <2>7, <2>8
<1> QED BY <1>2, <1>4, <1>5

\* llm_input: the first prompt of a run is kept; a later one is entered only if the
\* run had been dropped.
LEMMA PromptKeeps ==
    ASSUME ReviewInv, NEW r \in ReviewRun, LlmInput(r)
    PROVE  ReviewInv'
<1> DEFINE p == IF prompts[r] = 0 THEN "ask" ELSE "later"
<1>0. /\ ReviewTypeOK /\ TableOK /\ prompts \in [ReviewRun -> 0..MaxPrompts] /\ MaxPrompts \in Nat
      /\ evictedRuns \subseteq ReviewRun
    BY ReviewAssumption DEF ReviewInv, ReviewTypeOK
<1>1. /\ prompts[r] < MaxPrompts /\ prompts' = [prompts EXCEPT ![r] = @ + 1]
      /\ RememberRequest(r, p) /\ UNCHANGED <<cfg, judgingCalls, l2InFlight, last, calls>>
    BY DEF LlmInput
<1>2. /\ prompts' \in [ReviewRun -> 0..MaxPrompts]
      /\ \A k \in ReviewRun : prompts'[k] = IF k = r THEN prompts[r] + 1 ELSE prompts[k]
    BY <1>0, <1>1
<1>3. p \in {"ask", "later"}
    OBVIOUS
<1>4. /\ TableOK' /\ evictedRuns \subseteq evictedRuns' /\ evictedRuns' \subseteq ReviewRun
    <2>1. CASE RequestOf(r) # "none"
        <3>1. UNCHANGED <<requestByRun, evictedRuns>>
            BY <1>1, <2>1 DEF RememberRequest
        <3>2. \E i \in DOMAIN requestByRun : requestByRun[i].run = r
            BY <1>0, <2>1, RequestFound
        <3>3. ASSUME NEW k \in ReviewRun, prompts'[k] > 0, k \notin evictedRuns
              PROVE  \E i \in DOMAIN requestByRun : requestByRun[i].run = k
            BY <1>0, <1>2, <3>2, <3>3 DEF TableOK
        <3> QED BY <1>0, <3>1, <3>3 DEF TableOK
    <2>2. CASE RequestOf(r) = "none"
        <3>1. \A i \in DOMAIN requestByRun : requestByRun[i].run # r
            BY <1>0, <2>2, RequestFound
        <3>2. (p = "later") => r \in evictedRuns
            BY <1>0, <3>1 DEF TableOK
        <3> HIDE DEF p
        <3>3. /\ requestByRun' \in Seq(Entry) /\ Len(requestByRun') <= RequestCap
              /\ evictedRuns \subseteq evictedRuns' /\ evictedRuns' \subseteq evictedRuns \cup ReviewRun
              /\ \A i \in DOMAIN requestByRun' :
                     requestByRun'[i].prompt = "later" => requestByRun'[i].run \in evictedRuns'
              /\ \E i \in DOMAIN requestByRun' : requestByRun'[i].run = r
              /\ \A k \in ReviewRun \ evictedRuns' :
                     (\E i \in DOMAIN requestByRun : requestByRun[i].run = k) =>
                         \E i \in DOMAIN requestByRun' : requestByRun'[i].run = k
            BY <1>0, <1>1, <1>3, <2>2, <3>2, TableAfter
        <3>4. ASSUME NEW k \in ReviewRun, prompts'[k] > 0, k \notin evictedRuns'
              PROVE  \E i \in DOMAIN requestByRun' : requestByRun'[i].run = k
            <4>1. CASE k = r
                BY <3>3, <4>1
            <4>2. CASE k # r
                <5>1. prompts[k] > 0 /\ k \notin evictedRuns
                    BY <1>2, <3>3, <3>4, <4>2
                <5>2. \E i \in DOMAIN requestByRun : requestByRun[i].run = k
                    BY <1>0, <5>1 DEF TableOK
                <5> QED BY <3>3, <3>4, <5>2
            <4> QED BY <4>1, <4>2
        <3> QED BY <1>0, <3>3, <3>4 DEF TableOK
    <2> QED BY <2>1, <2>2
<1>5. ReviewTypeOK'
    <2>1. ASSUME NEW i \in DOMAIN requestByRun'
          PROVE  requestByRun'[i].run \in ReviewRun /\ requestByRun'[i].prompt \in Prompt \ {"none"}
        <3>1. requestByRun'[i] \in Entry
            BY <1>4 DEF TableOK
        <3> QED BY <3>1 DEF Entry, Prompt
    <2>2. Len(requestByRun') <= RequestCap
        BY <1>4 DEF TableOK
    <2> QED BY <1>0, <1>1, <1>2, <1>4, <2>1, <2>2 DEF ReviewTypeOK
<1>6. \A c \in judgingCalls' : CallOK(c)'
    BY <1>1, <1>4 DEF ReviewInv, CallOK
<1>7. LoosenedOnlyByConsent' /\ MandatoryIsJudged'
    BY <1>1, <1>4 DEF ReviewInv, LoosenedOnlyByConsent, MandatoryIsJudged
<1> QED BY <1>4, <1>5, <1>6, <1>7 DEF ReviewInv

\* What is the same for every step that leaves the table alone.
LEMMA TableStays ==
    ASSUME TableOK, UNCHANGED <<requestByRun, prompts, evictedRuns>>
    PROVE  TableOK'
BY DEF TableOK

\* before_tool_call, of a call that is decided at once or of one that will be judged.
LEMMA CallKeeps ==
    ASSUME ReviewInv, NEW r \in ReviewRun, NEW t \in ToolCall, BeforeToolCall(r, t)
    PROVE  ReviewInv'
<1> DEFINE l1 == EvaluateHard(t)
           c == [run |-> r, l1 |-> l1, request |-> RequestOf(r), judged |-> L2Eligible(t, l1)]
<1>0. ReviewTypeOK /\ TableOK /\ cfg \in ReviewConfig
    BY DEF ReviewInv, ReviewTypeOK
<1>1. CallOK(c) /\ c.run = r /\ c.l1 = l1 /\ l1.verdict \in Verdict
    BY <1>0, HardVerdict, RequestFound DEF CallOK
<1>2. calls' \in 0..MaxCalls /\ l2InFlight' \in 0..InflightCap
    <2>1. calls \in 0..MaxCalls /\ calls < MaxCalls /\ calls' = calls + 1
        BY <1>0 DEF BeforeToolCall, ReviewTypeOK
    <2>2. /\ l2InFlight \in 0..InflightCap
          /\ l2InFlight' = l2InFlight \/ (l2InFlight < InflightCap /\ l2InFlight' = l2InFlight + 1)
        BY <1>0 DEF BeforeToolCall, ReviewTypeOK
    <2> QED BY <2>1, <2>2, ReviewAssumption
<1>3. UNCHANGED <<cfg, requestByRun, prompts, evictedRuns>>
    BY DEF BeforeToolCall
<1>4. TableOK'
    BY <1>0, <1>3, TableStays
<1>5. CASE L2Eligible(t, l1) /\ cfg.l2Mode = "enforce"
    <2>1. judgingCalls' = judgingCalls \cup {c} /\ last' = last
        BY <1>5 DEF BeforeToolCall
    <2> HIDE DEF c
    <2>2. \A k \in judgingCalls' : CallOK(k)'
        BY <1>1, <1>3, <2>1 DEF ReviewInv, CallOK
    <2>3. ReviewTypeOK'
        BY <1>0, <1>2, <1>3, <2>1, <2>2 DEF ReviewTypeOK, CallOK
    <2>4. LoosenedOnlyByConsent' /\ MandatoryIsJudged'
        BY <1>3, <2>1 DEF ReviewInv, LoosenedOnlyByConsent, MandatoryIsJudged
    <2> QED BY <1>4, <2>2, <2>3, <2>4 DEF ReviewInv
<1>6. CASE ~(L2Eligible(t, l1) /\ cfg.l2Mode = "enforce")
    <2>1. judgingCalls' = judgingCalls /\ Conclude(c, NoAnswer, l1)
        BY <1>6 DEF BeforeToolCall
    <2>2. ~(cfg.l2Mode = "enforce" /\ cfg.mandatory /\ cfg.constitution)
        BY <1>6 DEF L2Eligible
    <2> HIDE DEF c, l1
    <2>3. Founded(c, NoAnswer, l1)
        BY <1>1, <2>2 DEF Founded
    <2>4. LoosenedOnlyByConsent' /\ MandatoryIsJudged' /\ last'.outcome \in Verdict
        BY <1>1, <1>3, <2>1, <2>3, ConcludeKeeps
    <2>5. \A k \in judgingCalls' : CallOK(k)'
        BY <1>3, <2>1 DEF ReviewInv, CallOK
    <2>6. ReviewTypeOK'
        BY <1>0, <1>2, <1>3, <2>1, <2>4 DEF ReviewTypeOK
    <2> QED BY <1>4, <2>4, <2>5, <2>6 DEF ReviewInv
<1> QED BY <1>5, <1>6

\* The answer of the model, or none, or an exception: the call is decided.
LEMMA AnswerKeeps ==
    ASSUME ReviewInv, NEW c \in judgingCalls, NEW ans \in Verdict \cup {NoAnswer},
           NEW d, Founded(c, ans, d), Conclude(c, ans, d),
           judgingCalls' = judgingCalls \ {c},
           UNCHANGED <<cfg, requestByRun, prompts, l2InFlight, evictedRuns, calls>>
    PROVE  ReviewInv'
<1>0. ReviewTypeOK /\ TableOK /\ CallOK(c)
    BY DEF ReviewInv
<1>1. LoosenedOnlyByConsent' /\ MandatoryIsJudged' /\ last'.outcome \in Verdict
    BY <1>0, ConcludeKeeps
<1>2. TableOK'
    BY <1>0, TableStays
<1>3. \A k \in judgingCalls' : CallOK(k)'
    BY DEF ReviewInv, CallOK
<1>4. ReviewTypeOK'
    BY <1>0, <1>1 DEF ReviewTypeOK
<1> QED BY <1>1, <1>2, <1>3, <1>4 DEF ReviewInv

LEMMA ReviewStep == ReviewInv /\ [ReviewNext]_reviewVars => ReviewInv'
<1> SUFFICES ASSUME ReviewInv, [ReviewNext]_reviewVars PROVE ReviewInv'
    OBVIOUS
<1>0. ReviewTypeOK /\ TableOK /\ \A c \in judgingCalls : CallOK(c)
    BY DEF ReviewInv
<1>1. ASSUME NEW r \in ReviewRun, LlmInput(r)
      PROVE  ReviewInv'
    BY <1>1, PromptKeeps
<1>2. ASSUME NEW r \in ReviewRun, NEW t \in ToolCall, BeforeToolCall(r, t)
      PROVE  ReviewInv'
    BY <1>2, CallKeeps
<1>3. ASSUME NEW c \in judgingCalls, NEW ans \in Verdict \cup {NoAnswer}, Judged(c, ans)
      PROVE  ReviewInv'
    <2> DEFINE d == Combined(c.l1, c.request, ans)
    <2>1. c.l1.verdict \in Verdict /\ c.request \in Prompt
        BY <1>0 DEF CallOK
    <2>2. Founded(c, ans, d)
        <3>1. /\ d.verdict \in Verdict
              /\ \/ d = c.l1
                 \/ d.verdict = "deny"
                 \/ d.verdict = "escalate" /\ c.l1.verdict = "allow"
                 \/ /\ d.verdict = "allow" /\ c.l1.verdict = "escalate"
                    /\ c.l1.principle = "cron-mutation" /\ c.request # "none" /\ ans = "allow"
              /\ cfg.mandatory /\ ans \notin {"allow", "escalate"} => d.verdict = "deny"
            BY <2>1, CombinedVerdict
        <3> QED BY <3>1 DEF Founded
    <2> QED BY <1>3, <2>2, AnswerKeeps DEF Judged
<1>4. ASSUME NEW c \in judgingCalls, HookThrows(c)
      PROVE  ReviewInv'
    <2>1. Founded(c, NoAnswer, Decided("deny", "internal-error"))
        BY DEF Founded, Decided, Verdict
    <2> QED BY <1>4, <2>1, AnswerKeeps DEF HookThrows
<1>5. CASE ShadowJudged
    <2>1. /\ l2InFlight' \in 0..InflightCap
          /\ UNCHANGED <<cfg, requestByRun, prompts, judgingCalls, last, evictedRuns, calls>>
        BY <1>0, <1>5, ReviewAssumption DEF ShadowJudged, ReviewTypeOK
    <2> QED BY <1>0, <2>1, TableStays
            DEF ReviewInv, ReviewTypeOK, CallOK, LoosenedOnlyByConsent, MandatoryIsJudged
<1>6. CASE UNCHANGED reviewVars
    BY <1>0, <1>6, TableStays
       DEF reviewVars, ReviewInv, ReviewTypeOK, CallOK, LoosenedOnlyByConsent, MandatoryIsJudged
<1> QED BY <1>1, <1>2, <1>3, <1>4, <1>5, <1>6 DEF ReviewNext

\* The hooks' table, counters and decisions keep their types.
THEOREM ReviewTypeCorrect == ReviewSpec => []ReviewTypeOK
<1>1. ReviewInv => ReviewTypeOK
    BY DEF ReviewInv
<1> QED BY <1>1, ReviewStart, ReviewStep, PTL DEF ReviewSpec

\* before_tool_call: what the rules stopped runs only by consent, or unattended where
\* the rule allows it, whatever the runs, the table and the model's answers do.
THEOREM ConsentLoosens == ReviewSpec => []LoosenedOnlyByConsent
<1>1. ReviewInv => LoosenedOnlyByConsent
    BY DEF ReviewInv
<1> QED BY <1>1, ReviewStart, ReviewStep, PTL DEF ReviewSpec

\* A mandatory constitution fails closed: without the model's answer no call runs.
THEOREM FailsClosed == ReviewSpec => []MandatoryIsJudged
<1>1. ReviewInv => MandatoryIsJudged
    BY DEF ReviewInv
<1> QED BY <1>1, ReviewStart, ReviewStep, PTL DEF ReviewSpec

(***************************************************************************)
(* The vetter                                                              *)
(***************************************************************************)
RoleFile == RoleFiles \cup {NoFile, Unreadable}

\* What the daemon has cached was some bot's file since it started, and so is the
\* file that is there; a candidate whose classification it awaits got past the gate
\* with one of them.
JudgingOK ==
    judging # VetIdle =>
        /\ judging \in Candidate /\ judging[1] \notin ProviderHosts
        /\ judging[2] # Global => \E f \in lived[judging[2]] : Admits(f, judging[1])

CacheOK ==
    \A b \in VetBot : role[b] \in lived[b] /\ (cache[b] # Uncached => cache[b] \in lived[b])

VetInv ==
    /\ VetTypeOK /\ denied \in Seq(Candidate)
    /\ lived \in [VetBot -> SUBSET RoleFile]
    /\ JudgingOK /\ CacheOK

\* The policy that the daemon goes by is the one it has cached or else the file's.
LEMMA PolicyLived ==
    ASSUME VetInv, NEW b \in VetBot
    PROVE  /\ Policy(cache, b) \in lived[b] /\ Policy(cache, b) \in RoleFile
           /\ Policy(cache, b) # Unreadable => Policy(cache, b) \in RoleFiles \cup {NoFile}
<1>1. /\ cache \in [VetBot -> RoleFiles \cup {NoFile, Uncached}]
      /\ role \in [VetBot -> RoleFile]
    BY DEF VetInv, VetTypeOK, RoleFile
<1> QED BY <1>1, VetAssumption DEF VetInv, CacheOK, Policy, RoleFile

\* A candidate that is not gated is admitted by the policy the daemon goes by.
LEMMA UngatedAdmitted ==
    ASSUME VetInv, NEW c \in Candidate, ~Gated(cache, c)
    PROVE  /\ c[1] \notin ProviderHosts
           /\ c[2] # Global => \E f \in lived[c[2]] : Admits(f, c[1])
<1>1. c[1] \notin ProviderHosts
    BY DEF Gated
<1>2. ASSUME c[2] # Global
      PROVE  \E f \in lived[c[2]] : Admits(f, c[1])
    <2>1. c[2] \in VetBot
        BY <1>2 DEF Candidate
    <2>2. Admits(Policy(cache, c[2]), c[1])
        BY <1>2 DEF Gated, Admits
    <2>3. Policy(cache, c[2]) \in lived[c[2]]
        BY <2>1, PolicyLived
    <2> QED BY <2>2, <2>3
<1> QED BY <1>1, <1>2

\* What the gate leaves in the cache.
LEMMA CacheStaysLived ==
    ASSUME VetInv, NEW c
    PROVE  /\ CacheAfter(c) \in [VetBot -> RoleFiles \cup {NoFile, Uncached}]
           /\ \A b \in VetBot : CacheAfter(c)[b] # Uncached => CacheAfter(c)[b] \in lived[b]
<1> DEFINE k == CacheAfter(c)
<1>1. /\ cache \in [VetBot -> RoleFiles \cup {NoFile, Uncached}]
      /\ \A b \in VetBot : cache[b] # Uncached => cache[b] \in lived[b]
    BY DEF VetInv, VetTypeOK, CacheOK
<1>2. CASE k = cache
    BY <1>1, <1>2
<1>3. CASE k # cache
    <2>1. /\ k = [b \in VetBot |-> k[b]]
          /\ \A b \in VetBot : k[b] = cache[b]
                               \/ (k[b] = Policy(cache, b) /\ Policy(cache, b) # Unreadable)
        BY <1>3 DEF CacheAfter
    <2>2. \A b \in VetBot : k[b] \in RoleFiles \cup {NoFile, Uncached}
        BY <1>1, <2>1, PolicyLived
    <2>3. \A b \in VetBot : k[b] # Uncached => k[b] \in lived[b]
        BY <1>1, <2>1, PolicyLived
    <2> HIDE DEF k
    <2>4. k \in [VetBot -> RoleFiles \cup {NoFile, Uncached}]
        BY <2>1, <2>2
    <2> QED BY <2>3, <2>4 DEF k
<1> QED BY <1>2, <1>3

LEMMA VetStart == VetInit => VetInv
<1> SUFFICES ASSUME VetInit PROVE VetInv
    OBVIOUS
<1>1. /\ role \in [VetBot -> RoleFile] /\ lived \in [VetBot -> SUBSET RoleFile]
      /\ cache \in [VetBot -> RoleFiles \cup {NoFile, Uncached}]
    BY DEF VetInit, RoleFile, NothingCached
<1>2. denied \in Seq(Candidate) /\ Len(denied) <= MaxDenials /\ ToSet(denied) \subseteq Candidate
    BY VetAssumption DEF VetInit, ToSet
<1>3. VetTypeOK
    BY <1>1, <1>2, VetAssumption DEF VetInit, VetTypeOK, RoleFile
<1>4. JudgingOK /\ CacheOK
    BY DEF VetInit, JudgingOK, CacheOK, NothingCached
<1> QED BY <1>1, <1>2, <1>3, <1>4 DEF VetInv

\* The steps of the proxy, the operator and the audit's tail change neither the
\* cache nor what the daemon awaits.
LEMMA WorldKeeps ==
    ASSUME VetInv, UNCHANGED <<role, cache, judging, lived, refused>>,
           denied' \in Seq(Candidate), Len(denied') <= MaxDenials,
           partitioned' \in BOOLEAN, bootSeen' \in BOOLEAN,
           learned' \subseteq Candidate, vetEvents' \in 0..MaxVetEvents
    PROVE  VetInv'
<1>1. ToSet(denied') \subseteq Candidate
    BY DEF ToSet
<1>2. VetTypeOK'
    BY <1>1 DEF VetInv, VetTypeOK
<1> QED BY <1>2 DEF VetInv, JudgingOK, CacheOK

\* The tail of the audit's records only loses or gains candidates.
LEMMA TailType ==
    ASSUME VetInv
    PROVE  /\ denied \in Seq(Candidate) /\ Len(denied) <= MaxDenials
           /\ denied # <<>> => Tail(denied) \in Seq(Candidate) /\ Len(Tail(denied)) <= MaxDenials
           /\ \A c \in Candidate : Len(denied) < MaxDenials =>
                  Append(denied, c) \in Seq(Candidate) /\ Len(Append(denied, c)) <= MaxDenials
BY VetAssumption DEF VetInv, VetTypeOK

LEMMA EventCounts ==
    ASSUME VetInv, Event
    PROVE  vetEvents' \in 0..MaxVetEvents
BY VetAssumption DEF VetInv, VetTypeOK, Event

\* An edited file has been in place from now on.
LEMMA EditKeeps ==
    ASSUME VetInv, NEW b \in VetBot, NEW f \in RoleFile, EditRole(b, f)
    PROVE  VetInv'
<1>1. /\ role' = [role EXCEPT ![b] = f] /\ lived' = [lived EXCEPT ![b] = @ \cup {f}]
      /\ UNCHANGED <<denied, partitioned, bootSeen, learned, refused, cache, judging>>
    BY DEF EditRole
<1>2. vetEvents' \in 0..MaxVetEvents
    BY EventCounts DEF EditRole
<1>3. role \in [VetBot -> RoleFile] /\ lived \in [VetBot -> SUBSET RoleFile]
    BY DEF VetInv, VetTypeOK, RoleFile
<1>4. /\ \A k \in VetBot : role'[k] = IF k = b THEN f ELSE role[k]
      /\ \A k \in VetBot : lived[k] \subseteq lived'[k]
      /\ f \in lived'[b]
    BY <1>1, <1>3
<1>5. role' \in [VetBot -> RoleFile] /\ lived' \in [VetBot -> SUBSET RoleFile]
    <2>1. lived[b] \cup {f} \in SUBSET RoleFile
        BY <1>3
    <2> QED BY <1>1, <1>3, <2>1
<1>6. VetTypeOK'
    BY <1>1, <1>2, <1>5 DEF VetInv, VetTypeOK, RoleFile
<1>7. CacheOK'
    BY <1>1, <1>4 DEF VetInv, CacheOK
<1>8. JudgingOK'
    <2>1. SUFFICES ASSUME judging # VetIdle
                   PROVE  /\ judging \in Candidate /\ judging[1] \notin ProviderHosts
                          /\ judging[2] # Global =>
                                 \E v \in lived'[judging[2]] : Admits(v, judging[1])
        BY <1>1 DEF JudgingOK
    <2>2. judging \in Candidate /\ judging[1] \notin ProviderHosts
        BY <2>1 DEF VetInv, JudgingOK
    <2>3. ASSUME judging[2] # Global
          PROVE  \E v \in lived'[judging[2]] : Admits(v, judging[1])
        <3>1. judging[2] \in VetBot
            BY <2>2, <2>3 DEF Candidate
        <3>2. \E v \in lived[judging[2]] : Admits(v, judging[1])
            BY <2>1, <2>3 DEF VetInv, JudgingOK
        <3> QED BY <1>4, <3>1, <3>2
    <2> QED BY <2>2, <2>3
<1> QED BY <1>1, <1>5, <1>6, <1>7, <1>8 DEF VetInv

\* The gate: the candidate is refused, or its classification begins.
LEMMA PickKeeps == ASSUME VetInv, WatchPick PROVE VetInv'
<1> DEFINE c == denied[Min(Pending)]
<1>1. c \in Candidate
    <2>1. Pending \subseteq DOMAIN denied /\ Pending # {}
        BY DEF Pending, WatchPick
    <2>2. Pending \in SUBSET Nat
        BY <2>1 DEF VetInv
    <2>3. Min(Pending) \in DOMAIN denied
        BY <2>1, <2>2, MinIsOneOfThem
    <2> QED BY <2>3 DEF VetInv
<1>2. /\ cache' = CacheAfter(c)
      /\ IF Gated(cache, c) THEN refused' = refused \cup {c} /\ judging' = judging
         ELSE judging' = c /\ refused' = refused
      /\ judging = VetIdle
      /\ UNCHANGED <<denied, partitioned, bootSeen, role, learned, lived, vetEvents>>
    BY DEF WatchPick
<1> HIDE DEF c
<1>3. /\ cache' \in [VetBot -> RoleFiles \cup {NoFile, Uncached}]
      /\ \A b \in VetBot : cache'[b] # Uncached => cache'[b] \in lived[b]
    BY <1>2, CacheStaysLived
<1>4. VetTypeOK'
    <2>1. refused' \subseteq Candidate /\ judging' \in Candidate \cup {VetIdle}
        BY <1>1, <1>2 DEF VetInv, VetTypeOK
    <2> QED BY <1>2, <1>3, <2>1 DEF VetInv, VetTypeOK
<1>5. CacheOK'
    BY <1>2, <1>3 DEF VetInv, CacheOK
<1>6. JudgingOK'
    <2>1. CASE Gated(cache, c)
        BY <1>2, <2>1 DEF JudgingOK
    <2>2. CASE ~Gated(cache, c)
        BY <1>1, <1>2, <2>2, UngatedAdmitted DEF JudgingOK
    <2> QED BY <2>1, <2>2
<1> QED BY <1>2, <1>4, <1>5, <1>6 DEF VetInv

\* The daemon is done with its candidate.
LEMMA DecidedKeeps == ASSUME VetInv, LearnHosts \/ Refuse PROVE VetInv'
<1>1. /\ judging # VetIdle /\ judging' = VetIdle
      /\ UNCHANGED <<denied, partitioned, bootSeen, role, cache, lived, vetEvents>>
      /\ learned' \subseteq learned \cup {judging} /\ refused' \subseteq refused \cup {judging}
    BY DEF LearnHosts, Refuse
<1>2. judging \in Candidate
    BY <1>1 DEF VetInv, JudgingOK
<1>3. VetTypeOK'
    BY <1>1, <1>2 DEF VetInv, VetTypeOK
<1>4. JudgingOK' /\ CacheOK'
    BY <1>1 DEF VetInv, JudgingOK, CacheOK
<1> QED BY <1>1, <1>3, <1>4 DEF VetInv

\* A daemon that was started again has read no file yet.
LEMMA RestartKeeps == ASSUME VetInv, VetRestart PROVE VetInv'
<1>1. /\ judging' = VetIdle /\ refused' = {} /\ cache' = NothingCached
      /\ lived' = [b \in VetBot |-> {role[b]}]
      /\ UNCHANGED <<denied, partitioned, bootSeen, role, learned>>
    BY DEF VetRestart
<1>2. vetEvents' \in 0..MaxVetEvents
    BY EventCounts DEF VetRestart
<1>3. cache' \in [VetBot -> RoleFiles \cup {NoFile, Uncached}] /\ \A b \in VetBot : cache'[b] = Uncached
    BY <1>1 DEF NothingCached
<1>4. VetTypeOK'
    BY <1>1, <1>2, <1>3 DEF VetInv, VetTypeOK
<1>5. lived' \in [VetBot -> SUBSET RoleFile] /\ \A b \in VetBot : role[b] \in lived'[b]
    BY <1>1 DEF VetInv, VetTypeOK, RoleFile
<1>6. CacheOK' /\ JudgingOK'
    BY <1>1, <1>3, <1>5 DEF CacheOK, JudgingOK
<1> QED BY <1>1, <1>4, <1>5, <1>6 DEF VetInv

LEMMA VetStep == VetInv /\ [VetNext]_vetVars => VetInv'
<1> SUFFICES ASSUME VetInv, [VetNext]_vetVars PROVE VetInv'
    OBVIOUS
<1>0. VetTypeOK
    BY DEF VetInv
<1>1. ASSUME NEW h \in VetHost, NEW b \in VetBot \cup {Global}, ProxyDenies(h, b)
      PROVE  VetInv'
    <2>1. <<h, b>> \in Candidate
        BY DEF Candidate
    <2>2. denied' \in Seq(Candidate) /\ Len(denied') <= MaxDenials
        BY <1>1, <2>1, TailType DEF ProxyDenies
    <2> QED BY <1>0, <1>1, <2>2, WorldKeeps DEF ProxyDenies, VetTypeOK
<1>2. CASE TailMoves
    <2>1. denied' = denied \/ (denied # <<>> /\ denied' = Tail(denied))
        BY <1>2 DEF TailMoves
    <2>2. denied' \in Seq(Candidate) /\ Len(denied') <= MaxDenials
        BY <2>1, TailType
    <2> QED BY <1>0, <1>2, <2>2, WorldKeeps, EventCounts DEF TailMoves, VetTypeOK
<1>3. ASSUME NEW part \in BOOLEAN, ProxyRestarts(part)
      PROVE  VetInv'
    <2>1. /\ partitioned' \in BOOLEAN /\ bootSeen' \in BOOLEAN
          /\ UNCHANGED <<denied, role, learned, refused, cache, judging, lived>>
        BY <1>3, Zenon DEF ProxyRestarts
    <2> QED BY <1>0, <1>3, <2>1, WorldKeeps, EventCounts, TailType DEF ProxyRestarts, VetTypeOK
<1>4. ASSUME NEW b \in VetBot, NEW f \in RoleFiles \cup {NoFile, Unreadable}, EditRole(b, f)
      PROVE  VetInv'
    BY <1>4, EditKeeps DEF RoleFile
<1>5. CASE WatchPick
    BY <1>5, PickKeeps
<1>6. CASE LearnHosts \/ Refuse
    BY <1>6, DecidedKeeps
<1>7. CASE VetRestart
    BY <1>7, RestartKeeps
<1>8. ASSUME NEW c \in Candidate, OperatorVets(c)
      PROVE  VetInv'
    BY <1>0, <1>8, WorldKeeps, EventCounts, TailType DEF OperatorVets, VetTypeOK
<1>9. ASSUME NEW h \in VetHost, NEW b \in VetBot, SandboxUnsafe(h, b)
      PROVE  VetInv'
    <2>1. <<h, b>> \in Candidate
        BY DEF Candidate
    <2> QED BY <1>0, <1>9, <2>1, WorldKeeps, EventCounts, TailType DEF SandboxUnsafe, VetTypeOK
<1>10. CASE UNCHANGED vetVars
    BY <1>0, <1>10, WorldKeeps, TailType DEF vetVars, VetTypeOK
<1> QED BY <1>1, <1>2, <1>3, <1>4, <1>5, <1>6, <1>7, <1>8, <1>9, <1>10 DEF VetNext

\* The daemon's memo, cache and stores keep their types.
THEOREM VetTypeCorrect == VetSpec => []VetTypeOK
<1>1. VetInv => VetTypeOK
    BY DEF VetInv
<1> QED BY <1>1, VetStart, VetStep, PTL DEF VetSpec

\* vet_host: whatever happens between the gate and the classifier's answer, what the
\* daemon learns for a bot is no provider's host and was admitted by a role file of
\* that bot since the daemon started.
THEOREM LearnsWithinRole == VetSpec => VetWithinRole
<1>1. VetInv => [judging # VetIdle /\ judging \in learned' \ learned /\ judging' = VetIdle =>
                    /\ judging[1] \notin ProviderHosts
                    /\ judging[2] # Global =>
                         \E f \in lived[judging[2]] : Admits(f, judging[1])]_vetVars
    BY DEF VetInv, JudgingOK
<1> QED BY <1>1, VetStart, VetStep, PTL DEF VetSpec, VetWithinRole

(***************************************************************************)
(* SleepCycle: what a conversation is told after a reset.  A transcript is *)
(* carried when it is in the record, in the tails of a cycle that has yet  *)
(* to save, or has an excuse.                                              *)
(***************************************************************************)
Job == [pc : {"off", "list", "reset", "rank", "saved"}, want : SUBSET SleepSession,
        listed : SUBSET Transcript, now : SUBSET Transcript, tails : SUBSET Transcript]

SleepTypes ==
    /\ epoch \in [SleepSession -> 0..MaxEpoch]
    /\ talked \in [SleepSession -> BOOLEAN] /\ inTurn \in [SleepSession -> BOOLEAN]
    /\ rested \subseteq SleepSession
    /\ cycle \in [Cycle -> Job]
    /\ wakeFile \in [handoff : SUBSET Transcript, fresh : BOOLEAN]
    /\ owed \in [SleepSession -> -1..MaxEpoch] /\ excuse \subseteq Transcript \X MissCause
    /\ missed \subseteq MissCause /\ cycles \in 0..MaxCycles /\ sleepFaults \in 0..MaxSleepFaults

\* A cycle lists one transcript of a session, and has no tail, and asks for no reset, before it has the list.
JobOK(r) ==
    /\ r.now \subseteq r.listed
    /\ \A t, u \in r.listed : t[1] = u[1] => t = u
    /\ r.pc = "list" => r.tails = {} /\ r.now = {}

JobsOK == \A j \in Cycle : JobOK(cycle[j]) /\ (j > cycles => cycle[j] = NoJob)

Carried(t) ==
    \/ t \in wakeFile.handoff
    \/ \E j \in Cycle : t \in cycle[j].tails /\ cycle[j].pc # "saved"
    \/ \E why \in MissCause : <<t, why>> \in excuse

LiveOf(s) == <<s, epoch[s]>>

\* The cycle is to reset what it listed, which is still the live transcript, or openclaw
\* resets whatever is live.
Committed(j, t) == \/ cycle[j].pc \in {"rank", "saved"}
                   \/ cycle[j].pc = "reset" /\ t = LiveOf(t[1])

PendingOK ==
    \A j \in Cycle : \A t \in cycle[j].now :
        talked[t[1]] /\ Committed(j, t) => Carried(LiveOf(t[1]))

OwedOK == \A s \in SleepSession : owed[s] >= 0 => Carried(<<s, owed[s]>>)

ExcuseOK == (\A x \in excuse : x[2] # "unexplained") /\ "unexplained" \notin missed

SleepInv == SleepTypes /\ JobsOK /\ PendingOK /\ OwedOK /\ ExcuseOK

LEMMA NoJobIsJob == NoJob \in Job /\ JobOK(NoJob)
<1> QED BY DEF NoJob, Job, JobOK

LEMMA SleepStart == SleepInit => SleepInv
<1> SUFFICES ASSUME SleepInit PROVE SleepInv
    OBVIOUS
<1>1. cycle \in [Cycle -> Job] /\ \A j \in Cycle : cycle[j] = NoJob
    BY NoJobIsJob DEF SleepInit
<1>2. SleepTypes
    BY <1>1, SleepAssumption DEF SleepInit, SleepTypes
<1>3. JobsOK
    BY <1>1, NoJobIsJob DEF JobsOK
<1>4. PendingOK
    BY <1>1 DEF PendingOK, NoJob
<1>5. OwedOK /\ ExcuseOK
    BY DEF SleepInit, OwedOK, ExcuseOK
<1> QED BY <1>2, <1>3, <1>4, <1>5 DEF SleepInv

\* A step of one cycle.
LEMMA JobMoves ==
    ASSUME SleepInv, NEW j \in Cycle, NEW r \in Job, JobOK(r), cycle[j] # NoJob, KeepJob(j, r)
    PROVE  /\ cycle' \in [Cycle -> Job] /\ cycles' = cycles /\ JobsOK'
           /\ cycle'[j] = r /\ \A k \in Cycle \ {j} : cycle'[k] = cycle[k]
<1>1. cycle \in [Cycle -> Job] /\ cycle' = [cycle EXCEPT ![j] = r] /\ cycles' = cycles
    BY DEF SleepInv, SleepTypes, KeepJob
<1>2. cycle' \in [Cycle -> Job] /\ cycle'[j] = r /\ \A k \in Cycle \ {j} : cycle'[k] = cycle[k]
    BY <1>1
<1>3. ASSUME NEW k \in Cycle PROVE JobOK(cycle'[k]) /\ (k > cycles' => cycle'[k] = NoJob)
    <2>1. CASE k = j
        BY <1>1, <1>2, <2>1 DEF SleepInv, JobsOK
    <2>2. CASE k # j
        BY <1>1, <1>2, <2>2 DEF SleepInv, JobsOK
    <2> QED BY <2>1, <2>2
<1>4. JobsOK'
    BY <1>3 DEF JobsOK, JobOK
<1> QED BY <1>1, <1>2, <1>4

\* A cycle begins in a place that nobody has.
LEMMA JobStarts ==
    ASSUME SleepInv, NEW r \in Job, JobOK(r), StartCycle(r)
    PROVE  /\ cycles' \in Cycle /\ cycles' \in 0..MaxCycles
           /\ cycle' \in [Cycle -> Job] /\ JobsOK'
           /\ cycle[cycles'] = NoJob /\ cycle'[cycles'] = r
           /\ \A k \in Cycle \ {cycles'} : cycle'[k] = cycle[k]
<1>1. /\ cycle \in [Cycle -> Job] /\ cycle' = [cycle EXCEPT ![cycles'] = r]
      /\ cycles \in 0..MaxCycles /\ cycles < MaxCycles /\ cycles' = cycles + 1
    BY DEF SleepInv, SleepTypes, StartCycle
<1>2. cycles' \in Cycle /\ cycles' \in 0..MaxCycles
    BY <1>1, SleepAssumption DEF Cycle
<1>3. /\ cycle' \in [Cycle -> Job] /\ cycle'[cycles'] = r
      /\ \A k \in Cycle \ {cycles'} : cycle'[k] = cycle[k]
    BY <1>1, <1>2
<1>4. cycle[cycles'] = NoJob
    BY <1>1, <1>2 DEF SleepInv, JobsOK
<1>5. ASSUME NEW k \in Cycle PROVE JobOK(cycle'[k]) /\ (k > cycles' => cycle'[k] = NoJob)
    <2>1. CASE k = cycles'
        BY <1>1, <1>2, <1>3, <2>1
    <2>2. CASE k # cycles'
        <3>1. JobOK(cycle'[k]) /\ (k > cycles => cycle'[k] = NoJob)
            BY <1>3, <2>2 DEF SleepInv, JobsOK
        <3> QED BY <1>1, <2>2, <3>1 DEF Cycle
    <2> QED BY <2>1, <2>2
<1>6. JobsOK'
    BY <1>5 DEF JobsOK, JobOK
<1> QED BY <1>2, <1>3, <1>4, <1>6

\* Where every transcript stays carried and no session changes, no promise is broken but
\* by a cycle that makes a new one.
LEMMA QuietStep ==
    ASSUME SleepInv, epoch' = epoch, talked' = talked, owed' = owed,
           \A t \in Transcript : Carried(t) => Carried(t)',
           \A j \in Cycle : \A t \in cycle'[j].now :
              \/ /\ t \in cycle[j].now
                 /\ cycle'[j].pc = cycle[j].pc \/ cycle[j].pc = "rank"
              \/ talked[t[1]] /\ (cycle'[j].pc = "reset" => t = LiveOf(t[1]))
                   => Carried(LiveOf(t[1]))',
           cycle' \in [Cycle -> Job]
    PROVE  PendingOK' /\ OwedOK'
<1>1. /\ epoch \in [SleepSession -> 0..MaxEpoch] /\ owed \in [SleepSession -> -1..MaxEpoch]
      /\ cycle \in [Cycle -> Job]
    BY DEF SleepInv, SleepTypes
<1>2. \A s \in SleepSession : LiveOf(s) \in Transcript /\ LiveOf(s)' = LiveOf(s)
    BY <1>1 DEF LiveOf, Transcript
<1>3. ASSUME NEW j \in Cycle, NEW t \in cycle'[j].now,
             talked'[t[1]], Committed(j, t)'
      PROVE  Carried(LiveOf(t[1]))'
    <2>1. t \in Transcript /\ t[1] \in SleepSession
        BY <1>3 DEF Job, Transcript
    <2>2. CASE talked[t[1]] /\ (cycle'[j].pc = "reset" => t = LiveOf(t[1]))
                   => Carried(LiveOf(t[1]))'
        <3>1. cycle'[j].pc = "reset" => t = LiveOf(t[1])
            BY <1>2, <1>3, <2>1 DEF Committed
        <3> QED BY <1>3, <2>2, <3>1
    <2>3. CASE t \in cycle[j].now /\ (cycle'[j].pc = cycle[j].pc \/ cycle[j].pc = "rank")
        <3>1. Committed(j, t)
            BY <1>2, <1>3, <2>1, <2>3 DEF Committed
        <3>2. Carried(LiveOf(t[1]))
            BY <1>3, <2>3, <3>1 DEF SleepInv, PendingOK
        <3> QED BY <1>2, <2>1, <3>2
    <2> QED BY <1>3, <2>2, <2>3
<1>4. PendingOK'
    <2>1. \A s \in SleepSession : LiveOf(s)' = LiveOf(s)
        BY <1>2
    <2> QED BY <1>3 DEF PendingOK
<1>5. ASSUME NEW s \in SleepSession, owed'[s] >= 0 PROVE Carried(<<s, owed[s]>>)'
    <2>1. owed[s] \in 0..MaxEpoch
        BY <1>1, <1>5, SleepAssumption
    <2>2. <<s, owed[s]>> \in Transcript
        BY <2>1 DEF Transcript
    <2>3. Carried(<<s, owed[s]>>)
        BY <2>1 DEF SleepInv, OwedOK
    <2> QED BY <2>2, <2>3
<1>6. OwedOK'
    BY <1>5 DEF OwedOK
<1> QED BY <1>4, <1>6

\* A record that grows old, excuses and tails that are only added to.
LEMMA CarriedKept ==
    ASSUME wakeFile'.handoff = wakeFile.handoff, excuse \subseteq excuse',
           \A k \in Cycle : /\ cycle[k].tails \subseteq cycle'[k].tails
                            /\ \/ cycle'[k].pc # "saved" \/ cycle[k].pc = "saved"
                               \/ cycle[k].tails = {}
    PROVE  \A t \in Transcript : Carried(t) => Carried(t)'
<1> SUFFICES ASSUME NEW t \in Transcript, Carried(t) PROVE Carried(t)'
    OBVIOUS
<1>1. CASE t \in wakeFile.handoff
    BY <1>1 DEF Carried
<1>2. CASE \E j \in Cycle : t \in cycle[j].tails /\ cycle[j].pc # "saved"
    <2>1. PICK j \in Cycle : t \in cycle[j].tails /\ cycle[j].pc # "saved"
        BY <1>2
    <2>2. t \in cycle'[j].tails /\ cycle'[j].pc # "saved"
        BY <2>1
    <2> QED BY <2>2 DEF Carried
<1>3. CASE \E why \in MissCause : <<t, why>> \in excuse
    BY <1>3 DEF Carried
<1> QED BY <1>1, <1>2, <1>3 DEF Carried

LEMMA TimeKeeps == ASSUME SleepInv, TimePasses \/ RecordAges PROVE SleepInv'
<1>1. /\ epoch' = epoch /\ talked' = talked /\ inTurn' = inTurn /\ owed' = owed /\ excuse' = excuse
      /\ missed' = missed /\ cycle' = cycle /\ cycles' = cycles /\ sleepFaults' = sleepFaults
      /\ rested' = {}
    BY DEF TimePasses, RecordAges, sleepSessions, sleepGhosts
<1>2. wakeFile \in [handoff : SUBSET Transcript, fresh : BOOLEAN]
    BY DEF SleepInv, SleepTypes
<1>3. wakeFile' \in [handoff : SUBSET Transcript, fresh : BOOLEAN]
      /\ wakeFile'.handoff = wakeFile.handoff
    BY <1>2 DEF TimePasses, RecordAges
<1>4. SleepTypes'
    BY <1>1, <1>3 DEF SleepInv, SleepTypes
<1>5. JobsOK'
    BY <1>1 DEF SleepInv, JobsOK
<1>6. \A t \in Transcript : Carried(t) => Carried(t)'
    BY <1>1, <1>3, CarriedKept
<1>7. cycle' \in [Cycle -> Job]
    BY <1>4 DEF SleepTypes
<1>8. PendingOK' /\ OwedOK'
    BY <1>1, <1>6, <1>7, QuietStep
<1>9. ExcuseOK'
    BY <1>1 DEF SleepInv, ExcuseOK
<1> QED BY <1>4, <1>5, <1>8, <1>9 DEF SleepInv

\* A cycle that begins, with a tail or without.
LEMMA StartKeeps ==
    ASSUME SleepInv, NEW r \in Job, JobOK(r), StartCycle(r),
           UNCHANGED <<epoch, talked, wakeFile, sleepGhosts>>,
           inTurn' \in [SleepSession -> BOOLEAN], rested' \subseteq SleepSession,
           sleepFaults' = sleepFaults,
           \A t \in r.now : r.pc # "reset" /\ t = LiveOf(t[1]) /\ (talked[t[1]] => t \in r.tails),
           r.pc = "saved" => r.tails = {}
    PROVE  SleepInv'
<1>1. /\ cycles' \in Cycle /\ cycles' \in 0..MaxCycles
      /\ cycle' \in [Cycle -> Job] /\ JobsOK'
      /\ cycle[cycles'] = NoJob /\ cycle'[cycles'] = r
      /\ \A k \in Cycle \ {cycles'} : cycle'[k] = cycle[k]
    BY JobStarts
<1>2. /\ epoch' = epoch /\ talked' = talked /\ owed' = owed /\ excuse' = excuse
      /\ missed' = missed /\ wakeFile' = wakeFile
    BY DEF sleepGhosts
<1>3. SleepTypes'
    BY <1>1, <1>2 DEF SleepInv, SleepTypes
<1>4. \A t \in Transcript : Carried(t) => Carried(t)'
    <2>1. \A k \in Cycle : /\ cycle[k].tails \subseteq cycle'[k].tails
                           /\ \/ cycle'[k].pc # "saved" \/ cycle[k].pc = "saved"
                              \/ cycle[k].tails = {}
        BY <1>1 DEF NoJob
    <2> QED BY <1>2, <2>1, CarriedKept
<1>5. ASSUME NEW t \in r.now, talked[t[1]] PROVE Carried(LiveOf(t[1]))'
    <2>1. LiveOf(t[1]) \in r.tails /\ r.pc # "saved"
        BY <1>5
    <2>2. Carried(t)'
        BY <1>1, <1>5, <2>1 DEF Carried
    <2>3. LiveOf(t[1])' = t
        BY <1>2 DEF LiveOf
    <2> QED BY <2>2, <2>3 DEF Carried
<1>6. \A j \in Cycle : \A t \in cycle'[j].now :
         \/ /\ t \in cycle[j].now
            /\ cycle'[j].pc = cycle[j].pc \/ cycle[j].pc = "rank"
         \/ talked[t[1]] /\ (cycle'[j].pc = "reset" => t = LiveOf(t[1])) => Carried(LiveOf(t[1]))'
    <2> TAKE j \in Cycle
    <2> TAKE t \in cycle'[j].now
    <2>1. CASE j = cycles'
        BY <1>1, <1>5, <2>1
    <2>2. CASE j # cycles'
        BY <1>1, <2>2
    <2> QED BY <2>1, <2>2
<1>7. PendingOK' /\ OwedOK'
    BY <1>1, <1>2, <1>4, <1>6, QuietStep
<1>8. ExcuseOK'
    BY <1>2 DEF SleepInv, ExcuseOK
<1> QED BY <1>1, <1>3, <1>7, <1>8 DEF SleepInv

LEMMA TurnEndsKeeps ==
    ASSUME SleepInv, NEW s \in SleepSession, NEW over \in BOOLEAN, TurnEnds(s, over)
    PROVE  SleepInv'
<1>1. /\ UNCHANGED <<epoch, talked, wakeFile, sleepGhosts, sleepFaults>>
      /\ inTurn' = [inTurn EXCEPT ![s] = FALSE]
    BY DEF TurnEnds
<1>2. inTurn' \in [SleepSession -> BOOLEAN]
    BY <1>1 DEF SleepInv, SleepTypes
<1>3. CASE over /\ s \in Matching \ rested
    <2> DEFINE r == [NoJob EXCEPT !.pc = "list", !.want = {s}]
    <2>1. r \in Job /\ JobOK(r) /\ r.now = {} /\ r.tails = {}
        BY DEF NoJob, Job, JobOK
    <2>2. StartCycle(r) /\ rested' = rested \cup {s}
        BY <1>3 DEF TurnEnds
    <2> HIDE DEF r
    <2>3. rested' \subseteq SleepSession
        BY <2>2 DEF SleepInv, SleepTypes
    <2> QED BY <1>1, <1>2, <2>1, <2>2, <2>3, StartKeeps
<1>4. CASE ~(over /\ s \in Matching \ rested)
    <2>1. UNCHANGED <<rested, cycle, cycles>>
        BY <1>4 DEF TurnEnds
    <2>2. /\ epoch' = epoch /\ talked' = talked /\ owed' = owed /\ excuse' = excuse
          /\ missed' = missed /\ wakeFile' = wakeFile /\ cycle' = cycle /\ cycles' = cycles
          /\ rested' = rested /\ sleepFaults' = sleepFaults
        BY <1>1, <2>1 DEF sleepGhosts
    <2>3. SleepTypes' /\ cycle' \in [Cycle -> Job]
        BY <1>2, <2>2 DEF SleepInv, SleepTypes
    <2>4. JobsOK'
        BY <2>2 DEF SleepInv, JobsOK
    <2>5. \A t \in Transcript : Carried(t) => Carried(t)'
        BY <2>2, CarriedKept
    <2>6. PendingOK' /\ OwedOK'
        BY <2>2, <2>3, <2>5, QuietStep
    <2>7. ExcuseOK'
        BY <2>2 DEF SleepInv, ExcuseOK
    <2> QED BY <2>3, <2>4, <2>6, <2>7 DEF SleepInv
<1> QED BY <1>3, <1>4

LEMMA SleepDeepKeeps == ASSUME SleepInv, SleepDeep PROVE SleepInv'
<1> DEFINE r == [NoJob EXCEPT !.pc = "list", !.want = Matching]
<1>1. r \in Job /\ JobOK(r) /\ r.now = {} /\ r.tails = {}
    BY SleepAssumption DEF NoJob, Job, JobOK
<1>2. /\ StartCycle(r)
      /\ UNCHANGED <<sleepSessions, rested, wakeFile, sleepGhosts, sleepFaults>>
    BY DEF SleepDeep
<1> HIDE DEF r
<1>3. /\ UNCHANGED <<epoch, talked, wakeFile, sleepGhosts>> /\ rested' \subseteq SleepSession
      /\ inTurn' \in [SleepSession -> BOOLEAN] /\ sleepFaults' = sleepFaults
    BY <1>2 DEF SleepInv, SleepTypes, sleepSessions
<1> QED BY <1>1, <1>2, <1>3, StartKeeps

LEMMA BeforeResetKeeps ==
    ASSUME SleepInv, NEW s \in SleepSession, BeforeReset(s) PROVE SleepInv'
<1> DEFINE r == [NoJob EXCEPT !.listed = {LiveOf(s)}, !.now = {LiveOf(s)},
                              !.tails = TailOf(LiveOf(s)),
                              !.pc = IF talked[s] THEN "rank" ELSE "saved"]
<1>1. LiveOf(s) \in Transcript /\ LiveOf(s)[1] = s
    BY DEF SleepInv, SleepTypes, LiveOf, Transcript
<1>2. TailOf(LiveOf(s)) = IF talked[s] THEN {LiveOf(s)} ELSE {}
    BY DEF TailOf, LiveOf
<1>3. /\ r.now = {LiveOf(s)} /\ r.listed = {LiveOf(s)} /\ r.want = {}
      /\ r.pc = IF talked[s] THEN "rank" ELSE "saved"
      /\ r.tails = IF talked[s] THEN {LiveOf(s)} ELSE {}
    BY <1>2 DEF NoJob
<1>4. r \in Job
    BY <1>1, <1>2 DEF NoJob, Job
<1>5. StartCycle(r) /\ UNCHANGED <<sleepSessions, rested, wakeFile, sleepGhosts, sleepFaults>>
    BY DEF BeforeReset, LiveOf
<1> HIDE DEF r
<1>6. JobOK(r) /\ (r.pc = "saved" => r.tails = {}) /\ r.pc # "reset"
    BY <1>3 DEF JobOK
<1>7. \A t \in r.now : t = LiveOf(t[1]) /\ (talked[t[1]] => t \in r.tails)
    BY <1>1, <1>3
<1>8. /\ UNCHANGED <<epoch, talked, wakeFile, sleepGhosts>> /\ rested' \subseteq SleepSession
      /\ inTurn' \in [SleepSession -> BOOLEAN] /\ sleepFaults' = sleepFaults
    BY <1>5 DEF SleepInv, SleepTypes, sleepSessions
<1> QED BY <1>4, <1>5, <1>6, <1>7, <1>8, StartKeeps

\* A step of a cycle that keeps its tails and leaves the sessions and the record alone.
LEMMA MoveKeeps ==
    ASSUME SleepInv, NEW j \in Cycle, NEW r \in Job, JobOK(r), cycle[j] # NoJob, KeepJob(j, r),
           UNCHANGED <<sleepSessions, rested, wakeFile, sleepGhosts>>,
           sleepFaults' \in 0..MaxSleepFaults,
           cycle[j].tails \subseteq r.tails, r.pc # "saved",
           \A t \in r.now : r.pc = "reset" /\ (t = LiveOf(t[1]) /\ talked[t[1]] => t \in r.tails)
    PROVE  SleepInv'
<1>1. /\ cycle' \in [Cycle -> Job] /\ cycles' = cycles /\ JobsOK'
      /\ cycle'[j] = r /\ \A k \in Cycle \ {j} : cycle'[k] = cycle[k]
    BY JobMoves
<1>2. /\ epoch' = epoch /\ talked' = talked /\ inTurn' = inTurn /\ rested' = rested
      /\ owed' = owed /\ excuse' = excuse /\ missed' = missed /\ wakeFile' = wakeFile
    BY DEF sleepGhosts, sleepSessions
<1>3. SleepTypes'
    BY <1>1, <1>2 DEF SleepInv, SleepTypes
<1>4. \A t \in Transcript : Carried(t) => Carried(t)'
    <2>1. \A k \in Cycle : /\ cycle[k].tails \subseteq cycle'[k].tails
                           /\ \/ cycle'[k].pc # "saved" \/ cycle[k].pc = "saved"
                              \/ cycle[k].tails = {}
        BY <1>1
    <2> QED BY <1>2, <2>1, CarriedKept
<1>5. ASSUME NEW t \in r.now, talked[t[1]], t = LiveOf(t[1]) PROVE Carried(LiveOf(t[1]))'
    <2>1. t \in r.tails /\ r.pc # "saved"
        BY <1>5
    <2>2. Carried(t)'
        BY <1>1, <2>1 DEF Carried
    <2>3. LiveOf(t[1])' = t
        BY <1>2, <1>5 DEF LiveOf
    <2> QED BY <2>2, <2>3 DEF Carried
<1>6. \A k \in Cycle : \A t \in cycle'[k].now :
         \/ /\ t \in cycle[k].now
            /\ cycle'[k].pc = cycle[k].pc \/ cycle[k].pc = "rank"
         \/ talked[t[1]] /\ (cycle'[k].pc = "reset" => t = LiveOf(t[1])) => Carried(LiveOf(t[1]))'
    <2> TAKE k \in Cycle
    <2> TAKE t \in cycle'[k].now
    <2>1. CASE k = j
        BY <1>1, <1>5, <2>1
    <2>2. CASE k # j
        BY <1>1, <2>2
    <2> QED BY <2>1, <2>2
<1>7. PendingOK' /\ OwedOK'
    BY <1>1, <1>2, <1>4, <1>6, QuietStep
<1>8. ExcuseOK'
    BY <1>2 DEF SleepInv, ExcuseOK
<1> QED BY <1>1, <1>3, <1>7, <1>8 DEF SleepInv

LEMMA ListTargetsKeeps == ASSUME SleepInv, NEW j \in Cycle, ListTargets(j) PROVE SleepInv'
<1> DEFINE there == {s \in cycle[j].want : talked[s] \/ epoch[s] > 0}
           r == [cycle[j] EXCEPT !.pc = IF there = {} THEN "rank" ELSE "reset", !.want = {},
                                 !.listed = {<<s, epoch[s]>> : s \in there}]
<1>1. /\ cycle[j] \in Job /\ cycle[j].pc = "list" /\ cycle[j].now = {} /\ cycle[j].tails = {}
      /\ epoch \in [SleepSession -> 0..MaxEpoch] /\ sleepFaults \in 0..MaxSleepFaults
    BY DEF ListTargets, SleepInv, SleepTypes, JobsOK, JobOK
<1>2. there \subseteq SleepSession
    BY <1>1 DEF Job
<1> HIDE DEF there
<1>3. {<<s, epoch[s]>> : s \in there} \subseteq Transcript
    BY <1>1, <1>2 DEF Transcript
<1>4. r \in Job
    BY <1>1, <1>3 DEF Job
<1>5. /\ r.now = {} /\ r.tails = {} /\ r.pc \in {"rank", "reset"}
      /\ r.listed = {<<s, epoch[s]>> : s \in there}
    BY <1>1 DEF Job
<1>6. KeepJob(j, r) /\ UNCHANGED <<sleepSessions, rested, wakeFile, sleepGhosts, sleepFaults>>
    BY DEF ListTargets, there
<1> HIDE DEF r
<1>7. JobOK(r)
    BY <1>5 DEF JobOK
<1>8. cycle[j] # NoJob
    BY <1>1 DEF NoJob
<1>9. /\ UNCHANGED <<sleepSessions, rested, wakeFile, sleepGhosts>>
      /\ sleepFaults' \in 0..MaxSleepFaults
    BY <1>1, <1>6
<1>10. cycle[j].tails \subseteq r.tails /\ r.pc # "saved" /\ r.now = {}
    BY <1>1, <1>5
<1> QED BY <1>4, <1>6, <1>7, <1>8, <1>9, <1>10, MoveKeeps

LEMMA FaultsTyped == ASSUME SleepInv, SleepFault PROVE sleepFaults' \in 0..MaxSleepFaults
<1> QED BY SleepAssumption DEF SleepInv, SleepTypes, SleepFault

LEMMA ListTargetsFailsKeeps ==
    ASSUME SleepInv, NEW j \in Cycle, ListTargetsFails(j) PROVE SleepInv'
<1>1. cycle[j] \in Job /\ cycle[j].pc = "list" /\ cycle[j].tails = {}
    BY DEF ListTargetsFails, SleepInv, SleepTypes, JobsOK, JobOK
<1>2. cycle[j] # NoJob
    BY <1>1 DEF NoJob
<1>3. /\ KeepJob(j, NoJob) /\ UNCHANGED <<sleepSessions, rested, wakeFile, sleepGhosts>>
      /\ sleepFaults' \in 0..MaxSleepFaults
    BY FaultsTyped DEF ListTargetsFails
<1>4. NoJob.tails = {} /\ NoJob.pc # "saved" /\ NoJob.now = {}
    BY DEF NoJob
<1> QED BY <1>1, <1>2, <1>3, <1>4, NoJobIsJob, MoveKeeps

LEMMA AskResetKeeps == ASSUME SleepInv, NEW j \in Cycle, AskReset(j) PROVE SleepInv'
<1>1. PICK t \in cycle[j].listed :
         KeepJob(j, [cycle[j] EXCEPT !.now = {t}, !.tails = @ \cup TailOf(t)])
    BY DEF AskReset
<1> DEFINE r == [cycle[j] EXCEPT !.now = {t}, !.tails = @ \cup TailOf(t)]
<1>2. /\ cycle[j] \in Job /\ cycle[j].pc = "reset" /\ JobOK(cycle[j])
      /\ sleepFaults \in 0..MaxSleepFaults
    BY DEF AskReset, SleepInv, SleepTypes, JobsOK
<1>3. t \in Transcript /\ TailOf(t) \subseteq Transcript
    BY <1>2 DEF Job, TailOf
<1>4. r \in Job
    BY <1>2, <1>3 DEF Job
<1>5. /\ r.now = {t} /\ r.tails = cycle[j].tails \cup TailOf(t) /\ r.pc = "reset"
      /\ r.listed = cycle[j].listed
    BY <1>2 DEF Job
<1>6. KeepJob(j, r)
    BY <1>1
<1> HIDE DEF r
<1>7. JobOK(r)
    BY <1>2, <1>5 DEF JobOK
<1>8. cycle[j] # NoJob
    BY <1>2 DEF NoJob
<1>9. t = LiveOf(t[1]) /\ talked[t[1]] => t \in r.tails
    BY <1>5 DEF TailOf, LiveOf
<1>10. /\ UNCHANGED <<sleepSessions, rested, wakeFile, sleepGhosts>>
       /\ sleepFaults' \in 0..MaxSleepFaults
    BY <1>2 DEF AskReset
<1>11. cycle[j].tails \subseteq r.tails /\ r.pc # "saved"
    BY <1>5
<1>12. \A u \in r.now : r.pc = "reset" /\ (u = LiveOf(u[1]) /\ talked[u[1]] => u \in r.tails)
    BY <1>5, <1>9
<1> QED BY <1>4, <1>6, <1>7, <1>8, <1>10, <1>11, <1>12, MoveKeeps

\* The job after a reset that succeeded or failed.
LEMMA NextTargetJob ==
    ASSUME SleepInv, NEW j \in Cycle, cycle[j].pc = "reset", NEW t \in cycle[j].now, NextTarget(j, t)
    PROVE  \E r \in Job :
              /\ KeepJob(j, r) /\ JobOK(r) /\ r.now = {} /\ r.tails = cycle[j].tails
              /\ r.pc \in {"reset", "rank"}
<1> DEFINE r == [cycle[j] EXCEPT !.now = {}, !.listed = @ \ {t},
                           !.pc = IF cycle[j].listed = {t} THEN "rank" ELSE @]
<1>1. cycle[j] \in Job /\ JobOK(cycle[j])
    BY DEF SleepInv, SleepTypes, JobsOK
<1>2. r \in Job
    BY <1>1 DEF Job
<1>3. /\ r.now = {} /\ r.tails = cycle[j].tails /\ r.listed = cycle[j].listed \ {t}
      /\ r.pc \in {"reset", "rank"}
    BY <1>1 DEF Job
<1>4. KeepJob(j, r)
    BY DEF NextTarget
<1> HIDE DEF r
<1>5. JobOK(r)
    BY <1>1, <1>3 DEF JobOK
<1> QED BY <1>2, <1>3, <1>4, <1>5

LEMMA ResetFailsKeeps == ASSUME SleepInv, NEW j \in Cycle, ResetFails(j) PROVE SleepInv'
<1>1. PICK t \in cycle[j].now : NextTarget(j, t)
    BY DEF ResetFails
<1>2. cycle[j].pc = "reset"
    BY DEF ResetFails
<1>3. PICK r \in Job :
         /\ KeepJob(j, r) /\ JobOK(r) /\ r.now = {} /\ r.tails = cycle[j].tails
         /\ r.pc \in {"reset", "rank"}
    BY <1>1, <1>2, NextTargetJob
<1>4. cycle[j] # NoJob
    BY <1>2 DEF NoJob
<1>5. /\ UNCHANGED <<sleepSessions, rested, wakeFile, sleepGhosts>>
      /\ sleepFaults' \in 0..MaxSleepFaults
    BY FaultsTyped DEF ResetFails
<1>6. cycle[j].tails \subseteq r.tails /\ r.pc # "saved"
    BY <1>3
<1> QED BY <1>3, <1>4, <1>5, <1>6, MoveKeeps

(***************************************************************************)
(* A session is reset.  That its turn is carried is known of the cycle     *)
(* that was committed to it, and else it has an excuse.                    *)
(***************************************************************************)
LEMMA ResetKeeps ==
    ASSUME SleepInv, NEW j \in Cycle, NEW s \in SleepSession, ResetSession(j, s),
           cycle' \in [Cycle -> Job], JobsOK',
           UNCHANGED <<inTurn, rested, wakeFile, missed, cycles, sleepFaults>>,
           \A k \in Cycle : /\ cycle'[k].tails = cycle[k].tails \/ cycle[k].pc = "saved"
                            /\ cycle'[k].pc # "saved" \/ cycle[k].pc = "saved",
           \A k \in Cycle : \A t \in cycle'[k].now :
              t \in cycle[k].now /\ cycle'[k].pc = cycle[k].pc,
           talked[s] /\ ~Overlaps(j, s) => Carried(LiveOf(s))
    PROVE  SleepInv'
<1> DEFINE raced == {<<<<s, epoch[s]>>, "raced">>}
<1>1. /\ epoch \in [SleepSession -> 0..MaxEpoch] /\ talked \in [SleepSession -> BOOLEAN]
      /\ owed \in [SleepSession -> -1..MaxEpoch] /\ excuse \subseteq Transcript \X MissCause
      /\ cycle \in [Cycle -> Job]
    BY DEF SleepInv, SleepTypes
<1>2. /\ epoch[s] < MaxEpoch /\ epoch' = [epoch EXCEPT ![s] = epoch[s] + 1]
      /\ talked' = [talked EXCEPT ![s] = FALSE]
      /\ owed' = [owed EXCEPT ![s] = IF talked[s] THEN epoch[s] ELSE owed[s]]
      /\ excuse' = IF Overlaps(j, s) THEN excuse \cup raced ELSE excuse
    BY DEF ResetSession
<1>3. epoch' \in [SleepSession -> 0..MaxEpoch]
    <2>1. epoch[s] + 1 \in 0..MaxEpoch
        BY <1>1, <1>2, SleepAssumption
    <2> QED BY <1>1, <1>2, <2>1
<1>4. talked' \in [SleepSession -> BOOLEAN]
    BY <1>1, <1>2
<1>5. owed' \in [SleepSession -> -1..MaxEpoch]
    <2>1. (IF talked[s] THEN epoch[s] ELSE owed[s]) \in -1..MaxEpoch
        BY <1>1, SleepAssumption
    <2> QED BY <1>1, <1>2, <2>1
<1>6. LiveOf(s) \in Transcript /\ raced \subseteq Transcript \X MissCause
    BY <1>1 DEF LiveOf, Transcript, MissCause
<1>7. excuse' \subseteq Transcript \X MissCause /\ excuse \subseteq excuse'
      /\ \A x \in excuse' : x \in excuse \/ x[2] = "raced"
    BY <1>1, <1>2, <1>6
<1>8. SleepTypes'
    BY <1>3, <1>4, <1>5, <1>7 DEF SleepInv, SleepTypes
<1>9. \A t \in Transcript : Carried(t) => Carried(t)'
    <2> SUFFICES ASSUME NEW t \in Transcript, Carried(t) PROVE Carried(t)'
        OBVIOUS
    <2>1. CASE t \in wakeFile.handoff
        BY <2>1 DEF Carried
    <2>2. CASE \E k \in Cycle : t \in cycle[k].tails /\ cycle[k].pc # "saved"
        <3>1. PICK k \in Cycle : t \in cycle[k].tails /\ cycle[k].pc # "saved"
            BY <2>2
        <3>2. t \in cycle'[k].tails /\ cycle'[k].pc # "saved"
            BY <3>1
        <3> QED BY <3>2 DEF Carried
    <2>3. CASE \E why \in MissCause : <<t, why>> \in excuse
        BY <1>7, <2>3 DEF Carried
    <2> QED BY <2>1, <2>2, <2>3 DEF Carried
<1>10. PICK u \in Transcript : u = LiveOf(s)
    BY <1>6
<1>11. ASSUME talked[s] PROVE Carried(u)'
    <2>1. CASE Overlaps(j, s)
        <3>1. <<u, "raced">> \in excuse' /\ "raced" \in MissCause
            BY <1>2, <1>10, <2>1 DEF MissCause, LiveOf
        <3> QED BY <3>1 DEF Carried
    <2>2. CASE ~Overlaps(j, s)
        BY <1>9, <1>10, <1>11, <2>2
    <2> QED BY <2>1, <2>2
<1>12. ASSUME NEW v \in SleepSession, owed'[v] >= 0 PROVE Carried(<<v, owed[v]>>)'
    <2>1. owed'[v] \in 0..MaxEpoch
        BY <1>5, <1>12, SleepAssumption
    <2>2. PICK w \in Transcript : w = <<v, owed'[v]>>
        BY <2>1 DEF Transcript
    <2>3. CASE v = s /\ talked[s]
        <3>1. w = u
            BY <1>1, <1>2, <1>10, <2>2, <2>3 DEF LiveOf
        <3> QED BY <1>11, <2>2, <2>3, <3>1
    <2>4. CASE ~(v = s /\ talked[s])
        <3>1. owed'[v] = owed[v]
            BY <1>1, <1>2, <2>4
        <3>2. owed[v] >= 0
            BY <2>1, <3>1
        <3>3. Carried(<<v, owed[v]>>)
            BY <3>2 DEF SleepInv, OwedOK
        <3>4. Carried(w)
            BY <2>2, <3>1, <3>3
        <3>5. Carried(w)'
            BY <1>9, <3>4
        <3> QED BY <2>2, <3>5
    <2> QED BY <2>3, <2>4
<1>13. OwedOK'
    BY <1>12 DEF OwedOK
<1>14. ASSUME NEW k \in Cycle, NEW t \in cycle'[k].now, talked'[t[1]], Committed(k, t)'
       PROVE  Carried(LiveOf(t[1]))'
    <2>1. t \in cycle[k].now /\ cycle'[k].pc = cycle[k].pc
        OBVIOUS
    <2>2. t \in Transcript /\ t[1] \in SleepSession
        BY <1>1, <2>1 DEF Job, Transcript
    <2>3. t[1] # s
        BY <1>1, <1>2, <1>14, <2>2
    <2>4. PICK w \in Transcript : w = LiveOf(t[1])
        BY <1>1, <2>2 DEF LiveOf, Transcript
    <2>5. LiveOf(t[1])' = w
        BY <1>1, <1>2, <2>2, <2>3, <2>4 DEF LiveOf
    <2>6. talked[t[1]]
        BY <1>1, <1>2, <1>14, <2>2, <2>3
    <2>7. Committed(k, t)
        BY <1>14, <2>1, <2>4, <2>5 DEF Committed
    <2>8. Carried(w)
        BY <2>1, <2>4, <2>6, <2>7 DEF SleepInv, PendingOK
    <2>9. Carried(w)'
        BY <1>9, <2>8
    <2> QED BY <2>5, <2>9
<1>15. PendingOK'
    BY <1>14 DEF PendingOK
<1>16. ExcuseOK'
    BY <1>7 DEF SleepInv, ExcuseOK
<1> QED BY <1>8, <1>13, <1>15, <1>16 DEF SleepInv

LEMMA ResetDoneKeeps == ASSUME SleepInv, NEW j \in Cycle, ResetDone(j) PROVE SleepInv'
<1>1. PICK t \in cycle[j].now : ResetSession(j, t[1]) /\ NextTarget(j, t)
    BY DEF ResetDone
<1>2. /\ cycle[j].pc = "reset" /\ cycle[j] \in Job /\ JobOK(cycle[j])
      /\ UNCHANGED <<inTurn, rested, wakeFile, missed, sleepFaults>>
    BY DEF ResetDone, SleepInv, SleepTypes, JobsOK
<1>3. PICK r \in Job :
         /\ KeepJob(j, r) /\ JobOK(r) /\ r.now = {} /\ r.tails = cycle[j].tails
         /\ r.pc \in {"reset", "rank"}
    BY <1>1, <1>2, NextTargetJob
<1>4. cycle[j] # NoJob
    BY <1>2 DEF NoJob
<1>5. /\ cycle' \in [Cycle -> Job] /\ cycles' = cycles /\ JobsOK'
      /\ cycle'[j] = r /\ \A k \in Cycle \ {j} : cycle'[k] = cycle[k]
    BY <1>3, <1>4, JobMoves
<1>6. t \in Transcript /\ t \in cycle[j].listed /\ t[1] \in SleepSession
    BY <1>2 DEF JobOK, Job, Transcript
<1>7. ASSUME talked[t[1]], ~Overlaps(j, t[1]) PROVE Carried(LiveOf(t[1]))
    <2>1. LiveOf(t[1]) \in cycle[j].listed
        BY <1>7 DEF Overlaps, LiveOf
    <2>2. t = LiveOf(t[1])
        BY <1>2, <1>6, <2>1 DEF JobOK, LiveOf
    <2>3. Committed(j, t)
        BY <1>2, <2>2 DEF Committed
    <2> QED BY <1>7, <2>3 DEF SleepInv, PendingOK
<1>8. \A k \in Cycle : /\ cycle'[k].tails = cycle[k].tails \/ cycle[k].pc = "saved"
                       /\ cycle'[k].pc # "saved" \/ cycle[k].pc = "saved"
    BY <1>3, <1>5
<1>9. \A k \in Cycle : \A u \in cycle'[k].now : u \in cycle[k].now /\ cycle'[k].pc = cycle[k].pc
    BY <1>3, <1>5
<1> QED BY <1>1, <1>2, <1>5, <1>6, <1>7, <1>8, <1>9, ResetKeeps

LEMMA ScheduledResetKeeps == ASSUME SleepInv, NEW j \in Cycle, ScheduledReset(j) PROVE SleepInv'
<1>1. PICK t \in cycle[j].now : ResetSession(j, t[1])
    BY DEF ScheduledReset
<1>2. /\ cycle[j].pc \in {"rank", "saved"} /\ cycle[j] \in Job
      /\ UNCHANGED <<inTurn, rested, wakeFile, missed, sleepFaults>>
    BY DEF ScheduledReset, SleepInv, SleepTypes
<1>3. t \in Transcript /\ t[1] \in SleepSession
    BY <1>2 DEF Job, Transcript
<1> DEFINE waits == [cycle[j] EXCEPT !.now = {}, !.listed = {}]
           r == IF cycle[j].pc = "saved" THEN NoJob ELSE waits
<1>4. waits \in Job
    BY <1>2 DEF Job
<1>5. waits.now = {} /\ waits.listed = {} /\ waits.tails = cycle[j].tails /\ waits.pc = cycle[j].pc
    BY <1>2 DEF Job
<1>6. KeepJob(j, r)
    BY DEF ScheduledReset
<1> HIDE DEF waits
<1>7. JobOK(waits)
    BY <1>2, <1>5 DEF JobOK
<1>8. /\ r \in Job /\ JobOK(r) /\ r.now = {} /\ r.pc # "saved"
      /\ r.tails = cycle[j].tails \/ cycle[j].pc = "saved"
    BY <1>2, <1>4, <1>5, <1>7, NoJobIsJob DEF NoJob
<1>9. cycle[j] # NoJob
    BY <1>2 DEF NoJob
<1> HIDE DEF r
<1>10. /\ cycle' \in [Cycle -> Job] /\ cycles' = cycles /\ JobsOK'
       /\ cycle'[j] = r /\ \A k \in Cycle \ {j} : cycle'[k] = cycle[k]
    BY <1>6, <1>8, <1>9, JobMoves
<1>11. talked[t[1]] => Carried(LiveOf(t[1]))
    BY <1>2 DEF SleepInv, PendingOK, Committed
<1>12. \A k \in Cycle : /\ cycle'[k].tails = cycle[k].tails \/ cycle[k].pc = "saved"
                        /\ cycle'[k].pc # "saved" \/ cycle[k].pc = "saved"
    BY <1>8, <1>10
<1>13. \A k \in Cycle : \A u \in cycle'[k].now : u \in cycle[k].now /\ cycle'[k].pc = cycle[k].pc
    BY <1>8, <1>10
<1> QED BY <1>1, <1>2, <1>3, <1>10, <1>11, <1>12, <1>13, ResetKeeps

(***************************************************************************)
(* The end of a cycle: its tails are in the record, or have an excuse, and *)
(* so has what the record held.                                            *)
(***************************************************************************)
LEMMA AfterSaveJob ==
    ASSUME SleepInv, NEW j \in Cycle, cycle[j].pc = "rank", AfterSave(j)
    PROVE  /\ cycle' \in [Cycle -> Job] /\ cycles' = cycles /\ JobsOK'
           /\ cycle'[j].now \subseteq cycle[j].now
           /\ \A k \in Cycle \ {j} : cycle'[k] = cycle[k]
<1> DEFINE waits == [cycle[j] EXCEPT !.pc = "saved"]
           r == IF cycle[j].now = {} THEN NoJob ELSE waits
<1>1. cycle[j] \in Job /\ JobOK(cycle[j])
    BY DEF SleepInv, SleepTypes, JobsOK
<1>2. waits \in Job
    BY <1>1 DEF Job
<1>3. waits.now = cycle[j].now /\ waits.listed = cycle[j].listed /\ waits.pc = "saved"
    BY <1>1 DEF Job
<1>4. KeepJob(j, r)
    BY DEF AfterSave
<1> HIDE DEF waits
<1>5. JobOK(waits)
    BY <1>1, <1>3 DEF JobOK
<1>6. r \in Job /\ JobOK(r) /\ r.now \subseteq cycle[j].now
    BY <1>2, <1>3, <1>5, NoJobIsJob DEF NoJob
<1>7. cycle[j] # NoJob
    BY DEF NoJob
<1> HIDE DEF r
<1> QED BY <1>4, <1>6, <1>7, JobMoves

LEMMA SavedKeeps ==
    ASSUME SleepInv, NEW j \in Cycle, cycle[j].pc = "rank", AfterSave(j),
           UNCHANGED <<sleepSessions, rested, owed, missed>>,
           sleepFaults' \in 0..MaxSleepFaults,
           wakeFile' \in [handoff : SUBSET Transcript, fresh : BOOLEAN],
           excuse' \subseteq Transcript \X MissCause,
           \A x \in excuse' : x[2] # "unexplained",
           \A t \in cycle[j].tails : Carried(t)',
           \A t \in wakeFile.handoff : Carried(t)',
           \A x \in excuse : x \in excuse' \/ x[1] \in cycle[j].tails
    PROVE  SleepInv'
<1>1. /\ cycle' \in [Cycle -> Job] /\ cycles' = cycles /\ JobsOK'
      /\ cycle'[j].now \subseteq cycle[j].now
      /\ \A k \in Cycle \ {j} : cycle'[k] = cycle[k]
    BY AfterSaveJob
<1>2. /\ epoch' = epoch /\ talked' = talked /\ inTurn' = inTurn /\ rested' = rested
      /\ owed' = owed /\ missed' = missed
    BY DEF sleepSessions
<1>3. SleepTypes'
    BY <1>1, <1>2 DEF SleepInv, SleepTypes
<1>4. \A t \in Transcript : Carried(t) => Carried(t)'
    <2> SUFFICES ASSUME NEW t \in Transcript, Carried(t) PROVE Carried(t)'
        OBVIOUS
    <2>1. CASE t \in wakeFile.handoff
        BY <2>1
    <2>2. CASE \E k \in Cycle : t \in cycle[k].tails /\ cycle[k].pc # "saved"
        <3>1. PICK k \in Cycle : t \in cycle[k].tails /\ cycle[k].pc # "saved"
            BY <2>2
        <3>2. CASE k = j
            BY <3>1, <3>2
        <3>3. CASE k # j
            <4>1. t \in cycle'[k].tails /\ cycle'[k].pc # "saved"
                BY <1>1, <3>1, <3>3
            <4> QED BY <4>1 DEF Carried
        <3> QED BY <3>2, <3>3
    <2>3. CASE \E why \in MissCause : <<t, why>> \in excuse
        <3>1. PICK why \in MissCause : <<t, why>> \in excuse
            BY <2>3
        <3>2. <<t, why>> \in excuse' \/ t \in cycle[j].tails
            BY <3>1
        <3> QED BY <3>2 DEF Carried
    <2> QED BY <2>1, <2>2, <2>3 DEF Carried
<1>5. \A k \in Cycle : \A t \in cycle'[k].now :
         t \in cycle[k].now /\ (cycle'[k].pc = cycle[k].pc \/ cycle[k].pc = "rank")
    BY <1>1
<1>6. PendingOK' /\ OwedOK'
    BY <1>1, <1>2, <1>4, <1>5, QuietStep
<1>7. ExcuseOK'
    BY <1>2 DEF SleepInv, ExcuseOK
<1> QED BY <1>1, <1>3, <1>6, <1>7 DEF SleepInv

LEMMA SaveCycleKeeps == ASSUME SleepInv, NEW j \in Cycle, SaveCycle(j) PROVE SleepInv'
<1> DEFINE tails == cycle[j].tails
           replaced == (wakeFile.handoff \ tails) \X {"overwritten"}
<1>1. /\ cycle[j].pc = "rank" /\ AfterSave(j)
      /\ wakeFile' = [handoff |-> tails, fresh |-> TRUE]
      /\ excuse' = {x \in excuse : x[1] \notin tails} \cup replaced
      /\ UNCHANGED <<sleepSessions, rested, owed, missed>> /\ sleepFaults' = sleepFaults
    BY DEF SaveCycle
<1>2. /\ tails \subseteq Transcript /\ wakeFile.handoff \subseteq Transcript
      /\ excuse \subseteq Transcript \X MissCause /\ sleepFaults \in 0..MaxSleepFaults
    BY DEF SleepInv, SleepTypes, Job
<1> HIDE DEF tails
<1>3. wakeFile' \in [handoff : SUBSET Transcript, fresh : BOOLEAN] /\ wakeFile'.handoff = tails
    BY <1>1, <1>2
<1>4. replaced \subseteq Transcript \X MissCause /\ \A x \in replaced : x[2] = "overwritten"
    BY <1>2 DEF MissCause
<1>5. excuse' \subseteq Transcript \X MissCause
    BY <1>1, <1>2, <1>4
<1>6. \A x \in excuse' : x[2] # "unexplained"
    BY <1>1, <1>4 DEF SleepInv, ExcuseOK
<1>7. \A t \in tails : Carried(t)'
    BY <1>3 DEF Carried
<1>8. ASSUME NEW t \in wakeFile.handoff PROVE Carried(t)'
    <2>1. CASE t \in tails
        BY <1>7, <2>1
    <2>2. CASE t \notin tails
        <3>1. <<t, "overwritten">> \in excuse' /\ "overwritten" \in MissCause
            BY <1>1, <2>2 DEF MissCause
        <3> QED BY <3>1 DEF Carried
    <2> QED BY <2>1, <2>2
<1>9. \A x \in excuse : x \in excuse' \/ x[1] \in tails
    BY <1>1
<1> QED BY <1>1, <1>2, <1>3, <1>5, <1>6, <1>7, <1>8, <1>9, SavedKeeps DEF tails

LEMMA SaveCycleFailsKeeps == ASSUME SleepInv, NEW j \in Cycle, SaveCycleFails(j) PROVE SleepInv'
<1> DEFINE tails == cycle[j].tails
<1>1. /\ cycle[j].pc = "rank" /\ AfterSave(j) /\ excuse' = excuse \cup (tails \X {"lost"})
      /\ UNCHANGED <<sleepSessions, rested, owed, missed>> /\ wakeFile' = wakeFile
    BY DEF SaveCycleFails, ExcuseTails
<1>2. /\ tails \subseteq Transcript /\ wakeFile \in [handoff : SUBSET Transcript, fresh : BOOLEAN]
      /\ excuse \subseteq Transcript \X MissCause
    BY DEF SleepInv, SleepTypes, Job
<1>3. sleepFaults' \in 0..MaxSleepFaults
    BY FaultsTyped DEF SaveCycleFails
<1> HIDE DEF tails
<1>4. "lost" \in MissCause
    BY DEF MissCause
<1>5. excuse' \subseteq Transcript \X MissCause /\ \A x \in excuse' : x[2] # "unexplained"
    BY <1>1, <1>2, <1>4 DEF SleepInv, ExcuseOK
<1>6. ASSUME NEW t \in tails PROVE Carried(t)'
    <2>1. <<t, "lost">> \in excuse'
        BY <1>1
    <2> QED BY <1>4, <2>1 DEF Carried
<1>7. \A t \in wakeFile.handoff : Carried(t)'
    BY <1>1 DEF Carried
<1> QED BY <1>1, <1>2, <1>3, <1>5, <1>6, <1>7, SavedKeeps DEF tails

LEMMA SleepCrashKeeps == ASSUME SleepInv, SleepCrash PROVE SleepInv'
<1> DEFINE lostTails == UNION {cycle[j].tails : j \in {k \in Cycle : cycle[k].pc # "saved"}}
<1>1. /\ cycle' = [j \in Cycle |-> NoJob] /\ inTurn' = [s \in SleepSession |-> FALSE]
      /\ rested' = {} /\ excuse' = excuse \cup (lostTails \X {"lost"})
      /\ cycles' = cycles /\ epoch' = epoch /\ talked' = talked /\ wakeFile' = wakeFile
      /\ owed' = owed /\ missed' = missed
    BY DEF SleepCrash, ExcuseTails
<1>2. \A j \in Cycle : cycle[j] \in Job
    BY DEF SleepInv, SleepTypes
<1>3. lostTails \subseteq Transcript
    BY <1>2 DEF Job
<1>4. excuse \subseteq Transcript \X MissCause /\ "lost" \in MissCause
    BY DEF SleepInv, SleepTypes, MissCause
<1>5. \A j \in Cycle : cycle[j].pc # "saved" => cycle[j].tails \subseteq lostTails
    OBVIOUS
<1> HIDE DEF lostTails
<1>6. excuse' \subseteq Transcript \X MissCause /\ \A x \in excuse' : x[2] # "unexplained"
    BY <1>1, <1>3, <1>4 DEF SleepInv, ExcuseOK
<1>7. cycle' \in [Cycle -> Job] /\ \A j \in Cycle : cycle'[j] = NoJob /\ cycle'[j].now = {}
    BY <1>1, NoJobIsJob DEF NoJob
<1>8. SleepTypes'
    BY <1>1, <1>6, <1>7, FaultsTyped DEF SleepInv, SleepTypes, SleepCrash
<1>9. JobsOK'
    BY <1>7, NoJobIsJob DEF JobsOK, JobOK
<1>10. \A t \in Transcript : Carried(t) => Carried(t)'
    <2> SUFFICES ASSUME NEW t \in Transcript, Carried(t) PROVE Carried(t)'
        OBVIOUS
    <2>1. CASE t \in wakeFile.handoff
        BY <1>1, <2>1 DEF Carried
    <2>2. CASE \E k \in Cycle : t \in cycle[k].tails /\ cycle[k].pc # "saved"
        <3>1. t \in lostTails
            BY <1>5, <2>2
        <3>2. <<t, "lost">> \in excuse'
            BY <1>1, <3>1
        <3> QED BY <1>4, <3>2 DEF Carried
    <2>3. CASE \E why \in MissCause : <<t, why>> \in excuse
        BY <1>1, <2>3 DEF Carried
    <2> QED BY <2>1, <2>2, <2>3 DEF Carried
<1>11. PendingOK' /\ OwedOK'
    BY <1>1, <1>7, <1>10, QuietStep
<1>12. ExcuseOK'
    BY <1>1, <1>6 DEF SleepInv, ExcuseOK
<1> QED BY <1>8, <1>9, <1>11, <1>12 DEF SleepInv

(***************************************************************************)
(* A turn begins.  It may talk where a cycle found nothing to read.        *)
(***************************************************************************)
LEMMA TurnBeginsKeeps == ASSUME SleepInv, NEW s \in SleepSession, TurnBegins(s) PROVE SleepInv'
<1> DEFINE debt == <<s, owed[s]>>
           why == {x[2] : x \in {y \in excuse : y[1] = debt}}
                    \cup (IF OnItsWay(s) THEN {"early"} ELSE {})
                    \cup (IF debt \in wakeFile.handoff THEN {"old"} ELSE {})
           raced == IF ReadBefore(s) THEN {<<LiveOf(s), "raced">>} ELSE {}
<1>1. /\ ~Resetting(s) /\ inTurn' = [inTurn EXCEPT ![s] = TRUE]
      /\ talked' = [talked EXCEPT ![s] = TRUE]
      /\ missed' = (IF owed[s] < 0 \/ debt \in HandoffShown THEN {}
                    ELSE IF why = {} THEN {"unexplained"} ELSE why)
      /\ owed' = [owed EXCEPT ![s] = -1]
      /\ excuse' = {x \in excuse : x[1][1] # s \/ x[1][2] >= epoch[s]} \cup raced
      /\ cycles' = cycles /\ epoch' = epoch /\ rested' = rested /\ cycle' = cycle
      /\ wakeFile' = wakeFile /\ sleepFaults' = sleepFaults
    BY DEF TurnBegins, LiveOf
<1>2. SleepTypes
    BY DEF SleepInv
<1>3. LiveOf(s) \in Transcript /\ LiveOf(s) = <<s, epoch[s]>>
    BY <1>2 DEF SleepTypes, LiveOf, Transcript
<1>4. raced \subseteq Transcript \X MissCause /\ \A x \in raced : x[2] = "raced"
    BY <1>3 DEF MissCause
<1>5. why \subseteq MissCause \ {"unexplained"}
    <2>1. \A x \in excuse : x[2] \in MissCause \ {"unexplained"}
        BY <1>2 DEF SleepTypes, SleepInv, ExcuseOK
    <2>2. "early" \in MissCause \ {"unexplained"} /\ "old" \in MissCause \ {"unexplained"}
        BY DEF MissCause
    <2> QED BY <2>1, <2>2
\* What is owed is carried, which is a reason if it is not shown.
<1>6. owed[s] >= 0 => debt \in HandoffShown \/ why # {}
    <2> SUFFICES ASSUME owed[s] >= 0, debt \notin HandoffShown PROVE why # {}
        OBVIOUS
    <2>1. Carried(debt)
        BY DEF SleepInv, OwedOK
    <2>2. CASE debt \in wakeFile.handoff
        BY <2>2
    <2>3. CASE \E j \in Cycle : debt \in cycle[j].tails /\ cycle[j].pc # "saved"
        BY <2>3 DEF OnItsWay
    <2>4. CASE \E c \in MissCause : <<debt, c>> \in excuse
        <3>1. PICK c \in MissCause : <<debt, c>> \in excuse
            BY <2>4
        <3>2. c \in why
            BY <3>1
        <3> QED BY <3>2
    <2> QED BY <2>1, <2>2, <2>3, <2>4 DEF Carried
<1>7. owed[s] < 0 \/ owed[s] >= 0
    BY <1>2, SleepAssumption DEF SleepTypes
<1> HIDE DEF debt, why, raced
<1>8. missed' \subseteq MissCause /\ "unexplained" \notin missed'
    <2>1. CASE owed[s] < 0 \/ debt \in HandoffShown
        BY <1>1, <2>1
    <2>2. CASE ~(owed[s] < 0 \/ debt \in HandoffShown)
        BY <1>1, <1>5, <1>6, <1>7, <2>2
    <2> QED BY <2>1, <2>2
<1>9. /\ excuse' \subseteq Transcript \X MissCause
      /\ \A x \in excuse' : x \in excuse \/ x[2] = "raced"
    BY <1>1, <1>2, <1>4 DEF SleepTypes
<1>10. /\ inTurn' \in [SleepSession -> BOOLEAN] /\ talked' \in [SleepSession -> BOOLEAN]
       /\ \A v \in SleepSession \ {s} : talked'[v] = talked[v]
    BY <1>1, <1>2 DEF SleepTypes
<1>11. /\ owed' \in [SleepSession -> -1..MaxEpoch] /\ owed'[s] = -1
       /\ \A v \in SleepSession \ {s} : owed'[v] = owed[v]
    BY <1>1, <1>2, SleepAssumption DEF SleepTypes
<1>12. SleepTypes'
    BY <1>1, <1>2, <1>8, <1>9, <1>10, <1>11 DEF SleepTypes
<1>13. JobsOK'
    BY <1>1 DEF SleepInv, JobsOK
<1>14. ExcuseOK'
    BY <1>8, <1>9 DEF SleepInv, ExcuseOK
\* Excuses of the past of s are forgotten, and no other.
<1>15. ASSUME NEW t \in Transcript, t[1] # s \/ t[2] >= epoch[s], Carried(t) PROVE Carried(t)'
    <2>1. CASE t \in wakeFile.handoff
        BY <1>1, <2>1 DEF Carried
    <2>2. CASE \E j \in Cycle : t \in cycle[j].tails /\ cycle[j].pc # "saved"
        BY <1>1, <2>2 DEF Carried
    <2>3. CASE \E c \in MissCause : <<t, c>> \in excuse
        <3>1. PICK c \in MissCause : <<t, c>> \in excuse
            BY <2>3
        <3>2. <<t, c>> \in excuse'
            BY <1>1, <1>15, <3>1
        <3> QED BY <3>2 DEF Carried
    <2> QED BY <1>15, <2>1, <2>2, <2>3 DEF Carried
<1>16. ASSUME NEW v \in SleepSession, owed'[v] >= 0 PROVE Carried(<<v, owed[v]>>)'
    <2>1. v # s
        BY <1>11, <1>16
    <2>2. owed'[v] \in 0..MaxEpoch /\ owed'[v] = owed[v]
        BY <1>11, <1>16, <2>1, SleepAssumption
    <2>3. PICK w \in Transcript : w = <<v, owed'[v]>>
        BY <2>2 DEF Transcript
    <2>4. Carried(w)
        BY <2>2, <2>3 DEF SleepInv, OwedOK
    <2>5. w[1] # s
        BY <2>1, <2>3
    <2>6. Carried(w)'
        BY <1>15, <2>4, <2>5
    <2> QED BY <2>3, <2>6
<1>17. OwedOK'
    BY <1>16 DEF OwedOK
<1>18. ASSUME NEW k \in Cycle, NEW t \in cycle'[k].now, talked'[t[1]], Committed(k, t)'
       PROVE  Carried(LiveOf(t[1]))'
    <2>1. t \in cycle[k].now /\ Committed(k, t)
        BY <1>1, <1>18 DEF Committed, LiveOf
    <2>2. t \in Transcript /\ t[1] \in SleepSession
        BY <1>2, <2>1 DEF SleepTypes, Job, Transcript
    <2>3. PICK w \in Transcript : w = LiveOf(t[1])
        BY <1>2, <2>2 DEF SleepTypes, LiveOf, Transcript
    <2>4. LiveOf(t[1])' = w
        BY <1>1, <2>3 DEF LiveOf
    <2>5. CASE t[1] # s
        <3>1. talked[t[1]]
            BY <1>10, <1>18, <2>2, <2>5
        <3>2. Carried(w)
            BY <2>1, <2>3, <3>1 DEF SleepInv, PendingOK
        <3>3. w[1] # s
            BY <2>3, <2>5 DEF LiveOf
        <3>4. Carried(w)'
            BY <1>15, <3>2, <3>3
        <3> QED BY <2>4, <3>4
    <2>6. CASE t[1] = s
        <3>1. cycle[k].pc \notin {"rank", "saved"}
            BY <1>1, <2>1, <2>6 DEF Resetting
        <3>2. cycle[k].pc = "reset" /\ t = LiveOf(s) /\ w = t
            BY <2>1, <2>3, <2>6, <3>1 DEF Committed
        <3>3. CASE t \in cycle[k].tails
            <4>1. Carried(w)'
                BY <1>1, <3>2, <3>3 DEF Carried
            <4> QED BY <2>4, <4>1
        <3>4. CASE t \notin cycle[k].tails
            <4>1. ReadBefore(s)
                BY <2>1, <3>2, <3>4 DEF ReadBefore, LiveOf
            <4>2. <<w, "raced">> \in excuse' /\ "raced" \in MissCause
                BY <1>1, <3>2, <4>1 DEF raced, MissCause
            <4>3. Carried(w)'
                BY <4>2 DEF Carried
            <4> QED BY <2>4, <4>3
        <3> QED BY <3>3, <3>4
    <2> QED BY <2>5, <2>6
<1>19. PendingOK'
    BY <1>18 DEF PendingOK
<1> QED BY <1>12, <1>13, <1>14, <1>17, <1>19 DEF SleepInv

LEMMA SleepStep == SleepInv /\ [SleepNext]_sleepVars => SleepInv'
<1> SUFFICES ASSUME SleepInv, [SleepNext]_sleepVars PROVE SleepInv'
    OBVIOUS
<1>1. CASE TimePasses \/ RecordAges
    BY <1>1, TimeKeeps
<1>2. ASSUME NEW s \in SleepSession, TurnBegins(s) PROVE SleepInv'
    BY <1>2, TurnBeginsKeeps
<1>3. ASSUME NEW s \in SleepSession, BeforeReset(s) PROVE SleepInv'
    BY <1>3, BeforeResetKeeps
<1>4. ASSUME NEW s \in SleepSession, NEW over \in BOOLEAN, TurnEnds(s, over) PROVE SleepInv'
    BY <1>4, TurnEndsKeeps
<1>5. CASE SleepDeep
    BY <1>5, SleepDeepKeeps
<1>6. ASSUME NEW j \in Cycle, ListTargets(j) PROVE SleepInv'
    BY <1>6, ListTargetsKeeps
<1>7. ASSUME NEW j \in Cycle, ListTargetsFails(j) PROVE SleepInv'
    BY <1>7, ListTargetsFailsKeeps
<1>8. ASSUME NEW j \in Cycle, AskReset(j) PROVE SleepInv'
    BY <1>8, AskResetKeeps
<1>9. ASSUME NEW j \in Cycle, ResetDone(j) PROVE SleepInv'
    BY <1>9, ResetDoneKeeps
<1>10. ASSUME NEW j \in Cycle, ResetFails(j) PROVE SleepInv'
    BY <1>10, ResetFailsKeeps
<1>11. ASSUME NEW j \in Cycle, ScheduledReset(j) PROVE SleepInv'
    BY <1>11, ScheduledResetKeeps
<1>12. ASSUME NEW j \in Cycle, SaveCycle(j) PROVE SleepInv'
    BY <1>12, SaveCycleKeeps
<1>13. ASSUME NEW j \in Cycle, SaveCycleFails(j) PROVE SleepInv'
    BY <1>13, SaveCycleFailsKeeps
<1>14. CASE SleepCrash
    BY <1>14, SleepCrashKeeps
<1>15. CASE UNCHANGED sleepVars
    <2>1. /\ epoch' = epoch /\ talked' = talked /\ inTurn' = inTurn /\ owed' = owed
          /\ excuse' = excuse /\ missed' = missed /\ cycle' = cycle /\ cycles' = cycles
          /\ sleepFaults' = sleepFaults /\ rested' = rested /\ wakeFile' = wakeFile
        BY <1>15 DEF sleepVars, sleepSessions, sleepGhosts
    <2>2. SleepTypes' /\ JobsOK' /\ ExcuseOK' /\ cycle' \in [Cycle -> Job]
        BY <2>1 DEF SleepInv, SleepTypes, JobsOK, ExcuseOK
    <2>3. \A t \in Transcript : Carried(t) => Carried(t)'
        BY <2>1, CarriedKept
    <2>4. PendingOK' /\ OwedOK'
        BY <2>1, <2>2, <2>3, QuietStep
    <2> QED BY <2>2, <2>4 DEF SleepInv
<1> QED BY <1>1, <1>2, <1>3, <1>4, <1>5, <1>6, <1>7, <1>8, <1>9, <1>10, <1>11, <1>12, <1>13,
           <1>14, <1>15 DEF SleepNext

\* The sessions, cycles and the record keep their types.
THEOREM SleepTypeCorrect == SleepSpec => []SleepTypeOK
<1>1. SleepInv => SleepTypeOK
    <2> SUFFICES ASSUME SleepInv PROVE SleepTypeOK
        OBVIOUS
    <2>1. \A j \in Cycle : cycle[j] \in Job /\ JobOK(cycle[j])
        BY DEF SleepInv, SleepTypes, JobsOK
    <2>2. \A j \in Cycle :
             /\ cycle[j].pc \in {"off", "list", "reset", "rank", "saved"}
             /\ cycle[j].want \subseteq SleepSession /\ cycle[j].listed \subseteq Transcript
             /\ cycle[j].now \subseteq cycle[j].listed /\ cycle[j].tails \subseteq Transcript
        BY <2>1 DEF Job, JobOK
    <2> QED BY <2>2 DEF SleepInv, SleepTypes, SleepTypeOK
<1> QED BY <1>1, SleepStart, SleepStep, PTL DEF SleepSpec

\* runDeepSleep and the supplement: for any sessions, cycles and crashes, a first turn after
\* a reset that is not told where its conversation left off has one of the named causes.
THEOREM NothingElseLoses == SleepSpec => []HandoffMissesExplained
<1>1. SleepInv => HandoffMissesExplained
    BY DEF SleepInv, ExcuseOK, HandoffMissesExplained
<1> QED BY <1>1, SleepStart, SleepStep, PTL DEF SleepSpec

(***************************************************************************)
(* The components side by side                                             *)
(***************************************************************************)
\* Seen from a component, what the six do together is what it does alone.
LEMMA ComponentsAlone ==
    ComponentsSpec => /\ Spec /\ VetSpec /\ SleepSpec
                      /\ SkillSpec /\ ReviewSpec /\ GateSpec
<1>1. ComponentsInit => Init /\ VetInit /\ SleepInit /\ SkillInit /\ ReviewInit /\ GateInit
    BY DEF ComponentsInit
<1>2. [ComponentsNext]_componentsVars => /\ [Next]_vars /\ [VetNext]_vetVars /\ [SleepNext]_sleepVars
                                         /\ [SkillNext]_skillVars /\ [ReviewNext]_reviewVars
                                         /\ [GateNext]_gateVars
    BY DEF ComponentsNext, componentsVars
<1> QED BY <1>1, <1>2, PTL
        DEF ComponentsSpec, Spec, VetSpec, SleepSpec, SkillSpec, ReviewSpec, GateSpec

\* The archive, the vetter, the sleep cycle, the audit, the reviewer and the gate keep their
\* types together.
THEOREM ComponentsTypeCorrect == ComponentsSpec => []ComponentsTypeOK
<1> DEFINE Focus == focus \in {"archive", "vet", "sleep", "skill", "review", "gate"}
<1>1. ComponentsInit => Focus
    BY DEF ComponentsInit
<1>2. Focus /\ [ComponentsNext]_componentsVars => Focus'
    BY DEF ComponentsNext, Moves, componentsVars
<1>3. Focus /\ ArchiveTypeOK /\ VetTypeOK /\ SleepTypeOK /\ SkillTypeOK /\ ReviewTypeOK /\ GateTypeOK
         => ComponentsTypeOK
    BY DEF ComponentsTypeOK
<1> HIDE DEF Focus
<1>4. ComponentsSpec => []Focus
    BY <1>1, <1>2, PTL DEF ComponentsSpec
<1> QED BY <1>3, <1>4, ComponentsAlone, ArchiveTypeCorrect, VetTypeCorrect, SleepTypeCorrect,
           SkillTypeCorrect, ReviewTypeCorrect, GateTypeCorrect, PTL
=============================================================================
