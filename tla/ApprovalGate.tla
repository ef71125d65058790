----------------------------- MODULE ApprovalGate -----------------------------
(***************************************************************************)
(* The approval-gate extension: requests that wait for a human.  An HTTP   *)
(* request is checked against the policy and, if that says so, announced   *)
(* by Telegram; a CAPTCHA always is.  The request is put into the table of *)
(* the pending ones only when the announcement was sent, and leaves it by  *)
(* a reply that names it or by its timer, whichever comes first.  Replies  *)
(* may come as soon as the operator can read the announcement.             *)
(* Nothing in this repository calls checkApiApproval or the reply handlers:*)
(* index.ts exports them for openclaw's core.  The model assumes a caller  *)
(* that hands them every message the operator sends.                       *)
(***************************************************************************)
EXTENDS Integers, FiniteSetsExt

CONSTANTS
    ApiRequest,     \* requests of an agent's tools: [id, host, method, path]
    CaptchaId,      \* ids of CAPTCHA requests
    YesIds,         \* the ids that happen to have "yes" among their characters
    ApiPolicy,      \* [denied, services, allowlist, approvalMethods, default]
    MaxReplies      \* bound: messages of the operator

ASSUME GateAssumption == MaxReplies \in Nat

VARIABLES
    stage,          \* of a request: "new", "sending", "pending", "over"
    outcome,        \* what its caller was told
    readable,       \* the announcements the operator has received
    taken,          \* the replies the plugin took: <<id, words>> (history)
    gateReplies

gateVars == <<stage, outcome, readable, taken, gateReplies>>

ApiId == {q.id : q \in ApiRequest}
GateId == ApiId \cup CaptchaId
Words == {"approve", "deny", "solution", "skip", ""}

GateTypeOK ==
    /\ stage \in [GateId -> {"new", "sending", "pending", "over"}]
    /\ outcome \in [GateId -> {"none", "allowed", "approved", "denied", "timeout", "failed",
                               "solution", "skip"}]
    /\ readable \subseteq GateId /\ taken \subseteq GateId \X Words
    /\ gateReplies \in 0..MaxReplies

GateInit ==
    /\ stage = [i \in GateId |-> "new"] /\ outcome = [i \in GateId |-> "none"]
    /\ readable = {} /\ taken = {} /\ gateReplies = 0

Over(i, o) == stage' = [stage EXCEPT ![i] = "over"] /\ outcome' = [outcome EXCEPT ![i] = o]

(***************************************************************************)
(* checkApiApproval: the denylist, the services, the allowlist, the        *)
(* methods that need approval, the default; the first that applies.        *)
(***************************************************************************)
\* A service that neither lists the method nor asks for approval is passed over.
ServiceRule(s, q) ==
    IF q.host \notin s.hosts THEN "none"
    ELSE IF q.method \in s.methods THEN "allowed"
    ELSE IF s.mutationApproval THEN "ask" ELSE "none"

AllowRule(a, q) == q.host = a.host /\ q.method \in a.methods /\ q.path \in a.paths

CheckApiApproval(q) ==
    LET rule(k) == ServiceRule(ApiPolicy.services[k], q)
        services == {k \in DOMAIN ApiPolicy.services : rule(k) # "none"}
    IN  IF q.host \in ApiPolicy.denied THEN "denied"
        ELSE IF services # {} THEN rule(Min(services))
        ELSE IF \E k \in DOMAIN ApiPolicy.allowlist : AllowRule(ApiPolicy.allowlist[k], q)
        THEN "allowed"
        ELSE IF q.method \in ApiPolicy.approvalMethods \/ ApiPolicy.default = "deny"
        THEN "ask" ELSE "allowed"

(***************************************************************************)
(* The life of a request                                                   *)
(***************************************************************************)
AskApi(q) ==
    /\ stage[q.id] = "new"
    /\ LET d == CheckApiApproval(q)
       IN IF d = "ask" THEN stage' = [stage EXCEPT ![q.id] = "sending"] /\ UNCHANGED outcome
          ELSE Over(q.id, d)
    /\ UNCHANGED <<readable, taken, gateReplies>>

AskCaptcha(i) ==
    /\ stage[i] = "new" /\ stage' = [stage EXCEPT ![i] = "sending"]
    /\ UNCHANGED <<outcome, readable, taken, gateReplies>>

\* Telegram shows the announcement, which its sender does not know yet.
Shown(i) ==
    /\ stage[i] = "sending" /\ i \notin readable /\ readable' = readable \cup {i}
    /\ UNCHANGED <<stage, outcome, taken, gateReplies>>

\* The send returns: the request is pending and its timer runs.
SendReturns(i) ==
    /\ stage[i] = "sending" /\ i \in readable
    /\ stage' = [stage EXCEPT ![i] = "pending"]
    /\ UNCHANGED <<outcome, readable, taken, gateReplies>>

\* A failed send, for a CAPTCHA that of its photo and of the text alone, is the
\* caller's error.
SendFails(i) ==
    /\ stage[i] = "sending" /\ Over(i, "failed") /\ UNCHANGED <<readable, taken, gateReplies>>

TimesOut(i) ==
    /\ stage[i] = "pending" /\ Over(i, IF i \in ApiId THEN "denied" ELSE "timeout")
    /\ UNCHANGED <<readable, taken, gateReplies>>

\* What a reply means to the code: it looks for "approve" or "yes" anywhere in
\* the message, the id included; an empty solution counts as none.
Meaning(i, words) ==
    IF i \in ApiId THEN IF words = "approve" \/ i \in YesIds THEN "approved" ELSE "denied"
    ELSE CASE words = "" -> "timeout" [] words = "skip" -> "skip" [] OTHER -> "solution"

\* Faulty variant: a reply is matched with any request that waits
GateMutReply(i, words) ==
    /\ gateReplies < MaxReplies /\ gateReplies' = gateReplies + 1 /\ i \in readable
    /\ \E k \in GateId : stage[k] = "pending"
    /\ LET k == CHOOSE k \in GateId : stage[k] = "pending"
       IN Over(k, Meaning(i, words)) /\ taken' = taken \cup {<<i, words>>}
    /\ UNCHANGED readable

\* The operator answers, by the request's id; the plugin takes the message only if
\* that request is pending, and otherwise leaves it to the agent as a normal one.
Reply(i, words) ==
    /\ gateReplies < MaxReplies /\ gateReplies' = gateReplies + 1 /\ i \in readable
    /\ IF stage[i] = "pending"
       THEN Over(i, Meaning(i, words)) /\ taken' = taken \cup {<<i, words>>}
       ELSE UNCHANGED <<stage, outcome, taken>>
    /\ UNCHANGED readable

GateNext ==
    \/ \E q \in ApiRequest : AskApi(q)
    \/ \E i \in CaptchaId : AskCaptcha(i)
    \/ \E i \in GateId : Shown(i) \/ SendReturns(i) \/ SendFails(i) \/ TimesOut(i)
    \/ \E i \in GateId, words \in Words : Reply(i, words)

GateSpec == GateInit /\ [][GateNext]_gateVars

\* A request is approved, solved or skipped only by a reply that named it, and every
\* reply that was taken decided the request it named; approved by something else
\* than the word only if the letters of its id say yes.
ResolvedByItsReply ==
    /\ \A i \in GateId : outcome[i] \in {"approved", "solution", "skip"} =>
          \E words \in Words : <<i, words>> \in taken /\ outcome[i] = Meaning(i, words)
    /\ \A t \in taken : stage[t[1]] = "over" /\ outcome[t[1]] = Meaning(t[1], t[2])
    /\ \A i \in ApiId \ YesIds : outcome[i] = "approved" => <<i, "approve">> \in taken
=============================================================================
