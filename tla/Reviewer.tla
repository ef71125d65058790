------------------------------- MODULE Reviewer -------------------------------
(***************************************************************************)
(* The oasis-reviewer extension: the before_tool_call hook that allows,    *)
(* denies or escalates each tool call of a bot.  Layer 1 (evaluateHard) is *)
(* a list of rules, the first that applies decides.  Layer 2 is a model    *)
(* that judges the call against a constitution and is shown what the       *)
(* operator asked for in the run, which the llm_input hook keeps in a      *)
(* table of bounded size.  Calls of several runs are judged at once.       *)
(*                                                                         *)
(* A tool call is a kind and, for every command or path of it, the set of  *)
(* facts the rules ask about; the regular expressions and the path tests   *)
(* that establish these facts are not modelled.                            *)
(***************************************************************************)
EXTENDS Integers, Sequences, SequencesExt

CONSTANTS
    ReviewRun,      \* turns of the bot
    UnattendedRun,  \* those that cron or a webhook started
    ToolCall,       \* [kind: "cron", "exec", "write", "read", "web" or "other",
                    \*  targets: Seq(SUBSET facts)]
    ReviewConfig,   \* [mode, l2Mode, mandatory, constitution, l2All,
                    \*  destructive, substitution, compound, gitignored]
    RequestCap,     \* REQUEST_CACHE_MAX
    InflightCap,    \* L2_MAX_INFLIGHT
    NoAnswer,
    MaxPrompts,     \* bound: llm_input events of a run
    MaxCalls        \* bound: tool calls

VARIABLES
    cfg,            \* the configuration, read at register
    requestByRun,   \* the table, oldest run first: <<[run, prompt]>>
    prompts,        \* how many prompts a run has had
    judgingCalls,   \* the calls layer 2 is asked about (enforce)
    l2InFlight,     \* judgments under way that only log (shadow)
    last,           \* the call that was decided last, and how (history)
    evictedRuns,    \* runs that were dropped from the table (history)
    calls

reviewVars == <<cfg, requestByRun, prompts, judgingCalls, l2InFlight, last, evictedRuns, calls>>

Verdict == {"allow", "escalate", "deny"}

\* RequestCap is 64; the rules that a configuration may set are set to verdicts.
ASSUME ReviewAssumption ==
    /\ RequestCap \in Nat \ {0} /\ InflightCap \in Nat
    /\ MaxPrompts \in Nat /\ MaxCalls \in Nat
    /\ NoAnswer \notin Verdict
    /\ \A c \in ReviewConfig :
           {c.destructive, c.substitution, c.compound, c.gitignored} \subseteq Verdict
    /\ \A t \in ToolCall : DOMAIN t.targets \subseteq Nat

Prompt == {"none", "ask", "later"}      \* none, the first of the run, a later one
Decided(v, p) == [verdict |-> v, principle |-> p]
DefaultAllow == Decided("allow", "default-allow")

(***************************************************************************)
(* Layer 1: evaluateHard                                                   *)
(***************************************************************************)
Rule(applies, v, p) == [applies |-> applies, decision |-> Decided(v, p)]

Hits(rules) == {k \in DOMAIN rules : rules[k].applies}

\* The bot's own patterns are not tried on a pipeline of read-only tools.
ExecRules(f) ==
    <<Rule("destructive" \in f /\ cfg.destructive # "allow", cfg.destructive, "destructive-exec"),
      Rule("downloadExec" \in f, "deny", "download-execute"),
      Rule("denyExtra" \in f /\ "inert" \notin f, "deny", "bot-forbidden-action"),
      Rule("selfRuntime" \in f, "escalate", "self-runtime"),
      Rule("consentExtra" \in f /\ "inert" \notin f, "escalate", "operator-consent-required"),
      Rule("escalateExtra" \in f /\ "inert" \notin f, "escalate", "operator-consent-action"),
      Rule("substitution" \in f, cfg.substitution, "command-substitution"),
      Rule("compound" \in f, cfg.compound, "compound-exec")>>

WriteRules(f) ==
    <<Rule("controlPlane" \in f, "deny", "deny-write-control-plane"),
      Rule("outOfScope" \in f, "deny", "write-out-of-scope"),
      Rule("escalateRoot" \in f, "escalate", "escalate-write-root"),
      Rule("gitignored" \in f, cfg.gitignored, "gitignored-write")>>

ReadRules(f) == <<Rule("secret" \in f, "deny", "deny-read-secret")>>
CronRules(f) == <<Rule("mutation" \in f, "escalate", "cron-mutation")>>

RulesOf(kind, f) ==
    CASE kind = "cron" -> CronRules(f) [] kind = "exec" -> ExecRules(f)
      [] kind = "write" -> WriteRules(f) [] kind = "read" -> ReadRules(f)
      [] OTHER -> <<>>

\* The paths of a call are tried one after the other, and on each the rules.
EvaluateHard(t) ==
    LET rules(i) == RulesOf(t.kind, t.targets[i])
        stopped == {i \in DOMAIN t.targets : Hits(rules(i)) # {}}
    IN IF stopped = {} THEN DefaultAllow
       ELSE LET first == rules(Min(stopped)) IN first[Min(Hits(first))].decision

\* Escalations that an unattended run never turns into an allow, and those that
\* the operator's own request can satisfy.
NEVER_DOWNGRADE == {"self-runtime", "cron-mutation", "operator-consent-required"}
CONSENT_SATISFIABLE == {"cron-mutation"}

(***************************************************************************)
(* Layer 2 and the verdict                                                 *)
(***************************************************************************)
Strictness == [v \in Verdict |-> CASE v = "allow" -> 0 [] v = "escalate" -> 1 [] v = "deny" -> 2]

TightenOnly(l1, answer) ==
    IF Strictness[answer] <= Strictness[l1.verdict] THEN l1 ELSE Decided(answer, "constitution")

\* Which calls are judged at all.
L2Eligible(t, l1) ==
    /\ cfg.l2Mode # "off" /\ cfg.constitution
    /\ l1.verdict = "allow" \/ cfg.mandatory
    /\ cfg.l2All \/ cfg.mandatory \/ t.kind \in {"exec", "write", "web"}

\* Faulty variant: without an answer the verdict of the rules stands, for any bot
ReviewMutFailOpen(l1, request, answer) ==
    IF answer = NoAnswer THEN l1 ELSE TightenOnly(l1, answer)

\* The verdict of both layers: no answer is a timeout, a failed call or text that
\* is no verdict.
Combined(l1, request, answer) ==
    IF /\ l1.verdict = "escalate" /\ l1.principle \in CONSENT_SATISFIABLE
       /\ request # "none" /\ answer = "allow"
    THEN Decided("allow", "operator-consent")
    ELSE IF answer # NoAnswer THEN TightenOnly(l1, answer)
    ELSE IF cfg.mandatory THEN Decided("deny", "unavailable-fail-closed")
    ELSE l1

\* An unattended run has nobody to ask.
Unattended(d, run) ==
    IF run \notin UnattendedRun \/ d.verdict # "escalate" THEN d
    ELSE IF d.principle \in NEVER_DOWNGRADE THEN Decided("deny", d.principle)
    ELSE Decided("allow", "unattended-downgrade")

\* What the hook returns: in shadow mode always nothing, which lets the call run.
Conclude(c, answer, d) ==
    last' = [run |-> c.run, l1 |-> c.l1, request |-> c.request, answer |-> answer,
             judged |-> c.judged,
             outcome |-> IF cfg.mode = "enforce" THEN Unattended(d, c.run).verdict ELSE "allow"]

ReviewTypeOK ==
    /\ cfg \in ReviewConfig
    /\ \A i \in DOMAIN requestByRun :
          requestByRun[i].run \in ReviewRun /\ requestByRun[i].prompt \in Prompt \ {"none"}
    /\ Len(requestByRun) <= RequestCap /\ prompts \in [ReviewRun -> 0..MaxPrompts]
    /\ \A c \in judgingCalls : c.run \in ReviewRun /\ c.l1.verdict \in Verdict
    /\ l2InFlight \in 0..InflightCap /\ evictedRuns \subseteq ReviewRun
    /\ last.outcome \in Verdict \cup {"none"} /\ calls \in 0..MaxCalls

NothingYet == [run |-> NoAnswer, l1 |-> DefaultAllow, request |-> "none", answer |-> NoAnswer,
               judged |-> FALSE, outcome |-> "none"]

ReviewInit ==
    /\ cfg \in ReviewConfig /\ requestByRun = <<>> /\ prompts = [r \in ReviewRun |-> 0]
    /\ judgingCalls = {} /\ l2InFlight = 0 /\ last = NothingYet /\ evictedRuns = {} /\ calls = 0

(***************************************************************************)
(* The hooks                                                               *)
(***************************************************************************)
\* A run has one entry at most.
RequestOf(r) ==
    LET mine == {i \in DOMAIN requestByRun : requestByRun[i].run = r}
    IN IF mine = {} THEN "none" ELSE requestByRun[CHOOSE i \in mine : TRUE].prompt

\* Faulty variant: a later prompt of the run replaces its first one
ReviewMutRemember(r, prompt) ==
    LET others == SelectSeq(requestByRun, LAMBDA e : e.run # r)
        full == Len(others) >= RequestCap
    IN /\ requestByRun' = Append(IF full THEN Tail(others) ELSE others, [run |-> r, prompt |-> prompt])
       /\ evictedRuns' = IF full THEN evictedRuns \cup {Head(others).run} ELSE evictedRuns

\* rememberRequest: the first prompt of a run is kept; at the cap the run that
\* was entered first is dropped, whether it is over or not.
RememberRequest(r, prompt) ==
    IF RequestOf(r) # "none" THEN UNCHANGED <<requestByRun, evictedRuns>>
    ELSE LET full == Len(requestByRun) >= RequestCap
         IN /\ requestByRun' = Append(IF full THEN Tail(requestByRun) ELSE requestByRun,
                                      [run |-> r, prompt |-> prompt])
            /\ evictedRuns' = IF full THEN evictedRuns \cup {Head(requestByRun).run}
                              ELSE evictedRuns

\* llm_input: every step of the run, not only its first, comes here.
LlmInput(r) ==
    /\ prompts[r] < MaxPrompts /\ prompts' = [prompts EXCEPT ![r] = @ + 1]
    /\ RememberRequest(r, IF prompts[r] = 0 THEN "ask" ELSE "later")
    /\ UNCHANGED <<cfg, judgingCalls, l2InFlight, last, calls>>

\* before_tool_call, up to its end or to the model's answer it awaits; in shadow
\* the judgment goes on by itself, if not too many do.
BeforeToolCall(r, t) ==
    LET l1 == EvaluateHard(t)
        eligible == L2Eligible(t, l1)
        c == [run |-> r, l1 |-> l1, request |-> RequestOf(r), judged |-> eligible]
    IN /\ calls < MaxCalls /\ calls' = calls + 1 /\ prompts[r] > 0
       /\ IF eligible /\ cfg.l2Mode = "enforce"
          THEN c \notin judgingCalls /\ judgingCalls' = judgingCalls \cup {c} /\ UNCHANGED <<l2InFlight, last>>
          ELSE /\ Conclude(c, NoAnswer, l1)
               /\ l2InFlight' = IF eligible /\ cfg.l2Mode = "shadow" /\ l2InFlight < InflightCap
                                THEN l2InFlight + 1 ELSE l2InFlight
               /\ UNCHANGED judgingCalls
       /\ UNCHANGED <<cfg, requestByRun, prompts, evictedRuns>>

Judged(c, answer) ==
    /\ judgingCalls' = judgingCalls \ {c}
    /\ Conclude(c, answer, Combined(c.l1, c.request, answer))
    /\ UNCHANGED <<cfg, requestByRun, prompts, l2InFlight, evictedRuns, calls>>

\* Something in the hook throws: an enforcing bot's call is denied.
HookThrows(c) ==
    /\ judgingCalls' = judgingCalls \ {c} /\ Conclude(c, NoAnswer, Decided("deny", "internal-error"))
    /\ UNCHANGED <<cfg, requestByRun, prompts, l2InFlight, evictedRuns, calls>>

ShadowJudged ==
    /\ l2InFlight > 0 /\ l2InFlight' = l2InFlight - 1
    /\ UNCHANGED <<cfg, requestByRun, prompts, judgingCalls, last, evictedRuns, calls>>

ReviewNext ==
    \/ \E r \in ReviewRun : LlmInput(r)
    \/ \E r \in ReviewRun, t \in ToolCall : BeforeToolCall(r, t)
    \/ \E c \in judgingCalls, answer \in Verdict \cup {NoAnswer} : Judged(c, answer)
    \/ \E c \in judgingCalls : HookThrows(c)
    \/ ShadowJudged

ReviewSpec == ReviewInit /\ [][ReviewNext]_reviewVars

(***************************************************************************)
(* Properties                                                              *)
(***************************************************************************)
\* An enforcing reviewer lets a call run that the rules stopped only if they asked
\* for a human and either nobody is there and the rule is not one of those that
\* fail closed, or the operator's request and the model both speak for it.  That
\* request is the first prompt of the run, unless the table had dropped the run.
LoosenedOnlyByConsent ==
    cfg.mode = "enforce" /\ last.outcome # "none"
        /\ Strictness[last.outcome] < Strictness[last.l1.verdict] =>
        /\ last.l1.verdict = "escalate"
        /\ \/ last.run \in UnattendedRun /\ last.l1.principle \notin NEVER_DOWNGRADE
           \/ /\ last.l1.principle = "cron-mutation" /\ last.answer = "allow"
              /\ \/ last.request = "ask"
                 \/ last.request = "later" /\ last.run \in evictedRuns

\* Where the constitution is mandatory and enforced, no call runs that the model
\* did not answer, or denied.
MandatoryIsJudged ==
    cfg.mode = "enforce" /\ cfg.l2Mode = "enforce" /\ cfg.mandatory /\ cfg.constitution
        /\ last.outcome \in {"allow", "escalate"} => last.answer \in {"allow", "escalate"}

\* policy.ts: "A cron job editing cron still fails closed."
CronEditFailsClosed ==
    cfg.mode = "enforce" /\ last.run \in UnattendedRun /\ last.l1.principle = "cron-mutation" =>
        last.outcome # "allow"
=============================================================================
