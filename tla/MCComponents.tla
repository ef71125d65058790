----------------------------- MODULE MCComponents -----------------------------
(***************************************************************************)
(* Six components that share no state, each on a small instance.  They do  *)
(* not interact, so that their interleavings show nothing: "focus", chosen *)
(* at the start, is the component that moves, while the others stay at one *)
(* initial state, and the states of the instances add up.                  *)
(***************************************************************************)
EXTENDS MailArchive, VetLoop, SleepCycle, SkillAudit, Reviewer, ApprovalGate, TLC

CONSTANTS h1, h2, b1, b2, s1, s2, r1, r2, k1, k2, v1, v2, m1, m2

VARIABLE focus

\* The archive: all the mail is of the first month; two more months go by.
MCMonthOf == [m \in Msg |-> 1]

\* claw-vet: a role file of before the wizard, one locked, one with a host of its own.
MCRoleFiles == {[locked |-> TRUE, exclude |-> {}, own |-> {}],
                [locked |-> FALSE, exclude |-> {}, own |-> {h1}]}

\* oasis-reviewer: calls that meet each rule, and each pair of rules that could mask
\* one another; a strict and a lax configuration.
Exec(facts) == [kind |-> "exec", targets |-> <<facts>>]
MCToolCall ==
    {Exec({}), Exec({"destructive", "compound"}), Exec({"selfRuntime"}),
     Exec({"denyExtra", "escalateExtra", "inert", "substitution"}),
     Exec({"escalateExtra", "consentExtra"}), Exec({"downloadExec"}),
     [kind |-> "cron", targets |-> <<{"mutation"}>>],
     [kind |-> "write", targets |-> <<{}, {"gitignored"}>>],
     [kind |-> "write", targets |-> <<{"escalateRoot"}, {"controlPlane"}>>],
     [kind |-> "write", targets |-> <<{"outOfScope"}>>],
     [kind |-> "read", targets |-> <<{"secret"}>>], [kind |-> "other", targets |-> <<>>]}
Config(mode, l2, mandatory, destructive) ==
    [mode |-> mode, l2Mode |-> l2, mandatory |-> mandatory, constitution |-> TRUE,
     l2All |-> FALSE, destructive |-> destructive, substitution |-> "escalate",
     compound |-> "allow", gitignored |-> "escalate"]
Lax == Config("shadow", "off", FALSE, "deny")
MCConfig == {Config("enforce", "enforce", TRUE, "deny"),
             Config("enforce", "shadow", FALSE, "allow"), Lax}

\* approval-gate: a request for each way through checkApiApproval.
Ask(id, host, method) == [id |-> id, host |-> host, method |-> method, path |-> "/p"]
MCRequest == {Ask("a1", "api", "POST"), Ask("a2", "web", "DELETE"), Ask("a3", "evil", "GET"),
              Ask("a4", "web", "GET"), Ask("a5", "api", "GET")}
MCPolicy ==
    [denied |-> {"evil"},
     services |-> <<[hosts |-> {"api"}, methods |-> {"GET"}, mutationApproval |-> TRUE]>>,
     allowlist |-> <<[host |-> "web", methods |-> {"POST"}, paths |-> {"/p"}]>>,
     approvalMethods |-> {"POST", "DELETE"}, default |-> "allow"]

ComponentsTypeOK ==
    /\ focus \in {"archive", "vet", "sleep", "skill", "review", "gate"}
    /\ ArchiveTypeOK /\ VetTypeOK /\ SleepTypeOK /\ SkillTypeOK /\ ReviewTypeOK /\ GateTypeOK

\* A component that is not looked at starts in one of its initial states only.
ComponentsInit ==
    /\ focus \in {"archive", "vet", "sleep", "skill", "review", "gate"}
    /\ Init
    /\ VetInit /\ (focus # "vet" => partitioned)
    /\ SleepInit /\ SkillInit /\ GateInit
    /\ ReviewInit /\ (focus # "review" => cfg = Lax)

Moves(name) == focus = name /\ UNCHANGED focus

ComponentsNext ==
    \/ Moves("archive") /\ Next /\ UNCHANGED <<vetVars, sleepVars, skillVars, reviewVars, gateVars>>
    \/ Moves("vet") /\ VetNext /\ UNCHANGED <<vars, sleepVars, skillVars, reviewVars, gateVars>>
    \/ Moves("sleep") /\ SleepNext /\ UNCHANGED <<vars, vetVars, skillVars, reviewVars, gateVars>>
    \/ Moves("skill") /\ SkillNext /\ UNCHANGED <<vars, vetVars, sleepVars, reviewVars, gateVars>>
    \/ Moves("review") /\ ReviewNext /\ UNCHANGED <<vars, vetVars, sleepVars, skillVars, gateVars>>
    \/ Moves("gate") /\ GateNext /\ UNCHANGED <<vars, vetVars, sleepVars, skillVars, reviewVars>>

componentsVars == <<focus, vars, vetVars, sleepVars, skillVars, reviewVars, gateVars>>
ComponentsSpec == ComponentsInit /\ [][ComponentsNext]_componentsVars
=============================================================================
