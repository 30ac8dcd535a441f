----------------------------- MODULE MechanicPlan -----------------------------
(***************************************************************************)
(* From a prompt to the specification a vault is built from: the plan      *)
(* (server/mechanic-spec.ts), the questions it leaves open and the         *)
(* defaults taken for the user (server/design-questions.ts), what the      *)
(* scanners then hold the source to (server/mechanic-completeness.ts) and  *)
(* the tests that are asked for (server/test-gen.ts).                      *)
(*                                                                         *)
(* A prompt is what the heuristics find in its words, an answer what the   *)
(* planner's JSON has in its fields, a source what the scanners' patterns  *)
(* find in it.  A text is empty or not.  The consent gate before the       *)
(* questions is in ChatTurns.                                              *)
(***************************************************************************)
EXTENDS Integers, Sequences, FiniteSets

CONSTANTS
    Prompts,        \* what the words of a prompt say
    Answers,        \* what the planner may answer
    NoAnswer,       \* no key, a failed call, no JSON
    Sources,        \* what the scanners may find in a source
    MaxJourneys     \* the tests asked for are cut after so many

VARIABLES
    stage,          \* of runCodegenPipeline before its first draft
    prompt, answer, \* what the plan was made of
    choice,         \* ApproximationConsent
    planned,        \* the specification as planned
    spec,           \* mechanicSpec
    decisions       \* designDecisions

vars == <<stage, prompt, answer, choice, planned, spec, decisions>>

Models == {"single_assignee", "multi_assignee", "open_pool", "unspecified",
           "not_applicable"}
Submissions == {"yes", "no", "unspecified"}
\* "other": keeper, oracle, automatic, user_self.
Authorities == {"manager", "other", "unspecified"}
\* "other": on_post, on_accept, on_settlement.
Reservations == {"on_approval", "other", "unspecified", "not_applicable"}
\* "other": refund, milestone_unlock.
Modes == {"manager_assigned_amount", "fixed_per_user", "pro_rata_snapshot",
          "winner_takes_all", "other"}
\* "per_user": reserved_on_approval, credited_before_claim,
\* calculated_from_snapshot.
Liabilities == {"per_user", "single_winner_pool", "event_only_offchain_review"}
\* claimAmountSource: empty, naming a fixed amount, any other text.
AmountSources == {"", "fixed", "text"}
FlapRules == {"001", "002", "003", "004", "005", "006", "007", "008", "009"}

\* LifecycleSpec; resource is FALSE for null.
Lifecycles ==
    [resource : BOOLEAN, model : Models, submission : Submissions,
     authority : Authorities, reservation : Reservations,
     abandon : BOOLEAN, cancel : BOOLEAN, timeout : BOOLEAN]

\* PayoutRuleSpec.
Rules == [mode : Modes, liability : Liabilities, source : AmountSources,
          winner : BOOLEAN, perUser : BOOLEAN]

\* MechanicSpec; users and managers count the actions, offchain says that a
\* trust assumption tells of reviews off chain.
Specs == [lifecycle : Lifecycles, rules : Seq(Rules), oracle : BOOLEAN,
          scheduled : BOOLEAN, flap : SUBSET FlapRules, offchain : BOOLEAN,
          users : Nat, managers : Nat]

PromptFacts ==
    [resource : BOOLEAN, single : BOOLEAN, multi : BOOLEAN,
     submits : BOOLEAN, approves : BOOLEAN, abandon : BOOLEAN,
     cancel : BOOLEAN, deadline : BOOLEAN, reserve : BOOLEAN,
     holders : BOOLEAN, anyone : BOOLEAN,
     random : BOOLEAN, votes : BOOLEAN, deposits : BOOLEAN, pays : BOOLEAN,
     scheduled : BOOLEAN, acts : Nat]

\* A field that is missing or not of its enumeration is "missing", only with
\* winnerTakesAll a value that is no boolean counts as something else; says
\* is what the text of the recipients tells, at the place in the answer, where
\* rules that name nothing are dropped only later.  Actions that are no list
\* are NoAnswer.
Said == {"true", "false", "missing"}
RawRules == [mode : Modes \union {"missing"},
             liability : Liabilities \union {"missing"},
             source : AmountSources, winner : Said \union {"invalid"},
             perUser : Said, says : {"winner", "share", "else"}, at : Nat]
RawAnswers ==
    [block : BOOLEAN, resource : BOOLEAN, model : Models \union {"missing"},
     submission : {"yes", "no", "missing"},
     authority : Authorities \union {"missing"},
     reservation : Reservations \union {"missing"},
     abandon : BOOLEAN, cancel : BOOLEAN, timeout : BOOLEAN,
     listed : BOOLEAN, rules : Seq(RawRules),
     oracle : Said, scheduled : Said, flagged : SUBSET FlapRules,
     offchain : BOOLEAN, users : Nat \union {NoAnswer},
     managers : Nat \union {NoAnswer}]

SourceFacts ==
    [accepts : BOOLEAN, exclusive : BOOLEAN, stores : BOOLEAN,
     assignee : BOOLEAN, leaves : BOOLEAN, gated : BOOLEAN,
     abandon : BOOLEAN, cancel : BOOLEAN, completes : BOOLEAN,
     unchecked : BOOLEAN, proof : BOOLEAN, clock : BOOLEAN,
     constant : BOOLEAN, drains : BOOLEAN, reserves : BOOLEAN,
     perUser : BOOLEAN, eventOnly : BOOLEAN]

ASSUME PlanAssumption ==
    /\ Prompts \subseteq PromptFacts
    /\ Answers \subseteq RawAnswers
    /\ NoAnswer \notin Answers
    /\ Sources \subseteq SourceFacts
    /\ MaxJourneys \in Nat

-----------------------------------------------------------------------------
(* mechanic-spec.ts: the heuristic plan.                                    *)

NoLifecycle ==
    [resource |-> FALSE, model |-> "unspecified", submission |-> "unspecified",
     authority |-> "unspecified", reservation |-> "unspecified",
     abandon |-> FALSE, cancel |-> FALSE, timeout |-> FALSE]

InferLifecycle(p) ==
    IF ~p.resource THEN NoLifecycle ELSE
    [resource |-> TRUE,
     model |-> IF p.single THEN "single_assignee"
               ELSE IF p.multi THEN "multi_assignee" ELSE "unspecified",
     submission |-> IF p.submits THEN "yes" ELSE "unspecified",
     authority |-> IF p.approves THEN "manager" ELSE "unspecified",
     reservation |-> IF p.reserve THEN "on_approval" ELSE "unspecified",
     abandon |-> p.abandon, cancel |-> p.cancel, timeout |-> p.deadline]

Rule(mode, liability, source, winner, perUser) ==
    [mode |-> mode, liability |-> liability, source |-> source,
     winner |-> winner, perUser |-> perUser]

InferRule(p) ==
    CASE p.random -> Rule("winner_takes_all", "single_winner_pool", "text", TRUE, FALSE)
      [] ~p.random /\ p.deposits -> Rule("pro_rata_snapshot", "per_user", "text", FALSE, TRUE)
      [] ~p.random /\ ~p.deposits ->
           Rule("manager_assigned_amount", "per_user", "text", FALSE, ~p.votes)

\* deriveRuleAnalysis: the rules that apply.
Derived(rules, oracle, scheduled) ==
    {"001", "002", "004", "005", "006", "009"}
      \union (IF rules # <<>> THEN {"003"} ELSE {})
      \union (IF oracle THEN {"007"} ELSE {})
      \union (IF scheduled THEN {"008"} ELSE {})

InferSpec(p) ==
    LET rules == IF p.pays \/ p.random THEN <<InferRule(p)>> ELSE <<>>
    IN [lifecycle |-> InferLifecycle(p), rules |-> rules,
        oracle |-> p.random, scheduled |-> p.scheduled,
        flap |-> Derived(rules, p.random, p.scheduled),
        offchain |-> FALSE, users |-> p.acts, managers |-> 1]

-----------------------------------------------------------------------------
(* mechanic-spec.ts: what is taken over of the planner's answer.            *)

Given(value, fallback) == IF value = "missing" THEN fallback ELSE value
GivenFlag(said, fallback) == IF said = "missing" THEN fallback ELSE said = "true"

NormalizeLifecycle(a, fallback) ==
    IF ~a.block \/ ~(a.resource \/ fallback.resource) THEN fallback ELSE
    [resource |-> TRUE,
     model |-> Given(a.model, fallback.model),
     submission |-> Given(a.submission, fallback.submission),
     authority |-> Given(a.authority, fallback.authority),
     reservation |-> Given(a.reservation, fallback.reservation),
     abandon |-> a.abandon \/ fallback.abandon,
     cancel |-> a.cancel \/ fallback.cancel,
     timeout |-> a.timeout \/ fallback.timeout]

\* inferPayoutSemanticsFromText.
RuleFromText(says) ==
    CASE says = "winner" -> Rule("winner_takes_all", "single_winner_pool", "", TRUE, FALSE)
      [] says = "share" -> Rule("pro_rata_snapshot", "per_user", "", FALSE, TRUE)
      [] says = "else" -> Rule("manager_assigned_amount", "per_user", "", FALSE, TRUE)

\* Slip: a rule that says nothing pays a winner.
WinnerUnlessDenied(raw, base) == raw.winner # "false"
SaysWinner(raw, base) ==
    \/ raw.winner = "true"
    \/ raw.mode = "winner_takes_all"
    \/ raw.liability = "single_winner_pool"
    \/ /\ raw.winner # "false" /\ raw.mode = "missing"
       /\ raw.liability = "missing" /\ base.winner

NormalizePayout(raw, base) ==
    LET winner == SaysWinner(raw, base)
    IN Rule(Given(raw.mode, base.mode),
            Given(raw.liability, base.liability),
            IF raw.source = "" THEN base.source ELSE raw.source,
            winner,
            GivenFlag(raw.perUser, ~winner))

\* The fallback's rule at the same place, or what the recipients say; they do
\* not make a winner where something else was given for winnerTakesAll.
Base(rules, raw) ==
    IF raw.at \in DOMAIN rules THEN rules[raw.at]
    ELSE [RuleFromText(raw.says) EXCEPT !.winner = @ /\ raw.winner = "missing"]

NormalizeRules(a, fallback) ==
    IF ~a.listed THEN fallback ELSE
    [i \in 1 .. Len(a.rules) |->
       NormalizePayout(a.rules[i], Base(fallback, a.rules[i]))]

Counted(actions, fallback) == IF actions = NoAnswer THEN fallback ELSE actions

Normalize(a, fallback) ==
    LET rules == NormalizeRules(a, fallback.rules)
        oracle == GivenFlag(a.oracle, fallback.oracle)
        scheduled == GivenFlag(a.scheduled, fallback.scheduled)
    IN [lifecycle |-> NormalizeLifecycle(a, fallback.lifecycle),
        rules |-> rules, oracle |-> oracle, scheduled |-> scheduled,
        flap |-> Derived(rules, oracle, scheduled) \union a.flagged,
        offchain |-> a.offchain, users |-> Counted(a.users, fallback.users),
        managers |-> Counted(a.managers, fallback.managers)]

PlanMechanicSpec(p, a) ==
    IF a = NoAnswer THEN InferSpec(p) ELSE Normalize(a, InferSpec(p))

-----------------------------------------------------------------------------
(* design-questions.ts                                                      *)

DecidesEligibility(p) == p.holders \/ p.anyone

PayoutAmountDecided(s) ==
    \E i \in DOMAIN s.rules :
       \/ s.rules[i].source # ""
       \/ s.rules[i].mode \in {"fixed_per_user", "manager_assigned_amount",
                               "pro_rata_snapshot"}

Assignable(s) == s.lifecycle.resource /\ s.lifecycle.model # "not_applicable"

\* generateDesignQuestions, those that hold the pipeline up.
Critical == {"assignment-model", "reward-amount", "eligibility",
             "proof-submission", "abandon-path", "cancel-path"}

Open(q, p, s) ==
    /\ Assignable(s)
    /\ CASE q = "assignment-model" -> s.lifecycle.model = "unspecified"
         [] q = "reward-amount" -> ~PayoutAmountDecided(s)
         [] q = "eligibility" -> ~DecidesEligibility(p)
         [] q = "proof-submission" -> s.lifecycle.submission = "unspecified"
         [] q = "abandon-path" -> ~s.lifecycle.abandon
         [] q = "cancel-path" -> ~s.lifecycle.cancel

OpenCritical(p, s) == {q \in Critical : Open(q, p, s)}

Else(value, open, default) == IF value \in open THEN default ELSE value

DefaultLifecycle(lc) ==
    [lc EXCEPT !.model = Else(@, {"unspecified"}, "single_assignee"),
               !.submission = Else(@, {"unspecified"}, "yes"),
               !.authority = Else(@, {"unspecified"}, "manager"),
               !.reservation = Else(@, {"unspecified", "not_applicable"},
                                    "on_approval"),
               !.abandon = TRUE, !.cancel = TRUE]

\* Slip: a rule without an amount is left to its first claimer.
WinnerRule(r) ==
    IF r.source # "" THEN r
    ELSE Rule("winner_takes_all", "single_winner_pool", "text", TRUE, FALSE)
DefaultRule(r) ==
    IF r.source # "" THEN r
    ELSE Rule("manager_assigned_amount", "per_user", "text", FALSE, TRUE)

ApplyDefaults(s) ==
    IF ~Assignable(s) THEN s ELSE
    [s EXCEPT !.lifecycle = DefaultLifecycle(@),
              !.rules = IF PayoutAmountDecided(s) THEN @
                        ELSE [i \in 1 .. Len(@) |-> DefaultRule(@[i])]]

\* The decisions recorded beside them.
Topics == Critical \union {"completion-authority", "reward-reservation", "deadline"}

\* Slip: a reservation that does not apply is not looked at.
DecidedIfUnspecified(q, p, s) ==
    /\ Assignable(s)
    /\ CASE q \in Critical \ {"eligibility"} -> Open(q, p, s)
         [] q = "eligibility" -> p.holders \/ ~DecidesEligibility(p)
         [] q = "completion-authority" -> s.lifecycle.authority = "unspecified"
         [] q = "reward-reservation" -> s.lifecycle.reservation = "unspecified"
         [] q = "deadline" -> ~s.lifecycle.timeout
Decided(q, p, s) ==
    /\ Assignable(s)
    /\ CASE q \in Critical \ {"eligibility"} -> Open(q, p, s)
         [] q = "eligibility" -> p.holders \/ ~DecidesEligibility(p)
         [] q = "completion-authority" -> s.lifecycle.authority = "unspecified"
         [] q = "reward-reservation" ->
              s.lifecycle.reservation \in {"unspecified", "not_applicable"}
         [] q = "deadline" -> ~s.lifecycle.timeout

Decisions(p, s) == {q \in Topics : Decided(q, p, s)}

-----------------------------------------------------------------------------
(* mechanic-completeness.ts: findings that depend on the specification, and *)
(* those of the lifecycle that do not.                                      *)

DeclaresWinner(s) ==
    \E i \in DOMAIN s.rules :
       \/ s.rules[i].winner
       \/ s.rules[i].mode = "winner_takes_all"
       \/ s.rules[i].liability = "single_winner_pool"

RequiresPerUser(s) == \E i \in DOMAIN s.rules : s.rules[i].perUser

DisclosesOffchain(s) ==
    \/ s.offchain
    \/ \E i \in DOMAIN s.rules :
         s.rules[i].liability = "event_only_offchain_review"

If(condition, rule) == IF condition THEN {rule} ELSE {}

\* A deactivation clears every assignment when nothing stores them.
Unclearing(src) == src.leaves /\ src.stores
Tracks(src) == src.stores \/ src.assignee

LifecycleBlocks(src, s) ==
    LET multi == s.lifecycle.model = "multi_assignee"
        stuck == Tracks(src) /\ Unclearing(src) /\ ~src.abandon
    IN IF ~src.accepts THEN {} ELSE
       If(~src.exclusive /\ (~multi \/ ~Tracks(src)),
          "single-resource-multiple-acceptance")
       \union If(~src.exclusive /\ ~multi /\ Unclearing(src) /\ Tracks(src),
                 "shared-resource-deactivated-while-users-assigned")
       \union If(stuck, "accepted-user-can-become-stuck")
       \union If(stuck /\ src.gated, "inactive-resource-blocks-user-state")
       \union If(Tracks(src) /\ ~src.abandon /\ ~src.cancel,
                 "no-abandon-or-cancel-path")
       \union If(src.unchecked, "manager-completion-without-assignee-check")
       \union If(s.lifecycle.submission = "yes" /\ src.completes /\ ~src.proof,
                 "manager-finalization-without-submission")

PayoutBlocks(src, s) ==
    IF DeclaresWinner(s) THEN {} ELSE
    If(src.drains, "first-claimer-can-drain-shared-pool")
    \union If(src.drains, "claim-amount-from-global-bucket-without-winner-semantics")
    \union If(src.drains /\ ~src.reserves, "approval-without-reserved-liability")
    \union If(RequiresPerUser(s) /\ ~src.perUser,
              "multi-user-payout-without-per-user-accounting")

\* Findings that keep a draft from passing, and those that do not.
Blocking(src, s) == LifecycleBlocks(src, s) \union PayoutBlocks(src, s)

Warnings(src, s) ==
    If(src.eventOnly /\ ~DisclosesOffchain(s),
       "event-only-user-action-without-trust-disclosure")
    \union
    IF ~src.accepts THEN {} ELSE
    If(src.completes /\ ~src.abandon /\ ~s.lifecycle.timeout /\ ~src.clock,
       "manager-finalization-without-timeout")
    \union If(src.constant /\ ~\E i \in DOMAIN s.rules :
                \/ s.rules[i].mode = "fixed_per_user"
                \/ s.rules[i].source = "fixed",
              "hardcoded-economic-constant-without-spec")
    \union If(s.lifecycle.resource /\ s.lifecycle.model = "unspecified",
              "assignment-model-missing")
    \union If(s.lifecycle.resource /\ s.rules # <<>>
                /\ \A i \in DOMAIN s.rules : s.rules[i].source = "",
              "reward-amount-not-specified")

Undecided == {"assignment-model-missing", "reward-amount-not-specified"}

-----------------------------------------------------------------------------
(* test-gen.ts: the journeys asked for.  Those of the lifecycle come after  *)
(* these; equal names count once; triggers and buckets differ by rule.      *)
(* Payouts for submitted work add up to three more, which are left out, as  *)
(* are the journeys after those of the lifecycle.                           *)

RuleJourneys(r, i) ==
    {<<"credited", i>>, <<"no double claim", i>>}
      \union (IF r.perUser /\ ~r.winner
                THEN {<<"both claim", i>>, <<"own amount", i>>,
                      <<"not another's", 0>>, <<"granting", i>>} ELSE {})

JourneysBefore(s) ==
    ({"factory", "receive", "schema", "manager gate", "emergency"} \X {0})
      \union ({"acts", "rejects"} \X (1 .. s.users))
      \union ({"manages"} \X (1 .. s.managers))
      \union ({"buckets", "overspend"} \X {0})
      \union UNION {RuleJourneys(s.rules[i], i) : i \in DOMAIN s.rules}

LifecycleJourneys(s) ==
    IF ~Assignable(s) \/ s.lifecycle.model = "open_pool" THEN <<>> ELSE
    (IF s.lifecycle.model = "multi_assignee"
       THEN <<"both accept", "completing does not block">>
       ELSE <<"one assignee">>)
    \o <<"lifecycle", "only the assignee", "abandon", "cancel", "nobody stuck">>
    \o (IF s.lifecycle.submission = "yes" THEN <<"needs submission">> ELSE <<>>)
    \o <<"visible">>

\* deduped.slice(0, 52).
LifecycleTests(s) ==
    LET all == LifecycleJourneys(s)
        room == MaxJourneys - Cardinality(JourneysBefore(s))
    IN {all[k] : k \in {j \in DOMAIN all : j =< room}}

-----------------------------------------------------------------------------
(* runCodegenPipeline up to its first draft (codegen.ts).                   *)

Choices == {"closest_draft", "spec_only"}
Stages == {"idle", "planned", "asked", "spec_only", "shown", "building"}

NoSpec == [lifecycle |-> NoLifecycle, rules |-> <<>>, oracle |-> FALSE,
           scheduled |-> FALSE, flap |-> {}, offchain |-> FALSE,
           users |-> 0, managers |-> 0]

Init ==
    /\ stage = "idle"
    /\ prompt \in Prompts /\ choice \in Choices \union {"none"}
    /\ answer = NoAnswer
    /\ planned = NoSpec /\ spec = NoSpec /\ decisions = {}

Plan(a) ==
    /\ stage = "idle"
    /\ stage' = "planned"
    /\ answer' = a
    /\ planned' = PlanMechanicSpec(prompt, a)
    /\ spec' = planned'
    /\ UNCHANGED <<prompt, choice, decisions>>

Stop(s) ==
    /\ stage = "planned"
    /\ stage' = s
    /\ UNCHANGED <<prompt, answer, choice, planned, spec, decisions>>

Ask == OpenCritical(prompt, spec) # {} /\ choice = "none" /\ Stop("asked")

KeepSpec ==
    OpenCritical(prompt, spec) # {} /\ choice = "spec_only" /\ Stop("spec_only")

BuildConservatively ==
    /\ stage = "planned"
    /\ OpenCritical(prompt, spec) # {}
    /\ choice = "closest_draft"
    /\ stage' = "building"
    /\ spec' = ApplyDefaults(spec)
    /\ decisions' = Decisions(prompt, spec)
    /\ UNCHANGED <<prompt, answer, choice, planned>>

\* The plan is shown to who has not chosen yet.
Proceed ==
    /\ OpenCritical(prompt, spec) = {}
    /\ Stop(IF choice = "none" THEN "shown" ELSE "building")

\* The approved plan seeds the next run.
Approve ==
    /\ stage = "shown"
    /\ stage' = "building"
    /\ UNCHANGED <<prompt, answer, choice, planned, spec, decisions>>

Next ==
    \/ \E a \in Answers \union {NoAnswer} : Plan(a)
    \/ Ask \/ KeepSpec \/ BuildConservatively \/ Proceed \/ Approve

Spec == Init /\ [][Next]_vars

-----------------------------------------------------------------------------
(* Properties *)

\* "none of them weakens a launch gate - the lifecycle scanners still verify
\* the generated code independently" (design-questions.ts): whatever source
\* the scanners would block under the plan, they block under its defaults, and
\* no warning goes away but that something was not decided.
DefaultsWeakenNoGate ==
    stage = "building" =>
      \A src \in Sources :
        /\ Blocking(src, planned) \subseteq Blocking(src, spec)
        /\ Warnings(src, planned) \subseteq Warnings(src, spec) \union Undecided

\* "silent risky defaults are impossible" (design-questions.ts): what is built
\* has no critical question open that is not recorded as decided for the user,
\* and every field that was decided for the user is recorded.
NothingIsSilent ==
    stage = "building" =>
      /\ OpenCritical(prompt, spec) \subseteq decisions
      /\ LET old == planned.lifecycle
             new == spec.lifecycle
         IN /\ new.model # old.model => "assignment-model" \in decisions
            /\ new.submission # old.submission => "proof-submission" \in decisions
            /\ new.authority # old.authority => "completion-authority" \in decisions
            /\ new.reservation # old.reservation => "reward-reservation" \in decisions
            /\ new.abandon # old.abandon => "abandon-path" \in decisions
            /\ new.cancel # old.cancel => "cancel-path" \in decisions
            /\ spec.rules # planned.rules => "reward-amount" \in decisions

\* "silence must never imply pay the first claimant everything"
\* (mechanic-spec.ts): unless the prompt or the planner speaks of a winner, a
\* source whose first claimer can drain a shared pool is blocked, through
\* inference, normalization, defaults and scan.
SpeaksOfWinner(raw) ==
    \/ raw.winner = "true" \/ raw.mode = "winner_takes_all"
    \/ raw.liability = "single_winner_pool" \/ raw.says = "winner"
WinnerIsMentioned ==
    \/ prompt.random
    \/ answer # NoAnswer /\ \E i \in DOMAIN answer.rules : SpeaksOfWinner(answer.rules[i])
DrainIsBlocked ==
    stage = "building" /\ ~WinnerIsMentioned =>
      \A src \in Sources :
        src.drains => "first-claimer-can-drain-shared-pool" \in Blocking(src, spec)

\* "an always-applies or structure-implied rule cannot be switched off by the
\* LLM" (mechanic-spec.ts): the rules of what is built cover its structure,
\* the defaults included.
RulesCoverStructure ==
    stage = "building" =>
      Derived(spec.rules, spec.oracle, spec.scheduled) \subseteq spec.flap

\* "explicit flags win" (mechanic-spec.ts): a planner that says of each payout
\* that it is not winner-takes-all, and nothing else, has drains blocked.
ExplicitNoIsHeard ==
    /\ stage = "building" /\ answer # NoAnswer
    /\ answer.listed
    /\ \A i \in DOMAIN answer.rules :
         /\ answer.rules[i].winner = "false"
         /\ answer.rules[i].mode = "missing"
         /\ answer.rules[i].liability = "missing"
    => \A src \in Sources :
         src.drains => "first-claimer-can-drain-shared-pool" \in Blocking(src, spec)

\* "defaults for every unresolved lifecycle decision" (design-questions.ts):
\* what the plan had resolved stays.
ResolvedStays ==
    stage = "building" =>
      /\ planned.lifecycle.reservation # "unspecified" =>
           spec.lifecycle.reservation = planned.lifecycle.reservation
      /\ \A i \in DOMAIN planned.rules :
           planned.rules[i].winner => spec.rules[i].winner

\* "any mechanic with a discrete assignable resource must PROVE that no
\* accepted user can become stuck" (test-gen.ts): the test is asked for.
StuckIsTested ==
    stage = "building" /\ LifecycleJourneys(spec) # <<>> =>
      "nobody stuck" \in LifecycleTests(spec)

=============================================================================
