-------------------------- MODULE GenerationProofs --------------------------
(***************************************************************************)
(* What a generation builds from, and the files it builds with.            *)
(*                                                                         *)
(* The specification, for all prompts, answers of the planner, sources and *)
(* numbers of payouts: the steps of the pipeline are few, and PlanInv says *)
(* that what is built is the plan with no question open, or the plan with  *)
(* the defaults and their decisions.  The rest is lemmas on the operators: *)
(* plans have their type, defaults change of a plan only what they may, no *)
(* winner comes of a prompt and an answer that name none.                  *)
(*                                                                         *)
(* The files, for all sets of runs and names and any number of drafts and  *)
(* deaths: a step of a run is its own (Works) but for the sources it may   *)
(* clear, so a run that has its name to itself finds what it left there.   *)
(***************************************************************************)
EXTENDS MechanicPlan, SharedWorkspace, TLAPS

(* The specification of a vault                                            *)

Built ==
    \/ spec = planned /\ OpenCritical(prompt, spec) = {}
    \/ /\ Assignable(planned)
       /\ spec = ApplyDefaults(planned)
       /\ decisions = Decisions(prompt, planned)

PlanInv ==
    /\ stage \in Stages
    /\ prompt \in Prompts
    /\ answer \in Answers \union {NoAnswer}
    /\ stage # "idle" => planned = PlanMechanicSpec(prompt, answer)
    /\ stage \in {"planned", "shown"} => spec = planned
    /\ stage = "shown" => OpenCritical(prompt, spec) = {}
    /\ stage = "building" => Built

\* A question is open only where there is a resource to assign.
LEMMA OpenNeedsResource ==
    ASSUME NEW p, NEW s, OpenCritical(p, s) # {}
    PROVE  Assignable(s)
BY DEF OpenCritical, Open

\* What is built comes of the plan in one of two ways.
THEOREM PlanIsBuilt == Spec => []PlanInv
<1>1. Init => PlanInv
  BY DEF Init, PlanInv, Stages
<1>2. PlanInv /\ [Next]_vars => PlanInv'
  <2> SUFFICES ASSUME PlanInv, [Next]_vars PROVE PlanInv'
    OBVIOUS
  <2>1. ASSUME NEW a \in Answers \union {NoAnswer}, Plan(a) PROVE PlanInv'
    BY <2>1 DEF Plan, PlanInv, Stages
  <2>2. CASE Ask
    BY <2>2 DEF Ask, Stop, PlanInv, Stages
  <2>3. CASE KeepSpec
    BY <2>3 DEF KeepSpec, Stop, PlanInv, Stages
  <2>4. CASE BuildConservatively
    <3>1. Assignable(planned)
      BY <2>4, OpenNeedsResource DEF BuildConservatively, PlanInv
    <3> QED
      BY <2>4, <3>1 DEF BuildConservatively, PlanInv, Built, Stages
  <2>5. CASE Proceed
    BY <2>5 DEF Proceed, Stop, PlanInv, Built, Stages
  <2>6. CASE Approve
    BY <2>6 DEF Approve, PlanInv, Built, Stages
  <2>7. CASE UNCHANGED vars
    BY <2>7 DEF vars, PlanInv, Built
  <2> QED
    BY <2>1, <2>2, <2>3, <2>4, <2>5, <2>6, <2>7 DEF Next
<1> QED
  BY <1>1, <1>2, PTL DEF Spec

-----------------------------------------------------------------------------
(* Plans have their type.                                                   *)

\* inferPayoutRules, one rule.
LEMMA InferRuleTyped ==
    ASSUME NEW p \in PromptFacts
    PROVE  InferRule(p) \in Rules
BY DEF PromptFacts, InferRule, Rule, Rules, Modes, Liabilities, AmountSources

\* The lifecycle the heuristics infer.
LEMMA InferLifecycleTyped ==
    ASSUME NEW p \in PromptFacts
    PROVE  InferLifecycle(p) \in Lifecycles
BY DEF PromptFacts, InferLifecycle, NoLifecycle, Lifecycles, Models,
       Submissions, Authorities, Reservations

\* The rules of Flap that follow from a structure.
LEMMA DerivedTyped ==
    ASSUME NEW rules, NEW oracle, NEW scheduled
    PROVE  Derived(rules, oracle, scheduled) \in SUBSET FlapRules
BY DEF Derived, FlapRules

\* The heuristic plan is a specification.
LEMMA InferTyped ==
    ASSUME NEW p \in PromptFacts
    PROVE  InferSpec(p) \in Specs
<1> DEFINE rules == IF p.pays \/ p.random THEN <<InferRule(p)>> ELSE <<>>
<1>1. rules \in Seq(Rules)
  BY InferRuleTyped
<1>2. InferLifecycle(p) \in Lifecycles
  BY InferLifecycleTyped
<1>3. Derived(rules, p.random, p.scheduled) \in SUBSET FlapRules
  BY DerivedTyped
<1>4. p.random \in BOOLEAN /\ p.scheduled \in BOOLEAN /\ p.acts \in Nat
  BY DEF PromptFacts
<1> HIDE DEF rules
<1>5. InferSpec(p) =
        [lifecycle |-> InferLifecycle(p), rules |-> rules,
         oracle |-> p.random, scheduled |-> p.scheduled,
         flap |-> Derived(rules, p.random, p.scheduled),
         offchain |-> FALSE, users |-> p.acts, managers |-> 1]
  BY Zenon DEF InferSpec, rules
<1> QED
  BY <1>1, <1>2, <1>3, <1>4, <1>5 DEF Specs

\* A rule taken from the words of an answer.
LEMMA RuleFromTextTyped ==
    ASSUME NEW says \in {"winner", "share", "else"}
    PROVE  RuleFromText(says) \in Rules
BY DEF RuleFromText, Rule, Rules, Modes, Liabilities, AmountSources

\* A payout rule normalized against its base.
LEMMA PayoutTyped ==
    ASSUME NEW raw \in RawRules, NEW base \in Rules
    PROVE  NormalizePayout(raw, base) \in Rules
<1>1. SaysWinner(raw, base) \in BOOLEAN
  BY DEF SaysWinner, Rules
<1>2. Given(raw.mode, base.mode) \in Modes
  BY DEF Given, RawRules, Rules
<1>3. Given(raw.liability, base.liability) \in Liabilities
  BY DEF Given, RawRules, Rules
<1>4. (IF raw.source = "" THEN base.source ELSE raw.source) \in AmountSources
  BY DEF RawRules, Rules
<1>5. GivenFlag(raw.perUser, ~SaysWinner(raw, base)) \in BOOLEAN
  BY <1>1 DEF GivenFlag
<1> QED
  BY <1>1, <1>2, <1>3, <1>4, <1>5 DEF NormalizePayout, Rule, Rules

\* The rule an answer's rule is normalized against.
LEMMA BaseTyped ==
    ASSUME NEW rules \in Seq(Rules), NEW raw \in RawRules
    PROVE  Base(rules, raw) \in Rules
<1>1. raw.says \in {"winner", "share", "else"}
  BY DEF RawRules
<1>2. raw.at \in DOMAIN rules => rules[raw.at] \in Rules
  OBVIOUS
<1>3. RuleFromText(raw.says) \in Rules BY <1>1, RuleFromTextTyped
<1>4. ASSUME NEW r \in Rules, NEW w \in BOOLEAN
      PROVE  [r EXCEPT !.winner = w] \in Rules
  BY DEF Rules
<1>5. (RuleFromText(raw.says).winner /\ raw.winner = "missing") \in BOOLEAN
  BY <1>3 DEF Rules
<1> QED
  BY <1>2, <1>3, <1>4, <1>5 DEF Base

\* The payout rules of an answer, normalized.
LEMMA RulesTyped ==
    ASSUME NEW a \in RawAnswers, NEW rules \in Seq(Rules)
    PROVE  NormalizeRules(a, rules) \in Seq(Rules)
<1>1. a.rules \in Seq(RawRules)
  BY DEF RawAnswers
<1>2. ASSUME NEW i \in 1 .. Len(a.rules)
      PROVE  NormalizePayout(a.rules[i], Base(rules, a.rules[i])) \in Rules
  BY <1>1, BaseTyped, PayoutTyped
<1> QED
  BY <1>1, <1>2 DEF NormalizeRules

\* The lifecycle of an answer, normalized.
LEMMA LifecycleTyped ==
    ASSUME NEW a \in RawAnswers, NEW lc \in Lifecycles
    PROVE  NormalizeLifecycle(a, lc) \in Lifecycles
BY DEF RawAnswers, Lifecycles, NormalizeLifecycle, Given, Submissions

\* Whatever the planner answers, normalization gives a specification.
LEMMA NormalizeTyped ==
    ASSUME NEW a \in RawAnswers, NEW s \in Specs
    PROVE  Normalize(a, s) \in Specs
<1> DEFINE rules == NormalizeRules(a, s.rules)
           oracle == GivenFlag(a.oracle, s.oracle)
           scheduled == GivenFlag(a.scheduled, s.scheduled)
<1>1. rules \in Seq(Rules)
  BY RulesTyped DEF Specs
<1>2. NormalizeLifecycle(a, s.lifecycle) \in Lifecycles
  BY LifecycleTyped DEF Specs
<1>3. oracle \in BOOLEAN /\ scheduled \in BOOLEAN
  BY DEF GivenFlag, Specs
<1>4. Derived(rules, oracle, scheduled) \union a.flagged \in SUBSET FlapRules
  BY DerivedTyped DEF RawAnswers
<1>5. /\ a.offchain \in BOOLEAN
      /\ Counted(a.users, s.users) \in Nat /\ Counted(a.managers, s.managers) \in Nat
  BY DEF RawAnswers, Specs, Counted
<1> HIDE DEF rules, oracle, scheduled
<1>6. Normalize(a, s) =
        [lifecycle |-> NormalizeLifecycle(a, s.lifecycle),
         rules |-> rules, oracle |-> oracle, scheduled |-> scheduled,
         flap |-> Derived(rules, oracle, scheduled) \union a.flagged,
         offchain |-> a.offchain, users |-> Counted(a.users, s.users),
         managers |-> Counted(a.managers, s.managers)]
  BY Zenon DEF Normalize, rules, oracle, scheduled
<1> QED
  BY <1>1, <1>2, <1>3, <1>4, <1>5, <1>6 DEF Specs

\* planMechanicSpec gives a specification, with an answer or without.
LEMMA PlanTyped ==
    ASSUME NEW p \in Prompts, NEW a \in Answers \union {NoAnswer}
    PROVE  PlanMechanicSpec(p, a) \in Specs
BY PlanAssumption, InferTyped, NormalizeTyped DEF PlanMechanicSpec

-----------------------------------------------------------------------------
(* What the defaults change.                                                *)

\* What the defaults make of a lifecycle, field by field.
LEMMA LifecycleDefaults ==
    ASSUME NEW lc \in Lifecycles
    PROVE  LET d == DefaultLifecycle(lc) IN
           /\ d.resource = lc.resource /\ d.timeout = lc.timeout
           /\ d.abandon /\ d.cancel
           /\ d.model = IF lc.model = "unspecified" THEN "single_assignee" ELSE lc.model
           /\ d.submission = IF lc.submission = "unspecified" THEN "yes" ELSE lc.submission
           /\ d.authority = IF lc.authority = "unspecified" THEN "manager" ELSE lc.authority
           /\ d.reservation = IF lc.reservation \in {"unspecified", "not_applicable"}
                                THEN "on_approval" ELSE lc.reservation
BY DEF DefaultLifecycle, Else, Lifecycles

\* What the defaults make of a specification: the lifecycle, and payout
\* amounts nobody decided.
LEMMA Defaults ==
    ASSUME NEW s \in Specs, Assignable(s)
    PROVE  LET d == ApplyDefaults(s) IN
           /\ d.lifecycle = DefaultLifecycle(s.lifecycle)
           /\ d.flap = s.flap /\ d.oracle = s.oracle /\ d.scheduled = s.scheduled
           /\ d.offchain = s.offchain
           /\ PayoutAmountDecided(s) => d.rules = s.rules
           /\ DOMAIN d.rules = DOMAIN s.rules
           /\ \A i \in DOMAIN s.rules :
                \/ d.rules[i] = s.rules[i]
                \/ d.rules[i] = Rule("manager_assigned_amount", "per_user", "text",
                                     FALSE, TRUE)
<1>1. s.rules \in Seq(Rules)
  BY DEF Specs
<1> DEFINE rules == IF PayoutAmountDecided(s) THEN s.rules
                    ELSE [i \in 1 .. Len(s.rules) |-> DefaultRule(s.rules[i])]
<1>2. ApplyDefaults(s) = [s EXCEPT !.lifecycle = DefaultLifecycle(s.lifecycle),
                                   !.rules = rules]
  BY DEF ApplyDefaults
<1>3. /\ PayoutAmountDecided(s) => rules = s.rules
      /\ DOMAIN rules = DOMAIN s.rules
      /\ \A i \in DOMAIN s.rules :
           \/ rules[i] = s.rules[i]
           \/ rules[i] = Rule("manager_assigned_amount", "per_user", "text", FALSE, TRUE)
  <2>1. DOMAIN s.rules = 1 .. Len(s.rules)
    BY <1>1
  <2>2. CASE PayoutAmountDecided(s)
    BY <2>2
  <2>3. CASE ~PayoutAmountDecided(s)
    <3>1. rules = [i \in 1 .. Len(s.rules) |-> DefaultRule(s.rules[i])]
      BY <2>3
    <3>2. ASSUME NEW i \in DOMAIN s.rules
          PROVE  rules[i] = DefaultRule(s.rules[i])
      BY <2>1, <3>1
    <3> QED
      BY <2>1, <2>3, <3>1, <3>2 DEF DefaultRule
  <2> QED
    BY <2>2, <2>3
<1> HIDE DEF rules
<1>4. LET d == ApplyDefaults(s) IN
        /\ d.lifecycle = DefaultLifecycle(s.lifecycle) /\ d.rules = rules
        /\ d.flap = s.flap /\ d.oracle = s.oracle /\ d.scheduled = s.scheduled
           /\ d.offchain = s.offchain
  BY <1>2 DEF Specs
<1> QED
  BY <1>3, <1>4

\* Payouts with the defaults are never more of a winner, nor less per user.
LEMMA DefaultsKeepShares ==
    ASSUME NEW s \in Specs, Assignable(s)
    PROVE  /\ DeclaresWinner(ApplyDefaults(s)) => DeclaresWinner(s)
           /\ RequiresPerUser(s) => RequiresPerUser(ApplyDefaults(s))
BY Defaults DEF DeclaresWinner, RequiresPerUser, Rule

\* A finding that blocks before the defaults blocks after them.
LEMMA DefaultsKeepBlocks ==
    ASSUME NEW s \in Specs, Assignable(s), NEW text
    PROVE  Blocking(text, s) \subseteq Blocking(text, ApplyDefaults(s))
<1> DEFINE d == ApplyDefaults(s)
<1>1. /\ (s.lifecycle.model = "multi_assignee") <=> (d.lifecycle.model = "multi_assignee")
      /\ s.lifecycle.submission = "yes" => d.lifecycle.submission = "yes"
  BY Defaults, LifecycleDefaults DEF Specs
<1>2. LifecycleBlocks(text, s) \subseteq LifecycleBlocks(text, d)
  BY <1>1 DEF LifecycleBlocks, If
<1>3. PayoutBlocks(text, s) \subseteq PayoutBlocks(text, d)
  BY DefaultsKeepShares DEF PayoutBlocks, If
<1> QED
  BY <1>2, <1>3 DEF Blocking

\* The defaults take away only the warnings of what they decide.
LEMMA DefaultsKeepWarnings ==
    ASSUME NEW s \in Specs, Assignable(s), NEW text
    PROVE  Warnings(text, s) \subseteq Warnings(text, ApplyDefaults(s)) \union Undecided
<1> DEFINE d == ApplyDefaults(s)
           fixed(r) == r.mode = "fixed_per_user" \/ r.source = "fixed"
<1>1. d.lifecycle.timeout = s.lifecycle.timeout
  BY Defaults, LifecycleDefaults DEF Specs
<1>2. DisclosesOffchain(d) => DisclosesOffchain(s)
  BY Defaults DEF DisclosesOffchain, Rule
<1>3. (\E i \in DOMAIN d.rules : fixed(d.rules[i])) => \E i \in DOMAIN s.rules : fixed(s.rules[i])
  BY Defaults DEF Rule
<1> HIDE DEF d
<1> QED
  BY <1>1, <1>2, <1>3 DEF Warnings, If, Undecided, d

-----------------------------------------------------------------------------

\* What is built is a specification.
LEMMA PlannedTyped ==
    ASSUME PlanInv, stage = "building"
    PROVE  planned \in Specs
BY PlanTyped DEF PlanInv

\* "none of them weakens a launch gate" (design-questions.ts): what the
\* scanners block under the plan they block under its defaults, in any source,
\* and of their warnings only those of an open decision go away.
THEOREM PlanWeakensNoGate == Spec => []DefaultsWeakenNoGate
<1>1. PlanInv => DefaultsWeakenNoGate
  <2> SUFFICES ASSUME PlanInv, stage = "building", NEW text \in Sources
               PROVE  /\ Blocking(text, planned) \subseteq Blocking(text, spec)
                      /\ Warnings(text, planned) \subseteq Warnings(text, spec) \union Undecided
    BY DEF DefaultsWeakenNoGate
  <2> QED
    BY PlannedTyped, DefaultsKeepBlocks, DefaultsKeepWarnings DEF PlanInv, Built
<1> QED
  BY <1>1, PlanIsBuilt, PTL

\* "an always-applies or structure-implied rule cannot be switched off"
\* (mechanic-spec.ts): the rules of what is built cover its structure.
THEOREM PlanCoversStructure == Spec => []RulesCoverStructure
<1>1. ASSUME NEW p, InferSpec(p) \in Specs
      PROVE  LET s == InferSpec(p) IN Derived(s.rules, s.oracle, s.scheduled) \subseteq s.flap
  BY DEF InferSpec
<1>2. ASSUME NEW a, NEW f
      PROVE  LET s == Normalize(a, f) IN Derived(s.rules, s.oracle, s.scheduled) \subseteq s.flap
  BY DEF Normalize
<1>3. PlanInv => RulesCoverStructure
  <2> SUFFICES ASSUME PlanInv, stage = "building"
               PROVE  Derived(spec.rules, spec.oracle, spec.scheduled) \subseteq spec.flap
    BY DEF RulesCoverStructure
  <2>1. Derived(planned.rules, planned.oracle, planned.scheduled) \subseteq planned.flap
    BY <1>1, <1>2, PlannedTyped DEF PlanInv, PlanMechanicSpec
  <2>2. ASSUME Assignable(planned), spec = ApplyDefaults(planned)
        PROVE  Derived(spec.rules, spec.oracle, spec.scheduled) \subseteq spec.flap
    <3>1. planned.rules \in Seq(Rules)
      BY PlannedTyped DEF Specs
    <3>4. spec.rules # <<>> => planned.rules # <<>>
      <4>1. PayoutAmountDecided(planned) => spec.rules = planned.rules
        BY <2>2, PlannedTyped, Defaults
      <4>2. ~PayoutAmountDecided(planned) =>
              spec.rules = [i \in 1 .. Len(planned.rules) |-> DefaultRule(planned.rules[i])]
        BY <2>2, PlannedTyped DEF ApplyDefaults, Specs
      <4> QED
        BY <4>1, <4>2
    <3> QED
      BY <2>1, <2>2, <3>4, PlannedTyped, Defaults DEF Derived
  <2> QED
    BY <2>1, <2>2 DEF PlanInv, Built
<1> QED
  BY <1>3, PlanIsBuilt, PTL

\* "silence must never imply pay the first claimant everything"
\* (mechanic-spec.ts): without a winner in the prompt or in the answer, drains
\* are blocked.
THEOREM PlanBlocksDrains == Spec => []DrainIsBlocked
<1>1. ASSUME NEW p \in PromptFacts, ~p.random, NEW i \in DOMAIN InferSpec(p).rules
      PROVE  LET r == InferSpec(p).rules[i] IN
             ~r.winner /\ r.mode # "winner_takes_all" /\ r.liability # "single_winner_pool"
  BY <1>1 DEF InferSpec, InferRule, Rule, PromptFacts
<1>2. ASSUME NEW a \in RawAnswers, NEW p \in PromptFacts, ~p.random,
             \A i \in DOMAIN a.rules : ~SpeaksOfWinner(a.rules[i])
      PROVE  ~DeclaresWinner(Normalize(a, InferSpec(p)))
  <2> DEFINE f == InferSpec(p).rules
  <2>1. Normalize(a, InferSpec(p)).rules = NormalizeRules(a, f)
    BY DEF Normalize
  <2>2. CASE ~a.listed
    BY <1>1, <1>2, <2>1, <2>2 DEF NormalizeRules, DeclaresWinner
  <2>3. CASE a.listed
    <3>1. a.rules \in Seq(RawRules)
      BY DEF RawAnswers
    <3>2. f \in Seq(Rules)
      BY InferTyped DEF Specs
    <3>3. ASSUME NEW i \in DOMAIN a.rules
          PROVE  LET b == Base(f, a.rules[i]) IN
                 ~b.winner /\ b.mode # "winner_takes_all" /\ b.liability # "single_winner_pool"
      <4>1. a.rules[i].says \in {"share", "else"}
        <5>1. DOMAIN a.rules = 1 .. Len(a.rules) /\ a.rules[i] \in RawRules
          BY <3>1, <3>3
        <5> QED
          BY <1>2, <3>3, <5>1 DEF SpeaksOfWinner, RawRules
      <4> HIDE DEF f
      <4>2. CASE a.rules[i].at \in DOMAIN f
        BY <1>1, <1>2, <4>2 DEF Base, f
      <4>3. CASE a.rules[i].at \notin DOMAIN f
        BY <4>1, <4>3 DEF Base, RuleFromText, Rule
      <4> QED
        BY <4>2, <4>3
    <3>4. ASSUME NEW i \in DOMAIN a.rules
          PROVE  LET r == NormalizePayout(a.rules[i], Base(f, a.rules[i])) IN
                 ~r.winner /\ r.mode # "winner_takes_all" /\ r.liability # "single_winner_pool"
      <4> DEFINE b == Base(f, a.rules[i])
      <4>1. ~SaysWinner(a.rules[i], b)
        BY <1>2, <3>3, <3>4 DEF SaysWinner, SpeaksOfWinner
      <4>2. /\ Given(a.rules[i].mode, b.mode) # "winner_takes_all"
            /\ Given(a.rules[i].liability, b.liability) # "single_winner_pool"
        BY <1>2, <3>3, <3>4 DEF Given, SpeaksOfWinner
      <4> HIDE DEF b
      <4> QED
        BY <4>1, <4>2 DEF NormalizePayout, Rule, b
    <3>5. /\ DOMAIN NormalizeRules(a, f) = DOMAIN a.rules
          /\ \A i \in DOMAIN a.rules :
               NormalizeRules(a, f)[i] = NormalizePayout(a.rules[i], Base(f, a.rules[i]))
      BY <2>3, <3>1 DEF NormalizeRules
    <3> HIDE DEF f
    <3> QED
      BY <2>1, <3>4, <3>5 DEF DeclaresWinner
  <2> QED
    BY <2>2, <2>3
<1>3. PlanInv => DrainIsBlocked
  <2> SUFFICES ASSUME PlanInv, stage = "building", ~WinnerIsMentioned
               PROVE  \A text \in Sources :
                        text.drains => "first-claimer-can-drain-shared-pool" \in Blocking(text, spec)
    BY DEF DrainIsBlocked
  <2>1. prompt \in PromptFacts /\ ~prompt.random
    BY PlanAssumption DEF PlanInv, WinnerIsMentioned
  <2>2. CASE answer = NoAnswer
    <3>1. ~DeclaresWinner(planned)
      BY <1>1, <2>1, <2>2 DEF PlanInv, PlanMechanicSpec, DeclaresWinner
    <3> QED
      BY <3>1, PlannedTyped, DefaultsKeepShares DEF PlanInv, Built, Blocking,
         PayoutBlocks, If
  <2>3. CASE answer # NoAnswer
    <3>1. answer \in RawAnswers
      BY <2>3, PlanAssumption DEF PlanInv
    <3>2. ~DeclaresWinner(planned)
      BY <1>2, <2>1, <2>3, <3>1 DEF PlanInv, PlanMechanicSpec, WinnerIsMentioned
    <3> QED
      BY <3>2, PlannedTyped, DefaultsKeepShares DEF PlanInv, Built, Blocking,
         PayoutBlocks, If
  <2> QED
    BY <2>2, <2>3
<1> QED
  BY <1>3, PlanIsBuilt, PTL

\* "silent risky defaults are impossible" (design-questions.ts): what is open
\* or was changed in what is built is among the decisions shown to the user.
THEOREM PlanIsNotSilent == Spec => []NothingIsSilent
<1>1. ASSUME NEW p, NEW s \in Specs, Assignable(s)
      PROVE  OpenCritical(p, ApplyDefaults(s)) \subseteq Decisions(p, s)
  <2> DEFINE d == ApplyDefaults(s)
  <2>1. /\ d.lifecycle.model # "unspecified" /\ d.lifecycle.submission # "unspecified"
        /\ d.lifecycle.abandon /\ d.lifecycle.cancel
    <3>1. s.lifecycle \in Lifecycles /\ d.lifecycle = DefaultLifecycle(s.lifecycle)
      BY <1>1, Defaults DEF Specs
    <3> HIDE DEF d
    <3>2. d.lifecycle.abandon /\ d.lifecycle.cancel
      BY <3>1, LifecycleDefaults, Zenon
    <3>3. d.lifecycle.model # "unspecified" /\ d.lifecycle.submission # "unspecified"
      BY <3>1, LifecycleDefaults
    <3> QED
      BY <3>2, <3>3
  <2>2. ~PayoutAmountDecided(d) => ~PayoutAmountDecided(s)
    BY <1>1, Defaults DEF PayoutAmountDecided
  <2> HIDE DEF d
  <2>3. ASSUME NEW q \in OpenCritical(p, d)
        PROVE  q \in {"reward-amount", "eligibility"} /\ Decided(q, p, s)
    <3>1. q \in Critical /\ Open(q, p, d)
      BY DEF OpenCritical
    <3>2. q \in {"reward-amount", "eligibility"}
      BY <2>1, <3>1 DEF Open, Critical
    <3>3. CASE q = "reward-amount"
      BY <1>1, <2>2, <3>1, <3>3 DEF Open, Decided, Critical
    <3>4. CASE q = "eligibility"
      BY <1>1, <3>1, <3>4 DEF Open, Decided, Critical
    <3> QED
      BY <3>2, <3>3, <3>4
  <2> QED
    BY <2>3 DEF Decisions, Topics, Critical, d
<1>2. ASSUME NEW p, NEW s \in Specs, Assignable(s)
      PROVE  LET old == s.lifecycle
                 new == ApplyDefaults(s).lifecycle
                 dec == Decisions(p, s) IN
             /\ new.model # old.model => "assignment-model" \in dec
             /\ new.submission # old.submission => "proof-submission" \in dec
             /\ new.authority # old.authority => "completion-authority" \in dec
             /\ new.reservation # old.reservation => "reward-reservation" \in dec
             /\ new.abandon # old.abandon => "abandon-path" \in dec
             /\ new.cancel # old.cancel => "cancel-path" \in dec
             /\ ApplyDefaults(s).rules # s.rules => "reward-amount" \in dec
  <2> DEFINE d == DefaultLifecycle(s.lifecycle)
  <2>1. s.lifecycle \in Lifecycles
    BY DEF Specs
  <2>2. /\ d.model # s.lifecycle.model => s.lifecycle.model = "unspecified"
        /\ d.submission # s.lifecycle.submission => s.lifecycle.submission = "unspecified"
        /\ d.authority # s.lifecycle.authority => s.lifecycle.authority = "unspecified"
        /\ d.reservation # s.lifecycle.reservation =>
             s.lifecycle.reservation \in {"unspecified", "not_applicable"}
        /\ d.abandon # s.lifecycle.abandon => ~s.lifecycle.abandon
        /\ d.cancel # s.lifecycle.cancel => ~s.lifecycle.cancel
    BY <2>1, LifecycleDefaults DEF Lifecycles
  <2>3. ApplyDefaults(s).lifecycle = d
    BY <1>2, Defaults
  <2>4. ApplyDefaults(s).rules # s.rules => ~PayoutAmountDecided(s)
    BY <1>2, Defaults
  <2> HIDE DEF d
  <2>5. s.lifecycle.model = "unspecified" => "assignment-model" \in Decisions(p, s)
    BY <1>2 DEF Decisions, Topics, Critical, Decided, Open
  <2>6. s.lifecycle.submission = "unspecified" => "proof-submission" \in Decisions(p, s)
    BY <1>2 DEF Decisions, Topics, Critical, Decided, Open
  <2>7. s.lifecycle.authority = "unspecified" => "completion-authority" \in Decisions(p, s)
    BY <1>2 DEF Decisions, Topics, Critical, Decided
  <2>8. s.lifecycle.reservation \in {"unspecified", "not_applicable"} =>
          "reward-reservation" \in Decisions(p, s)
    BY <1>2 DEF Decisions, Topics, Critical, Decided
  <2>9. ~s.lifecycle.abandon => "abandon-path" \in Decisions(p, s)
    BY <1>2 DEF Decisions, Topics, Critical, Decided, Open
  <2>10. ~s.lifecycle.cancel => "cancel-path" \in Decisions(p, s)
    BY <1>2 DEF Decisions, Topics, Critical, Decided, Open
  <2>11. ~PayoutAmountDecided(s) => "reward-amount" \in Decisions(p, s)
    BY <1>2 DEF Decisions, Topics, Critical, Decided, Open
  <2> QED
    BY <2>2, <2>3, <2>4, <2>5, <2>6, <2>7, <2>8, <2>9, <2>10, <2>11
<1>3. PlanInv => NothingIsSilent
  <2> SUFFICES ASSUME PlanInv, stage = "building" PROVE NothingIsSilent
    BY DEF NothingIsSilent
  <2>1. CASE spec = planned /\ OpenCritical(prompt, spec) = {}
    BY <2>1 DEF NothingIsSilent
  <2>2. CASE /\ Assignable(planned)
             /\ spec = ApplyDefaults(planned)
             /\ decisions = Decisions(prompt, planned)
    BY <1>1, <1>2, <2>2, PlannedTyped DEF NothingIsSilent
  <2> QED
    BY <2>1, <2>2 DEF PlanInv, Built
<1> QED
  BY <1>3, PlanIsBuilt, PTL

-----------------------------------------------------------------------------
(* The files of a generation.                                              *)

\* Where a run has got to with its draft: the source is written, the artifact
\* built, the source read back, the artifact read back, the bytecode written
\* that its tests deploy.
Written == {"build", "building", "source", "artifact", "size", "rescue",
            "rescuing", "gate", "suite", "test"}
Compiled == Written \ {"build", "building"}
Read == Compiled \ {"source"}
Loaded == Read \ {"artifact"}
Deploying == {"suite", "test"}
Drafted == Written \union {"clear", "mkdir", "write", "clean", "ready", "not ready"}

\* No other live run wrote a contract of this run's name.
Alone(r) == Name(r) \notin met

\* A run has a draft once it wrote one, and remembers its names; a test that
\* passed is the last thing it does.
RunIsTyped(r) ==
    /\ pc[r] = "waiting" => used[r] = {}
    /\ pc[r] \in Drafted => draft[r] # None
    /\ draft[r] # None => Name(r) \in used[r]
    /\ tested[r] # None => pc[r] \in {"clean", "ready", "dead"}

\* A name that two live runs used is one at which two met.
NamesMet ==
    \A q, r \in Runs :
        q # r /\ Live(q) /\ Live(r) => used[q] \intersect used[r] \subseteq met

\* The files of a name that one run has to itself are what it made of them; its
\* source may be cleared by others.
OwnFiles(r) ==
    /\ pc[r] \in {"mkdir", "write"} => src[Name(r)] = None
    /\ pc[r] \in Written => src[Name(r)] \in {None, draft[r]}
    /\ pc[r] \in Compiled => out[Name(r)] = draft[r]
    /\ pc[r] \in Deploying => bin[Name(r)] = draft[r]

\* So is what it has read of them.
OwnResults(r) ==
    /\ pc[r] \in {"building", "rescuing"} => built[r] = draft[r]
    /\ pc[r] \in Read => source[r] = draft[r]
    /\ pc[r] \in Loaded => bytecode[r] = draft[r]
    /\ pc[r] \in {"clean", "ready"} /\ tested[r] # None =>
           source[r] = draft[r] /\ bytecode[r] = draft[r] /\ tested[r] = draft[r]
    /\ pc[r] = "ready" => tested[r] # None

WorkspaceInv ==
    /\ WorkspaceTypeOK
    /\ \A r \in Runs : RunIsTyped(r)
    /\ NamesMet
    /\ \A r \in Runs : pc[r] \in Drafted /\ Alone(r) => OwnFiles(r) /\ OwnResults(r)

\* A step of run q changes nothing of the other runs, and of the files those of
\* its own names; the sources it may clear.
Works(q) ==
    /\ \A r \in Runs \ {q} :
           /\ pc'[r] = pc[r] /\ draft'[r] = draft[r] /\ built'[r] = built[r]
           /\ source'[r] = source[r] /\ bytecode'[r] = bytecode[r]
           /\ reusable'[r] = reusable[r] /\ tested'[r] = tested[r] /\ used'[r] = used[r]
    /\ met \subseteq met'
    /\ \A n \in Names :
           \/ src'[n] \in {src[n], None} /\ out'[n] = out[n] /\ bin'[n] = bin[n]
           \/ Live(q) /\ n \in used[q]

-----------------------------------------------------------------------------
\* What a setback comes to: a next draft, or the end.
LEMMA AgainGoes ==
    ASSUME NEW q \in Runs, Again(q)
    PROVE  \E s \in {"writing", "clean"} : pc' = [pc EXCEPT ![q] = s]
BY DEF Again, Goto

\* A build starts on a file that is there, or is a setback.
LEMMA BuildStarts ==
    ASSUME NEW q \in Runs, Build(q)
    PROVE  /\ pc[q] = "build" /\ UNCHANGED <<files, draft, results, history, deaths>>
           /\ \/ /\ src[Name(q)] # None /\ pc' = [pc EXCEPT ![q] = "building"]
                 /\ built' = [built EXCEPT ![q] = src[Name(q)]]
              \/ /\ built' = built
                 /\ \E s \in {"writing", "clean"} : pc' = [pc EXCEPT ![q] = s]
<1>1. CASE src[Name(q)] # None /\ src[Name(q)].compiles
  BY <1>1 DEF Build, ForgeReads, At, Goto
<1>2. CASE ~(src[Name(q)] # None /\ src[Name(q)].compiles)
  BY <1>2 DEF Build, ForgeReads, Again, At, Goto
<1> QED BY <1>1, <1>2

\* So does the one through the other compiler.
LEMMA RescueStarts ==
    ASSUME NEW q \in Runs, Rescue(q)
    PROVE  /\ pc[q] = "rescue" /\ UNCHANGED <<files, draft, results, history, deaths>>
           /\ \/ /\ src[Name(q)] # None /\ pc' = [pc EXCEPT ![q] = "rescuing"]
                 /\ built' = [built EXCEPT ![q] = src[Name(q)]]
              \/ /\ built' = built
                 /\ \E s \in {"writing", "clean"} : pc' = [pc EXCEPT ![q] = s]
<1>1. CASE src[Name(q)] # None /\ src[Name(q)].compiles
  BY <1>1 DEF Rescue, ForgeReads, At, Goto
<1>2. CASE ~(src[Name(q)] # None /\ src[Name(q)].compiles)
  BY <1>2 DEF Rescue, ForgeReads, Again, At, Goto
<1> QED BY <1>1, <1>2

\* A new draft is one of its run, of the name that the model chose.
LEMMA NewDraft ==
    ASSUME WorkspaceTypeOK, NEW q \in Runs, NEW n \in Names, NEW c \in BOOLEAN,
           Draft(q, n, c)
    PROVE  \E d \in Drafts :
              /\ d # None /\ d.run = q /\ d.name = n
              /\ draft' = [draft EXCEPT ![q] = d]
<1> DEFINE d == [run |-> q, rev |-> Rev(q) + 1, name |-> n, compiles |-> c]
<1>1. Rev(q) \in Nat /\ Rev(q) < MaxDrafts
  BY DEF Draft, Rev, WorkspaceTypeOK, Drafts
<1>2. Rev(q) + 1 \in 1..MaxDrafts
  BY <1>1, SharedWorkspaceAssumption
<1>3. d \in Drafts
  BY <1>2 DEF Drafts
<1>4. d # None
  BY <1>3, SharedWorkspaceAssumption
<1> QED
  BY <1>3, <1>4 DEF Draft

-----------------------------------------------------------------------------
\* Every step of a run keeps the types.
LEMMA StepIsTyped ==
    ASSUME WorkspaceInv, NEW q \in Runs, Step(q)
    PROVE  WorkspaceTypeOK'
<1> USE SharedWorkspaceAssumption DEF WorkspaceInv, WorkspaceTypeOK, files, results, history
<1>a. /\ draft[q] # None => draft[q] \in Drafts /\ Name(q) \in Names /\ Rev(q) \in 1..MaxDrafts
      /\ draft[q] = None => Rev(q) = 0
  BY DEF Drafts, Name, Rev
<1>b. pc[q] \in Drafted => draft[q] # None
  BY DEF RunIsTyped
<1>1. CASE Start(q)
  BY <1>1, <1>a, <1>b DEF Start, At, Goto, Steps, Drafted, Written
<1>2. ASSUME NEW n \in Names, NEW c \in BOOLEAN, Draft(q, n, c) PROVE WorkspaceTypeOK'
  <2>1. WorkspaceTypeOK BY DEF WorkspaceInv
  <2>2. PICK d \in Drafts : /\ d # None /\ d.run = q /\ d.name = n
                            /\ draft' = [draft EXCEPT ![q] = d]
    BY <1>2, <2>1, NewDraft
  <2>3. /\ pc' = [pc EXCEPT ![q] = "clear"] /\ used' = [used EXCEPT ![q] = @ \union {n}]
        /\ UNCHANGED <<dir, src, out, bin, built, source, bytecode, reusable, tested, deaths>>
    BY <1>2 DEF Draft, Goto
  <2>4. met' \in SUBSET Names BY <1>2 DEF Draft
  <2>5. draft' \in [Runs -> Drafts \union {None}] /\ \A r \in Runs : draft'[r] # None => draft'[r].run = r
    BY <2>2
  <2>6. used' \in [Runs -> SUBSET Names] /\ pc' \in [Runs -> Steps]
    BY <2>3 DEF Steps
  <2> QED BY <2>3, <2>4, <2>5, <2>6
<1>3. CASE Clear(q)
  BY <1>3, <1>a, <1>b DEF Clear, At, Goto, Steps, File, Nowhere, Drafted,
     Written
<1>4. CASE MakeDir(q)
  BY <1>4, <1>a, <1>b DEF MakeDir, At, Goto, Steps, Drafted, Written
<1>5. CASE Write(q)
  BY <1>5, <1>a, <1>b DEF Write, At, Goto, Steps, File, Drafted, Written
<1>6. CASE WriteThrows(q)
  BY <1>6, <1>a, <1>b DEF WriteThrows, At, Goto, Steps, Drafted, Written
<1>7. CASE Build(q)
  <2>1. src[Name(q)] \in Drafts \union {None}
    BY <1>7, <1>a, <1>b, BuildStarts DEF File, Drafted, Written
  <2>2. CASE /\ src[Name(q)] # None /\ pc' = [pc EXCEPT ![q] = "building"]
             /\ built' = [built EXCEPT ![q] = src[Name(q)]]
    BY <1>7, <2>1, <2>2, BuildStarts DEF Steps
  <2>3. CASE built' = built /\ \E s \in {"writing", "clean"} : pc' = [pc EXCEPT ![q] = s]
    <3>1. pc' \in [Runs -> Steps]
      <4>1. PICK s \in {"writing", "clean"} : pc' = [pc EXCEPT ![q] = s] BY <2>3
      <4> QED BY <4>1 DEF Steps
    <3> QED BY ZenonT(30), <1>7, <2>3, <3>1, BuildStarts
  <2> QED BY <1>7, <2>2, <2>3, BuildStarts
<1>8. CASE BuildEnds(q)
  BY <1>8, <1>a, <1>b DEF BuildEnds, At, Goto, Steps, File, Drafted, Written
<1>9. CASE ReadSource(q)
  BY <1>9, <1>a, <1>b DEF ReadSource, At, Goto, Steps, File, Drafted, Written
<1>10. CASE ScannersBlock(q)
  BY <1>10, <1>a, <1>b DEF ScannersBlock, At, Goto, Again, Steps, Drafted,
     Written
<1>11. CASE ReadArtifact(q)
  BY <1>11, <1>a, <1>b DEF ReadArtifact, At, Goto, Steps, File, Drafted, Written
<1>12. CASE Fits(q)
  BY <1>12, <1>a, <1>b DEF Fits, At, Goto, Steps, Drafted, Written
<1>13. CASE Oversized(q)
  BY <1>13, <1>a, <1>b DEF Oversized, At, Goto, Steps, Drafted, Written
<1>14. CASE Rescue(q)
  <2>1. src[Name(q)] \in Drafts \union {None}
    BY <1>14, <1>a, <1>b, RescueStarts DEF File, Drafted, Written
  <2>2. CASE /\ src[Name(q)] # None /\ pc' = [pc EXCEPT ![q] = "rescuing"]
             /\ built' = [built EXCEPT ![q] = src[Name(q)]]
    BY <1>14, <2>1, <2>2, RescueStarts DEF Steps
  <2>3. CASE built' = built /\ \E s \in {"writing", "clean"} : pc' = [pc EXCEPT ![q] = s]
    <3>1. pc' \in [Runs -> Steps]
      <4>1. PICK s \in {"writing", "clean"} : pc' = [pc EXCEPT ![q] = s] BY <2>3
      <4> QED BY <4>1 DEF Steps
    <3> QED BY ZenonT(30), <1>14, <2>3, <3>1, RescueStarts
  <2> QED BY <1>14, <2>2, <2>3, RescueStarts
<1>15. ASSUME NEW b \in BOOLEAN, Rescued(q, b) PROVE WorkspaceTypeOK'
  BY ZenonT(30), <1>15, <1>a, <1>b DEF Rescued, At, Goto, Again, Steps, File,
     Drafted, Written
<1>16. CASE Reuse(q)
  BY <1>16, <1>a, <1>b DEF Reuse, At, Goto, Steps, File, Drafted, Written
<1>17. CASE Generate(q)
  BY <1>17, <1>a, <1>b DEF Generate, At, Goto, Steps, File, Drafted, Written
<1>18. CASE WriteSuite(q)
  BY <1>18, <1>a, <1>b DEF WriteSuite, At, Goto, Steps, Drafted, Written
<1>19. ASSUME NEW b \in BOOLEAN, SuiteFails(q, b) PROVE WorkspaceTypeOK'
  BY <1>19, <1>a, <1>b DEF SuiteFails, Goto, Again, Steps, Drafted, Written
<1>20. CASE TestPasses(q)
  BY <1>20, <1>a, <1>b DEF TestPasses, At, Goto, Steps, File, Drafted, Written
<1>21. CASE TestFails(q)
  BY <1>21, <1>a, <1>b DEF TestFails, At, Goto, Again, Steps, Drafted, Written
<1>22. CASE CleanUp(q)
  BY <1>22, <1>a, <1>b DEF CleanUp, At, Goto, Steps, File, Nowhere, Drafted,
     Written
<1>23. CASE Throws(q)
  BY <1>23, <1>a, <1>b DEF Throws, Goto, Steps, Drafted, Written
<1> HIDE DEF WorkspaceInv, WorkspaceTypeOK, files, results, history
<1> QED
  BY <1>1, <1>2, <1>3, <1>4, <1>5, <1>6, <1>7, <1>8, <1>9, <1>10, <1>11,
     <1>12, <1>13, <1>14, <1>15, <1>16, <1>17, <1>18, <1>19, <1>20, <1>21,
     <1>22, <1>23 DEF Step

\* Every step of a run is its own.
LEMMA StepWorks ==
    ASSUME WorkspaceInv, NEW q \in Runs, Step(q)
    PROVE  Works(q)
<1> USE DEF WorkspaceInv, WorkspaceTypeOK, files, results, history, Works
<1>b. pc[q] \in Drafted => draft[q] # None /\ Name(q) \in used[q]
  BY DEF RunIsTyped
<1>1. CASE Start(q)
  BY <1>1, <1>b DEF Start, At, Goto, Drafted, Written, Live, Over
<1>2. ASSUME NEW n \in Names, NEW c \in BOOLEAN, Draft(q, n, c) PROVE Works(q)
  BY <1>2, <1>b DEF Draft, At, Goto, Drafted, Written, Live, Over
<1>3. CASE Clear(q)
  BY <1>3, <1>b DEF Clear, At, Goto, File, Nowhere, Drafted, Written, Live, Over
<1>4. CASE MakeDir(q)
  BY <1>4, <1>b DEF MakeDir, At, Goto, Drafted, Written, Live, Over
<1>5. CASE Write(q)
  BY <1>5, <1>b DEF Write, At, Goto, File, Drafted, Written, Live, Over
<1>6. CASE WriteThrows(q)
  BY <1>6, <1>b DEF WriteThrows, At, Goto, Drafted, Written, Live, Over
<1>7. CASE Build(q)
  BY ZenonT(30), <1>7, <1>b, BuildStarts DEF Drafted, Written, Live, Over
<1>8. CASE BuildEnds(q)
  BY <1>8, <1>b DEF BuildEnds, At, Goto, File, Drafted, Written, Live, Over
<1>9. CASE ReadSource(q)
  BY <1>9, <1>b DEF ReadSource, At, Goto, Drafted, Written, Live, Over
<1>10. CASE ScannersBlock(q)
  BY <1>10, <1>b DEF ScannersBlock, At, Goto, Again, Drafted, Written, Live,
     Over
<1>11. CASE ReadArtifact(q)
  BY <1>11, <1>b DEF ReadArtifact, At, Goto, Drafted, Written, Live, Over
<1>12. CASE Fits(q)
  BY <1>12, <1>b DEF Fits, At, Goto, Drafted, Written, Live, Over
<1>13. CASE Oversized(q)
  BY <1>13, <1>b DEF Oversized, At, Goto, Drafted, Written, Live, Over
<1>14. CASE Rescue(q)
  BY ZenonT(30), <1>14, <1>b, RescueStarts DEF Drafted, Written, Live, Over
<1>15. ASSUME NEW b \in BOOLEAN, Rescued(q, b) PROVE Works(q)
  BY <1>15, <1>b DEF Rescued, At, Goto, Again, File, Drafted, Written, Live,
     Over
<1>16. CASE Reuse(q)
  BY <1>16, <1>b DEF Reuse, At, Goto, File, Drafted, Written, Live, Over
<1>17. CASE Generate(q)
  BY <1>17, <1>b DEF Generate, At, Goto, File, Drafted, Written, Live, Over
<1>18. CASE WriteSuite(q)
  BY <1>18, <1>b DEF WriteSuite, At, Goto, Drafted, Written, Live, Over
<1>19. ASSUME NEW b \in BOOLEAN, SuiteFails(q, b) PROVE Works(q)
  BY <1>19, <1>b DEF SuiteFails, Goto, Again, Drafted, Written, Live, Over
<1>20. CASE TestPasses(q)
  BY <1>20, <1>b DEF TestPasses, At, Goto, Drafted, Written, Live, Over
<1>21. CASE TestFails(q)
  BY <1>21, <1>b DEF TestFails, At, Goto, Again, Drafted, Written, Live, Over
<1>22. CASE CleanUp(q)
  BY <1>22, <1>b DEF CleanUp, At, Goto, File, Nowhere, Drafted, Written, Live,
     Over
<1>23. CASE Throws(q)
  BY <1>23, <1>b DEF Throws, Goto, Drafted, Written, Live, Over
<1> HIDE DEF WorkspaceInv, WorkspaceTypeOK, files, results, history, Works
<1> QED
  BY <1>1, <1>2, <1>3, <1>4, <1>5, <1>6, <1>7, <1>8, <1>9, <1>10, <1>11,
     <1>12, <1>13, <1>14, <1>15, <1>16, <1>17, <1>18, <1>19, <1>20, <1>21,
     <1>22, <1>23 DEF Step

\* What a run knows of itself after its own step.
LEMMA StepIsOwn ==
    ASSUME WorkspaceInv, NEW q \in Runs, Step(q)
    PROVE  RunIsTyped(q)'
<1> USE SharedWorkspaceAssumption DEF WorkspaceInv, WorkspaceTypeOK, files, results, history, RunIsTyped
<1>1. CASE Start(q)
  BY <1>1 DEF Start, At, Goto, Name, Drafted, Written
<1>2. ASSUME NEW n \in Names, NEW c \in BOOLEAN, Draft(q, n, c) PROVE RunIsTyped(q)'
  <2>1. WorkspaceTypeOK BY DEF WorkspaceInv
  <2>2. PICK d \in Drafts : /\ d # None /\ d.run = q /\ d.name = n
                            /\ draft' = [draft EXCEPT ![q] = d]
    BY <1>2, <2>1, NewDraft
  <2> QED BY <1>2, <2>2 DEF Draft, At, Goto, Again, Name, Drafted, Written
<1>3. CASE Clear(q)
  BY <1>3 DEF Clear, At, Goto, Name, Drafted, Written
<1>4. CASE MakeDir(q)
  BY <1>4 DEF MakeDir, At, Goto, Name, Drafted, Written
<1>5. CASE Write(q)
  BY <1>5 DEF Write, At, Goto, Name, Drafted, Written
<1>6. CASE WriteThrows(q)
  BY <1>6 DEF WriteThrows, At, Goto, Name, Drafted, Written
<1>7. CASE Build(q)
  BY ZenonT(30), <1>7, BuildStarts DEF Name, Drafted, Written
<1>8. CASE BuildEnds(q)
  BY <1>8 DEF BuildEnds, At, Goto, Name, Drafted, Written
<1>9. CASE ReadSource(q)
  BY <1>9 DEF ReadSource, At, Goto, Name, Drafted, Written
<1>10. CASE ScannersBlock(q)
  BY <1>10 DEF ScannersBlock, At, Goto, Again, Name, Drafted, Written
<1>11. CASE ReadArtifact(q)
  BY <1>11 DEF ReadArtifact, At, Goto, Name, Drafted, Written
<1>12. CASE Fits(q)
  BY <1>12 DEF Fits, At, Goto, Name, Drafted, Written
<1>13. CASE Oversized(q)
  BY <1>13 DEF Oversized, At, Goto, Name, Drafted, Written
<1>14. CASE Rescue(q)
  BY ZenonT(30), <1>14, RescueStarts DEF Name, Drafted, Written
<1>15. ASSUME NEW b \in BOOLEAN, Rescued(q, b) PROVE RunIsTyped(q)'
  BY <1>15 DEF Rescued, At, Goto, Again, Name, Drafted, Written
<1>16. CASE Reuse(q)
  BY <1>16 DEF Reuse, At, Goto, Name, Drafted, Written
<1>17. CASE Generate(q)
  BY <1>17 DEF Generate, At, Goto, Name, Drafted, Written
<1>18. CASE WriteSuite(q)
  BY <1>18 DEF WriteSuite, At, Goto, Name, Drafted, Written
<1>19. ASSUME NEW b \in BOOLEAN, SuiteFails(q, b) PROVE RunIsTyped(q)'
  BY <1>19 DEF SuiteFails, Goto, Again, Name, Drafted, Written
<1>20. CASE TestPasses(q)
  BY <1>20 DEF TestPasses, At, Goto, Name, Drafted, Written
<1>21. CASE TestFails(q)
  BY <1>21 DEF TestFails, At, Goto, Again, Name, Drafted, Written
<1>22. CASE CleanUp(q)
  BY <1>22 DEF CleanUp, At, Goto, Name, Drafted, Written
<1>23. CASE Throws(q)
  BY <1>23 DEF Throws, Goto, Name, Drafted, Written
<1> HIDE DEF WorkspaceInv, WorkspaceTypeOK, files, results, history, RunIsTyped
<1> QED
  BY <1>1, <1>2, <1>3, <1>4, <1>5, <1>6, <1>7, <1>8, <1>9, <1>10, <1>11,
     <1>12, <1>13, <1>14, <1>15, <1>16, <1>17, <1>18, <1>19, <1>20, <1>21,
     <1>22, <1>23 DEF Step

\* A run that has a name to itself makes its files and reads them back.
LEMMA StepKeepsOwn ==
    ASSUME WorkspaceInv, NEW q \in Runs, Step(q), WorkspaceTypeOK'
    PROVE  (pc[q] \in Drafted /\ Alone(q) => OwnFiles(q) /\ OwnResults(q))'
<1> USE DEF WorkspaceInv, WorkspaceTypeOK, files, results, history, RunIsTyped, OwnFiles, OwnResults, Alone
<1>1. CASE Start(q)
  BY <1>1 DEF Start, At, Goto, Name, Drafted, Written, Compiled, Read, Loaded,
     Deploying
<1>2. ASSUME NEW n \in Names, NEW c \in BOOLEAN, Draft(q, n, c) PROVE (pc[q] \in Drafted /\ Alone(q) => OwnFiles(q) /\ OwnResults(q))'
  <2>1. WorkspaceTypeOK BY DEF WorkspaceInv
  <2>2. PICK d \in Drafts : /\ d # None /\ d.run = q /\ d.name = n
                            /\ draft' = [draft EXCEPT ![q] = d]
    BY <1>2, <2>1, NewDraft
  <2> QED
    BY <1>2, <2>2 DEF Draft, At, Goto, Again, Name, Drafted, Written,
       Compiled, Read, Loaded, Deploying, File, Nowhere
<1>3. CASE Clear(q)
  BY <1>3 DEF Clear, At, Goto, Name, Drafted, Written, Compiled, Read, Loaded,
     Deploying, File, Nowhere
<1>4. CASE MakeDir(q)
  BY <1>4 DEF MakeDir, At, Goto, Name, Drafted, Written, Compiled, Read,
     Loaded, Deploying
<1>5. CASE Write(q)
  BY <1>5 DEF Write, At, Goto, Name, Drafted, Written, Compiled, Read, Loaded,
     Deploying, File
<1>6. CASE WriteThrows(q)
  BY <1>6 DEF WriteThrows, At, Goto, Name, Drafted, Written, Compiled, Read,
     Loaded, Deploying
<1>7. CASE Build(q)
  <2>1. CASE built' = built /\ \E s \in {"writing", "clean"} : pc' = [pc EXCEPT ![q] = s]
    BY <1>7, <2>1, BuildStarts DEF Name, Drafted, Written, Compiled, Read,
       Loaded, Deploying
  <2>2. CASE /\ src[Name(q)] # None /\ pc' = [pc EXCEPT ![q] = "building"]
             /\ built' = [built EXCEPT ![q] = src[Name(q)]]
    <3>1. /\ pc[q] = "build" /\ draft[q] # None
          /\ UNCHANGED <<src, out, bin, draft, source, bytecode, tested, met>>
      BY <1>7, BuildStarts DEF Drafted, Written
    <3>2. Alone(q)' => src[Name(q)] = draft[q]
      BY <2>2, <3>1 DEF Name, Drafted, Written
    <3> QED
      BY <2>2, <3>1, <3>2 DEF Name, Drafted, Written, Compiled, Read, Loaded,
         Deploying
  <2> QED BY <1>7, <2>1, <2>2, BuildStarts
<1>8. CASE BuildEnds(q)
  BY ZenonT(30), <1>8 DEF BuildEnds, At, Goto, Name, Drafted, Written,
     Compiled, Read, Loaded, Deploying, File
<1>9. CASE ReadSource(q)
  BY <1>9 DEF ReadSource, At, Goto, Name, Drafted, Written, Compiled, Read,
     Loaded, Deploying
<1>10. CASE ScannersBlock(q)
  BY <1>10 DEF ScannersBlock, At, Goto, Again, Name, Drafted, Written, Compiled,
     Read, Loaded, Deploying
<1>11. CASE ReadArtifact(q)
  BY <1>11 DEF ReadArtifact, At, Goto, Name, Drafted, Written, Compiled, Read,
     Loaded, Deploying
<1>12. CASE Fits(q)
  BY <1>12 DEF Fits, At, Goto, Name, Drafted, Written, Compiled, Read, Loaded,
     Deploying
<1>13. CASE Oversized(q)
  BY <1>13 DEF Oversized, At, Goto, Name, Drafted, Written, Compiled, Read,
     Loaded, Deploying
<1>14. CASE Rescue(q)
  <2>1. CASE built' = built /\ \E s \in {"writing", "clean"} : pc' = [pc EXCEPT ![q] = s]
    BY <1>14, <2>1, RescueStarts DEF Name, Drafted, Written, Compiled, Read,
       Loaded, Deploying
  <2>2. CASE /\ src[Name(q)] # None /\ pc' = [pc EXCEPT ![q] = "rescuing"]
             /\ built' = [built EXCEPT ![q] = src[Name(q)]]
    <3>1. /\ pc[q] = "rescue" /\ draft[q] # None
          /\ UNCHANGED <<src, out, bin, draft, source, bytecode, tested, met>>
      BY <1>14, RescueStarts DEF Drafted, Written
    <3>2. Alone(q)' => src[Name(q)] = draft[q]
      BY <2>2, <3>1 DEF Name, Drafted, Written
    <3> QED
      BY <2>2, <3>1, <3>2 DEF Name, Drafted, Written, Compiled, Read, Loaded,
         Deploying
  <2> QED BY <1>14, <2>1, <2>2, RescueStarts
<1>15. ASSUME NEW b \in BOOLEAN, Rescued(q, b) PROVE (pc[q] \in Drafted /\ Alone(q) => OwnFiles(q) /\ OwnResults(q))'
  <2>1. /\ pc[q] = "rescuing" /\ out' = [out EXCEPT ![Name(q)] = built[q]]
        /\ built' = [built EXCEPT ![q] = None]
        /\ UNCHANGED <<src, bin, draft, source, tested, met>>
    BY <1>15 DEF Rescued, At
  <2>2. CASE bytecode' = [bytecode EXCEPT ![q] = built[q]] /\ pc' = [pc EXCEPT ![q] = "gate"]
    BY ZenonT(30), <2>1, <2>2 DEF Name, Drafted, Written, Compiled, Read,
       Loaded,
       Deploying, File
  <2>3. CASE \E s \in {"writing", "clean"} : pc' = [pc EXCEPT ![q] = s]
    BY <2>1, <2>3 DEF Name, Drafted, Written, Compiled, Read, Loaded, Deploying
  <2> QED BY <1>15, <2>2, <2>3, AgainGoes DEF Rescued, Goto
<1>16. CASE Reuse(q)
  BY <1>16 DEF Reuse, At, Goto, Name, Drafted, Written, Compiled, Read,
     Loaded, Deploying, File
<1>17. CASE Generate(q)
  BY ZenonT(30), <1>17 DEF Generate, At, Goto, Name, Drafted, Written,
     Compiled, Read, Loaded, Deploying, File
<1>18. CASE WriteSuite(q)
  BY <1>18 DEF WriteSuite, At, Goto, Name, Drafted, Written, Compiled, Read,
     Loaded, Deploying
<1>19. ASSUME NEW b \in BOOLEAN, SuiteFails(q, b) PROVE (pc[q] \in Drafted /\ Alone(q) => OwnFiles(q) /\ OwnResults(q))'
  <2>1. \E s \in {"writing", "clean"} : pc' = [pc EXCEPT ![q] = s]
    BY <1>19, AgainGoes DEF SuiteFails, Goto
  <2>2. pc[q] \in {"gate", "suite"} /\ UNCHANGED <<files, draft, built, source, bytecode, tested, met>>
    BY <1>19 DEF SuiteFails
  <2> QED
    BY <2>1, <2>2 DEF Name, Drafted, Written, Compiled, Read, Loaded,
       Deploying
<1>20. CASE TestPasses(q)
  BY <1>20 DEF TestPasses, At, Goto, Name, Drafted, Written, Compiled, Read,
     Loaded, Deploying
<1>21. CASE TestFails(q)
  BY <1>21 DEF TestFails, At, Goto, Again, Name, Drafted, Written, Compiled,
     Read,
     Loaded, Deploying
<1>22. CASE CleanUp(q)
  BY <1>22 DEF CleanUp, At, Goto, Name, Drafted, Written, Compiled, Read,
     Loaded, Deploying, File, Nowhere
<1>23. CASE Throws(q)
  BY <1>23 DEF Throws, Goto, Name, Drafted, Written, Compiled, Read, Loaded,
     Deploying
<1> HIDE DEF WorkspaceInv, WorkspaceTypeOK, files, results, history, RunIsTyped, OwnFiles, OwnResults, Alone
<1> QED
  BY <1>1, <1>2, <1>3, <1>4, <1>5, <1>6, <1>7, <1>8, <1>9, <1>10, <1>11,
     <1>12, <1>13, <1>14, <1>15, <1>16, <1>17, <1>18, <1>19, <1>20, <1>21,
     <1>22, <1>23 DEF Step

\* A step changes nothing that another run relies on: of the files of a name that
\* this one has to itself, only its source can go.
LEMMA StepKeepsOthers ==
    ASSUME WorkspaceInv, NEW q \in Runs, NEW r \in Runs, r # q, Works(q), Step(q)
    PROVE  /\ RunIsTyped(r)'
           /\ (pc[r] \in Drafted /\ Alone(r) => OwnFiles(r) /\ OwnResults(r))'
<1>1. /\ pc'[r] = pc[r] /\ draft'[r] = draft[r] /\ built'[r] = built[r]
      /\ source'[r] = source[r] /\ bytecode'[r] = bytecode[r]
      /\ tested'[r] = tested[r] /\ used'[r] = used[r] /\ met \subseteq met'
  BY DEF Works
<1>2. RunIsTyped(r) /\ Name(r)' = Name(r)
  BY <1>1 DEF WorkspaceInv, Name
<1>3. RunIsTyped(r)'
  BY <1>1, <1>2 DEF RunIsTyped
<1>4. ASSUME pc[r] \in Drafted, Name(r) \notin met' PROVE OwnFiles(r)' /\ OwnResults(r)'
  <2>1. OwnFiles(r) /\ OwnResults(r)
    BY <1>1, <1>4 DEF WorkspaceInv, Alone
  <2>2. OwnResults(r)'
    BY <1>1, <2>1 DEF OwnResults
  <2>3. CASE Live(r)
    <3>1. ~(Live(q) /\ Name(r) \in used[q])
      BY <1>1, <1>2, <1>4, <2>3 DEF WorkspaceInv, NamesMet, RunIsTyped
    <3>2. Name(r) \in Names
      BY <1>2, <1>4 DEF WorkspaceInv, WorkspaceTypeOK, RunIsTyped, Name, Drafts
    <3>3. /\ src'[Name(r)] \in {src[Name(r)], None}
          /\ out'[Name(r)] = out[Name(r)] /\ bin'[Name(r)] = bin[Name(r)]
      BY <3>1, <3>2 DEF Works
    <3> QED BY <1>1, <1>2, <2>1, <2>2, <3>3 DEF OwnFiles
  <2>4. CASE ~Live(r)
    <3>1. pc[r] \in {"ready", "not ready"}
      BY <1>4, <2>4 DEF Live, Over, Drafted, Written
    <3> QED BY <1>1, <2>2, <3>1 DEF OwnFiles, Written, Compiled, Deploying
  <2> QED BY <2>3, <2>4
<1> QED BY <1>1, <1>2, <1>3, <1>4 DEF Alone

\* A run is live when it steps, or has no name yet; a new name that another live
\* run has used is marked.
LEMMA NamesGrow ==
    ASSUME WorkspaceInv, NEW q \in Runs, Step(q)
    PROVE  /\ Live(q) \/ used[q] = {}
           /\ \/ used' = used
              \/ /\ Live(q)
                 /\ \E n \in Names :
                       /\ used' = [used EXCEPT ![q] = @ \union {n}]
                       /\ \A p \in Runs \ {q} : Live(p) /\ n \in used[p] => n \in met'
<1>1. Live(q) \/ used[q] = {}
  BY DEF Step, At, Live, Over, WorkspaceInv, RunIsTyped, Start, Draft, Clear,
     MakeDir, Write, WriteThrows, Build, BuildEnds, ReadSource,
      ScannersBlock, ReadArtifact, Fits, Oversized, Rescue, Rescued, ForgeReads, Reuse,
      Generate, WriteSuite, SuiteFails, TestPasses, TestFails, CleanUp, Throws
<1>2. ASSUME NEW n \in Names, NEW c \in BOOLEAN, Draft(q, n, c)
      PROVE  /\ Live(q) /\ used' = [used EXCEPT ![q] = @ \union {n}]
             /\ \A p \in Runs \ {q} : Live(p) /\ n \in used[p] => n \in met'
  BY <1>2 DEF Draft, At, Live, Over
<1>3. (\E n \in Names, c \in BOOLEAN : Draft(q, n, c)) \/ used' = used
  BY DEF Step, history, Start, Clear, MakeDir, Write, WriteThrows, Build,
     BuildEnds, ReadSource,
      ScannersBlock, ReadArtifact, Fits, Oversized, Rescue, Rescued, ForgeReads, Reuse,
      Generate, WriteSuite, SuiteFails, TestPasses, TestFails, CleanUp, Throws, results
<1> QED BY <1>1, <1>2, <1>3

\* The names at which two live runs met stay marked.
LEMMA StepMarksNames ==
    ASSUME WorkspaceInv, NEW q \in Runs, Step(q), Works(q)
    PROVE  NamesMet'
<1> SUFFICES ASSUME NEW a \in Runs, NEW b \in Runs, a # b, Live(a)', Live(b)',
                    NEW m \in used'[a], m \in used'[b]
             PROVE  m \in met'
  BY DEF NamesMet
<1>1. /\ met \subseteq met' /\ used \in [Runs -> SUBSET Names]
      /\ \A r \in Runs \ {q} : pc'[r] = pc[r] /\ used'[r] = used[r]
  BY DEF Works, WorkspaceInv, WorkspaceTypeOK
<1>2. \A r \in Runs \ {q} : Live(r)' => Live(r)
  BY <1>1 DEF Live
<1>3. CASE m \in used[a] /\ m \in used[b]
  <2>1. Live(a) /\ Live(b)
    BY <1>2, <1>3, NamesGrow
  <2> QED BY <1>1, <1>3, <2>1 DEF WorkspaceInv, NamesMet
<1>4. CASE ~(m \in used[a] /\ m \in used[b])
  <2>1. PICK n \in Names :
           /\ used' = [used EXCEPT ![q] = @ \union {n}]
           /\ \A p \in Runs \ {q} : Live(p) /\ n \in used[p] => n \in met'
    BY <1>4, NamesGrow
  <2>2. \/ a = q /\ m = n /\ m \in used[b] /\ Live(b)
        \/ b = q /\ m = n /\ m \in used[a] /\ Live(a)
    BY <1>1, <1>2, <1>4, <2>1
  <2> QED BY <2>1, <2>2
<1> QED BY <1>3, <1>4

\* The death of the process leaves the files and ends the runs.
LEMMA DeathKeeps ==
    ASSUME WorkspaceInv, Dies
    PROVE  WorkspaceInv'
<1>1. /\ UNCHANGED <<dir, src, out, bin, draft, built, source, bytecode, reusable, tested,
                     used, met>>
      /\ pc \in [Runs -> Steps]
      /\ pc' = [r \in Runs |-> IF Live(r) THEN "dead" ELSE pc[r]]
      /\ deaths' \in 0..MaxDeaths
  BY SharedWorkspaceAssumption
  DEF Dies, files, results, history, WorkspaceInv, WorkspaceTypeOK
<1>2. WorkspaceTypeOK'
  <2>1. pc' \in [Runs -> Steps] BY <1>1 DEF Steps
  <2> QED BY <1>1, <2>1 DEF WorkspaceInv, WorkspaceTypeOK
<1>3. ASSUME NEW r \in Runs
      PROVE  /\ pc'[r] = "dead" \/ (pc'[r] = pc[r] /\ pc[r] \in Over \union {"waiting"})
             /\ ~Live(r)' /\ Name(r)' = Name(r)
  BY <1>1 DEF Live, Over, Name
<1>4. ASSUME NEW r \in Runs PROVE RunIsTyped(r)'
  BY <1>1, <1>3 DEF WorkspaceInv, RunIsTyped, Drafted, Written
<1>5. NamesMet' BY <1>3 DEF NamesMet
<1>6. ASSUME NEW r \in Runs, (pc[r] \in Drafted /\ Alone(r))'
      PROVE  OwnFiles(r)' /\ OwnResults(r)'
  <2>1. pc'[r] = pc[r] /\ pc[r] \in {"ready", "not ready"}
    BY <1>3, <1>6 DEF Over, Drafted, Written
  <2>2. OwnFiles(r) /\ OwnResults(r)
    BY <1>1, <1>3, <1>6, <2>1 DEF WorkspaceInv, Alone, Drafted
  <2> QED
    BY <1>1, <2>1, <2>2 DEF OwnFiles, OwnResults, Written, Compiled, Read,
       Loaded, Deploying
<1> QED BY <1>2, <1>4, <1>5, <1>6 DEF WorkspaceInv

-----------------------------------------------------------------------------
\* The invariant holds from the empty directories on.
THEOREM WorkspaceIsShared == WorkspaceSpec => []WorkspaceInv
<1>1. WorkspaceInit => WorkspaceInv
  <2> SUFFICES ASSUME WorkspaceInit PROVE WorkspaceInv
    OBVIOUS
  <2>1. /\ Nowhere \in File /\ Nothing \in [Runs -> Drafts \union {None}]
        /\ Nothing \in [Runs -> Names \union {None}]
    BY DEF Nowhere, Nothing, File
  <2>2. \A r \in Runs : draft[r] = None /\ tested[r] = None /\ used[r] = {} /\ pc[r] = "waiting"
    BY DEF WorkspaceInit, Nothing
  <2>3. WorkspaceTypeOK
    <3>1. deaths \in 0..MaxDeaths BY SharedWorkspaceAssumption DEF WorkspaceInit
    <3>3. pc \in [Runs -> Steps] BY DEF WorkspaceInit, Steps
    <3>4. used \in [Runs -> SUBSET Names] /\ met \in SUBSET Names
      BY DEF WorkspaceInit
    <3>5. dir \in BOOLEAN BY DEF WorkspaceInit
    <3>2. \A n \in Names : src[n] = None BY DEF WorkspaceInit, Nowhere
    <3> QED
      BY <2>1, <2>2, <3>1, <3>2, <3>3, <3>4, <3>5 DEF WorkspaceInit,
         WorkspaceTypeOK
  <2>4. NamesMet BY <2>2 DEF NamesMet
  <2>5. \A r \in Runs : RunIsTyped(r) /\ pc[r] \notin Drafted
    BY <2>2 DEF RunIsTyped, Drafted, Written
  <2> QED BY <2>3, <2>4, <2>5 DEF WorkspaceInv
<1>2. WorkspaceInv /\ [WorkspaceNext]_workspaceVars => WorkspaceInv'
  <2> SUFFICES ASSUME WorkspaceInv, [WorkspaceNext]_workspaceVars PROVE WorkspaceInv'
    OBVIOUS
  <2>1. CASE Dies BY <2>1, DeathKeeps
  <2>2. ASSUME NEW q \in Runs, Step(q) PROVE WorkspaceInv'
    <3>1. WorkspaceTypeOK' BY <2>2, StepIsTyped
    <3>2. Works(q) BY <2>2, StepWorks
    <3>3. NamesMet' BY <2>2, <3>2, StepMarksNames
    <3>4. ASSUME NEW r \in Runs
          PROVE  /\ RunIsTyped(r)'
                 /\ (pc[r] \in Drafted /\ Alone(r) => OwnFiles(r) /\ OwnResults(r))'
      <4>1. CASE r = q BY <2>2, <3>1, <4>1, StepIsOwn, StepKeepsOwn
      <4>2. CASE r # q BY <2>2, <3>2, <4>2, StepKeepsOthers
      <4> QED BY <4>1, <4>2
    <3> QED BY <3>1, <3>3, <3>4 DEF WorkspaceInv
  <2>3. CASE UNCHANGED workspaceVars
    BY <2>3
    DEF workspaceVars, files, results, history, WorkspaceInv, WorkspaceTypeOK, RunIsTyped,
        NamesMet, Live, Name, Rev, Alone, OwnFiles, OwnResults
  <2> QED BY <2>1, <2>2, <2>3 DEF WorkspaceNext
<1> QED BY <1>1, <1>2, PTL DEF WorkspaceSpec

\* The directories hold drafts of the runs, and nothing else.
THEOREM WorkspaceIsTyped == WorkspaceSpec => []WorkspaceTypeOK
<1>1. WorkspaceInv => WorkspaceTypeOK BY DEF WorkspaceInv
<1> QED BY <1>1, WorkspaceIsShared, PTL

\* What is delivered as tested is one draft, unless two live runs chose one name.
THEOREM DeliveredIsOneDraft == WorkspaceSpec => []ReadyIsOneDraft
<1>1. WorkspaceInv => ReadyIsOneDraft
  BY DEF WorkspaceInv, ReadyIsOneDraft, RunIsTyped, OwnResults, Alone, Drafted
<1> QED BY <1>1, WorkspaceIsShared, PTL

\* Nothing a run does touches the results of another, or files of a name that it
\* never wrote itself, but that it may clear sources.
THEOREM RunsKeepToTheirNames ==
    WorkspaceSpec => [][Dies \/ \E q \in Runs : Works(q)]_workspaceVars
<1>1. WorkspaceInv /\ [WorkspaceNext]_workspaceVars =>
          [Dies \/ \E q \in Runs : Works(q)]_workspaceVars
  BY StepWorks DEF WorkspaceNext
<1> QED BY <1>1, WorkspaceIsShared, PTL DEF WorkspaceSpec
=============================================================================
