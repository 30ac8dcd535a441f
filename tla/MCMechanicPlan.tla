---------------------------- MODULE MCMechanicPlan ----------------------------
(* Prompts with and without a resource, the assignment and the exits decided *)
(* or not; answers that leave the blocks out, leave fields open or fill them *)
(* in; sources with each hole the specification can open or close.           *)
EXTENDS MechanicPlan

MCPrompts ==
    {p \in [resource : BOOLEAN, single : BOOLEAN, multi : BOOLEAN,
            submits : BOOLEAN, approves : {FALSE}, abandon : BOOLEAN,
            cancel : BOOLEAN, deadline : {FALSE}, reserve : {FALSE},
            holders : BOOLEAN, anyone : {FALSE}, random : BOOLEAN,
            votes : {FALSE}, deposits : {FALSE}, pays : BOOLEAN,
            scheduled : {TRUE}, acts : {2}] :
       /\ p.cancel = p.abandon /\ ~(p.single /\ p.multi)
       /\ p.resource \/ ~(p.single \/ p.multi \/ p.submits \/ p.abandon)}

Silent == [block |-> FALSE, resource |-> FALSE, model |-> "missing",
           submission |-> "missing", authority |-> "missing",
           reservation |-> "missing", abandon |-> FALSE, cancel |-> FALSE,
           timeout |-> FALSE, listed |-> FALSE, rules |-> <<>>,
           oracle |-> "missing", scheduled |-> "false", flagged |-> {"007"},
           offchain |-> FALSE, users |-> 2, managers |-> 1]

Lives ==
    {Silent, [Silent EXCEPT !.block = TRUE], [Silent EXCEPT !.block = TRUE, !.resource = TRUE]}
    \union {[Silent EXCEPT !.block = TRUE, !.resource = TRUE, !.model = m,
                           !.submission = "no", !.authority = "other",
                           !.reservation = r, !.abandon = e, !.cancel = e,
                           !.users = u] :
              m \in Models, r \in {"other", "not_applicable"}, e \in BOOLEAN,
              u \in {NoAnswer, 24}}

Raw == [mode |-> "missing", liability |-> "missing", source |-> "",
        winner |-> "missing", perUser |-> "missing", says |-> "else",
        at |-> 1]
RawLists ==
    {<<>>, <<Raw>>, <<[Raw EXCEPT !.winner = "false"]>>,
     <<[Raw EXCEPT !.winner = "true", !.perUser = "true"]>>,
     <<[Raw EXCEPT !.mode = "other"]>>,
     <<[Raw EXCEPT !.mode = "other", !.perUser = "false"],
       [Raw EXCEPT !.mode = "winner_takes_all", !.at = 2]>>,
     <<[Raw EXCEPT !.mode = "fixed_per_user", !.source = "fixed"],
       [Raw EXCEPT !.says = "winner", !.at = 2]>>,
     <<[Raw EXCEPT !.says = "winner", !.at = 2]>>,
     <<[Raw EXCEPT !.winner = "invalid"],
       [Raw EXCEPT !.winner = "invalid", !.says = "winner", !.at = 2]>>}

MCAnswers ==
    Lives \union {[l EXCEPT !.listed = TRUE, !.rules = rs] : l \in Lives, rs \in RawLists}

Sound == [accepts |-> TRUE, exclusive |-> TRUE, stores |-> TRUE,
          assignee |-> FALSE, leaves |-> FALSE, gated |-> TRUE,
          abandon |-> TRUE, cancel |-> TRUE, completes |-> TRUE,
          unchecked |-> FALSE, proof |-> TRUE, clock |-> FALSE,
          constant |-> TRUE, drains |-> FALSE, reserves |-> FALSE,
          perUser |-> TRUE, eventOnly |-> TRUE]
MCSources ==
    {[Sound EXCEPT !.exclusive = a, !.leaves = ~a, !.abandon = a, !.proof = b,
                   !.drains = c, !.perUser = ~c] : a, b, c \in BOOLEAN}

=============================================================================
