---------------------------- MODULE RecordReplay ----------------------------
(***************************************************************************)
(* Recording a run and replaying it (corvid-runtime, runtime.rs and         *)
(* replay/; corvid-vm, interp.rs).  An agent asks the outside for answers:  *)
(* tools, models, approvals, random samples, people.  A live run writes the *)
(* questions and the answers to a trace.  A replay runs the agent again     *)
(* and takes the answers from the trace, in one of three modes: substitute, *)
(* differential (models answer live) and mutation (one answer replaced).    *)
(*                                                                         *)
(* The agent is any program: it is a function of the answers it has had,    *)
(* chosen call by call.  An agent that is not edited makes, after the       *)
(* answers of the recorded run, the calls of the recorded run.  A try       *)
(* expression may call again after any error (interp.rs, TryRetry), so an   *)
(* agent may go on after an error, but never tells one error from another.  *)
(*                                                                         *)
(* An answer is TRUE, FALSE or Null, which stand for JSON values of two     *)
(* kinds.  A question's name, arguments and rendered text are one `arg'.    *)
(***************************************************************************)
EXTENDS Integers, Sequences, FiniteSets, SequencesExt

CONSTANTS
    Requests,     \* the questions an agent may ask
    AnswersTo,    \* what each question may be answered
    Plans,        \* how a trace may be replayed, by which agent
    MaxCalls,     \* bound: calls of a run
    MaxErrors,    \* bound: errors a run survives by trying again
    Null, Failed, Denied, Diverged, Invalid, EndOfTrace, Pending

Kinds == {"tool", "llm", "approval", "sample", "human"}
AllModes == {"substitute", "differential", "mutation"}
Substitutable == {"tool", "llm", "approval"}
Values == BOOLEAN \union {Null}
Errors == {Failed, Denied, Diverged, Invalid}

Marks == <<Null, Failed, Denied, Diverged, Invalid, EndOfTrace, Pending>>

\* All rollout samples are one question: emit_seed_read is given no argument
\* but its purpose.
ASSUME ReplayAssumption ==
    /\ Requests \subseteq [kind: Kinds, arg: STRING]
    /\ \A q, r \in Requests : q.kind = "sample" /\ r.kind = "sample" => q = r
    /\ AnswersTo \in [Requests -> SUBSET Values]
    /\ Plans \subseteq [mode: AllModes, edited: BOOLEAN, target: Nat, replacement: Values]
    /\ MaxCalls \in Nat
    /\ MaxErrors \in Nat
    /\ \A i, j \in 1..7 : Marks[i] = Marks[j] => i = j
    /\ \A i \in 1..7 : Marks[i] \notin BOOLEAN

VARIABLES
    trace,    \* the events of the trace after its header
    log,      \* history: the calls of the recorded run and what they gave
    final,    \* history: what the recorded run ended with, or Pending
    phase,    \* "record", "recorded", "replay", or how the replay ended
    plan,     \* how the trace will be replayed, and the agent's being edited
    cursor,   \* TraceCursor: index of the next event
    steps,    \* ReplayMutationState: substitutable calls made
    seen,     \* history: the calls of the replay and what they gave
    report    \* a report of the replay names a difference

recordVars == <<trace, log, final>>
replayVars == <<phase, plan, cursor, steps, seen, report>>
rrVars == <<recordVars, replayVars>>

Entry(q, out) == [req |-> q, out |-> out]
NoPlan == [mode |-> "none", edited |-> FALSE, target |-> 0, replacement |-> Null]

-----------------------------------------------------------------------------
(* Events.  `by' is the model that answered: the one asked, or a fallback.  *)

Event(kind, arg, val) == [kind |-> kind, arg |-> arg, val |-> val, by |-> "asked"]
Metadata == Event("Metadata", "none", Null)
CallKind == [tool |-> "ToolCall", llm |-> "LlmCall", approval |-> "ApprovalRequest",
             sample |-> "SeedRead", human |-> "HumanRequest"]
ResultKind == [tool |-> "ToolResult", llm |-> "LlmResult",
               approval |-> "ApprovalResponse", human |-> "HumanResponse"]
CallEvent(q) == Event(CallKind[q.kind], q.arg, Null)
ResultEvent(q, v) == Event(ResultKind[q.kind], q.arg, v)
CallKinds == {CallKind[k] : k \in Substitutable}
\* Mutation of ResultKinds: the end of the run is taken for a result.
ResultKindsMutant == {ResultKind[k] : k \in Substitutable} \union {"RunCompleted"}
ResultKinds == {ResultKind[k] : k \in Substitutable}
AtEof == Event("RunCompleted", "none", EndOfTrace)

-----------------------------------------------------------------------------
(* The agent.  h is what it has asked and been told so far.                 *)

IsError(e) == e.out \in Errors
Erred(h) == h # <<>> /\ IsError(Last(h))
\* What the agent can tell apart.
Visible(h) == [i \in DOMAIN h |-> [req |-> h[i].req,
                                   out |-> IF IsError(h[i]) THEN Failed ELSE h[i].out]]
\* An error ends the run unless a try expression has attempts left.
\* The attempt begins again with its first call.  When no attempt is left and
\* an earlier one gave Null, the try expression has a value (saw_option_retry)
\* and the run goes on; otherwise the run ends with the last error.
GaveNull(h) == \E i \in DOMAIN h : h[i].out = Null
MayCall(h, q) ==
    /\ Len(h) < MaxCalls
    /\ Cardinality({i \in DOMAIN h : IsError(h[i])}) <= MaxErrors
    /\ Erred(h) => GaveNull(h) \/ \E i \in DOMAIN h : h[i].req = q
MayEnd(h, v) ==
    IF v \in BOOLEAN THEN Erred(h) => GaveNull(h)
                     ELSE Erred(h) /\ v = Last(h).out

\* An agent that is not edited follows the recorded run while it can.
Follows == /\ ~plan.edited
           /\ Len(seen) <= Len(log)
           /\ Visible(seen) = Visible(SubSeq(log, 1, Len(seen)))
Asks(q) == /\ phase = "replay"
           /\ MayCall(seen, q)
           /\ Follows => /\ Len(seen) < Len(log) => q = log[Len(seen) + 1].req
                         /\ Len(seen) = Len(log) => final = Pending
Ends(v) == /\ phase = "replay"
           /\ MayEnd(seen, v)
           /\ Follows => /\ Len(seen) = Len(log)
                         /\ final # Pending => (v \in BOOLEAN \/ final \in BOOLEAN => v = final)

-----------------------------------------------------------------------------
(* The recorded run.                                                        *)

ReplayInit ==
    /\ trace = <<Event("RunStarted", "none", Null)>>
    /\ log = <<>>
    /\ final = Pending
    /\ phase = "record"
    /\ plan = NoPlan
    /\ cursor = 1
    /\ steps = 0
    /\ seen = <<>>
    /\ report = FALSE

Records(q, out, events) ==
    /\ phase = "record"
    /\ MayCall(log, q)
    /\ trace' = trace \o events
    /\ log' = Append(log, Entry(q, out))
    /\ UNCHANGED <<final, replayVars>>

\* call_tool: the result is recorded only when the tool did not fail.
CallTool(q) ==
    \/ Records(q, Failed, <<CallEvent(q)>>)
    \/ \E v \in AnswersTo[q] : Records(q, v, <<CallEvent(q), ResultEvent(q, v)>>)

\* call_llm_ref_impl: the usage event, a cache event or the events of a failed
\* provider stand between the call and its result.
CallLlm(q) ==
    \/ Records(q, Failed, <<CallEvent(q), Metadata>>)
    \/ \E v \in AnswersTo[q], by \in {"asked", "fallback"} :
          Records(q, v, <<CallEvent(q), Metadata, [ResultEvent(q, v) EXCEPT !.by = by]>>)

\* approval_gate: the approver may fail, deny or approve.
ApprovalGate(q) ==
    LET decided(v) == <<CallEvent(q), Event("ApprovalDecision", q.arg, v), ResultEvent(q, v)>>
    IN  \/ Records(q, Failed, <<CallEvent(q)>>)
        \/ Records(q, Denied, decided(FALSE))
        \/ Records(q, TRUE, decided(TRUE) \o <<Metadata>>)

\* next_rollout_sample, with its cohort as the sample.
RolloutSample(q) ==
    \E v \in AnswersTo[q] : Records(q, v, <<[CallEvent(q) EXCEPT !.val = v]>>)

\* ask_human and choose_human.
AskHuman(q) ==
    \/ Records(q, Failed, <<CallEvent(q)>>)
    \/ \E v \in AnswersTo[q] : Records(q, v, <<CallEvent(q), ResultEvent(q, v)>>)

\* run_agent_with_env after the body of a live run.
CompleteRecording(v) ==
    /\ phase = "record"
    /\ MayEnd(log, v)
    /\ trace' = Append(trace, Event("RunCompleted", "none", v))
    /\ final' = v
    /\ phase' = "recorded"
    /\ UNCHANGED <<log, plan, cursor, steps, seen, report>>

\* The process dies, before or in the middle of writing the last call's events.
LastCallAt == CHOOSE n \in DOMAIN trace :
                 /\ trace[n].kind \in {"RunStarted"} \union {CallKind[k] : k \in Kinds}
                 /\ \A i \in (n + 1)..Len(trace) : trace[i].kind \notin {CallKind[k] : k \in Kinds}
Crash ==
    /\ phase = "record"
    /\ \E n \in (LastCallAt - 1)..Len(trace) : trace' = SubSeq(trace, 1, n)
    /\ phase' = "recorded"
    /\ UNCHANGED <<log, final, plan, cursor, steps, seen, report>>

-----------------------------------------------------------------------------
(* The trace under a cursor.                                                *)

\* Mutation of IsMetadata: host events are not skipped.
NoMetadata(e) == FALSE

\* is_dispatch_metadata
IsMetadata(e) == e.kind = "Metadata"
\* skip_dispatch_metadata: where the cursor stands before it reads.
Skip(n) == CHOOSE m \in n..(n + Len(trace)) :
              /\ m <= Len(trace) => ~IsMetadata(trace[m])
              /\ \A i \in n..(m - 1) : i <= Len(trace) /\ IsMetadata(trace[i])
\* What next_event and expect_next read there.
EventAt(n) == IF n <= Len(trace) THEN trace[n] ELSE AtEof

\* validate_mutation: step k of the trace is a call with its result after it,
\* and the replacement is of the result's kind.
ValidMutation(k, r) ==
    \E n \in DOMAIN trace :
        /\ trace[n].kind \in CallKinds
        /\ Cardinality({i \in 1..n : trace[i].kind \in CallKinds}) = k
        /\ LET e == EventAt(Skip(n + 1))
           IN  /\ e.kind \in ResultKinds
               /\ (r \in BOOLEAN) = (e.val \in BOOLEAN)

\* load, and prepare_run on the loaded trace: is the run the recorded agent with
\* the recorded arguments?
Load(p, same) ==
    /\ phase = "recorded"
    /\ ~p.edited => same
    /\ plan' = p
    /\ phase' = IF \/ trace = <<>>
                   \/ p.mode = "mutation" /\ ~ValidMutation(p.target, p.replacement)
                  THEN "rejected"
                  ELSE IF same THEN "replay" ELSE "diverged"
    /\ cursor' = IF phase' = "replay" THEN 2 ELSE 1
    /\ UNCHANGED <<recordVars, steps, seen, report>>

-----------------------------------------------------------------------------
(* The replayed run: the call q of the agent gives `out' and leaves the      *)
(* cursor at c.                                                             *)

\* Mutation of Gives: a report is lost when the next call agrees.
GivesMutant(q, out, c, differs) ==
    /\ seen' = Append(seen, Entry(q, out))
    /\ cursor' = c
    /\ steps' = IF q.kind \in Substitutable THEN steps + 1 ELSE steps
    /\ report' = differs
    /\ UNCHANGED <<recordVars, phase, plan>>

Gives(q, out, c, differs) ==
    /\ seen' = Append(seen, Entry(q, out))
    /\ cursor' = c
    /\ steps' = IF q.kind \in Substitutable THEN steps + 1 ELSE steps
    /\ report' = (report \/ differs)
    /\ UNCHANGED <<recordVars, phase, plan>>

\* Mutations: a substitution is lenient; the steps are counted from 0.
StrictMutant(lenient) == plan.mode = "mutation" /\ steps + 1 < plan.target
SwappedMutant == plan.mode = "mutation" /\ steps = plan.target

\* Before the mutated step a mutation is as strict as a substitution.
Strict(lenient) == \/ plan.mode \notin (lenient \union {"mutation"})
                   \/ plan.mode = "mutation" /\ steps + 1 < plan.target
Swapped == plan.mode = "mutation" /\ steps + 1 = plan.target

\* validate_mutation_result_pair
Paired(call, result) == \E k \in Substitutable : /\ call.kind = CallKind[k]
                                                 /\ result.kind = ResultKind[k]
AsBool(v) == v = TRUE      \* coerce_json_to_bool
Gate(v) == IF v THEN TRUE ELSE Denied

\* replay_tool_call
ReplayTool(q) ==
    LET at     == Skip(cursor)
        call   == EventAt(at)
        after  == Skip(at + 1)
        result == EventAt(after)
        same   == call = CallEvent(q)
        out    == IF Swapped
                    THEN IF Paired(call, result) THEN plan.replacement ELSE Invalid
                    ELSE IF result.kind \in ResultKinds THEN result.val ELSE Diverged
    IN  /\ Asks(q)
        /\ \/ Strict({"differential"}) /\ ~same /\ Gives(q, Diverged, at, FALSE)
           \/ plan.mode = "differential" /\ call.kind # "ToolCall" /\ Gives(q, Diverged, at + 1, FALSE)
           \/ /\ Strict({"differential"}) => same
              /\ plan.mode = "differential" => call.kind = "ToolCall"
              /\ Gives(q, out, after + 1, ~same)

\* replay_llm_call: the live answer is compared with the recorded one.
ReplayLlm(q) ==
    LET at     == Skip(cursor)
        call   == EventAt(at)
        after  == Skip(at + 1)
        result == EventAt(after)
        same   == call = CallEvent(q)
        json   == IF result.kind \in ResultKinds THEN result.val ELSE Null
        asked  == result.kind = "LlmResult" /\ result.arg = q.arg /\ result.by = "asked"
    IN  /\ Asks(q)
        /\ \/ Strict({}) /\ ~same /\ Gives(q, Diverged, at, FALSE)
           \/ /\ Strict({}) /\ same /\ plan.mode # "mutation" /\ ~asked
              /\ Gives(q, Diverged, after + 1, FALSE)
           \/ plan.mode = "substitute" /\ same /\ asked /\ Gives(q, result.val, after + 1, FALSE)
           \/ /\ plan.mode = "differential" /\ same /\ asked
              /\ \/ Gives(q, Failed, after + 1, FALSE)
                 \/ \E v \in AnswersTo[q] : Gives(q, v, after + 1, v # result.val)
           \/ /\ plan.mode = "mutation" /\ (Strict({}) => same)
              /\ Gives(q, IF ~Swapped THEN json
                          ELSE IF Paired(call, result) THEN plan.replacement ELSE Invalid,
                       after + 1, ~same)

\* replay_approval: the decision before the response is optional in a trace.
ReplayApproval(q) ==
    LET at     == Skip(cursor)
        call   == EventAt(at)
        first  == Skip(at + 1)
        after  == IF EventAt(first).kind = "ApprovalDecision" THEN Skip(first + 1) ELSE first
        result == EventAt(after)
        same   == call = CallEvent(q)
        out    == IF Swapped
                    THEN IF Paired(call, result) /\ plan.replacement \in BOOLEAN
                           THEN Gate(plan.replacement) ELSE Invalid
                    ELSE IF result.kind \in ResultKinds THEN Gate(AsBool(result.val)) ELSE Diverged
    IN  /\ Asks(q)
        /\ \/ Strict({"differential"}) /\ ~same /\ Gives(q, Diverged, at, FALSE)
           \/ /\ plan.mode = "differential" /\ call.kind # "ApprovalRequest"
              /\ Gives(q, Diverged, at + 1, FALSE)
           \/ /\ Strict({"differential"}) => same
              /\ plan.mode = "differential" => call.kind = "ApprovalRequest"
              /\ Gives(q, out, after + 1, ~same)

\* replay_rollout_sample
ReplaySample(q) ==
    LET at == Skip(cursor)
        e  == EventAt(at)
    IN  /\ Asks(q)
        /\ IF e.kind = "SeedRead" THEN Gives(q, e.val, at + 1, FALSE)
                                  ELSE Gives(q, Diverged, at, FALSE)

\* ask_human and choose_human ask again, whatever the mode.
ReplayHuman(q) ==
    /\ Asks(q)
    /\ \E out \in AnswersTo[q] \union {Failed} : Gives(q, out, cursor, FALSE)

\* complete_run, which a run that ends with a divergence does not reach
\* (should_validate_run_completion), and finish, which reads the event at the
\* cursor when the cursor is not at the end.
CompleteReplay(v) ==
    LET at   == Skip(cursor)
        e    == EventAt(at)
        rest == Skip(at + 1)
        ended == IF rest = Len(trace) + 1 THEN "ok"
                 ELSE IF rest > Len(trace) THEN "panicked" ELSE "diverged"
        differs == e.val # v
    IN  /\ Ends(v)
        /\ \/ v = Diverged /\ phase' = "diverged" /\ UNCHANGED <<cursor, report>>
           \/ /\ v # Diverged
              /\ e.kind # "RunCompleted" \/ (plan.mode = "substitute" /\ differs)
              /\ phase' = "diverged"
              /\ cursor' = IF plan.mode = "substitute" THEN at ELSE at + 1
              /\ UNCHANGED report
           \/ /\ v # Diverged
              /\ e.kind = "RunCompleted"
              /\ plan.mode = "substitute" => ~differs
              /\ phase' = ended
              /\ cursor' = rest
              /\ report' = (report \/ differs)
        /\ UNCHANGED <<recordVars, plan, steps, seen>>

-----------------------------------------------------------------------------

LiveCall(q) == \/ q.kind = "tool" /\ CallTool(q)
               \/ q.kind = "llm" /\ CallLlm(q)
               \/ q.kind = "approval" /\ ApprovalGate(q)
               \/ q.kind = "sample" /\ RolloutSample(q)
               \/ q.kind = "human" /\ AskHuman(q)
ReplayedCall(q) == \/ q.kind = "tool" /\ ReplayTool(q)
                   \/ q.kind = "llm" /\ ReplayLlm(q)
                   \/ q.kind = "approval" /\ ReplayApproval(q)
                   \/ q.kind = "sample" /\ ReplaySample(q)
                   \/ q.kind = "human" /\ ReplayHuman(q)

ReplayNext ==
    \/ \E q \in Requests : LiveCall(q) \/ ReplayedCall(q)
    \/ \E v \in BOOLEAN \union Errors : CompleteRecording(v) \/ CompleteReplay(v)
    \/ Crash
    \/ \E p \in Plans, same \in BOOLEAN : Load(p, same)

ReplaySpec == ReplayInit /\ [][ReplayNext]_rrVars

-----------------------------------------------------------------------------
(* Properties.                                                              *)

EventKinds == {"RunStarted", "RunCompleted", "Metadata", "ToolCall", "ToolResult", "LlmCall",
               "LlmResult", "ApprovalRequest", "ApprovalDecision", "ApprovalResponse",
               "SeedRead", "HumanRequest", "HumanResponse"}
Events == [kind: EventKinds, arg: {q.arg : q \in Requests} \union {"none"},
           val: Values \union Errors, by: {"asked", "fallback"}]
Entries == [req: Requests, out: Values \union Errors]

\* The types of the trace, the two runs, and the state of the replay: every
\* value read from a recorded result is an answer, and the steps counted are
\* calls that were made.
ReplayTypeOK ==
    /\ trace \in Seq(Events)
    /\ log \in Seq(Entries)
    /\ final \in BOOLEAN \union Errors \union {Pending}
    /\ phase \in {"record", "recorded", "replay", "ok", "diverged", "panicked", "rejected"}
    /\ plan \in Plans \union {NoPlan}
    /\ cursor \in Nat \ {0}
    /\ steps \in 0..Len(seen)
    /\ seen \in Seq(Entries)
    /\ report \in BOOLEAN

\* Answers the trace is meant to give: a denial is one, a failure is not.
Answered(e) == e.req.kind # "human" /\ e.out \in Values \union {Denied}
Answers(h) == {i \in DOMAIN h : Answered(h[i])}

\* f finds the answers of the replay among the recorded ones, in their order
\* and none twice.
Retells(f) ==
    /\ \A i \in Answers(seen) : seen[i] = log[f[i]]
    /\ \A i, j \in Answers(seen) : i < j => f[i] < f[j]

\* A substitution gives an agent, edited or not, recorded answers to the
\* recorded questions, in the recorded order and none twice, also after the
\* agent tried again after a divergence and when a crash cut the trace short
\* (replay_tool_call, replay_llm_call, replay_approval, replay_rollout_sample).
Substituted ==
    plan.mode = "substitute" => \E f \in [Answers(seen) -> Answers(log)] : Retells(f)

\* A replay, substitution or differential, that ends well and reports nothing
\* had every recorded answer and no other, from a trace that is whole
\* (complete_run and finish).  A try expression can hide a divergence, after
\* which answers may be skipped, so this is said of runs without one.
NoSilentDrift ==
    /\ phase = "ok"
    /\ plan.mode # "mutation"
    /\ ~report
    /\ \A e \in Range(seen) : e.out \notin {Failed, Diverged}
    => /\ final # Pending
       /\ \E f \in [Answers(seen) -> Answers(log)] :
             Retells(f) /\ Answers(log) = {f[i] : i \in Answers(seen)}

\* A recording whose every call is one the replay can give back.
Clean == /\ \A e \in Range(trace) : e.by = "asked"
         /\ \A e \in Range(log) : e.req.kind # "human" /\ e.out # Failed

\* An agent that did not change replays such a recording to its end: no step
\* diverges, though usage, cache and token events lie between its calls
\* (is_dispatch_metadata, next_approval_outcome_event).
CleanRunsReplay ==
    plan.mode = "substitute"
      /\ ~plan.edited /\ Clean /\ final # Pending
    => phase \in {"replay", "ok"} /\ IsPrefix(seen, log)

\* A mutation of such a recording leaves the answers before its step as they
\* were and replaces that step's answer, whatever comes between the calls: the
\* step validate_mutation counted in the trace is the one next_step counts.
StepOf(n) == Cardinality({i \in 1..n : log[i].req.kind \in Substitutable})
MutationExact ==
    phase = "replay" /\ plan.mode = "mutation" /\ ~plan.edited /\ Clean
    => \A n \in DOMAIN seen \intersect DOMAIN log :
          /\ StepOf(n) < plan.target => seen[n] = log[n]
          /\ StepOf(n) = plan.target /\ log[n].req.kind \in Substitutable
             => seen[n] = Entry(log[n].req, plan.replacement)

\* FEATURES.md: "every run replayable by construction".  An agent that did not
\* change replays its own recording to the end.
EveryRunReplays ==
    plan.mode = "substitute"
      /\ ~plan.edited /\ final # Pending
    => phase \in {"replay", "ok"}
=============================================================================
