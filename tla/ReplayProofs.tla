---------------------------- MODULE ReplayProofs ----------------------------
(***************************************************************************)
(* Record and replay, proved for any questions, answers, plans and bounds.  *)
(***************************************************************************)
EXTENDS RecordReplay, SequenceTheorems, FiniteSetTheorems, TLAPS

-----------------------------------------------------------------------------
(* Names and values. *)

\* The markers are seven values and no answers.
LEMMA MarksDiffer ==
    /\ Null \notin Errors \union {EndOfTrace, Pending} \union BOOLEAN
    /\ Failed \notin {Denied, Diverged, Invalid, EndOfTrace, Pending} \union BOOLEAN
    /\ Denied \notin {Diverged, Invalid, EndOfTrace, Pending} \union BOOLEAN
    /\ Diverged \notin {Invalid, EndOfTrace, Pending} \union BOOLEAN
    /\ Invalid \notin {EndOfTrace, Pending} \union BOOLEAN
    /\ EndOfTrace \notin {Pending} \union BOOLEAN
    /\ Pending \notin BOOLEAN
<1>1. /\ Marks[1] = Null /\ Marks[2] = Failed /\ Marks[3] = Denied
      /\ Marks[4] = Diverged /\ Marks[5] = Invalid /\ Marks[6] = EndOfTrace
      /\ Marks[7] = Pending
  BY DEF Marks
<1>2. /\ \A i, j \in 1..7 : Marks[i] = Marks[j] => i = j
      /\ \A i \in 1..7 : Marks[i] \notin BOOLEAN
  BY ReplayAssumption
<1>3. 1 \in 1..7 /\ 2 \in 1..7 /\ 3 \in 1..7 /\ 4 \in 1..7 /\ 5 \in 1..7
      /\ 6 \in 1..7 /\ 7 \in 1..7
  OBVIOUS
<1> HIDE DEF Marks
<1> QED BY <1>1, <1>2, <1>3 DEF Errors

\* The names of the events.
LEMMA KindNames ==
    /\ CallKind["tool"] = "ToolCall" /\ CallKind["llm"] = "LlmCall"
    /\ CallKind["approval"] = "ApprovalRequest"
    /\ CallKind["sample"] = "SeedRead" /\ CallKind["human"] = "HumanRequest"
    /\ ResultKind["tool"] = "ToolResult" /\ ResultKind["llm"] = "LlmResult"
    /\ ResultKind["approval"] = "ApprovalResponse"
    /\ ResultKind["human"] = "HumanResponse"
    /\ CallKinds = {"ToolCall", "LlmCall", "ApprovalRequest"}
    /\ ResultKinds = {"ToolResult", "LlmResult", "ApprovalResponse"}
<1>1. /\ CallKind["tool"] = "ToolCall" /\ CallKind["llm"] = "LlmCall"
      /\ CallKind["approval"] = "ApprovalRequest"
      /\ CallKind["sample"] = "SeedRead" /\ CallKind["human"] = "HumanRequest"
  BY DEF CallKind
<1>2. /\ ResultKind["tool"] = "ToolResult" /\ ResultKind["llm"] = "LlmResult"
      /\ ResultKind["approval"] = "ApprovalResponse"
      /\ ResultKind["human"] = "HumanResponse"
  BY DEF ResultKind
<1>3. CallKinds = {"ToolCall", "LlmCall", "ApprovalRequest"}
  BY <1>1 DEF CallKinds, Substitutable
<1>4. ResultKinds = {"ToolResult", "LlmResult", "ApprovalResponse"}
  BY <1>2 DEF ResultKinds, Substitutable
<1> QED BY <1>1, <1>2, <1>3, <1>4

\* Sequences of up to three elements.
LEMMA ShortSeqs ==
    ASSUME NEW S, NEW a \in S, NEW b \in S, NEW c \in S
    PROVE  /\ <<a>> \in Seq(S) /\ Len(<<a>>) = 1
           /\ <<a, b>> \in Seq(S) /\ Len(<<a, b>>) = 2
           /\ <<a, b, c>> \in Seq(S) /\ Len(<<a, b, c>>) = 3
OBVIOUS

\* The events a live run writes are events.
LEMMA EventTypes ==
    ASSUME NEW q \in Requests
    PROVE  /\ q.kind \in Kinds
           /\ Metadata \in Events /\ Event("RunStarted", "none", Null) \in Events
           /\ CallEvent(q) \in Events
           /\ \A v \in Values :
                 /\ [CallEvent(q) EXCEPT !.val = v] \in Events
                 /\ Event("ApprovalDecision", q.arg, v) \in Events
                 /\ q.kind # "sample" =>
                       /\ ResultEvent(q, v) \in Events
                       /\ \A by \in {"asked", "fallback"} :
                             [ResultEvent(q, v) EXCEPT !.by = by] \in Events
           /\ \A v \in BOOLEAN \union Errors : Event("RunCompleted", "none", v) \in Events
<1>1. q.kind \in Kinds
  BY ReplayAssumption
<1>2. /\ CallKind[q.kind] \in EventKinds
      /\ q.kind # "sample" => ResultKind[q.kind] \in EventKinds
  BY <1>1, KindNames DEF Kinds, EventKinds
<1>3. /\ Null \in Values /\ BOOLEAN \subseteq Values
      /\ {"Metadata", "RunStarted", "ApprovalDecision", "RunCompleted"} \subseteq EventKinds
  BY DEF Values, EventKinds
<1>4. ASSUME NEW k \in EventKinds, NEW a \in {q.arg, "none"}, NEW v \in Values \union Errors,
             NEW by \in {"asked", "fallback"}
      PROVE  /\ Event(k, a, v) \in Events
             /\ [Event(k, a, v) EXCEPT !.by = by] \in Events
             /\ \A u \in Values : [Event(k, a, v) EXCEPT !.val = u] \in Events
  BY DEF Event, Events
<1> QED BY <1>1, <1>2, <1>3, <1>4 DEF Metadata, CallEvent, ResultEvent

-----------------------------------------------------------------------------
(* The cursor. *)

\* From every position skip_dispatch_metadata finds a place to stop.
LEMMA SkipFacts ==
    ASSUME ReplayTypeOK, NEW n \in Nat \ {0}
    PROVE  /\ Skip(n) \in n..(n + Len(trace))
           /\ Skip(n) <= Len(trace) => ~IsMetadata(trace[Skip(n)])
           /\ \A i \in n..(Skip(n) - 1) : i <= Len(trace) /\ IsMetadata(trace[i])
<1> DEFINE Stop == {m \in Nat : m >= n /\ (m <= Len(trace) => ~IsMetadata(trace[m]))}
<1>1. Len(trace) \in Nat
  BY DEF ReplayTypeOK
<1>2. n + Len(trace) \in Stop
  BY <1>1
<1>3. PICK m \in Stop : \A k \in Stop : ~(<<k, m>> \in OpToRel(<, Nat))
  <2>1. Stop \subseteq Nat /\ Stop # {}
    BY <1>2
  <2> HIDE DEF Stop
  <2> QED BY <2>1, NatLessThanWellFounded, WFMin
<1>4. \A k \in Stop : ~(k < m)
  BY <1>3 DEF OpToRel
<1>5. m \in n..(n + Len(trace))
  BY <1>1, <1>2, <1>4
<1>6. \A i \in n..(m - 1) : i <= Len(trace) /\ IsMetadata(trace[i])
  BY <1>1, <1>4
<1>7. \E k \in n..(n + Len(trace)) :
         /\ k <= Len(trace) => ~IsMetadata(trace[k])
         /\ \A i \in n..(k - 1) : i <= Len(trace) /\ IsMetadata(trace[i])
  BY <1>3, <1>5, <1>6
<1> QED BY <1>7 DEF Skip

\* The cursor does not go back.
LEMMA SkipForward ==
    ASSUME ReplayTypeOK, NEW n \in Nat \ {0}
    PROVE  Skip(n) \in Nat \ {0} /\ Skip(n) >= n
<1>1. Len(trace) \in Nat
  BY DEF ReplayTypeOK
<1>2. Skip(n) \in n..(n + Len(trace))
  BY SkipFacts
<1> QED BY <1>1, <1>2

-----------------------------------------------------------------------------
(* Type correctness. *)

LEMMA ReplayTypeInit == ReplayInit => ReplayTypeOK
<1> SUFFICES ASSUME ReplayInit PROVE ReplayTypeOK
  OBVIOUS
<1>1. Event("RunStarted", "none", Null) \in Events
  BY DEF Event, Events, EventKinds, Values
<1>2. trace \in Seq(Events)
  BY <1>1, ShortSeqs DEF ReplayInit
<1>3. log \in Seq(Entries) /\ seen \in Seq(Entries) /\ Len(seen) = 0
  BY DEF ReplayInit
<1>4. steps \in 0..Len(seen) /\ cursor \in Nat \ {0}
  BY <1>3 DEF ReplayInit
<1> QED BY <1>2, <1>3, <1>4 DEF ReplayInit, ReplayTypeOK

\* A call of the live run adds its events and its entry.
LEMMA RecordsType ==
    ASSUME ReplayTypeOK, NEW q \in Requests, NEW out \in Values \union Errors,
           NEW events \in Seq(Events), Records(q, out, events)
    PROVE  ReplayTypeOK'
<1>1. trace' \in Seq(Events)
  BY ConcatProperties DEF Records, ReplayTypeOK
<1>2. log' \in Seq(Entries)
  BY DEF Records, ReplayTypeOK, Entries, Entry
<1> QED BY <1>1, <1>2 DEF Records, ReplayTypeOK, replayVars

LEMMA LiveType ==
    ASSUME ReplayTypeOK, NEW q \in Requests, LiveCall(q)
    PROVE  ReplayTypeOK'
<1>0. /\ AnswersTo[q] \subseteq Values
      /\ {Failed, Denied} \subseteq Errors /\ BOOLEAN \subseteq Values
      /\ TRUE \in Values /\ FALSE \in Values
  BY ReplayAssumption DEF Errors, Values
<1>1. CASE q.kind = "tool" /\ CallTool(q)
  <2>1. /\ <<CallEvent(q)>> \in Seq(Events)
        /\ \A v \in Values : <<CallEvent(q), ResultEvent(q, v)>> \in Seq(Events)
    BY <1>1, EventTypes, ShortSeqs
  <2> QED BY <1>0, <1>1, <2>1, RecordsType DEF CallTool
<1>2. CASE q.kind = "llm" /\ CallLlm(q)
  <2>1. /\ <<CallEvent(q), Metadata>> \in Seq(Events)
        /\ \A v \in Values, by \in {"asked", "fallback"} :
              <<CallEvent(q), Metadata, [ResultEvent(q, v) EXCEPT !.by = by]>> \in Seq(Events)
    BY <1>2, EventTypes, ShortSeqs
  <2> QED BY <1>0, <1>2, <2>1, RecordsType DEF CallLlm
<1>3. CASE q.kind = "approval" /\ ApprovalGate(q)
  <2> DEFINE decided(v) == <<CallEvent(q), Event("ApprovalDecision", q.arg, v), ResultEvent(q, v)>>
  <2>1. /\ <<CallEvent(q)>> \in Seq(Events) /\ <<Metadata>> \in Seq(Events)
        /\ decided(TRUE) \in Seq(Events) /\ decided(FALSE) \in Seq(Events)
    BY <1>0, <1>3, EventTypes, ShortSeqs
  <2>2. \/ Records(q, Failed, <<CallEvent(q)>>)
        \/ Records(q, Denied, decided(FALSE))
        \/ Records(q, TRUE, decided(TRUE) \o <<Metadata>>)
    BY <1>3 DEF ApprovalGate
  <2> HIDE DEF decided
  <2>3. decided(TRUE) \o <<Metadata>> \in Seq(Events)
    BY <2>1, ConcatProperties
  <2> QED BY <1>0, <2>1, <2>2, <2>3, RecordsType
<1>4. CASE q.kind = "sample" /\ RolloutSample(q)
  <2>1. \A v \in Values : <<[CallEvent(q) EXCEPT !.val = v]>> \in Seq(Events)
    BY EventTypes, ShortSeqs
  <2> QED BY <1>0, <1>4, <2>1, RecordsType DEF RolloutSample
<1>5. CASE q.kind = "human" /\ AskHuman(q)
  <2>1. /\ <<CallEvent(q)>> \in Seq(Events)
        /\ \A v \in Values : <<CallEvent(q), ResultEvent(q, v)>> \in Seq(Events)
    BY <1>5, EventTypes, ShortSeqs
  <2> QED BY <1>0, <1>5, <2>1, RecordsType DEF AskHuman
<1> QED BY <1>1, <1>2, <1>3, <1>4, <1>5 DEF LiveCall

\* A call of the replay is given an answer and moves the cursor on.
LEMMA GivesType ==
    ASSUME ReplayTypeOK, NEW q \in Requests, NEW out \in Values \union Errors,
           NEW c \in Nat \ {0}, NEW differs \in BOOLEAN, Gives(q, out, c, differs)
    PROVE  ReplayTypeOK'
<1>1. seen' \in Seq(Entries) /\ Len(seen') = Len(seen) + 1
  BY DEF Gives, ReplayTypeOK, Entries, Entry
<1>2. steps' \in 0..Len(seen')
  BY <1>1 DEF Gives, ReplayTypeOK
<1> QED BY <1>1, <1>2 DEF Gives, ReplayTypeOK, recordVars

\* What is read at a position is an event, or the end of the trace.
LEMMA ReadType ==
    ASSUME ReplayTypeOK, NEW n \in Nat \ {0}
    PROVE  /\ EventAt(n) \in Events \/ EventAt(n) = AtEof
           /\ EventAt(n).kind # "RunCompleted" => EventAt(n).val \in Values \union Errors
<1>1. n <= Len(trace) => trace[n] \in Events
  BY DEF ReplayTypeOK
<1> QED BY <1>1 DEF EventAt, AtEof, Event, Events

LEMMA ReplayedType ==
    ASSUME ReplayTypeOK, NEW q \in Requests, ReplayedCall(q)
    PROVE  ReplayTypeOK'
<1> DEFINE at == Skip(cursor)
           call == EventAt(at)
           after == Skip(at + 1)
           result == EventAt(after)
           same == call = CallEvent(q)
<1>1. cursor \in Nat \ {0}
  BY DEF ReplayTypeOK
<1>2. at \in Nat \ {0} /\ at + 1 \in Nat \ {0}
  BY <1>1, SkipForward
<1>3. after \in Nat \ {0} /\ after + 1 \in Nat \ {0}
  BY <1>2, SkipForward
<1>4. /\ AnswersTo[q] \subseteq Values /\ Errors \subseteq Values \union Errors
      /\ {Failed, Denied, Diverged, Invalid} = Errors
      /\ TRUE \in Values /\ FALSE \in Values /\ Null \in Values
  BY ReplayAssumption DEF Errors, Values
<1>5. plan.replacement \in Values
  BY <1>4, ReplayAssumption DEF ReplayTypeOK, NoPlan
<1>6. /\ result.kind \in ResultKinds => result.val \in Values \union Errors
      /\ result.kind = "LlmResult" => result.val \in Values \union Errors
      /\ call.kind = "SeedRead" => call.val \in Values \union Errors
  BY <1>2, <1>3, ReadType, KindNames
<1>7. CASE q.kind = "tool" /\ ReplayTool(q)
  <2> DEFINE out == IF Swapped
                    THEN IF Paired(call, result) THEN plan.replacement ELSE Invalid
                    ELSE IF result.kind \in ResultKinds THEN result.val ELSE Diverged
  <2>1. out \in Values \union Errors
    BY <1>4, <1>5, <1>6
  <2>2. \/ Gives(q, Diverged, at, FALSE) \/ Gives(q, Diverged, at + 1, FALSE)
        \/ Gives(q, out, after + 1, ~same)
    BY <1>7 DEF ReplayTool
  <2> HIDE DEF at, after, out, same
  <2> QED BY <1>2, <1>3, <1>4, <2>1, <2>2, GivesType
<1>8. CASE q.kind = "llm" /\ ReplayLlm(q)
  <2> DEFINE json == IF result.kind \in ResultKinds THEN result.val ELSE Null
             asked == result.kind = "LlmResult" /\ result.arg = q.arg /\ result.by = "asked"
             out == IF ~Swapped THEN json
                    ELSE IF Paired(call, result) THEN plan.replacement ELSE Invalid
  <2>1. out \in Values \union Errors
    BY <1>4, <1>5, <1>6
  <2>2. \/ Gives(q, Diverged, at, FALSE) \/ Gives(q, Diverged, after + 1, FALSE)
        \/ asked /\ Gives(q, result.val, after + 1, FALSE)
        \/ Gives(q, Failed, after + 1, FALSE)
        \/ \E v \in AnswersTo[q] : Gives(q, v, after + 1, v # result.val)
        \/ Gives(q, out, after + 1, ~same)
    BY <1>8 DEF ReplayLlm
  <2>3. asked => result.val \in Values \union Errors
    BY <1>6
  <2> HIDE DEF at, after, result, out, same, asked
  <2> QED BY <1>2, <1>3, <1>4, <2>1, <2>2, <2>3, GivesType
<1>9. CASE q.kind = "approval" /\ ReplayApproval(q)
  <2> DEFINE aft == IF EventAt(after).kind = "ApprovalDecision" THEN Skip(after + 1) ELSE after
             res == EventAt(aft)
             out == IF Swapped
                    THEN IF Paired(call, res) /\ plan.replacement \in BOOLEAN
                           THEN Gate(plan.replacement) ELSE Invalid
                    ELSE IF res.kind \in ResultKinds THEN Gate(AsBool(res.val)) ELSE Diverged
  <2>1. out \in Values \union Errors
    BY <1>4 DEF Gate
  <2>2. aft + 1 \in Nat \ {0}
    BY <1>3, SkipForward
  <2>3. \/ Gives(q, Diverged, at, FALSE) \/ Gives(q, Diverged, at + 1, FALSE)
        \/ Gives(q, out, aft + 1, ~same)
    BY <1>9 DEF ReplayApproval
  <2> HIDE DEF at, after, aft, out, same
  <2> QED BY <1>2, <1>3, <1>4, <2>1, <2>2, <2>3, GivesType
<1>10. CASE q.kind = "sample" /\ ReplaySample(q)
  <2>1. \/ call.kind = "SeedRead" /\ Gives(q, call.val, at + 1, FALSE)
        \/ Gives(q, Diverged, at, FALSE)
    BY <1>10 DEF ReplaySample
  <2> HIDE DEF at, call
  <2> QED BY <1>2, <1>3, <1>4, <1>6, <2>1, GivesType
<1>11. CASE q.kind = "human" /\ ReplayHuman(q)
  BY <1>1, <1>4, <1>11, GivesType DEF ReplayHuman
<1> QED BY <1>7, <1>8, <1>9, <1>10, <1>11 DEF ReplayedCall

LEMMA ReplayTypeStep == ReplayTypeOK /\ [ReplayNext]_rrVars => ReplayTypeOK'
<1> SUFFICES ASSUME ReplayTypeOK, [ReplayNext]_rrVars PROVE ReplayTypeOK'
  OBVIOUS
<1>1. CASE UNCHANGED rrVars
  BY <1>1 DEF ReplayTypeOK, rrVars, recordVars, replayVars
<1>2. ASSUME NEW v \in BOOLEAN \union Errors, CompleteRecording(v)
      PROVE  ReplayTypeOK'
  <2>1. Event("RunCompleted", "none", v) \in Events
    BY DEF Event, Events, EventKinds, Values
  <2>2. trace' \in Seq(Events)
    BY <1>2, <2>1 DEF CompleteRecording, ReplayTypeOK
  <2> QED BY <1>2, <2>2 DEF CompleteRecording, ReplayTypeOK
<1>3. ASSUME NEW v \in BOOLEAN \union Errors, CompleteReplay(v)
      PROVE  ReplayTypeOK'
  <2> DEFINE at == Skip(cursor)
             rest == Skip(at + 1)
  <2>0. cursor \in Nat \ {0}
    BY DEF ReplayTypeOK
  <2>1. at \in Nat \ {0} /\ at + 1 \in Nat \ {0}
    BY <2>0, SkipForward
  <2>2. rest \in Nat \ {0}
    BY <2>1, SkipForward
  <2>3. cursor' \in {cursor, at, at + 1, rest}
    BY <1>3 DEF CompleteReplay
  <2>4. phase' \in {"ok", "panicked", "diverged"}
    BY <1>3 DEF CompleteReplay
  <2>5. report' \in BOOLEAN /\ UNCHANGED <<trace, log, final, plan, steps, seen>>
    BY <1>3 DEF CompleteReplay, recordVars, ReplayTypeOK
  <2> HIDE DEF at, rest
  <2> QED BY <2>1, <2>2, <2>3, <2>4, <2>5 DEF ReplayTypeOK
<1>4. CASE Crash
  <2>1. PICK n \in (LastCallAt - 1)..Len(trace) : trace' = SubSeq(trace, 1, n)
    BY <1>4 DEF Crash
  <2>2. n \in Int /\ n <= Len(trace) /\ \A i \in 1..n : trace[i] \in Events
    BY <2>1 DEF ReplayTypeOK
  <2>3. trace' \in Seq(Events)
    BY <2>1, <2>2, SubSeqProperties
  <2> QED BY <1>4, <2>3 DEF Crash, ReplayTypeOK
<1>5. ASSUME NEW p \in Plans, NEW same \in BOOLEAN, Load(p, same)
      PROVE  ReplayTypeOK'
  BY <1>5 DEF Load, ReplayTypeOK, recordVars
<1> QED BY <1>1, <1>2, <1>3, <1>4, <1>5, LiveType, ReplayedType DEF ReplayNext

\* Type correctness: what replay substitutes for a call is an answer or an
\* error, never the value of an event that is not a result.
THEOREM ReplayTypeCorrect == ReplaySpec => []ReplayTypeOK
  BY ReplayTypeInit, ReplayTypeStep, PTL DEF ReplaySpec

-----------------------------------------------------------------------------
(* The shape of a trace. *)

RunStarted == Event("RunStarted", "none", Null)
RunCompleted(v) == Event("RunCompleted", "none", v)
Decision(q, v) == Event("ApprovalDecision", q.arg, v)
Sampled(q, v) == [CallEvent(q) EXCEPT !.val = v]
AnsweredBy(q, v, by) == [ResultEvent(q, v) EXCEPT !.by = by]

\* Position i of the trace tr holds the event e, unless a crash cut it off.
Has(tr, i, e) == i <= Len(tr) => tr[i] = e

\* The call that the log entry e stands for wrote the positions p to n - 1.
Written(tr, e, p, n) ==
    /\ e.req.kind # "sample" => Has(tr, p, CallEvent(e.req))
    /\ \/ /\ e.req.kind = "sample" /\ e.out \in Values /\ n = p + 1
          /\ Has(tr, p, Sampled(e.req, e.out))
       \/ e.req.kind \in {"tool", "approval", "human"} /\ e.out = Failed /\ n = p + 1
       \/ /\ e.req.kind \in {"tool", "human"} /\ e.out \in Values /\ n = p + 2
          /\ Has(tr, p + 1, ResultEvent(e.req, e.out))
       \/ /\ e.req.kind = "llm" /\ e.out = Failed /\ n = p + 2
          /\ Has(tr, p + 1, Metadata)
       \/ /\ e.req.kind = "llm" /\ e.out \in Values /\ n = p + 3
          /\ Has(tr, p + 1, Metadata)
          /\ \E by \in {"asked", "fallback"} : Has(tr, p + 2, AnsweredBy(e.req, e.out, by))
       \/ /\ e.req.kind = "approval" /\ e.out = Denied /\ n = p + 3
          /\ Has(tr, p + 1, Decision(e.req, FALSE))
          /\ Has(tr, p + 2, ResultEvent(e.req, FALSE))
       \/ /\ e.req.kind = "approval" /\ e.out = TRUE /\ n = p + 4
          /\ Has(tr, p + 1, Decision(e.req, TRUE))
          /\ Has(tr, p + 2, ResultEvent(e.req, TRUE))
          /\ Has(tr, p + 3, Metadata)

\* s gives the position of the first event of each call, and of the event
\* after the last call.
Starts(s) ==
    /\ s \in [1..(Len(log) + 1) -> Nat]
    /\ s[1] = 2
    /\ \A i, j \in 1..(Len(log) + 1) : i < j => s[i] < s[j]
    /\ \A p \in 2..(s[Len(log) + 1] - 1) :
          \E k \in 1..Len(log) : s[k] <= p /\ p < s[k + 1]

\* The trace is that of the run in the log, or what a crash left of it.
Shape(s) ==
    /\ Starts(s)
    /\ Has(trace, 1, RunStarted)
    /\ \A k \in 1..Len(log) : Written(trace, log[k], s[k], s[k + 1])
    /\ phase = "record" => Len(trace) = s[Len(log) + 1] - 1 /\ final = Pending
    /\ phase \in {"record", "recorded"} =>
          plan = NoPlan /\ seen = <<>> /\ steps = 0 /\ report = FALSE
    /\ final = Pending => Len(trace) < s[Len(log) + 1]
    /\ final # Pending => /\ Len(trace) = s[Len(log) + 1]
                          /\ trace[Len(trace)] = RunCompleted(final)
                          /\ MayEnd(log, final) /\ final # Diverged

\* Events of a call stay what they are when the trace grows or is cut.
LEMMA WrittenKept ==
    ASSUME NEW tr, NEW tr2, NEW e, NEW p \in Nat, NEW n, Written(tr, e, p, n),
           \A i \in p..(n - 1) : i <= Len(tr2) => i <= Len(tr) /\ tr2[i] = tr[i]
    PROVE  Written(tr2, e, p, n)
<1>1. \A i, ev : i \in p..(n - 1) /\ Has(tr, i, ev) => Has(tr2, i, ev)
  BY DEF Has
<1>2. n \in {p + 1, p + 2, p + 3, p + 4}
  BY DEF Written
<1>3. /\ p \in p..(n - 1)
      /\ n \in {p + 2, p + 3, p + 4} => p + 1 \in p..(n - 1)
      /\ n \in {p + 3, p + 4} => p + 2 \in p..(n - 1)
      /\ n = p + 4 => p + 3 \in p..(n - 1)
  BY <1>2
<1> QED BY <1>1, <1>3 DEF Written

LEMMA ShapeInit == ReplayInit => \E s : Shape(s)
<1> SUFFICES ASSUME ReplayInit PROVE \E s : Shape(s)
  OBVIOUS
<1>1. PICK s : s = [i \in 1..1 |-> 2]
  OBVIOUS
<1>2. Len(log) = 0 /\ Len(trace) = 1 /\ trace[1] = RunStarted
  BY DEF ReplayInit, RunStarted
<1>3. Starts(s)
  BY <1>1, <1>2 DEF Starts
<1>4. Len(trace) = s[Len(log) + 1] - 1
  BY <1>1, <1>2
<1> QED BY <1>2, <1>3, <1>4 DEF ReplayInit, Shape, Has

\* A call of the live run adds a block to the trace.
LEMMA ShapeRecords ==
    ASSUME ReplayTypeOK, NEW s, Shape(s), NEW q \in Requests, NEW out,
           NEW events \in Seq(Events), Len(events) > 0, Records(q, out, events),
           Written(trace \o events, Entry(q, out), Len(trace) + 1,
                   Len(trace) + Len(events) + 1)
    PROVE  \E s2 : Shape(s2)'
<1> DEFINE L == Len(log)
<1>0. /\ L \in Nat /\ Len(trace) \in Nat /\ Len(events) \in Nat
      /\ trace \in Seq(Events) /\ log \in Seq(Entries)
  BY DEF ReplayTypeOK
<1>1. PICK s2 : s2 = [i \in 1..(L + 2) |->
                        IF i <= L + 1 THEN s[i] ELSE Len(trace) + Len(events) + 1]
  OBVIOUS
<1>2. /\ phase = "record" /\ trace' = trace \o events
      /\ log' = Append(log, Entry(q, out)) /\ UNCHANGED <<final, replayVars>>
  BY DEF Records
<1>3. /\ Len(log') = L + 1 /\ log'[L + 1] = Entry(q, out)
      /\ \A k \in 1..L : log'[k] = log[k]
  BY <1>0, <1>2
<1>4. /\ Len(trace') = Len(trace) + Len(events)
      /\ \A i \in 1..Len(trace) : trace'[i] = trace[i]
  BY <1>0, <1>2, ConcatProperties
<1>5. /\ s \in [1..(L + 1) -> Nat] /\ s[L + 1] = Len(trace) + 1 /\ final = Pending
      /\ \A i \in 1..(L + 1) : s[i] <= s[L + 1] /\ s[i] >= 2
  <2>0. /\ s \in [1..(L + 1) -> Nat] /\ L + 1 \in 1..(L + 1) /\ 1 \in 1..(L + 1)
        /\ Len(trace) = s[L + 1] - 1 /\ final = Pending
    BY <1>0, <1>2 DEF Shape, Starts
  <2>1. /\ s \in [1..(L + 1) -> Nat] /\ s[L + 1] = Len(trace) + 1 /\ final = Pending
    <3>1. s[L + 1] \in Nat
      BY <2>0
    <3> QED BY <1>0, <2>0, <3>1
  <2>2. \A i \in 1..(L + 1) : s[i] \in Nat /\ (i = L + 1 \/ s[i] < s[L + 1])
    <3>1. \A i, j \in 1..(L + 1) : i < j => s[i] < s[j]
      BY DEF Shape, Starts
    <3>2. \A i \in 1..(L + 1) : i = L + 1 \/ i < L + 1
      BY <1>0
    <3> QED BY <2>0, <2>1, <3>1, <3>2
  <2>3. \A i \in 1..(L + 1) : i = 1 \/ s[1] < s[i]
    BY <1>0 DEF Shape, Starts
  <2> QED BY <1>0, <2>1, <2>2, <2>3, SMTT(30) DEF Shape, Starts
<1>6. /\ s2 \in [1..(L + 2) -> Nat] /\ s2[L + 2] = Len(trace) + Len(events) + 1
      /\ \A i \in 1..(L + 1) : s2[i] = s[i]
  BY <1>0, <1>1, <1>5
<1>7. \A i, j \in 1..(L + 2) : i < j => s2[i] < s2[j]
  <2> SUFFICES ASSUME NEW i \in 1..(L + 2), NEW j \in 1..(L + 2), i < j
               PROVE  s2[i] < s2[j]
    OBVIOUS
  <2>1. CASE j <= L + 1
    <3>1. i \in 1..(L + 1) /\ j \in 1..(L + 1)
      BY <1>0, <2>1
    <3>2. \A a, b \in 1..(L + 1) : a < b => s[a] < s[b]
      BY DEF Shape, Starts
    <3>3. s[i] < s[j]
      BY <3>1, <3>2
    <3> QED BY <1>6, <3>1, <3>3
  <2>2. CASE j = L + 2
    <3>1. i \in 1..(L + 1)
      BY <1>0, <2>2
    <3>2. s2[i] = s[i] /\ s[i] \in Nat /\ s[i] <= Len(trace) + 1
      BY <1>5, <1>6, <3>1
    <3>3. s2[j] = Len(trace) + Len(events) + 1
      BY <1>6, <2>2
    <3> QED BY <1>0, <3>2, <3>3
  <2> QED BY <1>0, <2>1, <2>2
<1>8. \A p \in 2..(s2[L + 2] - 1) : \E k \in 1..(L + 1) : s2[k] <= p /\ p < s2[k + 1]
  <2> SUFFICES ASSUME NEW p \in 2..(s2[L + 2] - 1)
               PROVE  \E k \in 1..(L + 1) : s2[k] <= p /\ p < s2[k + 1]
    OBVIOUS
  <2>1. CASE p < s[L + 1]
    <3>1. p \in 2..(s[L + 1] - 1)
      BY <1>0, <1>5, <1>6, <2>1
    <3>2. PICK k \in 1..L : s[k] <= p /\ p < s[k + 1]
      BY <3>1 DEF Shape, Starts
    <3>3. k \in 1..(L + 1) /\ k + 1 \in 1..(L + 1)
      BY <1>0, <3>2
    <3> QED BY <1>6, <3>2, <3>3
  <2>2. CASE p >= s[L + 1]
    <3>1. L + 1 \in 1..(L + 1) /\ (L + 1) + 1 = L + 2
      BY <1>0
    <3>2. s2[L + 2] \in Nat /\ s2[L + 1] = s[L + 1]
      BY <1>0, <1>6, <3>1
    <3>3. s2[L + 1] <= p /\ p < s2[L + 2]
      BY <2>2, <3>2
    <3> HIDE DEF L
    <3> QED BY <3>1, <3>3
  <2> QED BY <1>0, <1>5, <1>6, <2>1, <2>2
<1>9. Starts(s2)'
  <2>1. 1 \in 1..(L + 1) /\ s2[1] = 2
    BY <1>0, <1>6 DEF Shape, Starts
  <2>2. Len(log') + 1 = L + 2
    BY <1>0, <1>3
  <2> HIDE DEF L
  <2> QED BY <1>3, <1>6, <1>7, <1>8, <2>1, <2>2 DEF Starts
<1>10. ASSUME NEW k \in 1..(L + 1) PROVE Written(trace', log'[k], s2[k], s2[k + 1])
  <2>1. CASE k = L + 1
    <3>1. /\ log'[k] = Entry(q, out) /\ s2[k] = Len(trace) + 1
          /\ s2[k + 1] = Len(trace) + Len(events) + 1
      BY <1>0, <1>3, <1>5, <1>6, <2>1, SMTT(30)
    <3> QED BY <1>2, <3>1
  <2>2. CASE k \in 1..L
    <3>1. Written(trace, log[k], s[k], s[k + 1])
      BY <2>2 DEF Shape
    <3>0. k \in 1..(L + 1) /\ k + 1 \in 1..(L + 1)
      BY <1>0, <2>2
    <3>2. s[k] \in Nat /\ s[k] >= 2 /\ s[k + 1] \in Nat /\ s[k + 1] <= Len(trace) + 1
      BY <1>5, <3>0
    <3>3. \A i \in s[k]..(s[k + 1] - 1) :
             i <= Len(trace') => i <= Len(trace) /\ trace'[i] = trace[i]
      BY <1>0, <1>4, <3>2, SMTT(30)
    <3>4. Written(trace', log[k], s[k], s[k + 1])
      BY <3>1, <3>2, <3>3, WrittenKept
    <3>5. log'[k] = log[k] /\ s2[k] = s[k] /\ s2[k + 1] = s[k + 1]
      BY <1>3, <1>6, <2>2, <3>0
    <3> QED BY <3>4, <3>5
  <2> QED BY <1>0, <2>1, <2>2
<1>11. Has(trace', 1, RunStarted)
  <2>1. Len(trace) >= 1
    BY <1>0, <1>5
  <2> QED BY <1>0, <1>4, <2>1 DEF Shape, Has
<1>12. /\ Len(trace') = s2[Len(log') + 1] - 1 /\ final' = Pending
       /\ Len(trace') < s2[Len(log') + 1]
  BY <1>0, <1>2, <1>3, <1>4, <1>5, <1>6
<1>13. plan' = NoPlan /\ seen' = <<>> /\ steps' = 0 /\ report' = FALSE
  BY <1>2 DEF Shape, replayVars
<1>14. \A k \in 1..Len(log') : Written(trace', log'[k], s2[k], s2[k + 1])
  BY <1>3, <1>10
<1>15. Shape(s2)'
  BY <1>9, <1>11, <1>12, <1>13, <1>14 DEF Shape
<1> QED BY <1>15

\* The events ev stand in tr from position p on.
Placed(tr, p, ev) ==
    /\ Len(ev) >= 1 => Has(tr, p, ev[1])
    /\ Len(ev) >= 2 => Has(tr, p + 1, ev[2])
    /\ Len(ev) >= 3 => Has(tr, p + 2, ev[3])
    /\ Len(ev) >= 4 => Has(tr, p + 3, ev[4])

\* Events whose writing is the call's are a block wherever they are written.
LEMMA BlockShape ==
    ASSUME ReplayTypeOK, NEW s, Shape(s), NEW q \in Requests, NEW out,
           NEW ev \in Seq(Events), Len(ev) > 0, Records(q, out, ev),
           \A tr : \A p \in Nat :
              Placed(tr, p, ev) => Written(tr, Entry(q, out), p, p + Len(ev))
    PROVE  \E s2 : Shape(s2)'
<1>0. trace \in Seq(Events) /\ Len(trace) \in Nat /\ Len(ev) \in Nat
  BY DEF ReplayTypeOK
<1>1. PICK tr : tr = trace \o ev
  OBVIOUS
<1>2. PICK n : n = Len(trace)
  OBVIOUS
<1>3. \A i \in 1..(n + Len(ev)) : tr[i] = IF i <= n THEN trace[i] ELSE ev[i - n]
  BY <1>0, <1>1, <1>2, ConcatProperties
<1>4. \A i \in 1..Len(ev) : tr[n + i] = ev[i]
  BY <1>0, <1>2, <1>3
<1>5. n \in Nat /\ n + 1 \in Nat /\ n + 2 = (n + 1) + 1 /\ n + 3 = (n + 1) + 2 /\ n + 4 = (n + 1) + 3
  BY <1>0, <1>2
<1>6. /\ Len(ev) >= 1 => 1 \in 1..Len(ev)
      /\ Len(ev) >= 2 => 2 \in 1..Len(ev)
      /\ Len(ev) >= 3 => 3 \in 1..Len(ev)
      /\ Len(ev) >= 4 => 4 \in 1..Len(ev)
  BY <1>0
<1>7. Placed(tr, n + 1, ev)
  BY <1>4, <1>5, <1>6 DEF Placed, Has
<1>8. Written(tr, Entry(q, out), n + 1, (n + 1) + Len(ev))
  BY <1>5, <1>7
<1>9. (n + 1) + Len(ev) = Len(trace) + Len(ev) + 1
  BY <1>0, <1>2
<1> QED BY <1>1, <1>2, <1>8, <1>9, ShapeRecords

\* What the calls of a live run write.
LEMMA LiveShape ==
    ASSUME ReplayTypeOK, NEW s, Shape(s), NEW q \in Requests, LiveCall(q)
    PROVE  \E s2 : Shape(s2)'
<1>0. AnswersTo[q] \subseteq Values /\ TRUE \in Values /\ FALSE \in Values
  BY ReplayAssumption DEF Values
<1>e. \A out : Entry(q, out).req = q /\ Entry(q, out).out = out
  BY DEF Entry
<1>1. ASSUME NEW ev, ev = <<CallEvent(q)>>, Records(q, Failed, ev),
             q.kind \in {"tool", "approval", "human"}
      PROVE  \E s2 : Shape(s2)'
  <2>1. ev \in Seq(Events) /\ Len(ev) = 1 /\ ev[1] = CallEvent(q)
    BY <1>1, EventTypes, ShortSeqs
  <2>2. \A tr : \A p \in Nat : Placed(tr, p, ev) => Written(tr, Entry(q, Failed), p, p + Len(ev))
    <3> SUFFICES ASSUME NEW tr, NEW p \in Nat, Placed(tr, p, ev)
                 PROVE  Written(tr, Entry(q, Failed), p, p + Len(ev))
      OBVIOUS
    <3>1. Has(tr, p, CallEvent(q)) /\ p + Len(ev) = p + 1
      BY <2>1 DEF Placed
    <3>2. q.kind # "sample" /\ q.kind \in {"tool", "approval", "human"}
      BY <1>1
    <3> QED BY <1>e, <3>1, <3>2 DEF Written
  <2>3. Len(ev) > 0
    BY <2>1
  <2>4. Records(q, Failed, ev)
    BY <1>1
  <2> QED BY <2>1, <2>2, <2>3, <2>4, BlockShape
<1>2. ASSUME NEW v \in Values, NEW ev, ev = <<CallEvent(q), ResultEvent(q, v)>>,
             Records(q, v, ev), q.kind \in {"tool", "human"}
      PROVE  \E s2 : Shape(s2)'
  <2>1. ev \in Seq(Events) /\ Len(ev) = 2 /\ ev[1] = CallEvent(q) /\ ev[2] = ResultEvent(q, v)
    BY <1>2, EventTypes, ShortSeqs
  <2>2. \A tr : \A p \in Nat : Placed(tr, p, ev) => Written(tr, Entry(q, v), p, p + Len(ev))
    <3> SUFFICES ASSUME NEW tr, NEW p \in Nat, Placed(tr, p, ev)
                 PROVE  Written(tr, Entry(q, v), p, p + Len(ev))
      OBVIOUS
    <3>1. Has(tr, p, CallEvent(q)) /\ Has(tr, p + 1, ResultEvent(q, v))
      BY <2>1 DEF Placed
    <3>2. p + Len(ev) = p + 2
      BY <2>1
    <3> QED BY <1>2, <1>e, <3>1, <3>2 DEF Written
  <2>3. Len(ev) > 0
    BY <2>1
  <2>4. Records(q, v, ev)
    BY <1>2
  <2> QED BY <2>1, <2>2, <2>3, <2>4, BlockShape
<1>3. ASSUME NEW ev, ev = <<CallEvent(q), Metadata>>, Records(q, Failed, ev), q.kind = "llm"
      PROVE  \E s2 : Shape(s2)'
  <2>1. ev \in Seq(Events) /\ Len(ev) = 2 /\ ev[1] = CallEvent(q) /\ ev[2] = Metadata
    BY <1>3, EventTypes, ShortSeqs
  <2>2. \A tr : \A p \in Nat : Placed(tr, p, ev) => Written(tr, Entry(q, Failed), p, p + Len(ev))
    <3> SUFFICES ASSUME NEW tr, NEW p \in Nat, Placed(tr, p, ev)
                 PROVE  Written(tr, Entry(q, Failed), p, p + Len(ev))
      OBVIOUS
    <3>1. Has(tr, p, CallEvent(q)) /\ Has(tr, p + 1, Metadata)
      BY <2>1 DEF Placed
    <3>2. p + Len(ev) = p + 2
      BY <2>1
    <3> QED BY <1>3, <1>e, <3>1, <3>2 DEF Written
  <2>3. Len(ev) > 0
    BY <2>1
  <2>4. Records(q, Failed, ev)
    BY <1>3
  <2> QED BY <2>1, <2>2, <2>3, <2>4, BlockShape
<1>4. ASSUME NEW v \in Values, NEW by \in {"asked", "fallback"}, NEW ev,
             ev = <<CallEvent(q), Metadata, AnsweredBy(q, v, by)>>,
             Records(q, v, ev), q.kind = "llm"
      PROVE  \E s2 : Shape(s2)'
  <2>1. /\ ev \in Seq(Events) /\ Len(ev) = 3
        /\ ev[1] = CallEvent(q) /\ ev[2] = Metadata /\ ev[3] = AnsweredBy(q, v, by)
    BY <1>4, EventTypes, ShortSeqs DEF AnsweredBy
  <2>2. \A tr : \A p \in Nat : Placed(tr, p, ev) => Written(tr, Entry(q, v), p, p + Len(ev))
    <3> SUFFICES ASSUME NEW tr, NEW p \in Nat, Placed(tr, p, ev)
                 PROVE  Written(tr, Entry(q, v), p, p + Len(ev))
      OBVIOUS
    <3>1. /\ Has(tr, p, CallEvent(q)) /\ Has(tr, p + 1, Metadata)
          /\ Has(tr, p + 2, AnsweredBy(q, v, by))
      BY <2>1 DEF Placed
    <3>2. p + Len(ev) = p + 3
      BY <2>1
    <3> QED BY <1>4, <1>e, <3>1, <3>2 DEF Written
  <2>3. Len(ev) > 0
    BY <2>1
  <2>4. Records(q, v, ev)
    BY <1>4
  <2> QED BY <2>1, <2>2, <2>3, <2>4, BlockShape
<1>5. ASSUME NEW ev, ev = <<CallEvent(q), Decision(q, FALSE), ResultEvent(q, FALSE)>>,
             Records(q, Denied, ev), q.kind = "approval"
      PROVE  \E s2 : Shape(s2)'
  <2>1. /\ ev \in Seq(Events) /\ Len(ev) = 3
        /\ ev[1] = CallEvent(q) /\ ev[2] = Decision(q, FALSE) /\ ev[3] = ResultEvent(q, FALSE)
    BY <1>0, <1>5, EventTypes, ShortSeqs DEF Decision
  <2>2. \A tr : \A p \in Nat : Placed(tr, p, ev) => Written(tr, Entry(q, Denied), p, p + Len(ev))
    <3> SUFFICES ASSUME NEW tr, NEW p \in Nat, Placed(tr, p, ev)
                 PROVE  Written(tr, Entry(q, Denied), p, p + Len(ev))
      OBVIOUS
    <3>1. /\ Has(tr, p, CallEvent(q)) /\ Has(tr, p + 1, Decision(q, FALSE))
          /\ Has(tr, p + 2, ResultEvent(q, FALSE))
      <4>1. Len(ev) >= 1 /\ Len(ev) >= 2 /\ Len(ev) >= 3
        BY <2>1
      <4> QED BY <2>1, <4>1, Zenon DEF Placed
    <3>2. p + Len(ev) = p + 3
      BY <2>1
    <3> QED BY <1>5, <1>e, <3>1, <3>2 DEF Written
  <2>3. Len(ev) > 0
    BY <2>1
  <2>4. Records(q, Denied, ev)
    BY <1>5
  <2> QED BY <2>1, <2>2, <2>3, <2>4, BlockShape
<1>6. ASSUME NEW d, d = <<CallEvent(q), Decision(q, TRUE), ResultEvent(q, TRUE)>>,
             NEW ev, ev = d \o <<Metadata>>, Records(q, TRUE, ev), q.kind = "approval"
      PROVE  \E s2 : Shape(s2)'
  <2>1. /\ d \in Seq(Events) /\ Len(d) = 3
        /\ d[1] = CallEvent(q) /\ d[2] = Decision(q, TRUE) /\ d[3] = ResultEvent(q, TRUE)
    BY <1>0, <1>6, EventTypes, ShortSeqs DEF Decision
  <2>0. PICK m : m = <<Metadata>>
    OBVIOUS
  <2>2. m \in Seq(Events) /\ Len(m) = 1 /\ m[1] = Metadata
    BY <2>0, EventTypes, ShortSeqs
  <2>3. /\ ev \in Seq(Events) /\ Len(ev) = 4
        /\ \A i \in 1..4 : ev[i] = IF i <= 3 THEN d[i] ELSE m[i - 3]
    <3>1. ev = d \o m
      BY <1>6, <2>0
    <3>2. /\ ev \in Seq(Events) /\ Len(ev) = Len(d) + Len(m)
          /\ \A i \in 1..(Len(d) + Len(m)) : ev[i] = IF i <= Len(d) THEN d[i] ELSE m[i - Len(d)]
      BY <2>1, <2>2, <3>1, ConcatProperties, Zenon
    <3>3. Len(d) = 3 /\ Len(m) = 1 /\ 3 + 1 = 4
      BY <2>1, <2>2
    <3> QED BY <3>2, <3>3
  <2>4. /\ ev[1] = CallEvent(q) /\ ev[2] = Decision(q, TRUE)
        /\ ev[3] = ResultEvent(q, TRUE) /\ ev[4] = Metadata
    <3>1. ev[1] = d[1] /\ ev[2] = d[2] /\ ev[3] = d[3] /\ ev[4] = m[1]
      BY <2>3
    <3> QED BY <2>1, <2>2, <3>1, Zenon
  <2>5. \A tr : \A p \in Nat : Placed(tr, p, ev) => Written(tr, Entry(q, TRUE), p, p + Len(ev))
    <3> SUFFICES ASSUME NEW tr, NEW p \in Nat, Placed(tr, p, ev)
                 PROVE  Written(tr, Entry(q, TRUE), p, p + Len(ev))
      OBVIOUS
    <3>1. /\ Has(tr, p, CallEvent(q)) /\ Has(tr, p + 1, Decision(q, TRUE))
          /\ Has(tr, p + 2, ResultEvent(q, TRUE)) /\ Has(tr, p + 3, Metadata)
      <4>1. Len(ev) >= 1 /\ Len(ev) >= 2 /\ Len(ev) >= 3 /\ Len(ev) >= 4
        BY <2>3
      <4> QED BY <2>4, <4>1, Zenon DEF Placed
    <3>2. p + Len(ev) = p + 4
      BY <2>3, <2>4
    <3> QED BY <1>6, <1>e, <3>1, <3>2 DEF Written
  <2>6. Len(ev) > 0
    BY <2>3, <2>4
  <2>7. Records(q, TRUE, ev)
    BY <1>6
  <2> QED BY <2>3, <2>4, <2>5, <2>6, <2>7, BlockShape
<1>7. ASSUME NEW v \in Values, NEW ev, ev = <<Sampled(q, v)>>, Records(q, v, ev),
             q.kind = "sample"
      PROVE  \E s2 : Shape(s2)'
  <2>1. ev \in Seq(Events) /\ Len(ev) = 1 /\ ev[1] = Sampled(q, v)
    BY <1>7, EventTypes, ShortSeqs DEF Sampled
  <2>2. \A tr : \A p \in Nat : Placed(tr, p, ev) => Written(tr, Entry(q, v), p, p + Len(ev))
    <3> SUFFICES ASSUME NEW tr, NEW p \in Nat, Placed(tr, p, ev)
                 PROVE  Written(tr, Entry(q, v), p, p + Len(ev))
      OBVIOUS
    <3>1. Has(tr, p, Sampled(q, v))
      BY <2>1 DEF Placed
    <3>2. p + Len(ev) = p + 1
      BY <2>1
    <3> QED BY <1>7, <1>e, <3>1, <3>2 DEF Written
  <2>3. Len(ev) > 0
    BY <2>1
  <2>4. Records(q, v, ev)
    BY <1>7
  <2> QED BY <2>1, <2>2, <2>3, <2>4, BlockShape
<1>8. CASE q.kind = "tool" /\ CallTool(q)
  BY <1>0, <1>1, <1>2, <1>8 DEF CallTool
<1>9. CASE q.kind = "llm" /\ CallLlm(q)
  BY <1>0, <1>3, <1>4, <1>9 DEF CallLlm, AnsweredBy
<1>10. CASE q.kind = "approval" /\ ApprovalGate(q)
  BY <1>1, <1>5, <1>6, <1>10 DEF ApprovalGate, Decision
<1>11. CASE q.kind = "sample" /\ RolloutSample(q)
  BY <1>0, <1>7, <1>11 DEF RolloutSample, Sampled
<1>12. CASE q.kind = "human" /\ AskHuman(q)
  BY <1>0, <1>1, <1>2, <1>12 DEF AskHuman
<1> QED BY <1>8, <1>9, <1>10, <1>11, <1>12 DEF LiveCall

\* The positions of the calls.
LEMMA StartFacts ==
    ASSUME ReplayTypeOK, NEW s, Shape(s)
    PROVE  /\ Len(log) \in Nat /\ Len(trace) \in Nat
           /\ 1 \in 1..(Len(log) + 1) /\ Len(log) + 1 \in 1..(Len(log) + 1)
           /\ \A k \in 1..Len(log) : k \in 1..(Len(log) + 1) /\ k + 1 \in 1..(Len(log) + 1)
           /\ \A k \in 1..Len(log) : log[k].req \in Requests
           /\ s[1] = 2
           /\ \A k \in 1..(Len(log) + 1) : s[k] \in Nat \ {0} /\ s[k] >= 2
           /\ \A i, j \in 1..(Len(log) + 1) : i < j <=> s[i] < s[j]
           /\ \A i, j \in 1..(Len(log) + 1) : s[i] = s[j] => i = j
           /\ Len(trace) <= s[Len(log) + 1]
<1>1. Len(log) \in Nat /\ Len(trace) \in Nat
  BY DEF ReplayTypeOK
<1>2. /\ s \in [1..(Len(log) + 1) -> Nat] /\ s[1] = 2
      /\ \A i, j \in 1..(Len(log) + 1) : i < j => s[i] < s[j]
  BY DEF Shape, Starts
<1>3. /\ 1 \in 1..(Len(log) + 1) /\ Len(log) + 1 \in 1..(Len(log) + 1)
      /\ \A k \in 1..Len(log) : k \in 1..(Len(log) + 1) /\ k + 1 \in 1..(Len(log) + 1)
  BY <1>1
<1>4. \A k \in 1..Len(log) : log[k].req \in Requests
  <2>1. \A k \in 1..Len(log) : log[k] \in Entries
    BY DEF ReplayTypeOK
  <2> QED BY <2>1 DEF Entries
<1>5. \A k \in 1..(Len(log) + 1) : s[k] \in Nat /\ (k = 1 \/ s[1] < s[k])
  BY <1>1, <1>2, <1>3
<1>6. \A k \in 1..(Len(log) + 1) : s[k] \in Nat \ {0} /\ s[k] >= 2
  BY <1>2, <1>5
<1>7. ASSUME NEW i \in 1..(Len(log) + 1), NEW j \in 1..(Len(log) + 1)
      PROVE  (i < j <=> s[i] < s[j]) /\ (s[i] = s[j] => i = j)
  <2>1. s[i] \in Nat /\ s[j] \in Nat /\ i \in Nat /\ j \in Nat
    BY <1>1, <1>2
  <2>2. (i < j => s[i] < s[j]) /\ (j < i => s[j] < s[i])
    BY <1>2
  <2> QED BY <2>1, <2>2
<1>8. Len(trace) <= s[Len(log) + 1]
  <2>1. s[Len(log) + 1] \in Nat
    BY <1>2, <1>3
  <2> QED BY <1>1, <2>1 DEF Shape
<1> QED BY <1>1, <1>2, <1>3, <1>4, <1>6, <1>7, <1>8

\* The outcome of a recorded call.
LEMMA RecordedOut ==
    ASSUME ReplayTypeOK, NEW s, Shape(s), NEW k \in 1..Len(log)
    PROVE  log[k].out \in Values \union {Failed, Denied}
<1>1. Written(trace, log[k], s[k], s[k + 1])
  BY DEF Shape
<1> QED BY <1>1 DEF Written, Values

LEMMA ShapeComplete ==
    ASSUME ReplayTypeOK, NEW s, Shape(s), NEW v \in BOOLEAN \union Errors, CompleteRecording(v)
    PROVE  Shape(s)'
<1>1. /\ phase = "record" /\ MayEnd(log, v) /\ trace' = Append(trace, RunCompleted(v))
      /\ final' = v /\ phase' = "recorded"
      /\ UNCHANGED <<log, plan, cursor, steps, seen, report>>
  BY DEF CompleteRecording, RunCompleted
<1>2. Len(trace) = s[Len(log) + 1] - 1
  BY <1>1 DEF Shape
<1>3. s[Len(log) + 1] \in Nat /\ s[Len(log) + 1] >= 2
  BY StartFacts
<1>4. /\ Len(trace') = s[Len(log) + 1] /\ trace'[Len(trace')] = RunCompleted(v)
      /\ \A i \in 1..Len(trace) : trace'[i] = trace[i]
  <2>1. RunCompleted(v) \in Events
    BY DEF RunCompleted, Event, Events, EventKinds, Values
  <2>2. /\ Len(trace') = Len(trace) + 1 /\ trace'[Len(trace) + 1] = RunCompleted(v)
        /\ \A i \in 1..Len(trace) : trace'[i] = trace[i]
    BY <1>1, <2>1, AppendProperties DEF ReplayTypeOK
  <2> QED BY <1>2, <1>3, <2>2
<1>5. v # Pending /\ v # Diverged
  <2>1. CASE v \in BOOLEAN
    BY <2>1, MarksDiffer
  <2>2. CASE v \notin BOOLEAN
    <3>1. log # <<>> /\ v = Last(log).out
      BY <1>1, <2>2 DEF MayEnd, Erred
    <3>2. Len(log) \in 1..Len(log)
      BY <3>1 DEF ReplayTypeOK
    <3>3. v \in Values \union {Failed, Denied}
      BY <3>1, <3>2, RecordedOut DEF Last
    <3> QED BY <2>2, <3>3, MarksDiffer DEF Values, Errors
  <2> QED BY <2>1, <2>2
<1>6. ASSUME NEW k \in 1..Len(log) PROVE Written(trace', log[k], s[k], s[k + 1])
  <2>1. Written(trace, log[k], s[k], s[k + 1])
    BY DEF Shape
  <2>2. /\ s[k] \in Nat /\ s[k] >= 2 /\ s[k + 1] \in Nat
        /\ k + 1 \in 1..(Len(log) + 1) /\ Len(log) + 1 \in 1..(Len(log) + 1)
    BY StartFacts
  <2>3. ~(s[Len(log) + 1] < s[k + 1])
    <3>1. ~(Len(log) + 1 < k + 1)
      BY DEF ReplayTypeOK
    <3> QED BY <2>2, <3>1, StartFacts
  <2>4. \A i \in s[k]..(s[k + 1] - 1) :
           i <= Len(trace') => i <= Len(trace) /\ trace'[i] = trace[i]
    BY <1>2, <1>3, <1>4, <2>2, <2>3, SMTT(30)
  <2> QED BY <2>1, <2>2, <2>4, WrittenKept
<1>7. Has(trace', 1, RunStarted)
  BY <1>2, <1>3, <1>4 DEF Shape, Has
<1>8. Starts(s)'
  BY <1>1 DEF Shape, Starts
<1>9. plan' = NoPlan /\ seen' = <<>> /\ steps' = 0 /\ report' = FALSE
  BY <1>1 DEF Shape
<1> QED BY <1>1, <1>4, <1>5, <1>6, <1>7, <1>8, <1>9 DEF Shape, MayEnd

LEMMA ShapeCrash ==
    ASSUME ReplayTypeOK, NEW s, Shape(s), Crash
    PROVE  Shape(s)'
<1>1. /\ phase = "record" /\ phase' = "recorded"
      /\ UNCHANGED <<log, final, plan, cursor, steps, seen, report>>
  BY DEF Crash
<1>2. PICK n \in (LastCallAt - 1)..Len(trace) : trace' = SubSeq(trace, 1, n)
  BY DEF Crash
<1>3. n \in Int /\ n <= Len(trace) /\ \A i \in 1..n : trace[i] \in Events
  BY <1>2 DEF ReplayTypeOK
<1>4. /\ Len(trace') = IF 1 <= n THEN n ELSE 0
      /\ \A i \in 1..n : trace'[i] = trace[i]
  <2>1. /\ Len(trace') = IF 1 <= n THEN n - 1 + 1 ELSE 0
        /\ \A i \in 1..(n - 1 + 1) : trace'[i] = trace[1 + i - 1]
    BY <1>2, <1>3, SubSeqProperties
  <2>2. n - 1 + 1 = n /\ \A i \in 1..n : 1 + i - 1 = i
    BY <1>3
  <2> QED BY <2>1, <2>2
<1>5. /\ Len(trace') \in Nat /\ Len(trace) \in Nat /\ Len(trace') <= Len(trace)
      /\ \A i \in Nat \ {0} : i <= Len(trace') => i <= Len(trace) /\ trace'[i] = trace[i]
  BY <1>3, <1>4 DEF ReplayTypeOK
<1>6. ASSUME NEW k \in 1..Len(log) PROVE Written(trace', log[k], s[k], s[k + 1])
  <2>1. Written(trace, log[k], s[k], s[k + 1])
    BY DEF Shape
  <2>2. s[k] \in Nat /\ s[k] >= 2 /\ s[k + 1] \in Nat
    BY StartFacts
  <2>3. \A i \in s[k]..(s[k + 1] - 1) :
           i <= Len(trace') => i <= Len(trace) /\ trace'[i] = trace[i]
    BY <1>5, <2>2
  <2> QED BY <2>1, <2>2, <2>3, WrittenKept
<1>7. Has(trace', 1, RunStarted)
  BY <1>5 DEF Shape, Has
<1>8. final = Pending /\ Len(trace') < s[Len(log) + 1]
  <2>1. final = Pending /\ Len(trace) = s[Len(log) + 1] - 1
    BY <1>1 DEF Shape
  <2>2. s[Len(log) + 1] \in Nat
    BY StartFacts
  <2> QED BY <1>5, <2>1, <2>2
<1>9. Starts(s)'
  BY <1>1 DEF Shape, Starts
<1>10. plan' = NoPlan /\ seen' = <<>> /\ steps' = 0 /\ report' = FALSE
  BY <1>1 DEF Shape
<1> QED BY <1>1, <1>6, <1>7, <1>8, <1>9, <1>10 DEF Shape

\* A replay leaves the recording as it is.
LEMMA ShapeReplay ==
    ASSUME NEW s, Shape(s), UNCHANGED recordVars,
           phase' \notin {"record", "recorded"}
    PROVE  Shape(s)'
  BY DEF Shape, Starts, recordVars, MayEnd

\* Recording keeps the shape of the trace, and so does all that comes after it,
\* which leaves the positions where they are.
LEMMA StepCases ==
    ASSUME ReplayTypeOK, NEW s, Shape(s), [ReplayNext]_rrVars
    PROVE  \/ UNCHANGED rrVars
           \/ /\ phase = "record" /\ phase' \in {"record", "recorded"} /\ plan' = NoPlan
              /\ \E s2 : Shape(s2)'
           \/ /\ UNCHANGED <<trace, log, final>> /\ Shape(s)'
              /\ \/ \E p \in Plans, same \in BOOLEAN : Load(p, same)
                 \/ \E q \in Requests : phase = "replay" /\ ReplayedCall(q)
                 \/ \E v \in BOOLEAN \union Errors : phase = "replay" /\ CompleteReplay(v)
<1>1. ASSUME NEW q \in Requests, LiveCall(q)
      PROVE  phase = "record" /\ phase' = "record" /\ plan' = NoPlan /\ \E s2 : Shape(s2)'
  <2>1. phase = "record" /\ phase' = phase /\ plan' = plan
    BY <1>1 DEF LiveCall, CallTool, CallLlm, ApprovalGate, RolloutSample, AskHuman, Records,
                replayVars
  <2>2. plan = NoPlan
    BY <2>1 DEF Shape
  <2> QED BY <1>1, <2>1, <2>2, LiveShape
<1>2. ASSUME NEW q \in Requests, ReplayedCall(q)
      PROVE  UNCHANGED <<trace, log, final>> /\ Shape(s)' /\ phase = "replay"
  <2>1. UNCHANGED recordVars /\ phase = "replay" /\ phase' = phase
    BY <1>2 DEF ReplayedCall, ReplayTool, ReplayLlm, ReplayApproval, ReplaySample,
                ReplayHuman, Asks, Gives
  <2> QED BY <2>1, ShapeReplay DEF recordVars
<1>3. ASSUME NEW v \in BOOLEAN \union Errors, CompleteRecording(v)
      PROVE  phase = "record" /\ phase' = "recorded" /\ plan' = NoPlan /\ \E s2 : Shape(s2)'
  <2>1. phase = "record" /\ phase' = "recorded" /\ plan' = plan
    BY <1>3 DEF CompleteRecording
  <2>2. plan = NoPlan
    BY <2>1 DEF Shape
  <2> QED BY <1>3, <2>1, <2>2, ShapeComplete
<1>4. ASSUME NEW v \in BOOLEAN \union Errors, CompleteReplay(v)
      PROVE  UNCHANGED <<trace, log, final>> /\ Shape(s)' /\ phase = "replay"
  <2>1. UNCHANGED recordVars /\ phase' \in {"ok", "panicked", "diverged"} /\ phase = "replay"
    BY <1>4 DEF CompleteReplay, Ends
  <2> QED BY <2>1, ShapeReplay DEF recordVars
<1>5. ASSUME Crash
      PROVE  phase = "record" /\ phase' = "recorded" /\ plan' = NoPlan /\ \E s2 : Shape(s2)'
  <2>1. phase = "record" /\ phase' = "recorded" /\ plan' = plan
    BY <1>5 DEF Crash
  <2>2. plan = NoPlan
    BY <2>1 DEF Shape
  <2> QED BY <1>5, <2>1, <2>2, ShapeCrash
<1>6. ASSUME NEW p \in Plans, NEW same \in BOOLEAN, Load(p, same)
      PROVE  UNCHANGED <<trace, log, final>> /\ Shape(s)'
  <2>1. UNCHANGED recordVars /\ phase' \in {"rejected", "replay", "diverged"}
    BY <1>6 DEF Load
  <2> QED BY <2>1, ShapeReplay DEF recordVars
<1> QED BY <1>1, <1>2, <1>3, <1>4, <1>5, <1>6 DEF ReplayNext

-----------------------------------------------------------------------------
(* Reading a trace. *)

\* The fields of the events.
LEMMA EventFields ==
    ASSUME NEW q \in Requests, NEW v, NEW by
    PROVE  /\ CallEvent(q).kind = CallKind[q.kind] /\ CallEvent(q).arg = q.arg
           /\ Sampled(q, v).kind = CallKind[q.kind] /\ Sampled(q, v).val = v
           /\ ResultEvent(q, v).kind = ResultKind[q.kind] /\ ResultEvent(q, v).val = v
           /\ ResultEvent(q, v).arg = q.arg /\ ResultEvent(q, v).by = "asked"
           /\ AnsweredBy(q, v, by).kind = ResultKind[q.kind]
           /\ AnsweredBy(q, v, by).val = v /\ AnsweredBy(q, v, by).by = by
           /\ AnsweredBy(q, v, by).arg = q.arg
           /\ Decision(q, v).kind = "ApprovalDecision"
           /\ Metadata.kind = "Metadata"
           /\ RunStarted.kind = "RunStarted"
           /\ RunCompleted(v).kind = "RunCompleted" /\ RunCompleted(v).val = v
           /\ AtEof.kind = "RunCompleted" /\ AtEof.val = EndOfTrace
  BY DEF CallEvent, Sampled, ResultEvent, AnsweredBy, Decision, Metadata, RunStarted,
         RunCompleted, AtEof, Event

\* The kinds that begin a call.
AskKinds == {"ToolCall", "LlmCall", "ApprovalRequest", "SeedRead", "HumanRequest"}

\* An ask kind names the kind of question.
LEMMA AskKindOf ==
    ASSUME NEW q \in Requests
    PROVE  /\ q.kind \in Kinds
           /\ CallKind[q.kind] \in AskKinds
           /\ CallKind[q.kind] = "ToolCall" <=> q.kind = "tool"
           /\ CallKind[q.kind] = "LlmCall" <=> q.kind = "llm"
           /\ CallKind[q.kind] = "ApprovalRequest" <=> q.kind = "approval"
           /\ CallKind[q.kind] = "SeedRead" <=> q.kind = "sample"
           /\ CallKind[q.kind] = "HumanRequest" <=> q.kind = "human"
           /\ CallKind[q.kind] \in CallKinds <=> q.kind \in Substitutable
<1>1. q.kind \in Kinds
  BY ReplayAssumption
<1> QED BY <1>1, KindNames DEF Kinds, AskKinds, Substitutable

\* Where skip_dispatch_metadata stops.
LEMMA SkipUnique ==
    ASSUME ReplayTypeOK, NEW n \in Nat \ {0}, NEW m \in Nat, m >= n,
           m <= Len(trace) => ~IsMetadata(trace[m]),
           \A i \in n..(m - 1) : i <= Len(trace) /\ IsMetadata(trace[i])
    PROVE  Skip(n) = m
<1>1. Len(trace) \in Nat
  BY DEF ReplayTypeOK
<1>2. PICK k : k = Skip(n)
  OBVIOUS
<1>3. /\ k \in n..(n + Len(trace))
      /\ k <= Len(trace) => ~IsMetadata(trace[k])
      /\ \A i \in n..(k - 1) : i <= Len(trace) /\ IsMetadata(trace[i])
  BY <1>2, SkipFacts
<1>4. ~(k < m)
  BY <1>1, <1>3
<1>5. ~(m < k)
  BY <1>1, <1>3
<1> QED BY <1>1, <1>2, <1>3, <1>4, <1>5

LEMMA SkipStop ==
    ASSUME ReplayTypeOK, NEW n \in Nat \ {0}, EventAt(n).kind # "Metadata"
    PROVE  Skip(n) = n
<1>1. n <= Len(trace) => ~IsMetadata(trace[n])
  BY DEF EventAt, IsMetadata
<1>2. n \in Nat /\ n >= n /\ \A i \in n..(n - 1) : i <= Len(trace) /\ IsMetadata(trace[i])
  OBVIOUS
<1> QED BY <1>1, <1>2, SkipUnique

LEMMA SkipOver ==
    ASSUME ReplayTypeOK, NEW n \in Nat \ {0}, EventAt(n).kind = "Metadata"
    PROVE  Skip(n) = Skip(n + 1)
<1>1. Len(trace) \in Nat
  BY DEF ReplayTypeOK
<1>2. n <= Len(trace) /\ IsMetadata(trace[n])
  BY <1>1 DEF EventAt, IsMetadata, AtEof, Event
<1>3. PICK k : k = Skip(n + 1)
  OBVIOUS
<1>4. n + 1 \in Nat \ {0}
  OBVIOUS
<1>5. /\ k \in (n + 1)..((n + 1) + Len(trace))
      /\ k <= Len(trace) => ~IsMetadata(trace[k])
      /\ \A i \in (n + 1)..(k - 1) : i <= Len(trace) /\ IsMetadata(trace[i])
  BY <1>3, <1>4, SkipFacts
<1>6. \A i \in n..(k - 1) : i <= Len(trace) /\ IsMetadata(trace[i])
  <2> SUFFICES ASSUME NEW i \in n..(k - 1) PROVE i <= Len(trace) /\ IsMetadata(trace[i])
    OBVIOUS
  <2>1. i = n \/ i \in (n + 1)..(k - 1)
    BY <1>1, <1>5
  <2> QED BY <1>2, <1>5, <2>1
<1>7. k \in Nat /\ k >= n
  BY <1>1, <1>5
<1>8. Skip(n) = k
  BY <1>5, <1>6, <1>7, SkipUnique
<1> QED BY <1>3, <1>8

\* The first event of a call, as it is read.
LEMMA FirstEvent ==
    ASSUME ReplayTypeOK, NEW s, Shape(s), NEW k \in 1..Len(log), s[k] <= Len(trace)
    PROVE  /\ EventAt(s[k]).kind = CallKind[log[k].req.kind]
           /\ log[k].req.kind # "sample" => EventAt(s[k]) = CallEvent(log[k].req)
           /\ log[k].req.kind = "sample" => log[k].out \in Values /\ EventAt(s[k]).val = log[k].out
<1>1. Written(trace, log[k], s[k], s[k + 1])
  BY DEF Shape
<1>2. EventAt(s[k]) = trace[s[k]] /\ log[k].req \in Requests
  BY StartFacts DEF EventAt
<1>3. CASE log[k].req.kind # "sample"
  <2>1. Has(trace, s[k], CallEvent(log[k].req))
    BY <1>1, <1>3 DEF Written
  <2> QED BY <1>2, <1>3, <2>1, EventFields DEF Has
<1>4. CASE log[k].req.kind = "sample"
  <2>1. Has(trace, s[k], Sampled(log[k].req, log[k].out)) /\ log[k].out \in Values
    BY <1>1, <1>4 DEF Written
  <2>2. EventAt(s[k]) = Sampled(log[k].req, log[k].out)
    BY <1>2, <2>1 DEF Has
  <2>3. /\ EventAt(s[k]).kind = CallKind[log[k].req.kind]
        /\ EventAt(s[k]).val = log[k].out
    BY <2>2 DEF Sampled, CallEvent, Event
  <2> QED BY <1>4, <2>1, <2>3
<1> QED BY <1>3, <1>4

\* Between two calls, and after the last one, the cursor stands at a call, at
\* the end of the run or at the end of the trace.
LEMMA BetweenCalls ==
    ASSUME ReplayTypeOK, NEW s, Shape(s), NEW k \in 1..(Len(log) + 1)
    PROVE  EventAt(s[k]).kind \in AskKinds \union {"RunCompleted"} /\ Skip(s[k]) = s[k]
<1>0. s[k] \in Nat \ {0} /\ Len(trace) \in Nat /\ Len(log) \in Nat
  BY StartFacts
<1>1. EventAt(s[k]).kind \in AskKinds \union {"RunCompleted"}
  <2>1. CASE s[k] > Len(trace)
    BY <1>0, <2>1 DEF EventAt, AtEof, Event
  <2>2. CASE s[k] <= Len(trace) /\ k \in 1..Len(log)
    BY <2>2, FirstEvent, AskKindOf, StartFacts
  <2>3. CASE s[k] <= Len(trace) /\ k = Len(log) + 1
    <3>1. final # Pending
      BY <1>0, <2>3 DEF Shape
    <3>2. Len(trace) = s[k] /\ trace[Len(trace)] = RunCompleted(final)
      BY <2>3, <3>1 DEF Shape
    <3> QED BY <2>3, <3>2 DEF EventAt, RunCompleted, Event
  <2> QED BY <1>0, <2>1, <2>2, <2>3
<1>2. EventAt(s[k]).kind # "Metadata"
  BY <1>1 DEF AskKinds
<1> QED BY <1>0, <1>1, <1>2, SkipStop

\* A position of the trace is its header, a position of a call, or its last.
LEMMA WhereAt ==
    ASSUME ReplayTypeOK, NEW s, Shape(s), NEW p \in Nat \ {0}, p <= Len(trace)
    PROVE  \/ p = 1 /\ trace[p] = RunStarted
           \/ \E k \in 1..Len(log) : s[k] <= p /\ p < s[k + 1]
           \/ /\ final # Pending /\ p = s[Len(log) + 1] /\ p = Len(trace)
              /\ trace[p] = RunCompleted(final)
<1>1. Len(trace) \in Nat /\ s[Len(log) + 1] \in Nat /\ Len(trace) <= s[Len(log) + 1]
  BY StartFacts
<1>2. CASE p = 1
  BY <1>2 DEF Shape, Has
<1>3. CASE p # 1 /\ p < s[Len(log) + 1]
  <2>1. p \in 2..(s[Len(log) + 1] - 1)
    BY <1>1, <1>3
  <2> QED BY <2>1 DEF Shape, Starts
<1>4. CASE p = s[Len(log) + 1]
  <2>1. p = Len(trace) /\ ~(Len(trace) < s[Len(log) + 1])
    BY <1>1, <1>4
  <2> QED BY <1>4, <2>1 DEF Shape
<1> QED BY <1>1, <1>2, <1>3, <1>4

\* The later positions of a call are no calls and not the end.
LEMMA LaterEvents ==
    ASSUME ReplayTypeOK, NEW s, Shape(s), NEW k \in 1..Len(log), NEW p \in Nat,
           p <= Len(trace), s[k] < p, p < s[k + 1]
    PROVE  trace[p].kind \notin AskKinds \union {"RunCompleted"}
<1>w. PICK e, a, n : e = log[k] /\ a = s[k] /\ n = s[k + 1]
  OBVIOUS
<1>0. e.req \in Requests /\ a \in Nat /\ a < p /\ p < n
  BY <1>w, StartFacts
<1>1. Written(trace, e, a, n)
  BY <1>w DEF Shape
<1>2. n \in {a + 1, a + 2, a + 3, a + 4}
  BY <1>1 DEF Written
<1>3. p \in {a + 1, a + 2, a + 3}
  BY <1>0, <1>2
<1>d. /\ a + 2 # a + 1 /\ a + 2 # a + 3 /\ a + 2 # a + 4
      /\ a + 3 # a + 1 /\ a + 4 # a + 1 /\ a + 4 # a + 3
  BY <1>0
<1>4. \/ trace[p] = Metadata
      \/ \E v : trace[p] = Decision(e.req, v)
      \/ e.req.kind # "sample" /\ \E v : trace[p] = ResultEvent(e.req, v)
      \/ e.req.kind # "sample" /\ \E v, by : trace[p] = AnsweredBy(e.req, v, by)
  <2>1. CASE n = a + 1
    BY <1>0, <2>1
  <2>2. CASE n = a + 2
    <3>1. p = a + 1
      BY <1>0, <2>2
    <3>2. \/ Has(trace, a + 1, Metadata)
          \/ e.req.kind # "sample" /\ \E v : Has(trace, a + 1, ResultEvent(e.req, v))
      BY <1>1, <1>d, <2>2, Zenon DEF Written
    <3> QED BY <3>1, <3>2 DEF Has
  <2>3. CASE n \in {a + 3, a + 4}
    <3>1. /\ \/ Has(trace, a + 1, Metadata)
             \/ \E v : Has(trace, a + 1, Decision(e.req, v))
          /\ e.req.kind # "sample"
          /\ \/ \E v : Has(trace, a + 2, ResultEvent(e.req, v))
             \/ \E v, by : Has(trace, a + 2, AnsweredBy(e.req, v, by))
          /\ n = a + 4 => Has(trace, a + 3, Metadata)
      BY <1>1, <1>d, <2>3, Zenon DEF Written
    <3>2. CASE p = a + 1
      BY <3>1, <3>2 DEF Has
    <3>3. CASE p = a + 2
      BY <3>1, <3>3 DEF Has
    <3>4. CASE p = a + 3
      <4>1. n = a + 4
        BY <1>0, <2>3, <3>4
      <4> QED BY <3>1, <3>4, <4>1 DEF Has
    <3> QED BY <1>3, <3>2, <3>3, <3>4
  <2> QED BY <1>2, <2>1, <2>2, <2>3
<1>5. e.req.kind # "sample" =>
         ResultKind[e.req.kind] \in {"ToolResult", "LlmResult", "ApprovalResponse", "HumanResponse"}
  BY <1>0, AskKindOf, KindNames DEF Kinds
<1>6. trace[p].kind \in {"Metadata", "ApprovalDecision", "ToolResult", "LlmResult",
                         "ApprovalResponse", "HumanResponse"}
  <2>1. \/ trace[p].kind \in {"Metadata", "ApprovalDecision"}
        \/ e.req.kind # "sample" /\ trace[p].kind = ResultKind[e.req.kind]
    <3>1. \A v, by : /\ Metadata.kind = "Metadata" /\ Decision(e.req, v).kind = "ApprovalDecision"
                     /\ ResultEvent(e.req, v).kind = ResultKind[e.req.kind]
                     /\ AnsweredBy(e.req, v, by).kind = ResultKind[e.req.kind]
      BY DEF Metadata, Decision, ResultEvent, AnsweredBy, Event
    <3> QED BY <1>4, <3>1, Zenon
  <2> QED BY <1>5, <2>1
<1> QED BY <1>6 DEF AskKinds

\* What looks like a call is a recorded call.
LEMMA AtCall ==
    ASSUME ReplayTypeOK, NEW s, Shape(s), NEW p \in Nat \ {0}, EventAt(p).kind \in AskKinds
    PROVE  /\ p <= Len(trace)
           /\ \E k \in 1..Len(log) : s[k] = p /\ CallKind[log[k].req.kind] = EventAt(p).kind
<1>1. p <= Len(trace) /\ EventAt(p) = trace[p]
  BY StartFacts DEF EventAt, AtEof, Event, AskKinds
<1>2. trace[p] # RunStarted /\ \A v : trace[p] # RunCompleted(v)
  BY <1>1 DEF RunStarted, RunCompleted, Event, AskKinds
<1>3. PICK k \in 1..Len(log) : s[k] <= p /\ p < s[k + 1]
  BY <1>1, <1>2, WhereAt
<1>4. s[k] \in Nat
  BY StartFacts
<1>5. ~(s[k] < p)
  BY <1>1, <1>3, LaterEvents
<1>6. s[k] = p
  BY <1>3, <1>4, <1>5
<1>7. CallKind[log[k].req.kind] = EventAt(p).kind
  BY <1>1, <1>6, FirstEvent
<1> QED BY <1>1, <1>6, <1>7

\* What looks like the end of the run is the end of the trace.
LEMMA AtEnd ==
    ASSUME ReplayTypeOK, NEW s, Shape(s), NEW p \in Nat \ {0}, p <= Len(trace),
           EventAt(p).kind = "RunCompleted"
    PROVE  /\ final # Pending /\ p = s[Len(log) + 1] /\ p = Len(trace)
           /\ EventAt(p) = RunCompleted(final)
<1>1. EventAt(p) = trace[p]
  BY DEF EventAt
<1>2. trace[p] # RunStarted
  BY <1>1 DEF RunStarted, Event
<1>3. ASSUME NEW k \in 1..Len(log), s[k] <= p, p < s[k + 1]
      PROVE  FALSE
  <2>1. s[k] \in Nat /\ log[k].req \in Requests
    BY StartFacts
  <2>2. ~(s[k] < p)
    BY <1>1, <1>3, LaterEvents
  <2>3. s[k] = p
    BY <1>3, <2>1, <2>2
  <2>4. EventAt(p).kind \in AskKinds
    BY <2>1, <2>3, FirstEvent, AskKindOf
  <2> QED BY <2>4 DEF AskKinds
<1> QED BY <1>1, <1>2, <1>3, WhereAt

\* The call event of a question is where that question was recorded.
LEMMA SameCall ==
    ASSUME ReplayTypeOK, NEW s, Shape(s), NEW p \in Nat \ {0}, NEW q \in Requests,
           q.kind # "sample", EventAt(p) = CallEvent(q)
    PROVE  p <= Len(trace) /\ \E k \in 1..Len(log) : s[k] = p /\ log[k].req = q
<1>1. EventAt(p).kind = CallKind[q.kind] /\ EventAt(p).arg = q.arg
  BY EventFields
<1>2. EventAt(p).kind \in AskKinds
  BY <1>1, AskKindOf
<1>3. p <= Len(trace)
  BY <1>2, AtCall
<1>4. PICK k \in 1..Len(log) : s[k] = p /\ CallKind[log[k].req.kind] = EventAt(p).kind
  BY <1>2, AtCall
<1>5. log[k].req \in Requests
  BY StartFacts
<1>6. log[k].req.kind = q.kind
  <2>1. q.kind \in Kinds /\ log[k].req.kind \in Kinds
    BY <1>5, AskKindOf
  <2> QED BY <1>1, <1>4, <2>1, KindNames DEF Kinds
<1>7. EventAt(p) = CallEvent(log[k].req)
  BY <1>3, <1>4, <1>6, FirstEvent
<1>8. log[k].req.arg = q.arg
  BY <1>1, <1>5, <1>7, EventFields
<1>9. log[k].req = q
  <2>1. q \in [kind: Kinds, arg: STRING] /\ log[k].req \in [kind: Kinds, arg: STRING]
    BY <1>5, ReplayAssumption
  <2> QED BY <1>6, <1>8, <2>1
<1> QED BY <1>3, <1>4, <1>9

\* There is one rollout question.
LEMMA SampleCall ==
    ASSUME ReplayTypeOK, NEW s, Shape(s), NEW p \in Nat \ {0}, NEW q \in Requests,
           q.kind = "sample", EventAt(p).kind = "SeedRead"
    PROVE  /\ p <= Len(trace)
           /\ \E k \in 1..Len(log) : /\ s[k] = p /\ log[k].req = q
                                     /\ log[k].out \in Values /\ log[k].out = EventAt(p).val
<1>1. EventAt(p).kind \in AskKinds
  BY DEF AskKinds
<1>2. p <= Len(trace)
  BY <1>1, AtCall
<1>3. PICK k \in 1..Len(log) : s[k] = p /\ CallKind[log[k].req.kind] = "SeedRead"
  BY <1>1, AtCall
<1>4. log[k].req \in Requests
  BY StartFacts
<1>5. log[k].req.kind = "sample"
  BY <1>3, <1>4, AskKindOf
<1>6. log[k].req = q
  BY <1>4, <1>5, ReplayAssumption
<1>7. log[k].out \in Values /\ EventAt(p).val = log[k].out
  BY <1>2, <1>3, <1>5, FirstEvent
<1> QED BY <1>2, <1>3, <1>6, <1>7

\* After the end of a trace there is nothing but the end.
LEMMA PastEnd ==
    ASSUME ReplayTypeOK, NEW p \in Nat \ {0}, p > Len(trace)
    PROVE  Skip(p) = p /\ EventAt(p) = AtEof /\ EventAt(p).kind = "RunCompleted"
<1>1. EventAt(p) = AtEof
  BY DEF EventAt, ReplayTypeOK
<1>2. EventAt(p).kind = "RunCompleted"
  BY <1>1 DEF AtEof, Event
<1> QED BY <1>1, <1>2, SkipStop

\* No call and no end of a run is taken for a result.
LEMMA NoResult ==
    ASSUME NEW kind \in AskKinds \union {"RunCompleted"}
    PROVE  kind \notin ResultKinds /\ kind # "ApprovalDecision" /\ kind # "LlmResult"
  BY KindNames DEF AskKinds

\* replay_tool_call reads the recorded result, or no result.
LEMMA ToolRead ==
    ASSUME ReplayTypeOK, NEW s, Shape(s), NEW k \in 1..Len(log), s[k] <= Len(trace),
           log[k].req.kind = "tool", NEW after, after = Skip(s[k] + 1),
           NEW r, r = EventAt(after)
    PROVE  \/ /\ r = ResultEvent(log[k].req, log[k].out) /\ log[k].out \in Values
              /\ after + 1 = s[k + 1]
           \/ r.kind \notin ResultKinds /\ (log[k].out = Failed \/ Len(trace) < s[k + 1] - 1)
<1>w. PICK e, a, n : e = log[k] /\ a = s[k] /\ n = s[k + 1]
  OBVIOUS
<1>0. e.req \in Requests /\ a \in Nat \ {0} /\ a + 1 \in Nat \ {0} /\ e.req.kind = "tool"
  BY <1>w, StartFacts
<1>b. EventAt(n).kind \in AskKinds \union {"RunCompleted"} /\ Skip(n) = n
  <2>1. k + 1 \in 1..(Len(log) + 1)
    BY StartFacts
  <2> QED BY <1>w, <2>1, BetweenCalls
<1>1. Written(trace, e, a, n)
  BY <1>w DEF Shape
<1>2. \/ e.out = Failed /\ n = a + 1
      \/ e.out \in Values /\ n = a + 2 /\ Has(trace, a + 1, ResultEvent(e.req, e.out))
  BY <1>0, <1>1, Zenon DEF Written
<1>3. CASE e.out = Failed /\ n = a + 1
  <2>1. EventAt(a + 1).kind \in AskKinds \union {"RunCompleted"} /\ Skip(a + 1) = a + 1
    BY <1>3, <1>b
  <2>2. r.kind \notin ResultKinds
    BY <1>w, <2>1, NoResult
  <2> QED BY <1>3, <1>w, <2>2
<1>4. CASE /\ e.out \in Values /\ n = a + 2 /\ Has(trace, a + 1, ResultEvent(e.req, e.out))
  <2>1. CASE a + 1 <= Len(trace)
    <3>1. EventAt(a + 1) = ResultEvent(e.req, e.out)
      BY <1>4, <2>1 DEF EventAt, Has
    <3>2. EventAt(a + 1).kind = "ToolResult"
      BY <1>0, <3>1, KindNames DEF ResultEvent, Event
    <3>3. Skip(a + 1) = a + 1
      BY <1>0, <3>2, SkipStop
    <3>4. after + 1 = n
      BY <1>0, <1>4, <1>w, <3>3
    <3> QED BY <1>4, <1>w, <3>1, <3>3, <3>4
  <2>2. CASE a + 1 > Len(trace)
    <3>1. r.kind = "RunCompleted"
      BY <1>0, <1>w, <2>2, PastEnd
    <3>2. Len(trace) < n - 1
      BY <1>0, <1>4, <2>2 DEF ReplayTypeOK
    <3> QED BY <1>w, <3>1, <3>2, NoResult
  <2> QED BY <1>0, <2>1, <2>2 DEF ReplayTypeOK
<1> QED BY <1>2, <1>3, <1>4

\* replay_llm_call reads the recorded result, or no result.
LEMMA LlmRead ==
    ASSUME ReplayTypeOK, NEW s, Shape(s), NEW k \in 1..Len(log), s[k] <= Len(trace),
           log[k].req.kind = "llm", NEW after, after = Skip(s[k] + 1),
           NEW r, r = EventAt(after)
    PROVE  \/ /\ \E by \in {"asked", "fallback"} : r = AnsweredBy(log[k].req, log[k].out, by)
              /\ log[k].out \in Values /\ after + 1 = s[k + 1] /\ after <= Len(trace)
           \/ /\ r.kind \notin ResultKinds /\ r.kind # "LlmResult"
              /\ log[k].out = Failed \/ Len(trace) < s[k + 1] - 1
<1>w. PICK e, a, n : e = log[k] /\ a = s[k] /\ n = s[k + 1]
  OBVIOUS
<1>0. /\ e.req \in Requests /\ a \in Nat \ {0} /\ a + 1 \in Nat \ {0} /\ a + 2 \in Nat \ {0}
      /\ e.req.kind = "llm" /\ (a + 1) + 1 = a + 2 /\ Len(trace) \in Nat
  BY <1>w, StartFacts
<1>b. EventAt(n).kind \in AskKinds \union {"RunCompleted"} /\ Skip(n) = n
  <2>1. k + 1 \in 1..(Len(log) + 1)
    BY StartFacts
  <2> QED BY <1>w, <2>1, BetweenCalls
<1>1. Written(trace, e, a, n)
  BY <1>w DEF Shape
<1>2. /\ Has(trace, a + 1, Metadata)
      /\ \/ e.out = Failed /\ n = a + 2
         \/ /\ e.out \in Values /\ n = a + 3
            /\ \E by \in {"asked", "fallback"} : Has(trace, a + 2, AnsweredBy(e.req, e.out, by))
  BY <1>0, <1>1, Zenon DEF Written
<1>3. CASE a + 1 > Len(trace)
  <2>1. r.kind = "RunCompleted"
    BY <1>0, <1>3, <1>w, PastEnd
  <2>2. e.out = Failed \/ Len(trace) < n - 1
    BY <1>0, <1>2, <1>3
  <2> QED BY <1>w, <2>1, <2>2, NoResult
<1>4. CASE a + 1 <= Len(trace)
  <2>1. EventAt(a + 1) = Metadata
    BY <1>2, <1>4 DEF EventAt, Has
  <2>2. Skip(a + 1) = Skip(a + 2)
    <3>1. EventAt(a + 1).kind = "Metadata"
      BY <2>1 DEF Metadata, Event
    <3> QED BY <1>0, <3>1, SkipOver
  <2>3. CASE e.out = Failed /\ n = a + 2
    <3>1. EventAt(a + 2).kind \in AskKinds \union {"RunCompleted"} /\ Skip(a + 2) = a + 2
      BY <1>b, <2>3
    <3>2. r.kind \notin ResultKinds /\ r.kind # "LlmResult"
      BY <1>w, <2>2, <3>1, NoResult
    <3> QED BY <1>w, <2>3, <3>2
  <2>4. ASSUME e.out \in Values, n = a + 3, a + 2 <= Len(trace),
               NEW by \in {"asked", "fallback"}, Has(trace, a + 2, AnsweredBy(e.req, e.out, by))
        PROVE  /\ r = AnsweredBy(e.req, e.out, by)
               /\ after + 1 = n /\ after <= Len(trace)
    <3>1. EventAt(a + 2) = AnsweredBy(e.req, e.out, by)
      BY <2>4 DEF EventAt, Has
    <3>2. EventAt(a + 2).kind = "LlmResult"
      BY <1>0, <3>1, EventFields, KindNames
    <3>3. Skip(a + 2) = a + 2
      BY <1>0, <3>2, SkipStop
    <3>4. after = a + 2
      BY <1>w, <2>2, <3>3
    <3> QED BY <1>0, <2>4, <3>1, <3>4
  <2>5. CASE e.out \in Values /\ n = a + 3 /\ a + 2 > Len(trace)
    <3>1. r.kind = "RunCompleted"
      BY <1>0, <1>w, <2>2, <2>5, PastEnd
    <3>2. Len(trace) < n - 1
      BY <1>0, <2>5
    <3> QED BY <1>w, <3>1, <3>2, NoResult
  <2>6. a + 2 <= Len(trace) \/ a + 2 > Len(trace)
    BY <1>0
  <2> QED BY <1>2, <1>w, <2>3, <2>4, <2>5, <2>6
<1> QED BY <1>0, <1>3, <1>4

\* replay_approval reads the recorded response, or no response.
LEMMA ApprovalRead ==
    ASSUME ReplayTypeOK, NEW s, Shape(s), NEW k \in 1..Len(log), s[k] <= Len(trace),
           log[k].req.kind = "approval", NEW first, first = Skip(s[k] + 1), NEW after,
           after = IF EventAt(first).kind = "ApprovalDecision" THEN Skip(first + 1) ELSE first,
           NEW r, r = EventAt(after)
    PROVE  \/ /\ \E v \in BOOLEAN : r = ResultEvent(log[k].req, v) /\ log[k].out = Gate(v)
              /\ \/ Skip(after + 1) = s[k + 1]
                 \/ Skip(after + 1) > Len(trace) /\ Len(trace) < s[k + 1] - 1
              /\ EventAt(first).kind = "ApprovalDecision"
           \/ r.kind \notin ResultKinds /\ (log[k].out = Failed \/ Len(trace) < s[k] + 2)
<1>w. PICK e, a, n : e = log[k] /\ a = s[k] /\ n = s[k + 1]
  OBVIOUS
<1>a. e.req \in Requests /\ a \in Nat \ {0} /\ e.req.kind = "approval" /\ Len(trace) \in Nat
  BY <1>w, StartFacts
<1>0. /\ e.req \in Requests /\ a \in Nat \ {0} /\ a + 1 \in Nat \ {0} /\ a + 2 \in Nat \ {0}
      /\ a + 3 \in Nat \ {0} /\ a + 4 \in Nat \ {0} /\ e.req.kind = "approval"
      /\ (a + 1) + 1 = a + 2 /\ (a + 2) + 1 = a + 3 /\ (a + 3) + 1 = a + 4 /\ Len(trace) \in Nat
  BY <1>a
<1>b. EventAt(n).kind \in AskKinds \union {"RunCompleted"} /\ Skip(n) = n
  <2>1. k + 1 \in 1..(Len(log) + 1)
    BY StartFacts
  <2> QED BY <1>w, <2>1, BetweenCalls
<1>1. Written(trace, e, a, n)
  BY <1>w DEF Shape
<1>2. \/ e.out = Failed /\ n = a + 1
      \/ \E v \in BOOLEAN : /\ e.out = Gate(v)
                            /\ Has(trace, a + 1, Decision(e.req, v))
                            /\ Has(trace, a + 2, ResultEvent(e.req, v))
                            /\ \/ n = a + 3
                               \/ n = a + 4 /\ Has(trace, a + 3, Metadata)
  <2>1. Gate(TRUE) = TRUE /\ Gate(FALSE) = Denied /\ TRUE \in BOOLEAN /\ FALSE \in BOOLEAN
    BY DEF Gate
  <2>2. \/ e.out = Failed /\ n = a + 1
        \/ /\ e.out = Denied /\ n = a + 3
           /\ Has(trace, a + 1, Decision(e.req, FALSE))
           /\ Has(trace, a + 2, ResultEvent(e.req, FALSE))
        \/ /\ e.out = TRUE /\ n = a + 4
           /\ Has(trace, a + 1, Decision(e.req, TRUE))
           /\ Has(trace, a + 2, ResultEvent(e.req, TRUE))
           /\ Has(trace, a + 3, Metadata)
    BY <1>0, <1>1, Zenon DEF Written
  <2> QED BY <2>1, <2>2, Zenon
<1>3. CASE e.out = Failed /\ n = a + 1
  <2>1. EventAt(a + 1).kind \in AskKinds \union {"RunCompleted"} /\ Skip(a + 1) = a + 1
    BY <1>3, <1>b
  <2>2. r.kind \notin ResultKinds
    BY <1>w, <2>1, NoResult
  <2> QED BY <1>3, <1>w, <2>2
<1>4. CASE a + 1 > Len(trace)
  <2>1. EventAt(first).kind = "RunCompleted" /\ after = first
    BY <1>0, <1>4, <1>w, PastEnd
  <2>2. Len(trace) < a + 2
    BY <1>0, <1>4, SMTT(30)
  <2> QED BY <1>w, <2>1, <2>2, NoResult
<1>5. ASSUME a + 1 <= Len(trace), NEW v \in BOOLEAN, e.out = Gate(v),
             Has(trace, a + 1, Decision(e.req, v)), Has(trace, a + 2, ResultEvent(e.req, v)),
             n = a + 3 \/ (n = a + 4 /\ Has(trace, a + 3, Metadata))
      PROVE  \/ /\ r = ResultEvent(e.req, v)
                /\ \/ Skip(after + 1) = n
                   \/ Skip(after + 1) > Len(trace) /\ Len(trace) < n - 1
                /\ EventAt(first).kind = "ApprovalDecision"
             \/ r.kind \notin ResultKinds /\ Len(trace) < a + 2
  <2>1. EventAt(a + 1).kind = "ApprovalDecision"
    <3>1. EventAt(a + 1) = Decision(e.req, v)
      BY <1>5 DEF EventAt, Has
    <3> QED BY <3>1 DEF Decision, Event
  <2>2. first = a + 1 /\ after = Skip(a + 2) /\ EventAt(first).kind = "ApprovalDecision"
    BY <1>0, <1>w, <2>1, SkipStop
  <2>3. CASE a + 2 > Len(trace)
    <3>1. r.kind = "RunCompleted"
      BY <1>0, <2>2, <2>3, PastEnd
    <3> QED BY <1>0, <2>3, <3>1, NoResult
  <2>4. CASE a + 2 <= Len(trace)
    <3>1. EventAt(a + 2) = ResultEvent(e.req, v)
      BY <1>5, <2>4 DEF EventAt, Has
    <3>2. EventAt(a + 2).kind = "ApprovalResponse"
      BY <1>0, <3>1, KindNames DEF ResultEvent, Event
    <3>3. after = a + 2
      BY <1>0, <2>2, <3>2, SkipStop
    <3>4. \/ Skip(a + 3) = n
          \/ Skip(a + 3) > Len(trace) /\ Len(trace) < n - 1
      <4>1. Skip(n) = n
        BY <1>b
      <4>2. CASE n = a + 3
        BY <4>1, <4>2
      <4>3. CASE n = a + 4 /\ Has(trace, a + 3, Metadata) /\ a + 3 <= Len(trace)
        <5>1. EventAt(a + 3).kind = "Metadata"
          BY <4>3 DEF EventAt, Has, Metadata, Event
        <5> QED BY <1>0, <4>1, <4>3, <5>1, SkipOver
      <4>4. CASE n = a + 4 /\ a + 3 > Len(trace)
        <5>1. Len(trace) < n - 1
          BY <1>0, <4>4
        <5>2. Skip(a + 3) = a + 3
          BY <1>0, <4>4, PastEnd
        <5> QED BY <4>4, <5>1, <5>2
      <4>5. a + 3 <= Len(trace) \/ a + 3 > Len(trace)
        BY <1>0
      <4> QED BY <1>5, <4>2, <4>3, <4>4, <4>5
    <3> QED BY <1>0, <2>2, <3>1, <3>3, <3>4
  <2> QED BY <1>0, <2>3, <2>4
<1>6. a + 1 <= Len(trace) \/ a + 1 > Len(trace)
  BY <1>0
<1> QED BY <1>2, <1>3, <1>4, <1>5, <1>6, <1>w

-----------------------------------------------------------------------------
(* Substitution. *)

\* An entry is its question and its outcome.
LEMMA EntryIs ==
    ASSUME ReplayTypeOK, NEW k \in 1..Len(log), NEW q, NEW out,
           log[k].req = q, log[k].out = out
    PROVE  log[k] = Entry(q, out)
<1>1. log[k] \in Entries
  BY DEF ReplayTypeOK
<1> QED BY <1>1 DEF Entries, Entry

\* A divergence, a failure or a refused mutation is no answer.
LEMMA NoAnswer ==
    ASSUME NEW q, NEW out \in {Failed, Diverged, Invalid}
    PROVE  ~Answered(Entry(q, out))
<1>1. out \notin Values \union {Denied}
  BY MarksDiffer DEF Values, Errors
<1> QED BY <1>1 DEF Answered, Entry

\* The call q is told what a recorded call gave, the one before which the
\* cursor stands; c is before the next recorded call, or past the end.
Tells(s, q, out, c) ==
    \E k \in 1..Len(log) :
       /\ s[k] = Skip(cursor) /\ s[k] <= Len(trace) /\ s[k] < c
       /\ log[k] = Entry(q, out) /\ Answered(log[k])
       /\ Skip(c) = s[k + 1] \/ Skip(c) > Len(trace)

\* What a call is given unless a mutation is replayed: nothing, an answer that
\* is reported to differ, an answer of the person asked, or the recorded one.
LEMMA Given ==
    ASSUME ReplayTypeOK, NEW s, Shape(s), NEW q \in Requests, ReplayedCall(q),
           plan.mode # "mutation"
    PROVE  \E out, c, d : /\ Gives(q, out, c, d) /\ c \in Nat \ {0} /\ cursor <= c
                          /\ plan.mode = "substitute" => d = FALSE
                          /\ \/ d = TRUE
                             \/ out \in {Failed, Diverged}
                             \/ q.kind = "human" /\ c = cursor
                             \/ Tells(s, q, out, c)
<1>w. PICK at, call, after, result :
         at = Skip(cursor) /\ call = EventAt(at) /\ after = Skip(at + 1) /\ result = EventAt(after)
  OBVIOUS
<1>0. cursor \in Nat \ {0}
  BY DEF ReplayTypeOK
<1>1. at \in Nat \ {0} /\ at >= cursor
  BY <1>0, <1>w, SkipForward
<1>2. at + 1 \in Nat \ {0}
  BY <1>1
<1>3. after \in Nat \ {0} /\ after >= at + 1
  BY <1>2, <1>w, SkipForward
<1>4. /\ cursor <= at /\ cursor <= at + 1
      /\ after + 1 \in Nat \ {0} /\ cursor <= after + 1 /\ at < after + 1
  BY <1>0, <1>1, <1>3
<1>5. /\ ~Swapped
      /\ Strict({}) /\ (Strict({"differential"}) <=> plan.mode # "differential")
  BY DEF Swapped, Strict
<1>6. ASSUME NEW k \in 1..Len(log), NEW c, NEW out, s[k] = at, at <= Len(trace), at < c,
             log[k].req = q, log[k].out = out, q.kind # "human", out \in Values \union {Denied},
             Skip(c) = s[k + 1] \/ Skip(c) > Len(trace)
      PROVE  Tells(s, q, out, c)
  <2>1. log[k] = Entry(q, out)
    BY <1>6, EntryIs
  <2>2. Answered(log[k])
    BY <1>6 DEF Answered
  <2> QED BY <1>6, <1>w, <2>1, <2>2 DEF Tells
<1>7. ASSUME NEW k \in 1..Len(log), NEW c, c = s[k + 1] PROVE Skip(c) = s[k + 1]
  <2>1. k + 1 \in 1..(Len(log) + 1)
    BY StartFacts
  <2> QED BY <1>7, <2>1, BetweenCalls
<1>8. CASE q.kind = "tool" /\ ReplayTool(q)
  <2>1. \/ Gives(q, Diverged, at, FALSE)
        \/ Gives(q, Diverged, at + 1, FALSE)
        \/ plan.mode # "substitute" /\ \E out : Gives(q, out, after + 1, TRUE)
        \/ /\ call = CallEvent(q)
           /\ \/ result.kind \notin ResultKinds /\ Gives(q, Diverged, after + 1, FALSE)
              \/ result.kind \in ResultKinds /\ Gives(q, result.val, after + 1, FALSE)
    BY <1>5, <1>8, <1>w DEF ReplayTool
  <2>2. ASSUME call = CallEvent(q), result.kind \in ResultKinds
        PROVE  Tells(s, q, result.val, after + 1)
    <3>0. EventAt(at) = CallEvent(q) /\ q.kind # "sample" /\ q.kind # "human"
      BY <1>8, <1>w, <2>2
    <3>1. at <= Len(trace) /\ \E k \in 1..Len(log) : s[k] = at /\ log[k].req = q
      BY <1>1, <3>0, SameCall
    <3>2. PICK k \in 1..Len(log) : s[k] = at /\ log[k].req = q
      BY <3>1
    <3>3. /\ result = ResultEvent(q, log[k].out) /\ log[k].out \in Values
          /\ after + 1 = s[k + 1]
      BY <1>8, <1>w, <2>2, <3>1, <3>2, ToolRead
    <3>4. result.val = log[k].out
      BY <3>3 DEF ResultEvent, Event
    <3>5. Skip(after + 1) = s[k + 1]
      BY <1>7, <3>3
    <3> QED BY <1>4, <1>6, <3>0, <3>1, <3>2, <3>3, <3>4, <3>5
  <2> QED BY <1>1, <1>2, <1>4, <2>1, <2>2
<1>9. CASE q.kind = "llm" /\ ReplayLlm(q)
  <2>1. \/ Gives(q, Diverged, at, FALSE)
        \/ Gives(q, Diverged, after + 1, FALSE)
        \/ Gives(q, Failed, after + 1, FALSE)
        \/ plan.mode # "substitute" /\ \E out : Gives(q, out, after + 1, TRUE)
        \/ /\ call = CallEvent(q) /\ result.kind = "LlmResult"
           /\ Gives(q, result.val, after + 1, FALSE)
    <3>1. ASSUME NEW v, plan.mode = "differential", call = CallEvent(q), result.kind = "LlmResult",
                 Gives(q, v, after + 1, v # result.val)
          PROVE  \/ plan.mode # "substitute" /\ \E out : Gives(q, out, after + 1, TRUE)
                 \/ /\ call = CallEvent(q) /\ result.kind = "LlmResult"
                    /\ Gives(q, result.val, after + 1, FALSE)
      <4>1. CASE v = result.val
        BY <3>1, <4>1
      <4>2. CASE v # result.val
        BY <3>1, <4>2
      <4> QED BY <4>1, <4>2
    <3> QED BY <1>5, <1>9, <1>w, <3>1 DEF ReplayLlm
  <2>2. ASSUME call = CallEvent(q), result.kind = "LlmResult"
        PROVE  Tells(s, q, result.val, after + 1)
    <3>0. EventAt(at) = CallEvent(q) /\ q.kind # "sample" /\ q.kind # "human"
      BY <1>9, <1>w, <2>2
    <3>1. at <= Len(trace) /\ \E k \in 1..Len(log) : s[k] = at /\ log[k].req = q
      BY <1>1, <3>0, SameCall
    <3>2. PICK k \in 1..Len(log) : s[k] = at /\ log[k].req = q
      BY <3>1
    <3>3. /\ \E by : result = AnsweredBy(q, log[k].out, by)
          /\ log[k].out \in Values /\ after + 1 = s[k + 1]
      BY <1>9, <1>w, <2>2, <3>1, <3>2, LlmRead
    <3>4. result.val = log[k].out
      BY <3>3 DEF AnsweredBy, ResultEvent, Event
    <3>5. Skip(after + 1) = s[k + 1]
      BY <1>7, <3>3
    <3> QED BY <1>4, <1>6, <3>0, <3>1, <3>2, <3>3, <3>4, <3>5
  <2> QED BY <1>1, <1>2, <1>4, <2>1, <2>2
<1>10. CASE q.kind = "approval" /\ ReplayApproval(q)
  <2>w. PICK aft, res :
           /\ aft = IF EventAt(after).kind = "ApprovalDecision" THEN Skip(after + 1) ELSE after
           /\ res = EventAt(aft)
    OBVIOUS
  <2>0. aft + 1 \in Nat \ {0} /\ cursor <= aft + 1 /\ at < aft + 1
    <3>1. Skip(after + 1) \in Nat \ {0} /\ Skip(after + 1) >= after + 1
      BY <1>4, SkipForward
    <3>2. aft \in Nat \ {0} /\ aft >= after
      BY <1>3, <2>w, <3>1
    <3> QED BY <1>0, <1>1, <1>3, <3>2
  <2>1. \/ Gives(q, Diverged, at, FALSE)
        \/ Gives(q, Diverged, at + 1, FALSE)
        \/ plan.mode # "substitute" /\ \E out : Gives(q, out, aft + 1, TRUE)
        \/ /\ call = CallEvent(q)
           /\ \/ res.kind \notin ResultKinds /\ Gives(q, Diverged, aft + 1, FALSE)
              \/ res.kind \in ResultKinds /\ Gives(q, Gate(AsBool(res.val)), aft + 1, FALSE)
    BY <1>5, <1>10, <1>w, <2>w DEF ReplayApproval
  <2>2. ASSUME call = CallEvent(q), res.kind \in ResultKinds
        PROVE  Tells(s, q, Gate(AsBool(res.val)), aft + 1)
    <3>0. EventAt(at) = CallEvent(q) /\ q.kind # "sample" /\ q.kind # "human"
      BY <1>10, <1>w, <2>2
    <3>1. at <= Len(trace) /\ \E k \in 1..Len(log) : s[k] = at /\ log[k].req = q
      BY <1>1, <3>0, SameCall
    <3>2. PICK k \in 1..Len(log) : s[k] = at /\ log[k].req = q
      BY <3>1
    <3>3. /\ \E v \in BOOLEAN : res = ResultEvent(q, v) /\ log[k].out = Gate(v)
          /\ Skip(aft + 1) = s[k + 1] \/ Skip(aft + 1) > Len(trace)
      BY <1>10, <1>w, <2>2, <2>w, <3>1, <3>2, ApprovalRead
    <3>4. PICK v \in BOOLEAN : res = ResultEvent(q, v) /\ log[k].out = Gate(v)
      BY <3>3
    <3>5. log[k].out = Gate(AsBool(res.val))
      <4>1. res.val = v
        BY <3>4 DEF ResultEvent, Event
      <4>2. AsBool(res.val) = v
        BY <4>1 DEF AsBool
      <4> QED BY <3>4, <4>2
    <3>6. log[k].out \in Values \union {Denied}
      BY <3>4 DEF Gate, Values
    <3> QED BY <1>6, <2>0, <3>0, <3>1, <3>2, <3>3, <3>5, <3>6
  <2> QED BY <1>1, <1>2, <1>4, <2>0, <2>1, <2>2
<1>11. CASE q.kind = "sample" /\ ReplaySample(q)
  <2>1. \/ Gives(q, Diverged, at, FALSE)
        \/ call.kind = "SeedRead" /\ Gives(q, call.val, at + 1, FALSE)
    BY <1>11, <1>w DEF ReplaySample
  <2>2. ASSUME call.kind = "SeedRead"
        PROVE  Tells(s, q, call.val, at + 1)
    <3>1. /\ at <= Len(trace)
          /\ \E k \in 1..Len(log) : /\ s[k] = at /\ log[k].req = q
                                    /\ log[k].out \in Values /\ log[k].out = call.val
      BY <1>1, <1>11, <1>w, <2>2, SampleCall
    <3>2. PICK k \in 1..Len(log) : /\ s[k] = at /\ log[k].req = q
                                   /\ log[k].out \in Values /\ log[k].out = call.val
      BY <3>1
    <3>3. at < at + 1
      BY <1>1
    <3>4. at + 1 = s[k + 1]
      <4>1. Written(trace, log[k], s[k], s[k + 1])
        BY DEF Shape
      <4> QED BY <1>11, <3>2, <4>1 DEF Written
    <3>5. Skip(at + 1) = s[k + 1]
      BY <1>7, <3>4
    <3> QED BY <1>6, <1>11, <3>1, <3>2, <3>3, <3>5
  <2> QED BY <1>1, <1>2, <1>4, <2>1, <2>2
<1>12. CASE q.kind = "human" /\ ReplayHuman(q)
  <2>1. PICK out : Gives(q, out, cursor, FALSE)
    BY <1>12 DEF ReplayHuman
  <2>2. cursor <= cursor
    BY <1>0
  <2> QED BY <1>0, <1>12, <2>1, <2>2
<1> QED BY <1>8, <1>9, <1>10, <1>11, <1>12 DEF ReplayedCall

\* The answers after one more call.
LEMMA AnswersAppend ==
    ASSUME NEW h \in Seq(Entries), NEW e \in Entries
    PROVE  /\ Answers(Append(h, e)) =
                 Answers(h) \union (IF Answered(e) THEN {Len(h) + 1} ELSE {})
           /\ Append(h, e)[Len(h) + 1] = e
           /\ \A i \in Answers(h) : i \in 1..Len(h) /\ Append(h, e)[i] = h[i] /\ i < Len(h) + 1
           /\ Len(h) + 1 \notin Answers(h)
<1>1. Len(h) \in Nat /\ DOMAIN h = 1..Len(h)
  OBVIOUS
<1>2. /\ Append(h, e) \in Seq(Entries) /\ Len(Append(h, e)) = Len(h) + 1
      /\ \A i \in 1..Len(h) : Append(h, e)[i] = h[i]
      /\ Append(h, e)[Len(h) + 1] = e
  BY AppendProperties
<1>3. PICK g : g = Append(h, e)
  OBVIOUS
<1>4. DOMAIN g = 1..(Len(h) + 1)
  BY <1>2, <1>3
<1>5. /\ \A i \in Answers(h) : i \in 1..Len(h) /\ i < Len(h) + 1
      /\ Len(h) + 1 \notin Answers(h)
  BY <1>1 DEF Answers
<1>6. ASSUME NEW i
      PROVE  i \in Answers(g) <=> i \in Answers(h) \/ (i = Len(h) + 1 /\ Answered(e))
  <2>1. i \in DOMAIN g <=> i \in 1..Len(h) \/ i = Len(h) + 1
    BY <1>1, <1>4
  <2>2. i \in 1..Len(h) => g[i] = h[i] /\ i # Len(h) + 1
    BY <1>1, <1>2, <1>3
  <2>3. g[Len(h) + 1] = e
    BY <1>2, <1>3
  <2> QED BY <1>1, <1>5, <2>1, <2>2, <2>3 DEF Answers
<1>7. Answers(g) = Answers(h) \union (IF Answered(e) THEN {Len(h) + 1} ELSE {})
  BY <1>6
<1> QED BY <1>2, <1>3, <1>5, <1>7

\* The answers given so far are recorded ones that the cursor has passed.
Retold(s) ==
    plan.mode = "substitute" =>
       \E f \in [Answers(seen) -> Answers(log)] :
          Retells(f) /\ \A i \in Answers(seen) : s[f[i]] < cursor

LEMMA GivesRetold ==
    ASSUME ReplayTypeOK, NEW s, Shape(s), Retold(s), NEW q \in Requests, NEW out, NEW c, NEW d,
           Gives(q, out, c, d), ReplayTypeOK', c \in Nat \ {0}, cursor <= c,
           Answered(Entry(q, out)) => Tells(s, q, out, c)
    PROVE  Retold(s)'
<1> SUFFICES ASSUME plan'.mode = "substitute"
             PROVE  \E f \in [Answers(seen') -> Answers(log')] :
                       /\ \A i \in Answers(seen') : seen'[i] = log'[f[i]]
                       /\ \A i, j \in Answers(seen') : i < j => f[i] < f[j]
                       /\ \A i \in Answers(seen') : s[f[i]] < cursor'
  BY DEF Retold, Retells
<1>w. PICK e, n : e = Entry(q, out) /\ n = Len(seen) + 1
  OBVIOUS
<1>1. /\ seen' = Append(seen, e) /\ cursor' = c /\ log' = log /\ plan' = plan
  BY <1>w DEF Gives, recordVars
<1>2. e \in Entries /\ seen \in Seq(Entries) /\ cursor \in Nat /\ n \in Nat
  <2>1. seen' \in Seq(Entries) /\ seen \in Seq(Entries) /\ Len(seen) \in Nat
    BY DEF ReplayTypeOK
  <2>2. Len(seen') = Len(seen) + 1 /\ seen'[Len(seen) + 1] = e
    BY <1>1, <2>1
  <2>3. Len(seen) + 1 \in 1..Len(seen')
    BY <2>1, <2>2
  <2> QED BY <1>w, <2>1, <2>2, <2>3 DEF ReplayTypeOK
<1>3. /\ Answers(seen') = Answers(seen) \union (IF Answered(e) THEN {n} ELSE {})
      /\ seen'[n] = e
      /\ \A i \in Answers(seen) : i \in Nat /\ seen'[i] = seen[i] /\ i < n
      /\ n \notin Answers(seen)
  BY <1>1, <1>2, <1>w, AnswersAppend
<1>4. PICK f \in [Answers(seen) -> Answers(log)] :
         /\ \A i \in Answers(seen) : seen[i] = log[f[i]]
         /\ \A i, j \in Answers(seen) : i < j => f[i] < f[j]
         /\ \A i \in Answers(seen) : s[f[i]] < cursor
  BY <1>1 DEF Retold, Retells
<1>s. \A k \in Answers(log) : k \in 1..Len(log) /\ k \in 1..(Len(log) + 1) /\ s[k] \in Nat
  <2>1. \A k \in Answers(log) : k \in 1..Len(log)
    BY DEF Answers, ReplayTypeOK
  <2> QED BY <2>1, StartFacts
<1>5. CASE ~Answered(e)
  <2>1. Answers(seen') = Answers(seen)
    BY <1>3, <1>5
  <2>2. \A i \in Answers(seen) : s[f[i]] < c
    BY <1>2, <1>4, <1>s
  <2>3. f \in [Answers(seen') -> Answers(log')]
    BY <1>1, <1>4, <2>1
  <2>4. \A i \in Answers(seen') : seen'[i] = log'[f[i]]
    BY <1>1, <1>3, <1>4, <2>1
  <2>5. \A i, j \in Answers(seen') : i < j => f[i] < f[j]
    BY <1>4, <2>1
  <2>6. \A i \in Answers(seen') : s[f[i]] < cursor'
    BY <1>1, <2>1, <2>2
  <2> QED BY <2>3, <2>4, <2>5, <2>6
<1>6. CASE Answered(e)
  <2>1. PICK k \in 1..Len(log) : log[k] = e /\ cursor <= s[k] /\ s[k] < c
    <3>1. PICK k \in 1..Len(log) : log[k] = e /\ s[k] = Skip(cursor) /\ s[k] < c
      BY <1>6, <1>w DEF Tells
    <3>2. cursor <= Skip(cursor)
      BY SkipForward DEF ReplayTypeOK
    <3> QED BY <3>1, <3>2
  <2>2. k \in Answers(log)
    BY <1>6, <2>1 DEF Answers, ReplayTypeOK
  <2>3. PICK g : g = [i \in Answers(seen') |-> IF i = n THEN k ELSE f[i]]
    OBVIOUS
  <2>4. Answers(seen') = Answers(seen) \union {n}
    BY <1>3, <1>6
  <2>5. g \in [Answers(seen') -> Answers(log')]
    BY <1>1, <1>4, <2>2, <2>3, <2>4
  <2>6. g[n] = k /\ \A i \in Answers(seen) : g[i] = f[i]
    BY <1>3, <2>3, <2>4
  <2>7. \A i \in Answers(seen') : seen'[i] = log'[g[i]]
    BY <1>1, <1>3, <1>4, <2>1, <2>4, <2>6
  <2>8. ASSUME NEW i \in Answers(seen) PROVE f[i] < k /\ s[f[i]] < c
    <3>1. f[i] \in 1..(Len(log) + 1) /\ s[f[i]] \in Nat /\ s[f[i]] < cursor
      BY <1>4, <1>s
    <3>2. k \in 1..(Len(log) + 1) /\ s[k] \in Nat
      BY <2>2, <1>s
    <3>3. s[f[i]] < s[k] /\ s[f[i]] < c
      BY <1>2, <2>1, <3>1, <3>2
    <3> QED BY <3>1, <3>2, <3>3, StartFacts
  <2>9. \A i, j \in Answers(seen') : i < j => g[i] < g[j]
    <3> SUFFICES ASSUME NEW i \in Answers(seen'), NEW j \in Answers(seen'), i < j
                 PROVE  g[i] < g[j]
      OBVIOUS
    <3>1. i \in Answers(seen)
      BY <1>2, <1>3, <2>4
    <3>2. CASE j = n
      BY <2>6, <2>8, <3>1, <3>2
    <3>3. CASE j \in Answers(seen)
      BY <1>4, <2>6, <3>1, <3>3
    <3> QED BY <2>4, <3>2, <3>3
  <2>10. \A i \in Answers(seen') : s[g[i]] < cursor'
    BY <1>1, <2>1, <2>4, <2>6, <2>8
  <2> QED BY <2>5, <2>7, <2>9, <2>10
<1> QED BY <1>5, <1>6

RetoldInv == \E s : Shape(s) /\ Retold(s)

LEMMA RetoldStep ==
    ReplayTypeOK /\ RetoldInv /\ [ReplayNext]_rrVars => RetoldInv'
<1> SUFFICES ASSUME ReplayTypeOK, RetoldInv, [ReplayNext]_rrVars
             PROVE  RetoldInv'
  OBVIOUS
<1>1. PICK s : Shape(s) /\ Retold(s)
  BY DEF RetoldInv
<1>t. ReplayTypeOK'
  BY ReplayTypeStep
<1>2. CASE UNCHANGED rrVars
  <2>1. UNCHANGED <<trace, log, final, phase, plan, cursor, steps, seen, report>>
    BY <1>2 DEF rrVars, recordVars, replayVars
  <2>2. Shape(s)'
    BY <1>1, <2>1 DEF Shape, Starts, MayEnd
  <2>3. Retold(s)'
    BY <1>1, <2>1 DEF Retold, Retells
  <2> QED BY <2>2, <2>3 DEF RetoldInv
<1>3. ASSUME plan' = NoPlan, NEW s2, Shape(s2)' PROVE RetoldInv'
  BY <1>3 DEF RetoldInv, Retold, NoPlan
<1>4. ASSUME NEW q \in Requests, ReplayedCall(q) PROVE Retold(s)'
  <2>1. CASE plan.mode = "substitute"
    <3>1. PICK out, c, d : /\ Gives(q, out, c, d) /\ c \in Nat \ {0} /\ cursor <= c
                           /\ \/ out \in {Failed, Diverged} \/ q.kind = "human"
                              \/ Tells(s, q, out, c)
      BY <1>1, <1>4, <2>1, Given
    <3>2. Answered(Entry(q, out)) => Tells(s, q, out, c)
      BY <3>1, NoAnswer DEF Answered, Entry
    <3> QED BY <1>1, <1>t, <3>1, <3>2, GivesRetold
  <2>2. CASE plan.mode # "substitute"
    <3>1. plan' = plan
      BY <1>4 DEF ReplayedCall, ReplayTool, ReplayLlm, ReplayApproval, ReplaySample,
                  ReplayHuman, Gives
    <3> QED BY <2>2, <3>1 DEF Retold
  <2> QED BY <2>1, <2>2
<1>5. ASSUME NEW v \in BOOLEAN \union Errors, CompleteReplay(v), UNCHANGED log
      PROVE  Retold(s)'
  <2>w. PICK at, rest : at = Skip(cursor) /\ rest = Skip(at + 1)
    OBVIOUS
  <2>1. cursor \in Nat \ {0}
    BY DEF ReplayTypeOK
  <2>2. at \in Nat \ {0} /\ at >= cursor
    BY <2>1, <2>w, SkipForward
  <2>3. rest \in Nat \ {0} /\ rest >= at + 1
    <3>1. at + 1 \in Nat \ {0}
      BY <2>2
    <3> QED BY <2>w, <3>1, SkipForward
  <2>4. cursor' \in {cursor, at, at + 1, rest}
    BY <1>5, <2>w DEF CompleteReplay
  <2>5. plan' = plan /\ seen' = seen
    BY <1>5 DEF CompleteReplay
  <2>6. cursor' \in Nat /\ cursor <= cursor'
    BY <2>1, <2>2, <2>3, <2>4
  <2> SUFFICES ASSUME plan.mode = "substitute" PROVE Retold(s)'
    BY <2>5 DEF Retold
  <2>7. PICK f \in [Answers(seen) -> Answers(log)] :
           Retells(f) /\ \A i \in Answers(seen) : s[f[i]] < cursor
    BY <1>1 DEF Retold
  <2>8. \A i \in Answers(seen) : s[f[i]] \in Nat
    <3>1. \A k \in Answers(log) : k \in 1..Len(log)
      BY DEF Answers, ReplayTypeOK
    <3> QED BY <1>1, <2>7, <3>1, StartFacts
  <2>9. \A i \in Answers(seen) : s[f[i]] < cursor'
    BY <2>1, <2>6, <2>7, <2>8
  <2>10. Retells(f)'
    BY <1>5, <2>5, <2>7 DEF Retells
  <2> QED BY <1>5, <2>5, <2>7, <2>9, <2>10 DEF Retold
<1>6. ASSUME NEW p \in Plans, NEW same \in BOOLEAN, Load(p, same) PROVE Retold(s)'
  <2>1. seen' = <<>>
    BY <1>1, <1>6 DEF Load, Shape
  <2>2. Answers(seen') = {}
    BY <2>1 DEF Answers
  <2>3. PICK f : f = [i \in {} |-> 0]
    OBVIOUS
  <2>4. f \in [Answers(seen') -> Answers(log')] /\ Retells(f)'
    BY <2>2, <2>3 DEF Retells
  <2> QED BY <2>2, <2>4 DEF Retold
<1> QED BY <1>1, <1>2, <1>3, <1>4, <1>5, <1>6, StepCases DEF RetoldInv

\* A substitution gives any agent recorded answers to the recorded questions,
\* in the recorded order and none twice, whatever was asked, answered, retried
\* or cut off: replay_tool_call, replay_llm_call, replay_approval and
\* replay_rollout_sample never lend one call the answer of another.
THEOREM SubstitutionRetells == ReplaySpec => []Substituted
<1>1. ReplayInit => RetoldInv
  <2> SUFFICES ASSUME ReplayInit PROVE RetoldInv
    OBVIOUS
  <2>1. \E s : Shape(s)
    BY ShapeInit
  <2>2. plan.mode # "substitute"
    BY DEF ReplayInit, NoPlan
  <2> QED BY <2>1, <2>2 DEF RetoldInv, Retold
<1>2. RetoldInv => Substituted
  BY DEF RetoldInv, Retold, Substituted
<1> QED BY <1>1, <1>2, RetoldStep, ReplayTypeCorrect, PTL DEF ReplaySpec

-----------------------------------------------------------------------------
(* Drift. *)

\* Nothing but metadata stands from c up to p; from c to the end of the trace.
Ready(c, p) == c <= p /\ \A i \in c..(p - 1) : i <= Len(trace) /\ IsMetadata(trace[i])
PastAll(c) == \A i \in Nat : c <= i /\ i <= Len(trace) => IsMetadata(trace[i])

LEMMA ReadySkip ==
    ASSUME ReplayTypeOK, NEW c \in Nat \ {0}, NEW p, p = Skip(c)
    PROVE  Ready(c, p)
<1>1. c <= Skip(c)
  BY SkipForward
<1> QED BY <1>1, SkipFacts DEF Ready

LEMMA ReadyAt ==
    ASSUME ReplayTypeOK, NEW s, Shape(s), NEW k \in 1..(Len(log) + 1), NEW c \in Nat \ {0},
           Ready(c, s[k])
    PROVE  Skip(c) = s[k]
<1>1. s[k] \in Nat /\ s[k] >= c
  BY StartFacts DEF Ready
<1>2. s[k] <= Len(trace) => ~IsMetadata(trace[s[k]])
  BY BetweenCalls DEF EventAt, IsMetadata, AskKinds
<1>3. \A i \in c..(s[k] - 1) : i <= Len(trace) /\ IsMetadata(trace[i])
  BY DEF Ready
<1> QED BY <1>1, <1>2, <1>3, SkipUnique

LEMMA PastSkip ==
    ASSUME ReplayTypeOK, NEW c \in Nat \ {0}
    PROVE  Skip(c) > Len(trace) <=> PastAll(c)
<1>w. PICK p : p = Skip(c)
  OBVIOUS
<1>1. p \in Nat /\ c <= p /\ Len(trace) \in Nat
  BY <1>w, SkipForward DEF ReplayTypeOK
<1>2. /\ p <= Len(trace) => ~IsMetadata(trace[p])
      /\ \A i \in c..(p - 1) : i <= Len(trace) /\ IsMetadata(trace[i])
  BY <1>w, SkipFacts
<1>3. ASSUME p > Len(trace) PROVE PastAll(c)
  <2> SUFFICES ASSUME NEW i \in Nat, c <= i, i <= Len(trace) PROVE IsMetadata(trace[i])
    BY DEF PastAll
  <2>1. i \in c..(p - 1)
    BY <1>1, <1>3
  <2> QED BY <1>2, <2>1
<1>4. ASSUME PastAll(c) PROVE p > Len(trace)
  BY <1>1, <1>2, <1>4 DEF PastAll
<1> QED BY <1>3, <1>4, <1>w

\* What Given says of a call that is given out.
Fits(s, q, out, c, d) ==
    \/ d = TRUE
    \/ out \in {Failed, Diverged}
    \/ q.kind = "human" /\ c = cursor
    \/ Tells(s, q, out, c)

\* A run without a difference, a failure or a divergence was told the first m
\* recorded calls, and stands before the next one or past the end.
Told(s) ==
    /\ phase = "replay"
    /\ plan.mode # "mutation"
    /\ ~report
    /\ \A i \in DOMAIN seen : seen[i].out \notin {Failed, Diverged}
    => \E m \in 0..Len(log) : \E f \in [Answers(seen) -> Answers(log)] :
          /\ Retells(f)
          /\ \A i \in Answers(seen) : f[i] <= m
          /\ \A k \in 1..m : \E i \in Answers(seen) : f[i] = k
          /\ Ready(cursor, s[m + 1]) \/ PastAll(cursor)

LEMMA GivesTold ==
    ASSUME ReplayTypeOK, NEW s, Shape(s), Told(s), phase = "replay", NEW q \in Requests,
           NEW out, NEW c, NEW d, Gives(q, out, c, d), ReplayTypeOK', c \in Nat \ {0},
           Fits(s, q, out, c, d)
    PROVE  Told(s)'
<1>w. PICK e, n : e = Entry(q, out) /\ n = Len(seen) + 1
  OBVIOUS
<1>1. /\ seen' = Append(seen, e) /\ cursor' = c /\ trace' = trace /\ log' = log
      /\ plan' = plan /\ phase' = phase /\ report' = (report \/ d)
  BY <1>w DEF Gives, recordVars
<1>2. /\ e \in Entries /\ seen \in Seq(Entries) /\ n \in Nat /\ cursor \in Nat \ {0}
      /\ DOMAIN seen = 1..Len(seen) /\ DOMAIN seen' = 1..n /\ Len(seen) \in Nat
      /\ seen'[n] = e /\ \A i \in 1..Len(seen) : seen'[i] = seen[i]
  <2>1. /\ seen' \in Seq(Entries) /\ seen \in Seq(Entries) /\ Len(seen) \in Nat
        /\ cursor \in Nat \ {0}
    BY DEF ReplayTypeOK
  <2>2. /\ Len(seen') = Len(seen) + 1 /\ seen'[Len(seen) + 1] = e
        /\ \A i \in 1..Len(seen) : seen'[i] = seen[i]
    BY <1>1, <2>1
  <2>3. Len(seen) + 1 \in 1..Len(seen')
    BY <2>1, <2>2
  <2> QED BY <1>w, <2>1, <2>2, <2>3
<1> SUFFICES ASSUME plan.mode # "mutation", ~report', 
                    \A i \in DOMAIN seen' : seen'[i].out \notin {Failed, Diverged}
             PROVE  Told(s)'
  BY <1>1 DEF Told
<1>3. ~report /\ d # TRUE
  BY <1>1
<1>4. /\ \A i \in DOMAIN seen : seen[i].out \notin {Failed, Diverged}
      /\ out \notin {Failed, Diverged}
  <2>1. \A i \in 1..Len(seen) : i \in 1..n
    BY <1>2, <1>w
  <2>2. n \in 1..n
    BY <1>2, <1>w
  <2>3. e.out = out
    BY <1>w DEF Entry
  <2> QED BY <1>2, <2>1, <2>2, <2>3
<1>5. PICK m \in 0..Len(log) : \E f \in [Answers(seen) -> Answers(log)] :
          /\ Retells(f)
          /\ \A i \in Answers(seen) : f[i] <= m
          /\ \A k \in 1..m : \E i \in Answers(seen) : f[i] = k
          /\ Ready(cursor, s[m + 1]) \/ PastAll(cursor)
  BY <1>3, <1>4 DEF Told
<1>6. PICK f \in [Answers(seen) -> Answers(log)] :
          /\ Retells(f)
          /\ \A i \in Answers(seen) : f[i] <= m
          /\ \A k \in 1..m : \E i \in Answers(seen) : f[i] = k
          /\ Ready(cursor, s[m + 1]) \/ PastAll(cursor)
  BY <1>5
<1>7. /\ Answers(seen') = Answers(seen) \union (IF Answered(e) THEN {n} ELSE {})
      /\ \A i \in Answers(seen) : i \in Nat /\ seen'[i] = seen[i] /\ i < n
      /\ n \notin Answers(seen)
  BY <1>1, <1>2, <1>w, AnswersAppend
<1>8. CASE q.kind = "human" /\ c = cursor
  <2>1. ~Answered(e)
    BY <1>8, <1>w DEF Answered, Entry
  <2>2. Answers(seen') = Answers(seen)
    BY <1>7, <2>1
  <2>3. Retells(f)'
    BY <1>1, <1>6, <1>7, <2>2 DEF Retells
  <2>4. (Ready(cursor, s[m + 1]) \/ PastAll(cursor))'
    BY <1>1, <1>6, <1>8 DEF Ready, PastAll, IsMetadata
  <2>5. /\ \A i \in Answers(seen') : f[i] <= m
        /\ \A k \in 1..m : \E i \in Answers(seen') : f[i] = k
        /\ f \in [Answers(seen') -> Answers(log')] /\ m \in 0..Len(log')
    BY <1>1, <1>6, <2>2
  <2> QED BY <2>3, <2>4, <2>5 DEF Told
<1>9. CASE Tells(s, q, out, c)
  <2>1. PICK k \in 1..Len(log) : /\ s[k] = Skip(cursor) /\ s[k] <= Len(trace) /\ s[k] < c
                                 /\ log[k] = e /\ Answered(log[k])
                                 /\ Skip(c) = s[k + 1] \/ Skip(c) > Len(trace)
    BY <1>9, <1>w DEF Tells
  <2>2. Len(trace) \in Nat /\ s[k] \in Nat /\ Len(log) \in Nat /\ k \in 1..(Len(log) + 1)
    BY StartFacts
  <2>3. ~PastAll(cursor)
    <3>1. ~(Skip(cursor) > Len(trace))
      BY <2>1, <2>2
    <3> QED BY <1>2, <3>1, PastSkip
  <2>4. k = m + 1
    <3>1. m + 1 \in 1..(Len(log) + 1)
      BY <2>2
    <3>2. s[m + 1] = s[k]
      BY <1>2, <1>6, <2>1, <2>3, <3>1, ReadyAt
    <3> QED BY <2>2, <3>1, <3>2, StartFacts
  <2>5. k \in Answers(log)
    BY <2>1 DEF Answers, ReplayTypeOK
  <2>6. Answers(seen') = Answers(seen) \union {n}
    BY <1>7, <2>1
  <2>7. PICK g : g = [i \in Answers(seen') |-> IF i = n THEN k ELSE f[i]]
    OBVIOUS
  <2>8. g \in [Answers(seen') -> Answers(log')]
    BY <1>1, <1>6, <2>5, <2>6, <2>7
  <2>9. g[n] = k /\ \A i \in Answers(seen) : g[i] = f[i]
    BY <1>7, <2>6, <2>7
  <2>10. \A i \in Answers(seen') : seen'[i] = log'[g[i]]
    <3> SUFFICES ASSUME NEW i \in Answers(seen') PROVE seen'[i] = log'[g[i]]
      OBVIOUS
    <3>1. CASE i = n
      BY <1>1, <1>2, <1>7, <2>1, <2>9, <3>1
    <3>2. CASE i \in Answers(seen)
      BY <1>1, <1>6, <1>7, <2>9, <3>2 DEF Retells
    <3> QED BY <2>6, <3>1, <3>2
  <2>11. \A i \in Answers(seen) : f[i] \in Nat /\ f[i] < k
    <3>1. \A j \in Answers(log) : j \in Nat
      BY DEF Answers, ReplayTypeOK
    <3>2. m \in Nat /\ k \in Nat
      BY <2>2
    <3>3. \A i \in Answers(seen) : f[i] \in Nat /\ f[i] <= m
      BY <1>6, <3>1
    <3> QED BY <2>4, <3>2, <3>3
  <2>12. \A i, j \in Answers(seen') : i < j => g[i] < g[j]
    <3> SUFFICES ASSUME NEW i \in Answers(seen'), NEW j \in Answers(seen'), i < j
                 PROVE  g[i] < g[j]
      OBVIOUS
    <3>1. i \in Answers(seen)
      BY <1>2, <1>7, <2>6
    <3>2. CASE j = n
      BY <2>9, <2>11, <3>1, <3>2
    <3>3. CASE j \in Answers(seen)
      <4>1. f[i] < f[j]
        BY <1>6, <3>1, <3>3 DEF Retells
      <4> QED BY <2>9, <3>1, <3>3, <4>1
    <3> QED BY <2>6, <3>2, <3>3
  <2>13. Retells(g)'
    BY <2>10, <2>12 DEF Retells
  <2>14. \A i \in Answers(seen') : g[i] <= m + 1
    BY <2>2, <2>4, <2>6, <2>9, <2>11
  <2>15. \A j \in 1..(m + 1) : \E i \in Answers(seen') : g[i] = j
    <3> SUFFICES ASSUME NEW j \in 1..(m + 1) PROVE \E i \in Answers(seen') : g[i] = j
      OBVIOUS
    <3>1. j = k \/ j \in 1..m
      BY <2>2, <2>4
    <3>2. CASE j = k
      BY <2>6, <2>9, <3>2
    <3>3. CASE j \in 1..m
      BY <1>6, <2>6, <2>9, <3>3
    <3> QED BY <3>1, <3>2, <3>3
  <2>16. m + 1 \in 0..Len(log')
    BY <1>1, <2>2, <2>4
  <2>17. Ready(c, s[(m + 1) + 1]) \/ PastAll(c)
    BY <2>1, <2>4, ReadySkip, PastSkip
  <2>18. (Ready(cursor, s[(m + 1) + 1]) \/ PastAll(cursor))'
    BY <1>1, <2>17 DEF Ready, PastAll, IsMetadata
  <2>19. PICK m2 : m2 = m + 1
    OBVIOUS
  <2> QED BY <2>8, <2>13, <2>14, <2>15, <2>16, <2>18, <2>19 DEF Told
<1> QED BY <1>3, <1>4, <1>8, <1>9 DEF Fits

DriftInv == NoSilentDrift /\ \E s : Shape(s) /\ Told(s)

LEMMA DriftStep ==
    ReplayTypeOK /\ DriftInv /\ [ReplayNext]_rrVars => DriftInv'
<1> SUFFICES ASSUME ReplayTypeOK, DriftInv, [ReplayNext]_rrVars
             PROVE  DriftInv'
  OBVIOUS
<1>1. PICK s : Shape(s) /\ Told(s)
  BY DEF DriftInv
<1>t. ReplayTypeOK'
  BY ReplayTypeStep
<1>2. CASE UNCHANGED rrVars
  <2>1. UNCHANGED <<trace, log, final, phase, plan, cursor, steps, seen, report>>
    BY <1>2 DEF rrVars, recordVars, replayVars
  <2>2. Shape(s)'
    BY <1>1, <2>1 DEF Shape, Starts, MayEnd
  <2>3. Told(s)'
    BY <1>1, <2>1 DEF Told, Retells, Ready, PastAll, IsMetadata
  <2>4. NoSilentDrift'
    BY <2>1 DEF DriftInv, NoSilentDrift, Retells
  <2> QED BY <2>2, <2>3, <2>4 DEF DriftInv
<1>3. ASSUME phase' \in {"record", "recorded"}, NEW s2, Shape(s2)' PROVE DriftInv'
  BY <1>3 DEF DriftInv, Told, NoSilentDrift
<1>4. ASSUME NEW q \in Requests, ReplayedCall(q), phase = "replay", Shape(s)'
      PROVE  DriftInv'
  <2>1. phase' = phase /\ plan' = plan
    BY <1>4 DEF ReplayedCall, ReplayTool, ReplayLlm, ReplayApproval, ReplaySample,
                ReplayHuman, Gives
  <2>2. NoSilentDrift'
    BY <1>4, <2>1 DEF NoSilentDrift
  <2>3. CASE plan.mode = "mutation"
    BY <1>4, <2>1, <2>2, <2>3 DEF DriftInv, Told
  <2>4. CASE plan.mode # "mutation"
    <3>1. PICK out, c, d : /\ Gives(q, out, c, d) /\ c \in Nat \ {0}
                           /\ Fits(s, q, out, c, d)
      BY <1>1, <1>4, <2>4, Given DEF Fits
    <3>2. Told(s)'
      BY <1>1, <1>4, <1>t, <3>1, GivesTold
    <3> QED BY <1>4, <2>2, <3>2 DEF DriftInv
  <2> QED BY <2>3, <2>4
<1>5. ASSUME NEW v \in BOOLEAN \union Errors, CompleteReplay(v), phase = "replay", Shape(s)',
             UNCHANGED <<trace, log, final>>
      PROVE  DriftInv'
  <2>w. PICK at, rest : at = Skip(cursor) /\ rest = Skip(at + 1)
    OBVIOUS
  <2>1. phase' # "replay" /\ plan' = plan /\ seen' = seen
    BY <1>5 DEF CompleteReplay
  <2>2. Told(s)'
    BY <2>1 DEF Told
  <2>3. NoSilentDrift'
    <3> SUFFICES ASSUME phase' = "ok", plan.mode # "mutation", ~report',
                        \A e \in Range(seen) : e.out \notin {Failed, Diverged}
                 PROVE  /\ final # Pending
                        /\ \E f \in [Answers(seen) -> Answers(log)] :
                              Retells(f) /\ Answers(log) = {f[i] : i \in Answers(seen)}
      BY <1>5, <2>1 DEF NoSilentDrift, Retells
    <3>1. ~report /\ EventAt(at).kind = "RunCompleted" /\ rest = Len(trace) + 1
      BY <1>5, <2>w DEF CompleteReplay
    <3>2. cursor \in Nat \ {0} /\ Len(trace) \in Nat
      BY DEF ReplayTypeOK
    <3>3. at \in Nat \ {0} /\ at + 1 \in Nat \ {0}
      BY <2>w, <3>2, SkipForward
    <3>4. at <= Len(trace)
      <4>1. rest >= at + 1
        BY <2>w, <3>3, SkipForward
      <4> QED BY <3>1, <3>2, <3>3, <4>1
    <3>5. final # Pending /\ at = s[Len(log) + 1]
      BY <1>1, <3>1, <3>3, <3>4, AtEnd
    <3>6. \A i \in DOMAIN seen : seen[i].out \notin {Failed, Diverged}
      BY DEF Range
    <3>7. PICK m \in 0..Len(log) : \E f \in [Answers(seen) -> Answers(log)] :
             /\ Retells(f)
             /\ \A i \in Answers(seen) : f[i] <= m
             /\ \A k \in 1..m : \E i \in Answers(seen) : f[i] = k
             /\ Ready(cursor, s[m + 1]) \/ PastAll(cursor)
      BY <1>1, <1>5, <3>1, <3>6 DEF Told
    <3>8. PICK f \in [Answers(seen) -> Answers(log)] :
             /\ Retells(f)
             /\ \A k \in 1..m : \E i \in Answers(seen) : f[i] = k
             /\ Ready(cursor, s[m + 1]) \/ PastAll(cursor)
      BY <3>7
    <3>9. ~PastAll(cursor)
      <4>1. ~(Skip(cursor) > Len(trace))
        BY <2>w, <3>2, <3>3, <3>4
      <4> QED BY <3>2, <4>1, PastSkip
    <3>10. m = Len(log)
      <4>1. m + 1 \in 1..(Len(log) + 1) /\ Len(log) + 1 \in 1..(Len(log) + 1) /\ Len(log) \in Nat
        BY <1>1, StartFacts
      <4>2. s[m + 1] = s[Len(log) + 1]
        BY <1>1, <2>w, <3>2, <3>5, <3>8, <3>9, <4>1, ReadyAt
      <4>3. m + 1 = Len(log) + 1
        BY <1>1, <4>1, <4>2, StartFacts
      <4> QED BY <4>1, <4>3
    <3>11. \A k \in Answers(log) : k \in 1..Len(log)
      BY DEF Answers, ReplayTypeOK
    <3>12. Answers(log) = {f[i] : i \in Answers(seen)}
      BY <3>8, <3>10, <3>11
    <3> QED BY <3>5, <3>8, <3>12
  <2> QED BY <1>5, <2>2, <2>3 DEF DriftInv
<1>6. ASSUME NEW p \in Plans, NEW same \in BOOLEAN, Load(p, same), Shape(s)',
             UNCHANGED <<trace, log, final>>
      PROVE  DriftInv'
  <2>1. seen' = <<>> /\ phase' # "ok" /\ (phase' = "replay" => cursor' = 2)
    BY <1>1, <1>6 DEF Load, Shape
  <2>2. NoSilentDrift'
    BY <2>1 DEF NoSilentDrift
  <2>3. Told(s)'
    <3> SUFFICES ASSUME phase' = "replay" PROVE Told(s)'
      BY DEF Told
    <3>1. Answers(seen') = {}
      BY <2>1 DEF Answers
    <3>2. PICK f : f = [i \in {} |-> 0]
      OBVIOUS
    <3>3. f \in [Answers(seen') -> Answers(log')] /\ Retells(f)'
      BY <3>1, <3>2 DEF Retells
    <3>4. s[1] = 2 /\ Len(log) \in Nat
      BY <1>1, StartFacts
    <3>5. (Ready(cursor, s[0 + 1]))'
      BY <2>1, <3>4 DEF Ready
    <3>6. 0 \in 0..Len(log') /\ 1..0 = {}
      BY <1>6, <3>4
    <3> QED BY <3>1, <3>3, <3>5, <3>6 DEF Told
  <2> QED BY <1>6, <2>2, <2>3 DEF DriftInv
<1> QED BY <1>1, <1>2, <1>3, <1>4, <1>5, <1>6, StepCases

\* A replay that complete_run and finish let end well, and that reported no
\* difference, failure or divergence, gave the agent every recorded answer and
\* no other, from a trace that is whole.
THEOREM DriftIsSeen == ReplaySpec => []NoSilentDrift
<1>1. ReplayInit => DriftInv
  <2> SUFFICES ASSUME ReplayInit PROVE DriftInv
    OBVIOUS
  <2>1. PICK s : Shape(s)
    BY ShapeInit
  <2>2. phase = "record"
    BY DEF ReplayInit
  <2> QED BY <2>1, <2>2 DEF DriftInv, Told, NoSilentDrift
<1>2. DriftInv => NoSilentDrift
  BY DEF DriftInv
<1> QED BY <1>1, <1>2, DriftStep, ReplayTypeCorrect, PTL DEF ReplaySpec

-----------------------------------------------------------------------------
(* Unedited agents and clean recordings. *)

\* What a clean recording has.
LEMMA CleanFacts ==
    ASSUME ReplayTypeOK, Clean
    PROVE  /\ \A k \in 1..Len(log) : log[k].req.kind # "human" /\ log[k].out # Failed
           /\ \A i \in 1..Len(trace) : trace[i].by = "asked"
<1>1. DOMAIN log = 1..Len(log) /\ DOMAIN trace = 1..Len(trace)
  BY DEF ReplayTypeOK
<1>2. /\ \A k \in 1..Len(log) : log[k] \in Range(log)
      /\ \A i \in 1..Len(trace) : trace[i] \in Range(trace)
  BY <1>1 DEF Range
<1> QED BY <1>2 DEF Clean

\* A whole call of a clean recording gives its outcome back to its question,
\* in a substitution and before the step of a mutation.
LEMMA ReadsNext ==
    ASSUME ReplayTypeOK, NEW s, Shape(s), Clean, NEW k \in 1..Len(log), Ready(cursor, s[k]),
           s[k + 1] - 1 <= Len(trace), NEW q, q = log[k].req, ReplayedCall(q),
           q.kind # "sample" => /\ plan.mode \in {"substitute", "mutation"}
                                /\ Strict({}) /\ Strict({"differential"}) /\ ~Swapped
    PROVE  \E c \in Nat \ {0} : Gives(q, log[k].out, c, FALSE) /\ Ready(c, s[k + 1])
<1>w. PICK at, call, after, result :
         at = Skip(cursor) /\ call = EventAt(at) /\ after = Skip(at + 1) /\ result = EventAt(after)
  OBVIOUS
<1>0. /\ cursor \in Nat \ {0} /\ Len(trace) \in Nat /\ q \in Requests
      /\ k \in 1..(Len(log) + 1) /\ k + 1 \in 1..(Len(log) + 1)
      /\ s[k] \in Nat \ {0} /\ s[k + 1] \in Nat \ {0}
  BY StartFacts DEF ReplayTypeOK
<1>1. at = s[k] /\ at \in Nat \ {0} /\ at + 1 \in Nat \ {0}
  BY <1>0, <1>w, ReadyAt
<1>2. at <= Len(trace)
  <2>1. k < k + 1
    OBVIOUS
  <2>2. s[k] < s[k + 1]
    BY <1>0, <2>1, StartFacts
  <2> QED BY <1>0, <1>1, <2>2
<1>3. after \in Nat \ {0} /\ after + 1 \in Nat \ {0}
  <2>1. after \in Nat \ {0}
    BY <1>1, <1>w, SkipForward
  <2> QED BY <2>1
<1>4. /\ call.kind = CallKind[q.kind]
      /\ q.kind # "sample" => call = CallEvent(q)
      /\ q.kind = "sample" => call.val = log[k].out
  <2>1. s[k] <= Len(trace) /\ call = EventAt(s[k])
    BY <1>1, <1>2, <1>w
  <2> QED BY <2>1, FirstEvent
<1>5. q.kind # "human" /\ log[k].out # Failed /\ ~(Len(trace) < s[k + 1] - 1)
  BY <1>0, CleanFacts
<1>6. ASSUME NEW c \in Nat \ {0}, Skip(c) = s[k + 1] \/ c = s[k + 1]
      PROVE  Ready(c, s[k + 1])
  <2>1. Skip(c) = s[k + 1]
    BY <1>0, <1>6, BetweenCalls
  <2> QED BY <2>1, ReadySkip
<1>7. CASE q.kind = "tool" /\ ReplayTool(q)
  <2>1. /\ result = ResultEvent(q, log[k].out) /\ after + 1 = s[k + 1]
    BY <1>1, <1>2, <1>5, <1>7, <1>w, ToolRead
  <2>2. result.kind \in ResultKinds /\ result.val = log[k].out
    BY <1>7, <2>1, KindNames DEF ResultEvent, Event
  <2>3. Strict({"differential"}) /\ ~Swapped /\ plan.mode # "differential"
    BY <1>7
  <2>4. Gives(q, log[k].out, after + 1, FALSE)
    BY <1>4, <1>7, <1>w, <2>2, <2>3 DEF ReplayTool
  <2> QED BY <1>3, <1>6, <2>1, <2>4
<1>8. CASE q.kind = "llm" /\ ReplayLlm(q)
  <2>1. PICK by \in {"asked", "fallback"} :
           /\ result = AnsweredBy(q, log[k].out, by) /\ after + 1 = s[k + 1]
           /\ after <= Len(trace)
    BY <1>1, <1>2, <1>5, <1>8, <1>w, LlmRead
  <2>2. /\ result.kind = "LlmResult" /\ result.kind \in ResultKinds
        /\ result.val = log[k].out /\ result.arg = q.arg
    BY <1>8, <2>1, KindNames DEF AnsweredBy, ResultEvent, Event
  <2>3. result.by = "asked"
    <3>1. after \in 1..Len(trace)
      BY <1>0, <1>3, <2>1
    <3> QED BY <1>w, <2>1, <3>1, CleanFacts DEF EventAt
  <2>4. Strict({}) /\ ~Swapped /\ plan.mode \in {"substitute", "mutation"}
    BY <1>8
  <2>5. Gives(q, log[k].out, after + 1, FALSE)
    BY <1>4, <1>8, <1>w, <2>2, <2>3, <2>4 DEF ReplayLlm
  <2> QED BY <1>3, <1>6, <2>1, <2>5
<1>9. CASE q.kind = "approval" /\ ReplayApproval(q)
  <2>w. PICK aft, res :
           /\ aft = IF EventAt(after).kind = "ApprovalDecision" THEN Skip(after + 1) ELSE after
           /\ res = EventAt(aft)
    OBVIOUS
  <2>0. aft + 1 \in Nat \ {0}
    <3>1. Skip(after + 1) \in Nat \ {0}
      BY <1>3, SkipForward
    <3> QED BY <1>3, <2>w, <3>1
  <2>1. ~(Len(trace) < s[k] + 2)
    <3>1. Written(trace, log[k], s[k], s[k + 1])
      BY DEF Shape
    <3>2. s[k + 1] = s[k] + 3 \/ s[k + 1] = s[k] + 4
      BY <1>5, <1>9, <3>1, Zenon DEF Written
    <3> QED BY <1>0, <1>5, <3>2, SMTT(30)
  <2>2. /\ \E v \in BOOLEAN : res = ResultEvent(q, v) /\ log[k].out = Gate(v)
        /\ Skip(aft + 1) = s[k + 1]
    BY <1>1, <1>2, <1>5, <1>9, <1>w, <2>1, <2>w, ApprovalRead, ZenonT(30)
  <2>3. PICK v \in BOOLEAN : res = ResultEvent(q, v) /\ log[k].out = Gate(v)
    BY <2>2
  <2>4. res.kind \in ResultKinds /\ res.val = v
    BY <1>9, <2>3, KindNames DEF ResultEvent, Event
  <2>5. Gate(AsBool(res.val)) = log[k].out
    BY <2>3, <2>4 DEF AsBool
  <2>6. Strict({"differential"}) /\ ~Swapped /\ plan.mode # "differential"
    BY <1>9
  <2>7. Gives(q, log[k].out, aft + 1, FALSE)
    BY <1>4, <1>9, <1>w, <2>4, <2>5, <2>6, <2>w DEF ReplayApproval
  <2> QED BY <1>6, <2>0, <2>2, <2>7
<1>10. CASE q.kind = "sample" /\ ReplaySample(q)
  <2>1. call.kind = "SeedRead"
    BY <1>4, <1>10, KindNames
  <2>2. Gives(q, log[k].out, at + 1, FALSE)
    BY <1>4, <1>10, <1>w, <2>1 DEF ReplaySample
  <2>3. at + 1 = s[k + 1]
    <3>1. Written(trace, log[k], s[k], s[k + 1])
      BY DEF Shape
    <3> QED BY <1>1, <1>10, <3>1 DEF Written
  <2> QED BY <1>1, <1>6, <2>2, <2>3
<1> QED BY <1>5, <1>7, <1>8, <1>9, <1>10 DEF ReplayedCall

\* The replay has been told the beginning of the recorded run.
Prefixed(n) == n <= Len(log) /\ \A i \in 1..n : seen[i] = log[i]

LEMMA PrefixIs ==
    ASSUME ReplayTypeOK, Prefixed(Len(seen))
    PROVE  SubSeq(log, 1, Len(seen)) = seen /\ IsPrefix(seen, log)
<1>1. /\ seen \in Seq(Entries) /\ log \in Seq(Entries) /\ Len(seen) \in Nat /\ Len(log) \in Nat
      /\ Len(seen) <= Len(log)
  BY DEF ReplayTypeOK, Prefixed
<1>2. ASSUME NEW h \in Seq(Entries), Len(seen) <= Len(h), \A i \in 1..Len(seen) : h[i] = seen[i]
      PROVE  SubSeq(h, 1, Len(seen)) = seen
  <2>1. \A i \in 1..Len(seen) : h[i] \in Entries
    BY <1>1, <1>2
  <2>2. /\ SubSeq(h, 1, Len(seen)) \in Seq(Entries)
        /\ Len(SubSeq(h, 1, Len(seen))) = IF 1 <= Len(seen) THEN Len(seen) - 1 + 1 ELSE 0
        /\ \A i \in 1..(Len(seen) - 1 + 1) : SubSeq(h, 1, Len(seen))[i] = h[1 + i - 1]
    BY <1>1, <2>1, SubSeqProperties
  <2>3. Len(seen) - 1 + 1 = Len(seen) /\ \A i \in 1..Len(seen) : 1 + i - 1 = i
    BY <1>1
  <2>4. Len(SubSeq(h, 1, Len(seen))) = Len(seen)
    BY <1>1, <2>2, <2>3
  <2>5. \A i \in 1..Len(seen) : SubSeq(h, 1, Len(seen))[i] = seen[i]
    BY <1>2, <2>2, <2>3
  <2> QED BY <1>1, <2>2, <2>4, <2>5, SeqEqual
<1>3. SubSeq(log, 1, Len(seen)) = seen
  BY <1>1, <1>2 DEF Prefixed
<1>4. SubSeq(seen, 1, Len(seen)) = seen
  BY <1>1, <1>2
<1> QED BY <1>1, <1>3, <1>4 DEF IsPrefix

\* The next question of an agent that has been told that is the recorded one.
LEMMA AsksNext ==
    ASSUME ReplayTypeOK, Prefixed(Len(seen)), ~plan.edited, NEW q, Asks(q)
    PROVE  /\ Len(seen) < Len(log) => q = log[Len(seen) + 1].req
           /\ Len(seen) = Len(log) => final = Pending
<1>1. SubSeq(log, 1, Len(seen)) = seen
  BY PrefixIs
<1>2. Follows
  BY <1>1 DEF Follows, Prefixed
<1> QED BY <1>2 DEF Asks

\* An agent told the whole recorded run ends as that did.
LEMMA EndsAs ==
    ASSUME ReplayTypeOK, NEW s, Shape(s), Prefixed(Len(seen)), ~plan.edited,
           final # Pending, NEW v, Ends(v)
    PROVE  Len(seen) = Len(log) /\ v = final
<1>1. SubSeq(log, 1, Len(seen)) = seen
  BY PrefixIs
<1>2. Follows
  BY <1>1 DEF Follows, Prefixed
<1>3. /\ Len(seen) = Len(log) /\ MayEnd(seen, v)
      /\ v \in BOOLEAN \/ final \in BOOLEAN => v = final
  BY <1>2 DEF Ends
<1>4. CASE v \notin BOOLEAN /\ final \notin BOOLEAN
  <2>1. seen # <<>> /\ v = Last(seen).out
    BY <1>3, <1>4 DEF MayEnd, Erred
  <2>2. log # <<>> /\ final = Last(log).out
    <3>1. MayEnd(log, final)
      BY DEF Shape
    <3> QED BY <1>4, <3>1 DEF MayEnd, Erred
  <2>3. Len(seen) \in 1..Len(seen)
    BY <2>1 DEF ReplayTypeOK
  <2>4. seen[Len(seen)] = log[Len(log)]
    BY <1>3, <2>3 DEF Prefixed
  <2> QED BY <1>3, <2>1, <2>2, <2>4 DEF Last
<1> QED BY <1>3, <1>4

\* One more call of the log is told.
LEMMA PrefixGrows ==
    ASSUME ReplayTypeOK, Prefixed(Len(seen)), NEW k \in 1..Len(log), k = Len(seen) + 1,
           NEW c, NEW d, Gives(log[k].req, log[k].out, c, d)
    PROVE  Len(seen') = k /\ Prefixed(k)' /\ Len(seen') = Len(seen) + 1
<1>1. /\ seen \in Seq(Entries) /\ Len(seen) \in Nat /\ log' = log
      /\ seen' = Append(seen, Entry(log[k].req, log[k].out))
  BY DEF ReplayTypeOK, Gives, recordVars
<1>2. log[k] = Entry(log[k].req, log[k].out) /\ log[k] \in Entries
  BY EntryIs DEF ReplayTypeOK
<1>3. /\ Len(seen') = Len(seen) + 1 /\ seen'[k] = log[k]
      /\ \A i \in 1..Len(seen) : seen'[i] = seen[i]
  BY <1>1, <1>2, AppendProperties
<1>4. \A i \in 1..k : seen'[i] = log[i]
  <2> SUFFICES ASSUME NEW i \in 1..k PROVE seen'[i] = log[i]
    OBVIOUS
  <2>1. i = k \/ i \in 1..Len(seen)
    BY <1>1
  <2> QED BY <1>3, <2>1 DEF Prefixed
<1>5. k <= Len(log)
  BY DEF ReplayTypeOK
<1> QED BY <1>1, <1>3, <1>4, <1>5 DEF Prefixed

\* The replay of a clean recording by its own agent is on its way or done.
Unbroken(s) ==
    plan.mode = "substitute" /\ ~plan.edited /\ Clean /\ final # Pending =>
       /\ phase \in {"replay", "ok"}
       /\ Prefixed(Len(seen))
       /\ phase = "replay" => Ready(cursor, s[Len(seen) + 1])

CleanInv == \E s : Shape(s) /\ Unbroken(s)

LEMMA CleanStep ==
    ReplayTypeOK /\ CleanInv /\ [ReplayNext]_rrVars => CleanInv'
<1> SUFFICES ASSUME ReplayTypeOK, CleanInv, [ReplayNext]_rrVars
             PROVE  CleanInv'
  OBVIOUS
<1>1. PICK s : Shape(s) /\ Unbroken(s)
  BY DEF CleanInv
<1>2. CASE UNCHANGED rrVars
  <2>1. UNCHANGED <<trace, log, final, phase, plan, cursor, steps, seen, report>>
    BY <1>2 DEF rrVars, recordVars, replayVars
  <2>2. Shape(s)'
    BY <1>1, <2>1 DEF Shape, Starts, MayEnd
  <2>3. Unbroken(s)'
    BY <1>1, <2>1 DEF Unbroken, Prefixed, Ready, IsMetadata, Clean
  <2> QED BY <2>2, <2>3 DEF CleanInv
<1>3. ASSUME plan' = NoPlan, NEW s2, Shape(s2)' PROVE CleanInv'
  BY <1>3 DEF CleanInv, Unbroken, NoPlan
<1>4. ASSUME NEW q \in Requests, ReplayedCall(q), phase = "replay", Shape(s)',
             UNCHANGED <<trace, log, final>>
      PROVE  Unbroken(s)'
  <2>1. phase' = phase /\ plan' = plan /\ Asks(q)
    BY <1>4 DEF ReplayedCall, ReplayTool, ReplayLlm, ReplayApproval, ReplaySample,
                ReplayHuman, Gives
  <2>2. Clean' <=> Clean
    BY <1>4 DEF Clean
  <2> SUFFICES ASSUME plan.mode = "substitute", ~plan.edited, Clean, final # Pending
               PROVE  Unbroken(s)'
    BY <1>4, <2>1, <2>2 DEF Unbroken
  <2>3. Prefixed(Len(seen)) /\ Ready(cursor, s[Len(seen) + 1])
    BY <1>1, <1>4 DEF Unbroken
  <2>4. Len(seen) < Len(log) /\ q = log[Len(seen) + 1].req
    <3>1. Len(seen) <= Len(log) /\ Len(seen) \in Nat /\ Len(log) \in Nat
      BY <2>3 DEF Prefixed, ReplayTypeOK
    <3>2. Len(seen) # Len(log)
      BY <2>1, <2>3, AsksNext
    <3>3. Len(seen) < Len(log)
      BY <3>1, <3>2
    <3> QED BY <2>1, <2>3, <3>3, AsksNext
  <2>5. PICK k \in 1..Len(log) : k = Len(seen) + 1
    BY <2>4 DEF ReplayTypeOK
  <2>6. s[k + 1] - 1 <= Len(trace)
    <3>1. /\ Len(trace) = s[Len(log) + 1] /\ k + 1 \in 1..(Len(log) + 1) /\ Len(log) \in Nat
          /\ Len(log) + 1 \in 1..(Len(log) + 1)
      BY <1>1, StartFacts DEF Shape
    <3>2. ~(Len(log) + 1 < k + 1)
      BY <3>1
    <3>3. ~(s[Len(log) + 1] < s[k + 1]) /\ s[k + 1] \in Nat /\ s[Len(log) + 1] \in Nat
      BY <1>1, <3>1, <3>2, StartFacts
    <3> QED BY <3>1, <3>3
  <2>7. Strict({}) /\ Strict({"differential"}) /\ ~Swapped
    BY DEF Strict, Swapped
  <2>8. PICK c \in Nat \ {0} : Gives(q, log[k].out, c, FALSE) /\ Ready(c, s[k + 1])
    BY <1>1, <1>4, <2>3, <2>4, <2>5, <2>6, <2>7, ReadsNext
  <2>9. Len(seen') = k /\ Prefixed(k)'
    BY <2>3, <2>4, <2>5, <2>8, PrefixGrows
  <2>10. cursor' = c
    BY <2>8 DEF Gives
  <2>11. Ready(cursor, s[k + 1])'
    BY <1>4, <2>8, <2>10 DEF Ready, IsMetadata
  <2> QED BY <1>4, <2>1, <2>9, <2>11 DEF Unbroken
<1>5. ASSUME NEW v \in BOOLEAN \union Errors, CompleteReplay(v), phase = "replay", Shape(s)',
             UNCHANGED <<trace, log, final>>
      PROVE  Unbroken(s)'
  <2>w. PICK at, rest : at = Skip(cursor) /\ rest = Skip(at + 1)
    OBVIOUS
  <2>1. plan' = plan /\ seen' = seen /\ Ends(v) /\ phase' # "replay"
    BY <1>5 DEF CompleteReplay
  <2>2. Clean' <=> Clean
    BY <1>5 DEF Clean
  <2> SUFFICES ASSUME plan.mode = "substitute", ~plan.edited, Clean, final # Pending
               PROVE  Unbroken(s)'
    BY <1>5, <2>1, <2>2 DEF Unbroken
  <2>3. Prefixed(Len(seen)) /\ Ready(cursor, s[Len(seen) + 1])
    BY <1>1, <1>5 DEF Unbroken
  <2>4. Len(seen) = Len(log) /\ v = final
    BY <1>1, <2>1, <2>3, EndsAs
  <2>5. /\ Len(log) + 1 \in 1..(Len(log) + 1) /\ s[Len(log) + 1] \in Nat \ {0}
        /\ Len(trace) \in Nat /\ cursor \in Nat \ {0}
    BY <1>1, StartFacts DEF ReplayTypeOK
  <2>6. at = s[Len(log) + 1]
    BY <1>1, <2>3, <2>4, <2>5, <2>w, ReadyAt
  <2>7. Len(trace) = at /\ EventAt(at) = RunCompleted(v) /\ v # Diverged
    BY <1>1, <2>4, <2>5, <2>6 DEF Shape, EventAt
  <2>8. rest = Len(trace) + 1
    <3>1. at + 1 \in Nat \ {0} /\ at + 1 > Len(trace)
      BY <2>5, <2>6, <2>7
    <3> QED BY <2>7, <2>w, <3>1, PastEnd
  <2>9. EventAt(at).kind = "RunCompleted" /\ EventAt(at).val = v
    BY <2>7 DEF RunCompleted, Event
  <2>10. phase' = "ok"
    BY <1>5, <2>7, <2>8, <2>9, <2>w DEF CompleteReplay
  <2>11. Prefixed(Len(seen))'
    BY <1>5, <2>1, <2>3 DEF Prefixed
  <2> QED BY <2>10, <2>11 DEF Unbroken
<1>6. ASSUME NEW p \in Plans, NEW same \in BOOLEAN, Load(p, same), Shape(s)',
             UNCHANGED <<trace, log, final>>
      PROVE  Unbroken(s)'
  <2> SUFFICES ASSUME p.mode = "substitute", ~p.edited, final # Pending
               PROVE  Unbroken(s)'
    BY <1>6 DEF Unbroken, Load
  <2>1. s[1] = 2 /\ Len(log) \in Nat /\ s[Len(log) + 1] >= 2 /\ s[Len(log) + 1] \in Nat
    BY <1>1, StartFacts
  <2>2. trace # <<>>
    <3>1. Len(trace) # 0
      BY <1>1, <2>1 DEF Shape
    <3> QED BY <3>1
  <2>3. phase' = "replay" /\ cursor' = 2
    BY <1>6, <2>2 DEF Load
  <2>4. Len(seen') = 0
    BY <1>1, <1>6 DEF Load, Shape
  <2>5. Ready(cursor, s[0 + 1])'
    BY <2>1, <2>3 DEF Ready
  <2>6. Prefixed(0)'
    BY <1>6, <2>1 DEF Prefixed
  <2> QED BY <2>3, <2>4, <2>5, <2>6 DEF Unbroken
<1> QED BY <1>1, <1>2, <1>3, <1>4, <1>5, <1>6, StepCases DEF CleanInv

\* An agent that did not change replays a clean recording to its end: it asks
\* the recorded questions, is given the recorded answers, and complete_run and
\* finish accept the result, whatever events lie between the calls.
THEOREM CleanRunsCorrect == ReplaySpec => []CleanRunsReplay
<1>1. ReplayInit => CleanInv
  <2> SUFFICES ASSUME ReplayInit PROVE CleanInv
    OBVIOUS
  <2>1. PICK s : Shape(s)
    BY ShapeInit
  <2>2. plan = NoPlan
    BY DEF ReplayInit
  <2> QED BY <2>1, <2>2 DEF CleanInv, Unbroken, NoPlan
<1>2. ReplayTypeOK /\ CleanInv => CleanRunsReplay
  BY PrefixIs DEF CleanInv, Unbroken, CleanRunsReplay
<1> QED BY <1>1, <1>2, CleanStep, ReplayTypeCorrect, PTL DEF ReplaySpec

-----------------------------------------------------------------------------
(* The step of a mutation. *)

\* The steps counted in the log grow with every call that is one.
LEMMA StepsGrow ==
    ASSUME NEW i \in Nat, NEW j \in Nat, i < j
    PROVE  /\ StepOf(i) \in Nat /\ StepOf(j) \in Nat
           /\ StepOf(i) <= StepOf(j)
           /\ log[j].req.kind \in Substitutable => StepOf(i) < StepOf(j)
<1>w. PICK A, B : /\ A = {n \in 1..i : log[n].req.kind \in Substitutable}
                  /\ B = {n \in 1..j : log[n].req.kind \in Substitutable}
  OBVIOUS
<1>1. IsFiniteSet(B)
  <2>1. IsFiniteSet(1..j)
    BY FS_Interval
  <2>2. B \in SUBSET (1..j)
    BY <1>w
  <2> QED BY <2>1, <2>2, FS_Subset
<1>2. A \in SUBSET B
  BY <1>w
<1>3. /\ IsFiniteSet(A) /\ Cardinality(A) <= Cardinality(B)
      /\ Cardinality(B) = Cardinality(A) => B = A
  BY <1>1, <1>2, FS_Subset
<1>4. Cardinality(A) \in Nat /\ Cardinality(B) \in Nat
  BY <1>1, <1>3, FS_CardinalityType
<1>5. log[j].req.kind \in Substitutable => A # B
  BY <1>w
<1>6. StepOf(i) = Cardinality(A) /\ StepOf(j) = Cardinality(B)
  BY <1>w DEF StepOf
<1> QED BY <1>3, <1>4, <1>5, <1>6

\* next_step counts the substitutable calls.
LEMMA StepNext ==
    ASSUME NEW n \in Nat
    PROVE  /\ StepOf(0) = 0
           /\ StepOf(n + 1) = IF log[n + 1].req.kind \in Substitutable
                                THEN StepOf(n) + 1 ELSE StepOf(n)
<1>w. PICK A, B : /\ A = {i \in 1..n : log[i].req.kind \in Substitutable}
                  /\ B = {i \in 1..(n + 1) : log[i].req.kind \in Substitutable}
  OBVIOUS
<1>1. IsFiniteSet(A)
  <2>1. IsFiniteSet(1..n)
    BY FS_Interval
  <2>2. A \in SUBSET (1..n)
    BY <1>w
  <2> QED BY <2>1, <2>2, FS_Subset
<1>2. StepOf(n) = Cardinality(A) /\ StepOf(n + 1) = Cardinality(B)
  BY <1>w DEF StepOf
<1>3. StepOf(0) = 0
  <2>1. {i \in 1..0 : log[i].req.kind \in Substitutable} = {}
    OBVIOUS
  <2> QED BY <2>1, FS_EmptySet DEF StepOf
<1>4. B = IF log[n + 1].req.kind \in Substitutable THEN A \cup {n + 1} ELSE A
  BY <1>w
<1>5. n + 1 \notin A
  BY <1>w
<1>6. Cardinality(A \cup {n + 1}) = Cardinality(A) + 1
  BY <1>1, <1>5, FS_AddElement
<1> QED BY <1>2, <1>3, <1>4, <1>6

\* validate_mutation counts in the trace what next_step counts of the calls.
LEMMA StepsCounted ==
    ASSUME ReplayTypeOK, NEW s, Shape(s), NEW k \in 1..Len(log), s[k] <= Len(trace)
    PROVE  Cardinality({i \in 1..s[k] : trace[i].kind \in CallKinds}) = StepOf(k)
<1>w. PICK A, B, f : /\ A = {j \in 1..k : log[j].req.kind \in Substitutable}
                     /\ B = {i \in 1..s[k] : trace[i].kind \in CallKinds}
                     /\ f = [j \in A |-> s[j]]
  OBVIOUS
<1>0. /\ Len(log) \in Nat /\ Len(trace) \in Nat /\ k \in 1..(Len(log) + 1)
      /\ s[k] \in Nat \ {0}
  BY StartFacts
<1>1. ASSUME NEW j \in 1..k
      PROVE  /\ j \in 1..Len(log) /\ j \in 1..(Len(log) + 1) /\ s[j] \in 1..s[k]
             /\ trace[s[j]].kind \in CallKinds <=> log[j].req.kind \in Substitutable
  <2>1. j \in 1..Len(log) /\ j \in 1..(Len(log) + 1) /\ ~(k < j)
    BY <1>0
  <2>2. s[j] \in Nat \ {0} /\ ~(s[k] < s[j]) /\ log[j].req \in Requests
    BY <1>0, <2>1, StartFacts
  <2>3. s[j] \in 1..s[k] /\ s[j] <= Len(trace)
    BY <1>0, <2>2
  <2>4. trace[s[j]].kind = CallKind[log[j].req.kind]
    BY <2>1, <2>3, FirstEvent DEF EventAt
  <2> QED BY <2>1, <2>2, <2>3, <2>4, AskKindOf
<1>2. f \in [A -> B]
  <2>1. ASSUME NEW j \in A PROVE s[j] \in B
    BY <1>1, <1>w
  <2> QED BY <1>w, <2>1
<1>3. ASSUME NEW i \in A, NEW j \in A, f[i] = f[j] PROVE i = j
  <2>1. i \in 1..(Len(log) + 1) /\ j \in 1..(Len(log) + 1) /\ s[i] = s[j]
    BY <1>1, <1>3, <1>w
  <2> QED BY <2>1, StartFacts
<1>4. ASSUME NEW i \in B PROVE \E j \in A : f[j] = i
  <2>1. i \in Nat \ {0} /\ i <= Len(trace) /\ i <= s[k] /\ trace[i].kind \in CallKinds
    BY <1>0, <1>w
  <2>2. EventAt(i).kind \in AskKinds /\ EventAt(i) = trace[i]
    BY <2>1, KindNames DEF EventAt, AskKinds
  <2>3. PICK j \in 1..Len(log) : s[j] = i /\ CallKind[log[j].req.kind] = trace[i].kind
    BY <2>1, <2>2, AtCall
  <2>4. j \in 1..(Len(log) + 1) /\ ~(s[k] < s[j]) /\ log[j].req \in Requests
    BY <1>0, <2>1, <2>3, StartFacts
  <2>5. ~(k < j)
    BY <1>0, <2>4, StartFacts
  <2>6. j \in 1..k
    BY <1>0, <2>5
  <2>7. log[j].req.kind \in Substitutable
    BY <2>1, <2>3, <2>4, AskKindOf
  <2> QED BY <1>w, <2>3, <2>6, <2>7
<1>5. f \in Bijection(A, B)
  BY <1>2, <1>3, <1>4 DEF Bijection, Injection, Surjection, IsInjective
<1>6. ExistsBijection(A, B)
  BY <1>5 DEF ExistsBijection
<1>7. IsFiniteSet(A)
  <2>1. IsFiniteSet(1..k)
    BY FS_Interval
  <2>2. A \in SUBSET (1..k)
    BY <1>w
  <2> QED BY <2>1, <2>2, FS_Subset
<1>8. Cardinality(B) = Cardinality(A)
  BY <1>6, <1>7, FS_Bijection
<1> QED BY <1>8, <1>w DEF StepOf

\* The call a mutation replaces: a tool's or a model's, whole and answered.
Replaced(s, k) ==
    /\ log[k].req.kind \in {"tool", "llm"}
    /\ log[k].out \in Values
    /\ s[k + 1] - 1 <= Len(trace)
    /\ StepOf(k) = plan.target

\* validate_mutation finds that call.
LEMMA MutationFinds ==
    ASSUME ReplayTypeOK, NEW s, Shape(s), NEW t \in Nat, NEW r, ValidMutation(t, r)
    PROVE  \E k \in 1..Len(log) : /\ log[k].req.kind \in {"tool", "llm"}
                                  /\ log[k].out \in Values
                                  /\ s[k + 1] - 1 <= Len(trace)
                                  /\ StepOf(k) = t
<1>1. PICK n \in DOMAIN trace :
         /\ trace[n].kind \in CallKinds
         /\ Cardinality({i \in 1..n : trace[i].kind \in CallKinds}) = t
         /\ EventAt(Skip(n + 1)).kind \in ResultKinds
  BY DEF ValidMutation
<1>2. n \in Nat \ {0} /\ n <= Len(trace) /\ Len(trace) \in Nat /\ EventAt(n) = trace[n]
  BY DEF ReplayTypeOK, EventAt
<1>3. EventAt(n).kind \in AskKinds
  BY <1>1, <1>2, KindNames DEF AskKinds
<1>4. PICK k \in 1..Len(log) : s[k] = n /\ CallKind[log[k].req.kind] = trace[n].kind
  BY <1>2, <1>3, AtCall
<1>5. StepOf(k) = t
  BY <1>1, <1>2, <1>4, StepsCounted
<1>6. log[k].req \in Requests /\ log[k].req.kind \in Substitutable
  BY <1>1, <1>4, StartFacts, AskKindOf
<1>w. PICK after, e : after = Skip(s[k] + 1) /\ e = EventAt(after)
  OBVIOUS
<1>7. e.kind \in ResultKinds
  BY <1>1, <1>4, <1>w
<1>8. after \in Nat /\ after <= Len(trace)
  <2>1. n + 1 \in Nat \ {0}
    BY <1>2
  <2>2. after \in Nat \ {0}
    BY <1>4, <1>w, <2>1, SkipForward
  <2>3. EventAt(after) # AtEof
    BY <1>7, <1>w, KindNames DEF AtEof, Event
  <2> QED BY <1>2, <1>w, <2>2, <2>3 DEF EventAt
<1>9. log[k].req.kind # "approval"
  <2> SUFFICES ASSUME log[k].req.kind = "approval" PROVE FALSE
    OBVIOUS
  <2>1. e.kind = "ApprovalDecision" \/ e.kind \notin ResultKinds
    BY <1>2, <1>4, <1>w, ApprovalRead
  <2> QED BY <1>7, <2>1, KindNames
<1>10. CASE log[k].req.kind = "tool"
  <2>1. log[k].out \in Values /\ after + 1 = s[k + 1]
    BY <1>2, <1>4, <1>7, <1>10, <1>w, ToolRead
  <2> QED BY <1>2, <1>5, <1>8, <1>10, <2>1
<1>11. CASE log[k].req.kind = "llm"
  <2>1. log[k].out \in Values /\ after + 1 = s[k + 1]
    BY <1>2, <1>4, <1>7, <1>11, <1>w, LlmRead
  <2> QED BY <1>2, <1>5, <1>8, <1>11, <2>1
<1> QED BY <1>6, <1>9, <1>10, <1>11 DEF Substitutable

\* The replayed call of that step gives the replacement.
LEMMA ReadsSwapped ==
    ASSUME ReplayTypeOK, NEW s, Shape(s), Clean, NEW k \in 1..Len(log), Ready(cursor, s[k]),
           Replaced(s, k), NEW q, q = log[k].req, ReplayedCall(q),
           plan.mode = "mutation", steps + 1 = plan.target
    PROVE  \E c, d : Gives(q, plan.replacement, c, d)
<1>w. PICK at, call, after, result :
         at = Skip(cursor) /\ call = EventAt(at) /\ after = Skip(at + 1) /\ result = EventAt(after)
  OBVIOUS
<1>0. /\ cursor \in Nat \ {0} /\ Len(trace) \in Nat /\ q \in Requests
      /\ k \in 1..(Len(log) + 1) /\ k + 1 \in 1..(Len(log) + 1)
      /\ s[k] \in Nat \ {0} /\ s[k + 1] \in Nat \ {0}
  BY StartFacts DEF ReplayTypeOK
<1>1. at = s[k]
  BY <1>0, <1>w, ReadyAt
<1>2. s[k] <= Len(trace)
  <2>1. k < k + 1
    OBVIOUS
  <2>2. s[k] < s[k + 1]
    BY <1>0, <2>1, StartFacts
  <2> QED BY <1>0, <2>2 DEF Replaced
<1>3. call.kind = CallKind[q.kind]
  <2>1. call = EventAt(s[k])
    BY <1>1, <1>w
  <2>2. EventAt(s[k]).kind = CallKind[log[k].req.kind]
    BY <1>2, FirstEvent
  <2> QED BY <2>1, <2>2
<1>4. log[k].out # Failed /\ ~(Len(trace) < s[k + 1] - 1)
  BY <1>0, CleanFacts DEF Replaced
<1>5. /\ Swapped /\ plan.mode # "differential" /\ plan.mode # "substitute"
      /\ ~Strict({}) /\ ~Strict({"differential"})
  <2>1. steps \in Nat /\ ~(steps + 1 < plan.target)
    BY DEF ReplayTypeOK
  <2> QED BY <2>1 DEF Swapped, Strict
<1>6. CASE q.kind = "tool" /\ ReplayTool(q)
  <2>1. result = ResultEvent(q, log[k].out)
    BY <1>1, <1>2, <1>4, <1>6, <1>w, ToolRead
  <2>2. result.kind = ResultKind["tool"] /\ call.kind = CallKind["tool"] /\ "tool" \in Substitutable
    BY <1>3, <1>6, <2>1 DEF ResultEvent, Event, Substitutable
  <2>3. Paired(call, result)
    BY <2>2 DEF Paired
  <2>4. \E d : Gives(q, plan.replacement, after + 1, d)
    BY <1>5, <1>6, <1>w, <2>3 DEF ReplayTool
  <2> QED BY <2>4
<1>7. CASE q.kind = "llm" /\ ReplayLlm(q)
  <2>1. PICK by \in {"asked", "fallback"} : result = AnsweredBy(q, log[k].out, by)
    BY <1>1, <1>2, <1>4, <1>7, <1>w, LlmRead
  <2>2. result.kind = ResultKind["llm"] /\ call.kind = CallKind["llm"] /\ "llm" \in Substitutable
    BY <1>3, <1>7, <2>1 DEF AnsweredBy, ResultEvent, Event, Substitutable
  <2>3. Paired(call, result)
    BY <2>2 DEF Paired
  <2>4. \E d : Gives(q, plan.replacement, after + 1, d)
    BY <1>5, <1>7, <1>w, <2>3 DEF ReplayLlm
  <2> QED BY <2>4
<1> QED BY <1>6, <1>7 DEF ReplayedCall, Replaced

\* The replay is before the call k, or has replaced its answer.
BeforeStep(s, k) ==
    /\ Len(seen) < k
    /\ Prefixed(Len(seen))
    /\ steps = StepOf(Len(seen))
    /\ Ready(cursor, s[Len(seen) + 1])
PastStep(k) ==
    /\ Len(seen) >= k
    /\ \A i \in 1..(k - 1) : seen[i] = log[i]
    /\ seen[k] = Entry(log[k].req, plan.replacement)
Mutated(s) ==
    phase = "replay" /\ plan.mode = "mutation" /\ ~plan.edited /\ Clean =>
       \E k \in 1..Len(log) : Replaced(s, k) /\ (BeforeStep(s, k) \/ PastStep(k))

MutatedInv == \E s : Shape(s) /\ Mutated(s)

\* A call keeps the replay of a mutation on its way.
LEMMA MutatedCall ==
    ASSUME ReplayTypeOK, NEW s, Shape(s), NEW k \in 1..Len(log), Replaced(s, k), Clean,
           plan.mode = "mutation", ~plan.edited, BeforeStep(s, k) \/ PastStep(k),
           NEW q \in Requests, ReplayedCall(q)
    PROVE  (BeforeStep(s, k) \/ PastStep(k))'
<1>0. /\ seen \in Seq(Entries) /\ Len(seen) \in Nat /\ Len(log) \in Nat /\ k \in Nat
      /\ plan.target \in Nat /\ steps \in Nat
  <2>1. plan.target \in Nat
    BY ReplayAssumption DEF ReplayTypeOK, NoPlan
  <2> QED BY <2>1 DEF ReplayTypeOK
<1>1. /\ Asks(q) /\ UNCHANGED <<trace, log, plan>>
      /\ \E out, c, d : Gives(q, out, c, d)
  BY DEF ReplayedCall, ReplayTool, ReplayLlm, ReplayApproval, ReplaySample, ReplayHuman,
         Gives, recordVars
<1>2. CASE PastStep(k)
  <2>1. PICK out : seen' = Append(seen, Entry(q, out))
    BY <1>1 DEF Gives
  <2>2. /\ Len(seen') = Len(seen) + 1
        /\ \A i \in 1..Len(seen) : seen'[i] = seen[i]
    BY <1>0, <2>1
  <2>3. k \in 1..Len(seen) /\ \A i \in 1..(k - 1) : i \in 1..Len(seen)
    BY <1>0, <1>2 DEF PastStep
  <2>4. Len(seen') >= k
    BY <1>0, <2>2, <2>3
  <2> QED BY <1>1, <1>2, <2>2, <2>3, <2>4 DEF PastStep, Entry
<1>3. CASE BeforeStep(s, k)
  <2>1. PICK n \in 1..Len(log) : n = Len(seen) + 1
    BY <1>0, <1>3 DEF BeforeStep
  <2>2. n <= k /\ n \in 1..(Len(log) + 1) /\ Len(seen) < Len(log) /\ k + 1 \in 1..(Len(log) + 1)
        /\ n + 1 \in 1..(Len(log) + 1) /\ n \in Nat
    BY <1>0, <1>3, <2>1 DEF BeforeStep
  <2>3. /\ Prefixed(Len(seen)) /\ steps = StepOf(Len(seen)) /\ Ready(cursor, s[n])
    BY <1>3, <2>1 DEF BeforeStep
  <2>4. q = log[n].req
    BY <1>1, <2>1, <2>2, <2>3, AsksNext
  <2>5. StepOf(n) = IF q.kind \in Substitutable THEN steps + 1 ELSE steps
    BY <1>0, <2>1, <2>3, <2>4, StepNext
  <2>6. log[k].req.kind \in Substitutable /\ StepOf(k) = plan.target
    BY DEF Replaced, Substitutable
  <2>7. CASE n = k
    <3>1. steps + 1 = plan.target
      BY <2>4, <2>5, <2>6, <2>7
    <3>2. PICK c, d : Gives(q, plan.replacement, c, d)
      BY <2>3, <2>4, <2>7, <3>1, ReadsSwapped
    <3>3. seen' = Append(seen, Entry(q, plan.replacement))
      BY <3>2 DEF Gives
    <3>4. /\ Len(seen') = k /\ seen'[k] = Entry(q, plan.replacement)
          /\ \A i \in 1..Len(seen) : seen'[i] = seen[i]
      BY <1>0, <2>1, <2>7, <3>3
    <3>5. k - 1 = Len(seen) /\ k >= k
      BY <1>0, <2>1, <2>7
    <3>6. \A i \in 1..(k - 1) : seen'[i] = log[i]
      BY <2>3, <3>4, <3>5 DEF Prefixed
    <3> QED BY <1>1, <2>4, <2>7, <3>4, <3>5, <3>6 DEF PastStep, Entry
  <2>8. CASE n < k
    <3>1. StepOf(n) < plan.target
      BY <1>0, <2>2, <2>6, <2>8, StepsGrow
    <3>2. s[n + 1] - 1 <= Len(trace)
      <4>1. ~(k + 1 < n + 1)
        BY <1>0, <2>2
      <4>2. ~(s[k + 1] < s[n + 1]) /\ s[n + 1] \in Nat /\ s[k + 1] \in Nat /\ Len(trace) \in Nat
        BY <2>2, <4>1, StartFacts
      <4> QED BY <4>2 DEF Replaced
    <3>3. q.kind # "sample" => q.kind \in Substitutable
      <4>1. q.kind # "human" /\ q.kind \in Kinds
        BY <2>1, <2>4, CleanFacts, AskKindOf
      <4> QED BY <4>1 DEF Kinds, Substitutable
    <3>4. q.kind # "sample" => Strict({}) /\ Strict({"differential"}) /\ ~Swapped
      <4>1. q.kind # "sample" => steps + 1 < plan.target /\ steps + 1 # plan.target
        BY <1>0, <2>5, <3>1, <3>3
      <4> QED BY <4>1 DEF Strict, Swapped
    <3>5. PICK c \in Nat \ {0} : Gives(q, log[n].out, c, FALSE) /\ Ready(c, s[n + 1])
      BY <2>3, <2>4, <3>2, <3>4, ReadsNext
    <3>6. Len(seen') = n /\ Prefixed(n)'
      BY <2>1, <2>3, <2>4, <3>5, PrefixGrows
    <3>7. cursor' = c /\ steps' = StepOf(n)
      BY <2>5, <3>5 DEF Gives
    <3>8. Ready(cursor, s[n + 1])' /\ StepOf(n)' = StepOf(n)
      BY <1>1, <3>5, <3>7 DEF Ready, IsMetadata, StepOf
    <3> QED BY <2>8, <3>6, <3>7, <3>8 DEF BeforeStep
  <2> QED BY <1>0, <2>2, <2>7, <2>8
<1> QED BY <1>2, <1>3

LEMMA MutatedStep ==
    ReplayTypeOK /\ MutatedInv /\ [ReplayNext]_rrVars => MutatedInv'
<1> SUFFICES ASSUME ReplayTypeOK, MutatedInv, [ReplayNext]_rrVars
             PROVE  MutatedInv'
  OBVIOUS
<1>1. PICK s : Shape(s) /\ Mutated(s)
  BY DEF MutatedInv
<1>2. CASE UNCHANGED rrVars
  <2>1. UNCHANGED <<trace, log, final, phase, plan, cursor, steps, seen, report>>
    BY <1>2 DEF rrVars, recordVars, replayVars
  <2>2. Shape(s)'
    BY <1>1, <2>1 DEF Shape, Starts, MayEnd
  <2>3. Mutated(s)'
    BY <1>1, <2>1 DEF Mutated, Replaced, BeforeStep, PastStep, Prefixed, Ready, IsMetadata,
                      Clean, StepOf
  <2> QED BY <2>2, <2>3 DEF MutatedInv
<1>3. ASSUME plan' = NoPlan, NEW s2, Shape(s2)' PROVE MutatedInv'
  BY <1>3 DEF MutatedInv, Mutated, NoPlan
<1>4. ASSUME NEW q \in Requests, ReplayedCall(q), phase = "replay", Shape(s)',
             UNCHANGED <<trace, log, final>>
      PROVE  Mutated(s)'
  <2>1. phase' = phase /\ plan' = plan
    BY <1>4 DEF ReplayedCall, ReplayTool, ReplayLlm, ReplayApproval, ReplaySample,
                ReplayHuman, Gives
  <2>2. Clean' <=> Clean
    BY <1>4 DEF Clean
  <2> SUFFICES ASSUME plan.mode = "mutation", ~plan.edited, Clean
               PROVE  Mutated(s)'
    BY <1>4, <2>1, <2>2 DEF Mutated
  <2>3. PICK k \in 1..Len(log) : Replaced(s, k) /\ (BeforeStep(s, k) \/ PastStep(k))
    BY <1>1, <1>4 DEF Mutated
  <2>4. (BeforeStep(s, k) \/ PastStep(k))'
    BY <1>1, <1>4, <2>3, MutatedCall
  <2>5. Replaced(s, k)' /\ k \in 1..Len(log')
    BY <1>4, <2>1, <2>3 DEF Replaced, StepOf
  <2> QED BY <2>4, <2>5 DEF Mutated
<1>5. ASSUME NEW v \in BOOLEAN \union Errors, CompleteReplay(v), phase = "replay", Shape(s)',
             UNCHANGED <<trace, log, final>>
      PROVE  Mutated(s)'
  <2>1. phase' # "replay"
    BY <1>5 DEF CompleteReplay
  <2> QED BY <2>1 DEF Mutated
<1>6. ASSUME NEW p \in Plans, NEW same \in BOOLEAN, Load(p, same), Shape(s)',
             UNCHANGED <<trace, log, final>>
      PROVE  Mutated(s)'
  <2> SUFFICES ASSUME phase' = "replay", p.mode = "mutation"
               PROVE  Mutated(s)'
    BY <1>6 DEF Mutated, Load
  <2>1. /\ plan' = p /\ cursor' = 2 /\ seen = <<>> /\ seen' = seen /\ steps = 0 /\ steps' = 0
        /\ ValidMutation(p.target, p.replacement)
    BY <1>1, <1>6 DEF Load, Shape
  <2>2. p.target \in Nat
    BY ReplayAssumption
  <2>3. PICK k \in 1..Len(log) : /\ log[k].req.kind \in {"tool", "llm"}
                                 /\ log[k].out \in Values
                                 /\ s[k + 1] - 1 <= Len(trace)
                                 /\ StepOf(k) = p.target
    BY <1>1, <2>1, <2>2, MutationFinds
  <2>4. Replaced(s, k)'
    BY <1>6, <2>1, <2>3 DEF Replaced, StepOf
  <2>5. BeforeStep(s, k)'
    <3>1. s[1] = 2 /\ Len(log) \in Nat
      BY <1>1, StartFacts
    <3>2. Len(seen') = 0
      BY <2>1
    <3>3. Prefixed(0)' /\ Ready(cursor, s[0 + 1])'
      BY <1>6, <2>1, <3>1 DEF Prefixed, Ready
    <3>4. StepOf(0) = 0
      BY StepNext
    <3>5. StepOf(0)' = StepOf(0)
      BY <1>6 DEF StepOf
    <3> QED BY <2>1, <3>2, <3>3, <3>4, <3>5 DEF BeforeStep
  <2> QED BY <1>6, <2>4, <2>5 DEF Mutated
<1> QED BY <1>1, <1>2, <1>3, <1>4, <1>5, <1>6, StepCases DEF MutatedInv

\* The step that validate_mutation counted in the trace is the call whose answer
\* the replay of a clean recording replaces; the answers before it are the
\* recorded ones.
THEOREM MutationIsExact == ReplaySpec => []MutationExact
<1>1. ReplayInit => MutatedInv
  <2> SUFFICES ASSUME ReplayInit PROVE MutatedInv
    OBVIOUS
  <2>1. PICK s : Shape(s)
    BY ShapeInit
  <2>2. plan = NoPlan
    BY DEF ReplayInit
  <2> QED BY <2>1, <2>2 DEF MutatedInv, Mutated, NoPlan
<1>2. ReplayTypeOK /\ MutatedInv => MutationExact
  <2> SUFFICES ASSUME ReplayTypeOK, MutatedInv, phase = "replay", plan.mode = "mutation",
                      ~plan.edited, Clean, NEW n \in DOMAIN seen \intersect DOMAIN log
               PROVE  /\ StepOf(n) < plan.target => seen[n] = log[n]
                      /\ StepOf(n) = plan.target /\ log[n].req.kind \in Substitutable
                         => seen[n] = Entry(log[n].req, plan.replacement)
    BY DEF MutationExact
  <2>s. PICK s : Mutated(s)
    BY DEF MutatedInv
  <2>1. PICK k \in 1..Len(log) : Replaced(s, k) /\ (BeforeStep(s, k) \/ PastStep(k))
    BY <2>s DEF Mutated
  <2>2. /\ n \in 1..Len(seen) /\ n \in 1..Len(log) /\ n \in Nat /\ k \in Nat
        /\ Len(seen) \in Nat /\ Len(log) \in Nat
    BY <2>1 DEF ReplayTypeOK
  <2>3. StepOf(k) = plan.target /\ log[k].req.kind \in Substitutable
    BY <2>1 DEF Replaced, Substitutable
  <2>4. CASE n < k
    <3>1. seen[n] = log[n]
      BY <2>1, <2>2, <2>4 DEF BeforeStep, PastStep, Prefixed
    <3>2. StepOf(n) \in Nat /\ StepOf(k) \in Nat /\ StepOf(n) < StepOf(k)
      BY <2>2, <2>3, <2>4, StepsGrow
    <3>3. StepOf(n) # plan.target
      BY <2>3, <3>2
    <3> QED BY <3>1, <3>3
  <2>5. CASE n = k
    <3>1. PastStep(k)
      BY <2>1, <2>2, <2>5 DEF BeforeStep
    <3>2. StepOf(n) \in Nat
      <4>1. k < k + 1 /\ k + 1 \in Nat
        BY <2>2
      <4> QED BY <2>2, <2>5, <4>1, StepsGrow
    <3>3. ~(StepOf(n) < plan.target)
      BY <2>3, <2>5, <3>2
    <3> QED BY <2>5, <3>1, <3>3 DEF PastStep
  <2>6. CASE k < n
    <3>1. /\ StepOf(n) \in Nat /\ StepOf(k) \in Nat /\ StepOf(k) <= StepOf(n)
          /\ log[n].req.kind \in Substitutable => StepOf(k) < StepOf(n)
      BY <2>2, <2>6, StepsGrow
    <3>2. ~(StepOf(n) < plan.target)
      BY <2>3, <3>1
    <3>3. log[n].req.kind \in Substitutable => StepOf(n) # plan.target
      BY <2>3, <3>1
    <3> QED BY <3>2, <3>3
  <2> QED BY <2>2, <2>4, <2>5, <2>6
<1> QED BY <1>1, <1>2, MutatedStep, ReplayTypeCorrect, PTL DEF ReplaySpec
=============================================================================
