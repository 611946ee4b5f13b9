--------------------------- MODULE MCRecordReplay ---------------------------
(* Instances of RecordReplay for TLC. *)
EXTENDS RecordReplay

Ask(k, a) == [kind |-> k, arg |-> a]
\* Two tool calls that differ, and one call of every other kind.
EveryKind == {Ask("tool", "a"), Ask("tool", "b"), Ask("llm", "a"), Ask("approval", "a"),
              Ask("sample", "a"), Ask("human", "a")}
FewAnswers == [q \in Requests |-> CASE q = Ask("tool", "a") -> {TRUE, Null}
                                    [] q.kind = "llm" -> {TRUE, FALSE}
                                    [] OTHER -> {TRUE}]

Plan(m, e, k, r) == [mode |-> m, edited |-> e, target |-> k, replacement |-> r]
\* Every mode; the agent edited in a substitution (in a differential replay it
\* goes its own way after the first other answer); mutations of steps 0 to 2 by
\* an answer of either kind.
FewPlans == {Plan("substitute", e, 0, Null) : e \in BOOLEAN}
            \union {Plan("differential", FALSE, 0, Null)}
            \union {Plan("mutation", FALSE, k, r) : k \in 1..2, r \in {FALSE, Null}}
            \union {Plan("mutation", FALSE, 0, FALSE)}
=============================================================================
