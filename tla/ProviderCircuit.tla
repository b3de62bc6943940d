--------------------------- MODULE ProviderCircuit ---------------------------
(***************************************************************************)
(* The circuit breaker of one provider and model (services/                *)
(* provider-runtime, domain/circuit-breaker.ts): submissions, polls and    *)
(* balance checks on any replica ask for a permit, call the provider, and  *)
(* record how the call went.  The row is locked or compared by version, so *)
(* asking and recording are one step each; the provider's answer and its   *)
(* record are two.  Times appear as deadlines that have passed.            *)
(***************************************************************************)
EXTENDS Integers, Sequences, SequencesExt

CONSTANTS
    Calls,          \* callers of the provider
    Reliable,       \* those that are never stopped half way
    MinimumFailures,
    MaxSamples,     \* bound: older observations have left the window
    None

VARIABLES
    circuit,    \* the CircuitState row
    window,     \* the observations of the last windowMs: did the call fail?
    calls,      \* calls[c]: the call that c is making
    healthy,    \* the provider answers properly at present
    overtaken   \* probes after which the circuit was tripped or probed anew
                \* (history)

vars == <<circuit, window, calls, healthy, overtaken>>

Closed == [status |-> "CLOSED", over |-> FALSE, probe |-> None, lapsed |-> FALSE]

\* `over': openUntil has passed; `lapsed': the lease of the probe has ended.
Open == [Closed EXCEPT !.status = "OPEN"]

HalfOpen(c) == [Closed EXCEPT !.status = "HALF_OPEN", !.probe = c]

NoCall == [stage |-> "idle", permit |-> None, outcome |-> None]

Calling(permit) == [stage |-> "calling", permit |-> permit, outcome |-> None]

-----------------------------------------------------------------------------
(* acquire.  A rejected call is not made; it waits, or is a new one.       *)

AcquireAllowed(c) ==
    /\ calls[c] = NoCall
    /\ circuit.status = "CLOSED"
    /\ calls' = [calls EXCEPT ![c] = Calling("ALLOW")]
    /\ UNCHANGED <<circuit, window, healthy, overtaken>>

\* Mutant: the probe is never given to another caller.
ProbeDue_Once == circuit.status = "OPEN" /\ circuit.over

\* The circuit has been open for long enough, or its probe is overdue.
ProbeDue ==
    \/ circuit.status = "OPEN" /\ circuit.over
    \/ circuit.status = "HALF_OPEN" /\ circuit.lapsed

Probes == {c \in Calls : calls[c].permit = "HALF_OPEN_PROBE"}

AcquireProbe(c) ==
    /\ calls[c] = NoCall
    /\ ProbeDue
    /\ circuit' = HalfOpen(c)
    /\ calls' = [calls EXCEPT ![c] = Calling("HALF_OPEN_PROBE")]
    /\ overtaken' = (overtaken \cup Probes) \ {c}
    /\ UNCHANGED <<window, healthy>>

-----------------------------------------------------------------------------
(* The call.  A provider that is well may still reject a request, which    *)
(* counts as a success.                                                    *)

Answer(c) ==
    /\ calls[c].stage = "calling"
    /\ \E outcome \in IF healthy THEN {"SUCCESS"}
                      ELSE {"SUCCESS", "QUALIFYING_FAILURE", "AUTH_FAILURE"} :
           calls' = [calls EXCEPT ![c].stage = "answered", ![c].outcome = outcome]
    /\ UNCHANGED <<circuit, window, healthy, overtaken>>

\* The process stops, or the database cannot be reached.
Lose(c) ==
    /\ c \notin Reliable
    /\ calls[c] # NoCall
    /\ calls' = [calls EXCEPT ![c] = NoCall]
    /\ UNCHANGED <<circuit, window, healthy, overtaken>>

-----------------------------------------------------------------------------
(* record and tripImmediately.                                             *)

Answered(c, outcomes) == calls[c].stage = "answered" /\ calls[c].outcome \in outcomes

Over(c) == calls' = [calls EXCEPT ![c] = NoCall]

Reported == {"SUCCESS", "QUALIFYING_FAILURE"}

\* Mutant: neither the token nor the lease of a probe is looked at.
CurrentProbe_Any(c) == circuit.status = "HALF_OPEN"

CurrentProbe(c) ==
    circuit.status = "HALF_OPEN" /\ circuit.probe = c /\ ~circuit.lapsed

RecordProbe(c) ==
    /\ Answered(c, Reported) /\ calls[c].permit = "HALF_OPEN_PROBE"
    /\ CurrentProbe(c)
    /\ IF calls[c].outcome = "SUCCESS"
       THEN circuit' = Closed /\ window' = <<>>
       ELSE circuit' = Open /\ UNCHANGED window
    /\ Over(c)
    /\ UNCHANGED <<healthy, overtaken>>

\* STALE_HALF_OPEN_PROBE is thrown and nothing is recorded.
RefuseProbe(c) ==
    /\ Answered(c, Reported) /\ calls[c].permit = "HALF_OPEN_PROBE"
    /\ ~CurrentProbe(c)
    /\ Over(c)
    /\ UNCHANGED <<circuit, window, healthy, overtaken>>

Failures(samples) == Len(SelectSeq(samples, LAMBDA failed : failed))

\* failureThreshold is one half.
ShouldOpen(samples) ==
    Failures(samples) >= MinimumFailures /\ 2 * Failures(samples) >= Len(samples)

\* An answer to a call that began before the circuit opened still counts.
RecordAllowed(c) ==
    /\ Answered(c, Reported) /\ calls[c].permit = "ALLOW"
    /\ LET kept == IF Len(window) = MaxSamples THEN Tail(window) ELSE window
           samples == Append(kept, calls[c].outcome = "QUALIFYING_FAILURE")
       IN  /\ window' = samples
           /\ circuit' = IF circuit.status = "CLOSED" /\ ShouldOpen(samples)
                         THEN Open ELSE circuit
    /\ Over(c)
    /\ UNCHANGED <<healthy, overtaken>>

\* tripImmediately, for a rejected key or an empty account, whatever the state.
Trip(c) ==
    /\ Answered(c, {"AUTH_FAILURE"})
    /\ circuit' = Open
    /\ overtaken' = overtaken \cup Probes
    /\ Over(c)
    /\ UNCHANGED <<window, healthy>>

-----------------------------------------------------------------------------
OpenEnds ==
    /\ circuit.status = "OPEN" /\ ~circuit.over
    /\ circuit' = [circuit EXCEPT !.over = TRUE]
    /\ UNCHANGED <<window, calls, healthy, overtaken>>

LeaseEnds ==
    /\ circuit.status = "HALF_OPEN" /\ ~circuit.lapsed
    /\ circuit' = [circuit EXCEPT !.lapsed = TRUE]
    /\ UNCHANGED <<window, calls, healthy, overtaken>>

WindowMoves ==
    /\ window # <<>>
    /\ window' = Tail(window)
    /\ UNCHANGED <<circuit, calls, healthy, overtaken>>

ProviderTurns ==
    /\ healthy' = ~healthy
    /\ UNCHANGED <<circuit, window, calls, overtaken>>

Init ==
    /\ circuit = Closed
    /\ window = <<>>
    /\ calls = [c \in Calls |-> NoCall]
    /\ healthy = TRUE
    /\ overtaken = {}

Call(c) ==
    \/ AcquireAllowed(c)
    \/ AcquireProbe(c)
    \/ Answer(c)
    \/ RecordProbe(c)
    \/ RefuseProbe(c)
    \/ RecordAllowed(c)
    \/ Trip(c)

Next ==
    \/ \E c \in Calls : Call(c) \/ Lose(c)
    \/ OpenEnds
    \/ LeaseEnds
    \/ WindowMoves
    \/ ProviderTurns

Spec == Init /\ [][Next]_vars

\* Tasks keep coming to the replicas that stay up; some of their probes are
\* answered and recorded within a lease of a minute (a call takes 30 seconds).
Fairness ==
    /\ WF_vars(OpenEnds)
    /\ WF_vars(LeaseEnds)
    /\ SF_vars(\E c \in Reliable : AcquireProbe(c))
    /\ SF_vars(\E c \in Reliable : CurrentProbe(c) /\ Answer(c))
    /\ SF_vars(\E c \in Reliable : RecordProbe(c))
    /\ \A c \in Reliable : WF_vars(Call(c))

LiveSpec == Spec /\ Fairness

-----------------------------------------------------------------------------
\* An open circuit closes only by the success of a probe that nothing has
\* overtaken: no later probe was let through, and nobody has tripped the
\* circuit since (a late answer of an earlier probe says nothing of now).
ClosedByCurrentProbe ==
    [][circuit.status # "CLOSED" /\ circuit'.status = "CLOSED" =>
          \E c \in Probes \ overtaken :
              Answered(c, {"SUCCESS"}) /\ calls'[c] = NoCall]_vars

\* A provider that has recovered is used again: no crash of a probe, trip or
\* late answer leaves the circuit open for ever.
Recovers == <>[]healthy => []<>(circuit.status = "CLOSED")
=============================================================================
