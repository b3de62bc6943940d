------------------------------ MODULE Reporting ------------------------------
(***************************************************************************)
(* The projections of services/reporting-service: events are counted, at   *)
(* least once delivered and in any order, in the active version; a rebuild *)
(* counts retained events into a version of its own and then makes that    *)
(* the active one, while events go on arriving.                            *)
(*                                                                         *)
(* A version counts facts: what a fact adds to which day, provider, model  *)
(* or segment is the same in every version.  A callback between two awaits *)
(* is a step.  Who retains the events and who delivers them is not in the  *)
(* repository.  Malformed events are left out.                             *)
(***************************************************************************)
EXTENDS Integers, Sequences, SequencesExt

CONSTANTS
    Facts,          \* events with a contribution
    Target(_),      \* reversesEventId of the other events, the compensations
    Source,         \* all events, in the order in which they happen
    Rebuilds,       \* calls of rebuild
    MaxVersion      \* bound on the versions

\* The source is a list.
Listed == Source \in Seq(Range(Source))

VARIABLES
    happened,   \* how many events of the source have happened
    versions,   \* versions[v]: what version v has processed, reversed and counts
    active,     \* the version that is read
    rebuilds,   \* rebuilds[r]: its version, its events, how many of them are counted
    acked,      \* history: events whose live delivery was acknowledged
    missed      \* history: those that a rebuild that ended had not been given

vars == <<happened, versions, active, rebuilds, acked, missed>>

Empty == [processed |-> {}, reversed |-> {}, counted |-> [f \in Facts |-> 0]]

NoRebuild == [version |-> 0, events |-> <<>>, next |-> 1]

Init ==
    /\ happened = 0
    /\ versions = [v \in {1} |-> Empty]
    /\ active = 1
    /\ rebuilds = [r \in Rebuilds |-> NoRebuild]
    /\ acked = {} /\ missed = {}

Happen ==
    /\ happened < Len(Source)
    /\ happened' = happened + 1
    /\ UNCHANGED <<versions, active, rebuilds, acked, missed>>

-----------------------------------------------------------------------------
(* What an event does to a version.                                        *)

Apply(v, e) == [v EXCEPT !.processed = @ \cup {e}, !.counted[e] = @ + 1]

\* Mutant: a second compensation takes the fact back again.
Compensate_Twice(v, e) ==
    IF Target(e) \in Facts
    THEN [v EXCEPT !.processed = @ \cup {e}, !.counted[Target(e)] = @ - 1]
    ELSE [v EXCEPT !.processed = @ \cup {e}]

\* A compensation has no contribution itself, so that taking it back does nothing.
Compensate(v, e) ==
    IF Target(e) \in Facts \ v.reversed
    THEN [processed |-> v.processed \cup {e}, reversed |-> v.reversed \cup {Target(e)},
          counted |-> [v.counted EXCEPT ![Target(e)] = @ - 1]]
    ELSE [v EXCEPT !.processed = @ \cup {e}]

Handled(v, e) ==
    IF e \in v.processed THEN v ELSE IF e \in Facts THEN Apply(v, e) ELSE Compensate(v, e)

\* Compensating an event that the version does not know is an error, unless the
\* compensation itself was processed.
Handles(v, e) == e \in Facts \/ {e, Target(e)} \cap v.processed # {}

\* A live delivery: what throws is not acknowledged and comes again.
Handle(e) ==
    /\ \E i \in 1..happened : Source[i] = e
    /\ Handles(versions[active], e)
    /\ versions' = [versions EXCEPT ![active] = Handled(@, e)]
    /\ acked' = acked \cup {e}
    /\ UNCHANGED <<happened, active, rebuilds, missed>>

-----------------------------------------------------------------------------
(* A rebuild, of the events that its caller has read.                      *)

Latest == CHOOSE v \in DOMAIN versions : \A u \in DOMAIN versions : u <= v

\* The caller may have read some time ago, and of what had happened by then the
\* first event may no longer be retained.
Rebuild(r) ==
    /\ rebuilds[r] = NoRebuild /\ Latest < MaxVersion
    /\ \E from \in {1, 2}, to \in 1..happened :
          rebuilds' = [rebuilds EXCEPT ![r] = [version |-> Latest + 1, next |-> 1,
                                               events |-> SubSeq(Source, from, to)]]
    /\ versions' = [v \in DOMAIN versions \cup {Latest + 1} |->
                       IF v = Latest + 1 THEN Empty ELSE versions[v]]
    /\ UNCHANGED <<happened, active, acked, missed>>

Left(r) == rebuilds[r].next <= Len(rebuilds[r].events)

Building(r) == versions[rebuilds[r].version]

NextEvent(r) == rebuilds[r].events[rebuilds[r].next]

RebuildEvent(r) ==
    /\ rebuilds[r] # NoRebuild /\ Left(r) /\ Handles(Building(r), NextEvent(r))
    /\ versions' = [versions EXCEPT ![rebuilds[r].version] = Handled(@, NextEvent(r))]
    /\ rebuilds' = [rebuilds EXCEPT ![r].next = @ + 1]
    /\ UNCHANGED <<happened, active, acked, missed>>

\* What the events count for, computed without a version.
SourceCount(events) ==
    [f \in Facts |->
        IF f \in Range(events) /\ \A e \in Range(events) \ Facts : Target(e) # f THEN 1 ELSE 0]

Complete(r) == ~Left(r) /\ Building(r).counted = SourceCount(rebuilds[r].events)

FinishRebuild(r) ==
    /\ rebuilds[r] # NoRebuild /\ Complete(r)
    /\ active' = rebuilds[r].version
    /\ missed' = missed \cup (acked \ Range(rebuilds[r].events))
    /\ rebuilds' = [rebuilds EXCEPT ![r] = NoRebuild]
    /\ UNCHANGED <<happened, versions, acked>>

\* An event that cannot be counted, or totals that do not match.
FailRebuild(r) ==
    /\ rebuilds[r] # NoRebuild
    /\ IF Left(r) THEN ~Handles(Building(r), NextEvent(r)) ELSE ~Complete(r)
    /\ versions' = [v \in DOMAIN versions \ {rebuilds[r].version} |-> versions[v]]
    /\ rebuilds' = [rebuilds EXCEPT ![r] = NoRebuild]
    /\ UNCHANGED <<happened, active, acked, missed>>

-----------------------------------------------------------------------------
Next ==
    \/ Happen
    \/ \E e \in Range(Source) : Handle(e)
    \/ \E r \in Rebuilds : Rebuild(r) \/ RebuildEvent(r) \/ FinishRebuild(r) \/ FailRebuild(r)

Spec == Init /\ [][Next]_vars

-----------------------------------------------------------------------------
\* What is read counts each fact it has processed once, and not at all when that
\* was taken back, however often and in whatever order events come and rebuilds
\* end; and it has processed every acknowledged event, but for those that came
\* after the events of a rebuild were read: these are lost when its version
\* becomes the active one (ReportingProjector.rebuild).
ReportsCount ==
    LET v == versions[active]
    IN  /\ \A f \in Facts : v.counted[f] =
               IF f \in v.processed /\ \A e \in v.processed \ Facts : Target(e) # f THEN 1 ELSE 0
        /\ acked \subseteq v.processed \cup missed
=============================================================================
