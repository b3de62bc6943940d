----------------------------- MODULE TaskEvents -----------------------------
(***************************************************************************)
(* How the tabs of a user follow a task: the status component of the web   *)
(* application (apps/user-web), the event route of the gateway             *)
(* (services/edge-gateway) and the durable stream of the generation        *)
(* service.  A tab connects with the version it shows as its cursor;       *)
(* after three failures in a row it polls instead.                         *)
(*                                                                         *)
(* A call, or an event of a stream, is a step.  Calls fail, connections    *)
(* break, users leave; the gateway learns of it later.  The statuses in    *)
(* which a task ends, and in which it is paid, are one each: the tables    *)
(* of both sides treat them alike.                                         *)
(*                                                                         *)
(* The gateway asks for /internal/v1/tasks/:id/ownership and .../events,   *)
(* while the HTTP runtime of the generation service serves its routes      *)
(* under /v1/tasks: as these two are composed in the source, each request  *)
(* ends at Admit as refused.  The model also has the behaviours of a       *)
(* deployment in which the paths meet, so that what is shown of the route  *)
(* and of the stream does not rest on their never being reached.           *)
(***************************************************************************)
EXTENDS Integers, Sequences, FiniteSets

CONSTANTS
    Tabs,           \* tabs of one user that show the task
    Sessions,       \* requests the gateway may be handling
    MaxConnections, \* maxConnectionsPerUser
    MaxVersions,    \* bound on the transitions of the task
    None

VARIABLES
    history,        \* the statuses of the task: version n is history[n]
    tabs,           \* tabs[t]: the component, with the version it shows
    sessions,       \* sessions[i]: a request at the gateway, and its stream
    slots           \* connections.get(userId)

vars == <<history, tabs, sessions, slots>>

-----------------------------------------------------------------------------
(* The task.                                                               *)

Last(s) == s[Len(s)]

Latest == Len(history)

\* allowedTransitions of the generation service.
Moves == [status \in {"QUEUED", "SUBMITTING", "RUNNING", "ended", "paid"} |->
    CASE status = "QUEUED"     -> {"SUBMITTING", "ended"}
      [] status = "SUBMITTING" -> {"QUEUED", "RUNNING", "ended"}
      [] status = "RUNNING"    -> {"ended"}
      [] status = "ended"      -> {"paid"}
      [] status = "paid"       -> {}]

\* ALLOWED_TRANSITIONS of the web application, which knows of no way back.
Expects(status) == Moves[status] \ {"QUEUED"}

Walk ==
    /\ Latest < MaxVersions
    /\ \E status \in Moves[Last(history)] : history' = Append(history, status)
    /\ UNCHANGED <<tabs, sessions, slots>>

-----------------------------------------------------------------------------
(* The component of a tab.                                                 *)

\* lost: the tab has left, which the gateway will notice; why: how the
\* response ended.
Free == [at |-> "free", high |-> 0, events |-> <<>>, lost |-> FALSE, why |-> None]

Shows(t, version) == tabs[t].shown >= version

\* Mutant: the failures in a row are forgotten.
Failed_Forgets(tab) == [tab EXCEPT !.session = None, !.at = "connecting"]

\* The connection failed: three times in a row are enough.
Failed(tab) ==
    [tab EXCEPT !.session = None, !.failures = @ + 1,
                !.at = IF tab.failures >= 2 THEN "polling" ELSE "connecting"]

\* A tab with its session's request on the way.
Streaming(t) == tabs[t].at = "streaming"

\* The tab lets go of its response: if it is not over, the gateway will see.
Abandoned(i) ==
    [sessions EXCEPT ![i] = IF @.at = "over" THEN Free ELSE [@ EXCEPT !.lost = TRUE, !.events = <<>>]]

\* Mutant: the stream starts with what happens from now on.
Cursor_Latest(t) == Latest

\* Last-Event-ID.
Cursor(t) == tabs[t].shown

Connect(t) ==
    /\ tabs[t].at = "connecting"
    /\ \E i \in Sessions :
          /\ sessions[i] = Free
          /\ sessions' = [sessions EXCEPT ![i] = [Free EXCEPT !.at = "asking", !.high = Cursor(t)]]
          /\ tabs' = [tabs EXCEPT ![t].at = "streaming", ![t].session = i]
    /\ UNCHANGED <<history, slots>>

\* onEvent: an event that the table does not expect ends the connection.
Consume(t) ==
    /\ Streaming(t)
    /\ LET i == tabs[t].session
       IN  /\ sessions[i].events # <<>>
           /\ LET version == Head(sessions[i].events)
                  fresh == version > tabs[t].shown
              IN  IF fresh /\ history[version] \notin Expects(history[tabs[t].shown])
                  THEN /\ tabs' = [tabs EXCEPT ![t] = Failed(@)]
                       /\ sessions' = Abandoned(i)
                  ELSE IF fresh /\ history[version] = "paid"
                  THEN /\ tabs' = [tabs EXCEPT ![t].shown = version, ![t].at = "closed",
                                               ![t].session = None]
                       /\ sessions' = Abandoned(i)
                  ELSE /\ tabs' = [tabs EXCEPT ![t].shown = IF fresh THEN version ELSE @,
                                               ![t].failures = 0]
                       /\ sessions' = [sessions EXCEPT ![i].events = Tail(@)]
    /\ UNCHANGED <<history, slots>>

\* The response is over: by the directive to reconnect, or otherwise.
Notice(t) ==
    /\ Streaming(t)
    /\ LET i == tabs[t].session
       IN  /\ sessions[i].at = "over" /\ sessions[i].events = <<>>
           /\ tabs' = [tabs EXCEPT ![t] = IF sessions[i].why = "idle"
                                          THEN [@ EXCEPT !.session = None, !.failures = 0,
                                                         !.at = "connecting"]
                                          ELSE Failed(@)]
           /\ sessions' = [sessions EXCEPT ![i] = Free]
    /\ UNCHANGED <<history, slots>>

\* The connection of the tab breaks before the gateway knows.
Break(t) ==
    /\ Streaming(t)
    /\ sessions[tabs[t].session].at # "over"
    /\ tabs' = [tabs EXCEPT ![t] = Failed(@)]
    /\ sessions' = Abandoned(tabs[t].session)
    /\ UNCHANGED <<history, slots>>

\* The answer of a poll; it may never come.
Poll(t) ==
    /\ tabs[t].at = "polling"
    /\ tabs[t].shown < Latest
    /\ tabs' = [tabs EXCEPT ![t].shown = Latest,
                            ![t].at = IF Last(history) = "paid" THEN "closed" ELSE @]
    /\ UNCHANGED <<history, sessions, slots>>

\* The user leaves.
Leave(t) ==
    /\ tabs[t].at # "closed"
    /\ tabs' = [tabs EXCEPT ![t].at = "closed", ![t].session = None]
    /\ sessions' = IF Streaming(t) THEN Abandoned(tabs[t].session) ELSE sessions
    /\ UNCHANGED <<history, slots>>

-----------------------------------------------------------------------------
(* The route of the gateway, and the stream it opens.                      *)

\* What is left when the request is finished: nothing, if the tab has left.
Over(i, why) ==
    IF sessions[i].lost THEN Free ELSE [sessions[i] EXCEPT !.at = "over", !.why = why]

Finish(i, why) == sessions' = [sessions EXCEPT ![i] = Over(i, why)]

\* The ownership is answered (refused, where the path is not served); the limit
\* is checked after it.
Admit(i) ==
    /\ sessions[i].at = "asking"
    /\ \/ Finish(i, "refused") /\ UNCHANGED slots
       \/ /\ ~sessions[i].lost /\ slots < MaxConnections
          /\ slots' = slots + 1
          /\ sessions' = [sessions EXCEPT ![i].at = "opening"]
    /\ UNCHANGED <<history, tabs>>

\* Mutant: a client that left while the stream was opened keeps its slot.
Open_Keeps(i) ==
    /\ sessions[i].at = "opening"
    /\ IF sessions[i].lost
       THEN Finish(i, "refused") /\ UNCHANGED slots
       ELSE \/ Finish(i, "refused") /\ slots' = slots - 1
            \/ sessions' = [sessions EXCEPT ![i].at = "open"] /\ UNCHANGED slots
    /\ UNCHANGED <<history, tabs>>

\* The source is open, or fails (always, where the path is not served); the
\* client may have left in the meantime.
Open(i) ==
    /\ sessions[i].at = "opening"
    /\ \/ Finish(i, "refused") /\ slots' = slots - 1
       \/ /\ ~sessions[i].lost
          /\ sessions' = [sessions EXCEPT ![i].at = "open"]
          /\ UNCHANGED slots
    /\ UNCHANGED <<history, tabs>>

\* catchUp: the stream is woken by notifications, and every second.
CatchUp(i) ==
    /\ sessions[i].at = "open" /\ sessions[i].high < Latest
    /\ LET high == sessions[i].high
       IN  sessions' = [sessions EXCEPT
               ![i].high = Latest,
               ![i].events = IF sessions[i].lost THEN <<>>
                             ELSE @ \o [k \in 1..(Latest - high) |-> high + k]]
    /\ UNCHANGED <<history, tabs, slots>>

\* Two minutes without an event, so the poll of the stream finds nothing.
Idle(i) ==
    /\ sessions[i].at = "open" /\ ~sessions[i].lost
    /\ sessions[i].high = Latest /\ sessions[i].events = <<>>
    /\ Finish(i, "idle") /\ slots' = slots - 1
    /\ UNCHANGED <<history, tabs>>

\* The generation service ends the stream: complete after a last catchUp, or,
\* when its source fails or the service shuts down, with transitions unread.
\* What was written is still on its way.
End(i) ==
    /\ sessions[i].at = "open"
    /\ Finish(i, "ended") /\ slots' = slots - 1
    /\ UNCHANGED <<history, tabs>>

\* The stream fails: what is on its way to the tab is lost.
Abort(i) ==
    /\ sessions[i].at = "open"
    /\ sessions' = [sessions EXCEPT ![i] = [Over(i, "failed") EXCEPT !.events = <<>>]]
    /\ slots' = slots - 1
    /\ UNCHANGED <<history, tabs>>

\* clientDisconnected.
Disconnect(i) ==
    /\ sessions[i].at = "open" /\ sessions[i].lost
    /\ Finish(i, "left") /\ slots' = slots - 1
    /\ UNCHANGED <<history, tabs>>

-----------------------------------------------------------------------------
Init ==
    /\ history = <<"QUEUED">>
    /\ tabs = [t \in Tabs |-> [at |-> "connecting", shown |-> 1, failures |-> 0, session |-> None]]
    /\ sessions = [i \in Sessions |-> Free]
    /\ slots = 0

Follow(t) == Connect(t) \/ Consume(t) \/ Notice(t)

Serve(i) == Admit(i) \/ Open(i) \/ CatchUp(i) \/ Disconnect(i)

Next ==
    \/ Walk
    \/ \E t \in Tabs : Follow(t) \/ Break(t) \/ Poll(t) \/ Leave(t)
    \/ \E i \in Sessions : Serve(i) \/ Idle(i) \/ End(i) \/ Abort(i)

Spec == Init /\ [][Next]_vars

\* Tabs and gateway go on, and so does the stream's own poll.  Nothing is
\* asked of the network, of users, or of the answers to polls.
Fairness ==
    /\ \A t \in Tabs : WF_vars(Connect(t)) /\ WF_vars(Consume(t)) /\ WF_vars(Notice(t))
    /\ \A i \in Sessions : WF_vars(Serve(i))

LiveSpec == Spec /\ Fairness

-----------------------------------------------------------------------------
\* A slot of the user is held by each request that is being served, and by
\* nothing else, wherever its client leaves or its stream fails; so nobody is
\* locked out for connections that are gone (TaskEventsRoute.open, release).
SlotsReturned ==
    /\ slots = Cardinality({i \in Sessions : sessions[i].at \in {"opening", "open"}})
    /\ slots <= MaxConnections

\* What a tab shows, what is on its way to it and what its stream will read
\* next are together the whole history, across reconnects: no transition is
\* left out, and none comes twice (Last-Event-ID, catchUp).
NothingSkipped ==
    \A t \in Tabs : Streaming(t) /\ sessions[tabs[t].session].why # "failed" =>
        LET i == tabs[t].session
        IN  sessions[i].events = [k \in 1..(sessions[i].high - tabs[t].shown) |-> tabs[t].shown + k]

\* A user is served whatever breaks: his slots come back, and his tabs miss
\* nothing (task-events.route.ts, prisma-task-event-stream.ts).
TabsServed == SlotsReturned /\ NothingSkipped

\* The end of a task is shown by a tab that is open and has not given up on its
\* stream, however often its connection breaks (task-status.tsx).
EndIsShown ==
    \A t \in Tabs : Last(history) = "paid" ~>
        Shows(t, Latest) \/ tabs[t].at \in {"polling", "closed"}
=============================================================================
