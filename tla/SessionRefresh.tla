--------------------------- MODULE SessionRefresh ---------------------------
(***************************************************************************)
(* How the tabs of one browser keep their session (apps/user-web,          *)
(* lib/auth): an operation that finds the access token expired refreshes   *)
(* it under a lock that the tabs share, and is tried once more.  The web   *)
(* server holds no session: what it knows comes with the cookies of a      *)
(* request and goes with those of its answer, and the identity service     *)
(* takes a refresh token that comes twice for a stolen one.                *)
(*                                                                         *)
(* A request carries the cookies the browser had when it was sent.  The    *)
(* two cookies are written and cleared together, so they are one value.    *)
(* The mock mode of the web server is left out, and with it the operations *)
(* on an account, which exist in no other.                                 *)
(***************************************************************************)
EXTENDS Integers, FiniteSets

CONSTANTS
    Tabs,
    MaxSessions,    \* bound on the sessions of identity-service
    MaxTroubles,    \* bound on `troubles'
    None

VARIABLES
    sessions,   \* sessions[s]: the row of identity-service, or None
    aged,       \* sessions whose access token has expired
    jar,        \* the session in the browser's cookies, or None
    lock,       \* the tab that holds 'user-session-refresh', or None
    tabs,       \* tabs[t]: where an operation of t is, and the cookies it carries
    posts,      \* posts[t]: POST /auth/refresh of t, at the web server
    troubles,   \* how often an answer was late, the gateway failed, or a session
                \* was revoked from elsewhere (history)
    lost,       \* families with an answer nobody waits for, or gets (history)
    reused      \* families revoked because a token came twice (history)

vars == <<sessions, aged, jar, lock, tabs, posts, troubles, lost, reused>>

Ids == 1..MaxSessions

\* Rows of identity-service.
Rows == [family : Ids, consumed : BOOLEAN, revoked : BOOLEAN]

Distinct == MaxSessions \in Nat \ {0} /\ None \notin Tabs \cup Ids \cup Rows

Idle == [at |-> "idle", flow |-> None, carries |-> None]

NoPost == [at |-> "none", carries |-> None, gets |-> None]

At(t, place) == tabs[t].at = place

\* What an operation carries is of no use beyond its attempt.
Goes(t, place) ==
    tabs' = [tabs EXCEPT ![t] =
                CASE place \in {"idle", "refused"} -> [Idle EXCEPT !.at = place]
                  [] place \in {"calls", "calls again"} -> [@ EXCEPT !.at = place]
                  [] OTHER -> [@ EXCEPT !.at = place, !.carries = None]]

Sends(t, place) == tabs' = [tabs EXCEPT ![t].at = place, ![t].carries = jar]

FamilyOf(s) == IF s = None THEN {} ELSE {sessions[s].family}

Trouble == troubles < MaxTroubles /\ troubles' = troubles + 1

\* POST /auth/refresh.  A tab has one at a time.
Posts(t) ==
    /\ posts[t] = NoPost
    /\ Goes(t, "posts")
    /\ posts' = [posts EXCEPT ![t] = [NoPost EXCEPT !.at = "reads", !.carries = jar]]

Live(s) == s # None /\ ~sessions[s].consumed /\ ~sessions[s].revoked

\* readAuthenticatedServerSessionState.  An error of the gateway, when it is
\* asked for the live sessions, counts as a session that is not there.
SessionState(s, answers) ==
    IF s = None THEN "invalid"
    ELSE IF s \in aged THEN "needs-refresh"
    ELSE IF Live(s) /\ answers THEN "active" ELSE "invalid"

\* Does the gateway answer?  If it does not, that is trouble.
Gateway(answers) ==
    \/ answers /\ UNCHANGED troubles
    \/ ~answers /\ Trouble

-----------------------------------------------------------------------------
(* An operation of a tab: a server action with                             *)
(* coordinateSessionRefresh ("action"), or a request with                  *)
(* retryOnceAfterSessionRefresh ("fetch").                                 *)

Start(t) ==
    /\ At(t, "idle")
    /\ \E flow \in {"action", "fetch"} :
          tabs' = [tabs EXCEPT ![t] = [at |-> "asks", flow |-> flow, carries |-> jar]]
    /\ UNCHANGED <<sessions, aged, jar, lock, posts, troubles, lost, reused>>

\* mutableFreshSession, and for a session that it does not accept
\* readAuthenticatedServerSessionState, as every operation begins.
Outcome(s, answers) ==
    CASE SessionState(s, answers) = "active" -> "proceeds"
      [] SessionState(s, answers) = "needs-refresh" -> "needs-refresh"
      [] OTHER -> "refused"

\* The first attempt.
Ask(t) ==
    /\ At(t, "asks")
    /\ \E answers \in BOOLEAN :
          /\ Gateway(answers)
          /\ Goes(t, CASE Outcome(tabs[t].carries, answers) = "proceeds" -> "calls"
                       [] Outcome(tabs[t].carries, answers) = "needs-refresh" -> "queues"
                       [] OTHER -> "refused")
    /\ UNCHANGED <<sessions, aged, jar, lock, posts, lost, reused>>

\* authenticatedGatewayFetch: the gateway may know better.
Call(t) ==
    /\ At(t, "calls")
    /\ Goes(t, IF Live(tabs[t].carries) THEN "idle" ELSE "queues")
    /\ UNCHANGED <<sessions, aged, jar, lock, posts, troubles, lost, reused>>

\* Mutant: the tabs do not wait for each other.
LockIsFree_Always == TRUE

\* navigator.locks is one for all tabs of the origin.
LockIsFree == lock = None

\* Under the lock the tab looks again, with the cookies of now.
EnterLock(t) ==
    /\ At(t, "queues") /\ LockIsFree
    /\ lock' = t
    /\ Sends(t, "checks")
    /\ UNCHANGED <<sessions, aged, jar, posts, troubles, lost, reused>>

Unlock(t) == lock' = IF lock = t THEN None ELSE lock

\* GET /auth/refresh: the session is active again, and the action is tried
\* once more, or it is not, for whatever reason, and is refreshed.
CheckStatus(t) ==
    /\ At(t, "checks") /\ tabs[t].flow = "action"
    /\ \E answers \in BOOLEAN :
          /\ Gateway(answers)
          /\ IF SessionState(tabs[t].carries, answers) = "active"
             THEN /\ Sends(t, "retries") /\ Unlock(t)
                  /\ UNCHANGED posts
             ELSE Posts(t) /\ UNCHANGED lock
    /\ UNCHANGED <<sessions, aged, jar, lost, reused>>

\* The request again, as a preflight: refreshed only if it still says so.
Preflight(t) ==
    /\ At(t, "checks") /\ tabs[t].flow = "fetch"
    /\ \E answers \in BOOLEAN :
          /\ Gateway(answers)
          /\ CASE Outcome(tabs[t].carries, answers) = "needs-refresh" ->
                    Posts(t) /\ UNCHANGED lock
               [] OTHER ->
                    /\ Goes(t, IF Outcome(tabs[t].carries, answers) = "proceeds"
                               THEN "idle" ELSE "refused")
                    /\ Unlock(t)
                    /\ UNCHANGED posts
    /\ UNCHANGED <<sessions, aged, jar, lost, reused>>

\* The second attempt is the last: LOGIN_REQUIRED, or the answer as it is.
\* retryOnceAfterSessionRefresh still holds the lock.
Retry(t) ==
    /\ At(t, "retries")
    /\ \E answers \in BOOLEAN :
          /\ Gateway(answers)
          /\ IF Outcome(tabs[t].carries, answers) = "proceeds"
             THEN Goes(t, "calls again") /\ UNCHANGED lock
             ELSE Goes(t, "refused") /\ Unlock(t)
    /\ UNCHANGED <<sessions, aged, jar, posts, lost, reused>>

CallAgain(t) ==
    /\ At(t, "calls again")
    /\ Goes(t, IF Live(tabs[t].carries) THEN "idle" ELSE "refused")
    /\ Unlock(t)
    /\ UNCHANGED <<sessions, aged, jar, posts, troubles, lost, reused>>

\* The ten seconds of AbortSignal.timeout, or the tab is closed.
GiveUp(t) ==
    /\ lock = t
    /\ Goes(t, "refused")
    /\ Unlock(t)
    /\ Trouble
    /\ lost' = IF At(t, "posts") THEN lost \cup FamilyOf(posts[t].carries) ELSE lost
    /\ UNCHANGED <<sessions, aged, jar, posts, reused>>

-----------------------------------------------------------------------------
(* refreshAuthenticatedServerSession, of which rotate is most.             *)

Ends(t, s) == posts' = [posts EXCEPT ![t].at = "answers", ![t].gets = s]

\* A session whose access token has not expired must be live; without a
\* session nothing is asked of the identity service.
ReadCookies(t) ==
    LET s == posts[t].carries IN
    /\ posts[t].at = "reads"
    /\ \E answers \in BOOLEAN :
          /\ Gateway(answers)
          /\ IF SessionState(s, answers) = "invalid" THEN Ends(t, None)
             ELSE posts' = [posts EXCEPT ![t].at = "rotates"]
    /\ UNCHANGED <<sessions, aged, jar, lock, tabs, lost, reused>>

Fresh == {s \in Ids : sessions[s] = None /\ \A r \in Ids : r < s => sessions[r] # None}

Session(family) == [family |-> family, consumed |-> FALSE, revoked |-> FALSE]

Revoked(family) ==
    [s \in Ids |-> IF sessions[s] # None /\ sessions[s].family = family
                   THEN [sessions[s] EXCEPT !.revoked = TRUE] ELSE sessions[s]]

\* rotate of identity-service; its answer may be lost.
Rotate(t) ==
    LET s == posts[t].carries IN
    /\ posts[t].at = "rotates"
    /\ Live(s)
    /\ \E new \in Fresh :
          /\ sessions' = [sessions EXCEPT ![s].consumed = TRUE,
                                          ![new] = Session(sessions[s].family)]
          /\ \/ /\ posts' = [posts EXCEPT ![t].at = "confirms", ![t].gets = new]
                /\ UNCHANGED <<troubles, lost>>
             \/ /\ Ends(t, None)
                /\ lost' = lost \cup FamilyOf(s) /\ Trouble
    /\ UNCHANGED <<aged, jar, lock, tabs, reused>>

\* The token was used before: its family is revoked.  Or the session is
\* revoked already, and nothing changes.
RotateRefused(t) ==
    LET s == posts[t].carries IN
    /\ posts[t].at = "rotates"
    /\ ~Live(s)
    /\ IF sessions[s].consumed
       THEN /\ sessions' = Revoked(sessions[s].family)
            /\ reused' = reused \cup {sessions[s].family}
       ELSE UNCHANGED <<sessions, reused>>
    /\ Ends(t, None)
    /\ UNCHANGED <<aged, jar, lock, tabs, troubles, lost>>

RotateFails(t) ==
    /\ posts[t].at = "rotates"
    /\ Ends(t, None)
    /\ Trouble
    /\ UNCHANGED <<sessions, aged, jar, lock, tabs, lost, reused>>

\* validateLiveSession of the successor.
Confirm(t) ==
    LET s == posts[t].gets IN
    /\ posts[t].at = "confirms"
    /\ \E answers \in BOOLEAN :
          /\ Gateway(answers)
          /\ IF Live(s) /\ answers
             THEN Ends(t, s) /\ UNCHANGED lost
             ELSE Ends(t, None) /\ lost' = lost \cup FamilyOf(s)
    /\ UNCHANGED <<sessions, aged, jar, lock, tabs, reused>>

\* The answer, with the cookies of the successor or with none.
Answered(t) ==
    /\ posts[t].at = "answers" /\ At(t, "posts")
    /\ IF posts[t].carries = None THEN UNCHANGED jar ELSE jar' = posts[t].gets
    /\ posts' = [posts EXCEPT ![t] = NoPost]
    /\ IF posts[t].gets = None THEN Goes(t, "refused")
       ELSE tabs' = [tabs EXCEPT ![t].at = "retries", ![t].carries = posts[t].gets]
    /\ IF tabs[t].flow = "fetch" /\ posts[t].gets # None
       THEN UNCHANGED lock ELSE Unlock(t)
    /\ UNCHANGED <<sessions, aged, troubles, lost, reused>>

\* Nobody waits for the answer any more, and its cookies are not stored.
AnsweredLate(t) ==
    /\ posts[t].at = "answers" /\ ~At(t, "posts")
    /\ posts' = [posts EXCEPT ![t] = NoPost]
    /\ UNCHANGED <<sessions, aged, jar, lock, tabs, troubles, lost, reused>>

-----------------------------------------------------------------------------
\* The user logs in, with a family of sessions of its own, or tries again.
Login(t) ==
    /\ At(t, "refused")
    /\ \E new \in Fresh :
          /\ sessions' = [sessions EXCEPT ![new] = Session(new)]
          /\ jar' = new
    /\ tabs' = [tabs EXCEPT ![t] = Idle]
    /\ UNCHANGED <<aged, lock, posts, troubles, lost, reused>>

TryAgain(t) ==
    /\ At(t, "refused")
    /\ tabs' = [tabs EXCEPT ![t] = Idle]
    /\ UNCHANGED <<sessions, aged, jar, lock, posts, troubles, lost, reused>>

\* From another device, or because the account is closed.
Revoke(s) ==
    /\ sessions[s] # None /\ ~sessions[s].revoked
    /\ sessions' = Revoked(sessions[s].family)
    /\ Trouble
    /\ UNCHANGED <<aged, jar, lock, tabs, posts, lost, reused>>

\* An access token lives longer than one recovery, so that it does not expire
\* between its issue and the attempt it was issued for.
Age(s) ==
    /\ sessions[s] # None /\ s \notin aged
    /\ lock = None
    /\ \A t \in Tabs : tabs[t].at \in {"retries", "calls again"} => tabs[t].carries # s
    /\ aged' = aged \cup {s}
    /\ UNCHANGED <<sessions, jar, lock, tabs, posts, troubles, lost, reused>>

Init ==
    /\ sessions = [s \in Ids |-> IF s = 1 THEN Session(1) ELSE None]
    /\ aged = {}
    /\ jar = 1
    /\ lock = None
    /\ tabs = [t \in Tabs |-> Idle]
    /\ posts = [t \in Tabs |-> NoPost]
    /\ troubles = 0
    /\ lost = {}
    /\ reused = {}

TabSteps(t) ==
    \/ Start(t) \/ Ask(t) \/ Call(t) \/ EnterLock(t) \/ CheckStatus(t) \/ Preflight(t)
    \/ Retry(t) \/ CallAgain(t) \/ GiveUp(t) \/ Login(t) \/ TryAgain(t)

ServerSteps(t) ==
    \/ ReadCookies(t) \/ Rotate(t) \/ RotateRefused(t) \/ RotateFails(t) \/ Confirm(t)
    \/ Answered(t) \/ AnsweredLate(t)

Next ==
    \/ \E t \in Tabs : TabSteps(t) \/ ServerSteps(t)
    \/ \E s \in Ids : Revoke(s) \/ Age(s)

Spec == Init /\ [][Next]_vars

-----------------------------------------------------------------------------
\* While answers are in time, the gateway works and nobody revokes the session,
\* no tab is sent to the login page, however the tabs' refreshes and requests
\* interleave; and an honest browser's token comes twice, which ends the session
\* on this device, only if the answer with its successor was lost.
SessionKept ==
    /\ troubles = 0 => \A t \in Tabs : ~At(t, "refused")
    /\ reused \subseteq lost
=============================================================================
