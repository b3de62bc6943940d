----------------------------- MODULE MCServices -----------------------------
(* One instance of each of several smaller services for TLC.  They share    *)
(* nothing: a behaviour is one of a single service, `which', and the others *)
(* rest in their initial states.  The roles of administrators are this      *)
(* module's own; all bounds are set in Services.cfg.                        *)
EXTENDS IamRoles, TLC

CONSTANTS
    p1, p2, x1, x2, t1, t2, b1, b2, w1, i1, i2, i3,
    Phones, Logins, SessionIds, MaxTries,               \* UserAccounts
    MaxChallenges, MaxSessions, Steps, MaxGeneration,   \* AdminSignIn
    Editors, Terms, MaxVersions, MaxEdits, Banners, MaxMoves,   \* Publication
    Facts, Target(_), Source, Rebuilds, MaxReports,     \* Reporting
    Senders, Retriers, MaxRearmings,                    \* SupportUploads
    Tabs, Streams, MaxConnections, MaxTransitions,      \* TaskEvents
    MaxRotations, MaxTroubles,                          \* SessionRefresh
    Entries, MaxRevision, MaxIds, MaxCalls,              \* AdminConsole
    Loops, SteadyLoops, MaxAttempts, MaxDeliveries,     \* Notifications
    Callers, SteadyCallers, MinimumFailures, MaxSamples \* ProviderCircuit

VARIABLES
    which,
    user, sessions, known, codes, lock, requests, applied,
    active, step, code, challenge, session, issuing, renewals,
    kind, versions, purchase, placed, slot, calls,
    binding, message, remote, compensation, usable, late, senders, workers,
    forgotten, exposed,
    history, tabs, streams, slots,
    families, aged, jar, refreshLock, windows, posts, troubles, lost, reused,
    operation, revision, effects, form, attempts, drawn,
    happened, projections, current, rebuilds, acked, missed,
    event, sms, attempt, worker, sends, provider,
    circuit, window, permits, healthy, overtaken

Users == INSTANCE UserAccounts WITH
    Requests <- Logins, Ids <- SessionIds

SignIn == INSTANCE AdminSignIn

Cms == INSTANCE Publication WITH Calls <- Editors

Support == INSTANCE SupportUploads WITH
    Requests <- Senders, Workers <- Retriers, MaxGeneration <- MaxRearmings,
    requests <- senders

Events == INSTANCE TaskEvents WITH
    Sessions <- Streams, MaxVersions <- MaxTransitions, sessions <- streams

Browser == INSTANCE SessionRefresh WITH
    MaxSessions <- MaxRotations, sessions <- families, lock <- refreshLock,
    tabs <- windows

Console == INSTANCE AdminConsole WITH
    Contents <- Entries, MaxVersion <- MaxRevision,
    kind <- operation, version <- revision, calls <- attempts

Reports == INSTANCE Reporting WITH
    MaxVersion <- MaxReports, versions <- projections, active <- current

Sms == INSTANCE Notifications WITH
    Workers <- Loops, Reliable <- SteadyLoops, message <- event, requests <- sends

Circuit == INSTANCE ProviderCircuit WITH
    Calls <- Callers, Reliable <- SteadyCallers, calls <- permits

\* Two facts, and two events that take the first of them back.
Reversed(e) == t1
TwoReversals == <<t1, b1, t2, b2>>

\* Roles that administer everything, and roles that administer one's own.
RoleContents ==
    {[keys |-> {AdminsWrite, RolesWrite}, scope |-> "ALL"],
     [keys |-> {AdminsWrite}, scope |-> "OWN"]}

ASSUME BoundsAssumption == Bounds
ASSUME UsersAssumption == Users!Distinct
ASSUME SignInAssumption == SignIn!Distinct
ASSUME ReportsAssumption == Reports!Listed
ASSUME SupportAssumption == Support!Distinct
ASSUME BrowserAssumption == Browser!Distinct
ASSUME SmsAssumption == Sms!Distinct
ASSUME EventsAssumption ==
    IsFiniteSet(Streams) /\ MaxConnections \in Nat /\ None # "failed"

userVars == <<user, sessions, known, codes, lock, requests, applied>>
adminVars == <<active, step, code, challenge, session, issuing, renewals>>
cmsVars == <<kind, versions, purchase, placed, slot, calls>>
supportVars == <<binding, message, remote, compensation, usable, late, senders, workers,
                 forgotten, exposed>>

eventVars == <<history, tabs, streams, slots>>
browserVars == <<families, aged, jar, refreshLock, windows, posts, troubles, lost, reused>>
consoleVars == <<operation, revision, effects, form, attempts, drawn>>
reportVars == <<happened, projections, current, rebuilds, acked, missed>>
smsVars == <<event, sms, attempt, worker, sends, provider>>
circuitVars == <<circuit, window, permits, healthy, overtaken>>
roleVars == vars

serviceVars ==
    <<which, userVars, adminVars, cmsVars, supportVars, eventVars, browserVars, consoleVars,
      reportVars, smsVars, circuitVars, roleVars>>

\* The services that rest do so in one state each.
Rests ==
    /\ which # "users" => user.phone = p1
    /\ which # "cms" => kind = "slot"
    /\ which # "console" => operation = Console!ContentDraft /\ form.content = t1

ServicesInit ==
    /\ which \in {"users", "admins", "cms", "support", "events", "browser", "console",
                 "reports", "sms", "circuit", "roles"}
    /\ Users!Init /\ SignIn!Init /\ Cms!Init /\ Support!Init /\ Events!Init
    /\ Browser!Init /\ Console!Init /\ Reports!Init /\ Sms!Init /\ Circuit!Init /\ Init
    /\ Rests

ServicesNext ==
    \/ which = "users" /\ Users!Next
          /\ UNCHANGED <<which, adminVars, cmsVars, supportVars, eventVars,
                         browserVars, consoleVars, reportVars, smsVars,
                         circuitVars, roleVars>>
    \/ which = "admins" /\ SignIn!Next
          /\ UNCHANGED <<which, userVars, cmsVars, supportVars, eventVars,
                         browserVars, consoleVars, reportVars, smsVars,
                         circuitVars, roleVars>>
    \/ which = "cms" /\ Cms!Next
          /\ UNCHANGED <<which, userVars, adminVars, supportVars, eventVars,
                         browserVars, consoleVars, reportVars, smsVars,
                         circuitVars, roleVars>>
    \/ which = "support" /\ Support!Next
          /\ UNCHANGED <<which, userVars, adminVars, cmsVars, eventVars,
                         browserVars, consoleVars, reportVars, smsVars,
                         circuitVars, roleVars>>
    \/ which = "events" /\ Events!Next
          /\ UNCHANGED <<which, userVars, adminVars, cmsVars, supportVars,
                         browserVars, consoleVars, reportVars, smsVars,
                         circuitVars, roleVars>>
    \/ which = "browser" /\ Browser!Next
          /\ UNCHANGED <<which, userVars, adminVars, cmsVars, supportVars,
                         eventVars, consoleVars, reportVars, smsVars,
                         circuitVars, roleVars>>
    \/ which = "console" /\ Console!Next
          /\ UNCHANGED <<which, userVars, adminVars, cmsVars, supportVars,
                         eventVars, browserVars, reportVars, smsVars,
                         circuitVars, roleVars>>
    \/ which = "reports" /\ Reports!Next
          /\ UNCHANGED <<which, userVars, adminVars, cmsVars, supportVars,
                         eventVars, browserVars, consoleVars, smsVars,
                         circuitVars, roleVars>>
    \/ which = "sms" /\ Sms!Next
          /\ UNCHANGED <<which, userVars, adminVars, cmsVars, supportVars,
                         eventVars, browserVars, consoleVars, reportVars,
                         circuitVars, roleVars>>
    \/ which = "circuit" /\ Circuit!Next
          /\ UNCHANGED <<which, userVars, adminVars, cmsVars, supportVars,
                         eventVars, browserVars, consoleVars, reportVars,
                         smsVars, roleVars>>
    \/ which = "roles" /\ Next
          /\ UNCHANGED <<which, userVars, adminVars, cmsVars, supportVars,
                         eventVars, browserVars, consoleVars, reportVars,
                         smsVars, circuitVars>>

ServicesSpec == ServicesInit /\ [][ServicesNext]_serviceVars

\* Requests (tabs, calls), and administrators (sessions), are
\* interchangeable; the services that rest do not tell them apart.
Interchangeable == Permutations({x1, x2}) \cup Permutations({i1, i2, i3})

-----------------------------------------------------------------------------
\* A revoked family has no live session (prisma-session.repository.ts, rotate).
RevokedStaysDead == Users!RevokedStaysDead

\* Phones change and accounts close by proof only (identity-account.service.ts).
ChangeIsProved == Users!ChangeIsProved

\* Each factor and refresh token activates one session at most, and none lives
\* that was revoked (prisma-admin-auth.repository.ts, finalizeMfaSession,
\* disableAdminAccess).
SessionsEarned == SignIn!SessionsEarned

\* A publication replaces what its publisher has seen (publication.service.ts).
PublishedAsReviewed == Cms!PublishedAsReviewed

\* The banners of a slot have positions of their own (publication.service.ts,
\* placeBanner).
BannersDistinct == Cms!BannersDistinct

\* The upload of a message stays reserved, and no reservation is forgotten
\* (ticket.service.ts).
UploadsAccounted == Support!UploadsAccounted

\* No connection is counted that is gone, and a tab is told every transition
\* (task-events.route.ts, release; prisma-task-event-stream.ts, catchUp).
TabsServed == Events!TabsServed

\* A report counts what was acknowledged, once (projector.ts, rebuild).
ReportsCount == Reports!ReportsCount

\* The tabs of a browser do not revoke their own session
\* (client-session.ts, coordinateSessionRefresh).
SessionKept == Browser!SessionKept

\* A decision of an administrator takes effect once, as it was shown
\* (adjustment-dialog.tsx, submit; governance-operations.ts).
DecisionsHold == Console!DecisionsHold

\* One SMS for an event at most (notification.consumer.ts, runOnce).
SmsOnce == Sms!SmsOnce

\* An open circuit closes only by the probe that nothing has overtaken
\* (circuit-breaker.ts, record).
ClosedByCurrentProbe == Circuit!ClosedByCurrentProbe
=============================================================================
