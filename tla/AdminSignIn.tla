----------------------------- MODULE AdminSignIn -----------------------------
(***************************************************************************)
(* The sessions of one administrator (services/iam-service).  A second     *)
(* factor and a refresh work in two transactions: the first reserves the   *)
(* challenge and the factor, or the refresh token, for a PENDING session;  *)
(* then the access token is signed; the second transaction activates the   *)
(* session and uses up what was reserved, or the reservation is released.  *)
(* A request whose process stops, or that cannot even release, takes no    *)
(* further step - no step is due to be taken - and what it reserved lapses. *)
(*                                                                         *)
(* Every transaction holds the advisory lock of the administrator, so each *)
(* is one step.  Passwords, the throttling of guesses and the expiry of    *)
(* challenges and sessions only refuse requests and are left out; the set  *)
(* of recovery codes of a generation is one code.                          *)
(***************************************************************************)
EXTENDS Integers

CONSTANTS
    MaxChallenges,  \* bounds; a request is named after its session, and
    MaxSessions,    \* both are numbered as they are made
    Steps,          \* TOTP time steps, natural numbers from 1
    MaxGeneration,  \* bound on replaceRecoveryCodes
    None

VARIABLES
    active,     \* AdminUser.status is ACTIVE
    step,       \* AdminUser.lastTotpTimeStep, 0 for none
    code,       \* the recovery code of the present generation
    challenge,  \* challenge[c]: a row of MfaChallenge, or None
    session,    \* session[s]: a row of AdminSession, or None
    issuing,    \* sessions whose request has yet to finalize or release them
    renewals    \* time steps that replaceRecoveryCodes was given (history)

vars == <<active, step, code, challenge, session, issuing, renewals>>

Challenges == 1..MaxChallenges

Sessions == 1..MaxSessions

Rows == {s \in Sessions : session[s] # None}

New(s) == s \notin Rows /\ \A n \in 1..s - 1 : n \in Rows

ChallengeRows == [consumed : BOOLEAN, reserved : Sessions \cup {None}]

SessionRows ==
    [kind : {"TOTP", "RECOVERY", "REFRESH"}, status : {"PENDING", "ACTIVE", "CANCELLED"},
     from : Challenges \cup Sessions, factor : Nat \cup {None}, family : Sessions,
     consumed : BOOLEAN, revoked : BOOLEAN, lapsed : BOOLEAN]

\* The constants are numbers, and None is nothing else.
Distinct ==
    /\ MaxChallenges \in Nat /\ MaxSessions \in Nat /\ Steps \subseteq Nat
    /\ None \notin Sessions \cup ChallengeRows \cup SessionRows

Unused == [consumed |-> FALSE, reserved |-> None]

\* `from' is the challenge, or the predecessor; `factor' the time step or the
\* generation of the code.  A row keeps them here when it is no more PENDING.
Pending(kind, from, factor, family) ==
    [kind |-> kind, status |-> "PENDING", from |-> from, factor |-> factor,
     family |-> family, consumed |-> FALSE, revoked |-> FALSE, lapsed |-> FALSE]

IsPending(s) == session[s].status = "PENDING"

\* The reservation of a row is in force: reservedUntil is the pendingExpiresAt
\* of the session it is reserved for.
Taken(row) == row.reserved # None /\ ~session[row.reserved].lapsed

-----------------------------------------------------------------------------
(* verifyPassword, and the first transactions of the second factor.        *)

CreateMfaChallenge(c) ==
    /\ active /\ challenge[c] = None /\ \A d \in 1..c - 1 : challenge[d] # None
    /\ challenge' = [challenge EXCEPT ![c] = Unused]
    /\ UNCHANGED <<active, step, code, session, issuing, renewals>>

\* classifyChallenge finds nothing against it.
Usable(c) == active /\ challenge[c] # None /\ ~challenge[c].consumed /\ ~Taken(challenge[c])

Fresh(t) == t > step

\* Another unlapsed sign-in holds this time step or a later one.
Competing(t) ==
    \E s \in Rows : /\ IsPending(s) /\ session[s].kind = "TOTP"
                    /\ ~session[s].lapsed /\ session[s].factor >= t

Reserve(c, s, kind, factor) ==
    /\ challenge' = [challenge EXCEPT ![c].reserved = s]
    /\ session' = [session EXCEPT ![s] = Pending(kind, c, factor, s)]
    /\ issuing' = issuing \cup {s}

CompleteTotpChallenge(c, t, s) ==
    /\ New(s)
    /\ Usable(c) /\ Fresh(t) /\ ~Competing(t)
    /\ Reserve(c, s, "TOTP", t)
    /\ UNCHANGED <<active, step, code, renewals>>

\* The caller may still hold the code of a former generation, which is refused.
CompleteRecoveryChallenge(c, s) ==
    /\ New(s)
    /\ Usable(c) /\ ~code.consumed /\ ~Taken(code)
    /\ code' = [code EXCEPT !.reserved = s]
    /\ Reserve(c, s, "RECOVERY", code.generation)
    /\ UNCHANGED <<active, step, renewals>>

NewCode(generation) == [generation |-> generation, consumed |-> FALSE, reserved |-> None]

ReplaceRecoveryCodes(t) ==
    /\ active /\ Fresh(t)
    /\ code.generation < MaxGeneration
    /\ step' = t
    /\ code' = NewCode(code.generation + 1)
    /\ renewals' = renewals \cup {t}
    /\ UNCHANGED <<active, challenge, session, issuing>>

-----------------------------------------------------------------------------
(* The end of a PENDING session, and its second transaction.               *)

Freed(row, ids) ==
    IF row # None /\ row.reserved \in ids /\ ~row.consumed
    THEN [row EXCEPT !.reserved = None] ELSE row

Cancelled(s) == [session[s] EXCEPT !.status = "CANCELLED", !.revoked = TRUE]

\* cancelPendingMfaSession, cancelPendingRefreshSession.
CancelPending(s) ==
    /\ session' = [session EXCEPT ![s] = Cancelled(s)]
    /\ challenge' = [c \in Challenges |-> Freed(challenge[c], {s})]
    /\ code' = Freed(code, {s})

Answered(s) == issuing' = issuing \ {s}

\* The answer of the commit may be lost: the request then releases.
Committed(s) == Answered(s) \/ UNCHANGED issuing

Finalizing(s, kind) == s \in issuing /\ session[s].kind = kind /\ IsPending(s)

StillReserved(s) ==
    LET row == challenge[session[s].from]
    IN  active /\ ~session[s].revoked /\ ~session[s].lapsed
        /\ ~row.consumed /\ row.reserved = s

Activate(s) ==
    /\ challenge' = [challenge EXCEPT ![session[s].from] =
                         [consumed |-> TRUE, reserved |-> None]]
    /\ session' = [session EXCEPT ![s].status = "ACTIVE"]

FinalizeTotp(s) ==
    /\ Finalizing(s, "TOTP")
    /\ StillReserved(s) /\ Fresh(session[s].factor)
    /\ step' = session[s].factor
    /\ Activate(s)
    /\ Committed(s)
    /\ UNCHANGED <<active, code, renewals>>

\* A replaced code is gone, and its successor is reserved for nobody.
FinalizeRecovery(s) ==
    /\ Finalizing(s, "RECOVERY")
    /\ StillReserved(s) /\ code.reserved = s /\ ~code.consumed
    /\ code' = [code EXCEPT !.consumed = TRUE, !.reserved = None]
    /\ Activate(s)
    /\ Committed(s)
    /\ UNCHANGED <<active, step, renewals>>

\* finalizeMfaSession returns null.  When it throws a conflict instead, the
\* row stays as it is until Release.
RefuseMfa(s) ==
    /\ Finalizing(s, "TOTP") \/ Finalizing(s, "RECOVERY")
    /\ ~StillReserved(s)
    /\ CancelPending(s)
    /\ Answered(s)
    /\ UNCHANGED <<active, step, renewals>>

\* releaseMfaSession, releaseRotatedSession: the token could not be signed, or
\* the second transaction failed.  A session that is not PENDING is left alone.
Release(s) ==
    /\ s \in issuing
    /\ IF IsPending(s) THEN CancelPending(s) ELSE UNCHANGED <<session, challenge, code>>
    /\ Answered(s)
    /\ UNCHANGED <<active, step, renewals>>

-----------------------------------------------------------------------------
(* Refresh.                                                                *)

Live(s) == session[s].status = "ACTIVE" /\ ~session[s].consumed /\ ~session[s].revoked

Rotating(s) ==
    \E n \in Rows : /\ IsPending(n) /\ ~session[n].lapsed
                    /\ session[n].kind = "REFRESH" /\ session[n].from = s

RotateSession(s, n) ==
    /\ s \in Rows /\ New(n)
    /\ Live(s) /\ active /\ ~Rotating(s)
    /\ session' = [session EXCEPT ![n] = Pending("REFRESH", s, None, session[s].family)]
    /\ issuing' = issuing \cup {n}
    /\ UNCHANGED <<active, step, code, challenge, renewals>>

\* Mutant: only the token that was presented is revoked.
Family_Presented(s) == {s}

Family(s) == {n \in Rows : session[n].family = session[s].family}

Revoked(ids) ==
    [n \in Sessions |-> IF n \in ids THEN [session[n] EXCEPT !.revoked = TRUE]
                        ELSE session[n]]

\* rotateSession with a token that was used before: also the honest client's,
\* when the answer to its refresh was lost.
DetectReuse(s) ==
    /\ s \in Rows
    /\ session[s].status = "ACTIVE" /\ session[s].consumed
    /\ session' = Revoked(Family(s))
    /\ UNCHANGED <<active, step, code, challenge, issuing, renewals>>

Replaceable(n) ==
    /\ active /\ Live(session[n].from)
    /\ ~session[n].revoked /\ ~session[n].lapsed

FinalizeRotated(n) ==
    /\ Finalizing(n, "REFRESH")
    /\ Replaceable(n)
    /\ session' = [session EXCEPT ![session[n].from].consumed = TRUE, ![n].status = "ACTIVE"]
    /\ Committed(n)
    /\ UNCHANGED <<active, step, code, challenge, renewals>>

RefuseRotated(n) ==
    /\ Finalizing(n, "REFRESH")
    /\ ~Replaceable(n)
    /\ CancelPending(n)
    /\ Answered(n)
    /\ UNCHANGED <<active, step, renewals>>

-----------------------------------------------------------------------------
(* disableAdmin, and the worker that cleans up.                            *)

Disable ==
    /\ active
    /\ active' = FALSE
    /\ LET pending == {s \in Rows : IsPending(s)}
       IN  /\ challenge' = [c \in Challenges |-> Freed(challenge[c], pending)]
           /\ code' = Freed(code, pending)
           /\ session' = [s \in Sessions |->
                  IF s \notin Rows THEN None
                  ELSE IF s \in pending THEN Cancelled(s)
                  ELSE [session[s] EXCEPT !.revoked = TRUE]]
    /\ UNCHANGED <<step, issuing, renewals>>

CleanupExpiredPending(s) ==
    /\ s \in Rows /\ IsPending(s) /\ session[s].lapsed
    /\ CancelPending(s)
    /\ UNCHANGED <<active, step, issuing, renewals>>

Lapse(s) ==
    /\ s \in Rows /\ IsPending(s) /\ ~session[s].lapsed
    /\ session' = [session EXCEPT ![s].lapsed = TRUE]
    /\ UNCHANGED <<active, step, code, challenge, issuing, renewals>>

-----------------------------------------------------------------------------
\* After confirmMfaEnrollment, which takes the same steps as a replacement.
Init ==
    /\ active = TRUE
    /\ step = 0
    /\ code = NewCode(1)
    /\ challenge = [c \in Challenges |-> None]
    /\ session = [s \in Sessions |-> None]
    /\ issuing = {}
    /\ renewals = {}

SignIn(c) ==
    \/ CreateMfaChallenge(c)
    \/ \E s \in Sessions :
          \/ \E t \in Steps : CompleteTotpChallenge(c, t, s)
          \/ CompleteRecoveryChallenge(c, s)

Finish(s) ==
    \/ FinalizeTotp(s)
    \/ FinalizeRecovery(s)
    \/ RefuseMfa(s)
    \/ FinalizeRotated(s)
    \/ RefuseRotated(s)
    \/ Release(s)

Next ==
    \/ \E c \in Challenges : SignIn(c)
    \/ \E t \in Steps : ReplaceRecoveryCodes(t)
    \/ \E s \in Sessions :
          \/ Finish(s)
          \/ \E n \in Sessions : RotateSession(s, n)
          \/ DetectReuse(s)
          \/ CleanupExpiredPending(s)
          \/ Lapse(s)
    \/ Disable

Spec == Init /\ [][Next]_vars

-----------------------------------------------------------------------------
Refreshed(s) == session[s].kind = "REFRESH"

Activated == {s \in Rows : session[s].status = "ACTIVE"}

\* A challenge, a time step, a recovery code and a refresh token each bring at
\* most one session to life, though they are only used up after the token was
\* signed: not when a reservation lapses under a slow request and is given to
\* another, nor when the answer of the commit was lost and the session released.
EarnedOnce ==
    /\ \A s, n \in Activated : s # n =>
          /\ Refreshed(s) = Refreshed(n) => session[s].from # session[n].from
          /\ session[s].kind = session[n].kind /\ ~Refreshed(s) =>
                 session[s].factor # session[n].factor
    /\ \A s \in Activated : session[s].kind = "TOTP" => session[s].factor \notin renewals

\* No request that was half way leaves a session alive behind a disabled
\* administrator or a detected reuse, and a family has one live session.
RevokedStaysOut ==
    /\ ~active => \A s \in Rows : session[s].revoked
    /\ \A s, n \in Activated : session[s].family = session[n].family =>
          /\ session[s].revoked => session[n].revoked
          /\ ~session[s].consumed /\ ~session[n].consumed => s = n

\* A session is earned once, and stays revoked: both of them.
SessionsEarned == EarnedOnce /\ RevokedStaysOut
=============================================================================
