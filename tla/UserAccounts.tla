---------------------------- MODULE UserAccounts ----------------------------
(***************************************************************************)
(* One user of services/identity-service: login by SMS code, refresh       *)
(* tokens that are replaced at each use, logout, and the two operations    *)
(* that need codes of their own, change of phone and closing the account.  *)
(*                                                                         *)
(* Every writer of users and sessions holds the advisory lock of the user  *)
(* until it commits, so a transaction that calls nobody is one step.  The  *)
(* two operations call the store of SMS codes while they hold the lock;    *)
(* their transaction may be rolled back and run again, up to three times,  *)
(* but a code once verified is gone.  A code is only told apart by whether *)
(* it is still good.  updateProfile is left out.                           *)
(***************************************************************************)
EXTENDS Integers, FiniteSets

CONSTANTS
    Phones,
    Requests,       \* logins, and operations with their operationIds
    Ids,            \* ids of sessions, as many as the bound allows
    MaxTries,       \* attempts at a transaction: 3
    None

VARIABLES
    user,       \* the row: phone, and is it ACTIVE?
    sessions,   \* sessions[i]: a row of Session, or None
    known,      \* sessions whose refresh token has reached the client
    codes,      \* phones for which the SMS code in Redis is good
    lock,       \* the request whose transaction is open, or None
    requests,   \* requests[r]: where request r is
    applied     \* operationIds of the outbox events

vars == <<user, sessions, known, codes, lock, requests, applied>>

\* Rows of Session.
SessionRows == [family : Ids, consumed : BOOLEAN, revoked : BOOLEAN, expired : BOOLEAN]

Distinct == None \notin Phones \cup Requests \cup SessionRows

Idle == [at |-> "idle", phone |-> None, verified |-> None, tries |-> 0, proved |-> {}]

At(r, place) == requests[r].at = place

Goes(r, place) == requests' = [requests EXCEPT ![r].at = place]

Rows == {i \in Ids : sessions[i] # None}

Family(i) == {j \in Rows : sessions[j].family = sessions[i].family}

-----------------------------------------------------------------------------
(* SmsChallengeService: issue, and the end of a code by its age, by five   *)
(* wrong guesses, or because it could not be sent.                         *)

IssueCode(p) ==
    /\ p \notin codes
    /\ codes' = codes \cup {p}
    /\ UNCHANGED <<user, sessions, known, lock, requests, applied>>

CodeEnds(p) ==
    /\ p \in codes
    /\ codes' = codes \ {p}
    /\ UNCHANGED <<user, sessions, known, lock, requests, applied>>

-----------------------------------------------------------------------------
(* Sessions.                                                               *)

Free == Ids \ Rows

Session(family) == [family |-> family, consumed |-> FALSE, revoked |-> FALSE, expired |-> FALSE]

\* The answer with the token of session i arrives, or is lost.
Answer(i) == known' = known \cup {i} \/ UNCHANGED known

\* authenticatePhone: verify.
Login(r, p) ==
    /\ At(r, "idle") /\ p \in codes
    /\ codes' = codes \ {p}
    /\ requests' = [requests EXCEPT ![r] = [Idle EXCEPT !.at = "find", !.phone = p]]
    /\ UNCHANGED <<user, sessions, known, lock, applied>>

\* findOrCreateActiveUserByPhone takes no lock; it may find another user.
FindUser(r) ==
    /\ At(r, "find")
    /\ Goes(r, IF user.phone = requests[r].phone /\ user.active THEN "create" ELSE "done")
    /\ UNCHANGED <<user, sessions, known, codes, lock, applied>>

CreateSession(r) ==
    /\ At(r, "create") /\ lock = None
    /\ \/ /\ user.active
          /\ \E new \in Free :
                /\ sessions' = [sessions EXCEPT ![new] = Session(new)]
                /\ Answer(new)
       \/ ~user.active /\ UNCHANGED <<sessions, known>>
    /\ Goes(r, "done")
    /\ UNCHANGED <<user, codes, lock, applied>>

Revoked(ids) == [j \in Ids |-> IF j \in ids THEN [sessions[j] EXCEPT !.revoked = TRUE]
                               ELSE sessions[j]]

\* Mutant: rotate forgets to ask whether the session was revoked.
Usable_Revoked(i) == ~sessions[i].expired /\ user.active

\* What rotate asks of a session.
Usable(i) == ~sessions[i].revoked /\ ~sessions[i].expired /\ user.active

\* rotate by a token that was not used before.
Rotate(i) ==
    /\ i \in known /\ lock = None
    /\ ~sessions[i].consumed /\ Usable(i)
    /\ \E new \in Free :
          /\ sessions' = [sessions EXCEPT ![i].consumed = TRUE,
                                          ![new] = Session(sessions[i].family)]
          /\ Answer(new)
    /\ UNCHANGED <<user, codes, lock, requests, applied>>

\* rotate by a token that was used, also because its answer was lost.
ReuseDetected(i) ==
    /\ i \in known /\ lock = None
    /\ sessions[i].consumed
    /\ sessions' = Revoked(Family(i))
    /\ UNCHANGED <<user, known, codes, lock, requests, applied>>

\* revokeById of one of the user's devices, and revokeFamilyByDigest.
Revoke(i) ==
    /\ i \in Rows /\ lock = None
    /\ sessions' = Revoked(Family(i))
    /\ UNCHANGED <<user, known, codes, lock, requests, applied>>

SessionExpires(i) ==
    /\ i \in Rows /\ ~sessions[i].expired
    /\ sessions' = [sessions EXCEPT ![i].expired = TRUE]
    /\ UNCHANGED <<user, known, codes, lock, requests, applied>>

-----------------------------------------------------------------------------
(* changePhone, to the request's phone, and closeAccount, without one.     *)

\* A request for an operation, or the same once more.
Start(r) ==
    /\ \/ At(r, "idle") /\ \E p \in Phones \cup {None} :
              requests' = [requests EXCEPT ![r] = [Idle EXCEPT !.at = "begin", !.phone = p]]
       \/ At(r, "failed")
          /\ requests' = [requests EXCEPT ![r].at = "begin", ![r].verified = None,
                                          ![r].tries = 0, ![r].proved = {}]
    /\ UNCHANGED <<user, sessions, known, codes, lock, applied>>

\* The transaction opens: locks, getOperationResult, getActiveUser.
Begin(r) ==
    /\ At(r, "begin") /\ lock = None
    /\ requests[r].tries < MaxTries
    /\ \/ /\ r \in applied \/ ~user.active \/ requests[r].phone = user.phone
          /\ Goes(r, "done")
          /\ UNCHANGED lock
       \/ /\ r \notin applied /\ user.active /\ requests[r].phone # user.phone
          /\ lock' = r
          /\ requests' = [requests EXCEPT ![r].at = "verify", ![r].tries = @ + 1]
    /\ UNCHANGED <<user, sessions, known, codes, applied>>

NeededBy(r) == {user.phone} \cup ({requests[r].phone} \ {None})

\* The first attempt verifies the codes; a wrong one or an error of Redis
\* ends the request, though the other code may be consumed.
VerifyCodes(r) ==
    /\ At(r, "verify") /\ requests[r].verified = None
    /\ \E good \in SUBSET (NeededBy(r) \cap codes) :
          /\ codes' = codes \ good
          /\ IF good = NeededBy(r)
             THEN /\ requests' = [requests EXCEPT ![r].at = "write", ![r].proved = good,
                                                  ![r].verified = user.phone]
                  /\ UNCHANGED lock
             ELSE Goes(r, "failed") /\ lock' = None
    /\ UNCHANGED <<user, sessions, known, applied>>

\* Mutant: what was verified once is not compared with the row again.
StillProves_Once(r) == requests[r].verified # None

StillProves(r) == requests[r].verified = user.phone

\* A later attempt does not ask for the codes again.
Recheck(r) ==
    /\ At(r, "verify") /\ requests[r].verified # None
    /\ \/ StillProves(r) /\ Goes(r, "write") /\ UNCHANGED lock
       \/ ~StillProves(r) /\ Goes(r, "failed") /\ lock' = None
    /\ UNCHANGED <<user, sessions, known, codes, applied>>

\* The answer of a commit may be lost; PHONE_ALREADY_IN_USE is in Fail.
Commit(r) ==
    /\ At(r, "write")
    /\ IF requests[r].phone = None
       THEN user' = [user EXCEPT !.active = FALSE] /\ sessions' = Revoked(Rows)
       ELSE user' = [user EXCEPT !.phone = requests[r].phone] /\ UNCHANGED sessions
    /\ applied' = applied \cup {r}
    /\ lock' = None
    /\ Goes(r, "done") \/ Goes(r, "failed")
    /\ UNCHANGED <<known, codes>>

\* A write conflict: the same call runs the transaction again.
Rollback(r) ==
    /\ At(r, "write")
    /\ lock' = None
    /\ Goes(r, IF requests[r].tries < MaxTries THEN "begin" ELSE "failed")
    /\ UNCHANGED <<user, sessions, known, codes, applied>>

\* Any other error, the time limit of the transaction, or a crash.
Fail(r) ==
    /\ lock = r
    /\ lock' = None
    /\ Goes(r, "failed")
    /\ UNCHANGED <<user, sessions, known, codes, applied>>

-----------------------------------------------------------------------------
Init ==
    /\ \E p \in Phones : user = [phone |-> p, active |-> TRUE]
    /\ sessions = [i \in Ids |-> None]
    /\ known = {}
    /\ codes = {}
    /\ lock = None
    /\ requests = [r \in Requests |-> Idle]
    /\ applied = {}

Serve(r) ==
    \/ \E p \in Phones : Login(r, p)
    \/ FindUser(r)
    \/ CreateSession(r)
    \/ Start(r)
    \/ Begin(r)
    \/ VerifyCodes(r)
    \/ Recheck(r)
    \/ Commit(r)
    \/ Rollback(r)
    \/ Fail(r)

Next ==
    \/ \E p \in Phones : IssueCode(p) \/ CodeEnds(p)
    \/ \E i \in Ids : Rotate(i) \/ ReuseDetected(i) \/ Revoke(i) \/ SessionExpires(i)
    \/ \E r \in Requests : Serve(r)

Spec == Init /\ [][Next]_vars

-----------------------------------------------------------------------------
\* A family of sessions is revoked as a whole and for good: no refresh that
\* races a logout or a detected reuse leaves a session alive behind it, a token
\* presented twice has one successor, and a login that has verified its code
\* makes no session for an account that was closed meanwhile.
RevokedStaysDead ==
    /\ \A i \in Rows : \A j \in Family(i) :
          /\ sessions[i].revoked => sessions[j].revoked
          /\ ~sessions[i].consumed /\ ~sessions[j].consumed => i = j
    /\ ~user.active => \A i \in Rows : sessions[i].revoked

\* The phone of an account changes, and an account is closed, only by a request
\* that has proved to hold the phone the account has at that moment, and the new
\* one: not by an attempt that verified a phone which is not the user's any more.
ChangeIsProved ==
    [][user' # user =>
          \E r \in Requests : {user.phone, user'.phone} \subseteq requests[r].proved]_vars
=============================================================================
