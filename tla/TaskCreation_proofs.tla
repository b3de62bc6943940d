------------------------ MODULE TaskCreation_proofs -------------------------
(***************************************************************************)
(* What holds of TaskCreation for any number of concurrent calls, whatever *)
(* acknowledgements are lost and whichever calls die; and of the outbox,   *)
(* from which what it committed is published.                              *)
(***************************************************************************)
EXTENDS TaskCreation, Integers, Sequences, TLAPS

-----------------------------------------------------------------------------
(* Types.                                                                  *)

\* The constructors of a call's state build states.
CallStates == [at : Places, from : Phases \cup {None}, to : Phases \cup {None},
               token : Calls \cup {None}]

LEMMA AtType == \A place \in Places : At(place) \in CallStates
BY DEF At, CallStates

LEMMA AdvancingType == \A f, t \in Phases : Advancing(f, t) \in CallStates
BY DEF Advancing, CallStates, Places

LEMMA RepairingType ==
    \A f \in Phases, t \in Calls \cup {None} : Repairing(f, t) \in CallStates
BY DEF Repairing, CallStates, Places, Phases, Repairable

\* A call that goes to a state leaves the others where they are.
LEMMA GoesType ==
    ASSUME TypeOK, NEW c \in Calls, NEW s \in CallStates, Goes(c, s)
    PROVE  /\ calls' \in [Calls -> CallStates]
           /\ calls'[c] = s
           /\ \A b \in Calls : b # c => calls'[b] = calls[b]
BY DEF TypeOK, Goes, CallStates

\* The phases between which an owner moves the record.
Moves == {<<"RESERVE_REQUESTED", "RESERVED">>,
          <<"RESERVED", "PERSISTENCE_FAILED">>,
          <<"RESERVE_REQUESTED", "COMPENSATION_REQUESTED">>,
          <<"RESERVED", "COMPENSATION_REQUESTED">>,
          <<"PERSISTENCE_FAILED", "COMPENSATION_REQUESTED">>,
          <<"COMPENSATION_REQUESTED", "COMPENSATED">>}

LEMMA MovesType ==
    ASSUME NEW f, NEW t, <<f, t>> \in Moves
    PROVE  f \in Repairable /\ t \in Repairable \ {"RESERVE_REQUESTED"}
           /\ f \in Phases /\ t \in Phases
BY DEF Moves, Repairable, Phases

LEMMA AfterType ==
    ASSUME NEW f, NEW t, <<f, t>> \in Moves
    PROVE  After(t) \in CallStates /\ Without(t) \in CallStates
<1>1. t \in {"RESERVED", "PERSISTENCE_FAILED", "COMPENSATION_REQUESTED", "COMPENSATED"}
  BY DEF Moves
<1>2. {"persist", "release", "finish", "UNAVAILABLE"} \subseteq Places
  BY DEF Places, Answers
<1>3. {"RESERVE_REQUESTED", "RESERVED", "PERSISTENCE_FAILED", "COMPENSATION_REQUESTED"}
        \subseteq Phases
  BY DEF Phases, Repairable
<1> QED
  BY <1>1, <1>2, <1>3, AtType, AdvancingType DEF After, Without

-----------------------------------------------------------------------------
(* The inductive invariant.                                                *)

Nothing == posted = {} /\ inflight = {}

Unreleased == "release" \notin posted \cup inflight

\* What the phase of the record says of the wallet.
PhaseInv ==
    /\ record.phase = "NONE" <=> record.token = None
    /\ record.phase \in {"NONE", "CLAIMED"} => Nothing
    /\ record.phase \in {"RESERVED", "PERSISTENCE_FAILED", "SUCCEEDED"} =>
           "reserve" \in posted /\ Unreleased
    /\ record.phase = "FAILED" =>
           \/ record.code = "QUOTE_REFUSED" /\ Nothing
           \/ /\ record.code = "TASK_CREATION_FAILED"
              /\ "release" \in posted /\ inflight = {}

\* A command is sent once, and the release only of what is reserved.
WalletInv ==
    /\ posted \cap inflight = {}
    /\ "release" \in posted \cup inflight => "reserve" \in posted

\* What a call in state s relies on.  From "reserve" to "finished" it holds
\* the token of the record, so that there is one such call.
CallInv(c, s) ==
    /\ s.at \in {"start", "reclaim"} => record.token # c
    /\ s.at \in {"quote", "begin", "beginning", "begun"} /\ record.token = c => Nothing
    /\ s.at = "reserve" =>
           /\ record.token = c /\ Nothing
           /\ record.phase \in {"RESERVE_REQUESTED", "REPAIR_REQUIRED"}
    /\ s.at = "reserving" =>
           /\ record.token = c /\ Unreleased
           /\ record.phase \in {"RESERVE_REQUESTED", "REPAIR_REQUIRED"}
    /\ s.at \in {"advance", "advanced"} =>
           /\ record.token = c /\ "reserve" \in posted
           /\ <<s.from, s.to>> \in Moves
           /\ IF s.to = "COMPENSATED" THEN "release" \in posted ELSE Unreleased
    /\ s.at \in {"persist", "persisted"} =>
           record.token = c /\ "reserve" \in posted /\ Unreleased
    /\ s.at = "release" =>
           /\ record.token = c /\ "reserve" \in posted /\ Unreleased
           /\ record.phase \in {"COMPENSATION_REQUESTED", "REPAIR_REQUIRED"}
    /\ s.at = "releasing" =>
           /\ record.token = c /\ "reserve" \in posted
           /\ record.phase \in {"COMPENSATION_REQUESTED", "REPAIR_REQUIRED"}
    /\ s.at \in {"finish", "finished"} => record.token = c /\ "release" \in posted
    /\ s.at \in {"repair", "repaired"} => s.from \in Repairable

\* What a call in state s was answered.
AnswerInv(s) ==
    /\ s.at = "QUEUED" => record.phase = "SUCCEEDED"
    /\ s.at = "REPAIR_REQUIRED" => record.phase = "REPAIR_REQUIRED"
    /\ s.at \in {"QUOTE_REFUSED", "TASK_CREATION_FAILED"} =>
           record.phase = "FAILED" /\ record.code = s.at

IInv ==
    /\ TypeOK
    /\ PhaseInv
    /\ WalletInv
    /\ \A c \in Calls : CallInv(c, calls[c]) /\ AnswerInv(calls[c])

-----------------------------------------------------------------------------
(* Steps by what they change.  Each lemma reduces a step of call c to what *)
(* holds of c alone: the other calls keep their part of the invariant.     *)

\* Only the call changes.
LEMMA CallStep ==
    ASSUME IInv, NEW c \in Calls, NEW s \in CallStates, Goes(c, s),
           CallInv(c, s), AnswerInv(s), UNCHANGED <<record, inflight, posted>>
    PROVE  IInv'
<1>0. TypeOK
  BY DEF IInv
<1>1. /\ calls' \in [Calls -> CallStates]
      /\ calls'[c] = s
      /\ \A b \in Calls : b # c => calls'[b] = calls[b]
  BY <1>0, GoesType
<1>2. TypeOK'
  BY <1>0, <1>1 DEF TypeOK, CallStates
<1>3. PhaseInv' /\ WalletInv'
  BY DEF IInv, PhaseInv, WalletInv, Nothing, Unreleased
<1>4. ASSUME NEW b \in Calls PROVE CallInv(b, calls[b])' /\ AnswerInv(calls[b])'
  <2>1. CASE b = c
    BY <1>1, <2>1 DEF CallInv, AnswerInv, Nothing, Unreleased
  <2>2. CASE b # c
    <3>1. calls'[b] = calls[b] /\ CallInv(b, calls[b]) /\ AnswerInv(calls[b])
      BY <1>1, <2>2 DEF IInv
    <3> QED
      BY <3>1 DEF CallInv, AnswerInv, Nothing, Unreleased
  <2> QED
    BY <2>1, <2>2
<1> QED
  BY <1>2, <1>3, <1>4 DEF IInv

\* The record of an open operation changes under a call that has its token,
\* or takes it from a call that did not reach the wallet.
LEMMA RecordStep ==
    ASSUME IInv, NEW c \in Calls, NEW s \in CallStates, Goes(c, s),
           NEW r \in [phase : Phases, token : Calls \cup {None}, amended : BOOLEAN,
                      expired : BOOLEAN,
                      code : {"QUOTE_REFUSED", "TASK_CREATION_FAILED", None}],
           record' = r, UNCHANGED <<inflight, posted>>,
           ~Closed, r.token = c,
           record.token = c \/ record.phase \in {"NONE", "CLAIMED"},
           PhaseInv', CallInv(c, s)', AnswerInv(s)'
    PROVE  IInv'
<1>0. TypeOK /\ PhaseInv /\ WalletInv
  BY DEF IInv
<1>1. /\ calls' \in [Calls -> CallStates]
      /\ calls'[c] = s
      /\ \A b \in Calls : b # c => calls'[b] = calls[b]
  BY <1>0, GoesType
<1>2. TypeOK'
  BY <1>0, <1>1 DEF TypeOK, CallStates
<1>3. WalletInv'
  BY <1>0 DEF WalletInv
<1>4. ASSUME NEW b \in Calls, b # c PROVE CallInv(b, calls[b])' /\ AnswerInv(calls[b])'
  <2>1. calls'[b] = calls[b] /\ CallInv(b, calls[b]) /\ AnswerInv(calls[b])
    BY <1>1, <1>4 DEF IInv
  <2>2. record'.token # b
    BY <1>4
  <2>3. CASE record.token = c
    BY <1>4, <2>1, <2>2, <2>3 DEF CallInv, AnswerInv, Closed, Nothing, Unreleased
  <2>4. CASE record.phase \in {"NONE", "CLAIMED"}
    <3>1. Nothing
      BY <1>0, <2>4 DEF PhaseInv
    <3> QED
      BY <1>4, <2>1, <2>2, <2>4, <3>1 DEF CallInv, AnswerInv, Nothing, Unreleased
  <2> QED
    BY <2>3, <2>4
<1>5. CallInv(c, calls[c])' /\ AnswerInv(calls[c])'
  BY <1>1 DEF CallInv, AnswerInv, Nothing, Unreleased
<1> QED
  BY <1>2, <1>3, <1>4, <1>5, PhaseInv' DEF IInv

\* A call that holds the token sends a command to the wallet.
LEMMA SendStep ==
    ASSUME IInv, NEW c \in Calls, NEW s \in CallStates, Goes(c, s),
           UNCHANGED <<record, posted>>, record.token = c,
           inflight' \subseteq {"reserve", "release"},
           PhaseInv', WalletInv', CallInv(c, s)', AnswerInv(s)'
    PROVE  IInv'
<1>0. TypeOK
  BY DEF IInv
<1>1. /\ calls' \in [Calls -> CallStates]
      /\ calls'[c] = s
      /\ \A b \in Calls : b # c => calls'[b] = calls[b]
  BY <1>0, GoesType
<1>2. TypeOK'
  BY <1>0, <1>1 DEF TypeOK, CallStates
<1>3. ASSUME NEW b \in Calls, b # c PROVE CallInv(b, calls[b])' /\ AnswerInv(calls[b])'
  <2>1. calls'[b] = calls[b] /\ CallInv(b, calls[b]) /\ AnswerInv(calls[b])
    BY <1>1, <1>3 DEF IInv
  <2> QED
    BY <1>3, <2>1 DEF CallInv, AnswerInv, Nothing, Unreleased
<1>4. CallInv(c, calls[c])' /\ AnswerInv(calls[c])'
  BY <1>1 DEF CallInv, AnswerInv, Nothing, Unreleased
<1> QED
  BY <1>2, <1>3, <1>4, PhaseInv', WalletInv' DEF IInv
-----------------------------------------------------------------------------
(* The invariant is inductive: claiming and what precedes the reservation. *)

LEMMA InitInv == Init => IInv
<1> SUFFICES ASSUME Init PROVE IInv
  OBVIOUS
<1>1. At("start") \in CallStates
  BY AtType DEF Places
<1>2. TypeOK
  BY <1>1 DEF Init, TypeOK, CallStates, Phases
<1>3. PhaseInv /\ WalletInv
  BY DEF Init, PhaseInv, WalletInv, Nothing
<1>4. ASSUME NEW c \in Calls PROVE CallInv(c, calls[c]) /\ AnswerInv(calls[c])
  BY NoneAssumption DEF Init, CallInv, AnswerInv, At
<1> QED
  BY <1>2, <1>3, <1>4 DEF IInv

\* A call that is where it relies on nothing: waiting, or without an outcome.
LEMMA NoClaim ==
    ASSUME NEW c \in Calls,
           NEW p \in {"await", "consume", "IN_PROGRESS", "UNAVAILABLE", "CONFLICT", "GONE",
                      "refuse", "refusing", "refused"}
    PROVE  /\ At(p) \in CallStates
           /\ CallInv(c, At(p)) /\ AnswerInv(At(p))
<1>1. At(p) \in CallStates
  BY AtType DEF Places, Answers
<1> QED
  BY <1>1 DEF CallInv, AnswerInv, At

LEMMA ClaimInv ==
    ASSUME IInv, NEW c \in Calls, Claim(c)
    PROVE  IInv'
<1>0. TypeOK /\ PhaseInv /\ CallInv(c, calls[c])
  BY DEF IInv
<1>1. record.token # c
  BY <1>0 DEF Claim, CallInv, At
<1>2. CASE record.phase = "NONE"
  <2> DEFINE r == [phase |-> "CLAIMED", token |-> c, amended |-> c \in Amended,
                   expired |-> FALSE, code |-> None]
  <2>1. record' = r /\ Goes(c, At("quote")) /\ UNCHANGED <<inflight, posted>>
    BY <1>2 DEF Claim, WalletUnchanged
  <2>2. r \in [phase : Phases, token : Calls \cup {None}, amended : BOOLEAN,
               expired : BOOLEAN, code : {"QUOTE_REFUSED", "TASK_CREATION_FAILED", None}]
    BY DEF Phases
  <2>3. Nothing
    BY <1>0, <1>2 DEF PhaseInv
  <2>4. PhaseInv'
    BY <2>1, <2>3, NoneAssumption DEF PhaseInv, Nothing, Unreleased
  <2>5. At("quote") \in CallStates
    BY AtType DEF Places
  <2>6. CallInv(c, At("quote"))' /\ AnswerInv(At("quote"))'
    BY <2>1, <2>3 DEF CallInv, AnswerInv, At, Nothing
  <2>7. ~Closed
    BY <1>2 DEF Closed
  <2>8. r.token = c
    OBVIOUS
  <2> HIDE DEF r
  <2> QED
    BY <1>2, <2>1, <2>2, <2>4, <2>5, <2>6, <2>7, <2>8, RecordStep
<1>3. CASE record.phase # "NONE"
  <2>1. UNCHANGED <<record, inflight, posted>>
    BY <1>3 DEF Claim, WalletUnchanged
  <2>2. CASE Goes(c, [At("reclaim") EXCEPT !.token = record.token])
    <3>1. [At("reclaim") EXCEPT !.token = record.token] \in CallStates
      BY <1>0 DEF At, CallStates, Places, TypeOK
    <3>2. /\ CallInv(c, [At("reclaim") EXCEPT !.token = record.token])
          /\ AnswerInv([At("reclaim") EXCEPT !.token = record.token])
      BY <1>1 DEF At, CallInv, AnswerInv
    <3> QED
      BY <2>1, <2>2, <3>1, <3>2, CallStep
  <2>3. CASE \E p \in {"CONFLICT", "await"} : Goes(c, At(p))
    <3>1. PICK p \in {"CONFLICT", "await"} : Goes(c, At(p))
      BY <2>3
    <3> QED
      BY <2>1, <3>1, NoClaim, CallStep
  <2> QED
    BY <1>3, <2>2, <2>3 DEF Claim, Waiting
<1> QED
  BY <1>2, <1>3

LEMMA ReclaimInv ==
    ASSUME IInv, NEW c \in Calls, Reclaim(c)
    PROVE  IInv'
<1>0. TypeOK /\ PhaseInv /\ CallInv(c, calls[c])
  BY DEF IInv
<1>1. CASE /\ record.phase = "CLAIMED"
           /\ record' = [record EXCEPT !.token = c, !.expired = FALSE]
           /\ Goes(c, At("quote")) \/ Goes(c, At("IN_PROGRESS"))
  <2> DEFINE r == [record EXCEPT !.token = c, !.expired = FALSE]
  <2>1. Nothing /\ UNCHANGED <<inflight, posted>>
    BY <1>0, <1>1 DEF PhaseInv, Reclaim, WalletUnchanged
  <2>2. r \in [phase : Phases, token : Calls \cup {None}, amended : BOOLEAN,
               expired : BOOLEAN, code : {"QUOTE_REFUSED", "TASK_CREATION_FAILED", None}]
    BY <1>0 DEF TypeOK
  <2>3. r.token = c /\ r.phase = "CLAIMED"
    BY <1>0, <1>1 DEF TypeOK
  <2>4. PhaseInv'
    BY <1>1, <2>1, <2>3, NoneAssumption DEF PhaseInv, Nothing, Unreleased
  <2>5. ~Closed
    BY <1>1 DEF Closed
  <2>6. ASSUME NEW p \in {"quote", "IN_PROGRESS"}, Goes(c, At(p)) PROVE IInv'
    <3>1. At(p) \in CallStates
      BY AtType DEF Places, Answers
    <3>2. CallInv(c, At(p))' /\ AnswerInv(At(p))'
      BY <2>1 DEF CallInv, AnswerInv, At, Nothing
    <3>3. record' = r
      BY <1>1
    <3> HIDE DEF r
    <3> QED
      BY <1>1, <2>1, <2>2, <2>3, <2>4, <2>5, <2>6, <3>1, <3>2, <3>3, RecordStep
  <2> QED
    BY <1>1, <2>6
<1>2. CASE UNCHANGED record /\ \E p \in {"await", "IN_PROGRESS"} : Goes(c, At(p))
  <2>1. PICK p \in {"await", "IN_PROGRESS"} : Goes(c, At(p))
    BY <1>2
  <2> QED
    BY <1>2, <2>1, NoClaim, CallStep DEF Reclaim, WalletUnchanged
<1> QED
  BY <1>1, <1>2 DEF Reclaim, Waiting

LEMMA QuoteInv ==
    ASSUME IInv, NEW c \in Calls, GetQuote(c) \/ ReadClock(c)
    PROVE  IInv'
<1>1. UNCHANGED <<record, inflight, posted>>
  BY DEF GetQuote, ReadClock, WalletUnchanged
<1>2. CASE \E p \in {"refuse", "refusing", "refused"} : Goes(c, At(p))
  <2>1. PICK p \in {"refuse", "refusing", "refused"} : Goes(c, At(p))
    BY <1>2
  <2> QED
    BY <1>1, <2>1, NoClaim, CallStep
<1>3. CASE /\ calls[c].at \in {"quote", "begin"}
           /\ \E p \in {"begin", "beginning", "begun"} : Goes(c, At(p))
  <2>1. PICK p \in {"begin", "beginning", "begun"} : Goes(c, At(p))
    BY <1>3
  <2>2. At(p) \in CallStates
    BY AtType DEF Places
  <2>3. CallInv(c, At(p)) /\ AnswerInv(At(p))
    BY <1>3 DEF IInv, CallInv, AnswerInv, At
  <2> QED
    BY <1>1, <2>1, <2>2, <2>3, CallStep
<1> QED
  BY <1>2, <1>3 DEF GetQuote, ReadClock

\* An owner that changes only the phase and the code of an open record.
LEMMA PhaseStep ==
    ASSUME IInv, NEW c \in Calls, NEW s \in CallStates, Goes(c, s),
           NEW phase \in Phases \ {"NONE"},
           NEW code \in {"QUOTE_REFUSED", "TASK_CREATION_FAILED", None},
           record.token = c, ~Closed,
           record' = [record EXCEPT !.phase = phase, !.code = code],
           UNCHANGED <<inflight, posted>>,
           PhaseInv', CallInv(c, s)', AnswerInv(s)'
    PROVE  IInv'
<1> DEFINE r == [record EXCEPT !.phase = phase, !.code = code]
<1>1. TypeOK
  BY DEF IInv
<1>2. r \in [phase : Phases, token : Calls \cup {None}, amended : BOOLEAN,
             expired : BOOLEAN, code : {"QUOTE_REFUSED", "TASK_CREATION_FAILED", None}]
  BY <1>1 DEF TypeOK
<1>3. r.token = c /\ record' = r
  BY <1>1 DEF TypeOK
<1> HIDE DEF r
<1> QED
  BY <1>2, <1>3, RecordStep

LEMMA RefuseInv ==
    ASSUME IInv, NEW c \in Calls, Refuse(c)
    PROVE  IInv'
<1>0. TypeOK /\ PhaseInv /\ CallInv(c, calls[c])
  BY DEF IInv
<1>1. CASE /\ OwnsClaim(c)
           /\ record' = [record EXCEPT !.phase = "FAILED", !.code = "QUOTE_REFUSED"]
  <2>1. Nothing /\ ~Closed /\ record.token = c
    BY <1>0, <1>1 DEF PhaseInv, OwnsClaim, Closed
  <2>2. record'.phase = "FAILED" /\ record'.code = "QUOTE_REFUSED" /\ record'.token = c
    BY <1>0, <1>1, <2>1 DEF TypeOK
  <2>3. UNCHANGED <<inflight, posted>>
    BY DEF Refuse, WalletUnchanged
  <2>4. PhaseInv'
    BY <2>1, <2>2, <2>3, NoneAssumption DEF PhaseInv, Nothing, Unreleased
  <2>5. ASSUME NEW p \in {"QUOTE_REFUSED", "refused"}, Goes(c, At(p)) PROVE IInv'
    <3>1. At(p) \in CallStates
      BY AtType DEF Places, Answers
    <3>2. CallInv(c, At(p))' /\ AnswerInv(At(p))'
      BY <2>2 DEF CallInv, AnswerInv, At
    <3>3. "FAILED" \in Phases \ {"NONE"}
      BY DEF Phases
    <3> QED
      BY <1>1, <2>1, <2>3, <2>4, <2>5, <3>1, <3>2, <3>3, PhaseStep
  <2> QED
    BY <2>5, <1>1, NoneAssumption DEF Refuse, OwnsClaim
<1>2. CASE UNCHANGED record /\ Goes(c, At("refused"))
  BY <1>2, NoClaim, CallStep DEF Refuse, WalletUnchanged
<1> QED
  BY <1>1, <1>2 DEF Refuse

LEMMA CheckRefusedInv ==
    ASSUME IInv, NEW c \in Calls, CheckRefused(c)
    PROVE  IInv'
<1>1. UNCHANGED <<record, inflight, posted>>
  BY DEF CheckRefused, WalletUnchanged
<1>2. CASE \E p \in {"IN_PROGRESS", "consume"} : Goes(c, At(p))
  <2>1. PICK p \in {"IN_PROGRESS", "consume"} : Goes(c, At(p))
    BY <1>2
  <2> QED
    BY <1>1, <2>1, NoClaim, CallStep
<1>3. CASE /\ record.phase = "FAILED" /\ record.code = "QUOTE_REFUSED"
           /\ Goes(c, At("QUOTE_REFUSED"))
  <2>1. At("QUOTE_REFUSED") \in CallStates
    BY AtType DEF Places, Answers
  <2>2. CallInv(c, At("QUOTE_REFUSED")) /\ AnswerInv(At("QUOTE_REFUSED"))
    BY <1>3 DEF CallInv, AnswerInv, At
  <2> QED
    BY <1>1, <1>3, <2>1, <2>2, CallStep
<1> QED
  BY <1>2, <1>3 DEF CheckRefused, Consuming

LEMMA BeginInv ==
    ASSUME IInv, NEW c \in Calls, Begin(c)
    PROVE  IInv'
<1>0. TypeOK /\ PhaseInv /\ CallInv(c, calls[c])
  BY DEF IInv
<1>1. CASE /\ OwnsClaim(c)
           /\ record' = [record EXCEPT !.phase = "RESERVE_REQUESTED"]
  <2>1. Nothing /\ ~Closed /\ record.token = c
    BY <1>0, <1>1 DEF PhaseInv, OwnsClaim, Closed
  <2>2. /\ record'.phase = "RESERVE_REQUESTED" /\ record'.token = c
        /\ record' = [record EXCEPT !.phase = "RESERVE_REQUESTED", !.code = record.code]
    BY <1>0, <1>1, <2>1 DEF TypeOK
  <2>3. UNCHANGED <<inflight, posted>>
    BY DEF Begin, WalletUnchanged
  <2>4. PhaseInv'
    BY <2>1, <2>2, <2>3, NoneAssumption DEF PhaseInv, Nothing, Unreleased
  <2>5. ASSUME NEW p \in {"reserve", "begun"}, Goes(c, At(p)) PROVE IInv'
    <3>1. At(p) \in CallStates
      BY AtType DEF Places
    <3>2. CallInv(c, At(p))' /\ AnswerInv(At(p))'
      BY <2>1, <2>2, <2>3 DEF CallInv, AnswerInv, At, Nothing
    <3>3. /\ "RESERVE_REQUESTED" \in Phases \ {"NONE"}
          /\ record.code \in {"QUOTE_REFUSED", "TASK_CREATION_FAILED", None}
      BY <1>0 DEF Phases, Repairable, TypeOK
    <3> QED
      BY <2>1, <2>2, <2>3, <2>4, <2>5, <3>1, <3>2, <3>3, PhaseStep
  <2> QED
    BY <2>5, <1>1 DEF Begin, OwnsClaim
<1>2. CASE UNCHANGED record /\ Goes(c, At("begun")) /\ calls[c].at = "beginning"
  <2>1. At("begun") \in CallStates
    BY AtType DEF Places
  <2>2. CallInv(c, At("begun")) /\ AnswerInv(At("begun"))
    BY <1>0, <1>2 DEF CallInv, AnswerInv, At
  <2> QED
    BY <1>2, <2>1, <2>2, CallStep DEF Begin, WalletUnchanged
<1> QED
  BY <1>1, <1>2 DEF Begin

LEMMA CheckBegunInv ==
    ASSUME IInv, NEW c \in Calls, CheckBegun(c)
    PROVE  IInv'
<1>1. UNCHANGED <<record, inflight, posted>>
  BY DEF CheckBegun, WalletUnchanged
<1>2. CASE \E p \in {"IN_PROGRESS", "consume"} : Goes(c, At(p))
  <2>1. PICK p \in {"IN_PROGRESS", "consume"} : Goes(c, At(p))
    BY <1>2
  <2> QED
    BY <1>1, <2>1, NoClaim, CallStep
<1>3. CASE /\ calls[c].at = "begun"
           /\ record.token = c /\ record.phase = "RESERVE_REQUESTED"
           /\ Goes(c, At("reserve"))
  <2>1. At("reserve") \in CallStates
    BY AtType DEF Places
  <2>2. CallInv(c, At("reserve")) /\ AnswerInv(At("reserve"))
    BY <1>3 DEF IInv, CallInv, AnswerInv, At
  <2> QED
    BY <1>1, <1>3, <2>1, <2>2, CallStep
<1> QED
  BY <1>2, <1>3 DEF CheckBegun, Consuming

-----------------------------------------------------------------------------
(* The wallet.                                                             *)

LEMMA ReserveInv ==
    ASSUME IInv, NEW c \in Calls, Reserve(c)
    PROVE  IInv'
<1>0. TypeOK /\ PhaseInv /\ WalletInv /\ CallInv(c, calls[c])
  BY DEF IInv
<1>1. /\ record.token = c /\ Nothing
      /\ record.phase \in {"RESERVE_REQUESTED", "REPAIR_REQUIRED"}
  BY <1>0 DEF Reserve, CallInv
<1>2. /\ inflight' = {"reserve"} /\ posted' = {} /\ record' = record
      /\ Goes(c, At("reserving"))
  BY <1>1 DEF Reserve, Nothing
<1>3. PhaseInv' /\ WalletInv'
  BY <1>0, <1>1, <1>2 DEF PhaseInv, WalletInv
<1>4. At("reserving") \in CallStates
  BY AtType DEF Places
<1>5. CallInv(c, At("reserving"))' /\ AnswerInv(At("reserving"))'
  BY <1>1, <1>2 DEF CallInv, AnswerInv, At, Unreleased
<1> QED
  BY <1>1, <1>2, <1>3, <1>4, <1>5, SendStep DEF Nothing

LEMMA ReleaseInv ==
    ASSUME IInv, NEW c \in Calls, Release(c)
    PROVE  IInv'
<1>0. TypeOK /\ PhaseInv /\ WalletInv /\ CallInv(c, calls[c])
  BY DEF IInv
<1>1. /\ record.token = c /\ "reserve" \in posted /\ Unreleased
      /\ record.phase \in {"COMPENSATION_REQUESTED", "REPAIR_REQUIRED"}
  BY <1>0 DEF Release, CallInv
<1>2. /\ inflight' = inflight \cup {"release"} /\ posted' = posted /\ record' = record
      /\ Goes(c, At("releasing"))
  BY DEF Release
<1>3. PhaseInv' /\ WalletInv'
  BY <1>0, <1>1, <1>2 DEF PhaseInv, WalletInv, Unreleased
<1>4. At("releasing") \in CallStates
  BY AtType DEF Places
<1>5. CallInv(c, At("releasing"))' /\ AnswerInv(At("releasing"))'
  BY <1>1, <1>2 DEF CallInv, AnswerInv, At
<1>6. inflight' \subseteq {"reserve", "release"}
  BY <1>0, <1>2 DEF TypeOK
<1> QED
  BY <1>1, <1>2, <1>3, <1>4, <1>5, <1>6, SendStep

LEMMA AnsweredInv ==
    ASSUME IInv, NEW c \in Calls, ReserveAnswered(c) \/ ReleaseAnswered(c)
    PROVE  IInv'
<1>0. TypeOK /\ CallInv(c, calls[c])
  BY DEF IInv
<1>1. UNCHANGED <<record, inflight, posted>>
  BY DEF ReserveAnswered, ReleaseAnswered, WalletUnchanged
<1>2. CASE \E f \in {"RESERVE_REQUESTED", "COMPENSATION_REQUESTED"} :
               Goes(c, Repairing(f, c))
  <2>1. PICK f \in {"RESERVE_REQUESTED", "COMPENSATION_REQUESTED"} :
               Goes(c, Repairing(f, c))
    BY <1>2
  <2>2. f \in Phases /\ f \in Repairable
    BY DEF Phases, Repairable
  <2>3. Repairing(f, c) \in CallStates
    BY <2>2, RepairingType
  <2>4. CallInv(c, Repairing(f, c)) /\ AnswerInv(Repairing(f, c))
    BY <2>2 DEF CallInv, AnswerInv, Repairing
  <2> QED
    BY <1>1, <2>1, <2>3, <2>4, CallStep
<1>3. CASE /\ ReserveAnswered(c) /\ "reserve" \in posted
           /\ Goes(c, Advancing("RESERVE_REQUESTED", "RESERVED"))
  <2> DEFINE s == Advancing("RESERVE_REQUESTED", "RESERVED")
  <2>1. s \in CallStates
    BY AdvancingType DEF Phases, Repairable
  <2>2. CallInv(c, s) /\ AnswerInv(s)
    BY <1>0, <1>3 DEF ReserveAnswered, CallInv, AnswerInv, Advancing, Moves
  <2> HIDE DEF s
  <2>3. Goes(c, s)
    BY <1>3 DEF s
  <2> QED
    BY <1>1, <2>1, <2>2, <2>3, CallStep
<1>4. CASE /\ ReleaseAnswered(c) /\ "release" \in posted
           /\ Goes(c, Advancing("COMPENSATION_REQUESTED", "COMPENSATED"))
  <2> DEFINE s == Advancing("COMPENSATION_REQUESTED", "COMPENSATED")
  <2>1. s \in CallStates
    BY AdvancingType DEF Phases, Repairable
  <2>2. CallInv(c, s) /\ AnswerInv(s)
    BY <1>0, <1>4 DEF ReleaseAnswered, CallInv, AnswerInv, Advancing, Moves
  <2> HIDE DEF s
  <2>3. Goes(c, s)
    BY <1>4 DEF s
  <2> QED
    BY <1>1, <2>1, <2>2, <2>3, CallStep
<1> QED
  BY <1>2, <1>3, <1>4 DEF ReserveAnswered, ReleaseAnswered

LEMMA LandInv ==
    ASSUME IInv, NEW command \in {"reserve", "release"}, Land(command)
    PROVE  IInv'
<1>0. TypeOK /\ PhaseInv /\ WalletInv
  BY DEF IInv
<1>1. /\ command \in inflight
      /\ inflight' = inflight \ {command}
      /\ posted' = posted \cup {command} \/ posted' = posted
      /\ record' = record /\ calls' = calls
  BY DEF Land
<1>2. TypeOK'
  BY <1>0, <1>1 DEF TypeOK
<1>3. WalletInv'
  BY <1>0, <1>1 DEF WalletInv, TypeOK
<1>4. PhaseInv'
  BY <1>0, <1>1 DEF PhaseInv, Nothing, Unreleased
<1>5. ASSUME NEW c \in Calls PROVE CallInv(c, calls[c])' /\ AnswerInv(calls[c])'
  <2>1. CallInv(c, calls[c]) /\ AnswerInv(calls[c])
    BY DEF IInv
  <2> QED
    BY <1>1, <2>1 DEF CallInv, AnswerInv, Nothing, Unreleased
<1> QED
  BY <1>2, <1>3, <1>4, <1>5 DEF IInv
-----------------------------------------------------------------------------
(* The owner's progress.                                                   *)

LEMMA AdvanceInv ==
    ASSUME IInv, NEW c \in Calls, Advance(c)
    PROVE  IInv'
<1>0. TypeOK /\ PhaseInv /\ WalletInv /\ CallInv(c, calls[c]) /\ calls[c] \in CallStates
  BY DEF IInv, TypeOK, CallStates
<1>1. PICK from, to : /\ calls[c].from = from /\ calls[c].to = to
                      /\ <<from, to>> \in Moves
  BY <1>0 DEF Advance, CallInv
<1>2. /\ record.token = c /\ "reserve" \in posted
      /\ IF to = "COMPENSATED" THEN "release" \in posted ELSE Unreleased
  BY <1>0, <1>1 DEF Advance, CallInv
<1>3. PICK s \in CallStates : /\ s = [calls[c] EXCEPT !.at = "advanced"]
                              /\ s.at = "advanced" /\ s.from = from /\ s.to = to
  <2> DEFINE e == [calls[c] EXCEPT !.at = "advanced"]
  <2>1. e \in CallStates /\ e.at = "advanced" /\ e.from = from /\ e.to = to
    BY <1>0, <1>1 DEF CallStates, Places
  <2> QED
    BY <2>1
<1>4. CASE UNCHANGED record /\ Goes(c, s)
  <2>1. CallInv(c, s) /\ AnswerInv(s)
    BY <1>1, <1>2, <1>3 DEF CallInv, AnswerInv
  <2> QED
    BY <1>4, <2>1, CallStep DEF Advance, WalletUnchanged
<1>5. CASE Owns(c, from) /\ record' = [record EXCEPT !.phase = to]
  <2>1. /\ record'.phase = to /\ record'.token = c /\ record'.code = record.code
        /\ record' = [record EXCEPT !.phase = to, !.code = record.code]
    BY <1>0, <1>2, <1>5 DEF TypeOK
  <2>2. record.phase = from /\ ~Closed /\ UNCHANGED <<inflight, posted>>
    BY <1>1, <1>5 DEF Owns, Closed, Moves, Advance, WalletUnchanged
  <2>3. to \in Phases \ {"NONE"} /\ record.code \in {"QUOTE_REFUSED", "TASK_CREATION_FAILED", None}
    BY <1>0, <1>1, MovesType DEF TypeOK, Repairable
  <2>4. PhaseInv'
    BY <1>1, <1>2, <2>1, <2>2, NoneAssumption DEF PhaseInv, Moves, Nothing, Unreleased
  <2>5. CASE Goes(c, After(to))
    <3>1. After(to) \in CallStates
      BY <1>1, AfterType
    <3>2. CallInv(c, After(to))' /\ AnswerInv(After(to))'
      BY <1>1, <1>2, <2>1, <2>2 DEF CallInv, AnswerInv, After, At, Advancing, Moves, Unreleased
    <3> QED
      BY <1>2, <2>1, <2>2, <2>3, <2>4, <2>5, <3>1, <3>2, PhaseStep
  <2>6. CASE Goes(c, s)
    <3>1. CallInv(c, s)' /\ AnswerInv(s)'
      BY <1>1, <1>2, <1>3, <2>1, <2>2 DEF CallInv, AnswerInv, Unreleased
    <3> QED
      BY <1>2, <2>1, <2>2, <2>3, <2>4, <2>6, <3>1, PhaseStep
  <2> QED
    BY <1>1, <1>3, <1>5, <2>5, <2>6 DEF Advance
<1> QED
  BY <1>1, <1>3, <1>4, <1>5 DEF Advance

LEMMA CheckAdvancedInv ==
    ASSUME IInv, NEW c \in Calls, CheckAdvanced(c)
    PROVE  IInv'
<1> DEFINE from == calls[c].from
           to == calls[c].to
<1>0. CallInv(c, calls[c]) /\ UNCHANGED <<record, inflight, posted>>
  BY DEF IInv, CheckAdvanced, WalletUnchanged
<1>1. /\ record.token = c /\ "reserve" \in posted /\ <<from, to>> \in Moves
      /\ IF to = "COMPENSATED" THEN "release" \in posted ELSE Unreleased
  BY <1>0 DEF CheckAdvanced, CallInv
<1>2. After(to) \in CallStates /\ Without(to) \in CallStates
  BY <1>1, AfterType
<1>3. CASE Goes(c, Consuming)
  BY <1>0, <1>3, NoClaim, CallStep DEF Consuming
<1>4. CASE Goes(c, Without(to))
  <2>1. CallInv(c, Without(to)) /\ AnswerInv(Without(to))
    BY <1>1 DEF CallInv, AnswerInv, Without, At, Advancing, Moves
  <2> QED
    BY <1>0, <1>2, <1>4, <2>1, CallStep
<1>5. CASE Owns(c, to) /\ Goes(c, After(to))
  <2>1. CallInv(c, After(to)) /\ AnswerInv(After(to))
    BY <1>1, <1>5 DEF CallInv, AnswerInv, After, At, Advancing, Moves, Owns
  <2> QED
    BY <1>0, <1>2, <1>5, <2>1, CallStep
<1> QED
  BY <1>3, <1>4, <1>5 DEF CheckAdvanced

LEMMA PersistInv ==
    ASSUME IInv, NEW c \in Calls, Persist(c)
    PROVE  IInv'
<1>0. TypeOK /\ PhaseInv /\ CallInv(c, calls[c])
  BY DEF IInv
<1>1. record.token = c /\ "reserve" \in posted /\ Unreleased
  BY <1>0 DEF Persist, CallInv
<1>2. UNCHANGED <<inflight, posted>> /\ At("persisted") \in CallStates
      /\ At("QUEUED") \in CallStates
  BY AtType DEF Persist, WalletUnchanged, Places, Answers
<1>3. CASE Owns(c, "RESERVED") /\ record' = [record EXCEPT !.phase = "SUCCEEDED"]
  <2>1. /\ record'.phase = "SUCCEEDED" /\ record'.token = c /\ record'.code = record.code
        /\ record' = [record EXCEPT !.phase = "SUCCEEDED", !.code = record.code]
    BY <1>0, <1>1, <1>3 DEF TypeOK
  <2>2. ~Closed
    BY <1>3 DEF Owns, Closed
  <2>3. /\ "SUCCEEDED" \in Phases \ {"NONE"}
        /\ record.code \in {"QUOTE_REFUSED", "TASK_CREATION_FAILED", None}
    BY <1>0 DEF TypeOK, Phases
  <2>4. PhaseInv'
    BY <1>1, <1>2, <2>1, NoneAssumption DEF PhaseInv, Unreleased
  <2>5. ASSUME NEW p \in {"QUEUED", "persisted"}, Goes(c, At(p)) PROVE IInv'
    <3>1. CallInv(c, At(p))' /\ AnswerInv(At(p))' /\ At(p) \in CallStates
      BY <1>1, <1>2, <2>1 DEF CallInv, AnswerInv, At, Unreleased
    <3> QED
      BY <1>1, <1>2, <2>1, <2>2, <2>3, <2>4, <2>5, <3>1, PhaseStep
  <2> QED
    BY <1>3, <2>5 DEF Persist
<1>4. CASE UNCHANGED record /\ Goes(c, At("persisted"))
  <2>1. CallInv(c, At("persisted")) /\ AnswerInv(At("persisted"))
    BY <1>1 DEF CallInv, AnswerInv, At
  <2> QED
    BY <1>2, <1>4, <2>1, CallStep
<1> QED
  BY <1>3, <1>4 DEF Persist

LEMMA CheckPersistedInv ==
    ASSUME IInv, NEW c \in Calls, CheckPersisted(c)
    PROVE  IInv'
<1>0. CallInv(c, calls[c]) /\ UNCHANGED <<record, inflight, posted>>
  BY DEF IInv, CheckPersisted, WalletUnchanged
<1>1. CASE Goes(c, At("UNAVAILABLE"))
  BY <1>0, <1>1, NoClaim, CallStep
<1>2. CASE record.phase = "SUCCEEDED" /\ Goes(c, At("QUEUED"))
  <2>1. /\ At("QUEUED") \in CallStates
        /\ CallInv(c, At("QUEUED")) /\ AnswerInv(At("QUEUED"))
    BY <1>2, AtType DEF Places, Answers, CallInv, AnswerInv, At
  <2> QED
    BY <1>0, <1>2, <2>1, CallStep
<1>3. CASE Goes(c, Advancing("RESERVED", "PERSISTENCE_FAILED"))
  <2> DEFINE s == Advancing("RESERVED", "PERSISTENCE_FAILED")
  <2>1. s \in CallStates
    BY AdvancingType DEF Phases, Repairable
  <2>2. CallInv(c, s) /\ AnswerInv(s)
    BY <1>0 DEF CheckPersisted, CallInv, AnswerInv, Advancing, Moves
  <2> HIDE DEF s
  <2>3. Goes(c, s)
    BY <1>3 DEF s
  <2> QED
    BY <1>0, <2>1, <2>2, <2>3, CallStep
<1> QED
  BY <1>1, <1>2, <1>3 DEF CheckPersisted

LEMMA FinishInv ==
    ASSUME IInv, NEW c \in Calls, Finish(c)
    PROVE  IInv'
<1>0. TypeOK /\ PhaseInv /\ WalletInv /\ CallInv(c, calls[c])
  BY DEF IInv
<1>1. record.token = c /\ "release" \in posted /\ inflight = {}
  BY <1>0 DEF Finish, CallInv, WalletInv, TypeOK
<1>2. UNCHANGED <<inflight, posted>> /\ At("finished") \in CallStates
      /\ At("TASK_CREATION_FAILED") \in CallStates
  BY AtType DEF Finish, WalletUnchanged, Places, Answers
<1>3. CASE /\ Owns(c, "COMPENSATED")
           /\ record' = [record EXCEPT !.phase = "FAILED", !.code = "TASK_CREATION_FAILED"]
  <2>1. record'.phase = "FAILED" /\ record'.token = c /\ record'.code = "TASK_CREATION_FAILED"
    BY <1>0, <1>1, <1>3 DEF TypeOK
  <2>2. ~Closed
    BY <1>3 DEF Owns, Closed
  <2>3. "FAILED" \in Phases \ {"NONE"}
    BY DEF Phases
  <2>4. PhaseInv'
    BY <1>1, <1>2, <2>1, NoneAssumption DEF PhaseInv
  <2>5. ASSUME NEW p \in {"TASK_CREATION_FAILED", "finished"}, Goes(c, At(p)) PROVE IInv'
    <3>1. CallInv(c, At(p))' /\ AnswerInv(At(p))' /\ At(p) \in CallStates
      BY <1>1, <1>2, <2>1 DEF CallInv, AnswerInv, At
    <3> QED
      BY <1>1, <1>2, <1>3, <2>2, <2>3, <2>4, <2>5, <3>1, PhaseStep
  <2> QED
    BY <1>3, <2>5 DEF Finish
<1>4. CASE UNCHANGED record /\ Goes(c, At("finished"))
  <2>1. CallInv(c, At("finished")) /\ AnswerInv(At("finished"))
    BY <1>1 DEF CallInv, AnswerInv, At
  <2> QED
    BY <1>2, <1>4, <2>1, CallStep
<1> QED
  BY <1>3, <1>4 DEF Finish

LEMMA CheckFinishedInv ==
    ASSUME IInv, NEW c \in Calls, CheckFinished(c)
    PROVE  IInv'
<1>0. UNCHANGED <<record, inflight, posted>>
  BY DEF CheckFinished, WalletUnchanged
<1>1. CASE \E p \in {"UNAVAILABLE", "consume"} : Goes(c, At(p))
  <2>1. PICK p \in {"UNAVAILABLE", "consume"} : Goes(c, At(p))
    BY <1>1
  <2> QED
    BY <1>0, <2>1, NoClaim, CallStep
<1>2. CASE /\ record.phase = "FAILED" /\ record.code = "TASK_CREATION_FAILED"
           /\ Goes(c, At("TASK_CREATION_FAILED"))
  <2>1. At("TASK_CREATION_FAILED") \in CallStates
    BY AtType DEF Places, Answers
  <2>2. /\ CallInv(c, At("TASK_CREATION_FAILED"))
        /\ AnswerInv(At("TASK_CREATION_FAILED"))
    BY <1>2 DEF CallInv, AnswerInv, At
  <2> QED
    BY <1>0, <1>2, <2>1, <2>2, CallStep
<1> QED
  BY <1>1, <1>2 DEF CheckFinished, Consuming
-----------------------------------------------------------------------------
(* Waiting and repair.                                                     *)

LEMMA AwaitInv ==
    ASSUME IInv, NEW c \in Calls, Await(c)
    PROVE  IInv'
<1>0. TypeOK /\ PhaseInv /\ UNCHANGED <<record, inflight, posted>>
  BY DEF IInv, Await, WalletUnchanged
<1>1. CASE Closed /\ Goes(c, AnswerOfRecord)
  <2>1. AnswerOfRecord \in CallStates
    BY <1>0, <1>1, AtType DEF AnswerOfRecord, Closed, PhaseInv, Places, Answers
  <2>2. CallInv(c, AnswerOfRecord) /\ AnswerInv(AnswerOfRecord)
    BY <1>0, <1>1 DEF CallInv, AnswerInv, AnswerOfRecord, At, Closed, PhaseInv
  <2> QED
    BY <1>0, <1>1, <2>1, <2>2, CallStep
<1>2. CASE \E p \in {"IN_PROGRESS", "UNAVAILABLE"} : Goes(c, At(p))
  <2>1. PICK p \in {"IN_PROGRESS", "UNAVAILABLE"} : Goes(c, At(p))
    BY <1>2
  <2> QED
    BY <1>0, <2>1, NoClaim, CallStep
<1>3. CASE Stalled(record.phase) /\ Goes(c, Repairing(record.phase, record.token))
  <2>1. /\ record.phase \in Repairable /\ record.phase \in Phases
        /\ record.token \in Calls \cup {None}
    BY <1>0, <1>3 DEF Stalled, TypeOK
  <2>2. Repairing(record.phase, record.token) \in CallStates
    BY <2>1, RepairingType
  <2>3. /\ CallInv(c, Repairing(record.phase, record.token))
        /\ AnswerInv(Repairing(record.phase, record.token))
    BY <2>1 DEF CallInv, AnswerInv, Repairing
  <2> QED
    BY <1>0, <1>3, <2>2, <2>3, CallStep
<1> QED
  BY <1>1, <1>2, <1>3 DEF Await

\* Whoever repairs it, an operation whose wallet effect is open stays as the
\* wallet left it.
LEMMA RepairInv ==
    ASSUME IInv, NEW c \in Calls, Repair(c)
    PROVE  IInv'
<1>0. /\ TypeOK /\ PhaseInv /\ WalletInv /\ CallInv(c, calls[c]) /\ calls[c] \in CallStates
      /\ UNCHANGED <<inflight, posted>>
  BY DEF IInv, TypeOK, CallStates, Repair, WalletUnchanged
<1>1. calls[c].at = "repair" /\ calls[c].from \in Repairable
  BY <1>0 DEF Repair, CallInv
<1>2. PICK s \in CallStates : /\ s = [calls[c] EXCEPT !.at = "repaired"]
                              /\ s.at = "repaired" /\ s.from \in Repairable
  <2> DEFINE e == [calls[c] EXCEPT !.at = "repaired"]
  <2>1. e \in CallStates /\ e.at = "repaired" /\ e.from \in Repairable
    BY <1>0, <1>1 DEF CallStates, Places
  <2> QED
    BY <2>1
<1>3. CASE UNCHANGED record /\ Goes(c, s)
  <2>1. CallInv(c, s) /\ AnswerInv(s)
    BY <1>2 DEF CallInv, AnswerInv
  <2> QED
    BY <1>0, <1>3, <2>1, CallStep
<1>4. CASE RepairApplies(c) /\ record' = [record EXCEPT !.phase = "REPAIR_REQUIRED"]
  <2>1. /\ record'.phase = "REPAIR_REQUIRED" /\ record'.token = record.token
        /\ record.phase \in Repairable
    BY <1>0, <1>1, <1>4 DEF TypeOK, RepairApplies, Owns
  <2>2. PICK t \in CallStates : /\ Goes(c, t)
                                /\ \/ t.at = "REPAIR_REQUIRED"
                                   \/ t.at = "repaired" /\ t.from \in Repairable
    <3>1. At("REPAIR_REQUIRED") \in CallStates /\ At("REPAIR_REQUIRED").at = "REPAIR_REQUIRED"
      BY AtType DEF Places, Answers, At
    <3>2. CASE Goes(c, At("REPAIR_REQUIRED"))
      BY <3>1, <3>2
    <3>3. CASE Goes(c, s)
      BY <1>2, <3>3
    <3> QED
      BY <1>1, <1>2, <1>4, <3>2, <3>3 DEF Repair, RepairApplies, Owns
  <2>3. /\ calls' \in [Calls -> CallStates]
        /\ calls'[c] = t
        /\ \A b \in Calls : b # c => calls'[b] = calls[b]
    BY <1>0, <2>2, GoesType
  <2>4. TypeOK'
    BY <1>0, <1>4, <2>3 DEF TypeOK, CallStates, Phases
  <2>5. PhaseInv' /\ WalletInv'
    BY <1>0, <2>1 DEF PhaseInv, WalletInv, Repairable
  <2>6. ASSUME NEW b \in Calls PROVE CallInv(b, calls[b])' /\ AnswerInv(calls[b])'
    <3>1. CASE b = c
      BY <2>1, <2>2, <2>3, <3>1 DEF CallInv, AnswerInv
    <3>2. CASE b # c
      <4>1. calls'[b] = calls[b] /\ CallInv(b, calls[b]) /\ AnswerInv(calls[b])
        BY <2>3, <3>2 DEF IInv
      <4> QED
        BY <1>0, <2>1, <4>1 DEF CallInv, AnswerInv, Repairable, Nothing, Unreleased
    <3> QED
      BY <3>1, <3>2
  <2> QED
    BY <2>4, <2>5, <2>6 DEF IInv
<1> QED
  BY <1>2, <1>3, <1>4 DEF Repair

LEMMA CheckRepairedInv ==
    ASSUME IInv, NEW c \in Calls, CheckRepaired(c)
    PROVE  IInv'
<1>0. UNCHANGED <<record, inflight, posted>>
  BY DEF CheckRepaired, WalletUnchanged
<1>1. CASE \E p \in {"UNAVAILABLE", "consume"} : Goes(c, At(p))
  <2>1. PICK p \in {"UNAVAILABLE", "consume"} : Goes(c, At(p))
    BY <1>1
  <2> QED
    BY <1>0, <2>1, NoClaim, CallStep
<1>2. CASE record.phase = "REPAIR_REQUIRED" /\ Goes(c, At("REPAIR_REQUIRED"))
  <2>1. /\ At("REPAIR_REQUIRED") \in CallStates
        /\ CallInv(c, At("REPAIR_REQUIRED")) /\ AnswerInv(At("REPAIR_REQUIRED"))
    BY <1>2, AtType DEF Places, Answers, CallInv, AnswerInv, At
  <2> QED
    BY <1>0, <1>2, <2>1, CallStep
<1> QED
  BY <1>1, <1>2 DEF CheckRepaired, Consuming

LEMMA CrashInv ==
    ASSUME IInv, NEW c \in Calls, Crash(c)
    PROVE  IInv'
BY NoClaim, CallStep DEF Crash, WalletUnchanged

LEMMA ExpireInv ==
    ASSUME IInv, Expire
    PROVE  IInv'
<1>1. TypeOK /\ PhaseInv /\ WalletInv
  BY DEF IInv
<1>2. /\ record' = [record EXCEPT !.expired = TRUE]
      /\ UNCHANGED <<calls, inflight, posted>>
  BY DEF Expire
<1>3. /\ record'.phase = record.phase /\ record'.token = record.token
      /\ record'.code = record.code
  BY <1>1, <1>2 DEF TypeOK
<1>4. TypeOK'
  BY <1>1, <1>2 DEF TypeOK
<1>5. PhaseInv' /\ WalletInv'
  BY <1>1, <1>2, <1>3 DEF PhaseInv, WalletInv, Nothing, Unreleased
<1>6. ASSUME NEW c \in Calls PROVE CallInv(c, calls[c])' /\ AnswerInv(calls[c])'
  <2>1. CallInv(c, calls[c]) /\ AnswerInv(calls[c])
    BY DEF IInv
  <2> QED
    BY <1>2, <1>3, <2>1 DEF CallInv, AnswerInv, Nothing, Unreleased
<1> QED
  BY <1>4, <1>5, <1>6 DEF IInv

LEMMA NextInv == IInv /\ [Next]_vars => IInv'
<1> SUFFICES ASSUME IInv, [Next]_vars PROVE IInv'
  OBVIOUS
<1>1. ASSUME NEW c \in Calls, Step(c) PROVE IInv'
  BY <1>1, ClaimInv, ReclaimInv, QuoteInv, RefuseInv, CheckRefusedInv, BeginInv,
     CheckBegunInv, ReserveInv, ReleaseInv, AnsweredInv, AdvanceInv, CheckAdvancedInv,
     PersistInv, CheckPersistedInv, FinishInv, CheckFinishedInv, AwaitInv, RepairInv,
     CheckRepairedInv
  DEF Step
<1>2. ASSUME NEW c \in Calls, Crash(c) PROVE IInv'
  BY <1>2, CrashInv
<1>3. ASSUME NEW command \in {"reserve", "release"}, Land(command) PROVE IInv'
  BY <1>3, LandInv
<1>4. CASE Expire
  BY <1>4, ExpireInv
<1>5. CASE UNCHANGED vars
  BY <1>5 DEF vars, IInv, TypeOK, PhaseInv, WalletInv, CallInv, AnswerInv, Nothing, Unreleased
<1> QED
  BY <1>1, <1>2, <1>3, <1>4, <1>5 DEF Next
-----------------------------------------------------------------------------
(* The theorems.                                                           *)

LEMMA Invariant == Spec => []IInv
BY InitInv, NextInv, PTL DEF Spec

\* The record, the calls and the wallet's commands stay within their types.
THEOREM TypeCorrect == Spec => []TypeOK
<1>1. IInv => TypeOK
  BY DEF IInv
<1> QED
  BY <1>1, Invariant, PTL

\* No reservation is orphaned, however many calls race and die: what the
\* wallet holds, or may yet hold, is a queued task's, an open operation's or
\* an operator's.
THEOREM ReservationsAccounted == Spec => []HoldAccounted
<1>1. IInv => HoldAccounted
  BY DEF IInv, TypeOK, PhaseInv, Nothing, Unreleased, HoldAccounted, Held, Phases
<1> QED
  BY <1>1, Invariant, PTL

\* A task that is queued has its points reserved, and no compensation of any
\* call can still take them away.
THEOREM QueuedTasksAreFunded == Spec => []QueuedIsFunded
<1>1. IInv => QueuedIsFunded
  BY DEF IInv, PhaseInv, Unreleased, QueuedIsFunded
<1> QED
  BY <1>1, Invariant, PTL

\* What one call was answered is never contradicted by what another does.
THEOREM AnswersStand == Spec => []AnswersHold
<1>1. IInv => AnswersHold
  <2> SUFFICES ASSUME IInv, NEW c \in Calls
               PROVE  /\ calls[c].at = "QUEUED" => record.phase = "SUCCEEDED"
                      /\ calls[c].at = "REPAIR_REQUIRED" => record.phase = "REPAIR_REQUIRED"
                      /\ calls[c].at = "QUOTE_REFUSED" =>
                             record.phase = "FAILED" /\ posted = {} /\ inflight = {}
                      /\ calls[c].at = "TASK_CREATION_FAILED" =>
                             record.phase = "FAILED" /\ ~Held /\ inflight = {}
    BY DEF AnswersHold
  <2> QED
    BY DEF IInv, PhaseInv, AnswerInv, Nothing, Held
<1> QED
  BY <1>1, Invariant, PTL

-----------------------------------------------------------------------------
(* Refinement of the promise.                                              *)

\* A call moves no points, and changes the outcome only when it refuses,
\* queues, fails or escalates.
LEMMA StepKeepsFunding ==
    ASSUME IInv, NEW c \in Calls, Step(c) \/ Crash(c)
    PROVE  Funding!Next \/ UNCHANGED Funding!vars
<1>0. TypeOK /\ PhaseInv /\ WalletInv /\ CallInv(c, calls[c])
  BY DEF IInv
<1>1. posted' = posted /\ Hold' = Hold
  BY DEF Step, Claim, Reclaim, GetQuote, ReadClock, Refuse, CheckRefused, Begin, CheckBegun,
         Reserve, ReserveAnswered, Release, ReleaseAnswered, Advance, CheckAdvanced,
         Persist, CheckPersisted, Finish, CheckFinished, Await, Repair, CheckRepaired,
         Crash, WalletUnchanged, Hold
<1>2. CASE /\ OwnsClaim(c)
           /\ record' = [record EXCEPT !.phase = "FAILED", !.code = "QUOTE_REFUSED"]
  <2>1. Outcome = "open" /\ Outcome' = "failed" /\ Hold = "none"
    BY <1>0, <1>2 DEF OwnsClaim, PhaseInv, Nothing, Outcome, Hold, TypeOK
  <2> QED
    BY <1>1, <2>1 DEF Funding!Next, Funding!Fail
<1>3. CASE Owns(c, "RESERVED") /\ record' = [record EXCEPT !.phase = "SUCCEEDED"]
  <2>1. Outcome = "open" /\ Outcome' = "queued" /\ Hold = "held"
    BY <1>0, <1>3 DEF Owns, PhaseInv, Unreleased, Outcome, Hold, TypeOK
  <2> QED
    BY <1>1, <2>1 DEF Funding!Next, Funding!Queue
<1>4. CASE /\ Finish(c) /\ Owns(c, "COMPENSATED")
           /\ record' = [record EXCEPT !.phase = "FAILED", !.code = "TASK_CREATION_FAILED"]
  <2>1. "release" \in posted
    BY <1>0, <1>4 DEF Finish, CallInv
  <2>2. Outcome = "open" /\ Outcome' = "failed" /\ Hold = "returned"
    BY <1>0, <1>4, <2>1 DEF Owns, Outcome, Hold, TypeOK
  <2> QED
    BY <1>1, <2>2 DEF Funding!Next, Funding!Fail
<1>5. CASE /\ Repair(c) /\ RepairApplies(c)
           /\ record' = [record EXCEPT !.phase = "REPAIR_REQUIRED"]
  <2>1. Outcome = "open" /\ Outcome' = "escalated"
    BY <1>0, <1>5 DEF Repair, CallInv, RepairApplies, Owns, Repairable, Outcome, TypeOK
  <2> QED
    BY <1>1, <2>1 DEF Funding!Next, Funding!Escalate
<1>6. ASSUME \/ record' = record
             \/ /\ record.phase \in {"NONE", "CLAIMED"} \cup Repairable
                /\ record'.phase \in {"CLAIMED"} \cup Repairable
      PROVE  UNCHANGED Funding!vars
  <2>1. Outcome' = Outcome
    BY <1>6 DEF Outcome, Repairable
  <2> QED
    BY <1>1, <2>1 DEF Funding!vars
<1>7. CASE Claim(c)
  <2>1. record' = record \/ (record.phase = "NONE" /\ record'.phase = "CLAIMED")
    BY <1>7 DEF Claim
  <2> QED
    BY <1>6, <2>1
<1>8. CASE Reclaim(c)
  <2>1. record' = record \/ (record.phase = "CLAIMED" /\ record'.phase = "CLAIMED")
    BY <1>0, <1>8 DEF Reclaim, TypeOK
  <2> QED
    BY <1>6, <2>1
<1>9. CASE Begin(c)
  <2>1. record' = record \/ (record.phase = "CLAIMED" /\ record'.phase = "RESERVE_REQUESTED")
    BY <1>0, <1>9 DEF Begin, OwnsClaim, TypeOK
  <2> QED
    BY <1>6, <2>1 DEF Repairable
<1>10. CASE Advance(c)
  <2>1. \/ record' = record
        \/ record.phase = calls[c].from /\ record'.phase = calls[c].to
    BY <1>0, <1>10 DEF Advance, Owns, TypeOK
  <2>2. calls[c].from \in Repairable /\ calls[c].to \in Repairable
    BY <1>0, <1>10, MovesType DEF Advance, CallInv
  <2> QED
    BY <1>6, <2>1, <2>2
<1>11. CASE Refuse(c) \/ Persist(c) \/ Finish(c) \/ Repair(c)
  BY <1>2, <1>3, <1>4, <1>5, <1>6, <1>11 DEF Refuse, Persist, Finish, Repair
<1>12. CASE ~(\/ Claim(c) \/ Reclaim(c) \/ Begin(c) \/ Advance(c)
             \/ Refuse(c) \/ Persist(c) \/ Finish(c) \/ Repair(c))
  <2>1. record' = record
    BY <1>12 DEF Step, GetQuote, ReadClock, CheckRefused, CheckBegun, Reserve,
         ReserveAnswered, Release, ReleaseAnswered, CheckAdvanced, CheckPersisted,
         CheckFinished, Await, CheckRepaired, Crash
  <2> QED
    BY <1>6, <2>1
<1> QED
  BY <1>7, <1>8, <1>9, <1>10, <1>11, <1>12

\* A command that lands moves the points of an operation that is still open
\* or an operator's.
LEMMA LandKeepsFunding ==
    ASSUME IInv, NEW command \in {"reserve", "release"}, Land(command)
    PROVE  Funding!Next \/ UNCHANGED Funding!vars
<1>0. TypeOK /\ PhaseInv /\ WalletInv /\ Outcome' = Outcome
  BY DEF IInv, Land, Outcome
<1>1. Outcome \in {"open", "escalated"}
  BY <1>0 DEF Land, Outcome, PhaseInv, WalletInv, Unreleased, Nothing
<1>2. CASE posted' = posted
  BY <1>0, <1>2 DEF Funding!vars, Hold
<1>3. CASE posted' = posted \cup {command} /\ command = "reserve"
  <2>1. Hold = "none" /\ Hold' = "held"
    BY <1>0, <1>3 DEF Land, WalletInv, Hold
  <2> QED
    BY <1>0, <1>1, <2>1 DEF Funding!Next, Funding!Reserve
<1>4. CASE posted' = posted \cup {command} /\ command = "release"
  <2>1. Hold = "held" /\ Hold' = "returned"
    BY <1>0, <1>4 DEF Land, WalletInv, Hold
  <2> QED
    BY <1>0, <1>1, <2>1 DEF Funding!Next, Funding!Return
<1> QED
  BY <1>2, <1>3, <1>4 DEF Land

\* Task creation keeps what TaskFunding promises.
THEOREM CreationKeepsFunding == Spec => KeepsFunding
<1>1. Init => Funding!Init
  BY DEF Init, Funding!Init, Outcome, Hold
<1>2. IInv /\ [Next]_vars => [Funding!Next]_(Funding!vars)
  <2> SUFFICES ASSUME IInv, [Next]_vars PROVE [Funding!Next]_(Funding!vars)
    OBVIOUS
  <2>1. CASE UNCHANGED vars \/ Expire
    <3>1. Outcome' = Outcome /\ Hold' = Hold
      BY <2>1 DEF IInv, TypeOK, vars, Expire, Outcome, Hold
    <3> QED
      BY <3>1 DEF Funding!vars
  <2> QED
    BY <2>1, StepKeepsFunding, LandKeepsFunding DEF Next
<1> QED
  BY <1>1, <1>2, Invariant, PTL DEF Spec, KeepsFunding, Funding!Spec
-----------------------------------------------------------------------------
(* The outbox, from which the event of a created task and those of the     *)
(* other services are published: any number of events, replicas, attempts  *)
(* and faults, for both transports.                                        *)

CONSTANTS EventIds, Poison, Replicas, BatchSize, MaxAttempts, MaxTroubles
VARIABLES transport, rows, queue, replicas, accepted, troubles

Outbox == INSTANCE OutboxDispatch

OutboxRows == [status : {"none", "PENDING", "FAILED", "PUBLISHED"}, attempts : Int,
               holder : Replicas \cup {None}, live : BOOLEAN]

\* The parts of what is kept of a replica.
CallFields == {"at", "batch", "ok"}

\* A replica takes a call for successful only if the broker has its event.
Knows(r) ==
    /\ DOMAIN replicas[r] = CallFields
    /\ replicas[r].ok \in BOOLEAN
    /\ replicas[r].ok => replicas[r].at = "record" /\ Outbox!Current(r) \in accepted

\* What is recorded as published has been accepted.
PublishedIsAccepted == \A e \in EventIds : rows[e].status = "PUBLISHED" => e \in accepted

OutboxInv ==
    /\ rows \in [EventIds -> OutboxRows]
    /\ DOMAIN replicas = Replicas /\ replicas = [r \in Replicas |-> replicas[r]]
    /\ \A r \in Replicas : Knows(r)
    /\ PublishedIsAccepted

\* An update of the outbox: nothing published is taken back, and what becomes
\* published has been accepted.
RowsMove ==
    /\ rows' \in [EventIds -> OutboxRows]
    /\ \A e \in EventIds :
           /\ rows[e].status = "PUBLISHED" => rows'[e].status = "PUBLISHED"
           /\ rows'[e].status = "PUBLISHED" => rows[e].status = "PUBLISHED" \/ e \in accepted

LEMMA RowsMoveKeeps ==
    ASSUME OutboxInv, RowsMove, accepted \subseteq accepted'
    PROVE  rows' \in [EventIds -> OutboxRows] /\ PublishedIsAccepted'
BY DEF OutboxInv, RowsMove, PublishedIsAccepted

\* An update of one row, if there is one.
LEMMA RowMoves ==
    ASSUME OutboxInv, NEW e, NEW q, e \in EventIds => q \in OutboxRows,
           rows' = [rows EXCEPT ![e] = q],
           e \in EventIds /\ rows[e].status = "PUBLISHED" => q.status = "PUBLISHED",
           e \in EventIds /\ q.status = "PUBLISHED"
               => rows[e].status = "PUBLISHED" \/ e \in accepted
    PROVE  RowsMove
<1>1. rows' \in [EventIds -> OutboxRows]
  BY DEF OutboxInv
<1>2. ASSUME NEW f \in EventIds PROVE rows'[f] = IF f = e THEN q ELSE rows[f]
  BY DEF OutboxInv
<1> QED
  BY <1>1, <1>2 DEF RowsMove

LEMMA RowsRest ==
    ASSUME OutboxInv, UNCHANGED rows
    PROVE  RowsMove
BY DEF OutboxInv, RowsMove

\* A replica that goes to a state in which it claims no success.
LEMMA ReplicaMoves ==
    ASSUME OutboxInv, NEW r \in Replicas, NEW s,
           DOMAIN s = CallFields, s.ok \in BOOLEAN,
           replicas' = [replicas EXCEPT ![r] = s],
           accepted \subseteq accepted',
           s.ok => s.at = "record" /\ Head(s.batch).event \in accepted'
    PROVE  /\ DOMAIN replicas' = Replicas /\ replicas' = [q \in Replicas |-> replicas'[q]]
           /\ \A q \in Replicas : Knows(q)'
<1>1. /\ DOMAIN replicas' = Replicas /\ replicas' = [q \in Replicas |-> replicas'[q]]
      /\ replicas'[r] = s
      /\ \A q \in Replicas \ {r} : replicas'[q] = replicas[q]
  BY DEF OutboxInv
<1>2. Knows(r)'
  BY <1>1 DEF Knows, Outbox!Current
<1>3. ASSUME NEW q \in Replicas \ {r} PROVE Knows(q)'
  BY <1>1 DEF OutboxInv, Knows, Outbox!Current
<1> QED
  BY <1>1, <1>2, <1>3

LEMMA ReplicasRest ==
    ASSUME OutboxInv, UNCHANGED replicas, accepted \subseteq accepted'
    PROVE  /\ DOMAIN replicas' = Replicas /\ replicas' = [q \in Replicas |-> replicas'[q]]
           /\ \A q \in Replicas : Knows(q)'
BY DEF OutboxInv, Knows, Outbox!Current

LEMMA NoRowType == Outbox!NoRow \in OutboxRows /\ Outbox!NoRow.status = "none"
BY DEF Outbox!NoRow, OutboxRows

LEMMA OutboxInitially == Outbox!Init => OutboxInv
<1> SUFFICES ASSUME Outbox!Init PROVE OutboxInv
  OBVIOUS
<1>1. rows \in [EventIds -> OutboxRows] /\ PublishedIsAccepted
  BY NoRowType DEF Outbox!Init, PublishedIsAccepted
<1>2. \A r \in Replicas : Knows(r)
  BY DEF Outbox!Init, Outbox!Idle, Knows, CallFields
<1> QED
  BY <1>1, <1>2 DEF OutboxInv, Outbox!Init

\* The result of an attempt is recorded where the row is still the one claimed.
LEMMA RecordedMoves ==
    ASSUME OutboxInv, NEW r \in Replicas, replicas[r].at = "record", Outbox!Recorded(r)
    PROVE  RowsMove
<1> DEFINE e == Outbox!Current(r)
<1> HIDE DEF e
<1>1. CASE UNCHANGED rows
  BY <1>1, RowsRest
<1>2. CASE rows[e].status # "PUBLISHED" /\ replicas[r].ok /\ Outbox!Published(e)
  <2>1. e \in accepted
    BY <1>2 DEF OutboxInv, Knows, e
  <2>2. PICK q : q = [Outbox!NoRow EXCEPT !.status = "PUBLISHED"]
    OBVIOUS
  <2>3. q \in OutboxRows /\ q.status = "PUBLISHED"
    BY <2>2, NoRowType DEF OutboxRows
  <2> QED
    BY <1>2, <2>1, <2>2, <2>3, RowMoves DEF Outbox!Published
<1>3. CASE rows[e].status # "PUBLISHED" /\ Outbox!Failed(e)
  <2>1. CASE rows' = [rows EXCEPT ![e] = [Outbox!NoRow EXCEPT !.status = "FAILED"]]
    <3>1. PICK q : q = [Outbox!NoRow EXCEPT !.status = "FAILED"]
      OBVIOUS
    <3>2. q \in OutboxRows /\ q.status = "FAILED"
      BY <3>1, NoRowType DEF OutboxRows
    <3> QED
      BY <1>3, <2>1, <3>1, <3>2, RowMoves
  <2>2. CASE rows' = [rows EXCEPT ![e].attempts = @ + 1]
    <3>1. PICK q : q = [rows[e] EXCEPT !.attempts = rows[e].attempts + 1]
      OBVIOUS
    <3>2. e \in EventIds => q \in OutboxRows /\ q.status = rows[e].status
      BY <3>1 DEF OutboxInv, OutboxRows
    <3>3. rows' = [rows EXCEPT ![e] = q]
      BY <2>2, <3>1
    <3> QED
      BY <1>3, <3>2, <3>3, RowMoves
  <2> QED
    BY <1>3, <2>1, <2>2 DEF Outbox!Failed
<1> QED
  BY <1>1, <1>2, <1>3 DEF Outbox!Recorded, Outbox!Fenced, e

\* Every step of the outbox.
LEMMA OutboxMoves ==
    ASSUME OutboxInv, Outbox!Next
    PROVE  OutboxInv' /\ RowsMove
<1> DEFINE Kept == /\ DOMAIN replicas' = Replicas
                   /\ replicas' = [q \in Replicas |-> replicas'[q]]
                   /\ \A q \in Replicas : Knows(q)'
<1> HIDE DEF Kept
<1>1. ASSUME accepted \subseteq accepted', RowsMove, Kept PROVE OutboxInv' /\ RowsMove
  BY <1>1, RowsMoveKeeps DEF OutboxInv, Kept
<1>2. ASSUME NEW r \in Replicas, NEW s, DOMAIN s = CallFields, s.ok = FALSE,
             replicas' = [replicas EXCEPT ![r] = s], accepted \subseteq accepted'
      PROVE  Kept
  BY <1>2, ReplicaMoves DEF Kept
<1>3. ASSUME UNCHANGED replicas, accepted \subseteq accepted' PROVE Kept
  BY <1>3, ReplicasRest DEF Kept
<1>4. ASSUME NEW e \in EventIds, Outbox!Commit(e) PROVE OutboxInv' /\ RowsMove
  <2>1. RowsMove
    <3>1. PICK q : q = [rows[e] EXCEPT !.status = "PENDING"]
      OBVIOUS
    <3>2. q \in OutboxRows /\ q.status = "PENDING" /\ rows[e].status # "PUBLISHED"
      BY <1>4, <3>1, NoRowType DEF Outbox!Commit, OutboxRows
    <3>3. rows' = [rows EXCEPT ![e] = q]
      BY <1>4, <3>1 DEF Outbox!Commit
    <3> QED
      BY <3>2, <3>3, RowMoves
  <2>2. CASE UNCHANGED replicas
    BY <1>1, <1>3, <1>4, <2>1, <2>2 DEF Outbox!Commit
  <2>3. ASSUME NEW r \in Replicas,
               replicas' = [replicas EXCEPT ![r] = [Outbox!Idle EXCEPT !.at = "claim",
                                                      !.batch = <<Outbox!Entry(e)>>]]
        PROVE  Kept
    <3>1. PICK s : s = [Outbox!Idle EXCEPT !.at = "claim", !.batch = <<Outbox!Entry(e)>>]
      OBVIOUS
    <3>2. DOMAIN s = CallFields /\ s.ok = FALSE
      BY <3>1 DEF Outbox!Idle, CallFields
    <3> QED
      BY <1>2, <1>4, <2>3, <3>1, <3>2 DEF Outbox!Commit
  <2> QED
    BY <1>1, <1>4, <2>1, <2>2, <2>3 DEF Outbox!Commit
<1>5. ASSUME NEW e \in EventIds, Outbox!LeaseEnds(e) PROVE OutboxInv' /\ RowsMove
  <2>1. PICK q : q = [rows[e] EXCEPT !.live = FALSE]
    OBVIOUS
  <2>2. q \in OutboxRows /\ q.status = rows[e].status
    BY <2>1 DEF OutboxInv, OutboxRows
  <2>3. rows' = [rows EXCEPT ![e] = q]
    BY <1>5, <2>1 DEF Outbox!LeaseEnds
  <2>4. RowsMove
    BY <2>2, <2>3, RowMoves DEF OutboxInv, PublishedIsAccepted
  <2> QED
    BY <1>1, <1>3, <1>5, <2>4 DEF Outbox!LeaseEnds
<1>6. ASSUME NEW e \in EventIds, Outbox!BackoffEnds(e) PROVE OutboxInv' /\ RowsMove
  BY <1>1, <1>3, <1>6, RowsRest DEF Outbox!BackoffEnds
<1>7. ASSUME NEW b
      PROVE  DOMAIN Outbox!Rest(b) = CallFields /\ Outbox!Rest(b).ok = FALSE
  <2>1. DOMAIN Outbox!Idle = CallFields /\ Outbox!Idle.ok = FALSE
    BY DEF Outbox!Idle, CallFields
  <2> QED
    BY <2>1 DEF Outbox!Rest
<1>8. ASSUME NEW r \in Replicas, Outbox!Select(r) PROVE OutboxInv' /\ RowsMove
  <2>1. PICK s : s = [Outbox!Idle EXCEPT !.at = Outbox!Next1,
                         !.batch = [i \in DOMAIN Outbox!Batch |-> Outbox!Entry(Outbox!Batch[i])]]
    BY Zenon
  <2>2. DOMAIN s = CallFields /\ s.ok = FALSE
    BY <2>1 DEF Outbox!Idle, CallFields
  <2>3. replicas' = [replicas EXCEPT ![r] = s]
    BY <1>8, <2>1 DEF Outbox!Select
  <2> QED
    BY <1>1, <1>2, <1>8, <2>2, <2>3, RowsRest, Zenon DEF Outbox!Select
<1>9. ASSUME NEW r \in Replicas, Outbox!Claim(r) PROVE OutboxInv' /\ RowsMove
  <2>1. replicas[r].ok = FALSE
    BY <1>9 DEF Outbox!Claim, OutboxInv, Knows
  <2>2. CASE /\ rows' = [rows EXCEPT ![Outbox!Current(r)].holder = r,
                                     ![Outbox!Current(r)].live = TRUE]
             /\ replicas' = [replicas EXCEPT ![r].at = "send"]
    <3> DEFINE e == Outbox!Current(r)
    <3> HIDE DEF e
    <3>1. rows' = [rows EXCEPT ![e].holder = r, ![e].live = TRUE]
      BY <2>2 DEF e
    <3>2. PICK q : q = [rows[e] EXCEPT !.holder = r, !.live = TRUE]
      OBVIOUS
    <3>3. e \in EventIds => q \in OutboxRows /\ q.status = rows[e].status
      BY <3>2 DEF OutboxInv, OutboxRows
    <3>4. rows' = [rows EXCEPT ![e] = q]
      BY <3>1, <3>2
    <3>5. RowsMove
      BY <3>3, <3>4, RowMoves DEF OutboxInv, PublishedIsAccepted
    <3>6. PICK s : s = [replicas[r] EXCEPT !.at = "send"]
      OBVIOUS
    <3>7. DOMAIN s = CallFields /\ s.ok = FALSE
      BY <2>1, <3>6 DEF OutboxInv, Knows, CallFields
    <3>8. replicas' = [replicas EXCEPT ![r] = s]
      BY <2>2, <3>6
    <3> QED
      BY <1>1, <1>2, <1>9, <3>5, <3>7, <3>8 DEF Outbox!Claim
  <2>3. CASE UNCHANGED rows /\ replicas' = [replicas EXCEPT ![r] = Outbox!Rest(@.batch)]
    <3>1. replicas' = [replicas EXCEPT ![r] = Outbox!Rest(replicas[r].batch)]
      BY <2>3
    <3> QED
      BY <1>1, <1>2, <1>7, <1>9, <2>3, <3>1, RowsRest DEF Outbox!Claim
  <2> QED
    BY <1>9, <2>2, <2>3 DEF Outbox!Claim
<1>10. ASSUME NEW r \in Replicas, Outbox!Send(r) PROVE OutboxInv' /\ RowsMove
  <2> DEFINE e == Outbox!Current(r)
  <2> HIDE DEF e
  <2>1. PICK s : s = [replicas[r] EXCEPT !.at = "record", !.ok = e \notin Poison]
    OBVIOUS
  <2>2. /\ DOMAIN s = CallFields
        /\ s.at = "record" /\ s.batch = replicas[r].batch
    BY <2>1 DEF OutboxInv, Knows, CallFields
  <2>3. s.ok = (e \notin Poison)
    BY <2>1, Zenon DEF OutboxInv, Knows, CallFields
  <2>4. s.ok \in BOOLEAN /\ (s.ok <=> e \notin Poison)
    BY <2>3, Zenon
  <2>5. replicas' = [replicas EXCEPT ![r] = s]
    BY <1>10, <2>1, Zenon DEF Outbox!Send, e
  <2>6. accepted' = accepted \cup ({e} \ Poison) /\ UNCHANGED rows
    BY <1>10 DEF Outbox!Send, e
  <2>7. s.ok => Head(s.batch).event \in accepted'
    BY <2>2, <2>4, <2>6 DEF Outbox!Current, e
  <2>8. Kept
    BY <2>2, <2>4, <2>5, <2>6, <2>7, ReplicaMoves DEF Kept
  <2> QED
    BY <1>1, <2>6, <2>8, RowsRest
<1>11. ASSUME NEW r \in Replicas, Outbox!SendFails(r) PROVE OutboxInv' /\ RowsMove
  <2>1. replicas[r].ok = FALSE
    BY <1>11 DEF Outbox!SendFails, OutboxInv, Knows
  <2>2. PICK s : s = [replicas[r] EXCEPT !.at = "record"]
    OBVIOUS
  <2>3. DOMAIN s = CallFields /\ s.ok = FALSE
    BY <2>1, <2>2 DEF OutboxInv, Knows, CallFields
  <2>4. replicas' = [replicas EXCEPT ![r] = s]
    BY <1>11, <2>2 DEF Outbox!SendFails
  <2> QED
    BY <1>1, <1>2, <1>11, <2>3, <2>4, RowsRest DEF Outbox!SendFails
<1>12. ASSUME NEW r \in Replicas, Outbox!Record(r) PROVE OutboxInv' /\ RowsMove
  <2>1. RowsMove
    BY <1>12, RecordedMoves DEF Outbox!Record
  <2>2. replicas' = [replicas EXCEPT ![r] = Outbox!Rest(replicas[r].batch)]
    BY <1>12 DEF Outbox!Record
  <2> QED
    BY <1>1, <1>2, <1>7, <1>12, <2>1, <2>2 DEF Outbox!Record
<1>13. ASSUME NEW r \in Replicas, Outbox!RecordFails(r) PROVE OutboxInv' /\ RowsMove
  <2>1. RowsMove
    BY <1>13, RecordedMoves, RowsRest DEF Outbox!RecordFails
  <2>2. PICK s : s = IF ~Outbox!Leased THEN Outbox!Idle
                     ELSE IF replicas[r].ok THEN [replicas[r] EXCEPT !.ok = FALSE]
                     ELSE Outbox!Rest(replicas[r].batch)
    OBVIOUS
  <2>3. DOMAIN s = CallFields /\ s.ok = FALSE
    <3>1. CASE ~Outbox!Leased
      BY <2>2, <3>1 DEF Outbox!Idle, CallFields
    <3>2. CASE Outbox!Leased /\ replicas[r].ok
      BY <2>2, <3>2 DEF OutboxInv, Knows, CallFields
    <3>3. CASE Outbox!Leased /\ ~replicas[r].ok
      BY <1>7, <2>2, <3>3
    <3> QED
      BY <3>1, <3>2, <3>3
  <2>4. replicas' = [replicas EXCEPT ![r] = s]
    BY <1>13, <2>2 DEF Outbox!RecordFails
  <2> QED
    BY <1>1, <1>2, <1>13, <2>1, <2>3, <2>4 DEF Outbox!RecordFails
<1>14. ASSUME NEW r \in Replicas, Outbox!Die(r) PROVE OutboxInv' /\ RowsMove
  <2>1. DOMAIN Outbox!Idle = CallFields /\ Outbox!Idle.ok = FALSE
    BY DEF Outbox!Idle, CallFields
  <2> QED
    BY <1>1, <1>2, <1>14, <2>1, RowsRest DEF Outbox!Die
<1> QED
  BY <1>4, <1>5, <1>6, <1>8, <1>9, <1>10, <1>11, <1>12, <1>13, <1>14
     DEF Outbox!Next, Outbox!Work

LEMMA OutboxStep == OutboxInv /\ [Outbox!Next]_(Outbox!vars) => OutboxInv' /\ RowsMove
<1> SUFFICES ASSUME OutboxInv, [Outbox!Next]_(Outbox!vars) PROVE OutboxInv' /\ RowsMove
  OBVIOUS
<1>1. CASE UNCHANGED Outbox!vars
  <2>1. UNCHANGED <<rows, replicas, accepted>>
    BY <1>1 DEF Outbox!vars
  <2>2. RowsMove
    BY <2>1, RowsRest
  <2> QED
    BY <2>1, <2>2, RowsMoveKeeps, ReplicasRest DEF OutboxInv
<1> QED
  BY <1>1, OutboxMoves

LEMMA OutboxInvHolds == Outbox!Spec => []OutboxInv
BY OutboxInitially, OutboxStep, PTL DEF Outbox!Spec

\* What any replica records as published the broker has accepted, whichever
\* replicas die, are slow or publish the same rows, and it is never taken back
\* (operations-outbox.dispatcher.ts, http-outbox-transport.ts).
THEOREM PublishedStands ==
    Outbox!Spec => /\ []PublishedIsAccepted
                   /\ [][\A e \in EventIds : rows[e].status = "PUBLISHED"
                                                => rows'[e].status = "PUBLISHED"]_(Outbox!vars)
<1>1. OutboxInv => PublishedIsAccepted
  BY DEF OutboxInv
<1>2. OutboxInv /\ [Outbox!Next]_(Outbox!vars) =>
          [\A e \in EventIds : rows[e].status = "PUBLISHED"
                                  => rows'[e].status = "PUBLISHED"]_(Outbox!vars)
  BY OutboxStep DEF RowsMove
<1> QED
  BY <1>1, <1>2, OutboxInvHolds, PTL DEF Outbox!Spec
=============================================================================
