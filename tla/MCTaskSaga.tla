------------------------------ MODULE MCTaskSaga ------------------------------
(* Instances of TaskSaga for TLC.                                          *)
EXTENDS TaskSaga, TLC

AnyWorker == Permutations(Workers)

\* An asset cheaper than the quote, a cancellation that costs, an inspector as
\* production wires it; nobody cancels yet.
Usual == [settlement |-> 2, charge |-> 1, substitute |-> None, authorized |-> FALSE,
          billing |-> FALSE, cancels |-> FALSE, commands |-> 0]

UserCancelsTwice == {[Usual EXCEPT !.commands = 2]}

\* The asset costs more than the quote, its substitute less.
MayFailOver == {[settlement |-> 4, charge |-> None, substitute |-> 2, authorized |-> TRUE,
                 billing |-> TRUE, cancels |-> TRUE, commands |-> 0]}

EitherCancels == UserCancelsTwice \cup MayFailOver

ProviderCancels == {[Usual EXCEPT !.cancels = TRUE]}

BothCancel == {[Usual EXCEPT !.cancels = TRUE, !.commands = 1]}
=============================================================================
