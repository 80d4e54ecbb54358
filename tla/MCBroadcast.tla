---------------------------- MODULE MCBroadcast ----------------------------
EXTENDS BroadcastExecution, TLC

\* Two batches of one task each, for the same draft.
TwoIds     == {1, 2}
OnePerTask == [t \in TwoIds |-> t]
SameDraft  == [t \in TwoIds |-> "d"]

\* One batch of two tasks, for two drafts.
OneBatch   == [t \in TwoIds |-> 1]
TwoDrafts  == [t \in TwoIds |-> IF t = 1 THEN "d" ELSE "e"]

\* One batch of one task.
OneId      == {1}
OnlyBatch  == [t \in OneId |-> 1]
OnlyDraft  == [t \in OneId |-> "d"]

AnyHost    == [c \in Callers |-> CHOOSE w \in Workers : TRUE]

\* Requests are interchangeable where they are served by the same worker.
CallerSymmetry == Permutations(Callers)
=============================================================================
