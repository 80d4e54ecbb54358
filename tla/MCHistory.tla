----------------------------- MODULE MCHistory -----------------------------
EXTENDS BroadcastHistory, TLC

\* Two batches of one task each, for the same draft.
TwoIds     == {1, 2}
OnePerTask == [t \in TwoIds |-> t]
SameDraft  == [t \in TwoIds |-> "d"]

AnyHost    == [c \in Callers |-> CHOOSE w \in Workers : TRUE]
=============================================================================
