----------------------------- MODULE MCForeclose -----------------------------
EXTENDS ReorgWatcher
MCTxSpends == <<{"a"}, {"a"}>>
MCCreatedBy == [o \in {"a", "c"} |-> IF o = "c" THEN 1 ELSE 0]
MCReg == <<{"a"}, {"c"}>>
MCAdd == <<{}, {}>>
MCSeed == <<0, 0>>
MCSat == <<{1, 2}, {}>>
MCThr == <<2, 2>>
MCHint == <<1, 1>>
=============================================================================
