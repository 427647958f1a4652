----------------------------- MODULE MCGrow -----------------------------
EXTENDS ReorgWatcher
MCTxSpends == <<{"a", "b"}, {"a"}>>
MCCreatedBy == [o \in {"a", "b"} |-> 0]
MCReg == <<{"a"}>>
MCAdd == <<{"b"}>>
MCSeed == <<1>>
MCSat == <<{1, 2}>>
MCThr == <<2>>
MCHint == <<1>>
=============================================================================
