------------------------------- MODULE MCWatch -------------------------------
EXTENDS ReorgWatcher
MCTxSpends == <<{"a"}, {"a"}>>
MCCreatedBy == [o \in {"a"} |-> 0]
MCReg == <<{"a"}>>
MCAdd == <<{}>>
MCSeed == <<0>>
MCSat == <<{1}>>
MCThr == <<2>>
MCHint == <<1>>
=============================================================================
