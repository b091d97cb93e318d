------------------------ MODULE MCTopicFinalization ------------------------
EXTENDS TopicFinalization, TLC

CONSTANT MaxTroubles   \* bound: calls, failures and crashes of one behaviour

FewTroubles == calls + sfailures + failures + crashes <= MaxTroubles
MCNext == Next /\ FewTroubles'
MCSpec == Init /\ [][MCNext]_vars
MCFairSpec == MCSpec /\ Fairness

Symmetry == Permutations(Tasks)
=============================================================================
