---------------------- MODULE MCOperationalActions ----------------------
EXTENDS OperationalActions, TLC

Slots == Permutations(Requests) \cup Permutations(AttemptIds)
=========================================================================
