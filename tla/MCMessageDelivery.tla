-------------------------- MODULE MCMessageDelivery --------------------------
EXTENDS MessageDelivery, TLC

\* Handlers are alike, and so are the messages with an id.
Symmetry == Permutations(Requests) \cup Permutations(Msgs \ Anonymous)
==============================================================================
