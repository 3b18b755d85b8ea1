----------------------------- MODULE MCDelivery -----------------------------
EXTENDS Delivery, TLC

\* Copies, messages and processes are interchangeable.
Symmetry == Permutations(Copies) \cup Permutations(Messages)
                \cup Permutations(Processes)
=============================================================================
