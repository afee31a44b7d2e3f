-------------------------------- MODULE MCBridge --------------------------------
EXTENDS Bridge, TLC

\* Clients are alike, and so are the copies that have the name.
Symmetric == {c @@ d : c \in Permutations(Named), d \in Permutations(Clients)}
=============================================================================
