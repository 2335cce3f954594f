------------------------------ MODULE MCOAuth ------------------------------
(***************************************************************************)
(* Instances of OAuth for TLC.                                             *)
(***************************************************************************)
EXTENDS OAuth, TLC

EveryScope == SUBSET Scopes \ {{}}
ReadOrAll == {{"read"}, Scopes}
WriteOnly == {{"write"}}

\* The policy never changes, and allows every client every scope.
OnePolicy == {[c \in Clients |-> Scopes]}

\* A scope can be taken from the client and given back.
TwoPolicies == {[c \in Clients |-> Scopes], [c \in Clients |-> {"read"}]}

Symmetry == Permutations(Instances) \cup Permutations(Clients)

=============================================================================
