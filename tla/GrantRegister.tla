--------------------------- MODULE GrantRegister ---------------------------
(***************************************************************************)
(* What the authorization server promises, without processes, requests,    *)
(* statements or time: a register of the codes and tokens handed out.  An  *)
(* item is issued to a client, either on the client's own authority or for *)
(* an item of the register; for an item that is spent there is one access  *)
(* token, then one refresh token with the same scopes, to the same client  *)
(* and within the scopes of the item, and never anything more.             *)
(***************************************************************************)
EXTENDS Naturals, Sequences

CONSTANTS Clients, Scopes

VARIABLE register  \* the items in the order they were handed out

Pair == {"access_token", "refresh_token"}

Init == register = <<>>

Item(kind, client, scopes, spent, from) ==
  [kind |-> kind, client |-> client, scopes |-> scopes, spent |-> spent, from |-> from]

\* A code after consent, or a token for the client's own credentials.
Issue(kind, client, scopes) ==
  register' = Append(register, Item(kind, client, scopes, FALSE, 0))

\* A code or a refresh token is taken in, once and for good.
Spend(g) ==
  /\ register[g].kind # "access_token"
  /\ ~register[g].spent
  /\ register' = [register EXCEPT ![g] = Item(@.kind, @.client, @.scopes, TRUE, @.from)]

\* What has been handed out for g.
Yield(g) == {register[a] : a \in {b \in DOMAIN register : register[b].from = g}}

\* The access token for g.
YieldAccess(g, scopes) ==
  /\ register[g].spent
  /\ Yield(g) = {}
  /\ scopes \subseteq register[g].scopes
  /\ register' = Append(register, Item("access_token", register[g].client, scopes, FALSE, g))

\* The refresh token for g, which completes the pair.
YieldRefresh(g, scopes) ==
  /\ register[g].spent
  /\ Yield(g) = {Item("access_token", register[g].client, scopes, FALSE, g)}
  /\ register' = Append(register, Item("refresh_token", register[g].client, scopes, FALSE, g))

\* One more item is handed out.
HandOut ==
  /\ Len(register') = Len(register) + 1
  /\ \/ \E kind \in Pair \cup {"authorization_code"}, c \in Clients, s \in SUBSET Scopes :
          Issue(kind, c, s)
     \/ \E g \in DOMAIN register, s \in SUBSET Scopes : YieldAccess(g, s) \/ YieldRefresh(g, s)

Next == HandOut \/ \E g \in DOMAIN register : Spend(g)

Spec == Init /\ [][Next]_register

=============================================================================
