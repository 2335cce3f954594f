------------------------------- MODULE OAuth -------------------------------
(***************************************************************************)
(* The authorization server: OAuthProvider of src/mcpgate/auth.py, the     *)
(* oauth_artifacts table of store.py, and the scopes of policy.yaml.       *)
(*                                                                         *)
(* An instance is a server process, or the CLI, on the shared database.    *)
(* It reads the policy once, when it starts, and runs one request of the   *)
(* token endpoint at a time from its first statement to its last; the      *)
(* statements of two instances interleave.                                 *)
(*                                                                         *)
(* A token or code is known by the place of its row in the table: the      *)
(* code draws it at random and never twice.                                *)
(***************************************************************************)
EXTENDS Naturals, Sequences, FiniteSets

CONSTANTS
  Instances,    \* processes on the database
  Clients, Scopes,
  Asked,        \* the scopes a request can ask for, nonempty subsets of Scopes
  Policies,     \* contents policy.yaml can have, [Clients -> SUBSET Scopes]
  CodeTTL, AccessTTL, RefreshTTL,
  RequestTicks, \* bound: how long a request can take
  MaxTime,      \* bound: the clock stops there
  MaxArtifacts  \* bound: no request starts once the table has so many rows

ASSUME OAuthAssumption ==
  /\ Asked \subseteq (SUBSET Scopes) \ {{}}
  /\ Policies \subseteq [Clients -> SUBSET Scopes]
  /\ CodeTTL \in Nat /\ AccessTTL \in Nat /\ RefreshTTL \in Nat
  /\ RequestTicks \in Nat /\ MaxTime \in Nat /\ MaxArtifacts \in Nat

VARIABLES
  now,       \* time.time()
  artifacts, \* oauth_artifacts, in the order of insertion
  policy,    \* the policy each instance has read
  request,   \* the request each instance is serving
  allowed    \* history: when some instance's policy last allowed a scope

vars == <<now, artifacts, policy, request, allowed>>

Idle == [pc |-> "idle"]

NoGrant == 0

-----------------------------------------------------------------------------
(***************************************************************************)
(* Helpers                                                                 *)
(***************************************************************************)

\* When a scope was last allowed to a client, at time t under policies p.
Allowed(p, t) ==
  [c \in Clients |-> [s \in Scopes |->
     IF \E i \in Instances : s \in p[i][c] THEN t ELSE allowed[c][s]]]

\* A client without a scope stands for one the policy does not name.
Known(i, c) == policy[i][c] # {}

\* Policy.authorize_scopes.
MayHold(i, c, scopes) == Known(i, c) /\ scopes \subseteq policy[i][c]

\* Seeded fault: revoked rows are found.
FoundThoughRevoked(a, kind) ==
  /\ a \in DOMAIN artifacts
  /\ artifacts[a].kind = kind
  /\ ~artifacts[a].consumed
  /\ artifacts[a].expires > now

\* The WHERE clause of get_artifact.
Valid(a, kind) ==
  /\ a \in DOMAIN artifacts
  /\ artifacts[a].kind = kind
  /\ ~artifacts[a].revoked /\ ~artifacts[a].consumed
  /\ artifacts[a].expires > now

\* load_access_token accepts the token.
Honoured(a) == Valid(a, "access_token")

\* put_artifact; "grant" is history, the row this one was exchanged for.  The
\* statement is INSERT OR REPLACE (store.py:159); an artifact's token is
\* drawn at random each time, so no row is ever replaced.
Put(kind, client, scopes, ttl, grant) ==
  artifacts' = Append(artifacts,
    [kind |-> kind, client |-> client, scopes |-> scopes, expires |-> now + ttl,
     consumed |-> FALSE, revoked |-> FALSE, grant |-> grant])

HasRoom == Len(artifacts) < MaxArtifacts

Goto(i, pc) == request' = [request EXCEPT ![i].pc = pc]

Init ==
  /\ now = 0
  /\ artifacts = <<>>
  /\ policy \in [Instances -> Policies]
  /\ request = [i \in Instances |-> Idle]
  /\ allowed = [c \in Clients |-> [s \in Scopes |-> 0]]

-----------------------------------------------------------------------------
(***************************************************************************)
(* The endpoints                                                           *)
(***************************************************************************)

\* authorize: the policy allows the scopes, one INSERT.
Authorize(i, c, scopes) ==
  /\ request[i] = Idle /\ HasRoom
  /\ MayHold(i, c, scopes)
  /\ Put("authorization_code", c, scopes, CodeTTL, NoGrant)
  /\ UNCHANGED <<now, policy, request, allowed>>

\* issue_for_client: the policy allows the scopes, a pair will be issued.
IssueForClient(i, c, scopes) ==
  /\ request[i] = Idle /\ HasRoom
  /\ MayHold(i, c, scopes)
  /\ request' = [request EXCEPT ![i] =
       [pc |-> "put access", grant |-> NoGrant, kind |-> "bootstrap",
        client |-> c, scopes |-> scopes, age |-> 0]]
  /\ UNCHANGED <<now, artifacts, policy, allowed>>

\* load_authorization_code and load_refresh_token: the row is valid and the
\* client's; scopes are what a refresh asks for.
Load(i, c, a, kind, scopes) ==
  /\ request[i] = Idle /\ HasRoom
  /\ Known(i, c)
  /\ Valid(a, kind) /\ artifacts[a].client = c
  /\ kind = "authorization_code" => scopes = artifacts[a].scopes
  /\ request' = [request EXCEPT ![i] =
       [pc |-> "select", grant |-> a, kind |-> kind,
        client |-> c, scopes |-> scopes, age |-> 0]]
  /\ UNCHANGED <<now, artifacts, policy, allowed>>

\* get_artifact(consume=True) selects the row once more ...
Select(i) ==
  LET r == request[i]
  IN  /\ r.pc = "select"
      /\ \/ Valid(r.grant, r.kind) /\ Goto(i, "consume")
         \/ ~Valid(r.grant, r.kind) /\ request' = [request EXCEPT ![i] = Idle]
      /\ UNCHANGED <<now, artifacts, policy, allowed>>

\* Seeded fault: a refresh asks the policy only, not the token's scopes.
GrowingGrant(i) ==
  LET r == request[i]
  IN  r.kind = "authorization_code" \/ MayHold(i, r.client, r.scopes)

\* Seeded fault: a refresh asks the token's scopes only, not the policy.
EverlastingGrant(i) ==
  LET r == request[i] IN r.scopes \subseteq artifacts[r.grant].scopes

\* The exchange of the row in hand goes on: a code always, a refresh if its
\* scopes are no more than the token's and the policy allows them now.
Granted(i) ==
  LET r == request[i]
  IN  \/ r.kind = "authorization_code"
      \/ r.scopes \subseteq artifacts[r.grant].scopes /\ MayHold(i, r.client, r.scopes)

\* Seeded fault: the UPDATE does not ask for consumed = 0.
UnguardedConsume(i) ==
  /\ request[i].pc = "consume"
  /\ artifacts' = [artifacts EXCEPT ![request[i].grant].consumed = TRUE]
  /\ \/ Granted(i) /\ Goto(i, "put access")
     \/ ~Granted(i) /\ request' = [request EXCEPT ![i] = Idle]
  /\ UNCHANGED <<now, policy, allowed>>

\* ... and updates it if it is not consumed.  A refresh that is refused for
\* its scopes has spent its token.
Consume(i) ==
  /\ request[i].pc = "consume"
  /\ ~artifacts[request[i].grant].consumed
  /\ artifacts' = [artifacts EXCEPT ![request[i].grant].consumed = TRUE]
  /\ \/ Granted(i) /\ Goto(i, "put access")
     \/ ~Granted(i) /\ request' = [request EXCEPT ![i] = Idle]
  /\ UNCHANGED <<now, policy, allowed>>

\* Another instance has consumed the row: changed != 1.
LoseRace(i) ==
  /\ request[i].pc = "consume"
  /\ artifacts[request[i].grant].consumed
  /\ request' = [request EXCEPT ![i] = Idle]
  /\ UNCHANGED <<now, artifacts, policy, allowed>>

\* Seeded fault: the row keeps the kind of what was presented.
MislabellingPutAccess(i) ==
  LET r == request[i]
  IN  /\ r.pc = "put access"
      /\ Known(i, r.client)
      /\ Put(r.kind, r.client, r.scopes, AccessTTL, r.grant)
      /\ Goto(i, "put refresh")
      /\ UNCHANGED <<now, policy, allowed>>

\* _issue_pair, the access token; it finds the client, which the policy of
\* this process named when the request came in.
PutAccess(i) ==
  LET r == request[i]
  IN  /\ r.pc = "put access"
      /\ Known(i, r.client)
      /\ Put("access_token", r.client, r.scopes, AccessTTL, r.grant)
      /\ Goto(i, "put refresh")
      /\ UNCHANGED <<now, policy, allowed>>

\* Seeded fault: the refresh token keeps every scope of the grant.
RegrowingPutRefresh(i) ==
  LET r == request[i]
  IN  /\ r.pc = "put refresh"
      /\ Put("refresh_token", r.client,
             IF r.grant = NoGrant THEN r.scopes ELSE artifacts[r.grant].scopes,
             RefreshTTL, r.grant)
      /\ request' = [request EXCEPT ![i] = Idle]
      /\ UNCHANGED <<now, policy, allowed>>

\* _issue_pair, the refresh token; the pair goes to the client.
PutRefresh(i) ==
  LET r == request[i]
  IN  /\ r.pc = "put refresh"
      /\ Put("refresh_token", r.client, r.scopes, RefreshTTL, r.grant)
      /\ request' = [request EXCEPT ![i] = Idle]
      /\ UNCHANGED <<now, policy, allowed>>

\* The /revoke endpoint: that token, and not the other one of its pair.
Revoke(i, a) ==
  /\ request[i] = Idle
  /\ Valid(a, "access_token") \/ Valid(a, "refresh_token")
  /\ artifacts' = [artifacts EXCEPT ![a].revoked = TRUE]
  /\ UNCHANGED <<now, policy, request, allowed>>

-----------------------------------------------------------------------------
(***************************************************************************)
(* The world around                                                        *)
(***************************************************************************)

\* Seeded fault: a restarted process gives back what its request had consumed.
ReleasingRestart(i, p) ==
  /\ policy[i] # p \/ request[i] # Idle
  /\ policy' = [policy EXCEPT ![i] = p]
  /\ request' = [request EXCEPT ![i] = Idle]
  /\ artifacts' = [a \in DOMAIN artifacts |-> [artifacts[a] EXCEPT !.consumed =
       @ /\ ~(request[i].pc \in {"put access", "put refresh"} /\ request[i].grant = a)]]
  /\ allowed' = Allowed(policy', now)
  /\ UNCHANGED now

\* The process dies, or is restarted to read an edited policy; its request
\* is lost wherever it was.
Restart(i, p) ==
  /\ policy[i] # p \/ request[i] # Idle
  /\ policy' = [policy EXCEPT ![i] = p]
  /\ request' = [request EXCEPT ![i] = Idle]
  /\ allowed' = Allowed(policy', now)
  /\ UNCHANGED <<now, artifacts>>

\* The code compares with time.time(), the clock of the host: taken not to
\* step back, without which what has expired would be good again.
Tick ==
  /\ now < MaxTime
  /\ \A i \in Instances : request[i] # Idle => request[i].age < RequestTicks
  /\ now' = now + 1
  /\ request' = [i \in Instances |->
       IF request[i] = Idle THEN Idle ELSE [request[i] EXCEPT !.age = @ + 1]]
  /\ allowed' = Allowed(policy, now + 1)
  /\ UNCHANGED <<artifacts, policy>>

Exchangeable == {"authorization_code", "refresh_token"}

Next ==
  \/ \E i \in Instances, c \in Clients, scopes \in Asked :
       \/ Authorize(i, c, scopes)
       \/ IssueForClient(i, c, scopes)
       \/ \E a \in DOMAIN artifacts, kind \in Exchangeable : Load(i, c, a, kind, scopes)
  \/ \E i \in Instances :
       \/ Select(i) \/ Consume(i) \/ LoseRace(i) \/ PutAccess(i) \/ PutRefresh(i)
       \/ \E a \in DOMAIN artifacts : Revoke(i, a)
       \/ \E p \in Policies : Restart(i, p)
  \/ Tick

Spec == Init /\ [][Next]_vars

-----------------------------------------------------------------------------
(***************************************************************************)
(* Properties                                                              *)
(***************************************************************************)
Kinds == {"authorization_code", "access_token", "refresh_token"}

Artifacts ==
  [kind : Kinds, client : Clients, scopes : SUBSET Scopes, expires : Nat,
   consumed : BOOLEAN, revoked : BOOLEAN, grant : 0 .. Len(artifacts)]

Requests ==
  [pc : {"select", "consume", "put access", "put refresh"},
   grant : 0 .. Len(artifacts), kind : Exchangeable \cup {"bootstrap"},
   client : Clients, scopes : SUBSET Scopes, age : 0 .. RequestTicks]

\* The shapes of the variables.
TypeOK ==
  /\ now \in 0 .. MaxTime
  /\ artifacts \in Seq(Artifacts)
  /\ policy \in [Instances -> Policies]
  /\ request \in [Instances -> {Idle} \cup Requests]
  /\ allowed \in [Clients -> [Scopes -> 0 .. MaxTime]]

\* However many instances exchange it at once, a code or a refresh token
\* yields one access token and one refresh token at most (auth.py:30 "Codes
\* and refresh tokens are single-use").
SingleUse ==
  \A a, b \in DOMAIN artifacts :
    /\ artifacts[a].grant # NoGrant
    /\ artifacts[a].grant = artifacts[b].grant
    /\ artifacts[a].kind = artifacts[b].kind
    => a = b

\* What a token was exchanged for is spent, was the same client's, and held
\* every scope the token holds (auth.py:136 "refresh cannot increase scopes").
NoEscalation ==
  \A a \in DOMAIN artifacts : artifacts[a].grant # NoGrant =>
    LET g == artifacts[artifacts[a].grant]
    IN  /\ g.kind \in Exchangeable
        /\ g.consumed
        /\ g.client = artifacts[a].client
        /\ artifacts[a].scopes \subseteq g.scopes

\* A scope taken from a client in policy.yaml, and in no running instance's
\* policy any more, is in no usable access token once a code and an access
\* token could have expired one after the other (the last tick of neither
\* counts), however long the client goes on refreshing.
EditedPolicyHolds ==
  \A a \in DOMAIN artifacts : Honoured(a) =>
    \A s \in artifacts[a].scopes :
      now + 2 <= allowed[artifacts[a].client][s] + CodeTTL + AccessTTL + RequestTicks

\* No token is issued for a refresh token that has been revoked, when one
\* instance serves the endpoints.
RevokedNotRedeemed ==
  [][\A i \in Instances : PutAccess(i) /\ request[i].grant # NoGrant =>
       ~artifacts[request[i].grant].revoked]_vars

\* A code or token that is used, revoked or outlived is never good again,
\* though processes die, or read another policy, in the middle of an exchange
\* (store.py:172-203, of all statements only put_artifact makes a row valid).
NoRevival ==
  [][\A a \in DOMAIN artifacts, kind \in Kinds : ~Valid(a, kind) => ~Valid(a, kind)']_vars

(***************************************************************************)
(* The table as the register of GrantRegister: what a row was issued for,  *)
(* and whether it is consumed.  Requests, processes, expiry and revocation *)
(* have no counterpart there.                                              *)
(***************************************************************************)
Register ==
  [a \in DOMAIN artifacts |->
     [kind |-> artifacts[a].kind, client |-> artifacts[a].client, scopes |-> artifacts[a].scopes,
      spent |-> artifacts[a].consumed, from |-> artifacts[a].grant]]

Promise == INSTANCE GrantRegister WITH register <- Register

\* The processes, their interleaved statements and their crashes together
\* keep the promise of GrantRegister: each statement spends an item, hands one
\* out, or is invisible (auth.py:25-31, the provider's contract).
KeepsPromise == Promise!Spec

=============================================================================
