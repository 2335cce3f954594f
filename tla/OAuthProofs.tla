---------------------------- MODULE OAuthProofs ----------------------------
(***************************************************************************)
(* Codes and refresh tokens are single-use, what they are exchanged for is *)
(* no more than they are, and a scope taken from the policy dies out of    *)
(* the usable tokens: for any number of processes, clients, scopes and     *)
(* policies, any interleaving of the statements of concurrent exchanges,   *)
(* and restarts anywhere between them.                                     *)
(***************************************************************************)
EXTENDS OAuth, SequenceTheorems, TLAPS

\* The shapes of the two variables the argument is about.  What they hold of
\* the clock does not matter.
Row ==
  [kind : Kinds, client : Clients, scopes : SUBSET Scopes, expires : Nat,
   consumed : BOOLEAN, revoked : BOOLEAN, grant : Nat]

InService ==
  [pc : {"select", "consume", "put access", "put refresh"},
   grant : Nat, kind : Exchangeable \cup {"bootstrap"},
   client : Clients, scopes : SUBSET Scopes, age : Nat]

Shapes ==
  /\ now \in Nat
  /\ artifacts \in Seq(Row)
  /\ request \in [Instances -> {Idle} \cup InService]

\* The instance has consumed a row and is issuing the pair for it.
Claims(i, a) ==
  /\ request[i].pc \in {"put access", "put refresh"}
  /\ request[i].grant = a
  /\ a # NoGrant

(***************************************************************************)
(* A request knows a row of the table, of its client; one that issues has  *)
(* spent it, and issues no scope it lacks.                                 *)
(***************************************************************************)
Backs(g, r) ==
  /\ r.kind = g.kind
  /\ r.kind \in Exchangeable
  /\ r.client = g.client
  /\ r.kind = "authorization_code" => r.scopes = g.scopes
  /\ r.pc \in {"put access", "put refresh"} => g.consumed /\ r.scopes \subseteq g.scopes

RequestBacked ==
  \A i \in Instances : request[i] # Idle /\ request[i].grant # NoGrant =>
    /\ request[i].grant \in DOMAIN artifacts
    /\ Backs(artifacts[request[i].grant], request[i])

\* Only a row that was presented is exchanged, and only after it is in hand.
BootstrapIssues ==
  \A i \in Instances : request[i] # Idle =>
    (request[i].grant = NoGrant => request[i].pc \in {"put access", "put refresh"})

\* The row a token was exchanged for is in the table.
GrantExists ==
  \A a \in DOMAIN artifacts : artifacts[a].grant # NoGrant =>
    artifacts[a].grant \in DOMAIN artifacts

\* A row is claimed by one instance, which has put into the table what its pc
\* says and nothing else.
ClaimedOnce ==
  \A i \in Instances, a \in DOMAIN artifacts : Claims(i, a) =>
    /\ \A j \in Instances : Claims(j, a) => i = j
    /\ \A b \in DOMAIN artifacts : artifacts[b].grant = a =>
         /\ request[i].pc = "put refresh"
         /\ artifacts[b].kind = "access_token"

IInv ==
  /\ Shapes
  /\ RequestBacked
  /\ BootstrapIssues
  /\ GrantExists
  /\ ClaimedOnce
  /\ SingleUse
  /\ NoEscalation

-----------------------------------------------------------------------------
(***************************************************************************)
(* How the table changes.                                                  *)
(***************************************************************************)

\* No row goes, or changes in what it was issued for; none is un-consumed or
\* un-revoked.
RowsKept ==
  /\ DOMAIN artifacts \subseteq DOMAIN artifacts'
  /\ \A a \in DOMAIN artifacts :
       /\ artifacts'[a].kind = artifacts[a].kind
       /\ artifacts'[a].client = artifacts[a].client
       /\ artifacts'[a].scopes = artifacts[a].scopes
       /\ artifacts'[a].expires = artifacts[a].expires
       /\ artifacts'[a].grant = artifacts[a].grant
       /\ artifacts[a].consumed => artifacts'[a].consumed
       /\ artifacts[a].revoked => artifacts'[a].revoked

LEMMA RowTyped ==
  ASSUME artifacts \in Seq(Row)
  PROVE  /\ Len(artifacts) \in Nat
         /\ DOMAIN artifacts = 1 .. Len(artifacts)
         /\ \A a \in DOMAIN artifacts : artifacts[a] \in Row
  BY LenProperties, ElementOfSeq

\* A sequence with one element replaced.
LEMMA Replaced ==
  ASSUME NEW S, NEW s \in Seq(S), NEW a \in DOMAIN s, NEW e \in S
  PROVE  /\ [s EXCEPT ![a] = e] \in Seq(S)
         /\ DOMAIN [s EXCEPT ![a] = e] = DOMAIN s
         /\ [s EXCEPT ![a] = e][a] = e
         /\ \A b \in DOMAIN s : b # a => [s EXCEPT ![a] = e][b] = s[b]
<1>1. DOMAIN s = 1 .. Len(s)
  BY LenProperties
<1>2. [s EXCEPT ![a] = e] \in Seq(S)
  BY <1>1, ExceptSeq
<1>. QED  BY <1>2

\* Setting the consumed flag of a row keeps the rows and their number.
LEMMA ConsumedSet ==
  ASSUME artifacts \in Seq(Row), NEW a \in DOMAIN artifacts,
         artifacts' = [artifacts EXCEPT ![a].consumed = TRUE]
  PROVE  /\ artifacts' \in Seq(Row)
         /\ DOMAIN artifacts' = DOMAIN artifacts
         /\ RowsKept
         /\ artifacts'[a].consumed
         /\ \A b \in DOMAIN artifacts : artifacts'[b].revoked => artifacts[b].revoked
<1> DEFINE row == [artifacts[a] EXCEPT !.consumed = TRUE]
<1>1. artifacts[a] \in Row
  BY RowTyped
<1>2. /\ row \in Row
      /\ row.kind = artifacts[a].kind
      /\ row.client = artifacts[a].client
      /\ row.scopes = artifacts[a].scopes
      /\ row.expires = artifacts[a].expires
      /\ row.grant = artifacts[a].grant
      /\ row.consumed
      /\ row.revoked = artifacts[a].revoked
  BY <1>1 DEF Row
<1>3. artifacts' = [artifacts EXCEPT ![a] = row]
  OBVIOUS
<1> HIDE DEF row
<1>4. /\ artifacts' \in Seq(Row)
      /\ DOMAIN artifacts' = DOMAIN artifacts
      /\ artifacts'[a] = row
      /\ \A b \in DOMAIN artifacts : b # a => artifacts'[b] = artifacts[b]
  <2>1. row \in Row
    BY <1>2
  <2>2. /\ [artifacts EXCEPT ![a] = row] \in Seq(Row)
        /\ DOMAIN [artifacts EXCEPT ![a] = row] = DOMAIN artifacts
        /\ [artifacts EXCEPT ![a] = row][a] = row
        /\ \A b \in DOMAIN artifacts : b # a => [artifacts EXCEPT ![a] = row][b] = artifacts[b]
    BY <2>1, Replaced
  <2>. QED  BY <1>3, <2>2
<1>. QED  BY <1>2, <1>4 DEF RowsKept

\* Setting the revoked flag of a row keeps the rows and their number.
LEMMA RevokedSet ==
  ASSUME artifacts \in Seq(Row), NEW a \in DOMAIN artifacts,
         artifacts' = [artifacts EXCEPT ![a].revoked = TRUE]
  PROVE  /\ artifacts' \in Seq(Row)
         /\ DOMAIN artifacts' = DOMAIN artifacts
         /\ RowsKept
<1> DEFINE row == [artifacts[a] EXCEPT !.revoked = TRUE]
<1>1. artifacts[a] \in Row
  BY RowTyped
<1>2. /\ row \in Row
      /\ row.kind = artifacts[a].kind
      /\ row.client = artifacts[a].client
      /\ row.scopes = artifacts[a].scopes
      /\ row.expires = artifacts[a].expires
      /\ row.grant = artifacts[a].grant
      /\ row.consumed = artifacts[a].consumed
      /\ row.revoked
  BY <1>1 DEF Row
<1>3. artifacts' = [artifacts EXCEPT ![a] = row]
  OBVIOUS
<1> HIDE DEF row
<1>4. /\ artifacts' \in Seq(Row)
      /\ DOMAIN artifacts' = DOMAIN artifacts
      /\ artifacts'[a] = row
      /\ \A b \in DOMAIN artifacts : b # a => artifacts'[b] = artifacts[b]
  <2>1. row \in Row
    BY <1>2
  <2>2. /\ [artifacts EXCEPT ![a] = row] \in Seq(Row)
        /\ DOMAIN [artifacts EXCEPT ![a] = row] = DOMAIN artifacts
        /\ [artifacts EXCEPT ![a] = row][a] = row
        /\ \A b \in DOMAIN artifacts : b # a => [artifacts EXCEPT ![a] = row][b] = artifacts[b]
    BY <2>1, Replaced
  <2>. QED  BY <1>3, <2>2
<1>. QED  BY <1>2, <1>4 DEF RowsKept

\* put_artifact adds one row at the end.
LEMMA RowPut ==
  ASSUME Shapes, NEW kind \in Kinds, NEW client \in Clients, NEW scopes \in SUBSET Scopes,
         NEW ttl \in Nat, NEW grant \in Nat, Put(kind, client, scopes, ttl, grant)
  PROVE  LET n == Len(artifacts) + 1
         IN  /\ artifacts' \in Seq(Row)
             /\ RowsKept
             /\ n \notin DOMAIN artifacts
             /\ DOMAIN artifacts' = DOMAIN artifacts \cup {n}
             /\ artifacts'[n].kind = kind
             /\ artifacts'[n].client = client
             /\ artifacts'[n].scopes = scopes
             /\ artifacts'[n].grant = grant
             /\ artifacts'[n].expires = now + ttl
             /\ \A b \in DOMAIN artifacts : artifacts'[b].revoked => artifacts[b].revoked
<1> DEFINE row == [kind |-> kind, client |-> client, scopes |-> scopes, expires |-> now + ttl,
                   consumed |-> FALSE, revoked |-> FALSE, grant |-> grant]
           n == Len(artifacts) + 1
<1>1. row \in Row
  BY DEF Row, Shapes
<1>2. artifacts' = Append(artifacts, row)
  BY DEF Put
<1>3. /\ row.kind = kind
      /\ row.client = client
      /\ row.scopes = scopes
      /\ row.grant = grant
      /\ row.expires = now + ttl
  OBVIOUS
<1> HIDE DEF row
<1>4. /\ artifacts' \in Seq(Row)
      /\ Len(artifacts) \in Nat
      /\ DOMAIN artifacts = 1 .. Len(artifacts)
      /\ DOMAIN artifacts' = 1 .. n
      /\ \A a \in 1 .. Len(artifacts) : artifacts'[a] = artifacts[a]
      /\ artifacts'[n] = row
  BY <1>1, <1>2 DEF Shapes
<1>5. RowsKept
  BY <1>4 DEF RowsKept
<1>. QED  BY <1>3, <1>4, <1>5

\* A request in service puts a row with its client and scopes, for its grant.
LEMMA RequestPut ==
  ASSUME Shapes, NEW i \in Instances, request[i] \in InService,
         NEW kind \in Kinds, NEW ttl \in Nat,
         Put(kind, request[i].client, request[i].scopes, ttl, request[i].grant)
  PROVE  LET n == Len(artifacts) + 1
         IN  /\ artifacts' \in Seq(Row)
             /\ RowsKept
             /\ n \notin DOMAIN artifacts
             /\ DOMAIN artifacts' = DOMAIN artifacts \cup {n}
             /\ artifacts'[n].kind = kind
             /\ artifacts'[n].client = request[i].client
             /\ artifacts'[n].scopes = request[i].scopes
             /\ artifacts'[n].grant = request[i].grant
             /\ artifacts'[n].expires = now + ttl
<1>1. PICK client \in Clients : client = request[i].client
  BY DEF InService
<1>2. PICK scopes \in SUBSET Scopes : scopes = request[i].scopes
  BY DEF InService
<1>3. PICK grant \in Nat : grant = request[i].grant
  BY DEF InService
<1>4. Put(kind, client, scopes, ttl, grant)
  BY <1>1, <1>2, <1>3
<1> DEFINE n == Len(artifacts) + 1
<1>5. /\ artifacts' \in Seq(Row)
      /\ RowsKept
      /\ n \notin DOMAIN artifacts
      /\ DOMAIN artifacts' = DOMAIN artifacts \cup {n}
      /\ artifacts'[n].kind = kind
      /\ artifacts'[n].client = client
      /\ artifacts'[n].scopes = scopes
      /\ artifacts'[n].grant = grant
      /\ artifacts'[n].expires = now + ttl
  BY <1>4, RowPut
<1>. QED  BY <1>1, <1>2, <1>3, <1>5

(***************************************************************************)
(* How the requests change.                                                *)
(***************************************************************************)

\* A request in service goes on at another pc with what it has.
LEMMA Moved ==
  ASSUME Shapes, NEW i \in Instances, request[i] # Idle,
         NEW pc \in {"select", "consume", "put access", "put refresh"}, Goto(i, pc)
  PROVE  /\ request' \in [Instances -> {Idle} \cup InService]
         /\ request'[i] # Idle
         /\ request'[i].pc = pc
         /\ request'[i].grant = request[i].grant
         /\ request'[i].kind = request[i].kind
         /\ request'[i].client = request[i].client
         /\ request'[i].scopes = request[i].scopes
         /\ request'[i].age = request[i].age
         /\ \A j \in Instances \ {i} : request'[j] = request[j]
<1> DEFINE r == [request[i] EXCEPT !.pc = pc]
<1>1. request[i] \in InService
  BY DEF Shapes
<1>2. /\ r \in InService
      /\ r.pc = pc
      /\ r.grant = request[i].grant
      /\ r.kind = request[i].kind
      /\ r.client = request[i].client
      /\ r.scopes = request[i].scopes
      /\ r.age = request[i].age
  BY <1>1 DEF InService
<1>3. request' = [request EXCEPT ![i] = r]
  BY DEF Goto
<1>4. r # Idle
  BY <1>2 DEF Idle
<1> HIDE DEF r
<1>. QED  BY <1>2, <1>3, <1>4 DEF Shapes

\* An instance takes up a request or is done with one.
LEMMA Replied ==
  ASSUME Shapes, NEW i \in Instances, NEW r \in {Idle} \cup InService,
         request' = [request EXCEPT ![i] = r]
  PROVE  /\ request' \in [Instances -> {Idle} \cup InService]
         /\ request'[i] = r
         /\ \A j \in Instances \ {i} : request'[j] = request[j]
  BY DEF Shapes

\* The pc tells an instance at rest from one in service.
LEMMA NotIdle ==
  ASSUME Shapes, NEW i \in Instances
  PROVE  /\ request[i] # Idle => request[i] \in InService
         /\ request[i].pc # "idle" => request[i] # Idle
<1>1. request[i] \in {Idle} \cup InService
  BY DEF Shapes
<1>2. Idle.pc = "idle"
  BY DEF Idle
<1>. QED  BY <1>1, <1>2

(***************************************************************************)
(* The three conjuncts about the table alone.                              *)
(***************************************************************************)
LEMMA TableKept ==
  ASSUME IInv, RowsKept, DOMAIN artifacts' = DOMAIN artifacts
  PROVE  GrantExists' /\ SingleUse' /\ NoEscalation'
<1>1. GrantExists'
  BY DEF IInv, RowsKept, GrantExists
<1>2. SingleUse'
  BY DEF IInv, RowsKept, SingleUse
<1>3. NoEscalation'
  BY DEF IInv, RowsKept, GrantExists, NoEscalation
<1>. QED  BY <1>1, <1>2, <1>3

\* A row goes on backing what it backed.
LEMMA StillBacks ==
  ASSUME RowsKept, NEW g \in DOMAIN artifacts, NEW r, Backs(artifacts[g], r)
  PROVE  g \in DOMAIN artifacts' /\ Backs(artifacts'[g], r)
  BY DEF RowsKept, Backs

\* A row is added, for no grant or for one that is spent, covers it and has
\* no row of that kind yet.
LEMMA TableGrown ==
  ASSUME IInv, RowsKept, NEW n, n \notin DOMAIN artifacts,
         DOMAIN artifacts' = DOMAIN artifacts \cup {n},
         artifacts'[n].grant # NoGrant =>
           /\ artifacts'[n].grant \in DOMAIN artifacts
           /\ artifacts[artifacts'[n].grant].kind \in Exchangeable
           /\ artifacts[artifacts'[n].grant].consumed
           /\ artifacts[artifacts'[n].grant].client = artifacts'[n].client
           /\ artifacts'[n].scopes \subseteq artifacts[artifacts'[n].grant].scopes
           /\ \A b \in DOMAIN artifacts :
                artifacts[b].grant = artifacts'[n].grant =>
                  artifacts[b].kind # artifacts'[n].kind
  PROVE  GrantExists' /\ SingleUse' /\ NoEscalation'
<1>1. GrantExists'
  BY DEF IInv, RowsKept, GrantExists
<1>2. SingleUse'
  <2>. SUFFICES ASSUME NEW a \in DOMAIN artifacts', NEW b \in DOMAIN artifacts',
                       artifacts'[a].grant # NoGrant,
                       artifacts'[a].grant = artifacts'[b].grant,
                       artifacts'[a].kind = artifacts'[b].kind
                PROVE  a = b
    BY DEF SingleUse
  <2>1. CASE a \in DOMAIN artifacts /\ b \in DOMAIN artifacts
    BY <2>1 DEF IInv, RowsKept, SingleUse
  <2>2. CASE a = n /\ b \in DOMAIN artifacts
    BY <2>2 DEF RowsKept
  <2>3. CASE b = n /\ a \in DOMAIN artifacts
    BY <2>3 DEF RowsKept
  <2>. QED  BY <2>1, <2>2, <2>3
<1>3. NoEscalation'
  <2>. SUFFICES ASSUME NEW a \in DOMAIN artifacts', artifacts'[a].grant # NoGrant
                PROVE  LET g == artifacts'[artifacts'[a].grant]
                       IN  /\ g.kind \in Exchangeable
                           /\ g.consumed
                           /\ g.client = artifacts'[a].client
                           /\ artifacts'[a].scopes \subseteq g.scopes
    BY DEF NoEscalation
  <2>1. CASE a = n
    BY <2>1 DEF RowsKept
  <2>2. CASE a \in DOMAIN artifacts
    BY <2>2 DEF IInv, RowsKept, GrantExists, NoEscalation
  <2>. QED  BY <2>1, <2>2
<1>. QED  BY <1>1, <1>2, <1>3

(***************************************************************************)
(* One instance's request changes in a way that claims nothing new, and    *)
(* the table keeps its rows.                                               *)
(***************************************************************************)
LEMMA NothingClaimed ==
  ASSUME IInv, NEW i \in Instances, RowsKept,
         artifacts' \in Seq(Row), DOMAIN artifacts' = DOMAIN artifacts,
         now' \in Nat,
         request' \in [Instances -> {Idle} \cup InService],
         \A j \in Instances \ {i} : request'[j] = request[j],
         request'[i] # Idle =>
           /\ request'[i].grant # NoGrant => request'[i].pc \in {"select", "consume"}
           /\ request'[i].grant = NoGrant => request'[i].pc \in {"put access", "put refresh"}
           /\ request'[i].grant # NoGrant =>
                /\ request'[i].grant \in DOMAIN artifacts
                /\ request'[i].kind = artifacts[request'[i].grant].kind
                /\ request'[i].kind \in Exchangeable
                /\ request'[i].client = artifacts[request'[i].grant].client
                /\ request'[i].kind = "authorization_code" =>
                     request'[i].scopes = artifacts[request'[i].grant].scopes
  PROVE  IInv'
<1>1. Shapes'
  BY DEF Shapes
<1>2. GrantExists' /\ SingleUse' /\ NoEscalation'
  BY TableKept
<1>3. RequestBacked'
  <2>. SUFFICES ASSUME NEW j \in Instances, request'[j] # Idle, request'[j].grant # NoGrant
                PROVE  /\ request'[j].grant \in DOMAIN artifacts'
                       /\ Backs(artifacts'[request'[j].grant], request'[j])
    BY DEF RequestBacked
  <2>1. CASE j = i
    BY <2>1 DEF RowsKept, Backs
  <2>2. CASE j # i
    <3>1. /\ request'[j] = request[j]
          /\ request[j].grant \in DOMAIN artifacts
          /\ Backs(artifacts[request[j].grant], request[j])
      BY <2>2 DEF IInv, RequestBacked
    <3>. QED  BY <3>1, StillBacks
  <2>. QED  BY <2>1, <2>2
<1>4. BootstrapIssues'
  BY DEF IInv, BootstrapIssues
<1>5. ASSUME NEW j \in Instances, NEW a \in DOMAIN artifacts', Claims(j, a)'
      PROVE  j # i /\ Claims(j, a)
  <2>1. Idle.pc = "idle"
    BY DEF Idle
  <2>2. request'[j] # Idle
    BY <1>5, <2>1 DEF Claims
  <2>. QED  BY <1>5, <2>2 DEF Claims
<1>6. ClaimedOnce'
  <2>. SUFFICES ASSUME NEW j \in Instances, NEW a \in DOMAIN artifacts', Claims(j, a)'
                PROVE  /\ \A k \in Instances : Claims(k, a)' => j = k
                       /\ \A b \in DOMAIN artifacts' : artifacts'[b].grant = a =>
                            /\ request'[j].pc = "put refresh"
                            /\ artifacts'[b].kind = "access_token"
    BY DEF ClaimedOnce
  <2>1. /\ request'[j] = request[j]
        /\ \A k \in Instances : Claims(k, a) => j = k
        /\ \A b \in DOMAIN artifacts : artifacts[b].grant = a =>
             /\ request[j].pc = "put refresh"
             /\ artifacts[b].kind = "access_token"
    BY <1>5 DEF IInv, ClaimedOnce
  <2>2. \A k \in Instances : Claims(k, a)' => j = k
    BY <1>5, <2>1
  <2>3. \A b \in DOMAIN artifacts :
          artifacts'[b].grant = artifacts[b].grant /\ artifacts'[b].kind = artifacts[b].kind
    BY DEF RowsKept
  <2>. QED  BY <2>1, <2>2, <2>3
<1>. QED  BY <1>1, <1>2, <1>3, <1>4, <1>6 DEF IInv

\* No request moves and no row is added for a grant.
LEMMA ClaimsKept ==
  ASSUME IInv, RowsKept, request' = request, NEW n, n \notin DOMAIN artifacts,
         DOMAIN artifacts' = DOMAIN artifacts \cup {n}, artifacts'[n].grant = NoGrant
  PROVE  ClaimedOnce'
<1>. SUFFICES ASSUME NEW j \in Instances, NEW a \in DOMAIN artifacts', Claims(j, a)'
              PROVE  /\ \A k \in Instances : Claims(k, a)' => j = k
                     /\ \A b \in DOMAIN artifacts' : artifacts'[b].grant = a =>
                          /\ request'[j].pc = "put refresh"
                          /\ artifacts'[b].kind = "access_token"
  BY DEF ClaimedOnce
<1>1. Claims(j, a) /\ a # NoGrant
  BY DEF Claims
<1>2. request[j] # Idle
  BY <1>1, NotIdle DEF IInv, Claims
<1>3. a \in DOMAIN artifacts
  BY <1>1, <1>2 DEF IInv, RequestBacked, Claims
<1>4. /\ \A k \in Instances : Claims(k, a) => j = k
      /\ \A b \in DOMAIN artifacts : artifacts[b].grant = a =>
           /\ request[j].pc = "put refresh"
           /\ artifacts[b].kind = "access_token"
  BY <1>1, <1>3 DEF IInv, ClaimedOnce
<1>5. \A k \in Instances : Claims(k, a)' => j = k
  BY <1>4 DEF Claims
<1>6. \A b \in DOMAIN artifacts :
        artifacts'[b].grant = artifacts[b].grant /\ artifacts'[b].kind = artifacts[b].kind
  BY DEF RowsKept
<1>. QED  BY <1>1, <1>4, <1>5, <1>6

\* An instance that is issuing goes on issuing, or is done.
LEMMA StillIssuing ==
  ASSUME IInv, NEW i \in Instances, RowsKept,
         request[i].pc \in {"put access", "put refresh"},
         \A j \in Instances \ {i} : request'[j] = request[j],
         \/ request'[i] = Idle
         \/ /\ request'[i].pc \in {"put access", "put refresh"}
            /\ request'[i].grant = request[i].grant
            /\ request'[i].kind = request[i].kind
            /\ request'[i].client = request[i].client
            /\ request'[i].scopes = request[i].scopes
  PROVE  RequestBacked' /\ BootstrapIssues'
<1>1. RequestBacked'
  <2>. SUFFICES ASSUME NEW j \in Instances, request'[j] # Idle, request'[j].grant # NoGrant
                PROVE  /\ request'[j].grant \in DOMAIN artifacts'
                       /\ Backs(artifacts'[request'[j].grant], request'[j])
    BY DEF RequestBacked
  <2>1. request[j] # Idle /\ request'[j].grant = request[j].grant
    BY NotIdle DEF IInv
  <2>2. request[j].grant \in DOMAIN artifacts /\ Backs(artifacts[request[j].grant], request[j])
    BY <2>1 DEF IInv, RequestBacked
  <2>3. Backs(artifacts[request[j].grant], request'[j])
    BY <2>2 DEF Backs
  <2>. QED  BY <2>1, <2>2, <2>3, StillBacks
<1>2. BootstrapIssues'
  BY DEF IInv, BootstrapIssues
<1>. QED  BY <1>1, <1>2

LEMMA RowsUnchanged == ASSUME artifacts' = artifacts PROVE RowsKept
  BY DEF RowsKept

-----------------------------------------------------------------------------
LEMMA InitInv == Init => IInv
<1>. SUFFICES ASSUME Init PROVE IInv
  OBVIOUS
<1>1. artifacts = <<>> /\ DOMAIN artifacts = {}
  BY DEF Init
<1>2. Shapes
  BY <1>1 DEF Init, Shapes
<1>3. \A i \in Instances : request[i] = Idle
  BY DEF Init
<1>. QED  BY <1>1, <1>2, <1>3
  DEF IInv, RequestBacked, BootstrapIssues, GrantExists, ClaimedOnce, SingleUse, NoEscalation

LEMMA AuthorizeInv ==
  ASSUME IInv, NEW i \in Instances, NEW c \in Clients, NEW scopes \in Asked,
         Authorize(i, c, scopes)
  PROVE  IInv'
<1> DEFINE n == Len(artifacts) + 1
<1>1. scopes \in SUBSET Scopes /\ CodeTTL \in Nat
  BY OAuthAssumption
<1>2. /\ artifacts' \in Seq(Row)
      /\ RowsKept
      /\ n \notin DOMAIN artifacts
      /\ DOMAIN artifacts' = DOMAIN artifacts \cup {n}
      /\ artifacts'[n].grant = NoGrant
  <2>1. NoGrant \in Nat /\ "authorization_code" \in Kinds /\ Shapes
    BY DEF NoGrant, Kinds, IInv
  <2>2. Put("authorization_code", c, scopes, CodeTTL, NoGrant)
    BY DEF Authorize
  <2>. QED  BY <1>1, <2>1, <2>2, RowPut
<1> HIDE DEF n
<1>3. GrantExists' /\ SingleUse' /\ NoEscalation'
  BY <1>2, TableGrown
<1>4. request' = request /\ now' = now
  BY DEF Authorize
<1>5. Shapes'
  BY <1>2, <1>4 DEF IInv, Shapes
<1>6. RequestBacked'
  <2>. SUFFICES ASSUME NEW j \in Instances, request[j] # Idle, request[j].grant # NoGrant
                PROVE  /\ request[j].grant \in DOMAIN artifacts'
                       /\ Backs(artifacts'[request[j].grant], request[j])
    BY <1>4 DEF RequestBacked
  <2>. QED  BY <1>2, StillBacks DEF IInv, RequestBacked
<1>7. BootstrapIssues'
  BY <1>4 DEF IInv, BootstrapIssues
<1>8. ClaimedOnce'
  BY <1>2, <1>4, ClaimsKept DEF IInv
<1>. QED  BY <1>3, <1>5, <1>6, <1>7, <1>8 DEF IInv

LEMMA IssueForClientInv ==
  ASSUME IInv, NEW i \in Instances, NEW c \in Clients, NEW scopes \in Asked,
         IssueForClient(i, c, scopes)
  PROVE  IInv'
<1> DEFINE r == [pc |-> "put access", grant |-> NoGrant, kind |-> "bootstrap",
                 client |-> c, scopes |-> scopes, age |-> 0]
<1>1. r \in InService /\ r.grant = NoGrant /\ r.pc = "put access"
  BY OAuthAssumption DEF InService, NoGrant
<1>2. request' = [request EXCEPT ![i] = r] /\ now' = now /\ artifacts' = artifacts
  BY DEF IssueForClient
<1> HIDE DEF r
<1>3. /\ request' \in [Instances -> {Idle} \cup InService]
      /\ request'[i] = r
      /\ \A j \in Instances \ {i} : request'[j] = request[j]
  BY <1>1, <1>2 DEF IInv, Shapes
<1>. QED  BY <1>1, <1>2, <1>3, RowsUnchanged, NothingClaimed DEF IInv, Shapes

LEMMA LoadInv ==
  ASSUME IInv, NEW i \in Instances, NEW c \in Clients, NEW a \in DOMAIN artifacts,
         NEW kind \in Exchangeable, NEW scopes \in Asked, Load(i, c, a, kind, scopes)
  PROVE  IInv'
<1> DEFINE r == [pc |-> "select", grant |-> a, kind |-> kind,
                 client |-> c, scopes |-> scopes, age |-> 0]
<1>1. a \in Nat /\ a # NoGrant
  BY RowTyped DEF IInv, Shapes, NoGrant
<1>2. /\ r \in InService
      /\ r.grant = a
      /\ r.pc = "select"
      /\ r.kind = kind
      /\ r.client = c
      /\ r.scopes = scopes
  BY <1>1, OAuthAssumption DEF InService
<1>3. /\ request' = [request EXCEPT ![i] = r] /\ now' = now /\ artifacts' = artifacts
      /\ artifacts[a].kind = kind
      /\ artifacts[a].client = c
      /\ kind = "authorization_code" => scopes = artifacts[a].scopes
  BY DEF Load, Valid
<1> HIDE DEF r
<1>4. /\ request' \in [Instances -> {Idle} \cup InService]
      /\ request'[i] = r
      /\ \A j \in Instances \ {i} : request'[j] = request[j]
  BY <1>2, <1>3 DEF IInv, Shapes
<1>. QED  BY <1>1, <1>2, <1>3, <1>4, RowsUnchanged, NothingClaimed DEF IInv, Shapes

\* A request that ends claims nothing.
LEMMA EndedInv ==
  ASSUME IInv, NEW i \in Instances, request' = [request EXCEPT ![i] = Idle],
         RowsKept, artifacts' \in Seq(Row), DOMAIN artifacts' = DOMAIN artifacts,
         now' = now
  PROVE  IInv'
<1>1. /\ request' \in [Instances -> {Idle} \cup InService]
      /\ request'[i] = Idle
      /\ \A j \in Instances \ {i} : request'[j] = request[j]
  BY DEF IInv, Shapes
<1>. QED  BY <1>1, NothingClaimed DEF IInv, Shapes

LEMMA SelectInv ==
  ASSUME IInv, NEW i \in Instances, Select(i) PROVE IInv'
<1>1. request[i].pc = "select" /\ artifacts' = artifacts /\ now' = now /\ RowsKept
  BY RowsUnchanged DEF Select
<1>2. request[i] # Idle /\ request[i].grant # NoGrant
  BY <1>1, NotIdle DEF IInv, BootstrapIssues
<1>3. CASE Goto(i, "consume")
  <2>1. /\ request' \in [Instances -> {Idle} \cup InService]
        /\ request'[i].pc = "consume"
        /\ request'[i].grant = request[i].grant
        /\ request'[i].kind = request[i].kind
        /\ request'[i].client = request[i].client
        /\ request'[i].scopes = request[i].scopes
        /\ \A j \in Instances \ {i} : request'[j] = request[j]
    BY <1>2, <1>3, Moved DEF IInv
  <2>2. /\ request[i].grant \in DOMAIN artifacts
        /\ Backs(artifacts[request[i].grant], request[i])
    BY <1>2 DEF IInv, RequestBacked
  <2>. QED  BY <1>1, <1>2, <2>1, <2>2, NothingClaimed DEF IInv, Shapes, Backs
<1>4. CASE request' = [request EXCEPT ![i] = Idle]
  BY <1>1, <1>4, EndedInv DEF IInv, Shapes
<1>. QED  BY <1>3, <1>4 DEF Select

LEMMA ConsumeInv ==
  ASSUME IInv, NEW i \in Instances, Consume(i) PROVE IInv'
<1> DEFINE a == request[i].grant
<1>1. request[i].pc = "consume" /\ ~artifacts[a].consumed /\ now' = now
  BY DEF Consume
<1>2. request[i] # Idle /\ a # NoGrant
  BY <1>1, NotIdle DEF IInv, BootstrapIssues
<1>3. a \in DOMAIN artifacts /\ Backs(artifacts[a], request[i])
  BY <1>2 DEF IInv, RequestBacked
<1>4. /\ artifacts' \in Seq(Row)
      /\ DOMAIN artifacts' = DOMAIN artifacts
      /\ RowsKept
      /\ artifacts'[a].consumed
  BY <1>3, ConsumedSet DEF Consume, IInv, Shapes
<1>5. CASE Granted(i) /\ Goto(i, "put access")
  <2>1. request[i].scopes \subseteq artifacts[a].scopes
    BY <1>3, <1>5 DEF Granted, Backs
  <2>2. /\ request' \in [Instances -> {Idle} \cup InService]
        /\ request'[i] # Idle
        /\ request'[i].pc = "put access"
        /\ request'[i].grant = a
        /\ request'[i].kind = request[i].kind
        /\ request'[i].client = request[i].client
        /\ request'[i].scopes = request[i].scopes
        /\ \A j \in Instances \ {i} : request'[j] = request[j]
    BY <1>2, <1>5, Moved DEF IInv
  <2>3. Shapes'
    BY <1>1, <1>4, <2>2 DEF IInv, Shapes
  <2>4. Backs(artifacts'[a], request'[i])
    BY <1>3, <1>4, <2>1, <2>2 DEF RowsKept, Backs
  <2>5. RequestBacked'
    <3>. SUFFICES ASSUME NEW j \in Instances, request'[j] # Idle, request'[j].grant # NoGrant
                  PROVE  /\ request'[j].grant \in DOMAIN artifacts'
                         /\ Backs(artifacts'[request'[j].grant], request'[j])
      BY DEF RequestBacked
    <3>1. CASE j = i
      BY <1>3, <1>4, <2>2, <2>4, <3>1
    <3>2. CASE j # i
      <4>1. /\ request'[j] = request[j]
            /\ request[j].grant \in DOMAIN artifacts
            /\ Backs(artifacts[request[j].grant], request[j])
        BY <2>2, <3>2 DEF IInv, RequestBacked
      <4>. QED  BY <1>4, <4>1, StillBacks
    <3>. QED  BY <3>1, <3>2
  <2>6. BootstrapIssues'
    BY <2>2 DEF IInv, BootstrapIssues
  <2>7. \A j \in Instances : ~Claims(j, a)
    <3>. SUFFICES ASSUME NEW j \in Instances, Claims(j, a) PROVE FALSE
      OBVIOUS
    <3>1. request[j] # Idle
      BY NotIdle DEF IInv, Claims
    <3>2. Backs(artifacts[a], request[j])
      BY <1>2, <3>1 DEF IInv, RequestBacked, Claims
    <3>. QED  BY <1>1, <3>2 DEF Backs, Claims
  <2>8. \A b \in DOMAIN artifacts' : artifacts'[b].grant # a
    <3>1. \A b \in DOMAIN artifacts : artifacts[b].grant # a
      BY <1>1, <1>2 DEF IInv, NoEscalation
    <3>. QED  BY <1>4, <3>1 DEF RowsKept
  <2>9. ClaimedOnce'
    <3>. SUFFICES ASSUME NEW j \in Instances, NEW g \in DOMAIN artifacts', Claims(j, g)'
                  PROVE  /\ \A k \in Instances : Claims(k, g)' => j = k
                         /\ \A b \in DOMAIN artifacts' : artifacts'[b].grant = g =>
                              /\ request'[j].pc = "put refresh"
                              /\ artifacts'[b].kind = "access_token"
      BY DEF ClaimedOnce
    <3>1. CASE g = a
      <4>1. \A k \in Instances : Claims(k, g)' => k = i
        BY <2>2, <2>7, <3>1 DEF Claims
      <4>2. j = i
        BY <4>1
      <4>. QED  BY <2>8, <3>1, <4>1, <4>2
    <3>2. CASE g # a
      <4>1. \A k \in Instances : Claims(k, g)' => k # i /\ Claims(k, g)
        BY <2>2, <3>2 DEF Claims
      <4>2. /\ request'[j] = request[j]
            /\ \A k \in Instances : Claims(k, g) => j = k
            /\ \A b \in DOMAIN artifacts : artifacts[b].grant = g =>
                 /\ request[j].pc = "put refresh"
                 /\ artifacts[b].kind = "access_token"
        BY <1>4, <2>2, <4>1 DEF IInv, ClaimedOnce
      <4>. QED  BY <1>4, <4>1, <4>2 DEF RowsKept
    <3>. QED  BY <3>1, <3>2
  <2>. QED  BY <1>4, <2>3, <2>5, <2>6, <2>9, TableKept DEF IInv
<1>6. CASE request' = [request EXCEPT ![i] = Idle]
  BY <1>1, <1>4, <1>6, EndedInv
<1>. QED  BY <1>5, <1>6 DEF Consume

LEMMA LoseRaceInv ==
  ASSUME IInv, NEW i \in Instances, LoseRace(i) PROVE IInv'
  BY RowsUnchanged, EndedInv DEF LoseRace, IInv, Shapes

LEMMA RevokeInv ==
  ASSUME IInv, NEW i \in Instances, NEW a \in DOMAIN artifacts, Revoke(i, a)
  PROVE  IInv'
<1>1. /\ artifacts' \in Seq(Row)
      /\ DOMAIN artifacts' = DOMAIN artifacts
      /\ RowsKept
  BY RevokedSet DEF Revoke, IInv, Shapes
<1>2. request' = [request EXCEPT ![i] = Idle] /\ now' = now
  BY DEF Revoke, IInv, Shapes
<1>. QED  BY <1>1, <1>2, EndedInv

LEMMA RestartInv ==
  ASSUME IInv, NEW i \in Instances, NEW p \in Policies, Restart(i, p) PROVE IInv'
  BY RowsUnchanged, EndedInv DEF Restart, IInv, Shapes

LEMMA PutAccessInv ==
  ASSUME IInv, NEW i \in Instances, PutAccess(i) PROVE IInv'
<1> DEFINE g == request[i].grant
           n == Len(artifacts) + 1
<1>1. request[i].pc = "put access" /\ now' = now
  BY DEF PutAccess
<1>2. request[i] # Idle /\ request[i] \in InService
  BY <1>1, NotIdle DEF IInv
<1>3. /\ request' \in [Instances -> {Idle} \cup InService]
      /\ request'[i] # Idle
      /\ request'[i].pc = "put refresh"
      /\ request'[i].grant = request[i].grant
      /\ request'[i].kind = request[i].kind
      /\ request'[i].client = request[i].client
      /\ request'[i].scopes = request[i].scopes
      /\ \A j \in Instances \ {i} : request'[j] = request[j]
  BY <1>2, Moved DEF PutAccess, IInv
<1>4. /\ artifacts' \in Seq(Row)
      /\ RowsKept
      /\ n \notin DOMAIN artifacts
      /\ DOMAIN artifacts' = DOMAIN artifacts \cup {n}
      /\ artifacts'[n].kind = "access_token"
      /\ artifacts'[n].client = request[i].client
      /\ artifacts'[n].scopes = request[i].scopes
      /\ artifacts'[n].grant = request[i].grant
  <2>1. AccessTTL \in Nat /\ "access_token" \in Kinds /\ Shapes
    BY OAuthAssumption DEF Kinds, IInv
  <2>2. Put("access_token", request[i].client, request[i].scopes, AccessTTL, request[i].grant)
    BY DEF PutAccess
  <2>. QED  BY <1>2, <2>1, <2>2, RequestPut
<1> HIDE DEF n
<1>5. g # NoGrant =>
        /\ g \in DOMAIN artifacts
        /\ Backs(artifacts[g], request[i])
        /\ \A j \in Instances : Claims(j, g) => j = i
        /\ \A b \in DOMAIN artifacts : artifacts[b].grant # g
  <2>. SUFFICES ASSUME g # NoGrant
                PROVE  /\ g \in DOMAIN artifacts
                       /\ Backs(artifacts[g], request[i])
                       /\ \A j \in Instances : Claims(j, g) => j = i
                       /\ \A b \in DOMAIN artifacts : artifacts[b].grant # g
    OBVIOUS
  <2>1. g \in DOMAIN artifacts /\ Backs(artifacts[g], request[i])
    BY <1>2 DEF IInv, RequestBacked
  <2>2. Claims(i, g)
    BY <1>1 DEF Claims
  <2>3. /\ \A j \in Instances : Claims(j, g) => i = j
        /\ \A b \in DOMAIN artifacts : artifacts[b].grant = g => request[i].pc = "put refresh"
    BY <2>1, <2>2 DEF IInv, ClaimedOnce
  <2>. QED  BY <1>1, <2>1, <2>3
<1>6. GrantExists' /\ SingleUse' /\ NoEscalation'
  BY <1>1, <1>4, <1>5, TableGrown DEF Backs
<1>7. Shapes'
  BY <1>1, <1>3, <1>4 DEF IInv, Shapes
<1>8. RequestBacked' /\ BootstrapIssues'
  BY <1>1, <1>3, <1>4, StillIssuing DEF IInv
<1>9. ClaimedOnce'
  <2>. SUFFICES ASSUME NEW j \in Instances, NEW a \in DOMAIN artifacts', Claims(j, a)'
                PROVE  /\ \A k \in Instances : Claims(k, a)' => j = k
                       /\ \A b \in DOMAIN artifacts' : artifacts'[b].grant = a =>
                            /\ request'[j].pc = "put refresh"
                            /\ artifacts'[b].kind = "access_token"
    BY DEF ClaimedOnce
  <2>1. \A k \in Instances : Claims(k, a)' => Claims(k, a)
    BY <1>1, <1>3 DEF Claims
  <2>2. a # NoGrant /\ request[j] # Idle
    BY <2>1, NotIdle DEF IInv, Claims
  <2>3. a \in DOMAIN artifacts
    BY <2>1, <2>2 DEF IInv, RequestBacked, Claims
  <2>4. /\ \A k \in Instances : Claims(k, a) => j = k
        /\ \A b \in DOMAIN artifacts : artifacts[b].grant = a =>
             /\ request[j].pc = "put refresh"
             /\ artifacts[b].kind = "access_token"
    BY <2>1, <2>3 DEF IInv, ClaimedOnce
  <2>5. ASSUME NEW b \in DOMAIN artifacts', artifacts'[b].grant = a
        PROVE  request'[j].pc = "put refresh" /\ artifacts'[b].kind = "access_token"
    <3>1. CASE b = n
      <4>1. Claims(i, a)
        BY <1>1, <1>4, <2>2, <2>5, <3>1 DEF Claims
      <4>. QED  BY <1>3, <1>4, <2>4, <3>1, <4>1
    <3>2. CASE b \in DOMAIN artifacts
      <4>1. artifacts[b].grant = a /\ artifacts'[b].kind = artifacts[b].kind
        BY <1>4, <2>5, <3>2 DEF RowsKept
      <4>2. j # i
        BY <1>1, <2>4, <3>2, <4>1
      <4>. QED  BY <1>3, <2>4, <3>2, <4>1, <4>2
    <3>. QED  BY <1>4, <3>1, <3>2
  <2>. QED  BY <2>1, <2>4, <2>5
<1>. QED  BY <1>6, <1>7, <1>8, <1>9 DEF IInv

LEMMA PutRefreshInv ==
  ASSUME IInv, NEW i \in Instances, PutRefresh(i) PROVE IInv'
<1> DEFINE g == request[i].grant
           n == Len(artifacts) + 1
<1>1. request[i].pc = "put refresh" /\ now' = now
  BY DEF PutRefresh
<1>2. request[i] # Idle /\ request[i] \in InService
  BY <1>1, NotIdle DEF IInv
<1>3. /\ request' \in [Instances -> {Idle} \cup InService]
      /\ request'[i] = Idle
      /\ \A j \in Instances \ {i} : request'[j] = request[j]
  BY DEF PutRefresh, IInv, Shapes
<1>4. /\ artifacts' \in Seq(Row)
      /\ RowsKept
      /\ n \notin DOMAIN artifacts
      /\ DOMAIN artifacts' = DOMAIN artifacts \cup {n}
      /\ artifacts'[n].kind = "refresh_token"
      /\ artifacts'[n].client = request[i].client
      /\ artifacts'[n].scopes = request[i].scopes
      /\ artifacts'[n].grant = request[i].grant
  <2>1. RefreshTTL \in Nat /\ "refresh_token" \in Kinds /\ Shapes
    BY OAuthAssumption DEF Kinds, IInv
  <2>2. Put("refresh_token", request[i].client, request[i].scopes, RefreshTTL, request[i].grant)
    BY DEF PutRefresh
  <2>. QED  BY <1>2, <2>1, <2>2, RequestPut
<1> HIDE DEF n
<1>5. g # NoGrant =>
        /\ g \in DOMAIN artifacts
        /\ Backs(artifacts[g], request[i])
        /\ \A j \in Instances : Claims(j, g) => j = i
        /\ \A b \in DOMAIN artifacts : artifacts[b].grant = g => artifacts[b].kind = "access_token"
  <2>. SUFFICES ASSUME g # NoGrant
                PROVE  /\ g \in DOMAIN artifacts
                       /\ Backs(artifacts[g], request[i])
                       /\ \A j \in Instances : Claims(j, g) => j = i
                       /\ \A b \in DOMAIN artifacts :
                            artifacts[b].grant = g => artifacts[b].kind = "access_token"
    OBVIOUS
  <2>1. g \in DOMAIN artifacts /\ Backs(artifacts[g], request[i])
    BY <1>2 DEF IInv, RequestBacked
  <2>2. Claims(i, g)
    BY <1>1 DEF Claims
  <2>3. /\ \A j \in Instances : Claims(j, g) => i = j
        /\ \A b \in DOMAIN artifacts :
             artifacts[b].grant = g => artifacts[b].kind = "access_token"
    BY <2>1, <2>2 DEF IInv, ClaimedOnce
  <2>. QED  BY <2>1, <2>3
<1>6. GrantExists' /\ SingleUse' /\ NoEscalation'
  BY <1>1, <1>4, <1>5, TableGrown DEF Backs
<1>7. Shapes'
  BY <1>1, <1>3, <1>4 DEF IInv, Shapes
<1>8. RequestBacked' /\ BootstrapIssues'
  BY <1>1, <1>3, <1>4, StillIssuing DEF IInv
<1>9. ClaimedOnce'
  <2>. SUFFICES ASSUME NEW j \in Instances, NEW a \in DOMAIN artifacts', Claims(j, a)'
                PROVE  /\ \A k \in Instances : Claims(k, a)' => j = k
                       /\ \A b \in DOMAIN artifacts' : artifacts'[b].grant = a =>
                            /\ request'[j].pc = "put refresh"
                            /\ artifacts'[b].kind = "access_token"
    BY DEF ClaimedOnce
  <2>1. Idle.pc = "idle"
    BY DEF Idle
  <2>2. \A k \in Instances : Claims(k, a)' => k # i /\ Claims(k, a)
    BY <1>3, <2>1 DEF Claims
  <2>3. a # NoGrant /\ request[j] # Idle
    BY <2>2, NotIdle DEF IInv, Claims
  <2>4. a \in DOMAIN artifacts
    BY <2>2, <2>3 DEF IInv, RequestBacked, Claims
  <2>5. /\ \A k \in Instances : Claims(k, a) => j = k
        /\ \A b \in DOMAIN artifacts : artifacts[b].grant = a =>
             /\ request[j].pc = "put refresh"
             /\ artifacts[b].kind = "access_token"
    BY <2>2, <2>4 DEF IInv, ClaimedOnce
  <2>6. a # g
    BY <1>5, <2>2, <2>3
  <2>7. request'[j] = request[j]
    BY <1>3, <2>2
  <2>8. \A b \in DOMAIN artifacts' :
          artifacts'[b].grant = a => b \in DOMAIN artifacts /\ artifacts[b].grant = a
    BY <1>4, <2>6 DEF RowsKept
  <2>9. \A b \in DOMAIN artifacts : artifacts'[b].kind = artifacts[b].kind
    BY <1>4 DEF RowsKept
  <2>. QED  BY <2>2, <2>5, <2>7, <2>8, <2>9
<1>. QED  BY <1>6, <1>7, <1>8, <1>9 DEF IInv

LEMMA TickInv == ASSUME IInv, Tick PROVE IInv'
<1>1. artifacts' = artifacts /\ now' \in Nat
  BY DEF Tick, IInv, Shapes
<1>2. \A i \in Instances :
        /\ request[i] = Idle => request'[i] = Idle
        /\ request[i] # Idle => request'[i] = [request[i] EXCEPT !.age = @ + 1]
  BY DEF Tick
<1>3. ASSUME NEW i \in Instances, request[i] # Idle
      PROVE  /\ request'[i] \in InService
             /\ request'[i] # Idle
             /\ request'[i].pc = request[i].pc
             /\ request'[i].grant = request[i].grant
             /\ request'[i].kind = request[i].kind
             /\ request'[i].client = request[i].client
             /\ request'[i].scopes = request[i].scopes
  <2>1. request[i] \in InService
    BY <1>3, NotIdle DEF IInv
  <2>2. Idle.pc = "idle"
    BY DEF Idle
  <2>3. request'[i] = [request[i] EXCEPT !.age = @ + 1]
    BY <1>2, <1>3
  <2>4. /\ request'[i] \in InService
        /\ request'[i].pc = request[i].pc
        /\ request'[i].grant = request[i].grant
        /\ request'[i].kind = request[i].kind
        /\ request'[i].client = request[i].client
        /\ request'[i].scopes = request[i].scopes
    <3>1. request[i].age \in Nat
      BY <2>1 DEF InService
    <3> DEFINE age == request[i].age + 1
    <3>2. age \in Nat /\ request'[i] = [request[i] EXCEPT !.age = age]
      BY <2>3, <3>1
    <3> HIDE DEF age
    <3>. QED  BY <2>1, <3>2 DEF InService
  <2>5. request'[i].pc # "idle"
    BY <2>4 DEF InService
  <2>. QED  BY <2>2, <2>4, <2>5
<1>4. /\ Shapes'
  <2>1. \A i \in Instances : request'[i] \in {Idle} \cup InService
    BY <1>2, <1>3
  <2>2. request' = [i \in Instances |-> request'[i]]
    BY DEF Tick
  <2>. QED  BY <1>1, <2>1, <2>2 DEF IInv, Shapes
<1>5. \A i \in Instances : request'[i] # Idle => request[i] # Idle
  BY <1>2
<1>6. RequestBacked'
  <2>. SUFFICES ASSUME NEW i \in Instances, request'[i] # Idle, request'[i].grant # NoGrant
                PROVE  /\ request'[i].grant \in DOMAIN artifacts
                       /\ Backs(artifacts[request'[i].grant], request'[i])
    BY <1>1 DEF RequestBacked
  <2>1. /\ request[i] # Idle
        /\ request'[i].grant = request[i].grant
    BY <1>3, <1>5
  <2>2. /\ request[i].grant \in DOMAIN artifacts
        /\ Backs(artifacts[request[i].grant], request[i])
    BY <2>1 DEF IInv, RequestBacked
  <2>. QED  BY <1>3, <2>1, <2>2 DEF Backs
<1>7. BootstrapIssues'
  BY <1>3, <1>5 DEF IInv, BootstrapIssues
<1>8. \A i \in Instances, a \in DOMAIN artifacts' :
        Claims(i, a)' => Claims(i, a) /\ request'[i].pc = request[i].pc
  <2>1. Idle.pc = "idle"
    BY DEF Idle
  <2>2. \A i \in Instances : request[i] = Idle => request'[i].pc = "idle"
    BY <1>2, <2>1
  <2>. QED  BY <1>3, <2>2 DEF Claims
<1>9. ClaimedOnce'
  <2>. SUFFICES ASSUME NEW i \in Instances, NEW a \in DOMAIN artifacts, Claims(i, a)'
                PROVE  /\ \A j \in Instances : Claims(j, a)' => i = j
                       /\ \A b \in DOMAIN artifacts : artifacts[b].grant = a =>
                            /\ request'[i].pc = "put refresh"
                            /\ artifacts[b].kind = "access_token"
    BY <1>1 DEF ClaimedOnce
  <2>1. Claims(i, a) /\ request'[i].pc = request[i].pc
    BY <1>1, <1>8
  <2>2. /\ \A j \in Instances : Claims(j, a) => i = j
        /\ \A b \in DOMAIN artifacts : artifacts[b].grant = a =>
             /\ request[i].pc = "put refresh"
             /\ artifacts[b].kind = "access_token"
    BY <2>1 DEF IInv, ClaimedOnce
  <2>. QED  BY <1>1, <1>8, <2>1, <2>2
<1>. QED  BY <1>1, <1>4, <1>6, <1>7, <1>9, RowsUnchanged, TableKept DEF IInv

LEMMA StepInv == ASSUME IInv, [Next]_vars PROVE IInv'
<1>1. ASSUME NEW i \in Instances, NEW c \in Clients, NEW scopes \in Asked,
             Authorize(i, c, scopes)
      PROVE  IInv'
  BY <1>1, AuthorizeInv
<1>2. ASSUME NEW i \in Instances, NEW c \in Clients, NEW scopes \in Asked,
             IssueForClient(i, c, scopes)
      PROVE  IInv'
  BY <1>2, IssueForClientInv
<1>3. ASSUME NEW i \in Instances, NEW c \in Clients, NEW scopes \in Asked,
             NEW a \in DOMAIN artifacts, NEW kind \in Exchangeable, Load(i, c, a, kind, scopes)
      PROVE  IInv'
  BY <1>3, LoadInv
<1>4. ASSUME NEW i \in Instances, Select(i) PROVE IInv'
  BY <1>4, SelectInv
<1>5. ASSUME NEW i \in Instances, Consume(i) PROVE IInv'
  BY <1>5, ConsumeInv
<1>6. ASSUME NEW i \in Instances, LoseRace(i) PROVE IInv'
  BY <1>6, LoseRaceInv
<1>7. ASSUME NEW i \in Instances, PutAccess(i) PROVE IInv'
  BY <1>7, PutAccessInv
<1>8. ASSUME NEW i \in Instances, PutRefresh(i) PROVE IInv'
  BY <1>8, PutRefreshInv
<1>9. ASSUME NEW i \in Instances, NEW a \in DOMAIN artifacts, Revoke(i, a) PROVE IInv'
  BY <1>9, RevokeInv
<1>10. ASSUME NEW i \in Instances, NEW p \in Policies, Restart(i, p) PROVE IInv'
  BY <1>10, RestartInv
<1>11. CASE Tick
  BY <1>11, TickInv
<1>12. CASE UNCHANGED vars
  <2>1. artifacts' = artifacts /\ request' = request /\ now' = now
    BY <1>12 DEF vars
  <2>2. Shapes' /\ RequestBacked' /\ BootstrapIssues'
    BY <2>1 DEF IInv, Shapes, RequestBacked, BootstrapIssues
  <2>3. ClaimedOnce'
    <3>1. \A i \in Instances, a \in DOMAIN artifacts' : Claims(i, a)' <=> Claims(i, a)
      BY <2>1 DEF Claims
    <3>. QED  BY <2>1, <3>1 DEF IInv, ClaimedOnce
  <2>. QED  BY <2>1, <2>2, <2>3, RowsUnchanged, TableKept DEF IInv
<1>. QED  BY <1>1, <1>2, <1>3, <1>4, <1>5, <1>6, <1>7, <1>8, <1>9, <1>10, <1>11, <1>12 DEF Next

-----------------------------------------------------------------------------
\* A code or refresh token yields one access token and one refresh token at
\* most, whatever the processes interleave (auth.py:102-142, store.py:172-195).
THEOREM GrantsAreSingleUse == Spec => []SingleUse
<1>1. Init => IInv
  BY InitInv
<1>2. IInv /\ [Next]_vars => IInv'
  BY StepInv
<1>3. IInv => SingleUse
  BY DEF IInv
<1>. QED  BY <1>1, <1>2, <1>3, PTL DEF Spec

\* An exchange spends its grant and hands out no more than the grant held, to
\* no client but the grant's, so no chain of refreshes gains a scope.
THEOREM ExchangesNeverEscalate == Spec => []NoEscalation
<1>1. Init => IInv
  BY InitInv
<1>2. IInv /\ [Next]_vars => IInv'
  BY StepInv
<1>3. IInv => NoEscalation
  BY DEF IInv
<1>. QED  BY <1>1, <1>2, <1>3, PTL DEF Spec

-----------------------------------------------------------------------------
(***************************************************************************)
(* A scope that is taken from a client dies out of its usable tokens.      *)
(* What makes the bound inductive: when a row was made, or a request may   *)
(* make one, is dated by the last time its scopes were allowed.            *)
(***************************************************************************)

\* A scope of a running instance's policy is allowed now.
PolicyDated ==
  /\ policy \in [Instances -> Policies]
  /\ allowed \in [Clients -> [Scopes -> Nat]]
  /\ \A c \in Clients, s \in Scopes : allowed[c][s] <= now
  /\ \A i \in Instances, c \in Clients : \A s \in policy[i][c] : allowed[c][s] = now

\* A code outlives its scopes by CodeTTL at most; an access token by as much,
\* its own lifetime and the time its request took.
RowDated(a) ==
  \A s \in artifacts[a].scopes :
    /\ artifacts[a].kind = "authorization_code" =>
         artifacts[a].expires <= allowed[artifacts[a].client][s] + CodeTTL
    /\ artifacts[a].kind = "access_token" =>
         artifacts[a].expires + 1
           <= allowed[artifacts[a].client][s] + CodeTTL + AccessTTL + RequestTicks

RowsDated == \A a \in DOMAIN artifacts : RowDated(a)

\* A request that is about to issue holds a code that was still valid when it
\* was selected, or scopes its instance's policy allows.
RequestDated(i) ==
  /\ request[i].age <= RequestTicks
  /\ request[i].kind = "authorization_code" /\ request[i].pc \in {"consume", "put access"} =>
       \A s \in request[i].scopes :
         now + 1 <= allowed[request[i].client][s] + CodeTTL + request[i].age
  /\ request[i].kind # "authorization_code" /\ request[i].pc = "put access" =>
       request[i].scopes \subseteq policy[i][request[i].client]

RequestsDated == \A i \in Instances : request[i] # Idle => RequestDated(i)

DatedInv == PolicyDated /\ RowsDated /\ RequestsDated

\* The dates only move forward.
LEMMA DatesAdvance ==
  ASSUME now \in Nat, PolicyDated, NEW p \in [Instances -> Policies], NEW t \in Nat, now <= t,
         allowed' = Allowed(p, t)
  PROVE  /\ allowed' \in [Clients -> [Scopes -> Nat]]
         /\ \A c \in Clients, s \in Scopes :
              allowed[c][s] <= allowed'[c][s] /\ allowed'[c][s] <= t
         /\ \A i \in Instances, c \in Clients : \A s \in p[i][c] : allowed'[c][s] = t
<1>1. ASSUME NEW c \in Clients, NEW s \in Scopes
      PROVE  /\ allowed'[c][s] \in Nat
             /\ allowed[c][s] <= allowed'[c][s]
             /\ allowed'[c][s] <= t
             /\ (\E i \in Instances : s \in p[i][c]) => allowed'[c][s] = t
  <2>1. allowed'[c][s] = IF \E i \in Instances : s \in p[i][c] THEN t ELSE allowed[c][s]
    BY DEF Allowed
  <2>2. allowed[c][s] \in Nat /\ allowed[c][s] <= now /\ allowed[c][s] <= t
    <3>1. allowed[c][s] \in Nat /\ allowed[c][s] <= now
      BY DEF PolicyDated
    <3> DEFINE last == allowed[c][s]
    <3>2. last \in Nat /\ last <= now
      BY <3>1
    <3> HIDE DEF last
    <3>3. last <= t
      BY <3>2
    <3>. QED  BY <3>2, <3>3 DEF last
  <2>. QED  BY <2>1, <2>2
<1>2. allowed' \in [Clients -> [Scopes -> Nat]]
  <2>1. \A c \in Clients : allowed'[c] = [s \in Scopes |-> allowed'[c][s]]
    BY DEF Allowed
  <2>2. \A c \in Clients : allowed'[c] \in [Scopes -> Nat]
    BY <1>1, <2>1
  <2>3. allowed' = [c \in Clients |-> allowed'[c]]
    BY DEF Allowed
  <2>. QED  BY <2>2, <2>3
<1>3. \A i \in Instances, c \in Clients : p[i][c] \subseteq Scopes
  BY OAuthAssumption
<1>. QED  BY <1>1, <1>2, <1>3

\* Rows that stay are dated as they were when the dates move forward.
LEMMA RowsStayDated ==
  ASSUME Shapes, PolicyDated, RowsDated, RowsKept,
         allowed' \in [Clients -> [Scopes -> Nat]],
         \A c \in Clients, s \in Scopes : allowed[c][s] <= allowed'[c][s]
  PROVE  \A a \in DOMAIN artifacts : RowDated(a)'
<1>. SUFFICES ASSUME NEW a \in DOMAIN artifacts PROVE RowDated(a)'
  OBVIOUS
<1>1. /\ artifacts[a].scopes \subseteq Scopes
      /\ artifacts[a].client \in Clients
      /\ artifacts[a].expires \in Nat
  BY RowTyped DEF Shapes, Row
<1>2. /\ artifacts'[a].kind = artifacts[a].kind
      /\ artifacts'[a].client = artifacts[a].client
      /\ artifacts'[a].scopes = artifacts[a].scopes
      /\ artifacts'[a].expires = artifacts[a].expires
  BY DEF RowsKept
<1>. SUFFICES ASSUME NEW s \in artifacts[a].scopes
              PROVE  /\ artifacts[a].kind = "authorization_code" =>
                          artifacts[a].expires <= allowed'[artifacts[a].client][s] + CodeTTL
                     /\ artifacts[a].kind = "access_token" =>
                          artifacts[a].expires + 1
                            <= allowed'[artifacts[a].client][s] + CodeTTL + AccessTTL + RequestTicks
  BY <1>2 DEF RowDated
<1> DEFINE before == allowed[artifacts[a].client][s]
           after == allowed'[artifacts[a].client][s]
<1>3. before \in Nat /\ after \in Nat /\ before <= after
  BY <1>1 DEF PolicyDated
<1>4. /\ artifacts[a].kind = "authorization_code" => artifacts[a].expires <= before + CodeTTL
      /\ artifacts[a].kind = "access_token" =>
           artifacts[a].expires + 1 <= before + CodeTTL + AccessTTL + RequestTicks
  BY DEF RowsDated, RowDated
<1>5. CodeTTL \in Nat /\ AccessTTL \in Nat /\ RequestTicks \in Nat
  BY OAuthAssumption
<1> HIDE DEF before, after
<1>6. /\ artifacts[a].kind = "authorization_code" => artifacts[a].expires <= after + CodeTTL
      /\ artifacts[a].kind = "access_token" =>
           artifacts[a].expires + 1 <= after + CodeTTL + AccessTTL + RequestTicks
  BY <1>1, <1>3, <1>4, <1>5
<1>. QED  BY <1>6 DEF after

\* A step that leaves the clock, the policies and the dates alone, keeps the
\* rows, and moves one request.
LEMMA OneRequestMoves ==
  ASSUME Shapes, DatedInv, NEW i \in Instances, RowsKept, DOMAIN artifacts' = DOMAIN artifacts,
         now' = now, policy' = policy, allowed' = allowed,
         \A j \in Instances \ {i} : request'[j] = request[j],
         request'[i] # Idle => RequestDated(i)'
  PROVE  DatedInv'
<1>1. PolicyDated'
  BY DEF DatedInv, PolicyDated
<1>2. RowsDated'
  <2>1. /\ allowed' \in [Clients -> [Scopes -> Nat]]
        /\ \A c \in Clients, s \in Scopes : allowed[c][s] <= allowed'[c][s]
    BY DEF DatedInv, PolicyDated
  <2>. QED  BY <2>1, RowsStayDated DEF DatedInv, RowsDated
<1>3. RequestsDated'
  <2>. SUFFICES ASSUME NEW j \in Instances, request'[j] # Idle PROVE RequestDated(j)'
    BY DEF RequestsDated
  <2>1. CASE j # i
    BY <2>1 DEF DatedInv, RequestsDated, RequestDated
  <2>. QED  BY <2>1
<1>. QED  BY <1>1, <1>2, <1>3 DEF DatedInv

LEMMA InitDated == Init => DatedInv
<1>. SUFFICES ASSUME Init PROVE DatedInv
  OBVIOUS
<1>1. PolicyDated
  <2>1. /\ now = 0
        /\ policy \in [Instances -> Policies]
        /\ allowed = [c \in Clients |-> [s \in Scopes |-> 0]]
    BY DEF Init
  <2>2. \A i \in Instances, c \in Clients : policy[i][c] \subseteq Scopes
    BY <2>1, OAuthAssumption
  <2>. QED  BY <2>1, <2>2 DEF PolicyDated
<1>2. RowsDated
  <2>1. DOMAIN artifacts = {}
    BY DEF Init
  <2>. QED  BY <2>1 DEF RowsDated
<1>3. RequestsDated
  BY DEF Init, RequestsDated
<1>. QED  BY <1>1, <1>2, <1>3 DEF DatedInv

\* What a request may hold it holds now.
LEMMA HeldNow ==
  ASSUME PolicyDated, NEW i \in Instances, NEW c \in Clients, NEW scopes,
         scopes \subseteq policy[i][c]
  PROVE  \A s \in scopes : allowed[c][s] = now
  BY DEF PolicyDated

\* A row that is put is dated if its scopes are.
LEMMA PutDated ==
  ASSUME Shapes, DatedInv, NEW n, RowsKept, DOMAIN artifacts' = DOMAIN artifacts \cup {n},
         now' = now, policy' = policy, allowed' = allowed,
         \A s \in artifacts'[n].scopes :
           /\ artifacts'[n].kind = "authorization_code" =>
                artifacts'[n].expires <= allowed[artifacts'[n].client][s] + CodeTTL
           /\ artifacts'[n].kind = "access_token" =>
                artifacts'[n].expires + 1
                  <= allowed[artifacts'[n].client][s] + CodeTTL + AccessTTL + RequestTicks
  PROVE  PolicyDated' /\ RowsDated'
<1>1. PolicyDated'
  BY DEF DatedInv, PolicyDated
<1>2. /\ allowed' \in [Clients -> [Scopes -> Nat]]
      /\ \A c \in Clients, s \in Scopes : allowed[c][s] <= allowed'[c][s]
  BY DEF DatedInv, PolicyDated
<1>3. \A a \in DOMAIN artifacts : RowDated(a)'
  BY <1>2, RowsStayDated DEF DatedInv
<1>4. RowDated(n)'
  BY DEF RowDated
<1>. QED  BY <1>1, <1>3, <1>4 DEF RowsDated

LEMMA AuthorizeDated ==
  ASSUME Shapes, DatedInv, NEW i \in Instances, NEW c \in Clients, NEW scopes \in Asked,
         Authorize(i, c, scopes)
  PROVE  DatedInv'
<1> DEFINE n == Len(artifacts) + 1
<1>1. /\ now' = now /\ policy' = policy /\ allowed' = allowed /\ request' = request
      /\ scopes \subseteq policy[i][c]
  BY DEF Authorize, MayHold
<1>2. /\ RowsKept
      /\ DOMAIN artifacts' = DOMAIN artifacts \cup {n}
      /\ artifacts'[n].kind = "authorization_code"
      /\ artifacts'[n].client = c
      /\ artifacts'[n].scopes = scopes
      /\ artifacts'[n].expires = now + CodeTTL
  <2>1. /\ scopes \in SUBSET Scopes /\ CodeTTL \in Nat
        /\ NoGrant \in Nat /\ "authorization_code" \in Kinds
    BY OAuthAssumption DEF NoGrant, Kinds
  <2>2. Put("authorization_code", c, scopes, CodeTTL, NoGrant)
    BY DEF Authorize
  <2>. QED  BY <2>1, <2>2, RowPut
<1> HIDE DEF n
<1>3. \A s \in scopes : artifacts'[n].expires <= allowed[c][s] + CodeTTL
  <2>1. \A s \in scopes : allowed[c][s] = now
    BY <1>1, HeldNow DEF DatedInv
  <2>2. now + CodeTTL <= now + CodeTTL
    BY OAuthAssumption DEF Shapes
  <2>. QED  BY <1>2, <2>1, <2>2
<1>4. PolicyDated' /\ RowsDated'
  BY <1>1, <1>2, <1>3, PutDated
<1>5. RequestsDated'
  BY <1>1 DEF DatedInv, RequestsDated, RequestDated
<1>. QED  BY <1>4, <1>5 DEF DatedInv

LEMMA IssueForClientDated ==
  ASSUME Shapes, DatedInv, NEW i \in Instances, NEW c \in Clients, NEW scopes \in Asked,
         IssueForClient(i, c, scopes)
  PROVE  DatedInv'
<1> DEFINE r == [pc |-> "put access", grant |-> NoGrant, kind |-> "bootstrap",
                 client |-> c, scopes |-> scopes, age |-> 0]
<1>1. /\ r.pc = "put access" /\ r.kind = "bootstrap"
      /\ r.client = c /\ r.scopes = scopes /\ r.age = 0
  OBVIOUS
<1>2. /\ request' = [request EXCEPT ![i] = r]
      /\ now' = now /\ artifacts' = artifacts /\ policy' = policy /\ allowed' = allowed
      /\ scopes \subseteq policy[i][c]
  BY DEF IssueForClient, MayHold
<1> HIDE DEF r
<1>3. request'[i] = r /\ \A j \in Instances \ {i} : request'[j] = request[j]
  BY <1>2 DEF Shapes
<1>4. 0 <= RequestTicks
  BY OAuthAssumption
<1>5. /\ request'[i].age <= RequestTicks
      /\ request'[i].kind # "authorization_code"
      /\ request'[i].scopes \subseteq policy'[i][request'[i].client]
  BY <1>1, <1>2, <1>3, <1>4
<1>6. RequestDated(i)'
  BY <1>5 DEF RequestDated
<1>. QED  BY <1>2, <1>3, <1>6, RowsUnchanged, OneRequestMoves

LEMMA LoadDated ==
  ASSUME Shapes, DatedInv, NEW i \in Instances, NEW c \in Clients, NEW a \in DOMAIN artifacts,
         NEW kind \in Exchangeable, NEW scopes \in Asked, Load(i, c, a, kind, scopes)
  PROVE  DatedInv'
<1> DEFINE r == [pc |-> "select", grant |-> a, kind |-> kind,
                 client |-> c, scopes |-> scopes, age |-> 0]
<1>1. r.pc = "select" /\ r.age = 0
  OBVIOUS
<1>2. /\ request' = [request EXCEPT ![i] = r]
      /\ now' = now /\ artifacts' = artifacts /\ policy' = policy /\ allowed' = allowed
  BY DEF Load
<1> HIDE DEF r
<1>3. request'[i] = r /\ \A j \in Instances \ {i} : request'[j] = request[j]
  BY <1>2 DEF Shapes
<1>4. 0 <= RequestTicks
  BY OAuthAssumption
<1>5. request'[i].age <= RequestTicks /\ request'[i].pc = "select"
  BY <1>1, <1>3, <1>4
<1>6. RequestDated(i)'
  BY <1>5 DEF RequestDated
<1>. QED  BY <1>2, <1>3, <1>6, RowsUnchanged, OneRequestMoves

LEMMA EndedDated ==
  ASSUME Shapes, DatedInv, NEW i \in Instances, request' = [request EXCEPT ![i] = Idle],
         RowsKept, DOMAIN artifacts' = DOMAIN artifacts,
         now' = now, policy' = policy, allowed' = allowed
  PROVE  DatedInv'
<1>1. request'[i] = Idle /\ \A j \in Instances \ {i} : request'[j] = request[j]
  BY DEF Shapes
<1>. QED  BY <1>1, OneRequestMoves

LEMMA SelectDated ==
  ASSUME IInv, DatedInv, NEW i \in Instances, Select(i) PROVE DatedInv'
<1> DEFINE a == request[i].grant
<1>1. /\ request[i].pc = "select"
      /\ now' = now /\ artifacts' = artifacts /\ policy' = policy /\ allowed' = allowed
      /\ RowsKept
  BY RowsUnchanged DEF Select
<1>2. request[i] # Idle /\ a # NoGrant /\ request[i] \in InService
  BY <1>1, NotIdle DEF IInv, BootstrapIssues
<1>3. a \in DOMAIN artifacts /\ Backs(artifacts[a], request[i])
  BY <1>2 DEF IInv, RequestBacked
<1>4. CASE Valid(a, request[i].kind) /\ Goto(i, "consume")
  <2>1. /\ request'[i].pc = "consume"
        /\ request'[i].kind = request[i].kind
        /\ request'[i].client = request[i].client
        /\ request'[i].scopes = request[i].scopes
        /\ request'[i].age = request[i].age
        /\ \A j \in Instances \ {i} : request'[j] = request[j]
    BY <1>2, <1>4, Moved DEF IInv
  <2>2. request[i].age <= RequestTicks
    BY <1>2 DEF DatedInv, RequestsDated, RequestDated
  <2>3. ASSUME request[i].kind = "authorization_code", NEW s \in request[i].scopes
        PROVE  now + 1 <= allowed[request[i].client][s] + CodeTTL + request[i].age
    <3> DEFINE last == allowed[request[i].client][s]
               due == artifacts[a].expires
    <3>1. /\ artifacts[a].kind = "authorization_code"
          /\ artifacts[a].client = request[i].client
          /\ s \in artifacts[a].scopes
      BY <1>3, <2>3 DEF Backs
    <3>2. due <= last + CodeTTL
      BY <1>3, <3>1 DEF DatedInv, RowsDated, RowDated
    <3>3. due > now /\ due \in Nat
      BY <1>3, <1>4, RowTyped DEF IInv, Shapes, Row, Valid
    <3>4. last \in Nat
      BY <1>2, <2>3 DEF DatedInv, PolicyDated, InService
    <3>5. /\ now \in Nat /\ CodeTTL \in Nat /\ request[i].age \in Nat
      BY <1>2, OAuthAssumption DEF IInv, Shapes, InService
    <3> HIDE DEF last, due
    <3>6. now + 1 <= last + CodeTTL + request[i].age
      BY <3>2, <3>3, <3>4, <3>5
    <3>. QED  BY <3>6 DEF last
  <2>4. RequestDated(i)'
    BY <1>1, <2>1, <2>2, <2>3 DEF RequestDated
  <2>. QED  BY <1>1, <2>1, <2>4, OneRequestMoves DEF IInv
<1>5. CASE request' = [request EXCEPT ![i] = Idle]
  BY <1>1, <1>5, EndedDated DEF IInv
<1>. QED  BY <1>4, <1>5 DEF Select

LEMMA ConsumeDated ==
  ASSUME IInv, DatedInv, NEW i \in Instances, Consume(i) PROVE DatedInv'
<1> DEFINE a == request[i].grant
<1>1. /\ request[i].pc = "consume"
      /\ now' = now /\ policy' = policy /\ allowed' = allowed
  BY DEF Consume
<1>2. request[i] # Idle /\ a # NoGrant
  BY <1>1, NotIdle DEF IInv, BootstrapIssues
<1>3. a \in DOMAIN artifacts
  BY <1>2 DEF IInv, RequestBacked
<1>4. RowsKept /\ DOMAIN artifacts' = DOMAIN artifacts
  BY <1>3, ConsumedSet DEF Consume, IInv, Shapes
<1>5. CASE Granted(i) /\ Goto(i, "put access")
  <2>1. /\ request'[i].pc = "put access"
        /\ request'[i].kind = request[i].kind
        /\ request'[i].client = request[i].client
        /\ request'[i].scopes = request[i].scopes
        /\ request'[i].age = request[i].age
        /\ \A j \in Instances \ {i} : request'[j] = request[j]
    BY <1>2, <1>5, Moved DEF IInv
  <2>2. RequestDated(i)
    BY <1>2 DEF DatedInv, RequestsDated
  <2>3. request[i].kind # "authorization_code" =>
          request[i].scopes \subseteq policy[i][request[i].client]
    BY <1>5 DEF Granted, MayHold
  <2>4. RequestDated(i)'
    BY <1>1, <2>1, <2>2, <2>3 DEF RequestDated
  <2>. QED  BY <1>1, <1>4, <2>1, <2>4, OneRequestMoves DEF IInv
<1>6. CASE request' = [request EXCEPT ![i] = Idle]
  BY <1>1, <1>4, <1>6, EndedDated DEF IInv
<1>. QED  BY <1>5, <1>6 DEF Consume

LEMMA PutAccessDated ==
  ASSUME CodeTTL > 0, IInv, DatedInv, NEW i \in Instances, PutAccess(i) PROVE DatedInv'
<1> DEFINE n == Len(artifacts) + 1
<1>1. /\ request[i].pc = "put access"
      /\ now' = now /\ policy' = policy /\ allowed' = allowed
  BY DEF PutAccess
<1>2. request[i] # Idle /\ request[i] \in InService
  BY <1>1, NotIdle DEF IInv
<1>3. /\ request'[i].pc = "put refresh"
      /\ request'[i].age = request[i].age
      /\ \A j \in Instances \ {i} : request'[j] = request[j]
  BY <1>2, Moved DEF PutAccess, IInv
<1>4. /\ RowsKept
      /\ DOMAIN artifacts' = DOMAIN artifacts \cup {n}
      /\ artifacts'[n].kind = "access_token"
      /\ artifacts'[n].client = request[i].client
      /\ artifacts'[n].scopes = request[i].scopes
      /\ artifacts'[n].expires = now + AccessTTL
  <2>1. AccessTTL \in Nat /\ "access_token" \in Kinds /\ Shapes
    BY OAuthAssumption DEF Kinds, IInv
  <2>2. Put("access_token", request[i].client, request[i].scopes, AccessTTL, request[i].grant)
    BY DEF PutAccess
  <2>. QED  BY <1>2, <2>1, <2>2, RequestPut
<1> HIDE DEF n
<1>5. RequestDated(i)
  BY <1>2 DEF DatedInv, RequestsDated
<1>6. ASSUME NEW s \in request[i].scopes
      PROVE  now + AccessTTL + 1
               <= allowed[request[i].client][s] + CodeTTL + AccessTTL + RequestTicks
  <2> DEFINE last == allowed[request[i].client][s]
             age == request[i].age
  <2>1. /\ now \in Nat /\ CodeTTL \in Nat /\ AccessTTL \in Nat /\ RequestTicks \in Nat
        /\ age \in Nat /\ age <= RequestTicks
    BY <1>2, <1>5, OAuthAssumption DEF IInv, Shapes, InService, RequestDated
  <2>2. last \in Nat
    BY <1>2, <1>6 DEF DatedInv, PolicyDated, InService
  <2>3. CASE request[i].kind = "authorization_code"
    <3>1. now + 1 <= last + CodeTTL + age
      BY <1>1, <1>5, <2>3 DEF RequestDated
    <3> HIDE DEF last, age
    <3>2. now + AccessTTL + 1 <= last + CodeTTL + AccessTTL + RequestTicks
      BY <2>1, <2>2, <3>1
    <3>. QED  BY <3>2 DEF last
  <2>4. CASE request[i].kind # "authorization_code"
    <3>1. request[i].scopes \subseteq policy[i][request[i].client]
      BY <1>1, <1>5, <2>4 DEF RequestDated
    <3>2. last = now
      <4>1. PolicyDated /\ request[i].client \in Clients
        BY <1>2 DEF DatedInv, InService
      <4>. HIDE DEF last
      <4>2. \A c \in request[i].scopes : allowed[request[i].client][c] = now
        BY <3>1, <4>1, HeldNow
      <4>. QED  BY <1>6, <4>2 DEF last
    <3> HIDE DEF last, age
    <3>3. now + AccessTTL + 1 <= last + CodeTTL + AccessTTL + RequestTicks
      BY <2>1, <3>2
    <3>. QED  BY <3>3 DEF last
  <2>. QED  BY <2>3, <2>4
<1>7. PolicyDated' /\ RowsDated'
  BY <1>1, <1>4, <1>6, PutDated DEF IInv
<1>8. RequestsDated'
  <2>. SUFFICES ASSUME NEW j \in Instances, request'[j] # Idle PROVE RequestDated(j)'
    BY DEF RequestsDated
  <2>1. CASE j = i
    BY <1>1, <1>3, <1>5, <2>1 DEF RequestDated
  <2>2. CASE j # i
    BY <1>1, <1>3, <2>2 DEF DatedInv, RequestsDated, RequestDated
  <2>. QED  BY <2>1, <2>2
<1>. QED  BY <1>7, <1>8 DEF DatedInv

LEMMA PutRefreshDated ==
  ASSUME IInv, DatedInv, NEW i \in Instances, PutRefresh(i) PROVE DatedInv'
<1> DEFINE n == Len(artifacts) + 1
<1>1. /\ request[i].pc = "put refresh"
      /\ now' = now /\ policy' = policy /\ allowed' = allowed
  BY DEF PutRefresh
<1>2. request[i] \in InService
  BY <1>1, NotIdle DEF IInv
<1>3. request'[i] = Idle /\ \A j \in Instances \ {i} : request'[j] = request[j]
  BY DEF PutRefresh, IInv, Shapes
<1>4. /\ RowsKept
      /\ DOMAIN artifacts' = DOMAIN artifacts \cup {n}
      /\ artifacts'[n].kind = "refresh_token"
  <2>1. RefreshTTL \in Nat /\ "refresh_token" \in Kinds /\ Shapes
    BY OAuthAssumption DEF Kinds, IInv
  <2>2. Put("refresh_token", request[i].client, request[i].scopes, RefreshTTL, request[i].grant)
    BY DEF PutRefresh
  <2>. QED  BY <1>2, <2>1, <2>2, RequestPut
<1> HIDE DEF n
<1>5. PolicyDated' /\ RowsDated'
  BY <1>1, <1>4, PutDated DEF IInv
<1>6. RequestsDated'
  <2>. SUFFICES ASSUME NEW j \in Instances, request'[j] # Idle PROVE RequestDated(j)'
    BY DEF RequestsDated
  <2>1. CASE j # i
    BY <1>1, <1>3, <2>1 DEF DatedInv, RequestsDated, RequestDated
  <2>. QED  BY <1>3, <2>1
<1>. QED  BY <1>5, <1>6 DEF DatedInv

LEMMA RestartDated ==
  ASSUME IInv, DatedInv, NEW i \in Instances, NEW p \in Policies, Restart(i, p) PROVE DatedInv'
<1>1. /\ policy' = [policy EXCEPT ![i] = p]
      /\ request' = [request EXCEPT ![i] = Idle]
      /\ allowed' = Allowed(policy', now)
      /\ now' = now /\ artifacts' = artifacts
  BY DEF Restart
<1>2. policy' \in [Instances -> Policies] /\ now \in Nat /\ now <= now
  BY <1>1 DEF DatedInv, PolicyDated, IInv, Shapes
<1>3. /\ allowed' \in [Clients -> [Scopes -> Nat]]
      /\ \A c \in Clients, s \in Scopes :
           allowed[c][s] <= allowed'[c][s] /\ allowed'[c][s] <= now
      /\ \A j \in Instances, c \in Clients : \A s \in policy'[j][c] : allowed'[c][s] = now
  <2>1. PICK q : q = policy'
    OBVIOUS
  <2>2. q \in [Instances -> Policies] /\ allowed' = Allowed(q, now)
    BY <1>1, <1>2, <2>1
  <2>3. /\ allowed' \in [Clients -> [Scopes -> Nat]]
        /\ \A c \in Clients, s \in Scopes :
             allowed[c][s] <= allowed'[c][s] /\ allowed'[c][s] <= now
        /\ \A j \in Instances, c \in Clients : \A s \in q[j][c] : allowed'[c][s] = now
    BY <1>2, <2>2, DatesAdvance DEF DatedInv
  <2>. QED  BY <2>1, <2>3
<1>4. PolicyDated'
  <2>1. \A c \in Clients, s \in Scopes : allowed'[c][s] <= now'
    BY <1>1, <1>3
  <2>2. \A j \in Instances, c \in Clients : \A s \in policy'[j][c] : allowed'[c][s] = now'
    BY <1>1, <1>3
  <2>3. policy' \in [Instances -> Policies] /\ allowed' \in [Clients -> [Scopes -> Nat]]
    BY <1>2, <1>3
  <2>. QED  BY <2>1, <2>2, <2>3 DEF PolicyDated
<1>5. RowsDated'
  BY <1>1, <1>3, RowsUnchanged, RowsStayDated DEF DatedInv, RowsDated, IInv
<1>6. RequestsDated'
  <2>. SUFFICES ASSUME NEW j \in Instances, request'[j] # Idle PROVE RequestDated(j)'
    BY DEF RequestsDated
  <2>1. /\ j # i /\ request'[j] = request[j] /\ policy'[j] = policy[j]
    BY <1>1 DEF IInv, Shapes, DatedInv, PolicyDated
  <2>2. RequestDated(j) /\ request[j] \in InService
    BY <2>1, NotIdle DEF IInv, DatedInv, RequestsDated
  <2>3. ASSUME request[j].kind = "authorization_code",
               request[j].pc \in {"consume", "put access"}, NEW s \in request[j].scopes
        PROVE  now + 1 <= allowed'[request[j].client][s] + CodeTTL + request[j].age
    <3> DEFINE before == allowed[request[j].client][s]
               after == allowed'[request[j].client][s]
    <3>1. now + 1 <= before + CodeTTL + request[j].age
      BY <2>2, <2>3 DEF RequestDated
    <3>2. before \in Nat /\ after \in Nat /\ before <= after
      BY <1>3, <2>2, <2>3 DEF InService, DatedInv, PolicyDated
    <3>3. request[j].age \in Nat /\ CodeTTL \in Nat
      BY <2>2, OAuthAssumption DEF InService
    <3> HIDE DEF before, after
    <3>4. now + 1 <= after + CodeTTL + request[j].age
      BY <1>2, <3>1, <3>2, <3>3
    <3>. QED  BY <3>4 DEF after
  <2>. QED  BY <1>1, <2>1, <2>2, <2>3 DEF RequestDated
<1>. QED  BY <1>4, <1>5, <1>6 DEF DatedInv

LEMMA TickDated == ASSUME IInv, DatedInv, Tick PROVE DatedInv'
<1>1. /\ now' = now + 1 /\ now \in Nat /\ now + 1 \in Nat /\ now <= now + 1
      /\ artifacts' = artifacts /\ policy' = policy
      /\ allowed' = Allowed(policy, now + 1)
  BY DEF Tick, IInv, Shapes
<1>2. /\ allowed' \in [Clients -> [Scopes -> Nat]]
      /\ \A c \in Clients, s \in Scopes :
           allowed[c][s] <= allowed'[c][s] /\ allowed'[c][s] <= now + 1
      /\ \A j \in Instances, c \in Clients : \A s \in policy[j][c] : allowed'[c][s] = now + 1
  <2>1. PICK t : t = now + 1
    OBVIOUS
  <2>2. t \in Nat /\ now <= t /\ allowed' = Allowed(policy, t)
    BY <1>1, <2>1
  <2>3. PolicyDated /\ policy \in [Instances -> Policies]
    BY DEF DatedInv, PolicyDated
  <2>4. /\ allowed' \in [Clients -> [Scopes -> Nat]]
        /\ \A c \in Clients, s \in Scopes :
             allowed[c][s] <= allowed'[c][s] /\ allowed'[c][s] <= t
        /\ \A j \in Instances, c \in Clients : \A s \in policy[j][c] : allowed'[c][s] = t
    BY <1>1, <2>2, <2>3, DatesAdvance
  <2>. QED  BY <2>1, <2>4
<1>3. PolicyDated'
  BY <1>1, <1>2 DEF DatedInv, PolicyDated
<1>4. RowsDated'
  BY <1>1, <1>2, RowsUnchanged, RowsStayDated DEF DatedInv, RowsDated, IInv
<1>5. RequestsDated'
  <2>. SUFFICES ASSUME NEW j \in Instances, request'[j] # Idle PROVE RequestDated(j)'
    BY DEF RequestsDated
  <2>1. request[j] # Idle /\ request'[j] = [request[j] EXCEPT !.age = @ + 1]
    BY DEF Tick
  <2>2. RequestDated(j) /\ request[j] \in InService /\ request[j].age < RequestTicks
    BY <2>1, NotIdle DEF IInv, DatedInv, RequestsDated, Tick
  <2>3. request[j].age \in Nat
    BY <2>2 DEF InService
  <2> DEFINE age == request[j].age + 1
  <2>4. /\ request'[j].age = age
        /\ request'[j].pc = request[j].pc
        /\ request'[j].kind = request[j].kind
        /\ request'[j].client = request[j].client
        /\ request'[j].scopes = request[j].scopes
    <3>1. age \in Nat /\ request'[j] = [request[j] EXCEPT !.age = age]
      BY <2>1, <2>3
    <3> HIDE DEF age
    <3>. QED  BY <2>2, <3>1 DEF InService
  <2>5. age <= RequestTicks
    BY <2>2, <2>3, OAuthAssumption
  <2>6. ASSUME request[j].kind = "authorization_code",
               request[j].pc \in {"consume", "put access"}, NEW s \in request[j].scopes
        PROVE  (now + 1) + 1 <= allowed'[request[j].client][s] + CodeTTL + age
    <3> DEFINE before == allowed[request[j].client][s]
               after == allowed'[request[j].client][s]
    <3>1. now + 1 <= before + CodeTTL + request[j].age
      BY <2>2, <2>6 DEF RequestDated
    <3>2. before \in Nat /\ after \in Nat /\ before <= after
      BY <1>2, <2>2, <2>6 DEF InService, DatedInv, PolicyDated
    <3>3. CodeTTL \in Nat
      BY OAuthAssumption
    <3> HIDE DEF before, after
    <3>4. (now + 1) + 1 <= after + CodeTTL + age
      BY <1>1, <2>3, <3>1, <3>2, <3>3
    <3>. QED  BY <3>4 DEF after
  <2> HIDE DEF age
  <2>. QED  BY <1>1, <2>2, <2>4, <2>5, <2>6 DEF RequestDated
<1>. QED  BY <1>3, <1>4, <1>5 DEF DatedInv

LEMMA StepDated == ASSUME CodeTTL > 0, IInv, DatedInv, [Next]_vars PROVE DatedInv'
<1>. Shapes
  BY DEF IInv
<1>1. ASSUME NEW i \in Instances, NEW c \in Clients, NEW scopes \in Asked,
             Authorize(i, c, scopes)
      PROVE  DatedInv'
  BY <1>1, AuthorizeDated
<1>2. ASSUME NEW i \in Instances, NEW c \in Clients, NEW scopes \in Asked,
             IssueForClient(i, c, scopes)
      PROVE  DatedInv'
  BY <1>2, IssueForClientDated
<1>3. ASSUME NEW i \in Instances, NEW c \in Clients, NEW scopes \in Asked,
             NEW a \in DOMAIN artifacts, NEW kind \in Exchangeable, Load(i, c, a, kind, scopes)
      PROVE  DatedInv'
  BY <1>3, LoadDated
<1>4. ASSUME NEW i \in Instances, Select(i) PROVE DatedInv'
  BY <1>4, SelectDated
<1>5. ASSUME NEW i \in Instances, Consume(i) PROVE DatedInv'
  BY <1>5, ConsumeDated
<1>6. ASSUME NEW i \in Instances, LoseRace(i) PROVE DatedInv'
  BY <1>6, RowsUnchanged, EndedDated DEF LoseRace
<1>7. ASSUME NEW i \in Instances, PutAccess(i) PROVE DatedInv'
  BY <1>7, PutAccessDated
<1>8. ASSUME NEW i \in Instances, PutRefresh(i) PROVE DatedInv'
  BY <1>8, PutRefreshDated
<1>9. ASSUME NEW i \in Instances, NEW a \in DOMAIN artifacts, Revoke(i, a) PROVE DatedInv'
  <2>1. /\ RowsKept /\ DOMAIN artifacts' = DOMAIN artifacts
        /\ request' = [request EXCEPT ![i] = Idle]
        /\ now' = now /\ policy' = policy /\ allowed' = allowed
    BY <1>9, RevokedSet DEF Revoke, Shapes
  <2>. QED  BY <2>1, EndedDated
<1>10. ASSUME NEW i \in Instances, NEW p \in Policies, Restart(i, p) PROVE DatedInv'
  BY <1>10, RestartDated
<1>11. CASE Tick
  BY <1>11, TickDated
<1>12. CASE UNCHANGED vars
  <2>1. /\ artifacts' = artifacts /\ request' = request
        /\ now' = now /\ policy' = policy /\ allowed' = allowed
    BY <1>12 DEF vars
  <2>2. PolicyDated'
    BY <2>1 DEF DatedInv, PolicyDated
  <2>3. RowsDated'
    BY <2>1 DEF DatedInv, RowsDated, RowDated
  <2>4. RequestsDated'
    BY <2>1 DEF DatedInv, RequestsDated, RequestDated
  <2>. QED  BY <2>2, <2>3, <2>4 DEF DatedInv
<1>. QED  BY <1>1, <1>2, <1>3, <1>4, <1>5, <1>6, <1>7, <1>8, <1>9, <1>10, <1>11, <1>12 DEF Next

LEMMA DatedHolds == ASSUME Shapes, DatedInv PROVE EditedPolicyHolds
<1>. SUFFICES ASSUME NEW a \in DOMAIN artifacts, Honoured(a), NEW s \in artifacts[a].scopes
              PROVE  now + 2
                       <= allowed[artifacts[a].client][s] + CodeTTL + AccessTTL + RequestTicks
  BY DEF EditedPolicyHolds
<1> DEFINE last == allowed[artifacts[a].client][s]
           due == artifacts[a].expires
<1>1. artifacts[a].kind = "access_token" /\ due > now
  BY DEF Honoured, Valid
<1>2. due + 1 <= last + CodeTTL + AccessTTL + RequestTicks
  BY <1>1 DEF DatedInv, RowsDated, RowDated
<1>3. due \in Nat /\ last \in Nat
  BY RowTyped DEF Shapes, Row, DatedInv, PolicyDated
<1>4. now \in Nat /\ CodeTTL \in Nat /\ AccessTTL \in Nat /\ RequestTicks \in Nat
  BY OAuthAssumption DEF Shapes
<1> HIDE DEF last, due
<1>5. now + 2 <= last + CodeTTL + AccessTTL + RequestTicks
  BY <1>1, <1>2, <1>3, <1>4
<1>. QED  BY <1>5 DEF last

\* However the processes interleave and restart and however long a client
\* refreshes, a scope that no process's policy allows any more is in no usable
\* access token after a code's lifetime, a token's, and the time a request takes
\* (auth.py:107-111, :139-141).
THEOREM WithdrawnScopesDieOut ==
  ASSUME CodeTTL > 0 PROVE Spec => []EditedPolicyHolds
<1>1. Init => IInv /\ DatedInv
  BY InitInv, InitDated
<1>2. IInv /\ DatedInv /\ [Next]_vars => IInv' /\ DatedInv'
  BY StepInv, StepDated
<1>3. IInv /\ DatedInv => EditedPolicyHolds
  BY DatedHolds DEF IInv
<1>. QED  BY <1>1, <1>2, <1>3, PTL DEF Spec

(***************************************************************************)
(* What bounds the variables: the clock's bound, and the table's own       *)
(* length, past which no row and no request refers.                        *)
(***************************************************************************)
LEMMA TypesHold == ASSUME IInv, DatedInv, now <= MaxTime PROVE TypeOK
<1>1. now \in 0 .. MaxTime
  BY OAuthAssumption DEF IInv, Shapes
<1>2. /\ Len(artifacts) \in Nat
      /\ DOMAIN artifacts = 1 .. Len(artifacts)
      /\ \A a \in DOMAIN artifacts : artifacts[a] \in Row
  BY RowTyped DEF IInv, Shapes
<1>3. artifacts \in Seq(Artifacts)
  <2>1. ASSUME NEW a \in 1 .. Len(artifacts) PROVE artifacts[a] \in Artifacts
    <3>1. artifacts[a] \in Row
      BY <1>2
    <3>2. artifacts[a].grant \in 0 .. Len(artifacts)
      BY <1>2, <3>1 DEF IInv, GrantExists, NoGrant, Row
    <3>. QED  BY <3>1, <3>2 DEF Row, Artifacts
  <2>2. artifacts = [a \in 1 .. Len(artifacts) |-> artifacts[a]]
    BY <1>2 DEF IInv, Shapes
  <2> DEFINE S == Artifacts
  <2>3. \A a \in 1 .. Len(artifacts) : artifacts[a] \in S
    BY <2>1
  <2> HIDE DEF S
  <2>4. artifacts \in Seq(S)
    BY <1>2, <2>2, <2>3
  <2>. QED  BY <2>4 DEF S
<1>4. request \in [Instances -> {Idle} \cup Requests]
  <2>1. ASSUME NEW i \in Instances, request[i] # Idle PROVE request[i] \in Requests
    <3>1. request[i] \in InService
      BY <2>1, NotIdle DEF IInv
    <3>2. request[i].grant \in 0 .. Len(artifacts)
      <4>1. request[i].grant \in Nat
        BY <3>1 DEF InService
      <4>2. request[i].grant = 0 \/ request[i].grant \in DOMAIN artifacts
        BY <2>1 DEF IInv, RequestBacked, NoGrant
      <4>. QED  BY <1>2, <4>1, <4>2
    <3>3. request[i].age \in 0 .. RequestTicks
      <4>1. request[i].age \in Nat
        BY <3>1 DEF InService
      <4>2. request[i].age <= RequestTicks
        BY <2>1 DEF DatedInv, RequestsDated, RequestDated
      <4>. QED  BY <4>1, <4>2, OAuthAssumption
    <3>. QED  BY <3>1, <3>2, <3>3 DEF InService, Requests
  <2>. QED  BY <2>1 DEF IInv, Shapes
<1>5. allowed \in [Clients -> [Scopes -> 0 .. MaxTime]]
  <2>1. \A c \in Clients : allowed[c] \in [Scopes -> Nat]
    BY DEF DatedInv, PolicyDated
  <2>2. ASSUME NEW c \in Clients, NEW s \in Scopes PROVE allowed[c][s] \in 0 .. MaxTime
    <3> DEFINE last == allowed[c][s]
    <3>1. last \in Nat /\ last <= now
      BY <2>1 DEF DatedInv, PolicyDated
    <3> HIDE DEF last
    <3>2. last \in 0 .. MaxTime
      BY <1>1, <3>1, OAuthAssumption
    <3>. QED  BY <3>2 DEF last
  <2>3. \A c \in Clients : allowed[c] \in [Scopes -> 0 .. MaxTime]
    BY <2>1, <2>2
  <2>. QED  BY <2>3 DEF DatedInv, PolicyDated
<1>. QED  BY <1>1, <1>3, <1>4, <1>5 DEF TypeOK, DatedInv, PolicyDated

LEMMA ClockBounded == ASSUME Shapes, now <= MaxTime, [Next]_vars PROVE now' <= MaxTime
<1>1. CASE Tick
  BY <1>1, OAuthAssumption DEF Tick, Shapes
<1>2. CASE UNCHANGED vars
  BY <1>2 DEF vars
<1>3. CASE Next /\ ~Tick
  <2>1. ASSUME NEW i \in Instances, NEW c \in Clients, NEW scopes \in Asked,
               \/ Authorize(i, c, scopes)
               \/ IssueForClient(i, c, scopes)
               \/ \E a \in DOMAIN artifacts, kind \in Exchangeable : Load(i, c, a, kind, scopes)
        PROVE  now' = now
    BY <2>1 DEF Authorize, IssueForClient, Load
  <2>2. ASSUME NEW i \in Instances, Select(i) \/ Consume(i) \/ LoseRace(i) PROVE now' = now
    BY <2>2 DEF Select, Consume, LoseRace
  <2>3. ASSUME NEW i \in Instances, PutAccess(i) \/ PutRefresh(i) PROVE now' = now
    BY <2>3 DEF PutAccess, PutRefresh
  <2>4. ASSUME NEW i \in Instances,
               \/ \E a \in DOMAIN artifacts : Revoke(i, a)
               \/ \E p \in Policies : Restart(i, p)
        PROVE  now' = now
    BY <2>4 DEF Revoke, Restart
  <2>5. now' = now
    BY <1>3, <2>1, <2>2, <2>3, <2>4 DEF Next
  <2>. QED  BY <2>5
<1>. QED  BY <1>1, <1>2, <1>3

\* Rows and requests never refer past the end of the table, no request outlives
\* its time, and no date is past the clock.
THEOREM TypeCorrect == ASSUME CodeTTL > 0 PROVE Spec => []TypeOK
<1>1. Init => IInv /\ DatedInv /\ now <= MaxTime
  BY InitInv, InitDated, OAuthAssumption DEF Init
<1>2. IInv /\ DatedInv /\ now <= MaxTime /\ [Next]_vars =>
        IInv' /\ DatedInv' /\ (now <= MaxTime)'
  BY StepInv, StepDated, ClockBounded DEF IInv
<1>3. IInv /\ DatedInv /\ now <= MaxTime => TypeOK
  BY TypesHold
<1>. QED  BY <1>1, <1>2, <1>3, PTL DEF Spec

-----------------------------------------------------------------------------
(***************************************************************************)
(* A revoked refresh token issues nothing, when one process serves the     *)
(* endpoints: nothing comes between its SELECT and its UPDATE.             *)
(***************************************************************************)
OneInstance == \A i, j \in Instances : i = j

\* What is about to be exchanged is not revoked.
InHandUnrevoked ==
  \A i \in Instances :
    /\ request[i] # Idle
    /\ request[i].grant # NoGrant
    /\ request[i].pc \in {"consume", "put access"}
    => ~artifacts[request[i].grant].revoked

\* A request that has not reached the consume stage has nothing in hand.
LEMMA NothingInHand ==
  ASSUME \A i \in Instances :
           request'[i] # Idle /\ request'[i].grant # NoGrant =>
             request'[i].pc \notin {"consume", "put access"}
  PROVE  InHandUnrevoked'
  BY DEF InHandUnrevoked

\* An instance whose request has ended holds nothing, and there is no other.
LEMMA EndedInHand ==
  ASSUME OneInstance, Shapes, NEW i \in Instances, request' = [request EXCEPT ![i] = Idle]
  PROVE  InHandUnrevoked'
<1>1. \A j \in Instances : request'[j] = Idle
  BY DEF OneInstance, Shapes
<1>. QED  BY <1>1, NothingInHand

LEMMA StepInHand ==
  ASSUME OneInstance, IInv, InHandUnrevoked, [Next]_vars
  PROVE  InHandUnrevoked'
<1>. Shapes
  BY DEF IInv
<1>1. ASSUME NEW i \in Instances, request[i] = Idle, request' = request PROVE InHandUnrevoked'
  <2>1. \A j \in Instances : request'[j] = Idle
    BY <1>1 DEF OneInstance
  <2>. QED  BY <2>1, NothingInHand
<1>2. ASSUME NEW i \in Instances, NEW c \in Clients, NEW scopes \in Asked,
             IssueForClient(i, c, scopes)
      PROVE  InHandUnrevoked'
  <2> DEFINE r == [pc |-> "put access", grant |-> NoGrant, kind |-> "bootstrap",
                   client |-> c, scopes |-> scopes, age |-> 0]
  <2>1. r.grant = NoGrant
    OBVIOUS
  <2>2. request' = [request EXCEPT ![i] = r]
    BY <1>2 DEF IssueForClient
  <2> HIDE DEF r
  <2>3. \A j \in Instances : request'[j] = r
    BY <2>2 DEF OneInstance, Shapes
  <2>. QED  BY <2>1, <2>3, NothingInHand
<1>3. ASSUME NEW i \in Instances, NEW c \in Clients, NEW scopes \in Asked,
             NEW a \in DOMAIN artifacts, NEW kind \in Exchangeable, Load(i, c, a, kind, scopes)
      PROVE  InHandUnrevoked'
  <2> DEFINE r == [pc |-> "select", grant |-> a, kind |-> kind,
                   client |-> c, scopes |-> scopes, age |-> 0]
  <2>1. r.pc = "select"
    OBVIOUS
  <2>2. request' = [request EXCEPT ![i] = r]
    BY <1>3 DEF Load
  <2> HIDE DEF r
  <2>3. \A j \in Instances : request'[j] = r
    BY <2>2 DEF OneInstance, Shapes
  <2>. QED  BY <2>1, <2>3, NothingInHand
<1>4. ASSUME NEW i \in Instances, Select(i) PROVE InHandUnrevoked'
  <2>1. CASE Valid(request[i].grant, request[i].kind) /\ Goto(i, "consume")
    <3>1. request[i].pc = "select" /\ artifacts' = artifacts
      BY <1>4 DEF Select
    <3>2. request'[i].grant = request[i].grant
      BY <2>1, <3>1, NotIdle, Moved
    <3>3. ~artifacts[request[i].grant].revoked
      BY <2>1 DEF Valid
    <3>. QED  BY <3>1, <3>2, <3>3 DEF OneInstance, InHandUnrevoked
  <2>2. CASE request' = [request EXCEPT ![i] = Idle]
    BY <2>2, EndedInHand
  <2>. QED  BY <1>4, <2>1, <2>2 DEF Select
<1>5. ASSUME NEW i \in Instances, Consume(i) PROVE InHandUnrevoked'
  <2> DEFINE a == request[i].grant
  <2>1. request[i].pc = "consume"
    BY <1>5 DEF Consume
  <2>2. request[i] # Idle /\ a # NoGrant
    BY <2>1, NotIdle DEF IInv, BootstrapIssues
  <2>3. a \in DOMAIN artifacts /\ ~artifacts[a].revoked
    BY <2>1, <2>2 DEF IInv, RequestBacked, InHandUnrevoked
  <2>4. ~artifacts'[a].revoked
    BY <1>5, <2>3, ConsumedSet DEF Consume, Shapes
  <2>5. CASE Granted(i) /\ Goto(i, "put access")
    <3>1. request'[i].grant = a
      BY <2>2, <2>5, Moved
    <3>. QED  BY <2>4, <3>1 DEF OneInstance, InHandUnrevoked
  <2>6. CASE request' = [request EXCEPT ![i] = Idle]
    BY <2>6, EndedInHand
  <2>. QED  BY <1>5, <2>5, <2>6 DEF Consume
<1>6. ASSUME NEW i \in Instances, PutAccess(i) PROVE InHandUnrevoked'
  <2>1. request[i] # Idle /\ Goto(i, "put refresh")
    BY <1>6, NotIdle DEF PutAccess
  <2>2. request'[i].pc = "put refresh"
    BY <2>1, Moved
  <2>3. \A j \in Instances : request'[j].pc = "put refresh"
    BY <2>2 DEF OneInstance
  <2>. QED  BY <2>3, NothingInHand
<1>7. ASSUME NEW i \in Instances, NEW p \in Policies, Restart(i, p) PROVE InHandUnrevoked'
  BY <1>7, EndedInHand DEF Restart
<1>8. CASE Tick
  <2>1. artifacts' = artifacts
    BY <1>8 DEF Tick
  <2>2. ASSUME NEW i \in Instances, request'[i] # Idle
        PROVE  /\ request[i] # Idle
               /\ request'[i].pc = request[i].pc
               /\ request'[i].grant = request[i].grant
    <3>1. request[i] # Idle /\ request'[i] = [request[i] EXCEPT !.age = @ + 1]
      BY <1>8, <2>2 DEF Tick
    <3>2. request[i] \in InService
      BY <3>1, NotIdle
    <3>. QED  BY <3>1, <3>2 DEF InService
  <2>. QED  BY <2>1, <2>2 DEF InHandUnrevoked
<1>9. CASE UNCHANGED vars
  <2>1. artifacts' = artifacts /\ request' = request
    BY <1>9 DEF vars
  <2>. QED  BY <2>1 DEF InHandUnrevoked
<1>10. ASSUME NEW i \in Instances, NEW c \in Clients, NEW scopes \in Asked, Authorize(i, c, scopes)
       PROVE  InHandUnrevoked'
  BY <1>1, <1>10 DEF Authorize
<1>11. ASSUME NEW i \in Instances, NEW a \in DOMAIN artifacts, Revoke(i, a) PROVE InHandUnrevoked'
  BY <1>1, <1>11 DEF Revoke
<1>12. ASSUME NEW i \in Instances, LoseRace(i) \/ PutRefresh(i) PROVE InHandUnrevoked'
  BY <1>12, EndedInHand DEF LoseRace, PutRefresh
<1>. QED  BY <1>2, <1>3, <1>4, <1>5, <1>6, <1>7, <1>8, <1>9, <1>10, <1>11, <1>12 DEF Next

\* With one process a refresh token or code that is revoked before its
\* exchange issues no access token (auth.py:129-139, store.py:175-195); with
\* two, a revocation between the two statements of the exchange is lost.
THEOREM RevokedIssuesNothing ==
  ASSUME OneInstance PROVE Spec => RevokedNotRedeemed
<1>1. Init => IInv /\ InHandUnrevoked
  BY InitInv DEF Init, InHandUnrevoked
<1>2. IInv /\ InHandUnrevoked /\ [Next]_vars => IInv' /\ InHandUnrevoked'
  BY StepInv, StepInHand
<1>3. ASSUME IInv, InHandUnrevoked, NEW i \in Instances,
             PutAccess(i), request[i].grant # NoGrant
      PROVE  ~artifacts[request[i].grant].revoked
  <2>1. request[i].pc = "put access"
    BY <1>3 DEF PutAccess
  <2>2. request[i] # Idle
    BY <1>3, <2>1, NotIdle DEF IInv
  <2>. QED  BY <1>3, <2>1, <2>2 DEF InHandUnrevoked
<1>4. IInv /\ InHandUnrevoked =>
        (\A i \in Instances : PutAccess(i) /\ request[i].grant # NoGrant =>
           ~artifacts[request[i].grant].revoked)
  BY <1>3
<1>. QED  BY <1>1, <1>2, <1>4, PTL DEF Spec, RevokedNotRedeemed

-----------------------------------------------------------------------------
(***************************************************************************)
(* No revival: no statement of any process clears a flag or moves an       *)
(* expiry, and the clock does not go back.                                 *)
(***************************************************************************)
LEMMA StepKeepsRows ==
  ASSUME IInv, [Next]_vars PROVE RowsKept /\ now \in Nat /\ now' \in Nat /\ now <= now'
<1>. Shapes /\ now \in Nat
  BY DEF IInv, Shapes
<1>1. ASSUME artifacts' = artifacts, now' = now PROVE RowsKept /\ now' \in Nat /\ now <= now'
  BY <1>1, RowsUnchanged
<1>2. ASSUME NEW i \in Instances, NEW c \in Clients, NEW scopes \in Asked,
             Authorize(i, c, scopes)
      PROVE  RowsKept /\ now' = now
  <2>1. NoGrant \in Nat /\ "authorization_code" \in Kinds /\ scopes \in SUBSET Scopes
        /\ CodeTTL \in Nat
    BY OAuthAssumption DEF NoGrant, Kinds
  <2>2. Put("authorization_code", c, scopes, CodeTTL, NoGrant) /\ now' = now
    BY <1>2 DEF Authorize
  <2>. QED  BY <2>1, <2>2, RowPut
<1>3. ASSUME NEW i \in Instances, PutAccess(i) \/ PutRefresh(i) PROVE RowsKept /\ now' = now
  <2>1. request[i] \in InService /\ now' = now
    BY <1>3, NotIdle DEF PutAccess, PutRefresh
  <2>2. AccessTTL \in Nat /\ RefreshTTL \in Nat
        /\ "access_token" \in Kinds /\ "refresh_token" \in Kinds
    BY OAuthAssumption DEF Kinds
  <2>3. CASE PutAccess(i)
    <3>1. Put("access_token", request[i].client, request[i].scopes, AccessTTL, request[i].grant)
      BY <2>3 DEF PutAccess
    <3>. QED  BY <2>1, <2>2, <3>1, RequestPut
  <2>4. CASE PutRefresh(i)
    <3>1. Put("refresh_token", request[i].client, request[i].scopes, RefreshTTL, request[i].grant)
      BY <2>4 DEF PutRefresh
    <3>. QED  BY <2>1, <2>2, <3>1, RequestPut
  <2>. QED  BY <1>3, <2>3, <2>4
<1>4. ASSUME NEW i \in Instances, Consume(i) PROVE RowsKept /\ now' = now
  <2>1. request[i].pc = "consume" /\ now' = now
    BY <1>4 DEF Consume
  <2>2. request[i].grant \in DOMAIN artifacts
    BY <2>1, NotIdle DEF IInv, BootstrapIssues, RequestBacked
  <2>. QED  BY <1>4, <2>1, <2>2, ConsumedSet DEF Consume, Shapes
<1>5. ASSUME NEW i \in Instances, NEW a \in DOMAIN artifacts, Revoke(i, a)
      PROVE  RowsKept /\ now' = now
  BY <1>5, RevokedSet DEF Revoke, Shapes
<1>6. CASE Tick
  BY <1>6, RowsUnchanged DEF Tick
<1>7. ASSUME NEW i \in Instances, NEW c \in Clients, NEW scopes \in Asked,
             \/ IssueForClient(i, c, scopes)
             \/ \E a \in DOMAIN artifacts, kind \in Exchangeable : Load(i, c, a, kind, scopes)
      PROVE  artifacts' = artifacts /\ now' = now
  BY <1>7 DEF IssueForClient, Load
<1>8. ASSUME NEW i \in Instances,
             Select(i) \/ LoseRace(i) \/ \E p \in Policies : Restart(i, p)
      PROVE  artifacts' = artifacts /\ now' = now
  BY <1>8 DEF Select, LoseRace, Restart
<1>9. CASE UNCHANGED vars
  BY <1>1, <1>9 DEF vars
<1>10. CASE Next
  <2>1. CASE \E i \in Instances, c \in Clients, scopes \in Asked :
               \/ Authorize(i, c, scopes)
               \/ IssueForClient(i, c, scopes)
               \/ \E a \in DOMAIN artifacts, kind \in Exchangeable : Load(i, c, a, kind, scopes)
    BY <1>1, <1>2, <1>7, <2>1
  <2>2. CASE \E i \in Instances :
               \/ Select(i) \/ Consume(i) \/ LoseRace(i) \/ PutAccess(i) \/ PutRefresh(i)
               \/ \E a \in DOMAIN artifacts : Revoke(i, a)
               \/ \E p \in Policies : Restart(i, p)
    BY <1>1, <1>3, <1>4, <1>5, <1>8, <2>2
  <2>. QED  BY <1>6, <1>10, <2>1, <2>2 DEF Next
<1>. QED  BY <1>9, <1>10

LEMMA DeadStaysDead ==
  ASSUME IInv, [Next]_vars, NEW a \in DOMAIN artifacts, NEW kind \in Kinds, ~Valid(a, kind)
  PROVE  ~Valid(a, kind)'
<1>1. RowsKept /\ now \in Nat /\ now' \in Nat /\ now <= now'
  BY StepKeepsRows
<1>2. artifacts[a].expires \in Nat
  BY RowTyped DEF IInv, Shapes, Row
<1>3. /\ artifacts'[a].kind = artifacts[a].kind
      /\ artifacts'[a].expires = artifacts[a].expires
      /\ artifacts[a].consumed => artifacts'[a].consumed
      /\ artifacts[a].revoked => artifacts'[a].revoked
  BY <1>1 DEF RowsKept
<1>. QED  BY <1>1, <1>2, <1>3 DEF Valid

\* On any number of processes, restarted and dying anywhere, a code or token
\* that was used, revoked or outlived is never good again.
THEOREM NothingRevives == Spec => NoRevival
<1>1. IInv /\ [Next]_vars =>
        \A a \in DOMAIN artifacts, kind \in Kinds : ~Valid(a, kind) => ~Valid(a, kind)'
  BY DeadStaysDead
<1>2. IInv /\ [Next]_vars => IInv'
  BY StepInv
<1>. QED  BY <1>1, <1>2, InitInv, PTL DEF Spec, NoRevival

=============================================================================
