-------------------------- MODULE OAuthRefinement --------------------------
(***************************************************************************)
(* OAuth implements GrantRegister: for any number of processes, any        *)
(* interleaving of their statements and restarts anywhere, a step of the   *)
(* authorization server is one step of the register or none.               *)
(***************************************************************************)
EXTENDS OAuthProofs

\* A process about to put the refresh token has put the access token.
HalfPair ==
  \A i \in Instances : request[i].pc = "put refresh" /\ request[i].grant # NoGrant =>
    \E b \in DOMAIN artifacts : /\ artifacts[b].grant = request[i].grant
                                /\ artifacts[b].scopes = request[i].scopes

\* An access token is never taken in for another.
AccessUnspent ==
  \A a \in DOMAIN artifacts : artifacts[a].kind = "access_token" => artifacts[a].consumed = FALSE

RInv == IInv /\ HalfPair /\ AccessUnspent

-----------------------------------------------------------------------------
(***************************************************************************)
(* What the steps do to the register.                                      *)
(***************************************************************************)
Items ==
  [kind : Kinds, client : Clients, scopes : SUBSET Scopes, spent : BOOLEAN, from : Nat]

LEMMA RegisterShape ==
  ASSUME artifacts \in Seq(Row)
  PROVE  /\ Register \in Seq(Items)
         /\ Len(artifacts) \in Nat
         /\ DOMAIN artifacts = 1 .. Len(artifacts)
         /\ DOMAIN Register = DOMAIN artifacts
         /\ Len(Register) = Len(artifacts)
         /\ \A a \in DOMAIN artifacts :
              /\ artifacts[a] \in Row
              /\ Register[a] =
                   [kind |-> artifacts[a].kind, client |-> artifacts[a].client,
                    scopes |-> artifacts[a].scopes, spent |-> artifacts[a].consumed,
                    from |-> artifacts[a].grant]
<1>1. Len(artifacts) \in Nat /\ DOMAIN artifacts = 1 .. Len(artifacts)
  BY RowTyped
<1>2. DOMAIN Register = 1 .. Len(artifacts)
  BY <1>1 DEF Register
<1>3. Len(Register) = Len(artifacts)
  BY <1>1, <1>2 DEF Register
<1>4. Register \in [1 .. Len(artifacts) -> Items]
  BY <1>1, RowTyped DEF Register, Row, Items
<1>5. Register \in Seq(Items)
  BY <1>1, <1>4
<1>. QED  BY <1>1, <1>2, <1>3, <1>5, RowTyped DEF Register

\* Rows whose issue and spending do not change leave the register alone.
LEMMA RegisterSame ==
  ASSUME artifacts \in Seq(Row), DOMAIN artifacts' = DOMAIN artifacts,
         \A a \in DOMAIN artifacts :
           /\ artifacts'[a].kind = artifacts[a].kind
           /\ artifacts'[a].client = artifacts[a].client
           /\ artifacts'[a].scopes = artifacts[a].scopes
           /\ artifacts'[a].grant = artifacts[a].grant
           /\ artifacts'[a].consumed = artifacts[a].consumed
  PROVE  Register' = Register
  BY DEF Register

\* put_artifact hands out one item.
LEMMA RegisterGrows ==
  ASSUME Shapes, NEW kind \in Kinds, NEW client \in Clients, NEW scopes \in SUBSET Scopes,
         NEW ttl \in Nat, NEW grant \in Nat, Put(kind, client, scopes, ttl, grant)
  PROVE  /\ Register' = Append(Register, Promise!Item(kind, client, scopes, FALSE, grant))
         /\ Len(Register') = Len(Register) + 1
         /\ artifacts'[Len(artifacts) + 1].consumed = FALSE
         /\ \A a \in DOMAIN artifacts : artifacts'[a] = artifacts[a]
<1> DEFINE row == [kind |-> kind, client |-> client, scopes |-> scopes, expires |-> now + ttl,
                   consumed |-> FALSE, revoked |-> FALSE, grant |-> grant]
           item == Promise!Item(kind, client, scopes, FALSE, grant)
           n == Len(artifacts) + 1
           view(r) == [kind |-> r.kind, client |-> r.client, scopes |-> r.scopes,
                       spent |-> r.consumed, from |-> r.grant]
<1>1. row \in Row
  BY DEF Row, Shapes
<1>2. artifacts' = Append(artifacts, row)
  BY DEF Put
<1>3. view(row) = item /\ row.consumed = FALSE
  BY DEF Promise!Item
<1>4. Register = [a \in DOMAIN artifacts |-> view(artifacts[a])]
  BY DEF Register
<1>5. Register' = [a \in DOMAIN artifacts' |-> view(artifacts'[a])]
  BY DEF Register
<1> HIDE DEF row, item, view
<1>6. /\ Len(artifacts) \in Nat
      /\ DOMAIN artifacts = 1 .. Len(artifacts)
      /\ artifacts' \in Seq(Row)
      /\ Len(artifacts') = n
      /\ DOMAIN artifacts' = 1 .. n
      /\ artifacts'[n] = row
      /\ \A a \in 1 .. Len(artifacts) : artifacts'[a] = artifacts[a]
  BY <1>1, <1>2 DEF Shapes
<1>7. /\ Register \in Seq(Items)
      /\ Len(Register) = Len(artifacts)
  BY <1>6, RegisterShape DEF Shapes
<1>8. /\ Register' \in Seq(Items)
      /\ Len(Register') = n
  <2>1. \A a \in 1 .. n : view(artifacts'[a]) \in Items
    <3>1. \A a \in 1 .. n : artifacts'[a] \in Row
      BY <1>6, ElementOfSeq
    <3>. QED  BY <3>1 DEF view, Row, Items
  <2>2. Register' \in [1 .. n -> Items]
    BY <1>5, <1>6, <2>1
  <2>. QED  BY <1>6, <2>2
<1>9. \A a \in 1 .. n : Register'[a] = IF a = n THEN item ELSE Register[a]
  BY <1>3, <1>4, <1>5, <1>6
<1>10. item \in Items
  BY DEF item, Promise!Item, Items
<1>11. Register' = Append(Register, item)
  <2>1. /\ Append(Register, item) \in Seq(Items)
        /\ Len(Append(Register, item)) = n
        /\ \A a \in 1 .. n : Append(Register, item)[a] = IF a = n THEN item ELSE Register[a]
    BY <1>6, <1>7, <1>10
  <2>2. \A a \in 1 .. Len(Register') : Register'[a] = Append(Register, item)[a]
    BY <1>8, <1>9, <2>1
  <2>. QED  BY <1>8, <2>1, <2>2, SeqEqual
<1>. QED  BY <1>3, <1>6, <1>7, <1>8, <1>11 DEF item

\* The UPDATE of get_artifact spends one item.
LEMMA RegisterSpends ==
  ASSUME artifacts \in Seq(Row), NEW g \in DOMAIN artifacts,
         artifacts' = [artifacts EXCEPT ![g].consumed = TRUE]
  PROVE  /\ Register' = [Register EXCEPT ![g] =
              Promise!Item(Register[g].kind, Register[g].client, Register[g].scopes,
                           TRUE, Register[g].from)]
         /\ \A a \in DOMAIN artifacts : a # g => artifacts'[a] = artifacts[a]
<1> DEFINE item == [kind |-> artifacts[g].kind, client |-> artifacts[g].client,
                    scopes |-> artifacts[g].scopes, spent |-> TRUE,
                    from |-> artifacts[g].grant]
<1>1. artifacts[g] \in Row /\ DOMAIN artifacts' = DOMAIN artifacts
  BY RowTyped, ConsumedSet
<1>2. /\ artifacts'[g].kind = artifacts[g].kind
      /\ artifacts'[g].client = artifacts[g].client
      /\ artifacts'[g].scopes = artifacts[g].scopes
      /\ artifacts'[g].grant = artifacts[g].grant
      /\ artifacts'[g].consumed = TRUE
  BY <1>1 DEF Row
<1>3. \A a \in DOMAIN artifacts : a # g => artifacts'[a] = artifacts[a]
  OBVIOUS
<1>4. Promise!Item(Register[g].kind, Register[g].client, Register[g].scopes, TRUE,
                   Register[g].from) = item
  BY DEF Register, Promise!Item
<1>5. Register' = [a \in DOMAIN artifacts |-> IF a = g THEN item ELSE Register[a]]
  BY <1>1, <1>2, <1>3 DEF Register
<1> HIDE DEF item
<1>6. [Register EXCEPT ![g] = item] =
        [a \in DOMAIN artifacts |-> IF a = g THEN item ELSE Register[a]]
  BY DEF Register
<1>. QED  BY <1>3, <1>4, <1>5, <1>6

-----------------------------------------------------------------------------
(***************************************************************************)
(* The two invariants beside IInv.                                         *)
(***************************************************************************)

\* A request that is past the access token was so before.
LEMMA HalfKept ==
  ASSUME RInv, RowsKept,
         \A j \in Instances : request'[j].pc = "put refresh" =>
           /\ request[j].pc = "put refresh"
           /\ request'[j].grant = request[j].grant
           /\ request'[j].scopes = request[j].scopes
  PROVE  HalfPair'
<1>. SUFFICES ASSUME NEW j \in Instances, request'[j].pc = "put refresh", request'[j].grant # NoGrant
              PROVE  \E b \in DOMAIN artifacts' : /\ artifacts'[b].grant = request'[j].grant
                                                  /\ artifacts'[b].scopes = request'[j].scopes
  BY DEF HalfPair
<1>1. /\ request[j].pc = "put refresh"
      /\ request[j].grant # NoGrant
      /\ request'[j].grant = request[j].grant
      /\ request'[j].scopes = request[j].scopes
  OBVIOUS
<1>2. PICK b \in DOMAIN artifacts : /\ artifacts[b].grant = request[j].grant
                                    /\ artifacts[b].scopes = request[j].scopes
  BY <1>1 DEF RInv, HalfPair
<1>3. /\ b \in DOMAIN artifacts'
      /\ artifacts'[b].grant = artifacts[b].grant
      /\ artifacts'[b].scopes = artifacts[b].scopes
  BY DEF RowsKept
<1>. QED  BY <1>1, <1>2, <1>3

\* No row of an access token is spent when no row's spending changes.
LEMMA UnspentKept ==
  ASSUME RInv, DOMAIN artifacts' = DOMAIN artifacts,
         \A a \in DOMAIN artifacts : /\ artifacts'[a].kind = artifacts[a].kind
                                     /\ artifacts'[a].consumed = artifacts[a].consumed
  PROVE  AccessUnspent'
  BY DEF RInv, AccessUnspent

\* A row is added, not spent.
LEMMA UnspentGrown ==
  ASSUME RInv, NEW n, DOMAIN artifacts' = DOMAIN artifacts \cup {n},
         artifacts'[n].consumed = FALSE,
         \A a \in DOMAIN artifacts : artifacts'[a] = artifacts[a]
  PROVE  AccessUnspent'
  BY DEF RInv, AccessUnspent

Goal == HalfPair' /\ AccessUnspent' /\ [Promise!Next]_Register

\* A step that leaves the table alone and puts no access token.
LEMMA SilentStep ==
  ASSUME RInv, artifacts' = artifacts,
         \A j \in Instances : request'[j].pc = "put refresh" =>
           /\ request[j].pc = "put refresh"
           /\ request'[j].grant = request[j].grant
           /\ request'[j].scopes = request[j].scopes
  PROVE  Goal
<1>1. Register' = Register
  BY DEF Register
<1>2. HalfPair'
  BY RowsUnchanged, HalfKept
<1>3. AccessUnspent'
  BY UnspentKept
<1>. QED  BY <1>1, <1>2, <1>3 DEF Goal

\* A row put for no grant is an item issued.
LEMMA IssueStep ==
  ASSUME RInv, NEW kind \in Kinds, NEW client \in Clients, NEW scopes \in SUBSET Scopes,
         NEW ttl \in Nat, Put(kind, client, scopes, ttl, NoGrant)
  PROVE  /\ Promise!Next
         /\ RowsKept
         /\ AccessUnspent'
<1>1. Shapes /\ NoGrant \in Nat /\ NoGrant = 0
  BY DEF RInv, IInv, NoGrant
<1>2. /\ Register' = Append(Register, Promise!Item(kind, client, scopes, FALSE, NoGrant))
      /\ Len(Register') = Len(Register) + 1
      /\ artifacts'[Len(artifacts) + 1].consumed = FALSE
      /\ \A a \in DOMAIN artifacts : artifacts'[a] = artifacts[a]
  BY <1>1, RegisterGrows
<1>3. RowsKept /\ DOMAIN artifacts' = DOMAIN artifacts \cup {Len(artifacts) + 1}
  BY <1>1, RowPut
<1>4. AccessUnspent'
  BY <1>2, <1>3, UnspentGrown
<1>5. kind \in Promise!Pair \cup {"authorization_code"}
  BY DEF Kinds, Promise!Pair
<1>6. Promise!Issue(kind, client, scopes)
  BY <1>1, <1>2 DEF Promise!Issue
<1>. QED  BY <1>2, <1>3, <1>4, <1>5, <1>6 DEF Promise!HandOut, Promise!Next

LEMMA AuthorizeStep ==
  ASSUME RInv, NEW i \in Instances, NEW c \in Clients, NEW scopes \in Asked,
         Authorize(i, c, scopes)
  PROVE  Goal
<1>1. scopes \in SUBSET Scopes /\ CodeTTL \in Nat /\ "authorization_code" \in Kinds
  BY OAuthAssumption DEF Kinds
<1>2. Put("authorization_code", c, scopes, CodeTTL, NoGrant) /\ request' = request
  BY DEF Authorize
<1>3. Promise!Next /\ RowsKept /\ AccessUnspent'
  BY <1>1, <1>2, IssueStep
<1>4. HalfPair'
  BY <1>2, <1>3, HalfKept
<1>. QED  BY <1>3, <1>4 DEF Goal

\* The request moves to where no access token has been put for it.
LEMMA QuietStep ==
  ASSUME RInv, NEW i \in Instances, artifacts' = artifacts,
         request'[i].pc # "put refresh",
         \A j \in Instances \ {i} : request'[j] = request[j]
  PROVE  Goal
<1>1. \A j \in Instances : request'[j].pc = "put refresh" =>
        /\ request[j].pc = "put refresh"
        /\ request'[j].grant = request[j].grant
        /\ request'[j].scopes = request[j].scopes
  OBVIOUS
<1>. QED  BY <1>1, SilentStep

LEMMA RequestSteps ==
  ASSUME RInv, NEW i \in Instances,
         \/ \E c \in Clients, scopes \in Asked : IssueForClient(i, c, scopes)
         \/ \E c \in Clients, scopes \in Asked, a \in DOMAIN artifacts, kind \in Exchangeable :
              Load(i, c, a, kind, scopes)
         \/ Select(i) \/ LoseRace(i)
         \/ \E p \in Policies : Restart(i, p)
  PROVE  Goal
<1>1. artifacts' = artifacts
  BY DEF IssueForClient, Load, Select, LoseRace, Restart
<1>2. request \in [Instances -> {Idle} \cup InService]
  BY DEF RInv, IInv, Shapes
<1>3. Idle.pc # "put refresh"
  BY DEF Idle
<1>4. \A j \in Instances \ {i} : request'[j] = request[j]
  BY <1>2 DEF IssueForClient, Load, Select, LoseRace, Restart, Goto
<1>5. request'[i].pc # "put refresh"
  <2>1. CASE \E c \in Clients, scopes \in Asked : IssueForClient(i, c, scopes)
    <3>1. PICK c \in Clients, scopes \in Asked :
            request' = [request EXCEPT ![i] =
              [pc |-> "put access", grant |-> NoGrant, kind |-> "bootstrap",
               client |-> c, scopes |-> scopes, age |-> 0]]
      BY <2>1 DEF IssueForClient
    <3>. QED  BY <1>2, <3>1
  <2>2. CASE \E c \in Clients, scopes \in Asked, a \in DOMAIN artifacts, kind \in Exchangeable :
               Load(i, c, a, kind, scopes)
    <3>1. PICK c \in Clients, scopes \in Asked, a \in DOMAIN artifacts, kind \in Exchangeable :
            Load(i, c, a, kind, scopes)
      BY <2>2
    <3>2. request' = [request EXCEPT ![i] =
            [pc |-> "select", grant |-> a, kind |-> kind,
             client |-> c, scopes |-> scopes, age |-> 0]]
      BY <3>1 DEF Load
    <3>. QED  BY <1>2, <3>2
  <2>3. CASE Select(i)
    <3>1. request[i] # Idle
      BY <2>3 DEF Select, Idle
    <3>2. CASE Goto(i, "consume")
      BY <3>1, <3>2, Moved DEF RInv, IInv
    <3>3. CASE request' = [request EXCEPT ![i] = Idle]
      BY <1>2, <1>3, <3>3
    <3>. QED  BY <2>3, <3>2, <3>3 DEF Select
  <2>4. CASE LoseRace(i) \/ \E p \in Policies : Restart(i, p)
    BY <1>2, <1>3, <2>4 DEF LoseRace, Restart
  <2>. QED  BY <2>1, <2>2, <2>3, <2>4
<1>. QED  BY <1>1, <1>4, <1>5, QuietStep

LEMMA ConsumeStep ==
  ASSUME RInv, NEW i \in Instances, Consume(i)
  PROVE  Goal
<1> DEFINE g == request[i].grant
<1>1. request[i].pc = "consume" /\ request[i] # Idle
  <2>1. Idle.pc = "idle"
    BY DEF Idle
  <2>. QED  BY <2>1 DEF Consume
<1>2. Shapes /\ RequestBacked /\ BootstrapIssues
  BY DEF RInv, IInv
<1>3. /\ g \in DOMAIN artifacts
      /\ artifacts[g].kind \in Exchangeable
  BY <1>1, <1>2 DEF RequestBacked, BootstrapIssues, Backs
<1>4. /\ ~artifacts[g].consumed
      /\ artifacts' = [artifacts EXCEPT ![g].consumed = TRUE]
  BY DEF Consume
<1>5. /\ Register' = [Register EXCEPT ![g] =
            Promise!Item(Register[g].kind, Register[g].client, Register[g].scopes,
                         TRUE, Register[g].from)]
      /\ \A a \in DOMAIN artifacts : a # g => artifacts'[a] = artifacts[a]
      /\ RowsKept
      /\ DOMAIN artifacts' = DOMAIN artifacts
  <2>1. artifacts \in Seq(Row)
    BY <1>2 DEF Shapes
  <2>. QED  BY <1>3, <1>4, <2>1, RegisterSpends, ConsumedSet
<1>6. Promise!Spend(g)
  <2>1. /\ Register[g].kind = artifacts[g].kind
        /\ Register[g].spent = artifacts[g].consumed
    BY <1>3 DEF Register
  <2>2. Register[g].kind # "access_token"
    BY <1>3, <2>1 DEF Exchangeable
  <2>. QED  BY <1>4, <1>5, <2>1, <2>2 DEF Promise!Spend
<1>7. Promise!Next
  <2>1. g \in DOMAIN Register
    BY <1>3 DEF Register
  <2>. QED  BY <1>6, <2>1 DEF Promise!Next
<1>8. AccessUnspent'
  <2>1. artifacts'[g].kind # "access_token"
    BY <1>3, <1>5 DEF RowsKept, Exchangeable
  <2>. QED  BY <1>5, <2>1 DEF RInv, AccessUnspent
<1>9. HalfPair'
  <2>1. request'[i].pc # "put refresh" /\ \A j \in Instances \ {i} : request'[j] = request[j]
    <3>1. CASE Goto(i, "put access")
      BY <1>1, <1>2, <3>1, Moved
    <3>2. CASE request' = [request EXCEPT ![i] = Idle]
      BY <1>2, <3>2 DEF Shapes, Idle
    <3>. QED  BY <3>1, <3>2 DEF Consume
  <2>2. \A j \in Instances : request'[j].pc = "put refresh" =>
          /\ request[j].pc = "put refresh"
          /\ request'[j].grant = request[j].grant
          /\ request'[j].scopes = request[j].scopes
    BY <2>1
  <2>. QED  BY <1>5, <2>2, HalfKept
<1>. QED  BY <1>7, <1>8, <1>9 DEF Goal

LEMMA RevokeStep ==
  ASSUME RInv, NEW i \in Instances, NEW a \in DOMAIN artifacts, Revoke(i, a)
  PROVE  Goal
<1>1. artifacts \in Seq(Row) /\ request' = request
  BY DEF RInv, IInv, Shapes, Revoke
<1>2. artifacts' = [artifacts EXCEPT ![a].revoked = TRUE]
  BY DEF Revoke
<1>3. RowsKept /\ DOMAIN artifacts' = DOMAIN artifacts
  BY <1>1, <1>2, RevokedSet
<1>4. \A b \in DOMAIN artifacts : artifacts'[b].consumed = artifacts[b].consumed
  <2>1. \A b \in DOMAIN artifacts : artifacts[b] \in Row
    BY <1>1, RowTyped
  <2>. QED  BY <1>2, <2>1 DEF Row
<1>5. Register' = Register
  BY <1>1, <1>3, <1>4, RegisterSame DEF RowsKept
<1>6. AccessUnspent'
  BY <1>3, <1>4, UnspentKept DEF RowsKept
<1>7. HalfPair'
  BY <1>1, <1>3, HalfKept
<1>. QED  BY <1>5, <1>6, <1>7 DEF Goal

LEMMA TickStep == ASSUME RInv, Tick PROVE Goal
<1>1. artifacts' = artifacts
  BY DEF Tick
<1>2. ASSUME NEW j \in Instances, request'[j].pc = "put refresh"
      PROVE  /\ request[j].pc = "put refresh"
             /\ request'[j].grant = request[j].grant
             /\ request'[j].scopes = request[j].scopes
  <2>1. CASE request[j] = Idle
    BY <1>2, <2>1 DEF Tick, Idle
  <2>2. CASE request[j] # Idle
    <3>1. request[j] \in InService
      BY <2>2, NotIdle DEF RInv, IInv
    <3>2. request'[j] = [request[j] EXCEPT !.age = @ + 1]
      BY <2>2 DEF Tick
    <3> DEFINE age == request[j].age + 1
    <3>3. request'[j] = [request[j] EXCEPT !.age = age]
      BY <3>1, <3>2
    <3> HIDE DEF age
    <3>. QED  BY <1>2, <3>1, <3>3 DEF InService
  <2>. QED  BY <2>1, <2>2
<1>. QED  BY <1>1, <1>2, SilentStep

(***************************************************************************)
(* The two steps that hand out what a grant yields.                        *)
(***************************************************************************)

\* What the request in hand is typed as, and what its INSERT does.
LEMMA PairPut ==
  ASSUME RInv, NEW i \in Instances, NEW kind \in {"access_token", "refresh_token"},
         NEW ttl \in Nat, request[i].pc \in {"put access", "put refresh"},
         Put(kind, request[i].client, request[i].scopes, ttl, request[i].grant)
  PROVE  LET r == request[i]
             n == Len(artifacts) + 1
         IN  /\ r \in InService
             /\ r.grant = NoGrant => Promise!Next
             /\ Register' = Append(Register, Promise!Item(kind, r.client, r.scopes, FALSE, r.grant))
             /\ Len(Register') = Len(Register) + 1
             /\ RowsKept
             /\ n \in DOMAIN artifacts'
             /\ artifacts'[n].grant = r.grant
             /\ artifacts'[n].scopes = r.scopes
             /\ AccessUnspent'
<1> DEFINE n == Len(artifacts) + 1
<1>1. request[i] # Idle /\ request[i] \in InService
  BY NotIdle DEF RInv, IInv
<1>2. /\ request[i].client \in Clients
      /\ request[i].scopes \in SUBSET Scopes
      /\ request[i].grant \in Nat
      /\ kind \in Kinds
      /\ Shapes
  BY <1>1 DEF InService, Kinds, RInv, IInv
<1>3. /\ Register' = Append(Register, Promise!Item(kind, request[i].client, request[i].scopes,
                                                   FALSE, request[i].grant))
      /\ Len(Register') = Len(Register) + 1
      /\ artifacts'[n].consumed = FALSE
      /\ \A a \in DOMAIN artifacts : artifacts'[a] = artifacts[a]
  BY <1>2, RegisterGrows
<1>4. /\ RowsKept
      /\ DOMAIN artifacts' = DOMAIN artifacts \cup {n}
      /\ artifacts'[n].grant = request[i].grant
      /\ artifacts'[n].scopes = request[i].scopes
  <2>1. PICK client \in Clients, scopes \in SUBSET Scopes, grant \in Nat :
          /\ client = request[i].client
          /\ scopes = request[i].scopes
          /\ grant = request[i].grant
    BY <1>2
  <2>2. Put(kind, client, scopes, ttl, grant)
    BY <2>1
  <2>3. /\ RowsKept
        /\ DOMAIN artifacts' = DOMAIN artifacts \cup {n}
        /\ artifacts'[n].grant = grant
        /\ artifacts'[n].scopes = scopes
    BY <1>2, <2>2, RowPut
  <2>. QED  BY <2>1, <2>3
<1>5. AccessUnspent'
  BY <1>3, <1>4, UnspentGrown
<1>6. request[i].grant = NoGrant => Promise!Next
  BY <1>2, IssueStep
<1>. QED  BY <1>1, <1>3, <1>4, <1>5, <1>6

\* A request that issues for a grant knows it spent, and what came of it.
LEMMA GrantInHand ==
  ASSUME RInv, NEW i \in Instances, request[i].pc \in {"put access", "put refresh"},
         request[i].grant # NoGrant
  PROVE  LET r == request[i]
             g == r.grant
         IN  /\ g \in DOMAIN artifacts /\ g \in DOMAIN Register
             /\ Register[g].spent
             /\ Register[g].client = r.client
             /\ r.scopes \subseteq Register[g].scopes
             /\ \A b \in DOMAIN artifacts : artifacts[b].grant = g =>
                  r.pc = "put refresh" /\ artifacts[b].kind = "access_token"
<1> DEFINE g == request[i].grant
<1>1. request[i] # Idle
  BY NotIdle DEF RInv, IInv
<1>2. g \in DOMAIN artifacts /\ Backs(artifacts[g], request[i])
  BY <1>1 DEF RInv, IInv, RequestBacked
<1>3. Claims(i, g)
  BY DEF Claims
<1>4. \A b \in DOMAIN artifacts : artifacts[b].grant = g =>
        request[i].pc = "put refresh" /\ artifacts[b].kind = "access_token"
  BY <1>2, <1>3 DEF RInv, IInv, ClaimedOnce
<1>5. g \in DOMAIN Register
  BY <1>2 DEF Register
<1>6. /\ Register[g].spent = artifacts[g].consumed
      /\ Register[g].client = artifacts[g].client
      /\ Register[g].scopes = artifacts[g].scopes
  BY <1>2 DEF Register
<1>. QED  BY <1>2, <1>4, <1>5, <1>6 DEF Backs

LEMMA PutAccessStep ==
  ASSUME RInv, NEW i \in Instances, PutAccess(i)
  PROVE  Goal
<1> DEFINE g == request[i].grant
           n == Len(artifacts) + 1
<1>1. /\ request[i].pc = "put access"
      /\ Put("access_token", request[i].client, request[i].scopes, AccessTTL, g)
      /\ Goto(i, "put refresh")
      /\ AccessTTL \in Nat
  BY OAuthAssumption DEF PutAccess
<1>2. /\ request[i] \in InService
      /\ g = NoGrant => Promise!Next
      /\ Register' = Append(Register, Promise!Item("access_token", request[i].client,
                                                   request[i].scopes, FALSE, g))
      /\ Len(Register') = Len(Register) + 1
      /\ RowsKept
      /\ n \in DOMAIN artifacts'
      /\ artifacts'[n].grant = g
      /\ artifacts'[n].scopes = request[i].scopes
      /\ AccessUnspent'
  BY <1>1, PairPut
<1> HIDE DEF n
<1>3. g # NoGrant => Promise!Next
  <2>. SUFFICES ASSUME g # NoGrant PROVE Promise!Next
    OBVIOUS
  <2>1. /\ g \in DOMAIN Register
        /\ Register[g].spent
        /\ Register[g].client = request[i].client
        /\ request[i].scopes \subseteq Register[g].scopes
        /\ \A b \in DOMAIN artifacts : artifacts[b].grant # g
    BY <1>1, GrantInHand
  <2>2. Promise!Yield(g) = {}
    BY <2>1 DEF Promise!Yield, Register
  <2>3. Promise!YieldAccess(g, request[i].scopes)
    BY <1>2, <2>1, <2>2 DEF Promise!YieldAccess
  <2>4. request[i].scopes \in SUBSET Scopes
    BY <1>2 DEF InService
  <2>. QED  BY <1>2, <2>1, <2>3, <2>4 DEF Promise!HandOut, Promise!Next
<1>4. HalfPair'
  <2>. SUFFICES ASSUME NEW j \in Instances, request'[j].pc = "put refresh",
                       request'[j].grant # NoGrant
                PROVE  \E b \in DOMAIN artifacts' : /\ artifacts'[b].grant = request'[j].grant
                                                    /\ artifacts'[b].scopes = request'[j].scopes
    BY DEF HalfPair
  <2>1. request[i] # Idle /\ Shapes
    BY <1>1, NotIdle DEF RInv, IInv
  <2>2. /\ request'[i].grant = request[i].grant
        /\ request'[i].scopes = request[i].scopes
        /\ \A k \in Instances \ {i} : request'[k] = request[k]
    BY <1>1, <2>1, Moved
  <2>3. CASE j = i
    BY <1>2, <2>2, <2>3
  <2>4. CASE j # i
    <3>1. request'[j] = request[j]
      BY <2>2, <2>4
    <3>2. PICK b \in DOMAIN artifacts : /\ artifacts[b].grant = request[j].grant
                                        /\ artifacts[b].scopes = request[j].scopes
      BY <3>1 DEF RInv, HalfPair
    <3>. QED  BY <1>2, <3>1, <3>2 DEF RowsKept
  <2>. QED  BY <2>3, <2>4
<1>. QED  BY <1>2, <1>3, <1>4 DEF Goal

\* The table holds the access token of the pair, and nothing else for g.
LEMMA OneAccessToken ==
  ASSUME RInv, NEW i \in Instances, request[i].pc = "put refresh", request[i].grant # NoGrant
  PROVE  Promise!Yield(request[i].grant) =
           {Promise!Item("access_token", request[i].client, request[i].scopes, FALSE,
                         request[i].grant)}
<1> DEFINE g == request[i].grant
           item == Promise!Item("access_token", request[i].client, request[i].scopes, FALSE, g)
<1>1. PICK b \in DOMAIN artifacts : /\ artifacts[b].grant = g
                                    /\ artifacts[b].scopes = request[i].scopes
  BY DEF RInv, HalfPair
<1>2. /\ g \in DOMAIN artifacts
      /\ Register[g].client = request[i].client
      /\ \A a \in DOMAIN artifacts : artifacts[a].grant = g => artifacts[a].kind = "access_token"
  BY GrantInHand
<1>3. artifacts[b].client = request[i].client
  <2>1. Register[g].client = artifacts[g].client
    BY <1>2 DEF Register
  <2>2. artifacts[b].grant # NoGrant
    BY <1>1
  <2>3. artifacts[artifacts[b].grant].client = artifacts[b].client
    BY <2>2 DEF RInv, IInv, NoEscalation
  <2>. QED  BY <1>1, <1>2, <2>1, <2>3
<1>4. artifacts[b].kind = "access_token" /\ artifacts[b].consumed = FALSE
  BY <1>1, <1>2 DEF RInv, AccessUnspent
<1>5. Register[b] = item
  BY <1>1, <1>3, <1>4 DEF Register, Promise!Item
<1>6. \A a \in DOMAIN artifacts : artifacts[a].grant = g => a = b
  BY <1>1, <1>2, <1>4 DEF RInv, IInv, SingleUse
<1>7. DOMAIN Register = DOMAIN artifacts
      /\ \A a \in DOMAIN artifacts : Register[a].from = artifacts[a].grant
  BY DEF Register
<1>8. {a \in DOMAIN artifacts : artifacts[a].grant = g} = {b}
  BY <1>1, <1>6
<1> HIDE DEF item
<1>9. Promise!Yield(g) = {item}
  <2>1. Promise!Yield(g) = {Register[a] : a \in {a \in DOMAIN artifacts : artifacts[a].grant = g}}
    BY <1>7 DEF Promise!Yield
  <2>. QED  BY <1>5, <1>8, <2>1
<1>. QED  BY <1>9 DEF item

LEMMA PutRefreshStep ==
  ASSUME RInv, NEW i \in Instances, PutRefresh(i)
  PROVE  Goal
<1> DEFINE g == request[i].grant
<1>1. /\ request[i].pc = "put refresh"
      /\ Put("refresh_token", request[i].client, request[i].scopes, RefreshTTL, g)
      /\ request' = [request EXCEPT ![i] = Idle]
      /\ RefreshTTL \in Nat
  BY OAuthAssumption DEF PutRefresh
<1>2. /\ request[i] \in InService
      /\ g = NoGrant => Promise!Next
      /\ Register' = Append(Register, Promise!Item("refresh_token", request[i].client,
                                                   request[i].scopes, FALSE, g))
      /\ Len(Register') = Len(Register) + 1
      /\ RowsKept
      /\ AccessUnspent'
  BY <1>1, PairPut
<1>3. g # NoGrant => Promise!Next
  <2>. SUFFICES ASSUME g # NoGrant PROVE Promise!Next
    OBVIOUS
  <2>1. /\ g \in DOMAIN Register
        /\ Register[g].spent
        /\ Register[g].client = request[i].client
    BY <1>1, GrantInHand
  <2>2. Promise!Yield(g) =
          {Promise!Item("access_token", request[i].client, request[i].scopes, FALSE, g)}
    BY <1>1, OneAccessToken
  <2>3. Promise!YieldRefresh(g, request[i].scopes)
    BY <1>2, <2>1, <2>2 DEF Promise!YieldRefresh
  <2>4. request[i].scopes \in SUBSET Scopes
    BY <1>2 DEF InService
  <2>. QED  BY <1>2, <2>1, <2>3, <2>4 DEF Promise!HandOut, Promise!Next
<1>4. HalfPair'
  <2>1. Idle.pc # "put refresh"
    BY DEF Idle
  <2>2. request \in [Instances -> {Idle} \cup InService]
    BY DEF RInv, IInv, Shapes
  <2>3. \A j \in Instances : request'[j].pc = "put refresh" => request'[j] = request[j]
    BY <1>1, <2>1, <2>2
  <2>. QED  BY <1>2, <2>3, HalfKept
<1>. QED  BY <1>2, <1>3, <1>4 DEF Goal

-----------------------------------------------------------------------------
LEMMA InitRegister == Init => RInv /\ Promise!Init
<1>. SUFFICES ASSUME Init PROVE RInv /\ Promise!Init
  OBVIOUS
<1>1. artifacts = <<>> /\ IInv
  BY InitInv DEF Init
<1>2. Idle.pc # "put refresh"
  BY DEF Idle
<1>3. HalfPair
  BY <1>2 DEF Init, HalfPair
<1>4. AccessUnspent
  BY <1>1 DEF AccessUnspent
<1>5. Register = <<>>
  BY <1>1 DEF Register
<1>. QED  BY <1>1, <1>3, <1>4, <1>5 DEF RInv, Promise!Init

LEMMA StepMaps == ASSUME RInv, [Next]_vars PROVE RInv' /\ [Promise!Next]_Register
<1>1. IInv'
  BY StepInv DEF RInv
<1>2. Goal
  <2>1. ASSUME NEW i \in Instances, NEW c \in Clients, NEW scopes \in Asked,
               Authorize(i, c, scopes)
        PROVE  Goal
    BY <2>1, AuthorizeStep
  <2>2. ASSUME NEW i \in Instances,
               \/ \E c \in Clients, scopes \in Asked : IssueForClient(i, c, scopes)
               \/ \E c \in Clients, scopes \in Asked, a \in DOMAIN artifacts, kind \in Exchangeable :
                    Load(i, c, a, kind, scopes)
               \/ Select(i) \/ LoseRace(i)
               \/ \E p \in Policies : Restart(i, p)
        PROVE  Goal
    BY <2>2, RequestSteps
  <2>3. ASSUME NEW i \in Instances, Consume(i) PROVE Goal
    BY <2>3, ConsumeStep
  <2>4. ASSUME NEW i \in Instances, PutAccess(i) PROVE Goal
    BY <2>4, PutAccessStep
  <2>5. ASSUME NEW i \in Instances, PutRefresh(i) PROVE Goal
    BY <2>5, PutRefreshStep
  <2>6. ASSUME NEW i \in Instances, NEW a \in DOMAIN artifacts, Revoke(i, a) PROVE Goal
    BY <2>6, RevokeStep
  <2>7. CASE Tick
    BY <2>7, TickStep
  <2>8. CASE UNCHANGED vars
    BY <2>8, SilentStep DEF vars
  <2>. QED  BY <2>1, <2>2, <2>3, <2>4, <2>5, <2>6, <2>7, <2>8 DEF Next
<1>. QED  BY <1>1, <1>2 DEF RInv, Goal

\* The authorization server keeps the promise of the register: a client never
\* gets from a code or a refresh token more than one access token and one
\* refresh token, of its scopes or fewer (auth.py:25-31, 102-142, 186-225).
THEOREM RegisterPromiseKept == Spec => KeepsPromise
<1>1. Init => RInv /\ Promise!Init
  BY InitRegister
<1>2. RInv /\ [Next]_vars => RInv' /\ [Promise!Next]_Register
  BY StepMaps
<1>. QED  BY <1>1, <1>2, PTL DEF Spec, KeepsPromise, Promise!Spec

=============================================================================
