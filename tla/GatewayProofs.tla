--------------------------- MODULE GatewayProofs ---------------------------
(***************************************************************************)
(* Row scoping of the guard pipeline: for any number of instances, tokens, *)
(* teams and tickets, any interleaving of their statements, any failing    *)
(* statement and any crash, a ticket is changed only under a token with    *)
(* the write scope and the ticket's team, and no caller is handed a ticket *)
(* of a team that is not the token's.                                      *)
(***************************************************************************)
EXTENDS Gateway, SequenceTheorems, TLAPS

\* The shapes of the variables the argument is about.
Ticket == [team : Teams, status : Statuses]

InService ==
  [pc : Stages, id : Nat, token : Tokens, req : Requests,
   authentic : BOOLEAN, tag : Teams \cup {NoTeam}, blind : BOOLEAN, decision : Decisions,
   reason : Reasons, tickets : SUBSET Nat, rows : SUBSET Nat, tail : Nat]

Shapes ==
  /\ tickets \in Seq(Ticket)
  /\ arrived \in Nat
  /\ call \in [Instances -> {Idle} \cup InService]

(***************************************************************************)
(* A call that has come to the store has passed the checks; one that is    *)
(* about to update has seen that the ticket is in scope; and what a call   *)
(* holds for its caller is in scope.                                       *)
(***************************************************************************)
Cleared(c) ==
  /\ c.pc \in {"dispatch", "update"} => Authorized(c) /\ Validated(c.req)
  /\ c.pc = "update" => c.req.tool = "update_ticket_status" /\ InScope(c, c.req.ticket)
  /\ \A k \in c.tickets : InScope(c, k)

CallsCleared == \A i \in Instances : call[i] # Idle => Cleared(call[i])

Permitted(w) ==
  /\ w.ticket \in DOMAIN tickets
  /\ tickets[w.ticket].team \in TokenTeams[w.token]
  /\ "tickets:write" \in TokenScopes[w.token]

WritesPermitted == \A w \in writes : Permitted(w)

IInv == Shapes /\ CallsCleared /\ WritesPermitted

\* The audit table is a sequence, whoever's events its rows are.
AuditRows == \E S : audit \in Seq(S)

-----------------------------------------------------------------------------
(***************************************************************************)
(* Tickets are added and change their status, but never their team.        *)
(***************************************************************************)
TicketsKept ==
  \A k \in DOMAIN tickets : k \in DOMAIN tickets' /\ tickets'[k].team = tickets[k].team

LEMMA TicketTyped ==
  ASSUME tickets \in Seq(Ticket)
  PROVE  /\ Len(tickets) \in Nat
         /\ DOMAIN tickets = 1 .. Len(tickets)
         /\ \A k \in DOMAIN tickets : tickets[k] \in Ticket
  BY LenProperties, ElementOfSeq

LEMMA TicketsUnchanged == ASSUME tickets' = tickets PROVE TicketsKept
  BY DEF TicketsKept

\* The INSERT of a ticket.
LEMMA TicketAdded ==
  ASSUME tickets \in Seq(Ticket), NEW team \in Teams,
         tickets' = Append(tickets, [team |-> team, status |-> "open"])
  PROVE  LET k == Len(tickets) + 1
         IN  /\ tickets' \in Seq(Ticket)
             /\ TicketsKept
             /\ k \in DOMAIN tickets'
             /\ k \in Nat
             /\ tickets'[k].team = team
<1> DEFINE t == [team |-> team, status |-> "open"]
<1>1. t \in Ticket /\ t.team = team
  BY DEF Ticket, Statuses
<1>2. tickets' = Append(tickets, t)
  OBVIOUS
<1> HIDE DEF t
<1>3. /\ tickets' \in Seq(Ticket)
      /\ Len(tickets) \in Nat
      /\ DOMAIN tickets = 1 .. Len(tickets)
      /\ DOMAIN tickets' = 1 .. Len(tickets) + 1
      /\ \A k \in 1 .. Len(tickets) : tickets'[k] = tickets[k]
      /\ tickets'[Len(tickets) + 1] = t
  BY <1>1, <1>2
<1>. QED  BY <1>1, <1>3 DEF TicketsKept

\* The UPDATE of a ticket's status.
LEMMA TicketUpdated ==
  ASSUME tickets \in Seq(Ticket), NEW k \in DOMAIN tickets, NEW status \in Statuses,
         tickets' = [tickets EXCEPT ![k].status = status]
  PROVE  tickets' \in Seq(Ticket) /\ TicketsKept
<1> DEFINE t == [tickets[k] EXCEPT !.status = status]
<1>1. tickets[k] \in Ticket /\ DOMAIN tickets = 1 .. Len(tickets)
  BY TicketTyped
<1>2. t \in Ticket /\ t.team = tickets[k].team
  BY <1>1 DEF Ticket
<1>3. tickets' = [tickets EXCEPT ![k] = t]
  OBVIOUS
<1> HIDE DEF t
<1>4. [tickets EXCEPT ![k] = t] \in Seq(Ticket)
  BY <1>1, <1>2, ExceptSeq
<1>. QED  BY <1>2, <1>3, <1>4 DEF TicketsKept

LEMMA InScopeKept ==
  ASSUME TicketsKept, NEW c, NEW k, InScope(c, k)
  PROVE  InScope(c, k)'
  BY DEF TicketsKept, InScope, Exists, TeamsOf

(***************************************************************************)
(* One instance's call becomes c, a call that is cleared, or none.         *)
(***************************************************************************)
LEMMA CallBecomes ==
  ASSUME IInv, NEW i \in Instances, NEW c \in {Idle} \cup InService,
         call' = [call EXCEPT ![i] = c],
         c # Idle => Cleared(c)',
         tickets' \in Seq(Ticket), TicketsKept, arrived' \in Nat,
         \A w \in writes' \ writes : Permitted(w)'
  PROVE  IInv'
<1>1. Shapes'
  BY DEF IInv, Shapes
<1>2. CallsCleared'
  <2>. SUFFICES ASSUME NEW j \in Instances, call'[j] # Idle PROVE Cleared(call[j])'
    BY DEF CallsCleared
  <2>1. CASE j = i
    <3>1. call'[j] = c
      BY <2>1 DEF IInv, Shapes
    <3>. QED  BY <3>1 DEF Cleared, InScope, Exists, TeamsOf, Authorized, Validated
  <2>2. CASE j # i
    <3>1. call'[j] = call[j] /\ Cleared(call[j])
      BY <2>2 DEF IInv, Shapes, CallsCleared
    <3>. QED  BY <3>1, InScopeKept DEF Cleared, InScope, Exists, TeamsOf, TicketsKept, Authorized
  <2>. QED  BY <2>1, <2>2
<1>3. WritesPermitted'
  <2>. SUFFICES ASSUME NEW w \in writes' PROVE Permitted(w)'
    BY DEF WritesPermitted
  <2>1. CASE w \in writes
    BY <2>1 DEF IInv, WritesPermitted, Permitted, TicketsKept
  <2>. QED  BY <2>1
<1>. QED  BY <1>1, <1>2, <1>3 DEF IInv

\* The same where the store is left alone.
LEMMA CallMoves ==
  ASSUME IInv, NEW i \in Instances, NEW c \in InService,
         call' = [call EXCEPT ![i] = c], Cleared(c),
         UNCHANGED <<tickets, writes, arrived>>
  PROVE  IInv'
<1>1. Cleared(c)'
  BY DEF Cleared, InScope, Exists, TeamsOf, Authorized, Validated
<1>2. tickets' \in Seq(Ticket) /\ arrived' \in Nat
  BY DEF IInv, Shapes
<1>. QED  BY <1>1, <1>2, CallBecomes, TicketsUnchanged

LEMMA CallEnds ==
  ASSUME IInv, NEW i \in Instances, call' = [call EXCEPT ![i] = Idle],
         UNCHANGED <<tickets, writes, arrived>>
  PROVE  IInv'
<1>1. tickets' \in Seq(Ticket) /\ arrived' \in Nat
  BY DEF IInv, Shapes
<1>. QED  BY <1>1, CallBecomes, TicketsUnchanged

\* An instance at a stage of the pipeline runs a cleared call.
LEMMA Running ==
  ASSUME IInv, NEW i \in Instances, call[i].pc \in Stages
  PROVE  call[i] \in InService /\ Cleared(call[i]) /\ call[i] # Idle
<1>1. Idle.pc = "idle"
  BY DEF Idle
<1>2. "idle" \notin Stages
  BY DEF Stages
<1>3. call[i] # Idle
  BY <1>1, <1>2
<1>. QED  BY <1>3 DEF IInv, Shapes, CallsCleared

-----------------------------------------------------------------------------
(***************************************************************************)
(* The ways a call moves on                                                *)
(***************************************************************************)
LEMMA Denied ==
  ASSUME IInv, NEW i \in Instances, call[i].pc \in Stages,
         NEW reason \in Reasons, Deny(i, reason),
         UNCHANGED <<tickets, writes, arrived>>
  PROVE  IInv'
<1> DEFINE c == call[i]
           d == [c EXCEPT !.pc = "tail", !.decision = "deny", !.reason = reason]
<1>1. c \in InService /\ Cleared(c)
  BY Running
<1>2. call' = [call EXCEPT ![i] = d]
  BY DEF Deny
<1> HIDE DEF c
<1>3. d \in InService /\ d.pc = "tail" /\ d.tickets = c.tickets /\ d.token = c.token
  BY <1>1 DEF InService, Stages, Pcs, Decisions
<1> HIDE DEF d
<1>4. Cleared(d)
  BY <1>1, <1>3 DEF Cleared, InScope, TeamsOf
<1>. QED  BY <1>2, <1>3, <1>4, CallMoves

LEMMA Allowed ==
  ASSUME IInv, NEW i \in Instances, call[i].pc \in Stages,
         NEW tkts \in SUBSET Nat, NEW rows \in SUBSET Nat,
         \A k \in tkts : InScope(call[i], k),
         Allow(i, tkts, rows), UNCHANGED <<tickets, writes, arrived>>
  PROVE  IInv'
<1> DEFINE c == call[i]
           d == [c EXCEPT !.pc = "tail", !.decision = "allow",
                          !.reason = "policy_satisfied",
                          !.tickets = tkts, !.rows = rows]
<1>1. c \in InService /\ \A k \in tkts : InScope(c, k)
  BY Running
<1>2. call' = [call EXCEPT ![i] = d]
  BY DEF Allow
<1> HIDE DEF c
<1>3. d \in InService /\ d.pc = "tail" /\ d.tickets = tkts /\ d.token = c.token
  BY <1>1 DEF InService, Stages, Pcs, Decisions, Reasons
<1> HIDE DEF d
<1>4. Cleared(d)
  BY <1>1, <1>3 DEF Cleared, InScope, TeamsOf
<1>. QED  BY <1>2, <1>3, <1>4, CallMoves

\* To a stage that is cleared for it.
LEMMA MovedTo ==
  ASSUME IInv, NEW i \in Instances, call[i].pc \in Stages, NEW pc \in Stages,
         pc \in {"dispatch", "update"} => Authorized(call[i]) /\ Validated(call[i].req),
         pc = "update" => /\ call[i].req.tool = "update_ticket_status"
                          /\ InScope(call[i], call[i].req.ticket),
         Goto(i, pc), UNCHANGED <<tickets, writes, arrived>>
  PROVE  IInv'
<1> DEFINE c == call[i]
           d == [c EXCEPT !.pc = pc]
<1>1. /\ c \in InService /\ Cleared(c)
      /\ pc \in {"dispatch", "update"} => Authorized(c) /\ Validated(c.req)
      /\ pc = "update" => c.req.tool = "update_ticket_status" /\ InScope(c, c.req.ticket)
  BY Running
<1>2. call' = [call EXCEPT ![i] = d]
  BY DEF Goto
<1> HIDE DEF c
<1>3. /\ d \in InService /\ d.pc = pc /\ d.req = c.req
      /\ d.tickets = c.tickets /\ d.token = c.token
  BY <1>1 DEF InService
<1> HIDE DEF d
<1>4. Cleared(d)
  BY <1>1, <1>3 DEF Cleared, InScope, TeamsOf, Authorized
<1>. QED  BY <1>2, <1>3, <1>4, CallMoves

-----------------------------------------------------------------------------
(***************************************************************************)
(* The initial states                                                      *)
(***************************************************************************)
LEMMA Initially == Init => IInv
<1> SUFFICES ASSUME Init PROVE IInv
  OBVIOUS
<1>1. Seeded \in Seq(Teams) /\ Len(Seeded) \in Nat /\ DOMAIN Seeded = 1 .. Len(Seeded)
  BY GatewayAssumption, LenProperties
<1>2. \A k \in DOMAIN Seeded : [team |-> Seeded[k], status |-> "open"] \in Ticket
  BY <1>1, ElementOfSeq DEF Ticket, Statuses
<1>3. tickets \in [1 .. Len(Seeded) -> Ticket]
  BY <1>1, <1>2 DEF Init
<1>4. tickets \in Seq(Ticket)
  BY <1>1, <1>3, SeqDef
<1>5. call \in [Instances -> {Idle} \cup InService] /\ arrived \in Nat
  BY DEF Init
<1>6. CallsCleared /\ WritesPermitted
  BY DEF Init, CallsCleared, WritesPermitted
<1>. QED  BY <1>4, <1>5, <1>6 DEF IInv, Shapes

-----------------------------------------------------------------------------
(***************************************************************************)
(* The steps                                                               *)
(***************************************************************************)
LEMMA ArriveStep ==
  ASSUME IInv, NEW i \in Instances, NEW t \in Tokens, NEW q \in Requests, Arrive(i, t, q)
  PROVE  IInv'
<1> PICK c : c = [pc |-> "tag", id |-> arrived', token |-> t, req |-> q,
                  authentic |-> t \in usable, tag |-> NoTeam, blind |-> FALSE,
                  decision |-> "none", reason |-> "none",
                  tickets |-> {}, rows |-> {}, tail |-> 0]
  OBVIOUS
<1>1. arrived' \in Nat /\ tickets' \in Seq(Ticket) /\ TicketsKept /\ writes' = writes
  BY TicketsUnchanged DEF Arrive, IInv, Shapes
<1>2. (t \in usable) \in BOOLEAN
  OBVIOUS
<1>3. c \in InService
  BY <1>1, <1>2 DEF InService, Stages, Pcs, Decisions, Reasons
<1>4. Cleared(c)'
  BY DEF Cleared
<1>5. call' = [call EXCEPT ![i] = c]
  BY DEF Arrive
<1>. QED  BY <1>1, <1>3, <1>4, <1>5, CallBecomes

LEMMA TagStep ==
  ASSUME IInv, NEW i \in Instances, Tag(i)
  PROVE  IInv'
<1> DEFINE c == call[i]
           team == SubjectTeam(c.req)
           d == [c EXCEPT !.pc = "guard", !.tag = team]
<1>1. c \in InService /\ Cleared(c)
  BY Running DEF Tag, Stages, Pcs
<1>2. c.req \in AllRequests
  BY <1>1, GatewayAssumption DEF InService
<1>3. team \in Teams \cup {NoTeam}
  <2>1. c.req.team \in Teams \cup {NoTeam}
    BY <1>2 DEF AllRequests
  <2>2. \A k \in DOMAIN tickets : tickets[k].team \in Teams
    BY TicketTyped DEF IInv, Shapes, Ticket
  <2>. QED  BY <2>1, <2>2 DEF SubjectTeam, Exists
<1>4. call' = [call EXCEPT ![i] = d] /\ UNCHANGED <<tickets, writes, arrived>>
  BY DEF Tag
<1> HIDE DEF c, team
<1>5. d \in InService /\ d.pc = "guard" /\ d.tickets = c.tickets /\ d.token = c.token
  BY <1>1, <1>3 DEF InService, Stages, Pcs
<1> HIDE DEF d
<1>6. Cleared(d)
  BY <1>1, <1>5 DEF Cleared, InScope, TeamsOf
<1>. QED  BY <1>4, <1>5, <1>6, CallMoves

LEMMA TagFaultStep ==
  ASSUME IInv, NEW i \in Instances, TagFault(i)
  PROVE  IInv'
<1> DEFINE c == call[i]
           d == [c EXCEPT !.pc = "guard", !.blind = TRUE]
<1>1. c \in InService /\ Cleared(c)
  BY Running DEF TagFault, Stages, Pcs
<1>2. call' = [call EXCEPT ![i] = d] /\ UNCHANGED <<tickets, writes, arrived>>
  BY DEF TagFault
<1> HIDE DEF c
<1>3. d \in InService /\ d.pc = "guard" /\ d.tickets = c.tickets /\ d.token = c.token
  BY <1>1 DEF InService, Stages, Pcs
<1> HIDE DEF d
<1>4. Cleared(d)
  BY <1>1, <1>3 DEF Cleared, InScope, TeamsOf
<1>. QED  BY <1>2, <1>3, <1>4, CallMoves

LEMMA CheckStep ==
  ASSUME IInv, NEW i \in Instances, NEW level, Check(i, level)
  PROVE  IInv'
<1>1. call[i].pc \in Stages /\ UNCHANGED <<tickets, writes, arrived>>
  BY DEF Check, Stages, Pcs
<1>2. CASE Deny(i, "forbidden")
  BY <1>1, <1>2, Denied DEF Reasons
<1>3. CASE Deny(i, "invalid_argument")
  BY <1>1, <1>3, Denied DEF Reasons
<1>4. CASE Authorized(call[i]) /\ Validated(call[i].req) /\ Goto(i, "dispatch")
  BY <1>1, <1>4, MovedTo DEF Stages, Pcs
<1>. QED  BY <1>2, <1>3, <1>4 DEF Check

LEMMA ListTicketsStep ==
  ASSUME IInv, NEW i \in Instances, ListTickets(i)
  PROVE  IInv'
<1> DEFINE tkts == {k \in DOMAIN tickets :
                     InScope(call[i], k) /\ call[i].req.status \in {"any", tickets[k].status}}
<1>1. Allow(i, tkts, {}) /\ UNCHANGED <<tickets, writes, arrived>>
  BY DEF ListTickets
<1>2. tkts \in SUBSET Nat /\ \A k \in tkts : InScope(call[i], k)
  BY TicketTyped DEF IInv, Shapes
<1>3. call[i].pc \in Stages
  BY DEF ListTickets, Stages, Pcs
<1> HIDE DEF tkts
<1>. QED  BY <1>1, <1>2, <1>3, Allowed

LEMMA GetTicketStep ==
  ASSUME IInv, NEW i \in Instances, GetTicket(i)
  PROVE  IInv'
<1>1. call[i].pc \in Stages /\ UNCHANGED <<tickets, writes, arrived>>
  BY DEF GetTicket, Stages, Pcs
<1>2. CASE InScope(call[i], call[i].req.ticket) /\ Allow(i, {call[i].req.ticket}, {})
  <2>1. call[i].req.ticket \in Nat
    BY <1>2, TicketTyped DEF InScope, Exists, IInv, Shapes
  <2>. QED  BY <1>1, <1>2, <2>1, Allowed
<1>3. CASE Deny(i, "not_found")
  BY <1>1, <1>3, Denied DEF Reasons
<1>. QED  BY <1>2, <1>3 DEF GetTicket

LEMMA CheckVisibleStep ==
  ASSUME IInv, NEW i \in Instances, CheckVisible(i)
  PROVE  IInv'
<1>1. call[i].pc \in Stages /\ UNCHANGED <<tickets, writes, arrived>>
  BY DEF CheckVisible, Stages, Pcs
<1>2. Authorized(call[i]) /\ Validated(call[i].req)
  BY <1>1, Running DEF CheckVisible, Cleared
<1>3. CASE InScope(call[i], call[i].req.ticket) /\ Goto(i, "update")
  BY <1>1, <1>2, <1>3, MovedTo DEF CheckVisible, Stages, Pcs
<1>4. CASE Deny(i, "not_found")
  BY <1>1, <1>4, Denied DEF Reasons
<1>. QED  BY <1>3, <1>4 DEF CheckVisible

\* The call that has changed ticket k goes on to read it back.
LEMMA Written ==
  ASSUME IInv, NEW i \in Instances, call[i].pc \in Stages, NEW k \in Nat,
         tickets' \in Seq(Ticket), TicketsKept, arrived' = arrived,
         k \in DOMAIN tickets', tickets'[k].team \in TeamsOf(call[i]),
         "tickets:write" \in TokenScopes[call[i].token],
         writes' = writes \cup {[id |-> call[i].id, token |-> call[i].token, ticket |-> k]},
         call' = [call EXCEPT ![i].pc = "readback", ![i].tickets = {k}]
  PROVE  IInv'
<1> PICK c : c = call[i]
  OBVIOUS
<1> PICK d : d = [c EXCEPT !.pc = "readback", !.tickets = {k}]
  OBVIOUS
<1> PICK w : w = [id |-> c.id, token |-> c.token, ticket |-> k]
  OBVIOUS
<1>1. c \in InService
  BY Running
<1>2. d \in InService /\ d.pc = "readback" /\ d.tickets = {k} /\ d.token = c.token
  BY <1>1 DEF InService, Stages, Pcs
<1>3. call' = [call EXCEPT ![i] = d]
  OBVIOUS
<1>4. k \in DOMAIN tickets' /\ tickets'[k].team \in TokenTeams[c.token]
  BY DEF TeamsOf
<1>5. Cleared(d)'
  BY <1>2, <1>4 DEF Cleared, InScope, Exists, TeamsOf
<1>6. \A x \in writes' \ writes : Permitted(x)'
  BY <1>4 DEF Permitted
<1>7. arrived' \in Nat
  BY DEF IInv, Shapes
<1>. QED  BY <1>2, <1>3, <1>5, <1>6, <1>7, CallBecomes

LEMMA CreateTicketStep ==
  ASSUME IInv, NEW i \in Instances, CreateTicket(i)
  PROVE  IInv'
<1> DEFINE k == Len(tickets) + 1
           team == call[i].req.team
<1>1. /\ call[i].pc \in Stages
      /\ team \in TeamsOf(call[i])
      /\ tickets' = Append(tickets, [team |-> team, status |-> "open"])
      /\ writes' = writes \cup {[id |-> call[i].id, token |-> call[i].token, ticket |-> k]}
      /\ call' = [call EXCEPT ![i].pc = "readback", ![i].tickets = {k}]
      /\ arrived' = arrived
  BY DEF CreateTicket, Stages, Pcs
<1>2. call[i] \in InService /\ Cleared(call[i])
  BY <1>1, Running
<1>3. call[i].token \in Tokens
  BY <1>2 DEF InService
<1>4. team \in Teams
  BY <1>1, <1>3, GatewayAssumption DEF TeamsOf
<1>5. "tickets:write" \in TokenScopes[call[i].token]
  BY <1>2 DEF Cleared, CreateTicket, Authorized, ToolScope
<1>6. /\ tickets' \in Seq(Ticket) /\ TicketsKept
      /\ k \in DOMAIN tickets' /\ k \in Nat /\ tickets'[k].team = team
  BY <1>1, <1>4, TicketAdded DEF IInv, Shapes
<1>7. tickets'[k].team \in TeamsOf(call[i])
  BY <1>1, <1>6
<1> HIDE DEF k, team
<1>. QED  BY <1>1, <1>5, <1>6, <1>7, Written

LEMMA UpdateStatusStep ==
  ASSUME IInv, NEW i \in Instances, UpdateStatus(i)
  PROVE  IInv'
<1> DEFINE k == call[i].req.ticket
<1>1. /\ call[i].pc \in Stages
      /\ tickets' = [tickets EXCEPT ![k].status = call[i].req.status]
      /\ writes' = writes \cup {[id |-> call[i].id, token |-> call[i].token, ticket |-> k]}
      /\ call' = [call EXCEPT ![i].pc = "readback", ![i].tickets = {k}]
      /\ arrived' = arrived
  BY DEF UpdateStatus, Stages, Pcs
<1>2. call[i] \in InService /\ Cleared(call[i])
  BY <1>1, Running
<1>3. /\ Authorized(call[i]) /\ Validated(call[i].req)
      /\ call[i].req.tool = "update_ticket_status" /\ InScope(call[i], k)
  BY <1>2 DEF Cleared, UpdateStatus
<1>4. "tickets:write" \in TokenScopes[call[i].token]
  BY <1>3 DEF Authorized, ToolScope
<1>5. k \in DOMAIN tickets /\ k \in Nat /\ call[i].req.status \in Statuses
  BY <1>3, TicketTyped DEF InScope, Exists, Validated, IInv, Shapes
<1>6. tickets' \in Seq(Ticket) /\ TicketsKept
  BY <1>1, <1>5, TicketUpdated DEF IInv, Shapes
<1>7. k \in DOMAIN tickets' /\ tickets'[k].team \in TeamsOf(call[i])
  BY <1>3, <1>6 DEF InScope, Exists, TicketsKept
<1>. QED  BY <1>1, <1>4, <1>5, <1>6, <1>7, Written

LEMMA ReadBackStep ==
  ASSUME IInv, NEW i \in Instances, ReadBack(i)
  PROVE  IInv'
<1>1. call[i].pc \in Stages /\ UNCHANGED <<tickets, writes, arrived>>
  BY DEF ReadBack, Stages, Pcs
<1>2. call[i].tickets \in SUBSET Nat /\ \A k \in call[i].tickets : InScope(call[i], k)
  BY <1>1, Running DEF InService, Cleared
<1>. QED  BY <1>1, <1>2, Allowed DEF ReadBack

LEMMA ReadTailStep ==
  ASSUME IInv, NEW i \in Instances, ReadTail(i), AuditRows
  PROVE  IInv'
<1> DEFINE c == call[i]
           n == Len(audit)
           d == [c EXCEPT !.pc = "append", !.tail = n]
<1>1. c \in InService /\ Cleared(c) /\ n \in Nat
  BY Running, LenProperties DEF ReadTail, Stages, Pcs, AuditRows
<1>2. call' = [call EXCEPT ![i] = d] /\ UNCHANGED <<tickets, writes, arrived>>
  BY DEF ReadTail
<1> HIDE DEF c, n
<1>3. d \in InService /\ d.pc = "append" /\ d.tickets = c.tickets /\ d.token = c.token
  BY <1>1 DEF InService, Stages, Pcs
<1> HIDE DEF d
<1>4. Cleared(d)
  BY <1>1, <1>3 DEF Cleared, InScope, TeamsOf
<1>. QED  BY <1>2, <1>3, <1>4, CallMoves

\* What the argument is about is left alone.
LEMMA Untouched ==
  ASSUME IInv, UNCHANGED <<tickets, call, writes>>, arrived' \in Nat
  PROVE  IInv'
  BY DEF IInv, Shapes, CallsCleared, Cleared, InScope, Exists, TeamsOf,
         Authorized, Validated, WritesPermitted, Permitted

(***************************************************************************)
(* A step of Next, one action at a time.                                   *)
(***************************************************************************)
LEMMA StepKeeps ==
  ASSUME IInv, AuditRows, NEW i \in Instances, Step(i)
  PROVE  IInv'
<1>1. CASE \E t \in Tokens, q \in Requests : Arrive(i, t, q)
  BY <1>1, ArriveStep
<1>2. CASE Tag(i)
  BY <1>2, TagStep
<1>3. CASE RejectToken(i)
  BY <1>3, Denied DEF RejectToken, Stages, Pcs, Reasons
<1>4. CASE Throttle(i)
  BY <1>4, Denied DEF Throttle, Stages, Pcs, Reasons
<1>5. CASE \E level \in 1 .. Capacity : Check(i, level)
  BY <1>5, CheckStep
<1>6. CASE ListTickets(i)
  BY <1>6, ListTicketsStep
<1>7. CASE AuditRecent(i)
  <2>1. DOMAIN audit \subseteq Nat
    BY LenProperties DEF AuditRows
  <2>2. Newest(Readable(TeamsOf(call[i])), AuditLimit) \subseteq DOMAIN audit
    BY DEF Newest, Readable
  <2>3. Newest(Readable(TeamsOf(call[i])), AuditLimit) \in SUBSET Nat
    BY <2>1, <2>2
  <2>. QED  BY <1>7, <2>3, Allowed DEF AuditRecent, Stages, Pcs
<1>8. CASE GetTicket(i)
  BY <1>8, GetTicketStep
<1>9. CASE CreateTicket(i)
  BY <1>9, CreateTicketStep
<1>10. CASE RefuseTeam(i)
  BY <1>10, Denied DEF RefuseTeam, Stages, Pcs, Reasons
<1>11. CASE CheckVisible(i)
  BY <1>11, CheckVisibleStep
<1>12. CASE UpdateStatus(i)
  BY <1>12, UpdateStatusStep
<1>13. CASE ReadBack(i)
  BY <1>13, ReadBackStep
<1>14. CASE ReadTail(i)
  BY <1>14, ReadTailStep
<1>15. CASE AppendAudit(i)
  BY <1>15, MovedTo DEF AppendAudit, Stages, Pcs
<1>16. CASE Reply(i)
  BY <1>16, CallEnds DEF Reply
<1>17. CASE TagFault(i)
  BY <1>17, TagFaultStep
<1>18. CASE DispatchFault(i)
  BY <1>18, Denied DEF DispatchFault, Stages, Pcs, Reasons
<1>19. CASE RecordFault(i)
  BY <1>19, CallEnds DEF RecordFault
<1>20. CASE Crash(i)
  BY <1>20, CallEnds DEF Crash
<1>21. CASE \E t \in Tokens : Revoke(i, t)
  BY <1>21, Untouched DEF Revoke, IInv, Shapes
<1>22. CASE ArriveFault
  BY <1>22, Untouched DEF ArriveFault, IInv, Shapes
<1>. QED
  BY <1>1, <1>2, <1>3, <1>4, <1>5, <1>6, <1>7, <1>8, <1>9, <1>10, <1>11, <1>12, <1>13,
     <1>14, <1>15, <1>16, <1>17, <1>18, <1>19, <1>20, <1>21, <1>22 DEF Step, Run

LEMMA RowAdded ==
  ASSUME AuditRows, NEW row, audit' = Append(audit, row)
  PROVE  AuditRows'
<1> PICK S : audit \in Seq(S)
  BY DEF AuditRows
<1> DEFINE T == S \cup {row}
<1>1. Len(audit) \in Nat /\ DOMAIN audit = 1 .. Len(audit) /\ audit \in [1 .. Len(audit) -> S]
  BY LenProperties
<1>2. audit \in [1 .. Len(audit) -> T]
  BY <1>1
<1>3. audit \in Seq(T)
  BY <1>1, <1>2, SeqDef
<1>4. row \in T
  OBVIOUS
<1> HIDE DEF T
<1>5. audit' \in Seq(T)
  BY <1>3, <1>4, AppendProperties
<1>. QED  BY <1>5 DEF AuditRows

\* A step adds at most one row to the audit table.
LEMMA RowsKept ==
  ASSUME AuditRows, NEW i \in Instances, Step(i)
  PROVE  AuditRows'
<1>1. CASE AppendAudit(i)
  BY <1>1, RowAdded DEF AppendAudit
<1>2. CASE audit' = audit
  BY <1>2 DEF AuditRows
<1>3. AppendAudit(i) \/ audit' = audit
  BY DEF Step, Run, Arrive, Tag, RejectToken, Throttle, Check, ListTickets, AuditRecent,
         GetTicket, CreateTicket, RefuseTeam, CheckVisible, UpdateStatus, ReadBack,
         ReadTail, Reply, ArriveFault, TagFault, DispatchFault, RecordFault, Crash, Revoke
<1>. QED  BY <1>1, <1>2, <1>3

LEMMA Scoped == IInv => RowScoped
  BY DEF IInv, WritesPermitted, Permitted, CallsCleared, Cleared, InScope, RowScoped

LEMMA Inductive == IInv /\ AuditRows /\ [Next]_vars => (IInv /\ AuditRows)'
<1> SUFFICES ASSUME IInv, AuditRows, [Next]_vars PROVE IInv' /\ AuditRows'
  OBVIOUS
<1>1. CASE Next
  BY <1>1, StepKeeps, RowsKept DEF Next
<1>2. CASE UNCHANGED vars
  <2>1. UNCHANGED <<tickets, call, writes, audit>> /\ arrived' \in Nat
    BY <1>2 DEF vars, IInv, Shapes
  <2>. QED  BY <2>1, Untouched DEF AuditRows
<1>. QED  BY <1>1, <1>2

LEMMA Start == Init => IInv /\ AuditRows
<1>1. <<>> \in Seq({})
  OBVIOUS
<1>. QED  BY <1>1, Initially DEF Init, AuditRows

-----------------------------------------------------------------------------
(***************************************************************************)
(* A step of the pipeline keeps the call's name, token and authenticity.   *)
(***************************************************************************)
StaysAt(i, pc, decision) ==
  /\ call'[i].pc = pc /\ call'[i].decision = decision
  /\ call'[i].id = call[i].id /\ call'[i].token = call[i].token
  /\ call'[i].authentic = call[i].authentic
  /\ \A j \in Instances \ {i} : call'[j] = call[j]

AtStore == {"dispatch", "update", "readback"}

\* The answer is reached by its event, the store by authentic calls, and an
\* allowed answer at the store.
CameTo(i, pc, decision) ==
  /\ pc = "reply" => AppendAudit(i)
  /\ pc \in AtStore => call[i].authentic \/ call[i].pc \in AtStore
  /\ decision = "allow" => decision = call[i].decision \/ call[i].pc \in AtStore

LEMMA CallFields ==
  ASSUME Shapes, NEW i \in Instances, call[i] \in InService
  PROVE  /\ {"pc", "decision", "id", "token", "authentic"} \subseteq DOMAIN call[i]
         /\ DOMAIN call = Instances
  BY DEF Shapes, InService

LEMMA DenyStays ==
  ASSUME Shapes, NEW i \in Instances, call[i] \in InService, NEW reason, Deny(i, reason)
  PROVE  StaysAt(i, "tail", "deny")
<1> PICK c : c = call[i]
  OBVIOUS
<1> PICK d : d = [c EXCEPT !.pc = "tail", !.decision = "deny", !.reason = reason]
  OBVIOUS
<1>1. /\ d.pc = "tail" /\ d.decision = "deny"
      /\ d.id = c.id /\ d.token = c.token /\ d.authentic = c.authentic
  BY CallFields
<1>2. call' = [call EXCEPT ![i] = d]
  BY DEF Deny
<1>. QED  BY <1>1, <1>2, CallFields DEF StaysAt

LEMMA AllowStays ==
  ASSUME Shapes, NEW i \in Instances, call[i] \in InService, NEW tkts, NEW rows,
         Allow(i, tkts, rows)
  PROVE  StaysAt(i, "tail", "allow")
<1> PICK c : c = call[i]
  OBVIOUS
<1> PICK d : d = [c EXCEPT !.pc = "tail", !.decision = "allow",
                           !.reason = "policy_satisfied",
                           !.tickets = tkts, !.rows = rows]
  OBVIOUS
<1>1. /\ d.pc = "tail" /\ d.decision = "allow"
      /\ d.id = c.id /\ d.token = c.token /\ d.authentic = c.authentic
  BY CallFields
<1>2. call' = [call EXCEPT ![i] = d]
  BY DEF Allow
<1>. QED  BY <1>1, <1>2, CallFields DEF StaysAt

LEMMA GotoStays ==
  ASSUME Shapes, NEW i \in Instances, call[i] \in InService, NEW pc, Goto(i, pc)
  PROVE  StaysAt(i, pc, call[i].decision)
<1> PICK c : c = call[i]
  OBVIOUS
<1> PICK d : d = [c EXCEPT !.pc = pc]
  OBVIOUS
<1>1. /\ d.pc = pc /\ d.decision = c.decision
      /\ d.id = c.id /\ d.token = c.token /\ d.authentic = c.authentic
  BY CallFields
<1>2. call' = [call EXCEPT ![i] = d]
  BY DEF Goto
<1>. QED  BY <1>1, <1>2, CallFields DEF StaysAt

\* The other moves set one field beside pc.
LEMMA FieldStays ==
  ASSUME Shapes, NEW i \in Instances, call[i] \in InService, NEW pc, NEW v,
         \/ call' = [call EXCEPT ![i].pc = pc, ![i].tag = v]
         \/ call' = [call EXCEPT ![i].pc = pc, ![i].blind = v]
         \/ call' = [call EXCEPT ![i].pc = pc, ![i].tail = v]
         \/ call' = [call EXCEPT ![i].pc = pc, ![i].tickets = v]
  PROVE  StaysAt(i, pc, call[i].decision)
<1> PICK c : c = call[i]
  OBVIOUS
<1> PICK d : d \in {[c EXCEPT !.pc = pc, !.tag = v], [c EXCEPT !.pc = pc, !.blind = v],
                    [c EXCEPT !.pc = pc, !.tail = v], [c EXCEPT !.pc = pc, !.tickets = v]}
             /\ call' = [call EXCEPT ![i] = d]
  OBVIOUS
<1>1. /\ d.pc = pc /\ d.decision = c.decision
      /\ d.id = c.id /\ d.token = c.token /\ d.authentic = c.authentic
  BY CallFields
<1>. QED  BY <1>1, CallFields DEF StaysAt

LEMMA RunMoves ==
  ASSUME Shapes, NEW i \in Instances, Run(i)
  PROVE  /\ call[i] \in InService /\ call[i] # Idle /\ arrived' = arrived
         /\ \E pc, decision : pc \in Stages /\ StaysAt(i, pc, decision) /\ CameTo(i, pc, decision)
         /\ AppendAudit(i) \/ audit' = audit
<1>0. call[i].pc \in Stages
  BY DEF Run, Tag, RejectToken, Throttle, Check, ListTickets, AuditRecent, GetTicket,
         CreateTicket, RefuseTeam, CheckVisible, UpdateStatus, ReadBack, ReadTail,
         AppendAudit, TagFault, DispatchFault, Stages, Pcs
<1>1. call[i] \in InService /\ call[i] # Idle
  <2>1. Idle.pc = "idle" /\ "idle" \notin Stages
    BY DEF Idle, Stages
  <2>2. call[i] # Idle
    BY <1>0, <2>1
  <2>. QED  BY <2>2 DEF Shapes
<1>2. arrived' = arrived /\ (AppendAudit(i) \/ audit' = audit)
  BY DEF Run, Tag, RejectToken, Throttle, Check, ListTickets, AuditRecent, GetTicket,
         CreateTicket, RefuseTeam, CheckVisible, UpdateStatus, ReadBack, ReadTail,
         AppendAudit, TagFault, DispatchFault
<1>3. CASE \E reason : Deny(i, reason)
  <2>1. StaysAt(i, "tail", "deny")
    BY <1>1, <1>3, DenyStays
  <2>. QED  BY <1>1, <1>2, <2>1 DEF CameTo, AtStore, Stages, Pcs
<1>4. CASE call[i].pc \in AtStore /\ \E tkts, rows : Allow(i, tkts, rows)
  <2>1. StaysAt(i, "tail", "allow")
    BY <1>1, <1>4, AllowStays
  <2>. QED  BY <1>1, <1>2, <1>4, <2>1 DEF CameTo, AtStore, Stages, Pcs
<1>5. ASSUME NEW pc \in Stages, StaysAt(i, pc, call[i].decision),
             pc = "reply" => AppendAudit(i),
             pc \in AtStore => call[i].authentic \/ call[i].pc \in AtStore
      PROVE  \E p, decision : p \in Stages /\ StaysAt(i, p, decision) /\ CameTo(i, p, decision)
  BY <1>5 DEF CameTo
<1>6. CASE call[i].authentic /\ Goto(i, "dispatch")
  BY <1>1, <1>2, <1>5, <1>6, GotoStays DEF Stages, Pcs
<1>7. CASE CheckVisible(i) /\ Goto(i, "update")
  BY <1>1, <1>2, <1>5, <1>7, GotoStays DEF CheckVisible, AtStore, Stages, Pcs
<1>8. CASE AppendAudit(i)
  <2>1. StaysAt(i, "reply", call[i].decision)
    BY <1>1, <1>8, GotoStays DEF AppendAudit
  <2>. QED  BY <1>1, <1>2, <1>5, <1>8, <2>1 DEF AtStore, Stages, Pcs
<1>9. CASE Tag(i) \/ TagFault(i)
  <2>1. PICK v : \/ call' = [call EXCEPT ![i].pc = "guard", ![i].tag = v]
                 \/ call' = [call EXCEPT ![i].pc = "guard", ![i].blind = v]
    BY <1>9 DEF Tag, TagFault
  <2>2. StaysAt(i, "guard", call[i].decision)
    BY <1>1, <2>1, FieldStays
  <2>. QED  BY <1>1, <1>2, <1>5, <2>2 DEF AtStore, Stages, Pcs
<1>10. CASE CreateTicket(i) \/ UpdateStatus(i)
  <2>1. PICK v : call' = [call EXCEPT ![i].pc = "readback", ![i].tickets = v]
    BY <1>10 DEF CreateTicket, UpdateStatus
  <2>2. StaysAt(i, "readback", call[i].decision)
    BY <1>1, <2>1, FieldStays
  <2>. QED  BY <1>1, <1>2, <1>5, <1>10, <2>2 DEF CreateTicket, UpdateStatus, AtStore, Stages, Pcs
<1>11. CASE ReadTail(i)
  <2>1. PICK v : call' = [call EXCEPT ![i].pc = "append", ![i].tail = v]
    BY <1>11 DEF ReadTail
  <2>2. StaysAt(i, "append", call[i].decision)
    BY <1>1, <2>1, FieldStays
  <2>. QED  BY <1>1, <1>2, <1>5, <2>2 DEF AtStore, Stages, Pcs
<1>. QED
  BY <1>3, <1>4, <1>6, <1>7, <1>8, <1>9, <1>10, <1>11
  DEF Run, RejectToken, Throttle, Check, ListTickets, AuditRecent, GetTicket,
      RefuseTeam, CheckVisible, ReadBack, DispatchFault, AtStore

-----------------------------------------------------------------------------
(***************************************************************************)
(* Revocation: what an authentic call does is backed by its token, usable  *)
(* still or revoked when the call had arrived.                             *)
(***************************************************************************)
Backed(t, n) == n \in 0 .. arrived /\ (t \in usable \/ n <= revokedAt[t])

Vouched(c) ==
  /\ c.id \in 0 .. arrived
  /\ c.authentic => Backed(c.token, c.id)
  /\ c.pc \in AtStore \/ c.decision = "allow" => c.authentic

RowBacked(row) == row.decision = "allow" => Backed(row.token, row.id)

RevokedInv ==
  /\ DOMAIN revokedAt = Tokens
  /\ \A i \in Instances : call[i] # Idle => Vouched(call[i])
  /\ \A w \in writes : Backed(w.token, w.id)
  /\ \A k \in DOMAIN audit : RowBacked(audit[k])

\* A step counts calls up, and revokes at the present count.
BackingKept == \A t, n : Backed(t, n) => Backed(t, n)'

LEMMA NothingRevoked ==
  ASSUME arrived \in Nat, arrived' \in {arrived, arrived + 1},
         UNCHANGED <<usable, revokedAt>>
  PROVE  BackingKept
  BY DEF BackingKept, Backed

LEMMA RevokedNow ==
  ASSUME RevokedInv, arrived \in Nat, NEW i \in Instances, NEW t \in Tokens, Revoke(i, t)
  PROVE  BackingKept /\ DOMAIN revokedAt' = Tokens
<1>1. /\ usable' = usable \ {t} /\ revokedAt' = [revokedAt EXCEPT ![t] = arrived]
      /\ arrived' = arrived
  BY DEF Revoke
<1>2. revokedAt'[t] = arrived /\ \A u \in Tokens \ {t} : revokedAt'[u] = revokedAt[u]
  BY <1>1 DEF RevokedInv
<1>3. ASSUME NEW u, NEW n, Backed(u, n) PROVE Backed(u, n)'
  <2>1. CASE u = t
    BY <1>1, <1>2, <1>3, <2>1 DEF Backed
  <2>2. CASE u # t
    <3>1. u \in usable => u \in usable'
      BY <1>1, <2>2
    <3>2. revokedAt'[u] = revokedAt[u]
      BY <1>1, <2>2
    <3>. QED  BY <1>1, <1>3, <3>1, <3>2 DEF Backed
  <2>. QED  BY <2>1, <2>2
<1>. QED  BY <1>1, <1>3 DEF BackingKept, RevokedInv

\* The rows of the audit table after an INSERT.
LEMMA RowsAfter ==
  ASSUME AuditRows, NEW row, audit' = Append(audit, row)
  PROVE  /\ Len(audit) \in Nat
         /\ DOMAIN audit = 1 .. Len(audit) /\ DOMAIN audit' = 1 .. Len(audit) + 1
         /\ \A k \in 1 .. Len(audit) : audit'[k] = audit[k]
         /\ audit'[Len(audit) + 1] = row
<1> PICK S : audit \in Seq(S)
  BY DEF AuditRows
<1> DEFINE T == S \cup {row}
<1>1. Len(audit) \in Nat /\ DOMAIN audit = 1 .. Len(audit) /\ audit \in [1 .. Len(audit) -> S]
  BY LenProperties
<1>2. audit \in [1 .. Len(audit) -> T]
  BY <1>1
<1>3. audit \in Seq(T) /\ row \in T
  BY <1>1, <1>2, SeqDef
<1> HIDE DEF T
<1>. QED  BY <1>1, <1>3, AppendProperties

(***************************************************************************)
(* A step of instance i keeps what it may break: its call is vouched for,  *)
(* and so is what it has written and recorded.                             *)
(***************************************************************************)
LEMMA StepBacked ==
  ASSUME RevokedInv, BackingKept, DOMAIN revokedAt' = Tokens, NEW i \in Instances,
         \A j \in Instances \ {i} : call'[j] = call[j],
         arrived \in Nat, arrived' \in {arrived, arrived + 1},
         call'[i] # Idle => Vouched(call[i])',
         \A w \in writes' \ writes : Backed(w.token, w.id)',
         \A k \in DOMAIN audit' : \/ k \in DOMAIN audit /\ audit'[k] = audit[k]
                                  \/ RowBacked(audit[k])'
  PROVE  RevokedInv'
<1>1. ASSUME NEW j \in Instances, call'[j] # Idle PROVE Vouched(call[j])'
  <2>1. CASE j = i
    BY <1>1, <2>1
  <2>2. CASE j # i
    <3> PICK c : c = call[j]
      OBVIOUS
    <3>1. call'[j] = c /\ c # Idle
      BY <1>1, <2>2
    <3>2. Vouched(c)
      BY <3>1 DEF RevokedInv
    <3>3. c.authentic => Backed(c.token, c.id)'
      BY <3>2 DEF Vouched, BackingKept
    <3>. QED  BY <3>1, <3>2, <3>3 DEF Vouched, Backed
  <2>. QED  BY <2>1, <2>2
<1>2. ASSUME NEW w \in writes' PROVE Backed(w.token, w.id)'
  BY <1>2 DEF RevokedInv, BackingKept
<1>3. ASSUME NEW k \in DOMAIN audit' PROVE RowBacked(audit[k])'
  <2>1. CASE k \in DOMAIN audit /\ audit'[k] = audit[k]
    <3> PICK row : row = audit[k]
      OBVIOUS
    <3>1. RowBacked(row)
      BY <2>1 DEF RevokedInv
    <3>2. row.decision = "allow" => Backed(row.token, row.id)'
      BY <3>1 DEF RowBacked, BackingKept
    <3>. QED  BY <2>1, <3>2 DEF RowBacked, Backed
  <2>. QED  BY <1>3, <2>1
<1>. QED  BY <1>1, <1>2, <1>3 DEF RevokedInv

LEMMA RunBacked ==
  ASSUME Shapes, AuditRows, RevokedInv, NEW i \in Instances, Run(i)
  PROVE  RevokedInv'
<1>1. /\ call[i] \in InService /\ call[i] # Idle /\ arrived' = arrived /\ arrived \in Nat
      /\ AppendAudit(i) \/ audit' = audit
  BY RunMoves DEF Shapes
<1>2. PICK pc, decision : pc \in Stages /\ StaysAt(i, pc, decision) /\ CameTo(i, pc, decision)
  BY RunMoves
<1>3. UNCHANGED <<usable, revokedAt>>
  BY DEF Run, Tag, RejectToken, Throttle, Check, ListTickets, AuditRecent, GetTicket,
         CreateTicket, RefuseTeam, CheckVisible, UpdateStatus, ReadBack, ReadTail,
         AppendAudit, TagFault, DispatchFault
<1>4. BackingKept /\ DOMAIN revokedAt' = Tokens
  BY <1>1, <1>3, NothingRevoked DEF RevokedInv
<1> PICK c : c = call[i]
  OBVIOUS
<1>5. Vouched(c)
  BY <1>1 DEF RevokedInv
<1>6. Vouched(call[i])'
  <2>1. c.authentic => Backed(c.token, c.id)'
    BY <1>4, <1>5 DEF Vouched, BackingKept
  <2>2. pc \in AtStore \/ decision = "allow" => c.authentic
    BY <1>2, <1>5 DEF CameTo, Vouched
  <2>. QED  BY <1>1, <1>2, <1>5, <2>1, <2>2 DEF Vouched, Backed, StaysAt
<1>7. \A w \in writes' \ writes : Backed(w.token, w.id)'
  <2>1. CASE CreateTicket(i) \/ UpdateStatus(i)
    <3>1. c.pc \in AtStore /\ \A w \in writes' \ writes : w.token = c.token /\ w.id = c.id
      BY <2>1 DEF CreateTicket, UpdateStatus, AtStore
    <3>2. Backed(c.token, c.id)'
      BY <1>4, <1>5, <3>1 DEF Vouched, BackingKept
    <3>. QED  BY <3>1, <3>2 DEF Backed
  <2>2. CASE writes' = writes
    BY <2>2
  <2>. QED
    BY <2>1, <2>2 DEF Run, Tag, RejectToken, Throttle, Check, ListTickets, AuditRecent, GetTicket,
       RefuseTeam, CheckVisible, ReadBack, ReadTail, AppendAudit, TagFault, DispatchFault
<1>8. \A k \in DOMAIN audit' : \/ k \in DOMAIN audit /\ audit'[k] = audit[k]
                               \/ RowBacked(audit[k])'
  <2>1. CASE audit' = audit
    BY <2>1
  <2>2. CASE AppendAudit(i)
    <3> PICK row : row = Event(c)
      OBVIOUS
    <3>1. audit' = Append(audit, row)
      BY <2>2 DEF AppendAudit
    <3>2. row.decision = c.decision /\ row.token = c.token /\ row.id = c.id
      BY DEF Event
    <3>3. c.decision = "allow" => Backed(c.token, c.id)'
      BY <1>4, <1>5 DEF Vouched, BackingKept
    <3>4. /\ Len(audit) \in Nat
          /\ DOMAIN audit = 1 .. Len(audit) /\ DOMAIN audit' = 1 .. Len(audit) + 1
          /\ \A k \in 1 .. Len(audit) : audit'[k] = audit[k]
          /\ audit'[Len(audit) + 1] = row
      BY <3>1, RowsAfter
    <3>5. ASSUME NEW k \in DOMAIN audit', audit'[k] = row PROVE RowBacked(audit[k])'
      BY <3>2, <3>3, <3>5 DEF RowBacked, Backed
    <3>. QED  BY <3>4, <3>5
  <2>. QED  BY <1>1, <2>1, <2>2
<1>9. \A j \in Instances \ {i} : call'[j] = call[j]
  BY <1>2 DEF StaysAt
<1>. QED  BY <1>1, <1>4, <1>6, <1>7, <1>8, <1>9, StepBacked

\* Where nothing is written or recorded and the call, if it stays, is as it was.
LEMMA EndBacked ==
  ASSUME RevokedInv, arrived \in Nat, arrived' \in {arrived, arrived + 1}, BackingKept,
         DOMAIN revokedAt' = Tokens, UNCHANGED <<writes, audit>>,
         \A j \in Instances : call'[j] = call[j] \/ call'[j] = Idle
  PROVE  RevokedInv'
<1>1. ASSUME NEW j \in Instances, call'[j] # Idle PROVE Vouched(call[j])'
  <2> PICK c : c = call[j]
    OBVIOUS
  <2>1. call'[j] = c /\ Vouched(c)
    BY <1>1 DEF RevokedInv
  <2>2. c.authentic => Backed(c.token, c.id)'
    BY <2>1 DEF Vouched, BackingKept
  <2>. QED  BY <2>1, <2>2 DEF Vouched, Backed
<1>2. ASSUME NEW w \in writes' PROVE Backed(w.token, w.id)'
  BY <1>2 DEF RevokedInv, BackingKept
<1>3. ASSUME NEW k \in DOMAIN audit' PROVE RowBacked(audit[k])'
  <2> PICK row : row = audit[k]
    OBVIOUS
  <2>1. RowBacked(row) /\ audit'[k] = row
    BY <1>3 DEF RevokedInv
  <2>2. row.decision = "allow" => Backed(row.token, row.id)'
    BY <2>1 DEF RowBacked, BackingKept
  <2>. QED  BY <2>1, <2>2 DEF RowBacked, Backed
<1>. QED  BY <1>1, <1>2, <1>3 DEF RevokedInv

LEMMA ArriveBacked ==
  ASSUME Shapes, RevokedInv, NEW i \in Instances, NEW t \in Tokens, NEW q \in Requests,
         Arrive(i, t, q)
  PROVE  RevokedInv'
<1> PICK c : c = [pc |-> "tag", id |-> arrived', token |-> t, req |-> q,
                  authentic |-> t \in usable, tag |-> NoTeam, blind |-> FALSE,
                  decision |-> "none", reason |-> "none",
                  tickets |-> {}, rows |-> {}, tail |-> 0]
  OBVIOUS
<1>1. /\ call' = [call EXCEPT ![i] = c] /\ arrived' = arrived + 1 /\ arrived \in Nat
      /\ UNCHANGED <<usable, revokedAt, writes, audit>>
  BY DEF Arrive, Shapes
<1>2. BackingKept /\ DOMAIN revokedAt' = Tokens
  BY <1>1, NothingRevoked DEF RevokedInv
<1>3. call'[i] = c /\ \A j \in Instances \ {i} : call'[j] = call[j]
  BY <1>1 DEF Shapes
<1>4. /\ c.id = arrived' /\ c.token = t /\ c.authentic = (t \in usable)
      /\ c.pc \notin AtStore /\ c.decision # "allow"
  BY DEF AtStore
<1>5. Vouched(call[i])'
  <2>1. c.authentic => t \in usable'
    BY <1>1, <1>4
  <2>2. c.id \in 0 .. arrived'
    BY <1>1, <1>4
  <2>3. c.authentic => Backed(c.token, c.id)'
    BY <1>4, <2>1, <2>2 DEF Backed
  <2>. QED  BY <1>3, <1>4, <2>2, <2>3 DEF Vouched, Backed
<1>. QED  BY <1>1, <1>2, <1>3, <1>5, StepBacked

LEMMA StepKeepsBacking ==
  ASSUME Shapes, AuditRows, RevokedInv, NEW i \in Instances, Step(i)
  PROVE  RevokedInv'
<1>0. arrived \in Nat /\ DOMAIN call = Instances
  BY DEF Shapes
<1>1. CASE \E t \in Tokens, q \in Requests : Arrive(i, t, q)
  BY <1>1, ArriveBacked
<1>2. CASE Run(i)
  BY <1>2, RunBacked
<1>3. CASE ArriveFault \/ Reply(i) \/ RecordFault(i) \/ Crash(i)
  <2>1. /\ arrived' \in {arrived, arrived + 1} /\ UNCHANGED <<usable, revokedAt, writes, audit>>
        /\ call' = call \/ call' = [call EXCEPT ![i] = Idle]
    BY <1>3 DEF ArriveFault, Reply, RecordFault, Crash
  <2>2. \A j \in Instances : call'[j] = call[j] \/ call'[j] = Idle
    BY <1>0, <2>1
  <2>3. BackingKept /\ DOMAIN revokedAt' = Tokens
    BY <1>0, <2>1, NothingRevoked DEF RevokedInv
  <2>. QED  BY <1>0, <2>1, <2>2, <2>3, EndBacked
<1>4. CASE \E t \in Tokens : Revoke(i, t)
  BY <1>0, <1>4, RevokedNow, EndBacked DEF Revoke
<1>. QED  BY <1>1, <1>2, <1>3, <1>4 DEF Step

LEMMA StartBacked == Init => RevokedInv
  BY DEF Init, RevokedInv, Idle

LEMMA BackedMeansCutOff == RevokedInv => RevocationCutsOff
  BY DEF RevokedInv, RowBacked, Backed, RevocationCutsOff

LEMMA BackingInductive == IInv /\ AuditRows /\ RevokedInv /\ [Next]_vars => RevokedInv'
<1> SUFFICES ASSUME IInv, AuditRows, RevokedInv, [Next]_vars PROVE RevokedInv'
  OBVIOUS
<1>1. CASE Next
  BY <1>1, StepKeepsBacking DEF Next, IInv
<1>2. CASE UNCHANGED vars
  BY <1>2 DEF vars, RevokedInv, Vouched, Backed, RowBacked
<1>. QED  BY <1>1, <1>2

-----------------------------------------------------------------------------
(***************************************************************************)
(* Denials: a call that has written is on its way to an allowed answer.    *)
(* The hypothesis is that the SELECT after a committed write does not fail *)
(* (store.py:133-137), the one fault that turns a change into a denial.    *)
(***************************************************************************)
Wrote(id) == \E w \in writes : w.id = id

Granted(c) ==
  \/ c.pc = "readback"
  \/ c.pc \in {"tail", "append", "reply"} /\ c.decision = "allow"

TraceInv ==
  /\ \A w \in writes : w.id \in 0 .. arrived
  /\ \A k \in DOMAIN audit : audit[k].id \in 0 .. arrived
  /\ \A i \in Instances : call[i] # Idle => call[i].id \in 0 .. arrived
  /\ \A i, j \in Instances :
       call[i] # Idle /\ call[j] # Idle /\ call[i].id = call[j].id => i = j
  /\ \A i \in Instances : call[i] # Idle /\ call[i].pc # "reply" =>
       \A k \in DOMAIN audit : audit[k].id # call[i].id
  /\ \A i \in Instances : call[i] # Idle /\ Wrote(call[i].id) => Granted(call[i])
  /\ \A k \in DOMAIN audit : audit[k].decision = "deny" => ~Wrote(audit[k].id)

LEMMA StaysGranted ==
  ASSUME Shapes, NEW i \in Instances, Run(i), Granted(call[i]), "readback" \notin Faulty
  PROVE  Granted(call'[i])
<1>1. call[i] \in InService
  BY RunMoves
<1>2. CASE ReadBack(i)
  <2>1. StaysAt(i, "tail", "allow")
    BY <1>1, <1>2, AllowStays DEF ReadBack
  <2>. QED  BY <2>1 DEF StaysAt, Granted
<1>3. CASE ReadTail(i)
  <2>1. PICK v : call' = [call EXCEPT ![i].pc = "append", ![i].tail = v]
    BY <1>3 DEF ReadTail
  <2>2. StaysAt(i, "append", call[i].decision)
    BY <1>1, <2>1, FieldStays
  <2>. QED  BY <1>3, <2>2 DEF StaysAt, Granted, ReadTail
<1>4. CASE AppendAudit(i)
  <2>1. StaysAt(i, "reply", call[i].decision)
    BY <1>1, <1>4, GotoStays DEF AppendAudit
  <2>. QED  BY <1>4, <2>1 DEF StaysAt, Granted, AppendAudit
<1>. QED
  BY <1>2, <1>3, <1>4
  DEF Run, Granted, Tag, RejectToken, Throttle, Check, ListTickets, AuditRecent, GetTicket,
      CreateTicket, RefuseTeam, CheckVisible, UpdateStatus, TagFault, DispatchFault

\* A write takes the call to its read-back, and is made before its event.
LEMMA WriteMakesGranted ==
  ASSUME Shapes, NEW i \in Instances, Run(i), NEW w \in writes' \ writes
  PROVE  /\ w.id = call[i].id /\ audit' = audit /\ call[i].pc \in {"dispatch", "update"}
         /\ Granted(call'[i])
<1>1. CreateTicket(i) \/ UpdateStatus(i)
  BY DEF Run, Tag, RejectToken, Throttle, Check, ListTickets, AuditRecent, GetTicket,
         RefuseTeam, CheckVisible, ReadBack, ReadTail, AppendAudit, TagFault, DispatchFault
<1>2. PICK v : call' = [call EXCEPT ![i].pc = "readback", ![i].tickets = v]
  BY <1>1 DEF CreateTicket, UpdateStatus
<1>3. StaysAt(i, "readback", call[i].decision)
  BY <1>2, RunMoves, FieldStays
<1>. QED  BY <1>1, <1>3 DEF CreateTicket, UpdateStatus, StaysAt, Granted

\* Between the steps of the pipeline calls come in and end, and nothing else.
LEMMA TraceComesAndGoes ==
  ASSUME TraceInv, NEW i \in Instances, arrived \in Nat, arrived' \in {arrived, arrived + 1},
         UNCHANGED <<writes, audit>>, \A j \in Instances \ {i} : call'[j] = call[j],
         \/ call'[i] \in {Idle, call[i]}
         \/ arrived' = arrived + 1 /\ call'[i].id = arrived'
  PROVE  TraceInv'
<1>1. 0 .. arrived \subseteq 0 .. arrived' /\ arrived' \in 0 .. arrived'
  OBVIOUS
<1>2. \A id : Wrote(id)' <=> Wrote(id)
  BY DEF Wrote
<1>3. \A j \in Instances : call'[j] # Idle =>
        \/ call'[j] = call[j] /\ call[j] # Idle
        \/ j = i /\ call'[j].id = arrived' /\ arrived' \notin 0 .. arrived
  OBVIOUS
<1>4. \A j \in Instances : call'[j] # Idle => call'[j].id \in 0 .. arrived'
  BY <1>1, <1>3 DEF TraceInv
<1>5. ASSUME NEW j \in Instances, NEW k \in Instances,
             call'[j] # Idle, call'[k] # Idle, call'[j].id = call'[k].id
      PROVE  j = k
  BY <1>3, <1>5 DEF TraceInv
<1>6. ASSUME NEW j \in Instances, call'[j] # Idle, call'[j].pc # "reply", NEW k \in DOMAIN audit
      PROVE  audit[k].id # call'[j].id
  BY <1>3, <1>6 DEF TraceInv
<1>7. ASSUME NEW j \in Instances, call'[j] # Idle, Wrote(call'[j].id)
      PROVE  Granted(call'[j])
  BY <1>3, <1>7 DEF TraceInv, Wrote
<1>8. /\ \A w \in writes' : w.id \in 0 .. arrived'
      /\ \A k \in DOMAIN audit' : /\ audit'[k].id \in 0 .. arrived'
                                  /\ audit'[k].decision = "deny" => ~Wrote(audit'[k].id)
  BY <1>1 DEF TraceInv
<1>. QED  BY <1>2, <1>4, <1>5, <1>6, <1>7, <1>8 DEF TraceInv, Wrote, Granted

LEMMA RunKeepsTrace ==
  ASSUME Shapes, AuditRows, TraceInv, NEW i \in Instances, Run(i), "readback" \notin Faulty
  PROVE  TraceInv'
<1>1. /\ call[i] # Idle /\ arrived' = arrived
      /\ AppendAudit(i) \/ audit' = audit
  BY RunMoves
<1>2. PICK pc, decision : pc \in Stages /\ StaysAt(i, pc, decision) /\ CameTo(i, pc, decision)
  BY RunMoves
<1> PICK id : id = call[i].id
  OBVIOUS
<1>3. /\ call'[i].id = id /\ id \in 0 .. arrived
      /\ \A j \in Instances \ {i} : call'[j] = call[j] /\ (call[j] # Idle => call[j].id # id)
  BY <1>1, <1>2 DEF StaysAt, TraceInv
<1>4. call[i].pc # "reply" /\ \A k \in DOMAIN audit : audit[k].id # id
  <2>1. call[i].pc # "reply"
    BY DEF Run, Tag, RejectToken, Throttle, Check, ListTickets, AuditRecent, GetTicket,
           CreateTicket, RefuseTeam, CheckVisible, UpdateStatus, ReadBack, ReadTail,
           AppendAudit, TagFault, DispatchFault
  <2>. QED  BY <1>1, <2>1 DEF TraceInv
<1>5. \A w \in writes' \ writes : w.id = id /\ audit' = audit /\ Granted(call'[i])
  BY WriteMakesGranted
<1>6. \A n : n # id /\ Wrote(n)' => Wrote(n)
  BY <1>5 DEF Wrote
<1>7. Wrote(id)' => Granted(call'[i])
  <2>1. CASE Wrote(id)
    BY <1>1, <2>1, StaysGranted DEF TraceInv
  <2>. QED  BY <1>5, <2>1 DEF Wrote
<1>8. \A k \in DOMAIN audit' : \/ k \in DOMAIN audit /\ audit'[k] = audit[k]
                               \/ /\ audit'[k].id = id /\ pc = "reply"
                                  /\ audit'[k].decision = "deny" => ~Wrote(id)'
  <2>1. CASE AppendAudit(i)
    <3> PICK row : row = Event(call[i])
      OBVIOUS
    <3>1. /\ audit' = Append(audit, row) /\ writes' = writes /\ call[i].pc = "append"
          /\ Goto(i, "reply")
      BY <2>1 DEF AppendAudit
    <3>2. row.id = id /\ row.decision = call[i].decision
      BY DEF Event
    <3>3. row.decision = "deny" => ~Wrote(id)
      BY <1>1, <3>1, <3>2 DEF TraceInv, Granted
    <3>4. pc = "reply"
      BY <1>2, <3>1, GotoStays, RunMoves DEF StaysAt
    <3>5. /\ Len(audit) \in Nat
          /\ DOMAIN audit = 1 .. Len(audit) /\ DOMAIN audit' = 1 .. Len(audit) + 1
          /\ \A k \in 1 .. Len(audit) : audit'[k] = audit[k]
          /\ audit'[Len(audit) + 1] = row
      BY <3>1, RowsAfter
    <3>. QED  BY <3>1, <3>2, <3>3, <3>4, <3>5 DEF Wrote
  <2>2. CASE audit' = audit
    BY <2>2
  <2>. QED  BY <1>1, <2>1, <2>2
<1>9. \A w \in writes' : w.id \in 0 .. arrived'
  BY <1>1, <1>3, <1>5 DEF TraceInv
<1>10. ASSUME NEW k \in DOMAIN audit'
       PROVE  /\ audit'[k].id \in 0 .. arrived'
              /\ audit'[k].decision = "deny" => ~Wrote(audit[k].id)'
  <2>1. CASE k \in DOMAIN audit /\ audit'[k] = audit[k]
    <3>1. audit[k].decision = "deny" => ~Wrote(audit[k].id)
      BY <2>1 DEF TraceInv
    <3>2. audit[k].id # id
      BY <1>4, <2>1
    <3>3. audit[k].decision = "deny" => \A w \in writes' : w.id # audit[k].id
      BY <1>5, <3>1, <3>2 DEF Wrote
    <3>. QED  BY <1>1, <2>1, <3>3 DEF TraceInv, Wrote
  <2>2. CASE audit'[k].id = id /\ (audit'[k].decision = "deny" => ~Wrote(id)')
    BY <1>1, <1>3, <2>2 DEF Wrote
  <2>. QED  BY <1>8, <2>1, <2>2
<1>11. ASSUME NEW j \in Instances, call'[j] # Idle
       PROVE  /\ call'[j].id \in 0 .. arrived'
              /\ \A l \in Instances : call'[l] # Idle /\ call'[l].id = call'[j].id => j = l
              /\ call'[j].pc # "reply" => \A k \in DOMAIN audit' : audit'[k].id # call'[j].id
              /\ Wrote(call[j].id)' => Granted(call'[j])
  <2>1. CASE j = i
    <3>1. call'[j].pc # "reply" => \A k \in DOMAIN audit' : audit'[k].id # id
      BY <1>2, <1>4, <1>8, <2>1 DEF StaysAt
    <3>2. \A l \in Instances : call'[l] # Idle /\ call'[l].id = id => i = l
      BY <1>3
    <3>. QED  BY <1>1, <1>3, <1>7, <2>1, <3>1, <3>2 DEF Wrote
  <2>2. CASE j # i
    <3> PICK c : c = call[j]
      OBVIOUS
    <3>1. call'[j] = c /\ c # Idle /\ c.id # id
      BY <1>3, <1>11, <2>2
    <3>2. c.id \in 0 .. arrived'
      BY <1>1, <3>1 DEF TraceInv
    <3>3. \A l \in Instances : call'[l] # Idle /\ call'[l].id = c.id => j = l
      BY <1>3, <3>1 DEF TraceInv
    <3>4. c.pc # "reply" => \A k \in DOMAIN audit' : audit'[k].id # c.id
      BY <1>8, <3>1 DEF TraceInv
    <3>5. Wrote(c.id) => Granted(c)
      BY <3>1 DEF TraceInv
    <3>6. (\E w \in writes' : w.id = c.id) => Granted(c)
      BY <1>5, <3>1, <3>5 DEF Wrote
    <3>. QED  BY <3>1, <3>2, <3>3, <3>4, <3>6 DEF Wrote
  <2>. QED  BY <2>1, <2>2
<1>12. \A j \in Instances : call'[j] # Idle /\ Wrote(call[j].id)' => Granted(call[j])'
  BY <1>11 DEF Granted
<1>. QED  BY <1>9, <1>10, <1>11, <1>12 DEF TraceInv

LEMMA TraceInductive ==
  ASSUME "readback" \notin Faulty
  PROVE  IInv /\ AuditRows /\ TraceInv /\ [Next]_vars => TraceInv'
<1> SUFFICES ASSUME Shapes, AuditRows, TraceInv, [Next]_vars PROVE TraceInv'
  BY DEF IInv
<1>0. arrived \in Nat /\ DOMAIN call = Instances
  BY DEF Shapes
<1>1. ASSUME NEW i \in Instances, Step(i) PROVE TraceInv'
  <2>1. CASE Run(i)
    BY <2>1, RunKeepsTrace
  <2>2. ASSUME NEW t \in Tokens, NEW q \in Requests, Arrive(i, t, q) PROVE TraceInv'
    <3> PICK c : c = [pc |-> "tag", id |-> arrived', token |-> t, req |-> q,
                      authentic |-> t \in usable, tag |-> NoTeam, blind |-> FALSE,
                      decision |-> "none", reason |-> "none",
                      tickets |-> {}, rows |-> {}, tail |-> 0]
      OBVIOUS
    <3>1. /\ call' = [call EXCEPT ![i] = c] /\ arrived' = arrived + 1
          /\ UNCHANGED <<writes, audit>>
      BY <2>2 DEF Arrive
    <3>2. call'[i].id = arrived' /\ \A j \in Instances \ {i} : call'[j] = call[j]
      BY <1>0, <3>1
    <3>. QED  BY <1>0, <3>1, <3>2, TraceComesAndGoes
  <2>3. CASE ArriveFault \/ \E t \in Tokens : Revoke(i, t)
    BY <1>0, <2>3, TraceComesAndGoes DEF ArriveFault, Revoke
  <2>4. CASE Reply(i) \/ RecordFault(i) \/ Crash(i)
    <3>1. call' = [call EXCEPT ![i] = Idle] /\ arrived' = arrived /\ UNCHANGED <<writes, audit>>
      BY <2>4 DEF Reply, RecordFault, Crash
    <3>2. call'[i] = Idle /\ \A j \in Instances \ {i} : call'[j] = call[j]
      BY <1>0, <3>1
    <3>. QED  BY <1>0, <3>1, <3>2, TraceComesAndGoes
  <2>. QED  BY <1>1, <2>1, <2>2, <2>3, <2>4 DEF Step
<1>2. CASE UNCHANGED vars
  BY <1>2 DEF vars, TraceInv, Wrote, Granted
<1>. QED  BY <1>1, <1>2 DEF Next

LEMMA StartTraced == Init => TraceInv
  BY DEF Init, TraceInv

LEMMA TraceMeansNoSideEffect == TraceInv => DeniedLeavesNoTrace
  BY DEF TraceInv, Wrote, DeniedLeavesNoTrace

-----------------------------------------------------------------------------
(***************************************************************************)
(* Audit reads: with one instance on the database nothing comes between    *)
(* the look-up of a call's subject and its dispatch, so the team an event  *)
(* carries is that of every ticket the call was answered with.             *)
(***************************************************************************)
OneInstance == \A i, j \in Instances : i = j

TeamIs(k, team) == k \in DOMAIN tickets /\ tickets[k].team = team

\* The tag is right from its look-up to the dispatch, then for what is handed
\* out; and the rows handed out were readable.
Tagged(c) ==
  /\ c.pc \in {"tag", "guard", "dispatch", "update"} => c.tickets = {} /\ c.rows = {}
  /\ c.pc \in {"guard", "dispatch", "update"} /\ ~c.blind => c.tag = SubjectTeam(c.req)
  /\ ~c.blind /\ c.req.tool # "list_tickets" => \A k \in c.tickets : TeamIs(k, c.tag)
  /\ \A n \in c.rows : n \in DOMAIN audit /\ audit[n].team \in TeamsOf(c) \cup {NoTeam}

RowTagged(row) ==
  ~row.blind /\ row.req.tool # "list_tickets" => \A k \in row.tickets : TeamIs(k, row.team)

\* Events with a reason in R, which are not the pipeline's, are left out.
TaggedInv(R) ==
  /\ \A i \in Instances : call[i] # Idle => Tagged(call[i])
  /\ \A n \in DOMAIN audit : audit[n].reason \in R \/ RowTagged(audit[n])

\* What a step leaves of the fields that matter here.
Leaves(c, d) ==
  d.req = c.req /\ d.token = c.token /\ d.tag = c.tag /\ d.blind = c.blind

LEMMA TeamStays ==
  ASSUME TicketsKept, NEW k, NEW team, TeamIs(k, team)
  PROVE  TeamIs(k, team)'
  BY DEF TicketsKept, TeamIs

\* The one instance's call is as it should be, and the events are the same.
LEMMA TaggedOn ==
  ASSUME NEW R, OneInstance, TaggedInv(R), TicketsKept, audit' = audit, NEW i \in Instances,
         call'[i] # Idle => Tagged(call[i])'
  PROVE  TaggedInv(R)'
<1>1. ASSUME NEW n \in DOMAIN audit, audit[n].reason \notin R PROVE RowTagged(audit[n])'
  <2> PICK row : row = audit[n]
    OBVIOUS
  <2>1. RowTagged(row)
    BY <1>1 DEF TaggedInv
  <2>2. ~row.blind /\ row.req.tool # "list_tickets" => \A k \in row.tickets : TeamIs(k, row.team)'
    BY <2>1, TeamStays DEF RowTagged
  <2>. QED  BY <2>2 DEF RowTagged, TeamIs
<1>. QED  BY <1>1 DEF OneInstance, TaggedInv

\* On the way to the dispatch a call holds nothing yet.
LEMMA EarlyTagged ==
  ASSUME NEW R, Shapes, OneInstance, TaggedInv(R), tickets' = tickets, audit' = audit,
         NEW i \in Instances, call[i] # Idle,
         NEW d, call' = [call EXCEPT ![i] = d], Leaves(call[i], d),
         d.pc \in {"dispatch", "update", "tail"},
         call[i].pc \in {"guard", "dispatch", "update", "readback"},
         d.pc = "tail" \/ call[i].pc \in {"guard", "dispatch"},
         d.tickets = call[i].tickets, d.rows \in {call[i].rows, {}}
  PROVE  TaggedInv(R)'
<1> PICK c : c = call[i]
  OBVIOUS
<1>1. Tagged(c) /\ call'[i] = d
  BY DEF TaggedInv, Shapes
<1>2. Tagged(d)
  BY <1>1 DEF Tagged, Leaves, TeamsOf
<1>3. Tagged(call[i])'
  BY <1>1, <1>2 DEF Tagged, TeamIs, SubjectTeam, Exists, TeamsOf
<1>. QED  BY <1>3, TaggedOn, TicketsUnchanged

LEMMA DenyTagged ==
  ASSUME NEW R, Shapes, OneInstance, TaggedInv(R), UNCHANGED <<tickets, audit>>,
         NEW i \in Instances, call[i] \in InService, call[i] # Idle, NEW reason, Deny(i, reason),
         call[i].pc \in {"guard", "dispatch", "update", "readback"}
  PROVE  TaggedInv(R)'
<1> PICK c : c = call[i]
  OBVIOUS
<1> PICK d : d = [c EXCEPT !.pc = "tail", !.decision = "deny", !.reason = reason]
  OBVIOUS
<1>1. d.pc = "tail" /\ d.tickets = c.tickets /\ d.rows = c.rows /\ Leaves(c, d)
  BY DEF InService, Leaves
<1>2. call' = [call EXCEPT ![i] = d]
  BY DEF Deny
<1>. QED  BY <1>1, <1>2, EarlyTagged

LEMMA GotoTagged ==
  ASSUME NEW R, Shapes, OneInstance, TaggedInv(R), UNCHANGED <<tickets, audit>>,
         NEW i \in Instances, call[i] \in InService, call[i] # Idle,
         NEW pc \in {"dispatch", "update"}, Goto(i, pc),
         call[i].pc \in {"guard", "dispatch"}
  PROVE  TaggedInv(R)'
<1> PICK c : c = call[i]
  OBVIOUS
<1> PICK d : d = [c EXCEPT !.pc = pc]
  OBVIOUS
<1>1. d.pc = pc /\ d.tickets = c.tickets /\ d.rows = c.rows /\ Leaves(c, d)
  BY DEF InService, Leaves
<1>2. call' = [call EXCEPT ![i] = d]
  BY DEF Goto
<1>. QED  BY <1>1, <1>2, EarlyTagged

\* What an allowed call is given is of the tag's team, or readable.
LEMMA AllowTagged ==
  ASSUME NEW R, Shapes, OneInstance, TaggedInv(R), UNCHANGED <<tickets, audit>>,
         NEW i \in Instances, call[i] \in InService, call[i] # Idle,
         NEW tkts, NEW rows, Allow(i, tkts, rows),
         ~call[i].blind /\ call[i].req.tool # "list_tickets" =>
           \A k \in tkts : TeamIs(k, call[i].tag),
         rows \subseteq Readable(TeamsOf(call[i]))
  PROVE  TaggedInv(R)'
<1> PICK c : c = call[i]
  OBVIOUS
<1> PICK d : d = [c EXCEPT !.pc = "tail", !.decision = "allow",
                           !.reason = "policy_satisfied",
                           !.tickets = tkts, !.rows = rows]
  OBVIOUS
<1>1. d.pc = "tail" /\ d.tickets = tkts /\ d.rows = rows /\ Leaves(c, d)
  BY DEF InService, Leaves
<1>2. call' = [call EXCEPT ![i] = d]
  BY DEF Allow
<1>3. Tagged(d)
  BY <1>1 DEF Tagged, Leaves, TeamsOf, Readable
<1>4. call'[i] = d
  BY <1>2 DEF Shapes
<1>5. Tagged(call[i])'
  BY <1>3, <1>4 DEF Tagged, TeamIs, SubjectTeam, Exists, TeamsOf
<1>. QED  BY <1>5, TaggedOn, TicketsUnchanged

\* A write, of a ticket of the tag's team.
LEMMA WriteTagged ==
  ASSUME NEW R, Shapes, OneInstance, TaggedInv(R), TicketsKept, audit' = audit,
         NEW i \in Instances, call[i] \in InService, call[i] # Idle,
         call[i].pc \in {"dispatch", "update"},
         NEW k, call' = [call EXCEPT ![i].pc = "readback", ![i].tickets = {k}],
         ~call[i].blind => k \in DOMAIN tickets' /\ tickets'[k].team = call[i].tag
  PROVE  TaggedInv(R)'
<1> PICK c : c = call[i]
  OBVIOUS
<1> PICK d : d = [c EXCEPT !.pc = "readback", !.tickets = {k}]
  OBVIOUS
<1>1. d.pc = "readback" /\ d.tickets = {k} /\ d.rows = c.rows /\ Leaves(c, d)
  BY DEF InService, Leaves
<1>2. call'[i] = d
  BY DEF Shapes
<1>3. c.rows = {}
  BY DEF TaggedInv, Tagged
<1>4. ~c.blind => TeamIs(k, c.tag)'
  BY DEF TeamIs
<1>5. ~d.blind => TeamIs(k, d.tag)'
  BY <1>1, <1>4 DEF Leaves, TeamIs
<1>6. Tagged(call[i])'
  <2>1. /\ d.pc = "readback" /\ d.rows = {}
        /\ ~d.blind => \A n \in d.tickets : n \in DOMAIN tickets' /\ tickets'[n].team = d.tag
    BY <1>1, <1>3, <1>5 DEF TeamIs
  <2>. QED  BY <1>2, <2>1 DEF Tagged, TeamIs
<1>. QED  BY <1>6, TaggedOn

\* The event says of its tickets what the call's tag says.
LEMMA RecordTagged ==
  ASSUME NEW R, Shapes, AuditRows, OneInstance, TaggedInv(R),
         NEW i \in Instances, call[i] \in InService, call[i] # Idle, AppendAudit(i)
  PROVE  TaggedInv(R)'
<1> PICK c : c = call[i]
  OBVIOUS
<1> PICK d : d = [c EXCEPT !.pc = "reply"]
  OBVIOUS
<1> PICK row : row = Event(c)
  OBVIOUS
<1>1. d.pc = "reply" /\ d.tickets = c.tickets /\ d.rows = c.rows /\ Leaves(c, d)
  BY DEF InService, Leaves
<1>2. call' = [call EXCEPT ![i] = d] /\ audit' = Append(audit, row) /\ tickets' = tickets
  BY DEF AppendAudit, Goto
<1>3. call'[i] = d /\ Tagged(c)
  BY <1>2 DEF Shapes, TaggedInv
<1>4. /\ Len(audit) \in Nat
      /\ DOMAIN audit = 1 .. Len(audit) /\ DOMAIN audit' = 1 .. Len(audit) + 1
      /\ \A n \in 1 .. Len(audit) : audit'[n] = audit[n]
      /\ audit'[Len(audit) + 1] = row
  BY <1>2, RowsAfter
<1>5. \A n \in DOMAIN audit : n \in DOMAIN audit' /\ audit'[n] = audit[n]
  BY <1>4
<1>6. Tagged(call[i])'
  <2>1. Tagged(d) /\ d.pc = "reply"
    BY <1>1, <1>3 DEF Tagged, Leaves, TeamsOf
  <2>2. \A n \in d.rows : n \in DOMAIN audit' /\ audit'[n].team \in TeamsOf(d) \cup {NoTeam}
    BY <1>5, <2>1 DEF Tagged
  <2>. QED  BY <1>2, <1>3, <2>1, <2>2 DEF Tagged, TeamIs, TeamsOf
<1>7. row.blind = c.blind /\ row.req = c.req /\ row.team = c.tag /\ row.tickets = c.tickets
  BY DEF Event
<1>8. RowTagged(row)
  BY <1>3, <1>7 DEF Tagged, RowTagged
<1>9. ASSUME NEW n \in DOMAIN audit', audit'[n].reason \notin R PROVE RowTagged(audit[n])'
  <2>1. RowTagged(audit'[n])
    BY <1>4, <1>8, <1>9 DEF TaggedInv
  <2>. QED  BY <1>2, <2>1 DEF RowTagged, TeamIs
<1>. QED  BY <1>6, <1>9 DEF OneInstance, TaggedInv

LEMMA TagTagged ==
  ASSUME NEW R, Shapes, OneInstance, TaggedInv(R),
         NEW i \in Instances, call[i] \in InService, call[i] # Idle, Tag(i) \/ TagFault(i)
  PROVE  TaggedInv(R)'
<1> PICK c : c = call[i]
  OBVIOUS
<1>1. /\ UNCHANGED <<tickets, audit>> /\ c.pc = "tag" /\ c.tickets = {} /\ c.rows = {}
  BY DEF Tag, TagFault, TaggedInv, Tagged
<1>2. CASE Tag(i)
  <2> PICK team : team = SubjectTeam(c.req)
    OBVIOUS
  <2> PICK d : d = [c EXCEPT !.pc = "guard", !.tag = team]
    OBVIOUS
  <2>1. call' = [call EXCEPT ![i] = d]
    BY <1>2 DEF Tag
  <2>2. /\ d.pc = "guard" /\ d.tickets = {} /\ d.rows = {} /\ d.tag = SubjectTeam(d.req)
        /\ call'[i] = d
    BY <1>1, <2>1 DEF InService, Shapes
  <2>3. Tagged(d)
    BY <2>2 DEF Tagged
  <2>4. Tagged(call[i])'
    BY <1>1, <2>2, <2>3 DEF Tagged, TeamIs, SubjectTeam, Exists, TeamsOf
  <2>. QED  BY <1>1, <2>4, TaggedOn, TicketsUnchanged
<1>3. CASE TagFault(i)
  <2> PICK d : d = [c EXCEPT !.pc = "guard", !.blind = TRUE]
    OBVIOUS
  <2>1. call' = [call EXCEPT ![i] = d]
    BY <1>3 DEF TagFault
  <2>2. d.pc = "guard" /\ d.tickets = {} /\ d.rows = {} /\ d.blind /\ call'[i] = d
    BY <1>1, <2>1 DEF InService, Shapes
  <2>3. Tagged(call[i])'
    BY <2>2 DEF Tagged
  <2>. QED  BY <1>1, <2>3, TaggedOn, TicketsUnchanged
<1>. QED  BY <1>2, <1>3

LEMMA TailTagged ==
  ASSUME NEW R, Shapes, OneInstance, TaggedInv(R),
         NEW i \in Instances, call[i] \in InService, call[i] # Idle, ReadTail(i)
  PROVE  TaggedInv(R)'
<1> PICK c : c = call[i]
  OBVIOUS
<1> PICK n : n = Len(audit)
  OBVIOUS
<1> PICK d : d = [c EXCEPT !.pc = "append", !.tail = n]
  OBVIOUS
<1>1. d.pc = "append" /\ d.tickets = c.tickets /\ d.rows = c.rows /\ Leaves(c, d)
  BY DEF InService, Leaves
<1>2. call' = [call EXCEPT ![i] = d] /\ UNCHANGED <<tickets, audit>>
  BY DEF ReadTail
<1>3. call'[i] = d /\ Tagged(c)
  BY <1>2 DEF Shapes, TaggedInv
<1>4. Tagged(d)
  BY <1>1, <1>3 DEF Tagged, Leaves, TeamsOf
<1>5. Tagged(call[i])'
  BY <1>2, <1>3, <1>4 DEF Tagged, TeamIs, SubjectTeam, Exists, TeamsOf
<1>. QED  BY <1>2, <1>5, TaggedOn, TicketsUnchanged

LEMMA RunTagged ==
  ASSUME NEW R, IInv, AuditRows, OneInstance, TaggedInv(R), NEW i \in Instances, Run(i)
  PROVE  TaggedInv(R)'
<1>1. Shapes /\ call[i] \in InService /\ call[i] # Idle /\ Cleared(call[i]) /\ Tagged(call[i])
  BY RunMoves DEF IInv, CallsCleared, TaggedInv
<1>2. CASE Tag(i) \/ TagFault(i)
  BY <1>1, <1>2, TagTagged
<1>3. CASE ReadTail(i)
  BY <1>1, <1>3, TailTagged
<1>4. CASE AppendAudit(i)
  BY <1>1, <1>4, RecordTagged
<1>5. CASE RejectToken(i) \/ Throttle(i) \/ RefuseTeam(i) \/ DispatchFault(i)
  <2>1. PICK reason : Deny(i, reason)
    BY <1>5 DEF RejectToken, Throttle, RefuseTeam, DispatchFault
  <2>. QED
    BY <1>1, <1>5, <2>1, DenyTagged DEF RejectToken, Throttle, RefuseTeam, DispatchFault
<1>6. ASSUME NEW level \in 1 .. Capacity, Check(i, level) PROVE TaggedInv(R)'
  <2>1. UNCHANGED <<tickets, audit>> /\ call[i].pc = "guard"
    BY <1>6 DEF Check
  <2>2. Goto(i, "dispatch") \/ \E reason : Deny(i, reason)
    BY <1>6 DEF Check
  <2>. QED  BY <1>1, <2>1, <2>2, DenyTagged, GotoTagged
<1>7. CASE CheckVisible(i)
  <2>1. UNCHANGED <<tickets, audit>> /\ call[i].pc = "dispatch"
    BY <1>7 DEF CheckVisible
  <2>2. Goto(i, "update") \/ \E reason : Deny(i, reason)
    BY <1>7 DEF CheckVisible
  <2>. QED  BY <1>1, <2>1, <2>2, DenyTagged, GotoTagged
<1>8. CASE ListTickets(i) \/ AuditRecent(i)
  <2>1. UNCHANGED <<tickets, audit>>
    BY <1>8 DEF ListTickets, AuditRecent
  <2>2. Newest(Readable(TeamsOf(call[i])), AuditLimit) \subseteq Readable(TeamsOf(call[i]))
    BY DEF Newest
  <2>3. PICK tkts, rows : /\ Allow(i, tkts, rows) /\ rows \subseteq Readable(TeamsOf(call[i]))
                          /\ call[i].req.tool = "list_tickets" \/ tkts = {}
    BY <1>8, <2>2 DEF ListTickets, AuditRecent
  <2>. QED  BY <1>1, <2>1, <2>3, AllowTagged
<1>9. CASE GetTicket(i)
  <2>1. UNCHANGED <<tickets, audit>> /\ call[i].pc = "dispatch" /\ call[i].req.tool = "get_ticket"
    BY <1>9 DEF GetTicket
  <2>2. CASE InScope(call[i], call[i].req.ticket) /\ Allow(i, {call[i].req.ticket}, {})
    <3>1. ~call[i].blind => TeamIs(call[i].req.ticket, call[i].tag)
      BY <1>1, <2>1, <2>2 DEF Tagged, SubjectTeam, InScope, Exists, TeamIs
    <3>. QED  BY <1>1, <2>1, <2>2, <3>1, AllowTagged
  <2>. QED  BY <1>1, <1>9, <2>1, <2>2, DenyTagged DEF GetTicket
<1>10. CASE ReadBack(i)
  <2>1. UNCHANGED <<tickets, audit>> /\ Allow(i, call[i].tickets, {})
    BY <1>10 DEF ReadBack
  <2>. QED  BY <1>1, <2>1, AllowTagged DEF Tagged
<1>11. CASE CreateTicket(i)
  <2> PICK k, team : k = Len(tickets) + 1 /\ team = call[i].req.team
    OBVIOUS
  <2>1. /\ tickets' = Append(tickets, [team |-> team, status |-> "open"])
        /\ call' = [call EXCEPT ![i].pc = "readback", ![i].tickets = {k}]
        /\ audit' = audit /\ call[i].pc = "dispatch" /\ call[i].req.tool = "create_ticket"
        /\ team \in TeamsOf(call[i])
    BY <1>11 DEF CreateTicket
  <2>2. team \in Teams
    BY <1>1, <2>1, GatewayAssumption DEF TeamsOf, InService
  <2>3. TicketsKept /\ TeamIs(k, team)'
    BY <1>1, <2>1, <2>2, TicketAdded DEF Shapes, TeamIs
  <2>4. ~call[i].blind => team = call[i].tag
    BY <1>1, <2>1 DEF Tagged, SubjectTeam
  <2>5. ~call[i].blind => k \in DOMAIN tickets' /\ tickets'[k].team = call[i].tag
    BY <2>3, <2>4 DEF TeamIs
  <2>. QED  BY <1>1, <2>1, <2>3, <2>5, WriteTagged
<1>12. CASE UpdateStatus(i)
  <2> PICK k : k = call[i].req.ticket
    OBVIOUS
  <2>1. /\ tickets' = [tickets EXCEPT ![k].status = call[i].req.status]
        /\ call' = [call EXCEPT ![i].pc = "readback", ![i].tickets = {k}]
        /\ audit' = audit /\ call[i].pc = "update"
    BY <1>12 DEF UpdateStatus
  <2>2. /\ call[i].req.tool = "update_ticket_status" /\ Validated(call[i].req)
        /\ k \in DOMAIN tickets
    BY <1>1, <2>1 DEF Cleared, InScope, Exists
  <2>3. TicketsKept
    BY <1>1, <2>1, <2>2, TicketUpdated DEF Shapes, Validated
  <2>4. ~call[i].blind => TeamIs(k, call[i].tag)
    BY <1>1, <2>1, <2>2 DEF Tagged, SubjectTeam, Exists, TeamIs
  <2>5. ~call[i].blind => k \in DOMAIN tickets' /\ tickets'[k].team = call[i].tag
    BY <2>3, <2>4 DEF TeamIs, TicketsKept
  <2>. QED  BY <1>1, <2>1, <2>3, <2>5, WriteTagged
<1>. QED
  BY <1>2, <1>3, <1>4, <1>5, <1>6, <1>7, <1>8, <1>9, <1>10, <1>11, <1>12 DEF Run

LEMMA TaggedInductive ==
  ASSUME OneInstance, NEW R
  PROVE  IInv /\ AuditRows /\ TaggedInv(R) /\ [Next]_vars => TaggedInv(R)'
<1> SUFFICES ASSUME IInv, AuditRows, TaggedInv(R), [Next]_vars PROVE TaggedInv(R)'
  OBVIOUS
<1>0. DOMAIN call = Instances
  BY DEF IInv, Shapes
<1>1. ASSUME NEW i \in Instances, Step(i) PROVE TaggedInv(R)'
  <2>1. CASE Run(i)
    BY <2>1, RunTagged
  <2>2. ASSUME NEW t \in Tokens, NEW q \in Requests, Arrive(i, t, q) PROVE TaggedInv(R)'
    <3> PICK c : c = [pc |-> "tag", id |-> arrived', token |-> t, req |-> q,
                      authentic |-> t \in usable, tag |-> NoTeam, blind |-> FALSE,
                      decision |-> "none", reason |-> "none",
                      tickets |-> {}, rows |-> {}, tail |-> 0]
      OBVIOUS
    <3>1. call' = [call EXCEPT ![i] = c] /\ UNCHANGED <<tickets, audit>>
      BY <2>2 DEF Arrive
    <3>2. call'[i] = c /\ c.pc = "tag" /\ c.tickets = {} /\ c.rows = {}
      BY <1>0, <3>1
    <3>3. Tagged(call[i])'
      BY <3>2 DEF Tagged
    <3>. QED  BY <3>1, <3>3, TaggedOn, TicketsUnchanged
  <2>3. CASE Reply(i) \/ RecordFault(i) \/ Crash(i)
    <3>1. call'[i] = Idle /\ UNCHANGED <<tickets, audit>>
      BY <1>0, <2>3 DEF Reply, RecordFault, Crash
    <3>. QED  BY <3>1, TaggedOn, TicketsUnchanged
  <2>4. CASE UNCHANGED <<call, tickets, audit>>
    BY <2>4 DEF TaggedInv, Tagged, RowTagged, TeamIs, SubjectTeam, Exists, TeamsOf
  <2>. QED  BY <1>1, <2>1, <2>2, <2>3, <2>4 DEF Step, ArriveFault, Revoke
<1>2. CASE UNCHANGED vars
  BY <1>2 DEF vars, TaggedInv, Tagged, RowTagged, TeamIs, SubjectTeam, Exists, TeamsOf
<1>. QED  BY <1>1, <1>2 DEF Next

LEMMA StartTagged == ASSUME NEW R PROVE Init => TaggedInv(R)
  BY DEF Init, TaggedInv

\* The rows a call was handed tell of no ticket outside its teams.
LEMMA TaggedMeansScoped ==
  ASSUME NEW R, Shapes, TaggedInv(R), NEW i \in Instances, call[i] # Idle,
         NEW n \in call[i].rows, audit[n].reason \notin R,
         audit[n].req.tool # "list_tickets", ~audit[n].blind,
         NEW k \in audit[n].tickets
  PROVE  tickets[k].team \in TeamsOf(call[i])
<1>1. n \in DOMAIN audit /\ audit[n].team \in TeamsOf(call[i]) \cup {NoTeam}
  BY DEF TaggedInv, Tagged
<1>2. TeamIs(k, audit[n].team)
  BY <1>1 DEF TaggedInv, RowTagged
<1>3. tickets[k].team \in Teams
  BY <1>2, TicketTyped DEF Shapes, TeamIs, Ticket
<1>. QED  BY <1>1, <1>2, <1>3, GatewayAssumption DEF TeamIs

-----------------------------------------------------------------------------
(***************************************************************************)
(* The bounds of the variables: calls are numbered as they arrive, and     *)
(* what a call holds of the audit table is there, for rows are only added. *)
(***************************************************************************)
Numbered ==
  /\ arrived \in 0 .. MaxCalls
  /\ \A i \in Instances : call[i] # Idle => call[i].id \in 1 .. MaxCalls

Ledgers ==
  /\ usable \subseteq Tokens
  /\ revokedAt \in [Tokens -> 0 .. MaxCalls]
  /\ budget \in [Instances -> [Clients -> 0 .. Capacity]]
  /\ lost \subseteq 1 .. MaxCalls

LateStages == {"tail", "append", "reply"}

Fits(c) ==
  /\ c.rows \subseteq 1 .. Len(audit)
  /\ c.tail \in 0 .. Len(audit)
  /\ c.pc \in LateStages => c.decision \in {"allow", "deny"}

CallsFit == \A i \in Instances : call[i] # Idle => Fits(call[i])

WriteFits(w) == w \in [id : 1 .. MaxCalls, token : Tokens, ticket : {w.ticket}]

HistoryFits ==
  /\ \A w \in writes : WriteFits(w)
  /\ answers \subseteq [id : 1 .. MaxCalls, decision : {"allow", "deny"}]

TypeInv == Numbered /\ Ledgers /\ CallsFit /\ HistoryFits

\* A step of the pipeline keeps the number; a new call takes the next.
LEMMA NumberedStep ==
  ASSUME Shapes, Numbered, NEW i \in Instances, Step(i)
  PROVE  Numbered'
<1>0. DOMAIN call = Instances /\ MaxCalls \in Nat /\ arrived \in 0 .. MaxCalls
  BY GatewayAssumption DEF Shapes, Numbered
<1>1. ASSUME NEW t \in Tokens, NEW q \in Requests, Arrive(i, t, q) PROVE Numbered'
  <2> PICK c : c = [pc |-> "tag", id |-> arrived', token |-> t, req |-> q,
                    authentic |-> t \in usable, tag |-> NoTeam, blind |-> FALSE,
                    decision |-> "none", reason |-> "none",
                    tickets |-> {}, rows |-> {}, tail |-> 0]
    OBVIOUS
  <2>1. /\ call' = [call EXCEPT ![i] = c] /\ arrived' = arrived + 1 /\ arrived < MaxCalls
        /\ c.id = arrived'
    BY <1>1 DEF Arrive
  <2>2. arrived' \in 1 .. MaxCalls
    BY <1>0, <2>1
  <2>3. call'[i] = c /\ \A j \in Instances \ {i} : call'[j] = call[j]
    BY <1>0, <2>1
  <2>. QED  BY <1>0, <2>1, <2>2, <2>3 DEF Numbered
<1>2. CASE Run(i)
  <2>1. arrived' = arrived /\ call[i] # Idle
    BY <1>2, RunMoves
  <2>2. call'[i].id = call[i].id /\ \A j \in Instances \ {i} : call'[j] = call[j]
    BY <1>2, RunMoves DEF StaysAt
  <2>. QED  BY <2>1, <2>2 DEF Numbered
<1>3. CASE ArriveFault \/ Reply(i) \/ RecordFault(i) \/ Crash(i) \/ \E t \in Tokens : Revoke(i, t)
  <2>1. /\ arrived' = arrived \/ (arrived < MaxCalls /\ arrived' = arrived + 1)
        /\ call' = call \/ call' = [call EXCEPT ![i] = Idle]
    BY <1>3 DEF ArriveFault, Reply, RecordFault, Crash, Revoke
  <2>2. arrived' \in 0 .. MaxCalls
    BY <1>0, <2>1
  <2>3. \A j \in Instances : call'[j] = call[j] \/ call'[j] = Idle
    BY <1>0, <2>1
  <2>. QED  BY <2>2, <2>3 DEF Numbered
<1>. QED  BY <1>1, <1>2, <1>3 DEF Step

LEMMA LedgersStep ==
  ASSUME Numbered, Ledgers, NEW i \in Instances, Step(i)
  PROVE  Ledgers'
<1>0. /\ MaxCalls \in Nat /\ Capacity \in Nat /\ arrived \in 0 .. MaxCalls
      /\ call[i] # Idle => call[i].id \in 1 .. MaxCalls
  BY GatewayAssumption DEF Numbered
<1>1. usable' \subseteq Tokens /\ revokedAt' \in [Tokens -> 0 .. MaxCalls]
  <2>1. CASE \E t \in Tokens : Revoke(i, t)
    BY <1>0, <2>1 DEF Revoke, Ledgers
  <2>2. CASE UNCHANGED <<usable, revokedAt>>
    BY <2>2 DEF Ledgers
  <2>. QED
    BY <2>1, <2>2
    DEF Step, Run, Arrive, Tag, RejectToken, Throttle, Check, ListTickets, AuditRecent,
        GetTicket, CreateTicket, RefuseTeam, CheckVisible, UpdateStatus, ReadBack,
        ReadTail, AppendAudit, Reply, ArriveFault, TagFault, DispatchFault, RecordFault, Crash
<1>2. budget' \in [Instances -> [Clients -> 0 .. Capacity]]
  <2>1. ASSUME NEW level \in 1 .. Capacity, Check(i, level)
        PROVE  budget' \in [Instances -> [Clients -> 0 .. Capacity]]
    <3> PICK client : client = Holder[call[i].token]
      OBVIOUS
    <3> PICK left : left = level - 1
      OBVIOUS
    <3>1. left \in 0 .. Capacity
      BY <1>0
    <3>2. budget' = [budget EXCEPT ![i][client] = left]
      BY <2>1 DEF Check
    <3>. QED  BY <3>1, <3>2 DEF Ledgers
  <2>2. CASE Crash(i)
    <3> PICK full : full = [c \in Clients |-> Capacity]
      OBVIOUS
    <3>1. full \in [Clients -> 0 .. Capacity]
      BY <1>0
    <3>2. budget' = [budget EXCEPT ![i] = full]
      BY <2>2 DEF Crash
    <3>. QED  BY <3>1, <3>2 DEF Ledgers
  <2>3. CASE budget' = budget
    BY <2>3 DEF Ledgers
  <2>. QED
    BY <2>1, <2>2, <2>3
    DEF Step, Run, Arrive, Tag, RejectToken, Throttle, ListTickets, AuditRecent,
        GetTicket, CreateTicket, RefuseTeam, CheckVisible, UpdateStatus, ReadBack,
        ReadTail, AppendAudit, Reply, ArriveFault, TagFault, DispatchFault, RecordFault, Revoke
<1>3. lost' \subseteq 1 .. MaxCalls
  <2>1. CASE RecordFault(i) \/ Crash(i)
    <3>1. call[i] # Idle
      <4>1. Idle.pc = "idle"
        BY DEF Idle
      <4>. QED  BY <2>1, <4>1 DEF RecordFault, Crash
    <3>2. lost' = lost \cup {call[i].id}
      BY <2>1 DEF RecordFault, Crash
    <3>. QED  BY <1>0, <3>1, <3>2 DEF Ledgers
  <2>2. CASE ArriveFault
    <3>1. arrived' \in 1 .. MaxCalls /\ lost' = lost \cup {arrived'}
      BY <1>0, <2>2 DEF ArriveFault
    <3>. QED  BY <3>1 DEF Ledgers
  <2>3. CASE lost' = lost
    BY <2>3 DEF Ledgers
  <2>. QED
    BY <2>1, <2>2, <2>3
    DEF Step, Run, Arrive, Tag, RejectToken, Throttle, Check, ListTickets, AuditRecent,
        GetTicket, CreateTicket, RefuseTeam, CheckVisible, UpdateStatus, ReadBack,
        ReadTail, AppendAudit, Reply, TagFault, DispatchFault, Revoke
<1>. QED  BY <1>1, <1>2, <1>3 DEF Ledgers

\* What the moves of a call leave of the fields that refer to the audit table.
LEMMA MoveFits ==
  ASSUME Shapes, NEW i \in Instances, call[i] \in InService,
         NEW rows, NEW n,
         \/ rows = call[i].rows /\ n = call[i].tail /\ \E reason : Deny(i, reason)
         \/ n = call[i].tail /\ \E tkts : Allow(i, tkts, rows)
         \/ rows = call[i].rows /\ n = call[i].tail /\ \E pc : Goto(i, pc)
         \/ rows = call[i].rows /\ n = call[i].tail /\ \E v :
              \/ call' = [call EXCEPT ![i].pc = "guard", ![i].tag = v]
              \/ call' = [call EXCEPT ![i].pc = "guard", ![i].blind = v]
              \/ call' = [call EXCEPT ![i].pc = "readback", ![i].tickets = v]
         \/ rows = call[i].rows /\ call' = [call EXCEPT ![i].pc = "append", ![i].tail = n]
  PROVE  call'[i].rows = rows /\ call'[i].tail = n
<1> PICK c : c = call[i]
  OBVIOUS
<1>1. {"pc", "decision", "reason", "tickets", "rows", "tail", "tag", "blind"} \subseteq DOMAIN c
  BY DEF InService
<1>2. DOMAIN call = Instances
  BY DEF Shapes
<1>3. ASSUME NEW reason, Deny(i, reason), rows = c.rows, n = c.tail
      PROVE  call'[i].rows = rows /\ call'[i].tail = n
  BY <1>1, <1>2, <1>3 DEF Deny
<1>4. ASSUME NEW tkts, Allow(i, tkts, rows), n = c.tail
      PROVE  call'[i].rows = rows /\ call'[i].tail = n
  BY <1>1, <1>2, <1>4 DEF Allow
<1>5. ASSUME NEW pc, Goto(i, pc), rows = c.rows, n = c.tail
      PROVE  call'[i].rows = rows /\ call'[i].tail = n
  BY <1>1, <1>2, <1>5 DEF Goto
<1>6. ASSUME NEW v, rows = c.rows, n = c.tail,
             \/ call' = [call EXCEPT ![i].pc = "guard", ![i].tag = v]
             \/ call' = [call EXCEPT ![i].pc = "guard", ![i].blind = v]
             \/ call' = [call EXCEPT ![i].pc = "readback", ![i].tickets = v]
      PROVE  call'[i].rows = rows /\ call'[i].tail = n
  BY <1>1, <1>2, <1>6
<1>7. ASSUME rows = c.rows, call' = [call EXCEPT ![i].pc = "append", ![i].tail = n]
      PROVE  call'[i].rows = rows /\ call'[i].tail = n
  BY <1>1, <1>2, <1>7
<1>. QED  BY <1>3, <1>4, <1>5, <1>6, <1>7

\* A call that comes late in the pipeline has been decided.
LEMMA DecidedLate ==
  ASSUME Shapes, NEW i \in Instances, Run(i), call'[i].pc \in LateStages
  PROVE  \/ call'[i].decision \in {"allow", "deny"}
         \/ call[i].pc \in LateStages /\ call'[i].decision = call[i].decision
<1>1. call[i] \in InService
  BY RunMoves
<1>2. CASE \E reason : Deny(i, reason)
  BY <1>1, <1>2, DenyStays DEF StaysAt
<1>3. CASE \E tkts, rows : Allow(i, tkts, rows)
  BY <1>1, <1>3, AllowStays DEF StaysAt
<1>4. CASE AppendAudit(i)
  BY <1>1, <1>4, GotoStays DEF AppendAudit, StaysAt, LateStages
<1>5. CASE ReadTail(i)
  <2>1. PICK v : call' = [call EXCEPT ![i].pc = "append", ![i].tail = v]
    BY <1>5 DEF ReadTail
  <2>2. StaysAt(i, "append", call[i].decision)
    BY <1>1, <2>1, FieldStays
  <2>. QED  BY <1>5, <2>2 DEF ReadTail, StaysAt, LateStages
<1>6. CASE Goto(i, "dispatch") \/ Goto(i, "update")
  BY <1>1, <1>6, GotoStays DEF StaysAt, LateStages
<1>7. CASE \E v : \/ call' = [call EXCEPT ![i].pc = "guard", ![i].tag = v]
                  \/ call' = [call EXCEPT ![i].pc = "guard", ![i].blind = v]
                  \/ call' = [call EXCEPT ![i].pc = "readback", ![i].tickets = v]
  <2>1. CASE \E v : \/ call' = [call EXCEPT ![i].pc = "guard", ![i].tag = v]
                    \/ call' = [call EXCEPT ![i].pc = "guard", ![i].blind = v]
    <3>1. StaysAt(i, "guard", call[i].decision)
      BY <1>1, <2>1, FieldStays
    <3>. QED  BY <3>1 DEF StaysAt, LateStages
  <2>2. CASE \E v : call' = [call EXCEPT ![i].pc = "readback", ![i].tickets = v]
    <3>1. StaysAt(i, "readback", call[i].decision)
      BY <1>1, <2>2, FieldStays
    <3>. QED  BY <3>1 DEF StaysAt, LateStages
  <2>. QED  BY <1>7, <2>1, <2>2
<1>. QED
  BY <1>2, <1>3, <1>4, <1>5, <1>6, <1>7
  DEF Run, Tag, TagFault, RejectToken, Throttle, Check, ListTickets, AuditRecent, GetTicket,
      CreateTicket, RefuseTeam, CheckVisible, UpdateStatus, ReadBack, DispatchFault

\* Rows are only added.
LEMMA LengthGrows ==
  ASSUME AuditRows, NEW i \in Instances, Step(i)
  PROVE  Len(audit) \in Nat /\ Len(audit') \in Nat /\ Len(audit) <= Len(audit')
<1>1. Len(audit) \in Nat
  <2> PICK S : audit \in Seq(S)
    BY DEF AuditRows
  <2>. QED  BY LenProperties
<1>2. CASE audit' = audit
  BY <1>1, <1>2
<1>3. CASE AppendAudit(i)
  <2>1. DOMAIN audit' = 1 .. Len(audit) + 1 /\ AuditRows'
    BY <1>3, RowsAfter, RowAdded DEF AppendAudit
  <2>2. Len(audit') \in Nat /\ DOMAIN audit' = 1 .. Len(audit')
    <3> PICK S : audit' \in Seq(S)
      BY <2>1 DEF AuditRows
    <3>. QED  BY LenProperties
  <2>3. Len(audit) + 1 \in 1 .. Len(audit')
    BY <1>1, <2>1, <2>2
  <2>. QED  BY <1>1, <2>2, <2>3
<1>. QED
  BY <1>2, <1>3
  DEF Step, Run, Arrive, Tag, RejectToken, Throttle, Check, ListTickets, AuditRecent,
      GetTicket, CreateTicket, RefuseTeam, CheckVisible, UpdateStatus, ReadBack,
      ReadTail, Reply, ArriveFault, TagFault, DispatchFault, RecordFault, Crash, Revoke

\* The fields of the moving call, before and after.
LEMMA RunFits ==
  ASSUME Shapes, AuditRows, CallsFit, NEW i \in Instances, Run(i)
  PROVE  call'[i].rows \subseteq 1 .. Len(audit) /\ call'[i].tail \in 0 .. Len(audit)
<1>1. call[i] \in InService /\ call[i] # Idle
  BY RunMoves
<1>2. call[i].rows \subseteq 1 .. Len(audit) /\ call[i].tail \in 0 .. Len(audit)
  BY <1>1 DEF CallsFit, Fits
<1>3. Len(audit) \in Nat /\ DOMAIN audit = 1 .. Len(audit)
  <2> PICK S : audit \in Seq(S)
    BY DEF AuditRows
  <2>. QED  BY LenProperties
<1>4. CASE \E reason : Deny(i, reason)
  BY <1>1, <1>2, <1>4, MoveFits
<1>5. ASSUME NEW tkts, NEW rows, Allow(i, tkts, rows), rows \subseteq 1 .. Len(audit)
      PROVE  call'[i].rows \subseteq 1 .. Len(audit) /\ call'[i].tail \in 0 .. Len(audit)
  BY <1>1, <1>2, <1>5, MoveFits
<1>6. CASE AuditRecent(i)
  <2>1. PICK rows : /\ rows = Newest(Readable(TeamsOf(call[i])), AuditLimit)
                    /\ Allow(i, {}, rows)
    BY <1>6 DEF AuditRecent
  <2>2. rows \subseteq 1 .. Len(audit)
    BY <1>3, <2>1 DEF Newest, Readable
  <2>. QED  BY <1>5, <2>1, <2>2
<1>7. CASE \E tkts : Allow(i, tkts, {})
  BY <1>5, <1>7
<1>8. CASE \E pc : Goto(i, pc)
  BY <1>1, <1>2, <1>8, MoveFits
<1>9. CASE \E v : \/ call' = [call EXCEPT ![i].pc = "guard", ![i].tag = v]
                  \/ call' = [call EXCEPT ![i].pc = "guard", ![i].blind = v]
                  \/ call' = [call EXCEPT ![i].pc = "readback", ![i].tickets = v]
  BY <1>1, <1>2, <1>9, MoveFits
<1>10. CASE ReadTail(i)
  <2>1. PICK n : n = Len(audit) /\ call' = [call EXCEPT ![i].pc = "append", ![i].tail = n]
    BY <1>10 DEF ReadTail
  <2>2. call'[i].rows = call[i].rows /\ call'[i].tail = n
    BY <1>1, <2>1, MoveFits
  <2>. QED  BY <1>2, <1>3, <2>1, <2>2
<1>. QED
  BY <1>4, <1>6, <1>7, <1>8, <1>9, <1>10
  DEF Run, Tag, TagFault, RejectToken, Throttle, Check, ListTickets, GetTicket, AppendAudit,
      CreateTicket, RefuseTeam, CheckVisible, UpdateStatus, ReadBack, DispatchFault

LEMMA FitsStep ==
  ASSUME Shapes, AuditRows, CallsFit, NEW i \in Instances, Step(i)
  PROVE  CallsFit'
<1>0. /\ Len(audit) \in Nat /\ Len(audit') \in Nat /\ Len(audit) <= Len(audit')
      /\ DOMAIN call = Instances
  BY LengthGrows DEF Shapes
<1>1. 1 .. Len(audit) \subseteq 1 .. Len(audit') /\ 0 .. Len(audit) \subseteq 0 .. Len(audit')
  BY <1>0
<1>2. ASSUME NEW j \in Instances, call'[j] = call[j] PROVE call'[j] # Idle => Fits(call[j])'
  BY <1>1, <1>2 DEF CallsFit, Fits
<1>3. CASE Run(i)
  <2>1. call'[i].rows \subseteq 1 .. Len(audit) /\ call'[i].tail \in 0 .. Len(audit)
    BY <1>3, RunFits
  <2>2. call'[i].pc \in LateStages => call'[i].decision \in {"allow", "deny"}
    <3>1. call[i] # Idle
      BY <1>3, RunMoves
    <3>. QED  BY <1>3, <3>1, DecidedLate DEF CallsFit, Fits
  <2>3. Fits(call[i])'
    BY <1>1, <2>1, <2>2 DEF Fits
  <2>4. \A j \in Instances \ {i} : call'[j] = call[j]
    BY <1>3, RunMoves DEF StaysAt
  <2>. QED  BY <1>2, <2>3, <2>4 DEF CallsFit
<1>4. ASSUME NEW t \in Tokens, NEW q \in Requests, Arrive(i, t, q) PROVE CallsFit'
  <2> PICK c : c = [pc |-> "tag", id |-> arrived', token |-> t, req |-> q,
                    authentic |-> t \in usable, tag |-> NoTeam, blind |-> FALSE,
                    decision |-> "none", reason |-> "none",
                    tickets |-> {}, rows |-> {}, tail |-> 0]
    OBVIOUS
  <2>1. call' = [call EXCEPT ![i] = c]
    BY <1>4 DEF Arrive
  <2>2. call'[i] = c /\ \A j \in Instances \ {i} : call'[j] = call[j]
    BY <1>0, <2>1
  <2>3. c.rows = {} /\ c.tail = 0 /\ c.pc \notin LateStages
    BY DEF LateStages
  <2>4. Fits(call[i])'
    BY <1>0, <2>2, <2>3 DEF Fits
  <2>. QED  BY <1>2, <2>2, <2>4 DEF CallsFit
<1>5. CASE ArriveFault \/ Reply(i) \/ RecordFault(i) \/ Crash(i) \/ \E t \in Tokens : Revoke(i, t)
  <2>1. call' = call \/ call' = [call EXCEPT ![i] = Idle]
    BY <1>5 DEF ArriveFault, Reply, RecordFault, Crash, Revoke
  <2>2. \A j \in Instances : call'[j] = call[j] \/ call'[j] = Idle
    BY <1>0, <2>1
  <2>. QED  BY <1>2, <2>2 DEF CallsFit
<1>. QED  BY <1>3, <1>4, <1>5 DEF Step

LEMMA HistoryStep ==
  ASSUME Shapes, Numbered, CallsFit, HistoryFits, NEW i \in Instances, Step(i)
  PROVE  HistoryFits'
<1>0. /\ call[i].pc \in Stages => call[i] \in InService
      /\ call[i].pc \in Stages => call[i].id \in 1 .. MaxCalls
      /\ call[i].pc = "reply" => call[i].decision \in {"allow", "deny"}
  <2>1. Idle.pc = "idle" /\ "idle" \notin Stages
    BY DEF Idle, Stages
  <2>. QED  BY <2>1 DEF Shapes, Numbered, CallsFit, Fits, LateStages
<1>1. \A w \in writes' : WriteFits(w)
  <2>1. CASE CreateTicket(i) \/ UpdateStatus(i)
    <3>1. call[i].pc \in Stages
      BY <2>1 DEF CreateTicket, UpdateStatus, Stages, Pcs
    <3>2. PICK k : writes' = writes \cup {[id |-> call[i].id, token |-> call[i].token, ticket |-> k]}
      BY <2>1 DEF CreateTicket, UpdateStatus
    <3>3. call[i].id \in 1 .. MaxCalls /\ call[i].token \in Tokens
      BY <1>0, <3>1 DEF InService
    <3> PICK w : w = [id |-> call[i].id, token |-> call[i].token, ticket |-> k]
      OBVIOUS
    <3>4. WriteFits(w)
      BY <3>3 DEF WriteFits
    <3>. QED  BY <3>2, <3>4 DEF HistoryFits
  <2>2. CASE writes' = writes
    BY <2>2 DEF HistoryFits
  <2>. QED
    BY <2>1, <2>2
    DEF Step, Run, Arrive, Tag, RejectToken, Throttle, Check, ListTickets, AuditRecent,
        GetTicket, RefuseTeam, CheckVisible, ReadBack, ReadTail, AppendAudit, Reply,
        ArriveFault, TagFault, DispatchFault, RecordFault, Crash, Revoke
<1>2. answers' \subseteq [id : 1 .. MaxCalls, decision : {"allow", "deny"}]
  <2>1. CASE Reply(i)
    <3>1. call[i].pc \in Stages /\ call[i].pc = "reply"
      BY <2>1 DEF Reply, Stages, Pcs
    <3>2. answers' = answers \cup {[id |-> call[i].id, decision |-> call[i].decision]}
      BY <2>1 DEF Reply
    <3>. QED  BY <1>0, <3>1, <3>2 DEF HistoryFits
  <2>2. CASE answers' = answers
    BY <2>2 DEF HistoryFits
  <2>. QED
    BY <2>1, <2>2
    DEF Step, Run, Arrive, Tag, RejectToken, Throttle, Check, ListTickets, AuditRecent,
        GetTicket, CreateTicket, RefuseTeam, CheckVisible, UpdateStatus, ReadBack,
        ReadTail, AppendAudit, ArriveFault, TagFault, DispatchFault, RecordFault, Crash, Revoke
<1>. QED  BY <1>1, <1>2 DEF HistoryFits

LEMMA TypesInductive == IInv /\ AuditRows /\ TypeInv /\ [Next]_vars => TypeInv'
<1> SUFFICES ASSUME Shapes, AuditRows, TypeInv, [Next]_vars PROVE TypeInv'
  BY DEF IInv
<1>1. CASE Next
  BY <1>1, NumberedStep, LedgersStep, FitsStep, HistoryStep DEF Next, TypeInv
<1>2. CASE UNCHANGED vars
  <2>1. Numbered' /\ Ledgers'
    BY <1>2 DEF vars, TypeInv, Numbered, Ledgers
  <2>2. CallsFit'
    BY <1>2 DEF vars, TypeInv, CallsFit, Fits
  <2>3. HistoryFits'
    BY <1>2 DEF vars, TypeInv, HistoryFits
  <2>. QED  BY <2>1, <2>2, <2>3 DEF TypeInv
<1>. QED  BY <1>1, <1>2

LEMMA StartTyped == Init => TypeInv
<1> SUFFICES ASSUME Init PROVE TypeInv
  OBVIOUS
<1>1. Numbered
  BY GatewayAssumption DEF Init, Numbered
<1>2. Ledgers
  BY GatewayAssumption DEF Init, Ledgers
<1>3. CallsFit /\ HistoryFits
  BY DEF Init, CallsFit, HistoryFits
<1>. QED  BY <1>1, <1>2, <1>3 DEF TypeInv

LEMMA TypesHold == IInv /\ TypeInv => TypeOK
<1> SUFFICES ASSUME IInv, TypeInv PROVE TypeOK
  OBVIOUS
<1>1. tickets \in Seq([team : Teams, status : Statuses]) /\ DOMAIN tickets = 1 .. Len(tickets)
  BY TicketTyped DEF IInv, Shapes, Ticket
<1>2. call \in [Instances -> {Idle} \cup Calls]
  <2>. SUFFICES ASSUME NEW i \in Instances, call[i] # Idle PROVE call[i] \in Calls
    BY DEF IInv, Shapes
  <2> PICK c : c = call[i]
    OBVIOUS
  <2>1. c \in InService
    BY DEF IInv, Shapes
  <2>2. c.id \in 1 .. MaxCalls
    BY DEF TypeInv, Numbered
  <2>3. c.rows \subseteq 1 .. Len(audit) /\ c.tail \in 0 .. Len(audit)
    BY DEF TypeInv, CallsFit, Fits
  <2>4. c.tickets \subseteq 1 .. Len(tickets)
    BY <1>1, <2>1 DEF IInv, CallsCleared, Cleared, InScope, Exists
  <2>. QED  BY <2>1, <2>2, <2>3, <2>4 DEF InService, Calls
<1>3. writes \subseteq [id : 1 .. MaxCalls, token : Tokens, ticket : 1 .. Len(tickets)]
  <2>. SUFFICES ASSUME NEW w \in writes
                PROVE  w \in [id : 1 .. MaxCalls, token : Tokens, ticket : 1 .. Len(tickets)]
    OBVIOUS
  <2>1. w.ticket \in 1 .. Len(tickets)
    BY <1>1 DEF IInv, WritesPermitted, Permitted
  <2>2. w \in [id : 1 .. MaxCalls, token : Tokens, ticket : {w.ticket}]
    BY DEF TypeInv, HistoryFits, WriteFits
  <2>. QED  BY <2>1, <2>2
<1>. QED  BY <1>1, <1>2, <1>3 DEF TypeOK, TypeInv, Numbered, Ledgers, HistoryFits

-----------------------------------------------------------------------------
\* For every value of the constants, a ticket is changed only under a token
\* with the write scope and the ticket's team, and no call holds a ticket of
\* another team for its caller (gateway.py _dispatch and _visible_ticket).
THEOREM RowsAreScoped == Spec => []RowScoped
  BY Start, Scoped, Inductive, PTL DEF Spec

\* For every value of the constants, whatever is recorded as allowed or written
\* under a revoked token belongs to a call that had arrived before the
\* revocation, on any instance (auth.py load_access_token and revoke_token).
THEOREM RevocationIsEffective == Spec => []RevocationCutsOff
  BY Start, Inductive, StartBacked, BackingInductive, BackedMeansCutOff, PTL DEF Spec

\* For every value of the constants under which the SELECT after a committed
\* write does not fail, a call recorded as denied has changed no ticket, on any
\* number of instances and whatever else fails (gateway.py invoke, 76-107).
THEOREM DenialsAreHarmless ==
  ASSUME "readback" \notin Faulty
  PROVE  Spec => []DeniedLeavesNoTrace
  BY Start, Inductive, StartTraced, TraceInductive, TraceMeansNoSideEffect, PTL DEF Spec

\* With one instance on the database, whatever fails and however it dies, the
\* rows audit_recent hands out tell of no ticket of a team that is not the
\* auditor's, but for calls whose subject could not be looked up (gateway.py
\* _subject_team, store.py audit_events); Gateway_blind shows what a second
\* instance does to it.
THEOREM AuditReadsAreScoped ==
  ASSUME OneInstance
  PROVE  Spec => []AuditReadScoped
<1> DEFINE T == TaggedInv({})
<1>1. Init => T
  BY StartTagged
<1>2. IInv /\ AuditRows /\ T /\ [Next]_vars => T'
  BY TaggedInductive
<1>3. IInv /\ T => AuditReadScoped
  BY TaggedMeansScoped DEF IInv, AuditReadScoped
<1>. HIDE DEF T
<1>. QED  BY <1>1, <1>2, <1>3, Start, Inductive, PTL DEF Spec

\* The shapes of the pipeline's variables: a call in hand refers only to
\* tickets and audit rows that exist, on any number of instances, whatever
\* fails or dies (gateway.py invoke).
THEOREM TypeCorrect == Spec => []TypeOK
  BY Start, StartTyped, Inductive, TypesInductive, TypesHold, PTL DEF Spec

=============================================================================
