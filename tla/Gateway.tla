------------------------------ MODULE Gateway ------------------------------
(***************************************************************************)
(* The guard pipeline: Gateway.invoke of src/mcpgate/gateway.py with the   *)
(* store statements, the policy check and the audit record it makes.       *)
(*                                                                         *)
(* An instance is one server process.  Nothing in invoke() gives way to    *)
(* the event loop, so an instance runs one call from its first statement   *)
(* to its last; the statements of different instances on the one database  *)
(* file interleave.  Between two SQL statements only memory of the process *)
(* changes, so a step is one statement with the code around it.            *)
(*                                                                         *)
(* Token lifetimes are OAuth's: here a token is usable or not.  A bucket   *)
(* holds whole calls; RateLimiter has its clock.                           *)
(***************************************************************************)
EXTENDS Naturals, Sequences, FiniteSets

CONSTANTS
  Instances,   \* server processes on the database
  Tokens,      \* access tokens the provider has issued
  Holder,      \* [Tokens -> client ids]: the client_id claim
  TokenScopes, \* [Tokens -> sets of scopes]: the scopes claim
  TokenTeams,  \* [Tokens -> sets of teams]: the teams claim
  Teams,
  NoTeam,      \* a null subject_team
  Requests,    \* the calls that arrive, a subset of AllRequests
  Seeded,      \* the teams of the tickets the store starts with
  Capacity,    \* calls a full bucket admits
  AuditLimit,  \* rows an audit_recent call returns
  Faulty,      \* where a statement may fail, "arrive" or a pc
  MaxCalls,    \* bound: calls that arrive
  MaxCrashes   \* bound: processes that die

Clients == {Holder[t] : t \in Tokens}

\* policy.yaml, tools: the scope each tool requires.
ToolScope == [list_tickets         |-> "tickets:read",
              get_ticket           |-> "tickets:read",
              create_ticket        |-> "tickets:write",
              update_ticket_status |-> "tickets:write",
              audit_recent         |-> "audit:read"]

\* Two of the five VALID_STATUSES; "any" is none of them, and no filter.
Statuses == {"open", "closed"}

(***************************************************************************)
(* A call's tool and arguments.  "valid" is what _validate_inputs finds of *)
(* the arguments besides the sign of ticket_id and the status to set; a    *)
(* ticket_id that is no integer is ticket 0 of an invalid request.         *)
(***************************************************************************)
AllRequests ==
  [tool : DOMAIN ToolScope \cup {"unknown"}, ticket : Nat,
   team : Teams \cup {NoTeam}, status : Statuses \cup {"any"}, valid : BOOLEAN]

Pcs == {"idle", "tag", "guard", "dispatch", "update", "readback",
        "tail", "append", "reply"}

ASSUME GatewayAssumption ==
  /\ Requests \subseteq AllRequests
  /\ NoTeam \notin Teams
  /\ DOMAIN TokenTeams = Tokens
  /\ \A t \in Tokens : TokenTeams[t] \subseteq Teams
  /\ Seeded \in Seq(Teams)
  /\ Capacity \in Nat /\ AuditLimit \in Nat
  /\ MaxCalls \in Nat /\ MaxCrashes \in Nat

VARIABLES
  tickets,    \* the tickets table; a ticket's id is its index
  usable,     \* tokens whose artifact is neither revoked nor expired
  audit,      \* the audit_events table
  budget,     \* calls left in each instance's bucket of a client
  call,       \* the call each instance is running
  arrived,    \* history: number of calls so far, and the name of the last
  revokedAt,  \* history: the value of arrived when a token went unusable
  writes,     \* history: changes of the tickets table
  answers,    \* history: answers callers have got
  lost        \* history: calls that ended without an answer

vars == <<tickets, usable, audit, budget, call,
          arrived, revokedAt, writes, answers, lost>>

Idle == [pc |-> "idle"]

Init ==
  /\ tickets = [k \in DOMAIN Seeded |-> [team |-> Seeded[k], status |-> "open"]]
  /\ usable = Tokens
  /\ audit = <<>>
  /\ budget = [i \in Instances |-> [c \in Clients |-> Capacity]]
  /\ call = [i \in Instances |-> Idle]
  /\ arrived = 0
  /\ revokedAt = [t \in Tokens |-> MaxCalls]
  /\ writes = {}
  /\ answers = {}
  /\ lost = {}

-----------------------------------------------------------------------------
(***************************************************************************)
(* Helpers                                                                 *)
(***************************************************************************)
Exists(k) == k \in DOMAIN tickets

TeamsOf(c) == TokenTeams[c.token]

\* Seeded fault: an id that exists is enough.
AnyExisting(c, k) == Exists(k)

InScope(c, k) == Exists(k) /\ tickets[k].team \in TeamsOf(c)

\* Seeded fault: only creations are tagged.
SubjectOfCreate(q) == IF q.tool = "create_ticket" THEN q.team ELSE NoTeam

\* _subject_team: the team the arguments concern, as far as it is known.
SubjectTeam(q) ==
  CASE q.tool = "create_ticket" -> q.team
    [] q.tool \in {"get_ticket", "update_ticket_status"} /\ Exists(q.ticket) ->
         tickets[q.ticket].team
    [] OTHER -> NoTeam

\* require_tool: the policy knows the tool and the token has its scope.
Authorized(c) ==
  /\ c.req.tool \in DOMAIN ToolScope
  /\ ToolScope[c.req.tool] \in TokenScopes[c.token]

\* Seeded fault: the status is not compared with VALID_STATUSES.
ValidatedShape(q) == q.valid /\ (q.tool = "get_ticket" => q.ticket >= 1)

\* _validate_inputs; only get_ticket refuses an id below 1 here.
Validated(q) ==
  /\ q.valid
  /\ q.tool = "get_ticket" => q.ticket >= 1
  /\ q.tool = "update_ticket_status" => q.status \in Statuses
  /\ q.tool = "create_ticket" => q.team # NoTeam

\* audit_events for a tool: rows without a subject, or about the teams.
Readable(teams) ==
  {k \in DOMAIN audit : audit[k].team \in teams \cup {NoTeam}}

\* The newest n of a set of rows.
Newest(rows, n) == {k \in rows : Cardinality({j \in rows : j > k}) < n}

\* The call of instance i goes on at pc, with other fields of c as given.
Goto(i, pc) == call' = [call EXCEPT ![i].pc = pc]

Deny(i, reason) ==
  call' = [call EXCEPT ![i].pc = "tail", ![i].decision = "deny", ![i].reason = reason]

Allow(i, tkts, rows) ==
  call' = [call EXCEPT ![i].pc = "tail", ![i].decision = "allow",
                       ![i].reason = "policy_satisfied",
                       ![i].tickets = tkts, ![i].rows = rows]

-----------------------------------------------------------------------------
(***************************************************************************)
(* The pipeline                                                            *)
(***************************************************************************)

\* Seeded fault: the signature is verified, the artifact is not looked up.
SignatureOnlyArrive(i, t, q) ==
  /\ call[i] = Idle
  /\ arrived < MaxCalls
  /\ arrived' = arrived + 1
  /\ call' = [call EXCEPT ![i] =
       [pc |-> "tag", id |-> arrived', token |-> t, req |-> q,
        authentic |-> TRUE, tag |-> NoTeam, blind |-> FALSE,
        decision |-> "none", reason |-> "none",
        tickets |-> {}, rows |-> {}, tail |-> 0]]
  /\ UNCHANGED <<tickets, usable, audit, budget, revokedAt, writes, answers, lost>>

\* load_access_token: the SELECT of the token's artifact.
Arrive(i, t, q) ==
  /\ call[i] = Idle
  /\ arrived < MaxCalls
  /\ arrived' = arrived + 1
  /\ call' = [call EXCEPT ![i] =
       [pc |-> "tag", id |-> arrived', token |-> t, req |-> q,
        authentic |-> t \in usable, tag |-> NoTeam, blind |-> FALSE,
        decision |-> "none", reason |-> "none",
        tickets |-> {}, rows |-> {}, tail |-> 0]]
  /\ UNCHANGED <<tickets, usable, audit, budget, revokedAt, writes, answers, lost>>

\* _subject_team reads the ticket's team before anything is checked.
Tag(i) ==
  /\ call[i].pc = "tag"
  /\ call' = [call EXCEPT ![i].pc = "guard", ![i].tag = SubjectTeam(call[i].req)]
  /\ UNCHANGED <<tickets, usable, audit, budget, arrived, revokedAt, writes, answers, lost>>

\* No token, no charge.
RejectToken(i) ==
  /\ call[i].pc = "guard"
  /\ ~call[i].authentic
  /\ Deny(i, "invalid_token")
  /\ UNCHANGED <<tickets, usable, audit, budget, arrived, revokedAt, writes, answers, lost>>

\* limiter.allow refills the client's bucket by what time has earned it and
\* finds it too low still.
Throttle(i) ==
  /\ call[i].pc = "guard"
  /\ call[i].authentic
  /\ budget[i][Holder[call[i].token]] = 0
  /\ Deny(i, "rate_limited")
  /\ UNCHANGED <<tickets, usable, audit, budget, arrived, revokedAt, writes, answers, lost>>

\* limiter.allow refills the bucket to a level above 0 and charges the call;
\* then the scope and the arguments are checked.
Check(i, level) ==
  LET c == call[i]
      client == Holder[c.token]
  IN  /\ c.pc = "guard"
      /\ c.authentic
      /\ level >= budget[i][client]
      /\ budget' = [budget EXCEPT ![i][client] = level - 1]
      /\ \/ ~Authorized(c) /\ Deny(i, "forbidden")
         \/ Authorized(c) /\ ~Validated(c.req) /\ Deny(i, "invalid_argument")
         \/ Authorized(c) /\ Validated(c.req) /\ Goto(i, "dispatch")
      /\ UNCHANGED <<tickets, usable, audit, arrived, revokedAt, writes, answers, lost>>

-----------------------------------------------------------------------------
(***************************************************************************)
(* Dispatch to the store                                                   *)
(***************************************************************************)
ListTickets(i) ==
  LET c == call[i]
  IN  /\ c.pc = "dispatch" /\ c.req.tool = "list_tickets"
      /\ Allow(i, {k \in DOMAIN tickets : InScope(c, k) /\ c.req.status \in {"any", tickets[k].status}}, {})
      /\ UNCHANGED <<tickets, usable, audit, budget, arrived, revokedAt, writes, answers, lost>>

AuditRecent(i) ==
  LET c == call[i]
  IN  /\ c.pc = "dispatch" /\ c.req.tool = "audit_recent"
      /\ Allow(i, {}, Newest(Readable(TeamsOf(c)), AuditLimit))
      /\ UNCHANGED <<tickets, usable, audit, budget, arrived, revokedAt, writes, answers, lost>>

GetTicket(i) ==
  LET c == call[i]
  IN  /\ c.pc = "dispatch" /\ c.req.tool = "get_ticket"
      /\ \/ InScope(c, c.req.ticket) /\ Allow(i, {c.req.ticket}, {})
         \/ ~InScope(c, c.req.ticket) /\ Deny(i, "not_found")
      /\ UNCHANGED <<tickets, usable, audit, budget, arrived, revokedAt, writes, answers, lost>>

\* Seeded fault: the team is checked when the row is in.
InsertThenCheck(i) ==
  LET c == call[i]
      k == Len(tickets) + 1
  IN  /\ c.pc = "dispatch" /\ c.req.tool = "create_ticket"
      /\ tickets' = Append(tickets, [team |-> c.req.team, status |-> "open"])
      /\ writes' = writes \cup {[id |-> c.id, token |-> c.token, ticket |-> k]}
      /\ \/ c.req.team \in TeamsOf(c) /\ call' = [call EXCEPT ![i].pc = "readback", ![i].tickets = {k}]
         \/ c.req.team \notin TeamsOf(c) /\ Deny(i, "row_scope_violation")
      /\ UNCHANGED <<usable, audit, budget, arrived, revokedAt, answers, lost>>

\* The team is one of the token's: INSERT and commit.
CreateTicket(i) ==
  LET c == call[i]
      k == Len(tickets) + 1
  IN  /\ c.pc = "dispatch" /\ c.req.tool = "create_ticket"
      /\ c.req.team \in TeamsOf(c)
      /\ tickets' = Append(tickets, [team |-> c.req.team, status |-> "open"])
      /\ writes' = writes \cup {[id |-> c.id, token |-> c.token, ticket |-> k]}
      /\ call' = [call EXCEPT ![i].pc = "readback", ![i].tickets = {k}]
      /\ UNCHANGED <<usable, audit, budget, arrived, revokedAt, answers, lost>>

\* The team is not: no statement is made.
RefuseTeam(i) ==
  LET c == call[i]
  IN  /\ c.pc = "dispatch" /\ c.req.tool = "create_ticket"
      /\ c.req.team \notin TeamsOf(c)
      /\ Deny(i, "row_scope_violation")
      /\ UNCHANGED <<tickets, usable, audit, budget, arrived, revokedAt, writes, answers, lost>>

\* _visible_ticket, the SELECT before the UPDATE.
CheckVisible(i) ==
  LET c == call[i]
  IN  /\ c.pc = "dispatch" /\ c.req.tool = "update_ticket_status"
      /\ \/ InScope(c, c.req.ticket) /\ Goto(i, "update")
         \/ ~InScope(c, c.req.ticket) /\ Deny(i, "not_found")
      /\ UNCHANGED <<tickets, usable, audit, budget, arrived, revokedAt, writes, answers, lost>>

\* UPDATE and commit.
UpdateStatus(i) ==
  LET c == call[i]
      k == c.req.ticket
  IN  /\ c.pc = "update"
      /\ tickets' = [tickets EXCEPT ![k].status = c.req.status]
      /\ writes' = writes \cup {[id |-> c.id, token |-> c.token, ticket |-> k]}
      /\ call' = [call EXCEPT ![i].pc = "readback", ![i].tickets = {k}]
      /\ UNCHANGED <<usable, audit, budget, arrived, revokedAt, answers, lost>>

\* The row is selected again to be returned.
ReadBack(i) ==
  /\ call[i].pc = "readback"
  /\ Allow(i, call[i].tickets, {})
  /\ UNCHANGED <<tickets, usable, audit, budget, arrived, revokedAt, writes, answers, lost>>

-----------------------------------------------------------------------------
(***************************************************************************)
(* The audit record and the answer                                         *)
(***************************************************************************)
ReadTail(i) ==
  /\ call[i].pc = "tail"
  /\ call' = [call EXCEPT ![i].pc = "append", ![i].tail = Len(audit)]
  /\ UNCHANGED <<tickets, usable, audit, budget, arrived, revokedAt, writes, answers, lost>>

\* What record() is given; "id", "token", "blind" and "tickets" are history.
Event(c) ==
  [id |-> c.id, client |-> IF c.authentic THEN Holder[c.token] ELSE "none",
   req |-> c.req, decision |-> c.decision, reason |-> c.reason, team |-> c.tag, blind |-> c.blind,
   previous |-> c.tail, token |-> c.token, tickets |-> c.tickets]

AppendAudit(i) ==
  /\ call[i].pc = "append"
  /\ audit' = Append(audit, Event(call[i]))
  /\ Goto(i, "reply")
  /\ UNCHANGED <<tickets, usable, budget, arrived, revokedAt, writes, answers, lost>>

Reply(i) ==
  /\ call[i].pc = "reply"
  /\ answers' = answers \cup {[id |-> call[i].id, decision |-> call[i].decision]}
  /\ call' = [call EXCEPT ![i] = Idle]
  /\ UNCHANGED <<tickets, usable, audit, budget, arrived, revokedAt, writes, lost>>

-----------------------------------------------------------------------------
(***************************************************************************)
(* Failures and the world around                                           *)
(***************************************************************************)

\* The SELECT of the artifact fails, outside the try: an error, no event.
ArriveFault ==
  /\ "arrive" \in Faulty
  /\ arrived < MaxCalls
  /\ arrived' = arrived + 1
  /\ lost' = lost \cup {arrived'}
  /\ UNCHANGED <<tickets, usable, audit, budget, call, revokedAt, writes, answers>>

\* _subject_team swallows any failure of its SELECT and leaves no tag.
TagFault(i) ==
  /\ call[i].pc = "tag" /\ "tag" \in Faulty
  /\ call[i].req.tool \in {"get_ticket", "update_ticket_status"}
  /\ call' = [call EXCEPT ![i].pc = "guard", ![i].blind = TRUE]
  /\ UNCHANGED <<tickets, usable, audit, budget, arrived, revokedAt, writes, answers, lost>>

\* Seeded fault: the tool is tried again.
RetryingDispatchFault(i) ==
  /\ call[i].pc \in Faulty \cap {"dispatch", "update", "readback"}
  /\ Goto(i, "dispatch")
  /\ UNCHANGED <<tickets, usable, audit, budget, arrived, revokedAt, writes, answers, lost>>

\* A statement of the dispatch fails: the catch-all denies with internal_error.
DispatchFault(i) ==
  /\ call[i].pc \in Faulty \cap {"dispatch", "update", "readback"}
  /\ Deny(i, "internal_error")
  /\ UNCHANGED <<tickets, usable, audit, budget, arrived, revokedAt, writes, answers, lost>>

\* A statement of record() fails, the last one when the row is already in:
\* nothing catches it, the call is an error.
RecordFault(i) ==
  /\ call[i].pc \in Faulty \cap {"tail", "append", "reply"}
  /\ lost' = lost \cup {call[i].id}
  /\ call' = [call EXCEPT ![i] = Idle]
  /\ UNCHANGED <<tickets, usable, audit, budget, arrived, revokedAt, writes, answers>>

\* The process dies and another takes its place, with full buckets.
Crash(i) ==
  /\ call[i] # Idle
  /\ Cardinality(lost) < MaxCrashes
  /\ lost' = lost \cup {call[i].id}
  /\ call' = [call EXCEPT ![i] = Idle]
  /\ budget' = [budget EXCEPT ![i] = [c \in Clients |-> Capacity]]
  /\ UNCHANGED <<tickets, usable, audit, arrived, revokedAt, writes, answers>>

\* The /revoke endpoint of instance i, between two calls of it.
Revoke(i, t) ==
  /\ call[i] = Idle
  /\ t \in usable
  /\ usable' = usable \ {t}
  /\ revokedAt' = [revokedAt EXCEPT ![t] = arrived]
  /\ UNCHANGED <<tickets, audit, budget, call, arrived, writes, answers, lost>>

\* What is left of the call instance i is running.
Run(i) ==
  \/ Tag(i) \/ RejectToken(i) \/ Throttle(i)
  \/ \E level \in 1 .. Capacity : Check(i, level)
  \/ ListTickets(i) \/ AuditRecent(i) \/ GetTicket(i)
  \/ CreateTicket(i) \/ RefuseTeam(i) \/ CheckVisible(i) \/ UpdateStatus(i) \/ ReadBack(i)
  \/ ReadTail(i) \/ AppendAudit(i)
  \/ TagFault(i) \/ DispatchFault(i)

\* What instance i can do.
Step(i) ==
  \/ \E t \in Tokens, q \in Requests : Arrive(i, t, q)
  \/ call[i] = Idle /\ ArriveFault
  \/ Run(i) \/ Reply(i) \/ RecordFault(i) \/ Crash(i)
  \/ \E t \in Tokens : Revoke(i, t)

Next == \E i \in Instances : Step(i)

Spec == Init /\ [][Next]_vars

-----------------------------------------------------------------------------
(***************************************************************************)
(* Properties                                                              *)
(***************************************************************************)
Stages == Pcs \ {"idle"}
Decisions == {"none", "allow", "deny"}
Reasons == {"none", "policy_satisfied", "invalid_token", "rate_limited", "forbidden",
            "invalid_argument", "row_scope_violation", "not_found", "internal_error"}
Calls ==
  [pc : Stages, id : 1 .. MaxCalls, token : Tokens, req : Requests,
   authentic : BOOLEAN, tag : Teams \cup {NoTeam}, blind : BOOLEAN, decision : Decisions,
   reason : Reasons, tickets : SUBSET (1 .. Len(tickets)),
   rows : SUBSET (1 .. Len(audit)), tail : 0 .. Len(audit)]

\* The shapes of the variables; a call refers only to rows that exist.
TypeOK ==
  /\ tickets \in Seq([team : Teams, status : Statuses])
  /\ usable \subseteq Tokens
  /\ budget \in [Instances -> [Clients -> 0 .. Capacity]]
  /\ call \in [Instances -> {Idle} \cup Calls]
  /\ arrived \in 0 .. MaxCalls
  /\ revokedAt \in [Tokens -> 0 .. MaxCalls]
  /\ writes \subseteq [id : 1 .. MaxCalls, token : Tokens, ticket : 1 .. Len(tickets)]
  /\ answers \subseteq [id : 1 .. MaxCalls, decision : {"allow", "deny"}]
  /\ lost \subseteq 1 .. MaxCalls

InProgress == {call[i].id : i \in {j \in Instances : call[j] # Idle}}

\* Whatever the instances interleave, a ticket is changed only under a token
\* with the write scope and the ticket's team, and no call holds a ticket of
\* another team for its caller (README: "claims gate rows").
RowScoped ==
  /\ \A w \in writes : /\ tickets[w.ticket].team \in TokenTeams[w.token]
                       /\ "tickets:write" \in TokenScopes[w.token]
  /\ \A i \in Instances : call[i] # Idle =>
       \A k \in call[i].tickets : tickets[k].team \in TeamsOf(call[i])

\* A call leaves at most one event, and an answered call one that says what
\* the caller was told (README: "a structured audit event for every call").
EvidenceOnce ==
  /\ \A j, k \in DOMAIN audit : audit[j].id = audit[k].id => j = k
  /\ \A a \in answers : \E k \in DOMAIN audit :
       audit[k].id = a.id /\ audit[k].decision = a.decision

\* A call recorded as denied has changed nothing (gateway.py:82-83 "Fail
\* closed, audited."; the abuse suite asserts the absence of side effects).
DeniedLeavesNoTrace ==
  \A k \in DOMAIN audit : audit[k].decision = "deny" =>
    \A w \in writes : w.id # audit[k].id

\* The audit rows an auditor gets tell of no call on a single ticket of a
\* team that is not the auditor's (store.py:245-247: an event without a
\* subject "carries no other team's content"), but for the calls whose
\* subject could not be looked up.  A call refused before it had read a
\* ticket holds none: of its row this says nothing.
AuditReadScoped ==
  \A i \in Instances : call[i] # Idle =>
    \A n \in call[i].rows : audit[n].req.tool # "list_tickets" /\ ~audit[n].blind =>
      \A k \in audit[n].tickets : tickets[k].team \in TeamsOf(call[i])

\* A revoked token gets nothing done but in calls that had arrived before
\* the revocation, on any instance.
RevocationCutsOff ==
  /\ \A w \in writes : w.token \in usable \/ w.id <= revokedAt[w.token]
  /\ \A k \in DOMAIN audit : audit[k].decision = "allow" =>
       audit[k].token \in usable \/ audit[k].id <= revokedAt[audit[k].token]

=============================================================================
