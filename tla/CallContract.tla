----------------------------- MODULE CallContract -----------------------------
(***************************************************************************)
(* What mcpgate promises of the tool calls it takes, as its callers and    *)
(* its auditors can see it: no processes, no statements and no failures.   *)
(* A call changes at most one ticket, of a team its token has; it leaves   *)
(* at most one event, which names the client if there was a change; and    *)
(* its caller is told once, and only what the event says.                  *)
(***************************************************************************)
EXTENDS Naturals, Sequences

CONSTANTS
  Tokens,      \* access tokens, usable until they are revoked
  Holder,      \* [Tokens -> clients]
  TokenScopes, \* [Tokens -> sets of scopes]
  TokenTeams,  \* [Tokens -> sets of teams]
  Statuses,    \* the statuses a ticket may be given
  Seeded       \* the teams of the tickets there are at the start

VARIABLES
  tickets, \* the tickets, by number
  arrived, \* the calls that have come in, numbered from 1
  revoked, \* the revoked tokens, each with the last call before its revocation
  changes, \* who changed which ticket, in which call
  events,  \* the audit trail
  told     \* the answers callers have got

vars == <<tickets, arrived, revoked, changes, events, told>>

Init ==
  /\ tickets = [k \in DOMAIN Seeded |-> [team |-> Seeded[k], status |-> "open"]]
  /\ arrived = 0
  /\ revoked = [t \in {} |-> 0]
  /\ changes = {}
  /\ events = <<>>
  /\ told = {}

-----------------------------------------------------------------------------
\* Call id may get something done under token t.
May(id, t) == t \in DOMAIN revoked => id <= revoked[t]

OnRecord(id) == \E k \in DOMAIN events : events[k].id = id

Arrive ==
  /\ arrived' = arrived + 1
  /\ UNCHANGED <<tickets, revoked, changes, events, told>>

Revoke(t) ==
  /\ t \notin DOMAIN revoked
  /\ revoked' = [u \in DOMAIN revoked \cup {t} |-> IF u = t THEN arrived ELSE revoked[u]]
  /\ UNCHANGED <<tickets, arrived, changes, events, told>>

\* A ticket is opened for a team of the token.
Opened(t, k) ==
  /\ k = Len(tickets) + 1
  /\ \E team \in TokenTeams[t] : tickets' = Append(tickets, [team |-> team, status |-> "open"])

\* A ticket of a team of the token is given a status, and keeps its team.
Restated(t, k) ==
  /\ k \in DOMAIN tickets
  /\ tickets[k].team \in TokenTeams[t]
  /\ \E status \in Statuses : tickets' = [tickets EXCEPT ![k].status = status]

\* The one change of a call that is under way.
Change(id, t, k) ==
  /\ May(id, t) /\ "tickets:write" \in TokenScopes[t]
  /\ ~OnRecord(id) /\ \A w \in changes : w.id # id
  /\ Opened(t, k) \/ Restated(t, k)
  /\ changes' = changes \cup {[id |-> id, token |-> t, ticket |-> k]}
  /\ UNCHANGED <<arrived, revoked, events, told>>

\* The one event of a call: what was allowed or changed is laid to the client.
Record(id, t, client, decision) ==
  /\ ~OnRecord(id)
  /\ decision = "allow" => May(id, t) /\ client = Holder[t]
  /\ \A w \in changes : w.id = id => w.token = t /\ client = Holder[t]
  /\ events' = Append(events, [id |-> id, token |-> t, client |-> client, decision |-> decision])
  /\ UNCHANGED <<tickets, arrived, revoked, changes, told>>

\* The caller is told what is on record.
Tell(id, decision) ==
  /\ \E k \in DOMAIN events : events[k].id = id /\ events[k].decision = decision
  /\ \A a \in told : a.id # id
  /\ told' = told \cup {[id |-> id, decision |-> decision]}
  /\ UNCHANGED <<tickets, arrived, revoked, changes, events>>

Next ==
  \/ Arrive
  \/ \E t \in Tokens : Revoke(t)
  \/ \E id \in 1 .. arrived, t \in Tokens :
       \/ \E k \in 1 .. Len(tickets) + 1 : Change(id, t, k)
       \/ \E client \in {Holder[t], "none"}, decision \in {"allow", "deny"} :
            Record(id, t, client, decision)
  \/ \E id \in 1 .. arrived, decision \in {"allow", "deny"} : Tell(id, decision)

Spec == Init /\ [][Next]_vars

=============================================================================
