----------------------------- MODULE MCGateway -----------------------------
(***************************************************************************)
(* Instances of Gateway for TLC: one writer in each of two teams, and an   *)
(* auditor of the first, as policy.yaml's narrow auditor is.               *)
(***************************************************************************)
EXTENDS Gateway, TLC

TokenNames == {"writer", "other", "auditor"}
Held == [t \in TokenNames |-> t]
Scopes == [t \in TokenNames |->
             IF t = "auditor" THEN {"tickets:read", "audit:read"}
             ELSE {"tickets:read", "tickets:write"}]
TeamClaims == [t \in TokenNames |-> IF t = "other" THEN {"beta"} ELSE {"alpha"}]
OneBetaTicket == <<"beta">>

On(tools, ids, valids) ==
  [tool : tools, ticket : ids, team : {NoTeam}, status : {"closed"}, valid : valids]
Creating(teams) ==
  [tool : {"create_ticket"}, ticket : {0}, team : teams, status : {"open"}, valid : {TRUE}]

Symmetry == Permutations(Instances)

\* Every tool, the hidden and the absent ticket, and what is refused early.
AllCalls ==
  On({"get_ticket", "update_ticket_status"}, 0 .. 2, {TRUE})
    \cup On({"list_tickets", "audit_recent", "unknown"}, {0}, {TRUE})
    \cup On({"update_ticket_status"}, {1}, {FALSE})
    \cup {[tool |-> t, ticket |-> 1, team |-> NoTeam, status |-> "any", valid |-> TRUE]
           : t \in {"list_tickets", "update_ticket_status"}}
    \cup Creating(Teams)

\* A ticket is created, read by its owner and asked for by an auditor.
BlindSpotCalls ==
  On({"get_ticket"}, {2}, {TRUE}) \cup On({"audit_recent"}, {0}, {TRUE})
    \cup Creating({"beta"})

=============================================================================
