------------------------------ MODULE MCServer ------------------------------
(***************************************************************************)
(* Instances of Server for TLC: two servers over HTTP and one over stdio,  *)
(* a writer in each of two teams.                                          *)
(***************************************************************************)
EXTENDS Server, TLC

TokenNames == {"writer", "other"}
Held == [t \in TokenNames |-> t]
Scopes == [t \in TokenNames |-> {"tickets:read", "tickets:write"}]
TeamClaims == [t \in TokenNames |-> IF t = "other" THEN {"beta"} ELSE {"alpha"}]
OneBetaTicket == <<"beta">>

On(tools, ids, valids) ==
  [tool : tools, ticket : ids, team : {NoTeam}, status : {"closed"}, valid : valids]
Creating(teams) ==
  [tool : {"create_ticket"}, ticket : {0}, team : teams, status : {"open"}, valid : {TRUE}]

Symmetry == Permutations(Instances \ Stdio)

\* The calls whose statements another instance can come between.
RacingCalls ==
  On({"get_ticket"}, {2}, {TRUE}) \cup On({"update_ticket_status"}, {1, 2}, {TRUE})
    \cup Creating({"beta"})

AllCalls == RacingCalls \cup On({"unknown"}, {0}, {TRUE})

=============================================================================
