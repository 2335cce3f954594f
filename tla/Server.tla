------------------------------- MODULE Server -------------------------------
(***************************************************************************)
(* The MCP server of src/mcpgate/server.py around the guard pipeline: the  *)
(* SDK's own validation, the tools' invoke(), and audited_call_tool, which *)
(* records what failed and was not audited below it.                       *)
(*                                                                         *)
(* The SDK lets a call in whose token load_access_token accepts, and runs  *)
(* its handler later, after other calls and revocations: here a call may   *)
(* bring any token that has been usable.  The handler itself gives way to  *)
(* nothing, so a process runs one at a time.                               *)
(***************************************************************************)
EXTENDS Gateway

CONSTANTS
  Accepted,  \* the requests whose tool and arguments the SDK accepts
  Stdio      \* the processes that serve stdio, with no access token

ASSUME ServerAssumption == Accepted \subseteq Requests /\ Stdio \subseteq Instances

VARIABLES
  wrapping,   \* the failed call the wrapper of each process is recording
  unrecorded  \* history: calls over which record() failed twice, or the
              \* process died, or that came without an access token

serverVars == <<vars, wrapping, unrecorded>>

ServerInit ==
  /\ Init
  /\ wrapping = [i \in Instances |-> Idle]
  /\ unrecorded = {}

-----------------------------------------------------------------------------
\* Seeded fault: a call is let in while the wrapper records another.
FreeEarly(i) == call[i] = Idle

\* No handler is running.
Free(i) == call[i] = Idle /\ wrapping[i] = Idle

\* The next call has come in, of which the pipeline sees nothing.
Counted ==
  /\ arrived < MaxCalls
  /\ arrived' = arrived + 1
  /\ UNCHANGED <<tickets, usable, audit, budget, call, revokedAt, writes, answers>>

\* An exception that is no AuditedToolError reaches the wrapper; "held" is
\* history, the tickets the call had been given or had changed by then.
Raised(i, id, t, q, held) ==
  wrapping' = [wrapping EXCEPT ![i] =
    [pc |-> "tail", id |-> id, token |-> t, req |-> q, tickets |-> held, tail |-> 0]]

\* The SDK accepts the request, and invoke() hands it to the pipeline.
Dispatch(i, t, q) ==
  /\ Free(i) /\ i \notin Stdio /\ q \in Accepted
  /\ Arrive(i, t, q)
  /\ UNCHANGED <<wrapping, unrecorded>>

\* Seeded fault: audited_call_tool is not registered.
SilentReject(i, t, q) ==
  /\ Free(i) /\ q \notin Accepted
  /\ Counted
  /\ UNCHANGED <<lost, wrapping, unrecorded>>

\* An unknown tool, or arguments of the wrong type.
Reject(i, t, q) ==
  /\ Free(i) /\ q \notin Accepted
  /\ Counted
  /\ Raised(i, arrived', t, q, {})
  /\ UNCHANGED <<lost, unrecorded>>

\* invoke() finds no access token: an AuditedToolError, and no event.
NoAccess(i) ==
  /\ Free(i) /\ i \in Stdio
  /\ Counted
  /\ unrecorded' = unrecorded \cup {arrived'}
  /\ UNCHANGED <<lost, wrapping>>

\* The pipeline's load_access_token fails.
LoadFails(i, t, q) ==
  /\ Free(i) /\ i \notin Stdio /\ q \in Accepted
  /\ ArriveFault
  /\ Raised(i, arrived', t, q, {})
  /\ UNCHANGED unrecorded

Guard(i) == Run(i) /\ UNCHANGED <<wrapping, unrecorded>>

\* Seeded fault: _already_audited knows no marker, a denial is recorded again.
RecordedTwice(i) ==
  /\ Reply(i)
  /\ \/ /\ call[i].decision = "deny"
        /\ Raised(i, call[i].id, call[i].token, call[i].req, call[i].tickets)
     \/ call[i].decision = "allow" /\ UNCHANGED wrapping
  /\ UNCHANGED unrecorded

\* A result, or a GatewayError turned into an AuditedToolError.
Return(i) == Reply(i) /\ UNCHANGED <<wrapping, unrecorded>>

\* Seeded fault: every error of a tool passes for one that is audited.
UnwrappedGuardRaises(i) == RecordFault(i) /\ UNCHANGED <<wrapping, unrecorded>>

\* record() has failed in the pipeline, whatever the call has done by then.
GuardRaises(i) ==
  /\ RecordFault(i)
  /\ Raised(i, call[i].id, call[i].token, call[i].req, call[i].tickets)
  /\ UNCHANGED unrecorded

-----------------------------------------------------------------------------
(***************************************************************************)
(* audited_call_tool records the call, and the error goes to the client.   *)
(***************************************************************************)
WrapTail(i) ==
  /\ wrapping[i].pc = "tail"
  /\ wrapping' = [wrapping EXCEPT ![i].pc = "append", ![i].tail = Len(audit)]
  /\ UNCHANGED <<vars, unrecorded>>

\* The client of the access token, if there is one, and the arguments of the
\* call, but no subject team: also when the call came out of the pipeline.
WrapEvent(i) ==
  LET w == wrapping[i]
  IN  [id |-> w.id, client |-> IF i \in Stdio THEN "none" ELSE Holder[w.token],
       req |-> w.req, decision |-> "deny", reason |-> "rejected_before_dispatch",
       team |-> NoTeam, blind |-> FALSE, previous |-> w.tail, token |-> w.token,
       tickets |-> w.tickets]

WrapAppend(i) ==
  /\ wrapping[i].pc = "append"
  /\ audit' = Append(audit, WrapEvent(i))
  /\ wrapping' = [wrapping EXCEPT ![i] = Idle]
  /\ UNCHANGED <<tickets, usable, budget, call, arrived, revokedAt, writes, answers, lost,
                 unrecorded>>

WrapFault(i) ==
  /\ wrapping[i] # Idle /\ "wrap" \in Faulty
  /\ wrapping' = [wrapping EXCEPT ![i] = Idle]
  /\ unrecorded' = unrecorded \cup {wrapping[i].id}
  /\ UNCHANGED vars

\* The process dies in the pipeline or in the wrapper.
Die(i) ==
  \/ /\ Crash(i)
     /\ unrecorded' = unrecorded \cup {call[i].id}
     /\ UNCHANGED wrapping
  \/ /\ wrapping[i] # Idle
     /\ Cardinality(lost) < MaxCrashes
     /\ lost' = lost \cup {wrapping[i].id}
     /\ unrecorded' = unrecorded \cup {wrapping[i].id}
     /\ wrapping' = [wrapping EXCEPT ![i] = Idle]
     /\ budget' = [budget EXCEPT ![i] = [c \in Clients |-> Capacity]]
     /\ UNCHANGED <<tickets, usable, audit, call, arrived, revokedAt, writes, answers>>

\* The /revoke endpoint, which a process over stdio has not.
RevokeToken(i) ==
  /\ Free(i) /\ i \notin Stdio
  /\ \E t \in Tokens : Revoke(i, t)
  /\ UNCHANGED <<wrapping, unrecorded>>

ServerStep(i) ==
  \/ \E t \in Tokens, q \in Requests : Dispatch(i, t, q) \/ Reject(i, t, q) \/ LoadFails(i, t, q)
  \/ NoAccess(i) \/ Guard(i) \/ Return(i) \/ GuardRaises(i)
  \/ WrapTail(i) \/ WrapAppend(i) \/ WrapFault(i) \/ Die(i)
  \/ RevokeToken(i)

ServerNext == \E i \in Instances : ServerStep(i)

ServerSpec == ServerInit /\ [][ServerNext]_serverVars

-----------------------------------------------------------------------------
(***************************************************************************)
(* Properties                                                              *)
(***************************************************************************)
Wraps ==
  [pc : {"tail", "append"}, id : 1 .. MaxCalls, token : Tokens, req : Requests,
   tickets : SUBSET (1 .. Len(tickets)), tail : 0 .. Len(audit)]

\* The shapes of the wrapper's variables; it runs when the pipeline has left.
ServerTypeOK ==
  /\ wrapping \in [Instances -> {Idle} \cup Wraps]
  /\ unrecorded \subseteq 1 .. MaxCalls
  /\ \A i \in Instances : wrapping[i] # Idle => call[i] = Idle

Wrapped == {wrapping[i].id : i \in {j \in Instances : wrapping[j] # Idle}}

\* Every call that has ended is on record, rejected by the SDK or refused,
\* failed or answered by the guard, unless its process died, record() failed
\* in the guard and in the wrapper, or it came over stdio (README:24 "a
\* structured audit event for every call, allowed or denied").
EveryCallOnRecord ==
  \A id \in 1 .. arrived :
    \/ id \in InProgress \cup Wrapped \cup unrecorded
    \/ \E k \in DOMAIN audit : audit[k].id = id

\* A change of the tickets is on record under the client that made it, though
\* a statement of the guard's record() failed after the change was committed.
ChangesTraced ==
  \A w \in writes :
    \/ w.id \in InProgress \cup Wrapped \cup unrecorded
    \/ \E k \in DOMAIN audit : audit[k].id = w.id /\ audit[k].client = Holder[w.token]

\* What callers and auditors see of the server: when tokens were revoked, and
\* the events without what only the guard knows.
Revocations == [t \in Tokens \ usable |-> revokedAt[t]]

Trail ==
  [k \in DOMAIN audit |-> [id |-> audit[k].id, token |-> audit[k].token,
                           client |-> audit[k].client, decision |-> audit[k].decision]]

Contract ==
  INSTANCE CallContract
  WITH revoked <- Revocations, changes <- writes, events <- Trail, told <- answers

\* However processes, statements and faults interleave, the server is the
\* gateway its callers were promised: at most one change and one event for a
\* call, the change before the event, the event before the answer, all under
\* one client, and nothing done under a token revoked before the call came.
KeepsContract == Contract!Spec

=============================================================================
