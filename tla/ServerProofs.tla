---------------------------- MODULE ServerProofs ----------------------------
(***************************************************************************)
(* The server around the pipeline, for any number of processes over HTTP   *)
(* and stdio, any tokens, teams and requests, any failing statement and    *)
(* any crash: the wrapper takes nothing away from row scoping and from     *)
(* revocation, every call that ends is on record unless it falls under a   *)
(* named exception, a call leaves one event, and a change is on record     *)
(* under the client that made it.                                          *)
(***************************************************************************)
EXTENDS Server, GatewayProofs

OnRecord(id) == \E k \in DOMAIN audit : audit[k].id = id

\* Process i has the call in hand, in the pipeline or in the wrapper.
Handles(i, id) ==
  \/ call[i] # Idle /\ call[i].id = id
  \/ wrapping[i] # Idle /\ wrapping[i].id = id

InWrapper ==
  [pc : {"tail", "append"}, id : Nat, token : Tokens, req : Requests, tickets : SUBSET Nat,
   tail : Nat]

\* A process is in the pipeline or in the wrapper, not in both.
OneCallEach ==
  /\ wrapping \in [Instances -> {Idle} \cup InWrapper]
  /\ \A i \in Instances : wrapping[i] # Idle => call[i] = Idle

\* An answer goes out when its event is in.
ReplyRecorded == \A i \in Instances : call[i].pc = "reply" => OnRecord(call[i].id)

Accounted ==
  \A id \in 1 .. arrived :
    (\E i \in Instances : Handles(i, id)) \/ id \in unrecorded \/ OnRecord(id)

\* What scoping needs, of the pipeline alone, and what the record needs.
Guarded == IInv /\ AuditRows

OnRecordInv == OneCallEach /\ ReplyRecorded /\ Accounted

-----------------------------------------------------------------------------
(***************************************************************************)
(* Row scoping: the server's steps are the pipeline's, or leave its        *)
(* tickets and calls alone.                                                *)
(***************************************************************************)
LEMMA LeftAlone ==
  ASSUME Guarded, UNCHANGED <<tickets, call, writes, audit>>, arrived' \in Nat
  PROVE  Guarded'
  BY Untouched DEF Guarded, AuditRows

LEMMA Stepped ==
  ASSUME Guarded, NEW i \in Instances, Step(i)
  PROVE  Guarded'
  BY StepKeeps, RowsKept DEF Guarded

LEMMA CountedInNat ==
  ASSUME Guarded
  PROVE  arrived \in Nat /\ (arrived' = arrived + 1 => arrived' \in Nat)
  BY DEF Guarded, IInv, Shapes

LEMMA GuardedStep ==
  ASSUME Guarded, NEW i \in Instances, ServerStep(i)
  PROVE  Guarded'
<1>1. ASSUME NEW t \in Tokens, NEW q \in Requests, Dispatch(i, t, q)  PROVE Guarded'
  BY <1>1, Stepped DEF Dispatch, Step
<1>2. ASSUME NEW t \in Tokens, NEW q \in Requests, Reject(i, t, q)  PROVE Guarded'
  BY <1>2, LeftAlone, CountedInNat DEF Reject, Counted
<1>3. ASSUME NEW t \in Tokens, NEW q \in Requests, LoadFails(i, t, q)  PROVE Guarded'
  BY <1>3, LeftAlone, CountedInNat DEF LoadFails, ArriveFault
<1>4. CASE NoAccess(i)
  BY <1>4, LeftAlone, CountedInNat DEF NoAccess, Counted
<1>5. CASE Guard(i) \/ Return(i) \/ GuardRaises(i)
  BY <1>5, Stepped DEF Guard, Return, GuardRaises, Step
<1>6. CASE WrapTail(i) \/ WrapFault(i)
  BY <1>6, LeftAlone, CountedInNat DEF WrapTail, WrapFault, vars
<1>7. CASE WrapAppend(i)
  <2>1. UNCHANGED <<tickets, call, writes>> /\ arrived' \in Nat
    BY <1>7, CountedInNat DEF WrapAppend
  <2>2. audit' = Append(audit, WrapEvent(i))
    BY <1>7 DEF WrapAppend
  <2>. QED  BY <2>1, <2>2, Untouched, RowAdded DEF Guarded
<1>8. CASE Die(i)
  <2>1. CASE Crash(i)
    BY <2>1, Stepped DEF Step
  <2>. QED  BY <1>8, <2>1, LeftAlone, CountedInNat DEF Die
<1>9. CASE RevokeToken(i)
  BY <1>9, Stepped DEF RevokeToken, Step
<1>. QED  BY <1>1, <1>2, <1>3, <1>4, <1>5, <1>6, <1>7, <1>8, <1>9 DEF ServerStep

LEMMA GuardedInductive == Guarded /\ [ServerNext]_serverVars => Guarded'
<1> SUFFICES ASSUME Guarded, [ServerNext]_serverVars PROVE Guarded'
  OBVIOUS
<1>1. CASE ServerNext
  BY <1>1, GuardedStep DEF ServerNext
<1>2. CASE UNCHANGED serverVars
  BY <1>2, LeftAlone, CountedInNat DEF serverVars, vars
<1>. QED  BY <1>1, <1>2

LEMMA GuardedInvariance == ServerSpec => []Guarded
<1>1. ServerInit => Guarded
  BY Start DEF ServerInit, Guarded
<1>. QED  BY <1>1, GuardedInductive, PTL DEF ServerSpec

-----------------------------------------------------------------------------
(***************************************************************************)
(* The record: what a step owes to the call its process has in hand        *)
(***************************************************************************)
Others(i) ==
  \A j \in Instances \ {i} : call'[j] = call[j] /\ wrapping'[j] = wrapping[j]

\* The rows stay, and a new one may be added.
RecordGrows == \A id : OnRecord(id) => OnRecord(id)'

LEMMA RowsUnchanged == ASSUME audit' = audit PROVE RecordGrows
  BY DEF RecordGrows, OnRecord

LEMMA RowRecorded ==
  ASSUME AuditRows, NEW row, audit' = Append(audit, row)
  PROVE  RecordGrows /\ OnRecord(row.id)'
<1>1. /\ Len(audit) \in Nat
      /\ DOMAIN audit = 1 .. Len(audit) /\ DOMAIN audit' = 1 .. Len(audit) + 1
      /\ \A k \in 1 .. Len(audit) : audit'[k] = audit[k]
      /\ audit'[Len(audit) + 1] = row
  BY RowsAfter
<1>2. RecordGrows
  BY <1>1 DEF RecordGrows, OnRecord
<1>3. Len(audit) + 1 \in DOMAIN audit'
  BY <1>1
<1>. QED  BY <1>1, <1>2, <1>3 DEF OnRecord

(***************************************************************************)
(* A step of process i keeps the record if it accounts for the call it had *)
(* and for the one that came in.                                           *)
(***************************************************************************)
LEMMA StepAccounts ==
  ASSUME OnRecordInv, NEW i \in Instances, Others(i), RecordGrows,
         unrecorded \subseteq unrecorded',
         wrapping' \in [Instances -> {Idle} \cup InWrapper],
         wrapping'[i] # Idle => call'[i] = Idle,
         call'[i].pc = "reply" => OnRecord(call[i].id)',
         arrived \in Nat, arrived' \in {arrived, arrived + 1},
         \A id : Handles(i, id) \/ (id = arrived' /\ arrived' # arrived) =>
                   Handles(i, id)' \/ id \in unrecorded' \/ OnRecord(id)'
  PROVE  OnRecordInv'
<1>1. OneCallEach'
  BY DEF OnRecordInv, OneCallEach, Others
<1>2. ReplyRecorded'
  <2>. SUFFICES ASSUME NEW j \in Instances, call'[j].pc = "reply" PROVE OnRecord(call[j].id)'
    BY DEF ReplyRecorded
  <2>1. CASE j # i
    <3> PICK id : id = call[j].id
      OBVIOUS
    <3>1. call'[j] = call[j]
      BY <2>1 DEF Others
    <3>2. OnRecord(id)
      BY <3>1 DEF OnRecordInv, ReplyRecorded
    <3>3. OnRecord(id)'
      BY <3>2 DEF RecordGrows
    <3>. QED  BY <3>1, <3>3 DEF OnRecord
  <2>. QED  BY <2>1
<1>3. Accounted'
  <2>. SUFFICES ASSUME NEW id \in 1 .. arrived'
                PROVE  (\E j \in Instances : Handles(j, id)') \/ id \in unrecorded' \/ OnRecord(id)'
    BY DEF Accounted
  <2>1. CASE id \in 1 .. arrived
    <3>1. CASE \E j \in Instances \ {i} : Handles(j, id)
      BY <3>1 DEF Handles, Others
    <3>2. CASE Handles(i, id)
      BY <3>2
    <3>3. CASE id \in unrecorded \/ OnRecord(id)
      BY <3>3 DEF RecordGrows
    <3>. QED  BY <2>1, <3>1, <3>2, <3>3 DEF OnRecordInv, Accounted
  <2>2. CASE id \notin 1 .. arrived
    <3>1. id = arrived' /\ arrived' # arrived
      BY <2>2
    <3>. QED  BY <3>1
  <2>. QED  BY <2>1, <2>2
<1>. QED  BY <1>1, <1>2, <1>3 DEF OnRecordInv

-----------------------------------------------------------------------------
(***************************************************************************)
(* The wrapper                                                             *)
(***************************************************************************)
LEMMA RaisedHolds ==
  ASSUME OneCallEach, NEW i \in Instances, NEW id \in Nat, NEW t \in Tokens,
         NEW q \in Requests, NEW held \in SUBSET Nat, Raised(i, id, t, q, held)
  PROVE  /\ wrapping' \in [Instances -> {Idle} \cup InWrapper]
         /\ wrapping'[i] # Idle /\ wrapping'[i].id = id
         /\ \A j \in Instances \ {i} : wrapping'[j] = wrapping[j]
<1> PICK w : w = [pc |-> "tail", id |-> id, token |-> t, req |-> q, tickets |-> held, tail |-> 0]
  OBVIOUS
<1>1. w \in InWrapper /\ w.id = id /\ w.pc = "tail"
  BY DEF InWrapper
<1>2. w # Idle
  <2>1. Idle.pc = "idle"
    BY DEF Idle
  <2>. QED  BY <1>1, <2>1
<1>3. wrapping' = [wrapping EXCEPT ![i] = w]
  BY DEF Raised
<1>. QED  BY <1>1, <1>2, <1>3 DEF OneCallEach

LEMMA WrapperLeft ==
  ASSUME OneCallEach, NEW i \in Instances, wrapping' = [wrapping EXCEPT ![i] = Idle]
  PROVE  /\ wrapping' \in [Instances -> {Idle} \cup InWrapper]
         /\ wrapping'[i] = Idle
         /\ \A j \in Instances \ {i} : wrapping'[j] = wrapping[j]
  BY DEF OneCallEach

LEMMA WrapTailHolds ==
  ASSUME OneCallEach, AuditRows, NEW i \in Instances, WrapTail(i)
  PROVE  /\ wrapping' \in [Instances -> {Idle} \cup InWrapper]
         /\ wrapping'[i] # Idle /\ wrapping'[i].id = wrapping[i].id
         /\ \A j \in Instances \ {i} : wrapping'[j] = wrapping[j]
<1> PICK w : w = wrapping[i]
  OBVIOUS
<1> PICK n : n = Len(audit)
  OBVIOUS
<1> PICK x : x = [w EXCEPT !.pc = "append", !.tail = n]
  OBVIOUS
<1>0. Idle.pc = "idle"
  BY DEF Idle
<1>1. w \in InWrapper /\ n \in Nat
  BY <1>0, LenProperties DEF OneCallEach, WrapTail, AuditRows
<1>2. x \in InWrapper /\ x.pc = "append" /\ x.id = w.id
  BY <1>1 DEF InWrapper
<1>3. wrapping' = [wrapping EXCEPT ![i] = x]
  BY DEF WrapTail
<1>. QED  BY <1>0, <1>2, <1>3 DEF OneCallEach

LEMMA CallLeft ==
  ASSUME Shapes, NEW i \in Instances, call' = [call EXCEPT ![i] = Idle]
  PROVE  call'[i] = Idle /\ call'[i].pc # "reply" /\ \A j \in Instances \ {i} : call'[j] = call[j]
  BY DEF Shapes, Idle

-----------------------------------------------------------------------------
(***************************************************************************)
(* The steps of the server, one action at a time                           *)
(***************************************************************************)
\* A call comes in, and the process has it in hand or has given it up.
LEMMA ArrivalAccounts ==
  ASSUME Guarded, OnRecordInv, NEW i \in Instances, Others(i), audit' = audit,
         unrecorded \subseteq unrecorded', arrived' = arrived + 1, Free(i),
         wrapping' \in [Instances -> {Idle} \cup InWrapper],
         wrapping'[i] # Idle => call'[i] = Idle, call'[i].pc # "reply",
         Handles(i, arrived)' \/ arrived' \in unrecorded'
  PROVE  OnRecordInv'
<1>1. RecordGrows /\ arrived \in Nat
  BY RowsUnchanged, CountedInNat
<1>2. \A id : ~Handles(i, id)
  BY DEF Handles, Free
<1>3. \A id : id = arrived' => Handles(i, id)' \/ id \in unrecorded'
  BY DEF Handles
<1>. QED  BY <1>1, <1>2, <1>3, StepAccounts

LEMMA DispatchAccounts ==
  ASSUME Guarded, OnRecordInv, NEW i \in Instances, NEW t \in Tokens, NEW q \in Requests,
         Dispatch(i, t, q)
  PROVE  OnRecordInv'
<1> PICK c : c = [pc |-> "tag", id |-> arrived', token |-> t, req |-> q,
                  authentic |-> t \in usable, tag |-> NoTeam, blind |-> FALSE,
                  decision |-> "none", reason |-> "none",
                  tickets |-> {}, rows |-> {}, tail |-> 0]
  OBVIOUS
<1>1. /\ call' = [call EXCEPT ![i] = c] /\ arrived' = arrived + 1 /\ audit' = audit
      /\ wrapping' = wrapping /\ unrecorded' = unrecorded /\ Free(i)
  BY DEF Dispatch, Arrive
<1>2. c.id = arrived' /\ c.pc = "tag"
  OBVIOUS
<1>3. c # Idle
  <2>1. Idle.pc = "idle"
    BY DEF Idle
  <2>. QED  BY <1>2, <2>1
<1>4. call'[i] = c /\ \A j \in Instances \ {i} : call'[j] = call[j]
  BY <1>1 DEF Guarded, IInv, Shapes
<1>5. Handles(i, arrived)' /\ Others(i)
  BY <1>1, <1>2, <1>3, <1>4 DEF Handles, Others
<1>6. wrapping' \in [Instances -> {Idle} \cup InWrapper] /\ wrapping'[i] = Idle
  BY <1>1 DEF OnRecordInv, OneCallEach, Free
<1>. QED  BY <1>1, <1>2, <1>4, <1>5, <1>6, ArrivalAccounts

\* An error of the SDK, or of load_access_token, reaches the wrapper.
LEMMA ErrorAccounts ==
  ASSUME Guarded, OnRecordInv, NEW i \in Instances, NEW t \in Tokens, NEW q \in Requests,
         Reject(i, t, q) \/ LoadFails(i, t, q)
  PROVE  OnRecordInv'
<1>1. /\ call' = call /\ arrived' = arrived + 1 /\ audit' = audit
      /\ Raised(i, arrived', t, q, {}) /\ unrecorded' = unrecorded /\ Free(i)
  BY DEF Reject, LoadFails, Counted, ArriveFault
<1>2. arrived' \in Nat /\ OneCallEach
  BY <1>1, CountedInNat DEF OnRecordInv
<1> PICK id : id = arrived'
  OBVIOUS
<1>3. /\ wrapping' \in [Instances -> {Idle} \cup InWrapper]
      /\ wrapping'[i] # Idle /\ wrapping'[i].id = id
      /\ \A j \in Instances \ {i} : wrapping'[j] = wrapping[j]
  BY <1>1, <1>2, RaisedHolds
<1>4. Handles(i, arrived)' /\ Others(i)
  BY <1>1, <1>3 DEF Handles, Others
<1>5. call'[i] = Idle /\ call'[i].pc # "reply"
  BY <1>1 DEF Free, Idle
<1>. QED  BY <1>1, <1>3, <1>4, <1>5, ArrivalAccounts

LEMMA NoAccessAccounts ==
  ASSUME Guarded, OnRecordInv, NEW i \in Instances, NoAccess(i)
  PROVE  OnRecordInv'
<1>1. /\ call' = call /\ wrapping' = wrapping /\ arrived' = arrived + 1 /\ audit' = audit
      /\ unrecorded \subseteq unrecorded' /\ arrived' \in unrecorded' /\ Free(i)
  BY DEF NoAccess, Counted
<1>2. Others(i) /\ call'[i] = Idle /\ call'[i].pc # "reply"
  BY <1>1 DEF Others, Free, Idle
<1>3. wrapping' \in [Instances -> {Idle} \cup InWrapper]
  BY <1>1 DEF OnRecordInv, OneCallEach
<1>. QED  BY <1>1, <1>2, <1>3, ArrivalAccounts

\* Where no call comes in.
LEMMA WorkAccounts ==
  ASSUME Guarded, OnRecordInv, NEW i \in Instances, Others(i), RecordGrows,
         unrecorded \subseteq unrecorded', arrived' = arrived,
         wrapping' \in [Instances -> {Idle} \cup InWrapper],
         wrapping'[i] # Idle => call'[i] = Idle,
         call'[i].pc = "reply" => OnRecord(call[i].id)',
         \A id : Handles(i, id) => Handles(i, id)' \/ id \in unrecorded' \/ OnRecord(id)'
  PROVE  OnRecordInv'
<1>1. arrived \in Nat
  BY CountedInNat
<1>. QED  BY <1>1, StepAccounts

LEMMA GuardAccounts ==
  ASSUME Guarded, OnRecordInv, NEW i \in Instances, Guard(i)
  PROVE  OnRecordInv'
<1>1. Run(i) /\ wrapping' = wrapping /\ unrecorded' = unrecorded /\ Shapes
  BY DEF Guard, Guarded, IInv
<1>2. /\ call[i] \in InService /\ call[i] # Idle /\ arrived' = arrived
      /\ AppendAudit(i) \/ audit' = audit
  BY <1>1, RunMoves
<1>3. PICK pc, decision : pc \in Stages /\ StaysAt(i, pc, decision) /\ (pc = "reply" => AppendAudit(i))
  BY <1>1, RunMoves DEF CameTo
<1>4. call'[i].pc \in Stages /\ call'[i].id = call[i].id
  BY <1>3 DEF StaysAt
<1>5. call'[i] # Idle
  <2>1. Idle.pc = "idle" /\ "idle" \notin Stages
    BY DEF Idle, Stages
  <2>. QED  BY <1>4, <2>1
<1>6. /\ Others(i) /\ wrapping[i] = Idle
      /\ wrapping' \in [Instances -> {Idle} \cup InWrapper]
  BY <1>1, <1>2, <1>3 DEF Others, StaysAt, OnRecordInv, OneCallEach
<1>7. RecordGrows /\ (AppendAudit(i) => OnRecord(call[i].id)')
  <2>1. CASE AppendAudit(i)
    <3> PICK row : row = Event(call[i])
      OBVIOUS
    <3>1. audit' = Append(audit, row)
      BY <2>1 DEF AppendAudit
    <3>2. row.id = call[i].id
      BY DEF Event
    <3>3. RecordGrows /\ OnRecord(row.id)'
      BY <3>1, RowRecorded DEF Guarded
    <3>. QED  BY <1>4, <3>2, <3>3 DEF OnRecord
  <2>2. CASE audit' = audit /\ ~AppendAudit(i)
    BY <2>2, RowsUnchanged
  <2>. QED  BY <1>2, <2>1, <2>2
<1>8. \A id : Handles(i, id) => Handles(i, id)'
  BY <1>4, <1>5, <1>6 DEF Handles
<1>9. call'[i].pc = "reply" => OnRecord(call[i].id)'
  BY <1>3, <1>7 DEF StaysAt
<1>. QED  BY <1>1, <1>2, <1>6, <1>7, <1>8, <1>9, WorkAccounts

\* The answer goes out, and its event is in.
LEMMA ReturnAccounts ==
  ASSUME Guarded, OnRecordInv, NEW i \in Instances, Return(i)
  PROVE  OnRecordInv'
<1>1. /\ call[i].pc = "reply" /\ call' = [call EXCEPT ![i] = Idle]
      /\ wrapping' = wrapping /\ unrecorded' = unrecorded
      /\ arrived' = arrived /\ audit' = audit
  BY DEF Return, Reply
<1>2. /\ call'[i] = Idle /\ call'[i].pc # "reply"
      /\ \A j \in Instances \ {i} : call'[j] = call[j]
  BY <1>1, CallLeft DEF Guarded, IInv
<1>3. RecordGrows /\ OnRecord(call[i].id)
  BY <1>1, RowsUnchanged DEF OnRecordInv, ReplyRecorded
<1>4. Others(i) /\ wrapping' \in [Instances -> {Idle} \cup InWrapper]
  BY <1>1, <1>2 DEF Others, OnRecordInv, OneCallEach
<1>5. \A id : Handles(i, id) => Handles(i, id)' \/ OnRecord(id)'
  BY <1>1, <1>3 DEF Handles, RecordGrows
<1>. QED  BY <1>1, <1>2, <1>3, <1>4, <1>5, WorkAccounts

LEMMA GuardRaisesAccounts ==
  ASSUME Guarded, OnRecordInv, NEW i \in Instances, GuardRaises(i)
  PROVE  OnRecordInv'
<1>1. /\ call[i].pc \in {"tail", "append", "reply"} /\ call' = [call EXCEPT ![i] = Idle]
      /\ unrecorded' = unrecorded /\ arrived' = arrived /\ audit' = audit
      /\ Raised(i, call[i].id, call[i].token, call[i].req, call[i].tickets)
  BY DEF GuardRaises, RecordFault
<1>2. /\ call'[i] = Idle /\ call'[i].pc # "reply"
      /\ \A j \in Instances \ {i} : call'[j] = call[j]
  BY <1>1, CallLeft DEF Guarded, IInv
<1>3. call[i] \in InService /\ call[i] # Idle
  BY <1>1, Running DEF Guarded, Stages, Pcs
<1>4. /\ call[i].id \in Nat /\ call[i].token \in Tokens /\ call[i].req \in Requests
      /\ call[i].tickets \in SUBSET Nat
  BY <1>3 DEF InService
<1>5. /\ wrapping' \in [Instances -> {Idle} \cup InWrapper]
      /\ wrapping'[i] # Idle /\ wrapping'[i].id = call[i].id
      /\ \A j \in Instances \ {i} : wrapping'[j] = wrapping[j]
  BY <1>1, <1>4, RaisedHolds DEF OnRecordInv
<1>6. wrapping[i] = Idle
  BY <1>3 DEF OnRecordInv, OneCallEach
<1>7. Others(i) /\ RecordGrows
  BY <1>1, <1>2, <1>5, RowsUnchanged DEF Others
<1>8. \A id : Handles(i, id) => Handles(i, id)'
  BY <1>5, <1>6 DEF Handles
<1>. QED  BY <1>1, <1>2, <1>5, <1>7, <1>8, WorkAccounts

\* A process in the wrapper has left the pipeline.
LEMMA InWrapperOnly ==
  ASSUME OnRecordInv, NEW i \in Instances, wrapping[i] # Idle, call' = call
  PROVE  /\ call[i] = Idle /\ call'[i].pc # "reply"
         /\ \A id : Handles(i, id) <=> wrapping[i].id = id
  BY DEF OnRecordInv, OneCallEach, Handles, Idle

LEMMA WrapTailAccounts ==
  ASSUME Guarded, OnRecordInv, NEW i \in Instances, WrapTail(i)
  PROVE  OnRecordInv'
<1>1. /\ call' = call /\ unrecorded' = unrecorded /\ arrived' = arrived /\ audit' = audit
      /\ wrapping[i] # Idle
  BY DEF WrapTail, vars, Idle
<1>2. /\ wrapping' \in [Instances -> {Idle} \cup InWrapper]
      /\ wrapping'[i] # Idle /\ wrapping'[i].id = wrapping[i].id
      /\ \A j \in Instances \ {i} : wrapping'[j] = wrapping[j]
  BY WrapTailHolds DEF Guarded, OnRecordInv
<1>3. call[i] = Idle /\ call'[i].pc # "reply" /\ \A id : Handles(i, id) => Handles(i, id)'
  BY <1>1, <1>2, InWrapperOnly DEF Handles
<1>4. Others(i) /\ RecordGrows
  BY <1>1, <1>2, RowsUnchanged DEF Others
<1>. QED  BY <1>1, <1>2, <1>3, <1>4, WorkAccounts

\* The wrapper is left, and its call is on record or given up.
LEMMA WrapperEndAccounts ==
  ASSUME Guarded, OnRecordInv, NEW i \in Instances, wrapping[i] # Idle,
         wrapping' = [wrapping EXCEPT ![i] = Idle], call' = call, arrived' = arrived,
         unrecorded \subseteq unrecorded', RecordGrows,
         wrapping[i].id \in unrecorded' \/ \E k \in DOMAIN audit' : audit'[k].id = wrapping[i].id
  PROVE  OnRecordInv'
<1>1. /\ wrapping' \in [Instances -> {Idle} \cup InWrapper]
      /\ wrapping'[i] = Idle
      /\ \A j \in Instances \ {i} : wrapping'[j] = wrapping[j]
  BY WrapperLeft DEF OnRecordInv
<1>2. /\ call'[i].pc # "reply"
      /\ \A id : Handles(i, id) => id \in unrecorded' \/ OnRecord(id)'
  BY InWrapperOnly DEF OnRecord
<1>3. Others(i)
  BY <1>1 DEF Others
<1>. QED  BY <1>1, <1>2, <1>3, WorkAccounts

LEMMA WrapAppendAccounts ==
  ASSUME Guarded, OnRecordInv, NEW i \in Instances, WrapAppend(i)
  PROVE  OnRecordInv'
<1> PICK row : row = WrapEvent(i)
  OBVIOUS
<1>1. /\ call' = call /\ arrived' = arrived /\ unrecorded' = unrecorded
      /\ audit' = Append(audit, row) /\ wrapping[i] # Idle
      /\ wrapping' = [wrapping EXCEPT ![i] = Idle]
  BY DEF WrapAppend, Idle
<1>2. row.id = wrapping[i].id
  BY DEF WrapEvent
<1>3. RecordGrows /\ OnRecord(row.id)'
  BY <1>1, RowRecorded DEF Guarded
<1>4. \E k \in DOMAIN audit' : audit'[k].id = wrapping[i].id
  BY <1>2, <1>3 DEF OnRecord
<1>. QED  BY <1>1, <1>3, <1>4, WrapperEndAccounts

LEMMA DieAccounts ==
  ASSUME Guarded, OnRecordInv, NEW i \in Instances, Die(i)
  PROVE  OnRecordInv'
<1>1. CASE Crash(i) /\ unrecorded' = unrecorded \cup {call[i].id} /\ UNCHANGED wrapping
  <2>1. /\ call[i] # Idle /\ call' = [call EXCEPT ![i] = Idle]
        /\ arrived' = arrived /\ audit' = audit
    BY <1>1 DEF Crash
  <2>2. /\ call'[i] = Idle /\ call'[i].pc # "reply"
        /\ \A j \in Instances \ {i} : call'[j] = call[j]
    BY <2>1, CallLeft DEF Guarded, IInv
  <2>3. /\ Others(i) /\ wrapping' \in [Instances -> {Idle} \cup InWrapper]
        /\ wrapping[i] = Idle
    BY <1>1, <2>1, <2>2 DEF Others, OnRecordInv, OneCallEach
  <2>4. \A id : Handles(i, id) => id \in unrecorded'
    BY <1>1, <2>3 DEF Handles
  <2>. QED  BY <1>1, <2>1, <2>2, <2>3, <2>4, RowsUnchanged, WorkAccounts
<1>2. CASE wrapping[i] # Idle /\ wrapping' = [wrapping EXCEPT ![i] = Idle]
           /\ unrecorded' = unrecorded \cup {wrapping[i].id}
           /\ UNCHANGED <<call, arrived, audit>>
  BY <1>2, RowsUnchanged, WrapperEndAccounts
<1>. QED  BY <1>1, <1>2 DEF Die

LEMMA StepOnRecord ==
  ASSUME Guarded, OnRecordInv, NEW i \in Instances, ServerStep(i)
  PROVE  OnRecordInv'
<1>1. CASE \E t \in Tokens, q \in Requests : Dispatch(i, t, q)
  BY <1>1, DispatchAccounts
<1>2. CASE \E t \in Tokens, q \in Requests : Reject(i, t, q) \/ LoadFails(i, t, q)
  BY <1>2, ErrorAccounts
<1>3. CASE NoAccess(i)
  BY <1>3, NoAccessAccounts
<1>4. CASE Guard(i)
  BY <1>4, GuardAccounts
<1>5. CASE Return(i)
  BY <1>5, ReturnAccounts
<1>6. CASE GuardRaises(i)
  BY <1>6, GuardRaisesAccounts
<1>7. CASE WrapTail(i)
  BY <1>7, WrapTailAccounts
<1>8. CASE WrapAppend(i)
  BY <1>8, WrapAppendAccounts
<1>9. CASE WrapFault(i)
  BY <1>9, RowsUnchanged, WrapperEndAccounts DEF WrapFault, vars
<1>10. CASE Die(i)
  BY <1>10, DieAccounts
<1>11. CASE RevokeToken(i)
  BY <1>11 DEF RevokeToken, Revoke, OnRecordInv, OneCallEach, ReplyRecorded, Accounted,
               Handles, OnRecord
<1>. QED
  BY <1>1, <1>2, <1>3, <1>4, <1>5, <1>6, <1>7, <1>8, <1>9, <1>10, <1>11 DEF ServerStep

LEMMA OnRecordInductive ==
  Guarded /\ OnRecordInv /\ [ServerNext]_serverVars => OnRecordInv'
<1> SUFFICES ASSUME Guarded, OnRecordInv, [ServerNext]_serverVars PROVE OnRecordInv'
  OBVIOUS
<1>1. CASE ServerNext
  BY <1>1, StepOnRecord DEF ServerNext
<1>2. CASE UNCHANGED serverVars
  BY <1>2 DEF serverVars, vars, OnRecordInv, OneCallEach, ReplyRecorded, Accounted,
              Handles, OnRecord
<1>. QED  BY <1>1, <1>2

LEMMA InitOnRecord == ServerInit => OnRecordInv
  BY DEF ServerInit, Init, OnRecordInv, OneCallEach, ReplyRecorded, Accounted, Idle

LEMMA OnRecordInvariance == ServerSpec => []OnRecordInv
  BY GuardedInvariance, InitOnRecord, OnRecordInductive, PTL DEF ServerSpec

LEMMA AccountedMeansRecorded == OnRecordInv => EveryCallOnRecord
  BY DEF OnRecordInv, Accounted, EveryCallOnRecord, Handles, OnRecord, InProgress, Wrapped

-----------------------------------------------------------------------------
(***************************************************************************)
(* Revocation: the wrapper records denials only, and writes no ticket.     *)
(***************************************************************************)
LEMMA ServerStepBacked ==
  ASSUME Guarded, RevokedInv, NEW i \in Instances, ServerStep(i)
  PROVE  RevokedInv'
<1>0. Shapes /\ AuditRows /\ arrived \in Nat
  BY DEF Guarded, IInv, Shapes
<1>1. CASE Step(i)
  BY <1>0, <1>1, StepKeepsBacking
<1>2. CASE /\ UNCHANGED <<usable, revokedAt, writes, audit, call>>
           /\ arrived' \in {arrived, arrived + 1}
  BY <1>0, <1>2, NothingRevoked, EndBacked DEF RevokedInv
<1>3. CASE WrapAppend(i)
  <2> PICK row : row = WrapEvent(i)
    OBVIOUS
  <2>1. /\ UNCHANGED <<usable, revokedAt, writes, call, arrived>>
        /\ audit' = Append(audit, row)
    BY <1>3 DEF WrapAppend
  <2>2. row.decision = "deny"
    BY DEF WrapEvent
  <2>3. BackingKept /\ DOMAIN revokedAt' = Tokens
    BY <1>0, <2>1, NothingRevoked DEF RevokedInv
  <2>4. /\ Len(audit) \in Nat
        /\ DOMAIN audit = 1 .. Len(audit) /\ DOMAIN audit' = 1 .. Len(audit) + 1
        /\ \A k \in 1 .. Len(audit) : audit'[k] = audit[k]
        /\ audit'[Len(audit) + 1] = row
    BY <1>0, <2>1, RowsAfter
  <2>5. \A k \in DOMAIN audit' : \/ k \in DOMAIN audit /\ audit'[k] = audit[k]
                                 \/ RowBacked(audit[k])'
    BY <2>2, <2>4 DEF RowBacked
  <2>6. call'[i] # Idle => Vouched(call[i])'
    BY <2>1 DEF RevokedInv, Vouched, Backed
  <2>. QED  BY <1>0, <2>1, <2>3, <2>5, <2>6, StepBacked
<1>. QED
  BY <1>1, <1>2, <1>3
  DEF ServerStep, Dispatch, Reject, LoadFails, NoAccess, Guard, Return, GuardRaises, Counted,
      WrapTail, WrapFault, Die, RevokeToken, Step, vars, ArriveFault

LEMMA ServerBacked == Guarded /\ RevokedInv /\ [ServerNext]_serverVars => RevokedInv'
<1> SUFFICES ASSUME Guarded, RevokedInv, [ServerNext]_serverVars PROVE RevokedInv'
  OBVIOUS
<1>1. CASE ServerNext
  BY <1>1, ServerStepBacked DEF ServerNext
<1>2. CASE UNCHANGED serverVars
  BY <1>2 DEF serverVars, vars, RevokedInv, Vouched, Backed, RowBacked
<1>. QED  BY <1>1, <1>2

LEMMA RevokedInvariance == ServerSpec => []RevokedInv
<1>1. ServerInit => RevokedInv
  BY StartBacked DEF ServerInit
<1>. QED  BY <1>1, GuardedInvariance, ServerBacked, PTL DEF ServerSpec

-----------------------------------------------------------------------------
(***************************************************************************)
(* The shapes of the wrapper's variables: what it records is a call that   *)
(* came in, the row it has read as the tail is still there, and so are the *)
(* tickets the call had held.                                              *)
(***************************************************************************)
RecordFits(w) ==
  /\ w.id \in 1 .. MaxCalls
  /\ w.tickets \subseteq DOMAIN tickets
  /\ w.tail \in 0 .. Len(audit)

WrapInv ==
  /\ Numbered
  /\ unrecorded \subseteq 1 .. MaxCalls
  /\ \A i \in Instances : wrapping[i] # Idle => RecordFits(wrapping[i])

LEMMA ServerNumbered ==
  ASSUME Guarded, Numbered, NEW i \in Instances, ServerStep(i)
  PROVE  Numbered'
<1>1. CASE Step(i)
  BY <1>1, NumberedStep DEF Guarded, IInv
<1>2. CASE /\ call' = call
           /\ arrived' = arrived \/ (arrived < MaxCalls /\ arrived' = arrived + 1)
  <2>1. arrived' \in 0 .. MaxCalls
    BY <1>2, GatewayAssumption DEF Numbered
  <2>. QED  BY <1>2, <2>1 DEF Numbered
<1>. QED
  BY <1>1, <1>2
  DEF ServerStep, Dispatch, Reject, LoadFails, NoAccess, Guard, Return, GuardRaises, Counted,
      WrapTail, WrapAppend, WrapFault, Die, RevokeToken, Step, vars, ArriveFault

LEMMA ServerLengthGrows ==
  ASSUME Guarded, NEW i \in Instances, ServerStep(i)
  PROVE  Len(audit) \in Nat /\ Len(audit') \in Nat /\ Len(audit) <= Len(audit')
<1>1. CASE Step(i)
  BY <1>1, LengthGrows DEF Guarded
<1>2. Len(audit) \in Nat
  <2> PICK S : audit \in Seq(S)
    BY DEF Guarded, AuditRows
  <2>. QED  BY LenProperties
<1>3. CASE audit' = audit
  BY <1>2, <1>3
<1>4. CASE WrapAppend(i)
  <2> PICK row : row = WrapEvent(i)
    OBVIOUS
  <2>1. audit' = Append(audit, row)
    BY <1>4 DEF WrapAppend
  <2>2. DOMAIN audit' = 1 .. Len(audit) + 1
    BY <2>1, RowsAfter DEF Guarded
  <2>3. Len(audit') \in Nat /\ DOMAIN audit' = 1 .. Len(audit')
    <3>1. AuditRows'
      BY GuardedStep DEF Guarded
    <3> PICK S : audit' \in Seq(S)
      BY <3>1 DEF AuditRows
    <3>. QED  BY LenProperties
  <2>4. Len(audit) + 1 \in 1 .. Len(audit')
    BY <1>2, <2>2, <2>3
  <2>. QED  BY <1>2, <2>3, <2>4
<1>. QED
  BY <1>1, <1>3, <1>4
  DEF ServerStep, Dispatch, Reject, LoadFails, NoAccess, Guard, Return, GuardRaises, Counted,
      WrapTail, WrapFault, Die, RevokeToken, Step, vars, ArriveFault

\* No ticket is ever deleted.
LEMMA TicketsGrow ==
  ASSUME Guarded, NEW i \in Instances, ServerStep(i)
  PROVE  DOMAIN tickets \subseteq DOMAIN tickets'
<1>1. CASE CreateTicket(i)
  <2> PICK t : t = [team |-> call[i].req.team, status |-> "open"]
    OBVIOUS
  <2>1. tickets' = Append(tickets, t)
    BY <1>1 DEF CreateTicket
  <2>2. tickets \in Seq(Ticket)
    BY DEF Guarded, IInv, Shapes
  <2>3. tickets \in Seq(Ticket \cup {t}) /\ t \in Ticket \cup {t}
    BY <2>2
  <2>. QED  BY <2>1, <2>3
<1>2. CASE UpdateStatus(i)
  BY <1>2 DEF UpdateStatus
<1>3. CASE tickets' = tickets
  BY <1>3
<1>. QED
  BY <1>1, <1>2, <1>3
  DEF ServerStep, Dispatch, Reject, LoadFails, NoAccess, Guard, Return, GuardRaises, Counted,
      WrapTail, WrapAppend, WrapFault, Die, RevokeToken, Run, Arrive, Tag, RejectToken, Throttle,
      Check, ListTickets, AuditRecent, GetTicket, RefuseTeam, CheckVisible, ReadBack, ReadTail,
      AppendAudit, Reply, ArriveFault, TagFault, DispatchFault, RecordFault, Crash, Revoke, vars

\* Whose record is given up had come in.
LEMMA UnrecordedStep ==
  ASSUME WrapInv, NEW i \in Instances, ServerStep(i)
  PROVE  unrecorded' \subseteq 1 .. MaxCalls
<1>1. CASE NoAccess(i)
  <2>1. arrived' \in 1 .. MaxCalls /\ unrecorded' = unrecorded \cup {arrived'}
    BY <1>1, GatewayAssumption DEF NoAccess, Counted, WrapInv, Numbered
  <2>. QED  BY <2>1 DEF WrapInv
<1>2. CASE call[i] # Idle /\ unrecorded' = unrecorded \cup {call[i].id}
  BY <1>2 DEF WrapInv, Numbered
<1>3. CASE wrapping[i] # Idle /\ unrecorded' = unrecorded \cup {wrapping[i].id}
  BY <1>3 DEF WrapInv, RecordFits
<1>4. CASE unrecorded' = unrecorded
  BY <1>4 DEF WrapInv
<1>. QED
  BY <1>1, <1>2, <1>3, <1>4
  DEF ServerStep, Dispatch, Reject, LoadFails, Guard, Return, GuardRaises,
      WrapTail, WrapAppend, WrapFault, Die, Crash, RevokeToken

\* What the wrapper takes up is a call that came in.
LEMMA RaisedFits ==
  ASSUME OneCallEach, NEW i \in Instances, NEW id \in 1 .. MaxCalls, NEW t, NEW q,
         NEW held, held \subseteq DOMAIN tickets', Raised(i, id, t, q, held),
         NEW n \in Nat, n = Len(audit')
  PROVE  /\ RecordFits(wrapping[i])'
         /\ \A j \in Instances \ {i} : wrapping'[j] = wrapping[j]
<1> PICK w : w = [pc |-> "tail", id |-> id, token |-> t, req |-> q, tickets |-> held, tail |-> 0]
  OBVIOUS
<1>1. wrapping' = [wrapping EXCEPT ![i] = w] /\ DOMAIN wrapping = Instances
  BY DEF Raised, OneCallEach
<1>2. wrapping'[i] = w /\ w.id = id /\ w.tickets = held /\ w.tail = 0
  BY <1>1
<1>3. \A j \in Instances \ {i} : wrapping'[j] = wrapping[j]
  BY <1>1
<1>. QED  BY <1>2, <1>3 DEF RecordFits

LEMMA WrappingFits ==
  ASSUME Guarded, OneCallEach, WrapInv, NEW i \in Instances, ServerStep(i)
  PROVE  \A j \in Instances : wrapping'[j] # Idle => RecordFits(wrapping[j])'
<1>1. Len(audit) \in Nat /\ Len(audit') \in Nat /\ Len(audit) <= Len(audit')
  BY ServerLengthGrows
<1>2. 0 .. Len(audit) \subseteq 0 .. Len(audit') /\ DOMAIN tickets \subseteq DOMAIN tickets'
  BY <1>1, TicketsGrow
<1>3. ASSUME NEW j \in Instances, wrapping'[j] \in {wrapping[j], Idle}
      PROVE  wrapping'[j] # Idle => RecordFits(wrapping[j])'
  BY <1>2, <1>3 DEF WrapInv, RecordFits
<1>4. ASSUME NEW id \in 1 .. MaxCalls, NEW t, NEW q, NEW held, held \subseteq DOMAIN tickets',
             Raised(i, id, t, q, held)
      PROVE  \A j \in Instances : wrapping'[j] # Idle => RecordFits(wrapping[j])'
  <2> PICK n \in Nat : n = Len(audit')
    BY <1>1
  <2>1. RecordFits(wrapping[i])' /\ \A j \in Instances \ {i} : wrapping'[j] = wrapping[j]
    BY <1>4, RaisedFits
  <2>. QED  BY <1>3, <2>1
<1>5. CASE \E t \in Tokens, q \in Requests : Reject(i, t, q) \/ LoadFails(i, t, q)
  <2>1. PICK t \in Tokens, q \in Requests : Reject(i, t, q) \/ LoadFails(i, t, q)
    BY <1>5
  <2>2. arrived' \in 1 .. MaxCalls
    BY <2>1, GatewayAssumption DEF Reject, LoadFails, Counted, ArriveFault, WrapInv, Numbered
  <2>3. Raised(i, arrived', t, q, {})
    BY <2>1 DEF Reject, LoadFails
  <2>. QED  BY <1>4, <2>2, <2>3
<1>6. CASE GuardRaises(i)
  <2>1. call[i] # Idle
    <3>1. Idle.pc = "idle"
      BY DEF Idle
    <3>. QED  BY <1>6, <3>1 DEF GuardRaises, RecordFault
  <2>2. /\ call[i].id \in 1 .. MaxCalls
        /\ Raised(i, call[i].id, call[i].token, call[i].req, call[i].tickets)
    BY <1>6, <2>1 DEF GuardRaises, WrapInv, Numbered
  <2>3. call[i].tickets \subseteq DOMAIN tickets
    BY <2>1 DEF Guarded, IInv, CallsCleared, Cleared, InScope, Exists
  <2>. QED  BY <1>2, <1>4, <2>2, <2>3
<1>7. CASE WrapTail(i)
  <2> PICK w : w = wrapping[i]
    OBVIOUS
  <2> PICK n : n = Len(audit)
    OBVIOUS
  <2> PICK x : x = [w EXCEPT !.pc = "append", !.tail = n]
    OBVIOUS
  <2>1. w \in InWrapper /\ w.id \in 1 .. MaxCalls /\ w.tickets \subseteq DOMAIN tickets' /\ n \in Nat
    <3>1. Idle.pc = "idle"
      BY DEF Idle
    <3>. QED  BY <1>1, <1>2, <1>7, <3>1 DEF WrapTail, OneCallEach, WrapInv, RecordFits
  <2>2. x.id = w.id /\ x.tickets = w.tickets /\ x.tail = n
    BY <2>1 DEF InWrapper
  <2>3. wrapping' = [wrapping EXCEPT ![i] = x] /\ audit' = audit
    BY <1>7 DEF WrapTail, vars
  <2>4. wrapping'[i] = x /\ \A j \in Instances \ {i} : wrapping'[j] = wrapping[j]
    BY <2>3 DEF OneCallEach
  <2>5. RecordFits(wrapping[i])'
    <3>1. n \in 0 .. n /\ Len(audit') = n
      BY <2>1, <2>3
    <3>2. /\ wrapping'[i].id \in 1 .. MaxCalls /\ wrapping'[i].tail = n
          /\ wrapping'[i].tickets \subseteq DOMAIN tickets'
      BY <2>1, <2>2, <2>4
    <3>. QED  BY <3>1, <3>2 DEF RecordFits
  <2>. QED  BY <1>3, <2>4, <2>5
<1>8. CASE wrapping' = wrapping \/ wrapping' = [wrapping EXCEPT ![i] = Idle]
  <2>1. \A j \in Instances : wrapping'[j] \in {wrapping[j], Idle}
    BY <1>8 DEF OneCallEach
  <2>. QED  BY <1>3, <2>1
<1>. QED
  BY <1>5, <1>6, <1>7, <1>8
  DEF ServerStep, Dispatch, NoAccess, Guard, Return, WrapAppend, WrapFault, Die, RevokeToken

LEMMA WrapInductive ==
  Guarded /\ OneCallEach /\ WrapInv /\ [ServerNext]_serverVars => WrapInv'
<1> SUFFICES ASSUME Guarded, OneCallEach, WrapInv, [ServerNext]_serverVars PROVE WrapInv'
  OBVIOUS
<1>1. CASE ServerNext
  BY <1>1, ServerNumbered, UnrecordedStep, WrappingFits DEF ServerNext, WrapInv
<1>2. CASE UNCHANGED serverVars
  BY <1>2 DEF serverVars, vars, WrapInv, Numbered, RecordFits
<1>. QED  BY <1>1, <1>2

LEMMA StartWrapped == ServerInit => WrapInv
  BY StartTyped DEF ServerInit, TypeInv, WrapInv

LEMMA WrapsHold == Guarded /\ OneCallEach /\ WrapInv => ServerTypeOK
<1> SUFFICES ASSUME Guarded, OneCallEach, WrapInv PROVE ServerTypeOK
  OBVIOUS
<1>0. DOMAIN tickets = 1 .. Len(tickets)
  BY TicketTyped DEF Guarded, IInv, Shapes
<1>1. ASSUME NEW i \in Instances, wrapping[i] # Idle PROVE wrapping[i] \in Wraps
  BY <1>0, <1>1 DEF OneCallEach, WrapInv, RecordFits, InWrapper, Wraps
<1>. QED  BY <1>1 DEF OneCallEach, WrapInv, ServerTypeOK

-----------------------------------------------------------------------------
(***************************************************************************)
(* Single evidence: a call in hand is in one process only, and has no      *)
(* event before its answer is due.  The hypothesis is that the SELECT      *)
(* after a committed event does not fail (store.py:214).                   *)
(***************************************************************************)
Awaits(i, id) ==
  \/ call[i] # Idle /\ call[i].pc # "reply" /\ call[i].id = id
  \/ wrapping[i] # Idle /\ wrapping[i].id = id

Says(id, decision) ==
  \E k \in DOMAIN audit : audit[k].id = id /\ audit[k].decision = decision

OnceInv ==
  /\ \A k \in DOMAIN audit : audit[k].id \in 0 .. arrived
  /\ \A j, k \in DOMAIN audit : audit[j].id = audit[k].id => j = k
  /\ \A i \in Instances : \A id : Handles(i, id) => id \in 0 .. arrived
  /\ \A i, j \in Instances : \A id : Handles(i, id) /\ Handles(j, id) => i = j
  /\ \A i \in Instances : \A id : Awaits(i, id) => ~OnRecord(id)
  /\ \A i \in Instances : call[i].pc = "reply" => Says(call[i].id, call[i].decision)
  /\ \A a \in answers : Says(a.id, a.decision)

New(id) == arrived' = arrived + 1 /\ id = arrived'

\* The table as it was, or with the event of a call process i has in hand.
RowsFor(i) ==
  \/ audit' = audit
  \/ \E row : Awaits(i, row.id) /\ audit' = Append(audit, row)

LEMMA RowsForKeeps ==
  ASSUME AuditRows, OnceInv, NEW i \in Instances, RowsFor(i)
  PROVE  /\ \A id, d : Says(id, d) => Says(id, d)'
         /\ \A j, k \in DOMAIN audit' : audit'[j].id = audit'[k].id => j = k
         /\ \A id : OnRecord(id)' => OnRecord(id) \/ (Awaits(i, id) /\ audit' # audit)
         /\ \A k \in DOMAIN audit' : audit'[k].id \in 0 .. arrived
<1>1. CASE audit' = audit
  BY <1>1 DEF OnceInv, Says, OnRecord
<1>2. CASE audit' # audit
  <2>1. PICK row : Awaits(i, row.id) /\ audit' = Append(audit, row)
    BY <1>2 DEF RowsFor
  <2>2. /\ Len(audit) \in Nat
        /\ DOMAIN audit = 1 .. Len(audit) /\ DOMAIN audit' = 1 .. Len(audit) + 1
        /\ \A k \in 1 .. Len(audit) : audit'[k] = audit[k]
        /\ audit'[Len(audit) + 1] = row
    BY <2>1, RowsAfter
  <2>3. ~OnRecord(row.id) /\ row.id \in 0 .. arrived
    BY <2>1 DEF OnceInv, Awaits, Handles
  <2>4. \A id, d : Says(id, d) => Says(id, d)'
    BY <2>2 DEF Says
  <2>5. \A k \in 1 .. Len(audit) : audit'[k].id # row.id
    BY <2>2, <2>3 DEF OnRecord
  <2>6. \A j, k \in DOMAIN audit' : audit'[j].id = audit'[k].id => j = k
    <3> SUFFICES ASSUME NEW j \in DOMAIN audit', NEW k \in DOMAIN audit',
                        audit'[j].id = audit'[k].id
                 PROVE  j = k
      OBVIOUS
    <3>1. CASE j \in 1 .. Len(audit) /\ k \in 1 .. Len(audit)
      BY <2>2, <3>1 DEF OnceInv
    <3>2. CASE j = Len(audit) + 1 \/ k = Len(audit) + 1
      BY <2>2, <2>5, <3>2
    <3>. QED  BY <2>2, <3>1, <3>2
  <2>7. \A id : OnRecord(id)' => OnRecord(id) \/ Awaits(i, id)
    BY <2>1, <2>2 DEF OnRecord
  <2>8. \A k \in DOMAIN audit' : audit'[k].id \in 0 .. arrived
    BY <2>2, <2>3 DEF OnceInv
  <2>. QED  BY <1>2, <2>4, <2>6, <2>7, <2>8
<1>. QED  BY <1>1, <1>2

\* A step of process i may take a new call in hand, and keeps or drops its own.
LEMMA StepOnce ==
  ASSUME AuditRows, OnceInv, NEW i \in Instances, Others(i), RowsFor(i),
         arrived \in Nat, arrived' \in {arrived, arrived + 1},
         \A id : Handles(i, id)' => Handles(i, id) \/ New(id),
         \A id : Awaits(i, id)' => (Awaits(i, id) /\ audit' = audit) \/ New(id),
         call'[i].pc = "reply" => Says(call[i].id, call[i].decision)',
         \A a \in answers' \ answers : Says(a.id, a.decision)'
  PROVE  OnceInv'
<1>1. /\ \A id, d : Says(id, d) => Says(id, d)'
      /\ \A j, k \in DOMAIN audit' : audit'[j].id = audit'[k].id => j = k
      /\ \A id : OnRecord(id)' => OnRecord(id) \/ (Awaits(i, id) /\ audit' # audit)
      /\ \A k \in DOMAIN audit' : audit'[k].id \in 0 .. arrived
  BY RowsForKeeps
<1>2. 0 .. arrived \subseteq 0 .. arrived' /\ \A id : New(id) => id \in 0 .. arrived' /\ id \notin 0 .. arrived
  BY DEF New
<1>3. \A k \in DOMAIN audit' : audit'[k].id \in 0 .. arrived'
  BY <1>1, <1>2
<1>4. \A j \in Instances \ {i} : \A id : /\ Handles(j, id)' <=> Handles(j, id)
                                         /\ Awaits(j, id)' <=> Awaits(j, id)
  BY DEF Others, Handles, Awaits
<1>5. \A j \in Instances : \A id : Handles(j, id)' => id \in 0 .. arrived'
  BY <1>2, <1>4 DEF OnceInv
<1>6. ASSUME NEW j \in Instances, NEW k \in Instances, NEW id, Handles(j, id)', Handles(k, id)'
      PROVE  j = k
  <2>1. \A l \in Instances \ {i} : Handles(l, id)' => Handles(l, id) /\ id \in 0 .. arrived
    BY <1>4 DEF OnceInv
  <2>2. CASE j # i /\ k # i
    BY <1>6, <2>1, <2>2 DEF OnceInv
  <2>3. ASSUME NEW l \in Instances \ {i}, Handles(l, id)', Handles(i, id)' PROVE FALSE
    <3>1. Handles(l, id) /\ ~New(id)
      BY <1>2, <2>1, <2>3
    <3>2. Handles(i, id)
      BY <2>3, <3>1
    <3>. QED  BY <3>1, <3>2 DEF OnceInv
  <2>. QED  BY <1>6, <2>2, <2>3
<1>7. ASSUME NEW j \in Instances, NEW id, Awaits(j, id)' PROVE ~OnRecord(id)'
  <2>1. CASE j = i
    <3>1. CASE Awaits(i, id) /\ audit' = audit
      BY <1>1, <3>1 DEF OnceInv
    <3>2. CASE New(id)
      <4>1. \A k \in DOMAIN audit' : audit'[k].id # id
        BY <1>1, <1>2, <3>2
      <4>. QED  BY <4>1 DEF OnRecord
    <3>. QED  BY <1>7, <2>1, <3>1, <3>2
  <2>2. CASE j # i
    <3>1. Awaits(j, id) /\ ~OnRecord(id)
      BY <1>4, <1>7, <2>2 DEF OnceInv
    <3>2. Handles(j, id)
      BY <3>1 DEF Awaits, Handles
    <3>3. ~Awaits(i, id)
      BY <2>2, <3>2 DEF OnceInv, Awaits, Handles
    <3>. QED  BY <1>1, <3>1, <3>3
  <2>. QED  BY <2>1, <2>2
<1>8. ASSUME NEW j \in Instances, call'[j].pc = "reply" PROVE Says(call[j].id, call[j].decision)'
  <2>1. CASE j # i
    <3> PICK id, d : id = call[j].id /\ d = call[j].decision
      OBVIOUS
    <3>1. call'[j] = call[j]
      BY <2>1 DEF Others
    <3>2. Says(id, d)
      BY <1>8, <3>1 DEF OnceInv
    <3>3. Says(id, d)'
      BY <1>1, <3>2
    <3>. QED  BY <3>1, <3>3 DEF Says
  <2>. QED  BY <1>8, <2>1
<1>9. ASSUME NEW a \in answers' PROVE Says(a.id, a.decision)'
  BY <1>1, <1>9 DEF OnceInv
<1>. QED  BY <1>1, <1>3, <1>5, <1>6, <1>7, <1>8, <1>9 DEF OnceInv

\* Process i is done with the call it had in hand, if it had one.
LEMMA HandsEmpty ==
  ASSUME AuditRows, OnceInv, NEW i \in Instances, Others(i), RowsFor(i),
         call'[i] = Idle, wrapping'[i] = Idle,
         arrived \in Nat, arrived' \in {arrived, arrived + 1},
         \A a \in answers' \ answers : Says(a.id, a.decision)'
  PROVE  OnceInv'
<1>1. Idle.pc = "idle"
  BY DEF Idle
<1>2. \A id : ~Handles(i, id)' /\ ~Awaits(i, id)'
  BY DEF Handles, Awaits
<1>. QED  BY <1>1, <1>2, StepOnce

\* A call that comes in is in hand, in the pipeline or in the wrapper.
LEMMA DispatchOnce ==
  ASSUME Guarded, OnRecordInv, OnceInv, NEW i \in Instances,
         NEW t \in Tokens, NEW q \in Requests, Dispatch(i, t, q)
  PROVE  OnceInv'
<1> PICK c : c = [pc |-> "tag", id |-> arrived', token |-> t, req |-> q,
                  authentic |-> t \in usable, tag |-> NoTeam, blind |-> FALSE,
                  decision |-> "none", reason |-> "none",
                  tickets |-> {}, rows |-> {}, tail |-> 0]
  OBVIOUS
<1>1. /\ call' = [call EXCEPT ![i] = c] /\ arrived' = arrived + 1 /\ audit' = audit
      /\ wrapping' = wrapping /\ answers' = answers /\ Free(i)
  BY DEF Dispatch, Arrive
<1>2. c.id = arrived' /\ c.pc = "tag"
  OBVIOUS
<1>3. call'[i] = c /\ \A j \in Instances \ {i} : call'[j] = call[j]
  BY <1>1 DEF Guarded, IInv, Shapes
<1>4. Others(i) /\ RowsFor(i) /\ wrapping'[i] = Idle /\ arrived \in Nat /\ AuditRows
  BY <1>1, <1>3, CountedInNat DEF Others, RowsFor, Free, Guarded
<1>5. \A id : Handles(i, id)' \/ Awaits(i, id)' => New(id)
  BY <1>1, <1>2, <1>3, <1>4 DEF Handles, Awaits, New
<1>. QED  BY <1>1, <1>2, <1>3, <1>4, <1>5, StepOnce

LEMMA ErrorOnce ==
  ASSUME Guarded, OnRecordInv, OnceInv, NEW i \in Instances,
         NEW t \in Tokens, NEW q \in Requests, Reject(i, t, q) \/ LoadFails(i, t, q)
  PROVE  OnceInv'
<1>1. /\ call' = call /\ arrived' = arrived + 1 /\ audit' = audit /\ answers' = answers
      /\ Raised(i, arrived', t, q, {}) /\ Free(i)
  BY DEF Reject, LoadFails, Counted, ArriveFault
<1>2. arrived \in Nat /\ arrived' \in Nat /\ OneCallEach /\ AuditRows
  BY <1>1, CountedInNat DEF OnRecordInv, Guarded
<1> PICK id, held : id = arrived' /\ held = {}
  OBVIOUS
<1>3. /\ wrapping'[i].id = id
      /\ \A j \in Instances \ {i} : wrapping'[j] = wrapping[j]
  <2>1. Raised(i, id, t, q, held) /\ id \in Nat /\ held \in SUBSET Nat
    BY <1>1, <1>2
  <2>. QED  BY <1>2, <2>1, RaisedHolds
<1>4. Others(i) /\ RowsFor(i)
  BY <1>1, <1>3 DEF Others, RowsFor
<1>5. call'[i] = Idle /\ call'[i].pc # "reply"
  BY <1>1 DEF Free, Idle
<1>6. \A n : Handles(i, n)' \/ Awaits(i, n)' => New(n)
  BY <1>1, <1>3, <1>5 DEF Handles, Awaits, New
<1>. QED  BY <1>1, <1>2, <1>4, <1>5, <1>6, StepOnce

\* The guard records a call once, and its answer waits for that.
LEMMA GuardOnce ==
  ASSUME Guarded, OnRecordInv, OnceInv, NEW i \in Instances, Guard(i)
  PROVE  OnceInv'
<1>1. Run(i) /\ wrapping' = wrapping /\ Shapes /\ AuditRows
  BY DEF Guard, Guarded, IInv
<1>2. /\ call[i] \in InService /\ call[i] # Idle /\ arrived' = arrived
      /\ AppendAudit(i) \/ audit' = audit
  BY <1>1, RunMoves
<1>3. answers' = answers /\ call[i].pc # "reply"
  BY <1>1
  DEF Run, Tag, RejectToken, Throttle, Check, ListTickets, AuditRecent, GetTicket,
      CreateTicket, RefuseTeam, CheckVisible, UpdateStatus, ReadBack, ReadTail,
      AppendAudit, TagFault, DispatchFault
<1>4. wrapping[i] = Idle /\ wrapping'[i] = Idle /\ arrived \in Nat
  BY <1>1, <1>2, CountedInNat DEF OnRecordInv, OneCallEach
<1>5. CASE AppendAudit(i)
  <2>1. StaysAt(i, "reply", call[i].decision)
    BY <1>1, <1>2, <1>5, GotoStays DEF AppendAudit
  <2>2. Others(i)
    BY <1>1, <2>1 DEF Others, StaysAt
  <2> PICK row : row = Event(call[i])
    OBVIOUS
  <2>3. row.id = call[i].id /\ row.decision = call[i].decision
    BY DEF Event
  <2>4. audit' = Append(audit, row)
    BY <1>5 DEF AppendAudit
  <2>5. RowsFor(i)
    BY <1>2, <1>3, <2>3, <2>4 DEF RowsFor, Awaits
  <2>6. \A id : Handles(i, id)' => Handles(i, id)
    BY <1>2, <1>4, <2>1 DEF Handles, StaysAt
  <2>7. \A id : ~Awaits(i, id)'
    BY <1>4, <2>1 DEF Awaits, StaysAt
  <2>8. Len(audit) + 1 \in DOMAIN audit' /\ audit'[Len(audit) + 1] = row
    BY <1>1, <2>4, RowsAfter
  <2>9. Says(call[i].id, call[i].decision)'
    BY <2>1, <2>3, <2>8 DEF Says, StaysAt
  <2>. QED  BY <1>1, <1>2, <1>3, <1>4, <2>2, <2>5, <2>6, <2>7, <2>9, StepOnce
<1>6. CASE audit' = audit /\ ~AppendAudit(i)
  <2>1. PICK pc, decision : pc \in Stages /\ StaysAt(i, pc, decision) /\ pc # "reply"
    BY <1>1, <1>6, RunMoves DEF CameTo
  <2>2. Others(i) /\ RowsFor(i)
    BY <1>1, <1>6, <2>1 DEF Others, StaysAt, RowsFor
  <2>3. \A id : Handles(i, id)' => Handles(i, id)
    BY <1>2, <1>4, <2>1 DEF Handles, StaysAt
  <2>4. \A id : Awaits(i, id)' => Awaits(i, id)
    BY <1>2, <1>3, <1>4, <2>1 DEF Awaits, StaysAt
  <2>5. call'[i].pc # "reply"
    BY <2>1 DEF StaysAt
  <2>. QED  BY <1>1, <1>2, <1>3, <1>4, <1>6, <2>2, <2>3, <2>4, <2>5, StepOnce
<1>. QED  BY <1>2, <1>5, <1>6

LEMMA ReturnOnce ==
  ASSUME Guarded, OnRecordInv, OnceInv, NEW i \in Instances, Return(i)
  PROVE  OnceInv'
<1> PICK a : a = [id |-> call[i].id, decision |-> call[i].decision]
  OBVIOUS
<1>1. /\ call[i].pc = "reply" /\ call' = [call EXCEPT ![i] = Idle]
      /\ wrapping' = wrapping /\ arrived' = arrived /\ audit' = audit
      /\ answers' = answers \cup {a}
  BY DEF Return, Reply
<1>2. call'[i] = Idle /\ \A j \in Instances \ {i} : call'[j] = call[j]
  BY <1>1, CallLeft DEF Guarded, IInv
<1>3. wrapping'[i] = Idle
  <2>1. Idle.pc = "idle"
    BY DEF Idle
  <2>. QED  BY <1>1, <2>1 DEF OnRecordInv, OneCallEach
<1>4. Others(i) /\ RowsFor(i) /\ AuditRows /\ arrived \in Nat
  BY <1>1, <1>2, CountedInNat DEF Others, RowsFor, Guarded
<1>5. Says(a.id, a.decision)
  BY <1>1 DEF OnceInv
<1>6. Says(a.id, a.decision)'
  BY <1>1, <1>5 DEF Says
<1>. QED  BY <1>1, <1>2, <1>3, <1>4, <1>6, HandsEmpty

\* Only an event that is not in yet can fail to be written.
LEMMA GuardRaisesOnce ==
  ASSUME Guarded, OnRecordInv, OnceInv, NEW i \in Instances, GuardRaises(i),
         "reply" \notin Faulty
  PROVE  OnceInv'
<1>1. /\ call[i].pc \in {"tail", "append"} /\ call' = [call EXCEPT ![i] = Idle]
      /\ arrived' = arrived /\ audit' = audit /\ answers' = answers
      /\ Raised(i, call[i].id, call[i].token, call[i].req, call[i].tickets)
  BY DEF GuardRaises, RecordFault
<1>2. /\ call'[i] = Idle /\ call'[i].pc # "reply"
      /\ \A j \in Instances \ {i} : call'[j] = call[j]
  BY <1>1, CallLeft DEF Guarded, IInv
<1>3. call[i] \in InService /\ call[i] # Idle
  BY <1>1, Running DEF Guarded, Stages, Pcs
<1>4. /\ call[i].id \in Nat /\ call[i].token \in Tokens /\ call[i].req \in Requests
      /\ call[i].tickets \in SUBSET Nat
  BY <1>3 DEF InService
<1>5. /\ wrapping'[i].id = call[i].id
      /\ \A j \in Instances \ {i} : wrapping'[j] = wrapping[j]
  BY <1>1, <1>4, RaisedHolds DEF OnRecordInv
<1>6. Others(i) /\ RowsFor(i) /\ AuditRows /\ arrived \in Nat
  BY <1>1, <1>2, <1>5, CountedInNat DEF Others, RowsFor, Guarded
<1>7. \A id : Handles(i, id)' \/ Awaits(i, id)' => id = call[i].id
  BY <1>2, <1>5 DEF Handles, Awaits
<1>8. Handles(i, call[i].id) /\ Awaits(i, call[i].id)
  BY <1>1, <1>3 DEF Handles, Awaits
<1>. QED  BY <1>1, <1>2, <1>6, <1>7, <1>8, StepOnce

LEMMA WrapTailOnce ==
  ASSUME Guarded, OnRecordInv, OnceInv, NEW i \in Instances, WrapTail(i)
  PROVE  OnceInv'
<1>1. /\ call' = call /\ arrived' = arrived /\ audit' = audit /\ answers' = answers
      /\ wrapping[i].pc = "tail"
  BY DEF WrapTail, vars
<1>2. AuditRows /\ OneCallEach /\ arrived \in Nat
  BY CountedInNat DEF Guarded, OnRecordInv
<1>3. /\ wrapping'[i].id = wrapping[i].id
      /\ \A j \in Instances \ {i} : wrapping'[j] = wrapping[j]
  BY <1>2, WrapTailHolds
<1>4. wrapping[i] # Idle
  BY <1>1 DEF Idle
<1>5. call[i] = Idle /\ call'[i].pc # "reply"
  BY <1>1, <1>2, <1>4 DEF OneCallEach, Idle
<1>6. Others(i) /\ RowsFor(i)
  BY <1>1, <1>3 DEF Others, RowsFor
<1>7. \A id : Handles(i, id)' \/ Awaits(i, id)' => Handles(i, id) /\ Awaits(i, id)
  BY <1>1, <1>3, <1>4, <1>5 DEF Handles, Awaits
<1>. QED  BY <1>1, <1>2, <1>5, <1>6, <1>7, StepOnce

\* The wrapper is left with its event in, or given up.
LEMMA WrapperEndOnce ==
  ASSUME Guarded, OnRecordInv, OnceInv, NEW i \in Instances, wrapping[i] # Idle,
         wrapping' = [wrapping EXCEPT ![i] = Idle],
         UNCHANGED <<call, arrived, answers>>, RowsFor(i)
  PROVE  OnceInv'
<1>1. AuditRows /\ OneCallEach /\ arrived \in Nat
  BY CountedInNat DEF Guarded, OnRecordInv
<1>2. wrapping'[i] = Idle /\ \A j \in Instances \ {i} : wrapping'[j] = wrapping[j]
  BY <1>1, WrapperLeft
<1>3. Others(i) /\ call'[i] = Idle
  BY <1>1, <1>2 DEF Others, OneCallEach
<1>. QED  BY <1>1, <1>2, <1>3, HandsEmpty

LEMMA WrapAppendOnce ==
  ASSUME Guarded, OnRecordInv, OnceInv, NEW i \in Instances, WrapAppend(i)
  PROVE  OnceInv'
<1> PICK row : row = WrapEvent(i)
  OBVIOUS
<1>1. /\ UNCHANGED <<call, arrived, answers>> /\ audit' = Append(audit, row)
      /\ wrapping[i] # Idle /\ wrapping' = [wrapping EXCEPT ![i] = Idle]
  BY DEF WrapAppend, Idle
<1>2. row.id = wrapping[i].id
  BY DEF WrapEvent
<1>3. RowsFor(i)
  BY <1>1, <1>2 DEF RowsFor, Awaits
<1>. QED  BY <1>1, <1>3, WrapperEndOnce

LEMMA DieOnce ==
  ASSUME Guarded, OnRecordInv, OnceInv, NEW i \in Instances, Die(i)
  PROVE  OnceInv'
<1>1. CASE Crash(i) /\ UNCHANGED wrapping
  <2>1. /\ call[i] # Idle /\ call' = [call EXCEPT ![i] = Idle]
        /\ arrived' = arrived /\ audit' = audit /\ answers' = answers
    BY <1>1 DEF Crash
  <2>2. call'[i] = Idle /\ \A j \in Instances \ {i} : call'[j] = call[j]
    BY <2>1, CallLeft DEF Guarded, IInv
  <2>3. /\ Others(i) /\ RowsFor(i) /\ wrapping'[i] = Idle
        /\ AuditRows /\ arrived \in Nat
    BY <1>1, <2>1, <2>2, CountedInNat DEF Others, RowsFor, Guarded, OnRecordInv, OneCallEach
  <2>. QED  BY <2>1, <2>2, <2>3, HandsEmpty
<1>2. CASE wrapping[i] # Idle /\ wrapping' = [wrapping EXCEPT ![i] = Idle]
           /\ UNCHANGED <<call, arrived, answers, audit>>
  BY <1>2, WrapperEndOnce DEF RowsFor
<1>. QED  BY <1>1, <1>2 DEF Die

LEMMA NoAccessOnce ==
  ASSUME Guarded, OnRecordInv, OnceInv, NEW i \in Instances, NoAccess(i)
  PROVE  OnceInv'
<1>1. /\ UNCHANGED <<call, wrapping, answers, audit>> /\ arrived' = arrived + 1 /\ Free(i)
  BY DEF NoAccess, Counted
<1>2. Others(i) /\ RowsFor(i) /\ AuditRows /\ arrived \in Nat
  BY <1>1, CountedInNat DEF Others, RowsFor, Guarded
<1>. QED  BY <1>1, <1>2, HandsEmpty DEF Free

LEMMA ServerStepOnce ==
  ASSUME Guarded, OnRecordInv, OnceInv, NEW i \in Instances, ServerStep(i),
         "reply" \notin Faulty
  PROVE  OnceInv'
<1>1. CASE \E t \in Tokens, q \in Requests : Dispatch(i, t, q)
  BY <1>1, DispatchOnce
<1>2. CASE \E t \in Tokens, q \in Requests : Reject(i, t, q) \/ LoadFails(i, t, q)
  BY <1>2, ErrorOnce
<1>3. CASE NoAccess(i)
  BY <1>3, NoAccessOnce
<1>4. CASE Guard(i)
  BY <1>4, GuardOnce
<1>5. CASE Return(i)
  BY <1>5, ReturnOnce
<1>6. CASE GuardRaises(i)
  BY <1>6, GuardRaisesOnce
<1>7. CASE WrapTail(i)
  BY <1>7, WrapTailOnce
<1>8. CASE WrapAppend(i)
  BY <1>8, WrapAppendOnce
<1>9. CASE WrapFault(i)
  BY <1>9, WrapperEndOnce DEF WrapFault, vars, RowsFor
<1>10. CASE Die(i)
  BY <1>10, DieOnce
<1>11. CASE RevokeToken(i)
  <2>1. UNCHANGED <<call, wrapping, arrived, answers, audit>>
    BY <1>11 DEF RevokeToken, Revoke
  <2>2. Others(i) /\ RowsFor(i) /\ AuditRows /\ arrived \in Nat
    BY <2>1, CountedInNat DEF Others, RowsFor, Guarded
  <2>3. \A id : /\ Handles(i, id)' => Handles(i, id)
                /\ Awaits(i, id)' => Awaits(i, id)
    BY <2>1 DEF Handles, Awaits
  <2>4. call'[i].pc = "reply" => Says(call[i].id, call[i].decision)'
    BY <2>1 DEF OnceInv, Says
  <2>. QED  BY <2>1, <2>2, <2>3, <2>4, StepOnce
<1>. QED
  BY <1>1, <1>2, <1>3, <1>4, <1>5, <1>6, <1>7, <1>8, <1>9, <1>10, <1>11 DEF ServerStep

LEMMA OnceInductive ==
  ASSUME "reply" \notin Faulty
  PROVE  Guarded /\ OnRecordInv /\ OnceInv /\ [ServerNext]_serverVars => OnceInv'
<1> SUFFICES ASSUME Guarded, OnRecordInv, OnceInv, [ServerNext]_serverVars PROVE OnceInv'
  OBVIOUS
<1>1. CASE ServerNext
  BY <1>1, ServerStepOnce DEF ServerNext
<1>2. CASE UNCHANGED serverVars
  BY <1>2 DEF serverVars, vars, OnceInv, Handles, Awaits, OnRecord, Says
<1>. QED  BY <1>1, <1>2

LEMMA InitOnce == ServerInit => OnceInv
  BY DEF ServerInit, Init, OnceInv, Handles, Awaits, OnRecord, Says, Idle

LEMMA OnceMeansEvidence == OnceInv => EvidenceOnce
  BY DEF OnceInv, EvidenceOnce, Says

-----------------------------------------------------------------------------
(***************************************************************************)
(* Changes: the call that made a change holds the client's token, and      *)
(* hands it on to the wrapper, until its event is in or it is given up.    *)
(***************************************************************************)
Carries(i, w) ==
  \/ call[i] # Idle /\ call[i].id = w.id /\ call[i].token = w.token /\ call[i].authentic
  \/ wrapping[i] # Idle /\ wrapping[i].id = w.id /\ wrapping[i].token = w.token

Signed(id, client) == \E k \in DOMAIN audit : audit[k].id = id /\ audit[k].client = client

TracedInv ==
  /\ \A i \in Stdio : call[i] = Idle
  /\ \A i \in Instances : call[i].pc = "reply" /\ call[i].authentic =>
       Signed(call[i].id, Holder[call[i].token])
  /\ \A w \in writes :
       \/ \E i \in Instances \ Stdio : Carries(i, w)
       \/ w.id \in unrecorded
       \/ Signed(w.id, Holder[w.token])

LEMMA SignedStays ==
  ASSUME AuditRows, audit' = audit \/ \E row : audit' = Append(audit, row)
  PROVE  \A id, client : Signed(id, client) => Signed(id, client)'
<1>1. CASE audit' = audit
  BY <1>1 DEF Signed
<1>2. ASSUME NEW row, audit' = Append(audit, row)
      PROVE  \A id, client : Signed(id, client) => Signed(id, client)'
  <2>1. /\ Len(audit) \in Nat
        /\ DOMAIN audit = 1 .. Len(audit) /\ DOMAIN audit' = 1 .. Len(audit) + 1
        /\ \A k \in 1 .. Len(audit) : audit'[k] = audit[k]
    BY <1>2, RowsAfter
  <2>. QED  BY <2>1 DEF Signed
<1>. QED  BY <1>1, <1>2

LEMMA RowSigned ==
  ASSUME AuditRows, NEW row, audit' = Append(audit, row)
  PROVE  Signed(row.id, row.client)'
<1>1. Len(audit) + 1 \in DOMAIN audit' /\ audit'[Len(audit) + 1] = row
  BY RowsAfter
<1>. QED  BY <1>1 DEF Signed

\* A step of process i accounts for what it carried and for what it wrote.
LEMMA StepTraces ==
  ASSUME TracedInv, AuditRows, NEW i \in Instances, Others(i),
         audit' = audit \/ \E row : audit' = Append(audit, row),
         unrecorded \subseteq unrecorded', i \in Stdio => call'[i] = Idle,
         call'[i].pc = "reply" /\ call'[i].authentic =>
           Signed(call[i].id, Holder[call[i].token])',
         \A w \in writes' : (i \notin Stdio /\ Carries(i, w)) \/ w \notin writes =>
           \/ i \notin Stdio /\ Carries(i, w)'
           \/ w.id \in unrecorded' \/ Signed(w.id, Holder[w.token])'
  PROVE  TracedInv'
<1>1. \A id, client : Signed(id, client) => Signed(id, client)'
  BY SignedStays
<1>2. \A j \in Stdio : call'[j] = Idle
  BY ServerAssumption DEF TracedInv, Others
<1>3. ASSUME NEW j \in Instances, call'[j].pc = "reply", call'[j].authentic
      PROVE  Signed(call[j].id, Holder[call[j].token])'
  <2>1. CASE j = i
    BY <1>3, <2>1
  <2>2. CASE j # i
    <3> PICK c : c = call[j]
      OBVIOUS
    <3>1. call'[j] = c
      BY <2>2 DEF Others
    <3>2. Signed(c.id, Holder[c.token])'
      BY <1>1, <1>3, <3>1 DEF TracedInv
    <3>. QED  BY <3>1, <3>2 DEF Signed
  <2>. QED  BY <2>1, <2>2
<1>4. ASSUME NEW w \in writes'
      PROVE  \/ \E j \in Instances \ Stdio : Carries(j, w)'
             \/ w.id \in unrecorded'
             \/ Signed(w.id, Holder[w.token])'
  <2>1. CASE (i \notin Stdio /\ Carries(i, w)) \/ w \notin writes
    BY <2>1
  <2>2. ASSUME NEW j \in Instances \ Stdio, Carries(j, w), j # i
        PROVE  Carries(j, w)'
    BY <2>2 DEF Carries, Others
  <2>3. CASE w \in writes /\ ~(i \notin Stdio /\ Carries(i, w))
    BY <1>1, <2>2, <2>3 DEF TracedInv
  <2>. QED  BY <2>1, <2>3
<1>. QED  BY <1>2, <1>3, <1>4 DEF TracedInv

\* A call that comes in has written nothing, and is not the one that wrote.
LEMMA QuietTraces ==
  ASSUME TracedInv, AuditRows, NEW i \in Instances, Others(i), UNCHANGED <<writes, audit>>,
         unrecorded \subseteq unrecorded', i \in Stdio => call'[i] = Idle,
         call'[i].pc # "reply",
         \A w \in writes : i \notin Stdio /\ Carries(i, w) =>
           Carries(i, w)' \/ w.id \in unrecorded'
  PROVE  TracedInv'
  BY StepTraces

LEMMA ArrivalTraces ==
  ASSUME Guarded, OnRecordInv, TracedInv, NEW i \in Instances,
         NEW t \in Tokens, NEW q \in Requests,
         Dispatch(i, t, q) \/ Reject(i, t, q) \/ LoadFails(i, t, q)
  PROVE  TracedInv'
<1>1. /\ UNCHANGED <<writes, audit>> /\ Free(i) /\ unrecorded \subseteq unrecorded'
      /\ AuditRows /\ DOMAIN call = Instances /\ DOMAIN wrapping = Instances
  BY DEF Dispatch, Reject, LoadFails, Arrive, Counted, ArriveFault, Guarded,
         OnRecordInv, OneCallEach, IInv, Shapes
<1>2. \A w : ~Carries(i, w)
  BY <1>1 DEF Carries, Free
<1>3. Idle.pc = "idle"
  BY DEF Idle
<1>4. CASE Dispatch(i, t, q)
  <2> PICK c : c = [pc |-> "tag", id |-> arrived', token |-> t, req |-> q,
                    authentic |-> t \in usable, tag |-> NoTeam, blind |-> FALSE,
                    decision |-> "none", reason |-> "none",
                    tickets |-> {}, rows |-> {}, tail |-> 0]
    OBVIOUS
  <2>1. call' = [call EXCEPT ![i] = c] /\ wrapping' = wrapping /\ i \notin Stdio /\ c.pc = "tag"
    BY <1>4 DEF Dispatch, Arrive
  <2>2. Others(i) /\ call'[i].pc # "reply"
    BY <1>1, <2>1 DEF Others
  <2>. QED  BY <1>1, <1>2, <2>1, <2>2, QuietTraces
<1>5. CASE call' = call /\ Raised(i, arrived', t, q, {})
  <2>1. Others(i) /\ call'[i] = Idle
    BY <1>1, <1>5 DEF Others, Free, Raised
  <2>. QED  BY <1>1, <1>2, <1>3, <2>1, QuietTraces
<1>. QED
  BY <1>4, <1>5 DEF Reject, LoadFails, Counted, ArriveFault

LEMMA GuardTraces ==
  ASSUME Guarded, OnRecordInv, RevokedInv, TracedInv, NEW i \in Instances, Guard(i)
  PROVE  TracedInv'
<1>1. /\ Run(i) /\ wrapping' = wrapping /\ unrecorded' = unrecorded /\ Shapes /\ AuditRows
  BY DEF Guard, Guarded, IInv
<1>2. /\ call[i] \in InService /\ call[i] # Idle
      /\ AppendAudit(i) \/ audit' = audit
  BY <1>1, RunMoves
<1>3. PICK pc, decision : pc \in Stages /\ StaysAt(i, pc, decision) /\ CameTo(i, pc, decision)
  BY <1>1, RunMoves
<1>4. call'[i].pc \in Stages
  BY <1>3 DEF StaysAt
<1>5. call'[i] # Idle
  <2>1. Idle.pc = "idle" /\ "idle" \notin Stages
    BY DEF Idle, Stages
  <2>. QED  BY <1>4, <2>1
<1>6. Others(i) /\ wrapping[i] = Idle /\ i \notin Stdio
  BY <1>1, <1>2, <1>3 DEF Others, StaysAt, OnRecordInv, OneCallEach, TracedInv
<1>7. \A w : Carries(i, w) => Carries(i, w)'
  BY <1>1, <1>3, <1>5, <1>6 DEF Carries, StaysAt
<1>8. ASSUME NEW w \in writes' \ writes PROVE Carries(i, w)'
  <2>1. CreateTicket(i) \/ UpdateStatus(i)
    BY <1>1 DEF Run, Tag, RejectToken, Throttle, Check, ListTickets, AuditRecent, GetTicket,
       RefuseTeam, CheckVisible, ReadBack, ReadTail, AppendAudit, TagFault, DispatchFault
  <2>2. w.id = call[i].id /\ w.token = call[i].token /\ call[i].pc \in AtStore
    BY <2>1 DEF CreateTicket, UpdateStatus, AtStore
  <2>3. call[i].authentic
    BY <1>2, <2>2 DEF RevokedInv, Vouched
  <2>. QED  BY <1>2, <1>7, <2>2, <2>3 DEF Carries
<1>9. /\ audit' = audit \/ \E row : audit' = Append(audit, row)
      /\ call'[i].pc = "reply" /\ call'[i].authentic =>
           Signed(call[i].id, Holder[call[i].token])'
  <2>1. CASE AppendAudit(i)
    <3> PICK row : row = Event(call[i])
      OBVIOUS
    <3>1. audit' = Append(audit, row)
      BY <2>1 DEF AppendAudit
    <3>2. row.id = call[i].id /\ (call[i].authentic => row.client = Holder[call[i].token])
      BY DEF Event
    <3>3. Signed(row.id, row.client)'
      BY <1>1, <3>1, RowSigned
    <3>. QED  BY <1>3, <3>1, <3>2, <3>3 DEF StaysAt, Signed
  <2>2. CASE audit' = audit /\ ~AppendAudit(i)
    BY <1>3, <2>2 DEF StaysAt, CameTo
  <2>. QED  BY <1>2, <2>1, <2>2
<1>. QED  BY <1>1, <1>6, <1>7, <1>8, <1>9, StepTraces

LEMMA GuardLeftTraces ==
  ASSUME Guarded, OnRecordInv, TracedInv, NEW i \in Instances, Return(i) \/ GuardRaises(i)
  PROVE  TracedInv'
<1>1. /\ call[i].pc \in {"tail", "append", "reply"} /\ call' = [call EXCEPT ![i] = Idle]
      /\ UNCHANGED <<unrecorded, writes, audit>> /\ AuditRows
  BY DEF Return, Reply, GuardRaises, RecordFault, Guarded
<1>2. /\ call'[i] = Idle /\ call'[i].pc # "reply"
      /\ \A j \in Instances \ {i} : call'[j] = call[j]
  BY <1>1, CallLeft DEF Guarded, IInv
<1>3. call[i] \in InService /\ call[i] # Idle
  BY <1>1, Running DEF Guarded, Stages, Pcs
<1>4. wrapping[i] = Idle /\ i \notin Stdio
  BY <1>3 DEF OnRecordInv, OneCallEach, TracedInv
<1>5. \A w : Carries(i, w) =>
        w.id = call[i].id /\ w.token = call[i].token /\ call[i].authentic
  BY <1>4 DEF Carries
<1>6. CASE Return(i)
  <2>1. call[i].pc = "reply" /\ wrapping' = wrapping
    BY <1>6 DEF Return, Reply
  <2>2. Others(i)
    BY <1>2, <2>1 DEF Others
  <2>3. \A w \in writes' : Carries(i, w) => Signed(w.id, Holder[w.token])'
    BY <1>1, <1>5, <2>1 DEF TracedInv, Signed
  <2>. QED  BY <1>1, <1>2, <2>2, <2>3, StepTraces
<1>7. CASE GuardRaises(i)
  <2>1. call[i].id \in Nat /\ call[i].token \in Tokens /\ call[i].req \in Requests
    BY <1>3 DEF InService
  <2> PICK r : r = [pc |-> "tail", id |-> call[i].id, token |-> call[i].token,
                    req |-> call[i].req, tickets |-> call[i].tickets, tail |-> 0]
    OBVIOUS
  <2>2. wrapping' = [wrapping EXCEPT ![i] = r]
    BY <1>7 DEF GuardRaises, Raised
  <2>3. r.id = call[i].id /\ r.token = call[i].token /\ r.pc = "tail"
    OBVIOUS
  <2>4. r # Idle
    <3>1. Idle.pc = "idle"
      BY DEF Idle
    <3>. QED  BY <2>3, <3>1
  <2>5. wrapping'[i] = r /\ \A j \in Instances \ {i} : wrapping'[j] = wrapping[j]
    BY <2>2 DEF OnRecordInv, OneCallEach
  <2>6. Others(i)
    BY <1>2, <2>5 DEF Others
  <2>7. \A w : Carries(i, w) => Carries(i, w)'
    BY <1>5, <2>3, <2>4, <2>5 DEF Carries
  <2>. QED  BY <1>1, <1>2, <1>4, <2>6, <2>7, QuietTraces
<1>. QED  BY <1>6, <1>7

LEMMA WrapperTraces ==
  ASSUME Guarded, OnRecordInv, TracedInv, NEW i \in Instances,
         WrapTail(i) \/ WrapAppend(i)
  PROVE  TracedInv'
<1>1. /\ UNCHANGED <<call, writes, unrecorded>> /\ AuditRows /\ OneCallEach
      /\ wrapping[i].pc \in {"tail", "append"}
  BY DEF WrapTail, WrapAppend, vars, Guarded, OnRecordInv
<1>2. wrapping[i] # Idle /\ call[i] = Idle /\ call'[i].pc # "reply"
  BY <1>1 DEF OneCallEach, Idle
<1> PICK u : u = wrapping[i]
  OBVIOUS
<1>3. \A w : Carries(i, w) => w.id = u.id /\ w.token = u.token
  BY <1>2 DEF Carries
<1>4. CASE WrapTail(i)
  <2> PICK n : n = Len(audit)
    OBVIOUS
  <2> PICK x : x = [u EXCEPT !.pc = "append", !.tail = n]
    OBVIOUS
  <2>1. u \in InWrapper
    BY <1>1, <1>2 DEF OneCallEach
  <2>2. x.id = u.id /\ x.token = u.token /\ x.pc = "append"
    BY <2>1 DEF InWrapper
  <2>3. wrapping' = [wrapping EXCEPT ![i] = x] /\ audit' = audit
    BY <1>4 DEF WrapTail, vars
  <2>4. wrapping'[i] = x /\ \A j \in Instances \ {i} : wrapping'[j] = wrapping[j]
    BY <1>1, <2>3 DEF OneCallEach
  <2>5. x # Idle
    <3>1. Idle.pc = "idle"
      BY DEF Idle
    <3>. QED  BY <2>2, <3>1
  <2>6. Others(i)
    BY <1>1, <2>4 DEF Others
  <2>7. \A w : Carries(i, w) => Carries(i, w)'
    BY <1>3, <2>2, <2>4, <2>5 DEF Carries
  <2>. QED  BY <1>1, <1>2, <2>3, <2>6, <2>7, QuietTraces
<1>5. CASE WrapAppend(i)
  <2> PICK row : row = WrapEvent(i)
    OBVIOUS
  <2>1. audit' = Append(audit, row) /\ wrapping' = [wrapping EXCEPT ![i] = Idle]
    BY <1>5 DEF WrapAppend
  <2>2. row.id = u.id /\ (i \notin Stdio => row.client = Holder[u.token])
    BY DEF WrapEvent
  <2>3. Signed(row.id, row.client)'
    BY <1>1, <2>1, RowSigned
  <2>4. Others(i)
    BY <1>1, <2>1, WrapperLeft DEF Others
  <2>5. \A w : i \notin Stdio /\ Carries(i, w) => Signed(w.id, Holder[w.token])'
    BY <1>3, <2>2, <2>3 DEF Signed
  <2>. QED  BY <1>1, <1>2, <2>1, <2>4, <2>5, StepTraces
<1>. QED  BY <1>4, <1>5

LEMMA GivenUpTraces ==
  ASSUME Guarded, OnRecordInv, TracedInv, NEW i \in Instances, WrapFault(i) \/ Die(i)
  PROVE  TracedInv'
<1>1. UNCHANGED <<writes, audit>> /\ unrecorded \subseteq unrecorded' /\ AuditRows /\ OneCallEach
  BY DEF WrapFault, Die, Crash, vars, Guarded, OnRecordInv
<1>2. CASE Crash(i) /\ unrecorded' = unrecorded \cup {call[i].id} /\ UNCHANGED wrapping
  <2>1. call[i] # Idle /\ call' = [call EXCEPT ![i] = Idle]
    BY <1>2 DEF Crash
  <2>2. /\ call'[i] = Idle /\ call'[i].pc # "reply"
        /\ \A j \in Instances \ {i} : call'[j] = call[j]
    BY <2>1, CallLeft DEF Guarded, IInv
  <2>3. Others(i) /\ wrapping[i] = Idle
    BY <1>1, <1>2, <2>1, <2>2 DEF Others, OneCallEach
  <2>4. \A w : Carries(i, w) => w.id \in unrecorded'
    BY <1>2, <2>3 DEF Carries
  <2>. QED  BY <1>1, <2>2, <2>3, <2>4, QuietTraces
<1>3. CASE wrapping[i] # Idle /\ wrapping' = [wrapping EXCEPT ![i] = Idle]
           /\ unrecorded' = unrecorded \cup {wrapping[i].id} /\ UNCHANGED call
  <2>1. Others(i) /\ call[i] = Idle
    BY <1>1, <1>3, WrapperLeft DEF Others, OneCallEach
  <2>2. \A w : Carries(i, w) => w.id \in unrecorded'
    BY <1>3, <2>1 DEF Carries
  <2>3. call'[i].pc # "reply"
    BY <1>3, <2>1 DEF Idle
  <2>. QED  BY <1>1, <1>3, <2>1, <2>2, <2>3, QuietTraces
<1>. QED  BY <1>2, <1>3 DEF WrapFault, Die, vars

LEMMA ServerStepTraces ==
  ASSUME Guarded, OnRecordInv, RevokedInv, TracedInv, NEW i \in Instances, ServerStep(i)
  PROVE  TracedInv'
<1>1. CASE \E t \in Tokens, q \in Requests :
             Dispatch(i, t, q) \/ Reject(i, t, q) \/ LoadFails(i, t, q)
  BY <1>1, ArrivalTraces
<1>2. CASE Guard(i)
  BY <1>2, GuardTraces
<1>3. CASE Return(i) \/ GuardRaises(i)
  BY <1>3, GuardLeftTraces
<1>4. CASE WrapTail(i) \/ WrapAppend(i)
  BY <1>4, WrapperTraces
<1>5. CASE WrapFault(i) \/ Die(i)
  BY <1>5, GivenUpTraces
<1>6. CASE NoAccess(i) \/ RevokeToken(i)
  <2>1. /\ UNCHANGED <<call, wrapping, writes, audit>> /\ unrecorded \subseteq unrecorded'
        /\ call[i] = Idle /\ AuditRows
    BY <1>6 DEF NoAccess, Counted, Free, RevokeToken, Revoke, Guarded
  <2>2. Others(i) /\ call'[i].pc # "reply"
    BY <2>1 DEF Others, Idle
  <2>3. \A w : Carries(i, w) => Carries(i, w)'
    BY <2>1 DEF Carries
  <2>. QED  BY <2>1, <2>2, <2>3, QuietTraces
<1>. QED  BY <1>1, <1>2, <1>3, <1>4, <1>5, <1>6 DEF ServerStep

LEMMA TracedInductive ==
  Guarded /\ OnRecordInv /\ RevokedInv /\ TracedInv /\ [ServerNext]_serverVars => TracedInv'
<1> SUFFICES ASSUME Guarded, OnRecordInv, RevokedInv, TracedInv, [ServerNext]_serverVars
             PROVE  TracedInv'
  OBVIOUS
<1>1. CASE ServerNext
  BY <1>1, ServerStepTraces DEF ServerNext
<1>2. CASE UNCHANGED serverVars
  BY <1>2 DEF serverVars, vars, TracedInv, Carries, Signed
<1>. QED  BY <1>1, <1>2

LEMMA InitTraced == ServerInit => TracedInv
  BY ServerAssumption DEF ServerInit, Init, TracedInv, Idle

LEMMA TracedMeansOnRecord == TracedInv => ChangesTraced
  BY DEF TracedInv, Carries, Signed, ChangesTraced, InProgress, Wrapped

-----------------------------------------------------------------------------
(***************************************************************************)
(* Denials in the server: when record() does not fail in the pipeline, the *)
(* wrapper records calls that have never come to it and changed nothing.   *)
(***************************************************************************)
RecordSure == Faulty \cap {"tail", "append", "reply"} = {}

Untried(w) ==
  /\ w.id \in 0 .. arrived
  /\ ~Wrote(w.id)
  /\ \A j \in Instances : call[j] # Idle => call[j].id # w.id

WrapUntried == \A i \in Instances : wrapping[i] # Idle => Untried(wrapping[i])

\* A call that came in just now is neither in hand nor among the writes.
LEMMA FreshUntried ==
  ASSUME TraceInv, arrived \in Nat, arrived' = arrived + 1, UNCHANGED <<call, writes>>,
         NEW w, w.id = arrived'
  PROVE  Untried(w)'
  BY DEF TraceInv, Untried, Wrote

LEMMA UntriedStays ==
  ASSUME WrapUntried, arrived \in Nat, arrived' \in {arrived, arrived + 1},
         \A j \in Instances : wrapping'[j] # Idle =>
           \/ wrapping[j] # Idle /\ wrapping'[j].id = wrapping[j].id
           \/ Untried(wrapping[j])',
         \A j \in Instances : call'[j] # Idle =>
           \/ call[j] # Idle /\ call'[j].id = call[j].id
           \/ arrived' = arrived + 1 /\ call'[j].id = arrived',
         \A w \in writes' \ writes : \E j \in Instances : call[j] # Idle /\ w.id = call[j].id
  PROVE  WrapUntried'
<1> SUFFICES ASSUME NEW i \in Instances, wrapping[i] # Idle, wrapping'[i].id = wrapping[i].id
             PROVE  Untried(wrapping[i])'
  BY DEF WrapUntried
<1> PICK id : id = wrapping[i].id
  OBVIOUS
<1>1. id \in 0 .. arrived /\ ~Wrote(id) /\ \A j \in Instances : call[j] # Idle => call[j].id # id
  BY DEF WrapUntried, Untried
<1>2. id \in 0 .. arrived' /\ id # arrived + 1
  BY <1>1
<1>3. ~Wrote(id)'
  BY <1>1 DEF Wrote
<1>4. \A j \in Instances : call'[j] # Idle => call'[j].id # id
  BY <1>1, <1>2
<1>. QED  BY <1>2, <1>3, <1>4 DEF Untried, Wrote

\* The wrapper's event does not touch what the pipeline has recorded.
LEMMA WrapAppendTraces ==
  ASSUME AuditRows, TraceInv, WrapUntried, NEW i \in Instances, WrapAppend(i)
  PROVE  TraceInv'
<1> PICK row : row = WrapEvent(i)
  OBVIOUS
<1>1. /\ UNCHANGED <<call, writes, arrived>>
      /\ audit' = Append(audit, row) /\ wrapping[i] # Idle
  BY DEF WrapAppend, Idle
<1>2. row.id = wrapping[i].id
  BY DEF WrapEvent
<1>3. /\ row.id \in 0 .. arrived /\ ~Wrote(row.id)
      /\ \A j \in Instances : call[j] # Idle => call[j].id # row.id
  BY <1>1, <1>2 DEF WrapUntried, Untried
<1>4. \A k \in DOMAIN audit' : (k \in DOMAIN audit /\ audit'[k] = audit[k]) \/ audit'[k] = row
  <2>1. /\ Len(audit) \in Nat
        /\ DOMAIN audit = 1 .. Len(audit) /\ DOMAIN audit' = 1 .. Len(audit) + 1
        /\ \A k \in 1 .. Len(audit) : audit'[k] = audit[k]
        /\ audit'[Len(audit) + 1] = row
    BY <1>1, RowsAfter
  <2>. QED  BY <2>1
<1>5. \A k \in DOMAIN audit' : /\ audit'[k].id \in 0 .. arrived
                               /\ audit'[k].decision = "deny" => ~Wrote(audit'[k].id)
  BY <1>3, <1>4 DEF TraceInv
<1>6. \A j \in Instances : call[j] # Idle /\ call[j].pc # "reply" =>
        \A k \in DOMAIN audit' : audit'[k].id # call[j].id
  BY <1>3, <1>4 DEF TraceInv
<1>. QED  BY <1>1, <1>5, <1>6 DEF TraceInv, Wrote, Granted

\* The calls of the pipeline, and the names they have.
LEMMA CallsNamed ==
  ASSUME Shapes, NEW i \in Instances, Step(i)
  PROVE  /\ arrived' \in {arrived, arrived + 1}
         /\ \A j \in Instances : call'[j] # Idle =>
              \/ call[j] # Idle /\ call'[j].id = call[j].id
              \/ arrived' = arrived + 1 /\ call'[j].id = arrived'
         /\ \A w \in writes' \ writes : \E j \in Instances : call[j] # Idle /\ w.id = call[j].id
<1>0. DOMAIN call = Instances
  BY DEF Shapes
<1>1. CASE Run(i)
  <2>1. call[i] # Idle /\ arrived' = arrived
    BY <1>1, RunMoves
  <2>2. call'[i].id = call[i].id /\ \A j \in Instances \ {i} : call'[j] = call[j]
    BY <1>1, RunMoves DEF StaysAt
  <2>3. \A w \in writes' \ writes : w.id = call[i].id
    BY <1>1, WriteMakesGranted
  <2>. QED  BY <2>1, <2>2, <2>3
<1>2. ASSUME NEW t \in Tokens, NEW q \in Requests, Arrive(i, t, q)
      PROVE  /\ arrived' = arrived + 1 /\ writes' = writes
             /\ call'[i].id = arrived' /\ \A j \in Instances \ {i} : call'[j] = call[j]
  <2> PICK c : c = [pc |-> "tag", id |-> arrived', token |-> t, req |-> q,
                    authentic |-> t \in usable, tag |-> NoTeam, blind |-> FALSE,
                    decision |-> "none", reason |-> "none",
                    tickets |-> {}, rows |-> {}, tail |-> 0]
    OBVIOUS
  <2>1. call' = [call EXCEPT ![i] = c] /\ arrived' = arrived + 1 /\ writes' = writes
    BY <1>2 DEF Arrive
  <2>2. c.id = arrived'
    OBVIOUS
  <2>. QED  BY <1>0, <2>1, <2>2
<1>3. CASE ArriveFault \/ \E t \in Tokens : Revoke(i, t)
  BY <1>3 DEF ArriveFault, Revoke
<1>4. CASE Reply(i) \/ RecordFault(i) \/ Crash(i)
  <2>1. call' = [call EXCEPT ![i] = Idle] /\ arrived' = arrived /\ writes' = writes
    BY <1>4 DEF Reply, RecordFault, Crash
  <2>. QED  BY <1>0, <2>1
<1>. QED  BY <1>1, <1>2, <1>3, <1>4 DEF Step

LEMMA ServerStepTried ==
  ASSUME "readback" \notin Faulty, RecordSure, Guarded, OnRecordInv, TraceInv, WrapUntried,
         NEW i \in Instances, ServerStep(i)
  PROVE  TraceInv' /\ WrapUntried'
<1>0. Shapes /\ AuditRows /\ arrived \in Nat /\ DOMAIN wrapping = Instances
  BY DEF Guarded, IInv, Shapes, OnRecordInv, OneCallEach
<1>1. ASSUME Step(i), \A j \in Instances : wrapping'[j] \in {Idle, wrapping[j]}
      PROVE  TraceInv' /\ WrapUntried'
  <2>1. TraceInv'
    BY <1>1, TraceInductive DEF Guarded, Next
  <2>2. WrapUntried'
    BY <1>0, <1>1, CallsNamed, UntriedStays
  <2>. QED  BY <2>1, <2>2
<1>2. ASSUME NEW t \in Tokens, NEW q \in Requests, Reject(i, t, q) \/ LoadFails(i, t, q)
      PROVE  TraceInv' /\ WrapUntried'
  <2> PICK u : u = [pc |-> "tail", id |-> arrived', token |-> t, req |-> q, tickets |-> {},
                    tail |-> 0]
    OBVIOUS
  <2>1. /\ UNCHANGED <<call, writes, audit>> /\ arrived' = arrived + 1
        /\ wrapping' = [wrapping EXCEPT ![i] = u] /\ u.id = arrived'
    BY <1>2 DEF Reject, LoadFails, Counted, ArriveFault, Raised
  <2>2. TraceInv'
    BY <1>0, <2>1, TraceComesAndGoes
  <2>3. Untried(u)'
    BY <1>0, <2>1, FreshUntried
  <2>4. \A j \in Instances : wrapping'[j] # Idle =>
          wrapping'[j] = wrapping[j] \/ Untried(wrapping[j])'
    BY <1>0, <2>1, <2>3 DEF Untried
  <2>. QED  BY <1>0, <2>1, <2>2, <2>4, UntriedStays
<1>3. CASE NoAccess(i)
  <2>1. UNCHANGED <<call, writes, audit, wrapping>> /\ arrived' = arrived + 1
    BY <1>3 DEF NoAccess, Counted
  <2>. QED  BY <1>0, <2>1, TraceComesAndGoes, UntriedStays
<1>4. CASE GuardRaises(i)
  BY <1>4 DEF GuardRaises, RecordFault, RecordSure
<1>5. CASE WrapTail(i)
  <2>1. UNCHANGED <<call, writes, audit, arrived>>
    BY <1>5 DEF WrapTail, vars
  <2>2. wrapping[i] # Idle
    BY <1>5 DEF WrapTail, Idle
  <2>3. /\ wrapping'[i].id = wrapping[i].id
        /\ \A j \in Instances \ {i} : wrapping'[j] = wrapping[j]
    BY <1>0, <1>5, WrapTailHolds DEF OnRecordInv
  <2>. QED  BY <1>0, <2>1, <2>2, <2>3, TraceComesAndGoes, UntriedStays
<1>6. CASE WrapAppend(i)
  <2>1. UNCHANGED <<call, writes, arrived>> /\ wrapping' = [wrapping EXCEPT ![i] = Idle]
    BY <1>6 DEF WrapAppend
  <2>2. WrapUntried'
    BY <1>0, <2>1, UntriedStays
  <2>. QED  BY <1>0, <1>6, <2>2, WrapAppendTraces
<1>7. CASE UNCHANGED vars /\ wrapping' = [wrapping EXCEPT ![i] = Idle]
  BY <1>0, <1>7, TraceComesAndGoes, UntriedStays DEF vars
<1>8. CASE Die(i)
  <2>1. CASE Crash(i) /\ UNCHANGED wrapping
    BY <1>1, <2>1 DEF Step
  <2>2. CASE wrapping' = [wrapping EXCEPT ![i] = Idle] /\ UNCHANGED <<audit, call, arrived, writes>>
    BY <1>0, <2>2, TraceComesAndGoes, UntriedStays
  <2>. QED  BY <1>8, <2>1, <2>2 DEF Die
<1>9. CASE \/ \E t \in Tokens, q \in Requests : Dispatch(i, t, q)
           \/ Guard(i) \/ Return(i) \/ RevokeToken(i)
  BY <1>1, <1>9 DEF Dispatch, Guard, Return, RevokeToken, Step
<1>. QED
  BY <1>2, <1>3, <1>4, <1>5, <1>6, <1>7, <1>8, <1>9 DEF ServerStep, WrapFault

LEMMA TriedInductive ==
  ASSUME "readback" \notin Faulty, RecordSure
  PROVE  /\ Guarded /\ OnRecordInv /\ TraceInv /\ WrapUntried /\ [ServerNext]_serverVars
         => (TraceInv /\ WrapUntried)'
<1> SUFFICES ASSUME Guarded, OnRecordInv, TraceInv, WrapUntried, [ServerNext]_serverVars
             PROVE  (TraceInv /\ WrapUntried)'
  OBVIOUS
<1>1. CASE ServerNext
  BY <1>1, ServerStepTried DEF ServerNext
<1>2. CASE UNCHANGED serverVars
  BY <1>2 DEF serverVars, vars, TraceInv, WrapUntried, Untried, Wrote, Granted
<1>. QED  BY <1>1, <1>2

LEMMA InitTried == ServerInit => TraceInv /\ WrapUntried
  BY StartTraced DEF ServerInit, WrapUntried

-----------------------------------------------------------------------------
(***************************************************************************)
(* Audit reads in the server.  The wrapper's row names no team, so every   *)
(* auditor may read it.  It tells of a ticket only when the call came out  *)
(* of the pipeline, over which record() had failed: such a call is lost.   *)
(***************************************************************************)
WrapperReasons == {"rejected_before_dispatch"}

RowsTagged == TaggedInv(WrapperReasons)

\* What the wrapper has in hand and has recorded holds no ticket, unless the
\* guard's record() failed over the call.
WrapperHolds ==
  /\ \A i \in Instances : wrapping[i] # Idle =>
       wrapping[i].tickets = {} \/ wrapping[i].id \in lost
  /\ \A n \in DOMAIN audit : audit[n].reason \in WrapperReasons =>
       audit[n].tickets = {} \/ audit[n].id \in lost

LEMMA WrapAppendTagged ==
  ASSUME AuditRows, RowsTagged, NEW i \in Instances, WrapAppend(i)
  PROVE  RowsTagged'
<1> PICK row : row = WrapEvent(i)
  OBVIOUS
<1>1. UNCHANGED <<call, tickets>> /\ audit' = Append(audit, row)
  BY DEF WrapAppend
<1>2. row.reason \in WrapperReasons
  BY DEF WrapEvent, WrapperReasons
<1>3. /\ Len(audit) \in Nat
      /\ DOMAIN audit = 1 .. Len(audit) /\ DOMAIN audit' = 1 .. Len(audit) + 1
      /\ \A k \in 1 .. Len(audit) : audit'[k] = audit[k]
      /\ audit'[Len(audit) + 1] = row
  BY <1>1, RowsAfter
<1>4. \A n \in DOMAIN audit : n \in DOMAIN audit' /\ audit'[n] = audit[n]
  BY <1>3
<1>5. \A n \in DOMAIN audit' : (n \in DOMAIN audit /\ audit'[n] = audit[n]) \/ audit'[n] = row
  BY <1>3
<1>6. ASSUME NEW n \in DOMAIN audit', audit'[n].reason \notin WrapperReasons
      PROVE  RowTagged(audit'[n])
  BY <1>2, <1>5, <1>6 DEF RowsTagged, TaggedInv
<1>7. ASSUME NEW j \in Instances, call[j] # Idle PROVE Tagged(call[j])'
  <2> PICK c : c = call[j]
    OBVIOUS
  <2>1. Tagged(c)
    BY <1>7 DEF RowsTagged, TaggedInv
  <2>2. Tagged(c)'
    BY <1>1, <1>4, <2>1 DEF Tagged, TeamIs, SubjectTeam, Exists, TeamsOf
  <2>. QED  BY <1>1, <2>2 DEF Tagged, TeamIs, SubjectTeam, Exists, TeamsOf
<1>. QED  BY <1>1, <1>6, <1>7 DEF RowsTagged, TaggedInv, RowTagged, TeamIs

LEMMA ServerTagged ==
  ASSUME OneInstance
  PROVE  Guarded /\ RowsTagged /\ [ServerNext]_serverVars => RowsTagged'
<1> SUFFICES ASSUME Guarded, RowsTagged, [ServerNext]_serverVars PROVE RowsTagged'
  OBVIOUS
<1>1. CASE \E i \in Instances : Step(i)
  BY <1>1, TaggedInductive DEF Next, Guarded, RowsTagged
<1>2. CASE \E i \in Instances : WrapAppend(i)
  BY <1>2, WrapAppendTagged DEF Guarded
<1>3. CASE UNCHANGED <<call, tickets, audit>>
  <2>1. ASSUME NEW n \in DOMAIN audit, audit[n].reason \notin WrapperReasons
        PROVE  RowTagged(audit[n])'
    BY <1>3, <2>1 DEF RowsTagged, TaggedInv, RowTagged, TeamIs
  <2>2. ASSUME NEW j \in Instances, call[j] # Idle PROVE Tagged(call[j])'
    <3>1. Tagged(call[j])
      BY <2>2 DEF RowsTagged, TaggedInv
    <3>. QED
      BY <1>3, <3>1 DEF Tagged, TeamIs, SubjectTeam, Exists, TeamsOf
  <2>. QED  BY <1>3, <2>1, <2>2 DEF RowsTagged, TaggedInv
<1>. QED
  BY <1>1, <1>2, <1>3
  DEF ServerNext, ServerStep, Dispatch, Reject, LoadFails, NoAccess, Guard, Return, GuardRaises,
      Counted, ArriveFault, WrapTail, WrapFault, Die, RevokeToken, Step, serverVars, vars

\* The wrapper's part of it goes on when the calls it has in hand and the row
\* that is added do.
LEMMA HoldsOn ==
  ASSUME AuditRows, WrapperHolds, lost \subseteq lost',
         \A j \in Instances : wrapping'[j] = wrapping[j] \/ wrapping'[j] = Idle
                                \/ wrapping'[j].tickets = {} \/ wrapping'[j].id \in lost'
                                \/ (wrapping[j] # Idle /\ wrapping'[j].id = wrapping[j].id
                                      /\ wrapping'[j].tickets = wrapping[j].tickets),
         audit' = audit \/ \E row : /\ audit' = Append(audit, row)
                                    /\ row.reason \in WrapperReasons =>
                                         row.tickets = {} \/ row.id \in lost'
  PROVE  WrapperHolds'
<1>1. \A j \in Instances : wrapping'[j] # Idle => wrapping'[j].tickets = {} \/ wrapping'[j].id \in lost'
  BY DEF WrapperHolds
<1>2. CASE audit' = audit
  BY <1>1, <1>2 DEF WrapperHolds
<1>3. ASSUME NEW row, audit' = Append(audit, row),
             row.reason \in WrapperReasons => row.tickets = {} \/ row.id \in lost'
      PROVE  WrapperHolds'
  <2>1. /\ Len(audit) \in Nat
        /\ DOMAIN audit = 1 .. Len(audit) /\ DOMAIN audit' = 1 .. Len(audit) + 1
        /\ \A k \in 1 .. Len(audit) : audit'[k] = audit[k]
        /\ audit'[Len(audit) + 1] = row
    BY <1>3, RowsAfter
  <2>2. \A n \in DOMAIN audit' : (n \in DOMAIN audit /\ audit'[n] = audit[n]) \/ audit'[n] = row
    BY <2>1
  <2>. QED  BY <1>1, <1>3, <2>2 DEF WrapperHolds
<1>. QED  BY <1>2, <1>3

\* The pipeline's own rows give none of the wrapper's reasons.
LEMMA PipelineRow ==
  ASSUME Guarded, NEW i \in Instances, Run(i)
  PROVE  /\ lost' = lost
         /\ audit' = audit \/ \E row : /\ audit' = Append(audit, row)
                                       /\ row.reason \notin WrapperReasons
<1>1. call[i] \in InService /\ (AppendAudit(i) \/ audit' = audit)
  BY RunMoves DEF Guarded, IInv
<1>2. lost' = lost
  BY DEF Run, Tag, RejectToken, Throttle, Check, ListTickets, AuditRecent, GetTicket,
         CreateTicket, RefuseTeam, CheckVisible, UpdateStatus, ReadBack, ReadTail, AppendAudit,
         TagFault, DispatchFault
<1>3. CASE AppendAudit(i)
  <2> PICK row : row = Event(call[i])
    OBVIOUS
  <2>1. audit' = Append(audit, row)
    BY <1>3 DEF AppendAudit
  <2>2. row.reason \in Reasons
    BY <1>1 DEF Event, InService
  <2>3. row.reason \notin WrapperReasons
    BY <2>2 DEF Reasons, WrapperReasons
  <2>. QED  BY <1>2, <2>1, <2>3
<1>. QED  BY <1>1, <1>2, <1>3

LEMMA ServerStepHolds ==
  ASSUME Guarded, OneCallEach, WrapperHolds, NEW i \in Instances, ServerStep(i)
  PROVE  WrapperHolds'
<1>0. DOMAIN wrapping = Instances /\ AuditRows
  BY DEF OneCallEach, Guarded
<1>1. CASE Guard(i)
  BY <1>0, <1>1, PipelineRow, HoldsOn DEF Guard
<1>2. ASSUME NEW t \in Tokens, NEW q \in Requests, Reject(i, t, q) \/ LoadFails(i, t, q)
      PROVE  WrapperHolds'
  <2> PICK u : u = [pc |-> "tail", id |-> arrived', token |-> t, req |-> q, tickets |-> {},
                    tail |-> 0]
    OBVIOUS
  <2>1. /\ wrapping' = [wrapping EXCEPT ![i] = u] /\ u.tickets = {}
        /\ audit' = audit /\ lost \subseteq lost'
    BY <1>2 DEF Reject, LoadFails, Counted, ArriveFault, Raised
  <2>. QED  BY <1>0, <2>1, HoldsOn
<1>3. CASE GuardRaises(i)
  <2> PICK r : r = [pc |-> "tail", id |-> call[i].id, token |-> call[i].token,
                    req |-> call[i].req, tickets |-> call[i].tickets, tail |-> 0]
    OBVIOUS
  <2>1. /\ wrapping' = [wrapping EXCEPT ![i] = r] /\ r.id = call[i].id
        /\ audit' = audit /\ lost' = lost \cup {call[i].id}
    BY <1>3 DEF GuardRaises, RecordFault, Raised
  <2>. QED  BY <1>0, <2>1, HoldsOn
<1>4. CASE WrapTail(i)
  <2>1. UNCHANGED <<audit, lost>> /\ wrapping[i] # Idle
    BY <1>4 DEF WrapTail, vars, Idle
  <2> PICK w : w = wrapping[i]
    OBVIOUS
  <2> PICK n : n = Len(audit)
    OBVIOUS
  <2> PICK x : x = [w EXCEPT !.pc = "append", !.tail = n]
    OBVIOUS
  <2>2. wrapping' = [wrapping EXCEPT ![i] = x] /\ w \in InWrapper
    BY <1>4, <2>1 DEF WrapTail, OneCallEach
  <2>3. x.id = w.id /\ x.tickets = w.tickets
    BY <2>2 DEF InWrapper
  <2>. QED  BY <1>0, <2>1, <2>2, <2>3, HoldsOn
<1>5. CASE WrapAppend(i)
  <2> PICK row : row = WrapEvent(i)
    OBVIOUS
  <2>1. /\ audit' = Append(audit, row) /\ wrapping' = [wrapping EXCEPT ![i] = Idle]
        /\ lost' = lost /\ wrapping[i] # Idle
    BY <1>5 DEF WrapAppend, Idle
  <2>2. row.tickets = wrapping[i].tickets /\ row.id = wrapping[i].id
    BY DEF WrapEvent
  <2>3. row.tickets = {} \/ row.id \in lost'
    BY <2>1, <2>2 DEF WrapperHolds
  <2>. QED  BY <1>0, <2>1, <2>3, HoldsOn
<1>6. CASE /\ audit' = audit /\ lost \subseteq lost'
           /\ wrapping' = wrapping \/ wrapping' = [wrapping EXCEPT ![i] = Idle]
  BY <1>0, <1>6, HoldsOn
<1>. QED
  BY <1>1, <1>2, <1>3, <1>4, <1>5, <1>6
  DEF ServerStep, Dispatch, Arrive, NoAccess, Counted, Return, Reply, WrapFault, Die, Crash,
      RevokeToken, Revoke, vars

LEMMA HoldsInductive ==
  Guarded /\ OneCallEach /\ WrapperHolds /\ [ServerNext]_serverVars => WrapperHolds'
<1> SUFFICES ASSUME Guarded, OneCallEach, WrapperHolds, [ServerNext]_serverVars PROVE WrapperHolds'
  OBVIOUS
<1>1. CASE ServerNext
  BY <1>1, ServerStepHolds DEF ServerNext
<1>2. CASE UNCHANGED serverVars
  BY <1>2 DEF serverVars, vars, WrapperHolds
<1>. QED  BY <1>1, <1>2

-----------------------------------------------------------------------------
\* Row scoping holds in the server too: for any number of processes, whatever
\* the SDK rejects, the wrapper records, fails or dies over (server.py 50-120).
THEOREM ServerRowsAreScoped == ServerSpec => []RowScoped
<1>1. Guarded => RowScoped
  BY Scoped DEF Guarded
<1>. QED  BY <1>1, GuardedInvariance, PTL

\* For every value of the constants a call that has ended is on record unless
\* it came over stdio, its process died, or its record failed in the guard and
\* in the wrapper (server.py audited_call_tool, gateway.py 80-107).
THEOREM EveryCallIsOnRecord == ServerSpec => []EveryCallOnRecord
  BY OnRecordInvariance, AccountedMeansRecorded, PTL

\* A revocation is effective in the whole server: on any process, no call that
\* comes after it changes a ticket or is recorded as allowed, whatever the
\* wrapper records (auth.py load_access_token, server.py 93-120).
THEOREM ServerRevocationIsEffective == ServerSpec => []RevocationCutsOff
  BY RevokedInvariance, BackedMeansCutOff, PTL

\* The shapes of the wrapper's variables, on any number of processes: it
\* records a call that came in and has left the pipeline, after a row that
\* exists (server.py audited_call_tool).
THEOREM ServerTypeCorrect == ServerSpec => []ServerTypeOK
<1>1. OnRecordInv => OneCallEach
  BY DEF OnRecordInv
<1>. QED
  BY <1>1, GuardedInvariance, OnRecordInvariance, StartWrapped, WrapInductive, WrapsHold, PTL
  DEF ServerSpec

\* Unless the SELECT that follows a committed event fails, a call has one event
\* at most, though two layers record and either may fail half way, and an
\* answer says what the event says (server.py 93-114, gateway.py 80-107).
THEOREM EvidenceIsSingle ==
  ASSUME "reply" \notin Faulty
  PROVE  ServerSpec => []EvidenceOnce
  BY GuardedInvariance, OnRecordInvariance, InitOnce, OnceInductive, OnceMeansEvidence,
     PTL DEF ServerSpec

\* For every value of the constants a change of the tickets is on record under
\* the client that made it, once its call has ended, though the guard's record()
\* failed after the commit; only a process that died, or a record() that failed
\* in the guard and in the wrapper, leaves it out (server.py 93-120).
THEOREM ChangesAreTraced == ServerSpec => []ChangesTraced
  BY GuardedInvariance, OnRecordInvariance, RevokedInvariance, InitTraced, TracedInductive,
     TracedMeansOnRecord, PTL DEF ServerSpec

\* For every value of the constants under which neither the SELECT after a
\* committed write nor a statement of the pipeline's record() fails, what is
\* recorded as denied has changed no ticket, by the pipeline or by the wrapper
\* (gateway.py 76-107, server.py 93-120). A record() that fails after a commit
\* does break it: the wrapper records the call as rejected before dispatch.
THEOREM ServerDenialsAreHarmless ==
  ASSUME "readback" \notin Faulty, RecordSure
  PROVE  ServerSpec => []DeniedLeavesNoTrace
  BY GuardedInvariance, OnRecordInvariance, InitTried, TriedInductive, TraceMeansNoSideEffect,
     PTL DEF ServerSpec

\* The audit rows an auditor gets tell of no call on a ticket of a team that
\* is not the auditor's, but for the calls whose subject could not be looked up
\* and for those over which the guard's record() failed: the wrapper records
\* these without a team (server.py 107-119), with the arguments they carried.
ServerAuditReadScoped ==
  \A i \in Instances : call[i] # Idle =>
    \A n \in call[i].rows :
      /\ audit[n].req.tool # "list_tickets"
      /\ ~audit[n].blind
      /\ ~(audit[n].reason = "rejected_before_dispatch" /\ audit[n].id \in lost)
      => \A k \in audit[n].tickets : tickets[k].team \in TeamsOf(call[i])

LEMMA ServerReadsScoped ==
  Guarded /\ RowsTagged /\ WrapperHolds => ServerAuditReadScoped
<1> SUFFICES ASSUME Guarded, RowsTagged, WrapperHolds, NEW i \in Instances, call[i] # Idle,
                    NEW n \in call[i].rows,
                    audit[n].req.tool # "list_tickets", ~audit[n].blind,
                    ~(audit[n].reason = "rejected_before_dispatch" /\ audit[n].id \in lost),
                    NEW k \in audit[n].tickets
             PROVE  tickets[k].team \in TeamsOf(call[i])
  BY DEF ServerAuditReadScoped
<1>1. n \in DOMAIN audit
  BY DEF RowsTagged, TaggedInv, Tagged
<1>2. audit[n].reason \notin WrapperReasons
  BY <1>1 DEF WrapperHolds, WrapperReasons
<1>. QED  BY <1>2, TaggedMeansScoped DEF Guarded, IInv, RowsTagged

\* With one process on the database, whatever the SDK rejects, whatever fails
\* and however it dies, the wrapper's rows widen what an auditor is told by the
\* calls over which the guard's record() failed, and by no other (store.py
\* audit_events, server.py 93-120).
THEOREM ServerAuditReadsAreScoped ==
  ASSUME OneInstance
  PROVE  ServerSpec => []ServerAuditReadScoped
<1>1. ServerInit => RowsTagged /\ WrapperHolds
  BY StartTagged DEF ServerInit, Init, RowsTagged, WrapperHolds
<1>2. OnRecordInv => OneCallEach
  BY DEF OnRecordInv
<1>3. Guarded /\ RowsTagged /\ [ServerNext]_serverVars => RowsTagged'
  BY ServerTagged
<1>. QED
  BY <1>1, <1>2, <1>3, GuardedInvariance, OnRecordInvariance, HoldsInductive, ServerReadsScoped,
     PTL DEF ServerSpec

=============================================================================
