--------------------------- MODULE ServerRefinement ---------------------------
(***************************************************************************)
(* Server implements CallContract: for any number of processes, whatever   *)
(* their statements interleave, fail or die, a step of the server is one   *)
(* step of the contract or none.                                           *)
(***************************************************************************)
EXTENDS ServerProofs

-----------------------------------------------------------------------------
(***************************************************************************)
(* Authorship: who has a call in hand that changed a ticket is its author, *)
(* a call that has not come to its change has made none, and a call that   *)
(* is to be answered has been decided and not been answered yet.           *)
(***************************************************************************)
Unwritten == {"tag", "guard", "dispatch", "update"}

Decided == {"allow", "deny"}

AuthorInv ==
  /\ \A w \in writes : w.id \in 0 .. arrived
  /\ \A w \in writes : \A i \in Instances : Handles(i, w.id) => i \notin Stdio /\ Carries(i, w)
  /\ \A i \in Instances : call[i].pc \in Unwritten => \A w \in writes : w.id # call[i].id
  /\ \A i \in Instances : call[i].pc \in LateStages => call[i].decision \in Decided
  /\ \A i \in Instances : call[i].pc = "reply" => \A a \in answers : a.id # call[i].id

\* A step of process i writes and answers for the call it has in hand only.
LEMMA StepAuthors ==
  ASSUME OnceInv, AuthorInv, NEW i \in Instances, Others(i),
         arrived \in Nat, arrived' \in {arrived, arrived + 1},
         \A w \in writes' \ writes : Handles(i, w.id),
         \A a \in answers' \ answers : Handles(i, a.id),
         \A w \in writes' : Handles(i, w.id)' => i \notin Stdio /\ Carries(i, w)',
         call'[i].pc \in Unwritten => \A w \in writes' : w.id # call'[i].id,
         call'[i].pc \in LateStages => call'[i].decision \in Decided,
         call'[i].pc = "reply" => \A a \in answers' : a.id # call'[i].id
  PROVE  AuthorInv'
<1>0. Idle.pc = "idle" /\ "idle" \notin Unwritten
  BY DEF Idle, Unwritten
<1>1. \A w \in writes' : w.id \in 0 .. arrived'
  <2>1. \A id : Handles(i, id) => id \in 0 .. arrived
    BY DEF OnceInv
  <2>2. 0 .. arrived \subseteq 0 .. arrived'
    OBVIOUS
  <2>. QED  BY <2>1, <2>2 DEF AuthorInv
<1>2. ASSUME NEW j \in Instances \ {i}, NEW id, Handles(j, id)
      PROVE  /\ \A w \in writes' : w.id = id => w \in writes
             /\ \A a \in answers' : a.id = id => a \in answers
  BY <1>2 DEF OnceInv
<1>3. ASSUME NEW w \in writes', NEW j \in Instances, Handles(j, w.id)'
      PROVE  j \notin Stdio /\ Carries(j, w)'
  <2>1. CASE j = i
    BY <1>3, <2>1
  <2>2. CASE j # i
    <3>1. Handles(j, w.id)
      BY <1>3, <2>2 DEF Handles, Others
    <3>2. j \notin Stdio /\ Carries(j, w)
      BY <1>2, <2>2, <3>1 DEF AuthorInv
    <3>. QED  BY <2>2, <3>2 DEF Carries, Others
  <2>. QED  BY <2>1, <2>2
<1>4. ASSUME NEW j \in Instances \ {i}, call'[j].pc \in Unwritten
      PROVE  \A w \in writes' : w.id # call'[j].id
  <2>1. call'[j] = call[j] /\ Handles(j, call[j].id)
    BY <1>0, <1>4 DEF Others, Handles
  <2>. QED  BY <1>2, <1>4, <2>1 DEF AuthorInv
<1>5. ASSUME NEW j \in Instances \ {i}, call'[j].pc = "reply"
      PROVE  \A a \in answers' : a.id # call'[j].id
  <2>1. call'[j] = call[j] /\ Handles(j, call[j].id)
    BY <1>0, <1>5 DEF Others, Handles
  <2>. QED  BY <1>2, <1>5, <2>1 DEF AuthorInv
<1>6. \A j \in Instances \ {i} : call'[j].pc \in LateStages => call'[j].decision \in Decided
  BY DEF AuthorInv, Others
<1>. QED  BY <1>1, <1>3, <1>4, <1>5, <1>6 DEF AuthorInv

\* A call does not come back to where it has not made its change, and what it
\* writes it writes from there.
LEMMA WrittenOnce ==
  ASSUME Shapes, NEW i \in Instances, Run(i)
  PROVE  /\ call'[i].pc \in Unwritten => call[i].pc \in Unwritten /\ writes' = writes
         /\ \/ writes' = writes
            \/ /\ call[i].pc \in {"dispatch", "update"}
               /\ \A w \in writes' \ writes : w.id = call[i].id /\ w.token = call[i].token
<1>1. call[i] \in InService
  BY RunMoves
<1>2. CASE writes' = writes /\ \E reason : Deny(i, reason)
  <2>1. call'[i].pc = "tail"
    BY <1>1, <1>2, DenyStays DEF StaysAt
  <2>. QED  BY <1>2, <2>1 DEF Unwritten
<1>3. CASE writes' = writes /\ \E tkts, rows : Allow(i, tkts, rows)
  BY <1>1, <1>3, AllowStays DEF StaysAt, Unwritten
<1>4. CASE AppendAudit(i)
  BY <1>1, <1>4, GotoStays DEF AppendAudit, StaysAt, Unwritten
<1>5. CASE ReadTail(i)
  <2>1. PICK v : call' = [call EXCEPT ![i].pc = "append", ![i].tail = v]
    BY <1>5 DEF ReadTail
  <2>2. StaysAt(i, "append", call[i].decision)
    BY <1>1, <2>1, FieldStays
  <2>. QED  BY <1>5, <2>2 DEF ReadTail, StaysAt, Unwritten
<1>6. CASE writes' = writes /\ call[i].pc \in Unwritten
  BY <1>6
<1>7. CASE CreateTicket(i) \/ UpdateStatus(i)
  <2>1. PICK v : call' = [call EXCEPT ![i].pc = "readback", ![i].tickets = v]
    BY <1>7 DEF CreateTicket, UpdateStatus
  <2>2. StaysAt(i, "readback", call[i].decision)
    BY <1>1, <2>1, FieldStays
  <2>3. /\ call[i].pc \in {"dispatch", "update"}
        /\ \A w \in writes' \ writes : w.id = call[i].id /\ w.token = call[i].token
    BY <1>7 DEF CreateTicket, UpdateStatus
  <2>. QED  BY <2>2, <2>3 DEF StaysAt, Unwritten
<1>. QED
  BY <1>2, <1>3, <1>4, <1>5, <1>6, <1>7
  DEF Run, Tag, TagFault, RejectToken, Throttle, Check, ListTickets, AuditRecent, GetTicket,
      RefuseTeam, CheckVisible, ReadBack, DispatchFault, Unwritten

\* A call that comes in has changed nothing.
LEMMA ArrivalAuthors ==
  ASSUME Guarded, OnRecordInv, OnceInv, AuthorInv, NEW i \in Instances,
         NEW t \in Tokens, NEW q \in Requests,
         Dispatch(i, t, q) \/ Reject(i, t, q) \/ LoadFails(i, t, q)
  PROVE  AuthorInv'
<1>1. /\ UNCHANGED <<writes, answers>> /\ Free(i) /\ arrived' = arrived + 1
      /\ DOMAIN call = Instances /\ DOMAIN wrapping = Instances
  BY DEF Dispatch, Reject, LoadFails, Arrive, Counted, ArriveFault, Guarded,
         OnRecordInv, OneCallEach, IInv, Shapes
<1>2. arrived \in Nat
  BY CountedInNat
<1>3. \A w \in writes' : w.id # arrived'
  BY <1>1, <1>2 DEF AuthorInv
<1>4. Idle.pc = "idle"
  BY DEF Idle
<1>5. CASE Dispatch(i, t, q)
  <2> PICK c : c = [pc |-> "tag", id |-> arrived', token |-> t, req |-> q,
                    authentic |-> t \in usable, tag |-> NoTeam, blind |-> FALSE,
                    decision |-> "none", reason |-> "none",
                    tickets |-> {}, rows |-> {}, tail |-> 0]
    OBVIOUS
  <2>1. call' = [call EXCEPT ![i] = c] /\ wrapping' = wrapping /\ c.pc = "tag" /\ c.id = arrived'
    BY <1>5 DEF Dispatch, Arrive
  <2>2. Others(i) /\ call'[i] = c
    BY <1>1, <2>1 DEF Others
  <2>3. \A w \in writes' : ~Handles(i, w.id)'
    BY <1>1, <1>3, <2>1, <2>2 DEF Handles, Free
  <2>. QED  BY <1>1, <1>2, <1>3, <2>1, <2>2, <2>3, StepAuthors DEF LateStages
<1>6. CASE call' = call /\ Raised(i, arrived', t, q, {})
  <2> PICK id, held : id = arrived' /\ held = {}
    OBVIOUS
  <2>1. wrapping'[i].id = id /\ \A j \in Instances \ {i} : wrapping'[j] = wrapping[j]
    <3>1. Raised(i, id, t, q, held) /\ id \in Nat /\ held \in SUBSET Nat
      BY <1>1, <1>2, <1>6
    <3>. QED  BY <3>1, RaisedHolds DEF OnRecordInv
  <2>2. Others(i) /\ call'[i] = Idle
    BY <1>1, <1>6, <2>1 DEF Others, Free
  <2>3. \A w \in writes' : ~Handles(i, w.id)'
    BY <1>3, <2>1, <2>2 DEF Handles
  <2>. QED  BY <1>1, <1>2, <1>4, <2>2, <2>3, StepAuthors DEF Unwritten, LateStages
<1>. QED  BY <1>5, <1>6 DEF Reject, LoadFails, Counted, ArriveFault

LEMMA GuardAuthors ==
  ASSUME Guarded, OnRecordInv, RevokedInv, TracedInv, OnceInv, AuthorInv,
         NEW i \in Instances, Guard(i)
  PROVE  AuthorInv'
<1>1. Run(i) /\ wrapping' = wrapping /\ Shapes
  BY DEF Guard, Guarded, IInv
<1>2. /\ call[i] \in InService /\ call[i] # Idle /\ arrived' = arrived /\ arrived \in Nat
      /\ \E pc, decision : pc \in Stages /\ StaysAt(i, pc, decision) /\ CameTo(i, pc, decision)
  BY <1>1, RunMoves, CountedInNat
<1>3. PICK pc, decision : pc \in Stages /\ StaysAt(i, pc, decision) /\ CameTo(i, pc, decision)
  BY <1>2
<1>4. answers' = answers /\ call[i].pc # "reply"
  BY <1>1
  DEF Run, Tag, RejectToken, Throttle, Check, ListTickets, AuditRecent, GetTicket,
      CreateTicket, RefuseTeam, CheckVisible, UpdateStatus, ReadBack, ReadTail,
      AppendAudit, TagFault, DispatchFault
<1>5. /\ Others(i) /\ wrapping[i] = Idle /\ wrapping'[i] = Idle /\ i \notin Stdio
      /\ call'[i].pc = pc /\ call'[i].id = call[i].id /\ call'[i].token = call[i].token
      /\ call'[i].authentic = call[i].authentic
  BY <1>1, <1>2, <1>3 DEF Others, StaysAt, OnRecordInv, OneCallEach, TracedInv
<1>6. call'[i] # Idle
  <2>1. Idle.pc = "idle" /\ "idle" \notin Stages
    BY DEF Idle, Stages
  <2>. QED  BY <1>3, <1>5, <2>1
<1>7. /\ call'[i].pc \in Unwritten => call[i].pc \in Unwritten /\ writes' = writes
      /\ \/ writes' = writes
         \/ /\ call[i].pc \in {"dispatch", "update"}
            /\ \A w \in writes' \ writes : w.id = call[i].id /\ w.token = call[i].token
  BY <1>1, WrittenOnce
<1>8. Handles(i, call[i].id) /\ \A w \in writes' \ writes : Handles(i, w.id)
  BY <1>2, <1>7 DEF Handles
<1>9. ASSUME NEW w \in writes', Handles(i, w.id)' PROVE Carries(i, w)'
  <2>1. w.id = call[i].id
    BY <1>5, <1>9 DEF Handles
  <2>2. w.token = call[i].token /\ call[i].authentic
    <3>1. CASE w \in writes
      BY <1>5, <1>8, <2>1, <3>1 DEF AuthorInv, Carries
    <3>2. CASE w \notin writes
      BY <1>2, <1>7, <3>2 DEF RevokedInv, Vouched, AtStore
    <3>. QED  BY <3>1, <3>2
  <2>. QED  BY <1>5, <1>6, <2>1, <2>2 DEF Carries
<1>10. call'[i].pc \in Unwritten => \A w \in writes' : w.id # call'[i].id
  BY <1>5, <1>7 DEF AuthorInv
<1>11. call'[i].pc \in LateStages => call'[i].decision \in Decided
  BY <1>1, DecidedLate DEF AuthorInv, Decided
<1>12. ASSUME call'[i].pc = "reply" PROVE \A a \in answers' : a.id # call'[i].id
  <2>1. ~OnRecord(call[i].id)
    BY <1>2, <1>4 DEF OnceInv, Awaits
  <2>. QED  BY <1>4, <1>5, <2>1 DEF OnceInv, Says, OnRecord
<1>. QED  BY <1>2, <1>4, <1>5, <1>8, <1>9, <1>10, <1>11, <1>12, StepAuthors

\* The pipeline of process i has no call, before or after.
LEMMA OutsideAuthors ==
  ASSUME Guarded, OnceInv, AuthorInv, NEW i \in Instances, Others(i), call'[i] = Idle,
         writes' = writes, arrived' \in {arrived, arrived + 1},
         \A a \in answers' \ answers : Handles(i, a.id),
         \A w \in writes : Handles(i, w.id)' => i \notin Stdio /\ Carries(i, w)'
  PROVE  AuthorInv'
<1>1. Idle.pc = "idle" /\ arrived \in Nat
  BY CountedInNat DEF Idle
<1>. QED  BY <1>1, StepAuthors DEF Unwritten, LateStages

LEMMA GuardLeftAuthors ==
  ASSUME Guarded, OnRecordInv, TracedInv, OnceInv, AuthorInv, NEW i \in Instances,
         Return(i) \/ GuardRaises(i)
  PROVE  AuthorInv'
<1>1. /\ call[i].pc \in {"tail", "append", "reply"} /\ call' = [call EXCEPT ![i] = Idle]
      /\ UNCHANGED <<writes, arrived>>
  BY DEF Return, Reply, GuardRaises, RecordFault
<1>2. call'[i] = Idle /\ \A j \in Instances \ {i} : call'[j] = call[j]
  BY <1>1, CallLeft DEF Guarded, IInv
<1>3. call[i] \in InService /\ call[i] # Idle
  BY <1>1, Running DEF Guarded, Stages, Pcs
<1>4. wrapping[i] = Idle /\ i \notin Stdio /\ Handles(i, call[i].id)
  BY <1>3 DEF OnRecordInv, OneCallEach, TracedInv, Handles
<1>5. CASE Return(i)
  <2>1. /\ wrapping' = wrapping
        /\ answers' = answers \cup {[id |-> call[i].id, decision |-> call[i].decision]}
    BY <1>5 DEF Return, Reply
  <2>2. Others(i) /\ \A id : ~Handles(i, id)'
    BY <1>2, <1>4, <2>1 DEF Others, Handles
  <2>. QED  BY <1>1, <1>2, <1>4, <2>1, <2>2, OutsideAuthors
<1>6. CASE GuardRaises(i)
  <2>1. call[i].id \in Nat /\ call[i].token \in Tokens /\ call[i].req \in Requests
    BY <1>3 DEF InService
  <2> PICK r : r = [pc |-> "tail", id |-> call[i].id, token |-> call[i].token,
                    req |-> call[i].req, tickets |-> call[i].tickets, tail |-> 0]
    OBVIOUS
  <2>2. wrapping' = [wrapping EXCEPT ![i] = r] /\ answers' = answers
    BY <1>6 DEF GuardRaises, Raised, RecordFault
  <2>3. r.id = call[i].id /\ r.token = call[i].token /\ r.pc = "tail"
    OBVIOUS
  <2>4. r # Idle
    <3>1. Idle.pc = "idle"
      BY DEF Idle
    <3>. QED  BY <2>3, <3>1
  <2>5. wrapping'[i] = r /\ \A j \in Instances \ {i} : wrapping'[j] = wrapping[j]
    BY <2>2 DEF OnRecordInv, OneCallEach
  <2>6. Others(i)
    BY <1>2, <2>5 DEF Others
  <2>7. ASSUME NEW w \in writes, Handles(i, w.id)' PROVE Carries(i, w)'
    <3>1. w.id = call[i].id
      BY <1>2, <2>3, <2>5, <2>7 DEF Handles
    <3>2. w.token = call[i].token
      BY <1>4, <3>1 DEF AuthorInv, Carries
    <3>. QED  BY <2>3, <2>4, <2>5, <3>1, <3>2 DEF Carries
  <2>. QED  BY <1>1, <1>2, <1>4, <2>2, <2>6, <2>7, OutsideAuthors
<1>. QED  BY <1>5, <1>6

LEMMA WrapperAuthors ==
  ASSUME Guarded, OnRecordInv, OnceInv, AuthorInv, NEW i \in Instances,
         WrapTail(i) \/ WrapAppend(i)
  PROVE  AuthorInv'
<1>1. /\ UNCHANGED <<call, writes, answers, arrived>> /\ OneCallEach
      /\ wrapping[i].pc \in {"tail", "append"}
  BY DEF WrapTail, WrapAppend, vars, OnRecordInv
<1>2. wrapping[i] # Idle /\ call[i] = Idle
  BY <1>1 DEF OneCallEach, Idle
<1> PICK u : u = wrapping[i]
  OBVIOUS
<1>3. CASE WrapTail(i)
  <2> PICK n : n = Len(audit)
    OBVIOUS
  <2> PICK x : x = [u EXCEPT !.pc = "append", !.tail = n]
    OBVIOUS
  <2>1. u \in InWrapper
    BY <1>1, <1>2 DEF OneCallEach
  <2>2. x.id = u.id /\ x.token = u.token /\ x.pc = "append"
    BY <2>1 DEF InWrapper
  <2>3. wrapping' = [wrapping EXCEPT ![i] = x]
    BY <1>3 DEF WrapTail
  <2>4. wrapping'[i] = x /\ \A j \in Instances \ {i} : wrapping'[j] = wrapping[j]
    BY <1>1, <2>3 DEF OneCallEach
  <2>5. x # Idle
    <3>1. Idle.pc = "idle"
      BY DEF Idle
    <3>. QED  BY <2>2, <3>1
  <2>6. Others(i) /\ call'[i] = Idle
    BY <1>1, <1>2, <2>4 DEF Others
  <2>7. ASSUME NEW w \in writes, Handles(i, w.id)' PROVE i \notin Stdio /\ Carries(i, w)'
    <3>1. w.id = u.id /\ Handles(i, w.id)
      BY <1>2, <2>2, <2>4, <2>6, <2>7 DEF Handles
    <3>2. w.token = u.token /\ i \notin Stdio
      BY <1>2, <3>1 DEF AuthorInv, Carries
    <3>. QED  BY <2>2, <2>4, <2>5, <3>1, <3>2 DEF Carries
  <2>. QED  BY <1>1, <2>6, <2>7, OutsideAuthors
<1>4. CASE WrapAppend(i)
  <2>1. wrapping' = [wrapping EXCEPT ![i] = Idle]
    BY <1>4 DEF WrapAppend
  <2>2. Others(i) /\ call'[i] = Idle /\ wrapping'[i] = Idle
    BY <1>1, <1>2, <2>1, WrapperLeft DEF Others
  <2>3. \A id : ~Handles(i, id)'
    BY <2>2 DEF Handles
  <2>. QED  BY <1>1, <2>2, <2>3, OutsideAuthors
<1>. QED  BY <1>3, <1>4

LEMMA GivenUpAuthors ==
  ASSUME Guarded, OnRecordInv, OnceInv, AuthorInv, NEW i \in Instances, WrapFault(i) \/ Die(i)
  PROVE  AuthorInv'
<1>1. UNCHANGED <<writes, answers, arrived>> /\ OneCallEach
  BY DEF WrapFault, Die, Crash, vars, OnRecordInv
<1>2. CASE Crash(i) /\ UNCHANGED wrapping
  <2>1. call[i] # Idle /\ call' = [call EXCEPT ![i] = Idle]
    BY <1>2 DEF Crash
  <2>2. call'[i] = Idle /\ \A j \in Instances \ {i} : call'[j] = call[j]
    BY <2>1, CallLeft DEF Guarded, IInv
  <2>3. Others(i) /\ wrapping'[i] = Idle
    BY <1>1, <1>2, <2>1, <2>2 DEF Others, OneCallEach
  <2>4. \A id : ~Handles(i, id)'
    BY <2>2, <2>3 DEF Handles
  <2>. QED  BY <1>1, <2>2, <2>3, <2>4, OutsideAuthors
<1>3. CASE wrapping[i] # Idle /\ wrapping' = [wrapping EXCEPT ![i] = Idle] /\ UNCHANGED call
  <2>1. Others(i) /\ call'[i] = Idle /\ wrapping'[i] = Idle
    BY <1>1, <1>3, WrapperLeft DEF Others, OneCallEach
  <2>2. \A id : ~Handles(i, id)'
    BY <2>1 DEF Handles
  <2>. QED  BY <1>1, <2>1, <2>2, OutsideAuthors
<1>. QED  BY <1>2, <1>3 DEF WrapFault, Die, vars

LEMMA ServerStepAuthors ==
  ASSUME Guarded, OnRecordInv, RevokedInv, TracedInv, OnceInv, AuthorInv,
         NEW i \in Instances, ServerStep(i)
  PROVE  AuthorInv'
<1>1. CASE \E t \in Tokens, q \in Requests :
             Dispatch(i, t, q) \/ Reject(i, t, q) \/ LoadFails(i, t, q)
  BY <1>1, ArrivalAuthors
<1>2. CASE Guard(i)
  BY <1>2, GuardAuthors
<1>3. CASE Return(i) \/ GuardRaises(i)
  BY <1>3, GuardLeftAuthors
<1>4. CASE WrapTail(i) \/ WrapAppend(i)
  BY <1>4, WrapperAuthors
<1>5. CASE WrapFault(i) \/ Die(i)
  BY <1>5, GivenUpAuthors
<1>6. CASE NoAccess(i) \/ RevokeToken(i)
  <2>1. /\ UNCHANGED <<call, wrapping, writes, answers>> /\ Free(i)
        /\ arrived' \in {arrived, arrived + 1}
    BY <1>6 DEF NoAccess, Counted, Free, RevokeToken, Revoke
  <2>2. Others(i) /\ call'[i] = Idle /\ \A id : ~Handles(i, id)'
    BY <2>1 DEF Others, Handles, Free
  <2>. QED  BY <2>1, <2>2, OutsideAuthors
<1>. QED  BY <1>1, <1>2, <1>3, <1>4, <1>5, <1>6 DEF ServerStep

(***************************************************************************)
(* All that the contract needs to know of a state of the server.           *)
(***************************************************************************)
RInv ==
  /\ Guarded /\ OnRecordInv /\ RevokedInv /\ TracedInv
  /\ OnceInv /\ WrapInv /\ AuthorInv

LEMMA RInvStart == ServerInit => RInv
<1>1. ServerInit => AuthorInv
  BY DEF ServerInit, Init, AuthorInv, Unwritten, LateStages, Idle
<1>2. ServerInit => Guarded /\ RevokedInv
  BY Start, StartBacked DEF ServerInit, Guarded
<1>. QED  BY <1>1, <1>2, InitOnRecord, InitTraced, InitOnce, StartWrapped DEF RInv

LEMMA RInvInductive ==
  ASSUME "reply" \notin Faulty
  PROVE  RInv /\ [ServerNext]_serverVars => RInv'
<1> SUFFICES ASSUME RInv, [ServerNext]_serverVars PROVE RInv'
  OBVIOUS
<1>1. AuthorInv'
  <2>1. CASE ServerNext
    BY <2>1, ServerStepAuthors DEF ServerNext, RInv
  <2>2. CASE UNCHANGED serverVars
    BY <2>2 DEF serverVars, vars, RInv, AuthorInv, Handles, Carries
  <2>. QED  BY <2>1, <2>2
<1>2. OneCallEach
  BY DEF RInv, OnRecordInv
<1>. QED
  BY <1>1, <1>2, GuardedInductive, OnRecordInductive, ServerBacked, TracedInductive,
     OnceInductive, WrapInductive DEF RInv

-----------------------------------------------------------------------------
(***************************************************************************)
(* What the steps do to what can be seen                                   *)
(***************************************************************************)
LEMMA TrailSame == ASSUME audit' = audit PROVE Trail' = Trail
  BY DEF Trail

LEMMA RevocationsSame == ASSUME UNCHANGED <<usable, revokedAt>> PROVE Revocations' = Revocations
  BY DEF Revocations

LEMMA TrailRows ==
  /\ DOMAIN Trail = DOMAIN audit
  /\ \A k \in DOMAIN audit : /\ Trail[k].id = audit[k].id
                             /\ Trail[k].decision = audit[k].decision
  BY DEF Trail

\* An event is added to the trail.
LEMMA TrailGrows ==
  ASSUME AuditRows, NEW row, audit' = Append(audit, row)
  PROVE  Trail' = Append(Trail, [id |-> row.id, token |-> row.token,
                                 client |-> row.client, decision |-> row.decision])
<1> DEFINE view(r) == [id |-> r.id, token |-> r.token, client |-> r.client,
                       decision |-> r.decision]
           n == Len(audit) + 1
           T == {view(audit[k]) : k \in DOMAIN audit} \cup {view(row)}
<1>1. /\ Len(audit) \in Nat
      /\ DOMAIN audit = 1 .. Len(audit) /\ DOMAIN audit' = 1 .. n
      /\ \A k \in 1 .. Len(audit) : audit'[k] = audit[k]
      /\ audit'[n] = row
  BY RowsAfter
<1>2. Trail = [k \in DOMAIN audit |-> view(audit[k])]
  BY DEF Trail
<1>3. Trail' = [k \in DOMAIN audit' |-> view(audit'[k])]
  BY DEF Trail
<1> HIDE DEF view
<1>4. Trail \in Seq(T) /\ Len(Trail) = Len(audit) /\ view(row) \in T
  <2>1. Trail \in [1 .. Len(audit) -> T]
    BY <1>1, <1>2
  <2>. QED  BY <1>1, <2>1
<1>5. Trail' \in Seq(T) /\ Len(Trail') = n
  <2>1. n \in Nat /\ \A k \in 1 .. n : k \in 1 .. Len(audit) \/ k = n
    BY <1>1
  <2>2. \A k \in 1 .. n : view(audit'[k]) \in T
    BY <1>1, <2>1
  <2>3. Trail' \in [1 .. n -> T]
    BY <1>1, <1>3, <2>2
  <2>. QED  BY <2>1, <2>3
<1>6. Trail' = Append(Trail, view(row))
  <2> HIDE DEF T
  <2>1. /\ Append(Trail, view(row)) \in Seq(T)
        /\ Len(Append(Trail, view(row))) = n
        /\ \A k \in 1 .. n :
             Append(Trail, view(row))[k] = IF k = n THEN view(row) ELSE Trail[k]
    BY <1>1, <1>4
  <2>2. \A k \in 1 .. n : Trail'[k] = IF k = n THEN view(row) ELSE Trail[k]
    BY <1>1, <1>2, <1>3
  <2>3. \A k \in 1 .. Len(Trail') : Trail'[k] = Append(Trail, view(row))[k]
    BY <1>5, <2>1, <2>2
  <2>. QED  BY <1>5, <2>1, <2>3, SeqEqual
<1>. QED  BY <1>6 DEF view

\* Who handles a call gives it a number the contract knows.
LEMMA NumberKnown ==
  ASSUME RInv, NEW i \in Instances, NEW id, Handles(i, id)
  PROVE  id \in 1 .. arrived
<1>1. id \in 0 .. arrived
  BY DEF RInv, OnceInv
<1>2. id \in 1 .. MaxCalls
  BY DEF RInv, WrapInv, Numbered, RecordFits, Handles
<1>3. arrived \in Nat
  BY CountedInNat DEF RInv
<1>. QED  BY <1>1, <1>2, <1>3

\* A call whose event is awaited is not on record.
LEMMA NotYetOnRecord ==
  ASSUME RInv, NEW i \in Instances, NEW id, Awaits(i, id)
  PROVE  ~Contract!OnRecord(id)
<1>1. ~OnRecord(id)
  BY DEF RInv, OnceInv
<1>. QED  BY <1>1, TrailRows DEF OnRecord, Contract!OnRecord

\* What is backed may be done.
LEMMA BackedMay ==
  ASSUME NEW t \in Tokens, NEW id, Backed(t, id)
  PROVE  Contract!May(id, t)
  BY DEF Backed, Contract!May, Revocations

LEMMA SilentStep ==
  ASSUME UNCHANGED <<tickets, arrived, usable, revokedAt, writes, audit, answers>>
  PROVE  UNCHANGED Contract!vars
  BY TrailSame, RevocationsSame DEF Contract!vars

LEMMA ArrivalSeen ==
  ASSUME arrived' = arrived + 1, UNCHANGED <<tickets, usable, revokedAt, writes, audit, answers>>
  PROVE  Contract!Next
<1>1. Contract!Arrive
  BY TrailSame, RevocationsSame DEF Contract!Arrive
<1>. QED  BY <1>1 DEF Contract!Next

LEMMA RevokeSeen ==
  ASSUME RInv, NEW i \in Instances, NEW t \in Tokens, Revoke(i, t)
  PROVE  Contract!Next
<1>1. /\ t \in usable /\ usable' = usable \ {t} /\ revokedAt' = [revokedAt EXCEPT ![t] = arrived]
      /\ UNCHANGED <<tickets, arrived, writes, audit, answers>> /\ DOMAIN revokedAt = Tokens
  BY DEF Revoke, RInv, RevokedInv
<1>2. Tokens \ usable' = (Tokens \ usable) \cup {t} /\ DOMAIN Revocations = Tokens \ usable
  BY <1>1 DEF Revocations
<1>3. \A u \in Tokens \ usable' :
        revokedAt'[u] = IF u = t THEN arrived ELSE Revocations[u]
  BY <1>1, <1>2 DEF Revocations
<1>4. Revocations' = [u \in DOMAIN Revocations \cup {t} |->
                        IF u = t THEN arrived ELSE Revocations[u]]
  BY <1>2, <1>3 DEF Revocations
<1>5. Contract!Revoke(t)
  BY <1>1, <1>2, <1>4, TrailSame DEF Contract!Revoke
<1>. QED  BY <1>5 DEF Contract!Next

\* A call at the store, before its change: it may make it.
LEMMA AboutToChange ==
  ASSUME RInv, NEW i \in Instances, call[i].pc \in {"dispatch", "update"},
         call[i].req.tool \in {"create_ticket", "update_ticket_status"}
  PROVE  /\ call[i].id \in 1 .. arrived /\ call[i].token \in Tokens
         /\ Contract!May(call[i].id, call[i].token)
         /\ "tickets:write" \in TokenScopes[call[i].token]
         /\ ~Contract!OnRecord(call[i].id)
         /\ \A w \in writes : w.id # call[i].id
         /\ call[i].pc = "dispatch" => Validated(call[i].req)
<1>1. call[i] \in InService /\ Cleared(call[i]) /\ call[i] # Idle
  BY Running DEF RInv, Guarded, Stages, Pcs
<1>2. Handles(i, call[i].id) /\ Awaits(i, call[i].id)
  BY <1>1 DEF Handles, Awaits
<1>3. call[i].authentic /\ Backed(call[i].token, call[i].id)
  BY <1>1 DEF RInv, RevokedInv, Vouched, AtStore
<1>4. call[i].token \in Tokens
  BY <1>1 DEF InService
<1>5. "tickets:write" \in TokenScopes[call[i].token]
  BY <1>1 DEF Cleared, Authorized, ToolScope
<1>6. \A w \in writes : w.id # call[i].id
  BY DEF RInv, AuthorInv, Unwritten
<1>7. call[i].pc = "dispatch" => Validated(call[i].req)
  BY <1>1 DEF Cleared
<1>. QED  BY <1>2, <1>3, <1>4, <1>5, <1>6, <1>7, NumberKnown, NotYetOnRecord, BackedMay

LEMMA CreateSeen ==
  ASSUME RInv, NEW i \in Instances, CreateTicket(i)
  PROVE  Contract!Next
<1> PICK id, t, team, k : /\ id = call[i].id /\ t = call[i].token /\ team = call[i].req.team
                          /\ k = Len(tickets) + 1
  OBVIOUS
<1>1. /\ call[i].pc = "dispatch" /\ call[i].req.tool = "create_ticket" /\ team \in TokenTeams[t]
      /\ tickets' = Append(tickets, [team |-> team, status |-> "open"])
      /\ writes' = writes \cup {[id |-> id, token |-> t, ticket |-> k]}
      /\ UNCHANGED <<arrived, usable, revokedAt, audit, answers>>
  BY DEF CreateTicket, TeamsOf
<1>2. /\ id \in 1 .. arrived /\ t \in Tokens /\ Contract!May(id, t)
      /\ "tickets:write" \in TokenScopes[t]
      /\ ~Contract!OnRecord(id) /\ \A w \in writes : w.id # id
  BY <1>1, AboutToChange
<1>3. Contract!Opened(t, k)
  BY <1>1 DEF Contract!Opened
<1>4. Contract!Change(id, t, k)
  BY <1>1, <1>2, <1>3, TrailSame, RevocationsSame DEF Contract!Change
<1>5. k \in 1 .. Len(tickets) + 1
  BY TicketTyped DEF RInv, Guarded, IInv, Shapes
<1>. QED  BY <1>2, <1>4, <1>5 DEF Contract!Next

LEMMA UpdateSeen ==
  ASSUME RInv, NEW i \in Instances, UpdateStatus(i)
  PROVE  Contract!Next
<1> PICK id, t, status, k : /\ id = call[i].id /\ t = call[i].token
                            /\ status = call[i].req.status /\ k = call[i].req.ticket
  OBVIOUS
<1>1. /\ call[i].pc = "update" /\ tickets' = [tickets EXCEPT ![k].status = status]
      /\ writes' = writes \cup {[id |-> id, token |-> t, ticket |-> k]}
      /\ UNCHANGED <<arrived, usable, revokedAt, audit, answers>>
  BY DEF UpdateStatus
<1>2. Cleared(call[i])
  BY <1>1, Running DEF RInv, Guarded, Stages, Pcs
<1>3. /\ call[i].req.tool = "update_ticket_status" /\ k \in DOMAIN tickets
      /\ tickets[k].team \in TokenTeams[t] /\ status \in Statuses
  BY <1>1, <1>2 DEF Cleared, InScope, Exists, TeamsOf, Validated
<1>4. /\ id \in 1 .. arrived /\ t \in Tokens /\ Contract!May(id, t)
      /\ "tickets:write" \in TokenScopes[t]
      /\ ~Contract!OnRecord(id) /\ \A w \in writes : w.id # id
  BY <1>1, <1>3, AboutToChange
<1>5. Contract!Restated(t, k)
  BY <1>1, <1>3 DEF Contract!Restated
<1>6. Contract!Change(id, t, k)
  BY <1>1, <1>4, <1>5, TrailSame, RevocationsSame DEF Contract!Change
<1>7. k \in 1 .. Len(tickets) + 1
  BY <1>3, TicketTyped DEF RInv, Guarded, IInv, Shapes
<1>. QED  BY <1>4, <1>6, <1>7 DEF Contract!Next

\* An event is seen: of a call that has none, under the client of its change.
LEMMA EventSeen ==
  ASSUME RInv, NEW i \in Instances, NEW row, audit' = Append(audit, row),
         UNCHANGED <<tickets, arrived, usable, revokedAt, writes, answers>>,
         Awaits(i, row.id), row.token \in Tokens, row.decision \in Decided,
         row.client \in {Holder[row.token], "none"},
         row.decision = "allow" =>
           Backed(row.token, row.id) /\ row.client = Holder[row.token],
         \A w \in writes : w.id = row.id => w.token = row.token /\ row.client = Holder[row.token]
  PROVE  Contract!Next
<1> PICK id, t, client, decision :
      id = row.id /\ t = row.token /\ client = row.client /\ decision = row.decision
  OBVIOUS
<1>1. Trail' = Append(Trail, [id |-> id, token |-> t, client |-> client, decision |-> decision])
  BY TrailGrows DEF RInv, Guarded
<1>2. id \in 1 .. arrived
  BY NumberKnown DEF Awaits, Handles
<1>3. Contract!Record(id, t, client, decision)
  BY <1>1, NotYetOnRecord, BackedMay, RevocationsSame DEF Contract!Record
<1>4. t \in Tokens /\ client \in {Holder[t], "none"} /\ decision \in {"allow", "deny"}
  BY DEF Decided
<1>. QED  BY <1>2, <1>3, <1>4 DEF Contract!Next

LEMMA GuardEventSeen ==
  ASSUME RInv, NEW i \in Instances, AppendAudit(i)
  PROVE  Contract!Next
<1> PICK row : row = Event(call[i])
  OBVIOUS
<1>1. /\ call[i].pc = "append" /\ audit' = Append(audit, row)
      /\ UNCHANGED <<tickets, arrived, usable, revokedAt, writes, answers>>
  BY DEF AppendAudit
<1>2. /\ row.id = call[i].id /\ row.token = call[i].token /\ row.decision = call[i].decision
      /\ row.client = IF call[i].authentic THEN Holder[call[i].token] ELSE "none"
  BY DEF Event
<1>3. call[i] \in InService /\ call[i] # Idle /\ Guarded
  BY <1>1, Running DEF RInv, Guarded, Stages, Pcs
<1>4. call[i].token \in Tokens /\ call[i].decision \in Decided
  BY <1>1, <1>3 DEF InService, RInv, AuthorInv, LateStages
<1>5. Handles(i, call[i].id) /\ Awaits(i, row.id) /\ wrapping[i] = Idle
  BY <1>1, <1>2, <1>3 DEF Handles, Awaits, RInv, OnRecordInv, OneCallEach
<1>6. call[i].decision = "allow" => call[i].authentic /\ Backed(call[i].token, call[i].id)
  BY <1>3 DEF RInv, RevokedInv, Vouched
<1>7. \A w \in writes : w.id = call[i].id => w.token = call[i].token /\ call[i].authentic
  BY <1>5 DEF RInv, AuthorInv, Carries
<1>. QED  BY <1>1, <1>2, <1>4, <1>5, <1>6, <1>7, EventSeen

LEMMA WrapEventSeen ==
  ASSUME RInv, NEW i \in Instances, WrapAppend(i)
  PROVE  Contract!Next
<1> PICK row : row = WrapEvent(i)
  OBVIOUS
<1>1. /\ wrapping[i].pc = "append" /\ audit' = Append(audit, row)
      /\ UNCHANGED <<tickets, arrived, usable, revokedAt, writes, answers>>
  BY DEF WrapAppend
<1>2. /\ row.id = wrapping[i].id /\ row.token = wrapping[i].token /\ row.decision = "deny"
      /\ row.client = IF i \in Stdio THEN "none" ELSE Holder[wrapping[i].token]
  BY DEF WrapEvent
<1>3. wrapping[i] # Idle /\ wrapping[i] \in InWrapper /\ call[i] = Idle
  BY <1>1 DEF Idle, RInv, OnRecordInv, OneCallEach
<1>4. wrapping[i].token \in Tokens
  BY <1>3 DEF InWrapper
<1>5. Handles(i, wrapping[i].id) /\ Awaits(i, row.id)
  BY <1>2, <1>3 DEF Handles, Awaits
<1>6. \A w \in writes : w.id = wrapping[i].id => w.token = wrapping[i].token /\ i \notin Stdio
  BY <1>3, <1>5 DEF RInv, AuthorInv, Carries
<1>. QED  BY <1>1, <1>2, <1>4, <1>5, <1>6, EventSeen DEF Decided

LEMMA AnswerSeen ==
  ASSUME RInv, NEW i \in Instances, Reply(i)
  PROVE  Contract!Next
<1> PICK id, decision : id = call[i].id /\ decision = call[i].decision
  OBVIOUS
<1>1. /\ call[i].pc = "reply"
      /\ answers' = answers \cup {[id |-> id, decision |-> decision]}
      /\ UNCHANGED <<tickets, arrived, usable, revokedAt, writes, audit>>
  BY DEF Reply
<1>2. Says(id, decision)
  BY <1>1 DEF RInv, OnceInv
<1>3. \E k \in DOMAIN Trail : Trail[k].id = id /\ Trail[k].decision = decision
  BY <1>2, TrailRows DEF Says
<1>4. /\ \A a \in answers : a.id # id
      /\ decision \in {"allow", "deny"}
  BY <1>1 DEF RInv, AuthorInv, LateStages, Decided
<1>5. Contract!Tell(id, decision)
  BY <1>1, <1>3, <1>4, TrailSame, RevocationsSame DEF Contract!Tell
<1>6. id \in 1 .. arrived
  <2>1. Idle.pc = "idle"
    BY DEF Idle
  <2>. QED  BY <1>1, <2>1, NumberKnown DEF Handles
<1>. QED  BY <1>4, <1>5, <1>6 DEF Contract!Next

\* The pipeline's other statements are not seen.
LEMMA GuardSeen ==
  ASSUME RInv, NEW i \in Instances, Guard(i)
  PROVE  Contract!Next \/ UNCHANGED Contract!vars
<1>1. CASE CreateTicket(i) \/ UpdateStatus(i) \/ AppendAudit(i)
  BY <1>1, CreateSeen, UpdateSeen, GuardEventSeen
<1>2. CASE UNCHANGED <<tickets, arrived, usable, revokedAt, writes, audit, answers>>
  BY <1>2, SilentStep
<1>. QED
  BY <1>1, <1>2
  DEF Guard, Run, Tag, RejectToken, Throttle, Check, ListTickets, AuditRecent, GetTicket,
      RefuseTeam, CheckVisible, ReadBack, ReadTail, TagFault, DispatchFault

LEMMA StepSeen ==
  ASSUME RInv, NEW i \in Instances, ServerStep(i)
  PROVE  Contract!Next \/ UNCHANGED Contract!vars
<1>1. CASE \/ \E t \in Tokens, q \in Requests : Dispatch(i, t, q) \/ Reject(i, t, q) \/ LoadFails(i, t, q)
           \/ NoAccess(i)
  BY <1>1, ArrivalSeen DEF Dispatch, Arrive, Reject, LoadFails, NoAccess, Counted, ArriveFault
<1>2. CASE Guard(i)
  BY <1>2, GuardSeen
<1>3. CASE Return(i)
  BY <1>3, AnswerSeen DEF Return
<1>4. CASE GuardRaises(i) \/ WrapTail(i) \/ WrapFault(i) \/ Die(i)
  BY <1>4, SilentStep DEF GuardRaises, RecordFault, WrapTail, WrapFault, Die, Crash, vars
<1>5. CASE WrapAppend(i)
  BY <1>5, WrapEventSeen
<1>6. CASE RevokeToken(i)
  BY <1>6, RevokeSeen DEF RevokeToken
<1>. QED  BY <1>1, <1>2, <1>3, <1>4, <1>5, <1>6 DEF ServerStep

LEMMA NextSeen == ASSUME RInv, [ServerNext]_serverVars PROVE [Contract!Next]_Contract!vars
<1>1. CASE ServerNext
  BY <1>1, StepSeen DEF ServerNext
<1>2. CASE UNCHANGED serverVars
  BY <1>2, SilentStep DEF serverVars, vars
<1>. QED  BY <1>1, <1>2

LEMMA StartSeen == ServerInit => Contract!Init
<1> SUFFICES ASSUME ServerInit PROVE Contract!Init
  OBVIOUS
<1>1. /\ tickets = [k \in DOMAIN Seeded |-> [team |-> Seeded[k], status |-> "open"]]
      /\ arrived = 0 /\ usable = Tokens /\ audit = <<>> /\ writes = {} /\ answers = {}
  BY DEF ServerInit, Init
<1>2. Revocations = [t \in {} |-> 0]
  BY <1>1 DEF Revocations
<1>3. Trail = <<>>
  BY <1>1 DEF Trail
<1>. QED  BY <1>1, <1>2, <1>3 DEF Contract!Init

-----------------------------------------------------------------------------
\* For any number of processes over HTTP and stdio, however their statements
\* interleave, fail or die, the server does for each call what the contract
\* allows and no more: one change under a token that may make it, then one event
\* under the client, then one answer that says the same (gateway.py invoke,
\* server.py audited_call_tool).  It is assumed that the SELECT after a committed
\* event does not fail (store.py:214), after which the call is recorded twice.
THEOREM ContractKept ==
  ASSUME "reply" \notin Faulty
  PROVE  ServerSpec => KeepsContract
<1>1. ServerInit => RInv /\ Contract!Init
  BY RInvStart, StartSeen
<1>2. RInv /\ [ServerNext]_serverVars => RInv' /\ [Contract!Next]_Contract!vars
  BY RInvInductive, NextSeen
<1>. QED  BY <1>1, <1>2, PTL DEF ServerSpec, KeepsContract, Contract!Spec

=============================================================================
