----------------------- MODULE StoreConnectionProofs -----------------------
(***************************************************************************)
(* A stale version never answers: for any number of processes, tokens and  *)
(* calls, any interleaving of their statements, timeouts and deaths.       *)
(***************************************************************************)
EXTENDS StoreConnection, SequenceTheorems, FiniteSetTheorems, TLAPS

\* A call that is late is so for a revocation every newest version holds.
LateIsRevoked ==
  \A i \in Instances : call[i].late => Revoked(call[i].token, Len(log))

\* Only an accepted token comes to a write of its own.
WorkAllowed == \A i \in Instances : pc[i] = "work" => call[i].allowed

\* A late call whose token was accepted is tied to an old version: it never
\* gets the lock, and never gets to an answer.
StaleStays ==
  \A i \in Instances : call[i].allowed /\ call[i].late =>
    /\ conn[i].mode = "pinned"
    /\ conn[i].at < Len(log)
    /\ pc[i] # "answer"

LogClean == \A k \in DOMAIN log : log[k].kind \in {"ticket", "allow"} => ~log[k].late

IInv == TypeOK /\ LateIsRevoked /\ WorkAllowed /\ StaleStays /\ LogClean

Pcs == Writing \cup {"down", "count", "idle", "check", "tail", "answer", "error"}

-----------------------------------------------------------------------------
LEMMA LogTyped ==
  ASSUME log \in Seq(Entries)
  PROVE  /\ Len(log) \in Nat
         /\ DOMAIN log = 1 .. Len(log)
         /\ \A k \in 1 .. Len(log) : log[k] \in Entries
  BY LenProperties, ElementOfSeq

\* The shape of a connection is that of a version it can see.
LEMMA ConnTyped ==
  ASSUME TypeOK, NEW i \in Instances
  PROVE  /\ conn[i] \in Conns
         /\ conn[i].mode = "pinned" => conn[i].at \in 0 .. Len(log)
         /\ View(i) \in 0 .. Len(log)
         /\ conn[i] = Pinned(Len(log)) => View(i) = Len(log)
<1>1. Len(log) \in Nat
  BY LogTyped DEF TypeOK
<1>2. conn[i] \in Conns
  BY DEF TypeOK
<1>3. CASE conn[i] \in {Autocommit, Open}
  <2>1. conn[i].mode # "pinned"
    <3>1. Autocommit.mode = "auto" /\ Open.mode = "open"
      BY DEF Autocommit, Open
    <3>. QED  BY <1>3, <3>1
  <2>2. conn[i] # Pinned(Len(log))
    BY <2>1 DEF Pinned
  <2>. QED  BY <1>1, <1>2, <2>1, <2>2 DEF View
<1>4. CASE \E n \in 0 .. Len(log) : conn[i] = Pinned(n)
  <2>1. PICK n \in 0 .. Len(log) : conn[i] = Pinned(n)
    BY <1>4
  <2>2. conn[i].mode = "pinned" /\ conn[i].at = n
    BY <2>1 DEF Pinned
  <2>3. conn[i] = Pinned(Len(log)) => n = Len(log)
    BY <2>2 DEF Pinned
  <2>. QED  BY <1>1, <1>2, <2>2, <2>3 DEF View
<1>5. conn[i] \in {Autocommit, Open} \/ \E n \in 0 .. Len(log) : conn[i] = Pinned(n)
  BY <1>2 DEF Conns
<1>. QED  BY <1>2, <1>3, <1>4, <1>5

\* A process whose version is the newest has no late call in hand.
LEMMA NewestIsFresh ==
  ASSUME IInv, NEW i \in Instances, View(i) = Len(log)
  PROVE  ~(call[i].allowed /\ call[i].late)
<1>. SUFFICES ASSUME call[i].allowed, call[i].late PROVE FALSE
  OBVIOUS
<1>1. conn[i].mode = "pinned" /\ conn[i].at < Len(log)
  BY DEF IInv, StaleStays
<1>2. Len(log) \in Nat /\ conn[i].at \in 0 .. Len(log)
  BY <1>1, ConnTyped, LogTyped DEF IInv, TypeOK
<1>. QED  BY <1>1, <1>2 DEF View

\* Steps that commit nothing, touch one process, and leave its call as it is
\* or make it one that is not late and accepted.
LEMMA QuietStep ==
  ASSUME IInv, NEW i \in Instances, log' = log,
         TypeOK',
         \A j \in Instances \ {i} :
           /\ pc'[j] = pc[j]
           /\ conn'[j] = conn[j]
           /\ call'[j].token = call[j].token
           /\ call'[j].late = call[j].late
           /\ call'[j].allowed = call[j].allowed,
         call'[i].late => Revoked(call'[i].token, Len(log)),
         pc'[i] = "work" => call'[i].allowed,
         call'[i].allowed /\ call'[i].late =>
           /\ conn'[i].mode = "pinned"
           /\ conn'[i].at < Len(log)
           /\ pc'[i] # "answer"
  PROVE  IInv'
<1>1. LateIsRevoked'
  BY DEF IInv, LateIsRevoked, Revoked
<1>2. WorkAllowed'
  BY DEF IInv, WorkAllowed
<1>3. StaleStays'
  BY DEF IInv, StaleStays
<1>4. LogClean'
  BY DEF IInv, LogClean
<1>. QED  BY <1>1, <1>2, <1>3, <1>4 DEF IInv

-----------------------------------------------------------------------------
(***************************************************************************)
(* The shapes.                                                             *)
(***************************************************************************)
LEMMA ConnsGrow ==
  ASSUME NEW n \in Nat
  PROVE  /\ Autocommit \in {Autocommit, Open} \cup {Pinned(k) : k \in 0 .. n}
         /\ Open \in {Autocommit, Open} \cup {Pinned(k) : k \in 0 .. n}
         /\ Pinned(n) \in {Autocommit, Open} \cup {Pinned(k) : k \in 0 .. n}
         /\ {Autocommit, Open} \cup {Pinned(k) : k \in 0 .. n}
              \subseteq {Autocommit, Open} \cup {Pinned(k) : k \in 0 .. n + 1}
<1>1. n \in 0 .. n /\ 0 .. n \subseteq 0 .. n + 1
  OBVIOUS
<1>. QED  BY <1>1

LEMMA NoCallTyped == NoCall \in Calls /\ ~NoCall.late /\ ~NoCall.allowed /\ NoCall.token = NoOne
  BY DEF NoCall, Calls

\* One process goes on at a pc, with a connection and a call; the lock is not
\* another's business.
LEMMA ShapesKept ==
  ASSUME TypeOK, NEW i \in Instances, log' = log,
         NEW at \in Pcs, pc' = [pc EXCEPT ![i] = at],
         conn' \in [Instances -> Conns],
         \A j \in Instances \ {i} : conn'[j] = conn[j],
         call' \in [Instances -> Calls],
         writer' \in {writer, NoOne}, writer' # i,
         begun' \in 0 .. MaxCalls, crashes' \in 0 .. MaxCrashes
  PROVE  TypeOK'
<1>1. pc' \in [Instances -> Pcs]
  BY DEF TypeOK, Pcs
<1>2. Conns' = Conns
  BY DEF Conns
<1>3. writer' # NoOne => /\ writer' \in Instances
                         /\ pc'[writer'] \in Writing
                         /\ conn'[writer'] = Pinned(Len(log'))
  BY DEF TypeOK
<1>. QED  BY <1>1, <1>2, <1>3 DEF TypeOK, Pcs

LEMMA InsertInv ==
  ASSUME IInv, NEW i \in Instances, Insert(i)
  PROVE  IInv'
<1>1. /\ log' = log /\ pc' = pc /\ begun' = begun /\ crashes' = crashes
      /\ writer' = i /\ pc[i] \in Writing /\ View(i) = Len(log)
      /\ conn' = [conn EXCEPT ![i] = Pinned(Len(log))]
      /\ call' = [j \in Instances |-> IF j = i THEN call[j] ELSE [call[j] EXCEPT !.quiet = FALSE]]
  BY DEF Insert
<1>2. Len(log) \in Nat /\ conn \in [Instances -> Conns] /\ call \in [Instances -> Calls]
  BY LogTyped DEF IInv, TypeOK
<1>3. \A j \in Instances : /\ call'[j] \in Calls
                           /\ call'[j].token = call[j].token
                           /\ call'[j].late = call[j].late
                           /\ call'[j].allowed = call[j].allowed
  BY <1>1, <1>2 DEF Calls
<1>4. TypeOK'
  <2>1. call' \in [Instances -> Calls]
    BY <1>1, <1>3
  <2>2. Pinned(Len(log)) \in Conns
    BY <1>2, ConnsGrow DEF Conns
  <2>3. conn' \in [Instances -> Conns] /\ conn'[i] = Pinned(Len(log))
    BY <1>1, <1>2, <2>2
  <2>4. Conns' = Conns
    BY <1>1 DEF Conns
  <2>5. /\ log \in Seq(Entries)
        /\ pc \in [Instances -> Pcs]
        /\ begun \in 0 .. MaxCalls /\ crashes \in 0 .. MaxCrashes
    BY DEF IInv, TypeOK, Pcs
  <2>6. /\ log' \in Seq(Entries)
        /\ pc' \in [Instances -> Pcs]
        /\ begun' \in 0 .. MaxCalls /\ crashes' \in 0 .. MaxCrashes
    BY <1>1, <2>5
  <2>7. writer' # NoOne => /\ writer' \in Instances
                           /\ pc'[writer'] \in Writing
                           /\ conn'[writer'] = Pinned(Len(log'))
    BY <1>1, <2>3
  <2>. QED  BY <2>1, <2>3, <2>4, <2>6, <2>7 DEF TypeOK, Pcs
<1>5. ~(call[i].allowed /\ call[i].late)
  BY <1>1, NewestIsFresh
<1>6. \A j \in Instances \ {i} : conn'[j] = conn[j]
  BY <1>1, <1>2
<1>7. call[i].late => Revoked(call[i].token, Len(log))
  BY DEF IInv, LateIsRevoked
<1>8. pc[i] = "work" => call[i].allowed
  BY DEF IInv, WorkAllowed
<1>9. call'[i].late => Revoked(call'[i].token, Len(log))
  BY <1>3, <1>7
<1>10. pc' = pc /\ log' = log
  BY <1>1
<1>. QED  BY <1>3, <1>4, <1>5, <1>6, <1>8, <1>9, <1>10, QuietStep

LEMMA CommitInv ==
  ASSUME IInv, NEW i \in Instances, Commit(i)
  PROVE  IInv'
<1> DEFINE n == Len(log)
           entry == Entry(i)
<1>1. /\ writer = i /\ log' = Append(log, entry) /\ writer' = NoOne
      /\ conn' = [conn EXCEPT ![i] = Autocommit]
      /\ call' = [call EXCEPT ![i].recorded = (pc[i] = "event")]
      /\ begun' = begun /\ crashes' = crashes
  BY DEF Commit
<1>2. PICK at \in Pcs \ (Writing \cup {"count", "check", "down"}) : pc' = [pc EXCEPT ![i] = at]
  BY DEF Commit, Goto, Pcs, Writing
<1>3. /\ log \in Seq(Entries) /\ n \in Nat
      /\ conn \in [Instances -> Conns]
      /\ pc \in [Instances -> Pcs]
      /\ call \in [Instances -> Calls]
      /\ writer # NoOne
      /\ begun \in 0 .. MaxCalls /\ crashes \in 0 .. MaxCrashes
  BY <1>1, LogTyped, StoreConnectionAssumption DEF IInv, TypeOK, Pcs
<1>4. pc[i] \in Writing /\ View(i) = n
  BY <1>1, <1>3, ConnTyped DEF IInv, TypeOK
<1>5. ~(call[i].allowed /\ call[i].late)
  BY <1>4, NewestIsFresh DEF IInv
<1>6. entry \in Entries /\ (entry.kind \in {"ticket", "allow"} => ~entry.late)
  <2>1. call[i] \in Calls
    BY <1>3
  <2>2. pc[i] = "work" => call[i].allowed
    BY DEF IInv, WorkAllowed
  <2>3. /\ entry.kind \in {"seed", "ticket", "revoke", "allow", "deny"}
        /\ entry.kind = "ticket" => pc[i] = "work"
        /\ entry.kind = "allow" => call[i].allowed
        /\ entry.late = call[i].late
        /\ entry.token = call[i].token
    BY <1>4 DEF Entry, Writing
  <2>4. entry \in Entries
    BY <1>4, <2>1 DEF Entry, Entries, Calls, Writing
  <2>. QED  BY <1>5, <2>2, <2>3, <2>4
<1> HIDE DEF entry
<1>7. /\ log' \in Seq(Entries)
      /\ Len(log') = n + 1
      /\ DOMAIN log' = 1 .. n + 1
      /\ \A k \in 1 .. n : log'[k] = log[k]
      /\ log'[n + 1] = entry
      /\ DOMAIN log = 1 .. n
  BY <1>1, <1>3, <1>6, LogTyped
<1>8. \A j \in Instances : /\ call'[j] \in Calls
                           /\ call'[j].token = call[j].token
                           /\ call'[j].late = call[j].late
                           /\ call'[j].allowed = call[j].allowed
  <2> DEFINE done == pc[i] = "event"
             c == [call[i] EXCEPT !.recorded = done]
  <2>1. done \in BOOLEAN /\ call' = [call EXCEPT ![i] = c]
    BY <1>1, <1>3
  <2> HIDE DEF done
  <2>2. /\ c \in Calls
        /\ c.token = call[i].token
        /\ c.late = call[i].late
        /\ c.allowed = call[i].allowed
    BY <1>3, <2>1 DEF Calls
  <2> HIDE DEF c
  <2>. QED  BY <1>3, <2>1, <2>2
<1>9. TypeOK'
  <2>1. Conns \subseteq Conns' /\ Autocommit \in Conns
    BY <1>3, <1>7, ConnsGrow DEF Conns
  <2>2. conn' \in [Instances -> Conns']
    BY <1>1, <1>3, <2>1
  <2>3. pc' \in [Instances -> Pcs]
    BY <1>2, <1>3
  <2>4. call' \in [Instances -> Calls]
    BY <1>1, <1>3, <1>8
  <2>. QED  BY <1>1, <1>3, <1>7, <2>2, <2>3, <2>4 DEF TypeOK, Pcs
<1>10. LateIsRevoked'
  <2>. SUFFICES ASSUME NEW j \in Instances, call'[j].late
                PROVE  Revoked(call[j].token, Len(log))'
    BY <1>8 DEF LateIsRevoked, Revoked
  <2>1. PICK k \in 1 .. n : log[k].kind = "revoke" /\ log[k].token = call[j].token
    BY <1>8 DEF IInv, LateIsRevoked, Revoked
  <2>2. k \in 1 .. Len(log') /\ log'[k] = log[k]
    BY <1>3, <1>7
  <2>3. call'[j].token = call[j].token
    BY <1>8
  <2>. QED  BY <2>1, <2>2, <2>3 DEF Revoked
<1>11. WorkAllowed'
  <2>. SUFFICES ASSUME NEW j \in Instances, pc'[j] = "work" PROVE call'[j].allowed
    BY DEF WorkAllowed
  <2>1. j # i
    BY <1>2, <1>3 DEF Writing
  <2>. QED  BY <1>2, <1>3, <1>8, <2>1 DEF IInv, WorkAllowed
<1>12. StaleStays'
  <2>. SUFFICES ASSUME NEW j \in Instances, call'[j].allowed, call'[j].late
                PROVE  conn'[j].mode = "pinned" /\ conn'[j].at < Len(log') /\ pc'[j] # "answer"
    BY DEF StaleStays
  <2>1. call[j].allowed /\ call[j].late /\ j # i
    BY <1>5, <1>8
  <2>2. conn[j].mode = "pinned" /\ conn[j].at < n /\ pc[j] # "answer"
    BY <2>1 DEF IInv, StaleStays
  <2>3. conn'[j] = conn[j] /\ pc'[j] = pc[j]
    BY <1>1, <1>2, <1>3, <2>1
  <2>4. conn[j].at \in 0 .. n
    BY <2>2, ConnTyped DEF IInv
  <2>. QED  BY <1>3, <1>7, <2>2, <2>3, <2>4
<1>13. LogClean'
  <2>. SUFFICES ASSUME NEW k \in 1 .. n + 1, log'[k].kind \in {"ticket", "allow"}
                PROVE  ~log'[k].late
    BY <1>7 DEF LogClean
  <2>1. CASE k = n + 1
    BY <1>6, <1>7, <2>1
  <2>2. CASE k \in 1 .. n
    BY <1>7, <2>2 DEF IInv, LogClean
  <2>. QED  BY <1>3, <2>1, <2>2
<1>. QED  BY <1>9, <1>10, <1>11, <1>12, <1>13 DEF IInv

\* What Locked leaves of the connection.
LEMMA LockedConn ==
  ASSUME IInv, NEW i \in Instances, Locked(i), log' = log
  PROVE  /\ conn' \in [Instances -> Conns]
         /\ \A j \in Instances \ {i} : conn'[j] = conn[j]
         /\ conn[i].mode = "pinned" => conn'[i] = conn[i]
<1>1. Len(log) \in Nat /\ conn \in [Instances -> Conns]
  BY LogTyped DEF IInv, TypeOK
<1>2. Open \in Conns
  BY <1>1, ConnsGrow DEF Conns
<1>. QED  BY <1>1, <1>2 DEF Locked

LEMMA FailInv ==
  ASSUME IInv, NEW i \in Instances, Fail(i)
  PROVE  IInv'
<1>1. /\ log' = log /\ writer' = writer /\ writer # i /\ begun' = begun /\ crashes' = crashes
      /\ pc[i] \in {"work", "event"} /\ Locked(i)
  BY DEF Fail
<1>2. PICK at \in {"tail", "error"} : pc' = [pc EXCEPT ![i] = at]
  BY DEF Fail, Goto
<1>3. /\ pc \in [Instances -> Pcs] /\ call \in [Instances -> Calls]
      /\ begun \in 0 .. MaxCalls /\ crashes \in 0 .. MaxCrashes
  BY DEF IInv, TypeOK, Pcs
<1>4. /\ conn' \in [Instances -> Conns]
      /\ \A j \in Instances \ {i} : conn'[j] = conn[j]
      /\ conn[i].mode = "pinned" => conn'[i] = conn[i]
  BY <1>1, LockedConn
<1>5. /\ call' \in [Instances -> Calls]
      /\ \A j \in Instances \ {i} : call'[j] = call[j]
      /\ call'[i].token = call[i].token
      /\ call'[i].late = call[i].late
      /\ call'[i].allowed => call[i].allowed
  <2>1. call[i] \in Calls
    BY <1>3
  <2>2. CASE call' = [call EXCEPT ![i].allowed = FALSE]
    <3>1. [call[i] EXCEPT !.allowed = FALSE] \in Calls
      BY <2>1 DEF Calls
    <3>. QED  BY <1>3, <2>1, <2>2, <3>1 DEF Calls
  <2>3. CASE call' = [call EXCEPT ![i].allowed = FALSE, ![i].wrapped = TRUE]
    <3> DEFINE c == [call[i] EXCEPT !.allowed = FALSE, !.wrapped = TRUE]
    <3>1. /\ c \in Calls
          /\ c.token = call[i].token
          /\ c.late = call[i].late
          /\ c.allowed = FALSE
      BY <2>1 DEF Calls
    <3>2. call' = [call EXCEPT ![i] = c]
      BY <1>3, <2>3
    <3> HIDE DEF c
    <3>. QED  BY <1>3, <3>1, <3>2
  <2>4. CASE call' = call
    BY <1>3, <2>4
  <2>. QED  BY <2>2, <2>3, <2>4 DEF Fail
<1>6. pc'[i] \in {"tail", "error"} /\ \A j \in Instances \ {i} : pc'[j] = pc[j]
  BY <1>2, <1>3
<1>7. TypeOK'
  <2>1. at \in Pcs
    BY DEF Pcs
  <2>. QED  BY <1>1, <1>2, <1>3, <1>4, <1>5, <2>1, ShapesKept DEF IInv
<1>8. call'[i].late => Revoked(call'[i].token, Len(log))
  BY <1>5 DEF IInv, LateIsRevoked
<1>9. call'[i].allowed /\ call'[i].late => conn'[i].mode = "pinned" /\ conn'[i].at < Len(log)
  BY <1>4, <1>5 DEF IInv, StaleStays
<1>. QED  BY <1>1, <1>4, <1>5, <1>6, <1>7, <1>8, <1>9, QuietStep

-----------------------------------------------------------------------------
(***************************************************************************)
(* The steps that write nothing.                                           *)
(***************************************************************************)

\* A process goes on with the call it has.
LEMMA MovedInv ==
  ASSUME IInv, NEW i \in Instances, log' = log, writer' = writer, writer # i,
         conn' = conn, call' = call, begun' = begun, crashes' = crashes,
         NEW at \in Pcs \ {"work", "answer"}, pc' = [pc EXCEPT ![i] = at]
  PROVE  IInv'
<1>1. /\ pc \in [Instances -> Pcs] /\ conn \in [Instances -> Conns]
      /\ call \in [Instances -> Calls]
      /\ begun \in 0 .. MaxCalls /\ crashes \in 0 .. MaxCrashes
  BY DEF IInv, TypeOK, Pcs
<1>2. TypeOK'
  BY <1>1, ShapesKept DEF IInv
<1>3. /\ call[i].late => Revoked(call[i].token, Len(log))
      /\ call[i].allowed /\ call[i].late => conn[i].mode = "pinned" /\ conn[i].at < Len(log)
  BY DEF IInv, LateIsRevoked, StaleStays
<1>4. pc'[i] = at /\ \A j \in Instances \ {i} : pc'[j] = pc[j]
  BY <1>1
<1>. QED  BY <1>2, <1>3, <1>4, QuietStep

\* A process that does not write takes up a call that is not accepted, or
\* drops the one it has; its connection may be closed with its lock.
LEMMA FreshCallInv ==
  ASSUME IInv, NEW i \in Instances, log' = log, writer' \in {writer, NoOne}, writer' # i,
         conn' \in [Instances -> Conns], \A j \in Instances \ {i} : conn'[j] = conn[j],
         NEW c \in Calls, ~c.allowed, c.late => Revoked(c.token, Len(log)),
         call' = [call EXCEPT ![i] = c],
         begun' \in 0 .. MaxCalls, crashes' \in 0 .. MaxCrashes,
         NEW at \in Pcs \ {"work"}, pc' = [pc EXCEPT ![i] = at]
  PROVE  IInv'
<1>1. pc \in [Instances -> Pcs] /\ call \in [Instances -> Calls]
  BY DEF IInv, TypeOK, Pcs
<1>2. /\ call' \in [Instances -> Calls] /\ call'[i] = c /\ pc'[i] = at
      /\ \A j \in Instances \ {i} : call'[j] = call[j] /\ pc'[j] = pc[j]
  BY <1>1
<1>3. TypeOK'
  BY <1>2, ShapesKept DEF IInv
<1>. QED  BY <1>2, <1>3, QuietStep

\* A SELECT of the token.
LEMMA CheckInv ==
  ASSUME IInv, NEW i \in Instances, Check(i)
  PROVE  IInv'
<1> DEFINE good == ~Revoked(call[i].token, View(i))
<1>1. /\ log' = log /\ writer' = writer /\ begun' = begun /\ crashes' = crashes
      /\ pc[i] = "check" /\ Look(i)
      /\ call' = [call EXCEPT ![i].allowed = good]
  BY DEF Check
<1>2. PICK at \in {"work", "answer", "tail"} :
        /\ pc' = [pc EXCEPT ![i] = at]
        /\ at = "work" => good
        /\ at = "answer" => ~good
  BY DEF Check, Goto
<1>3. /\ pc \in [Instances -> Pcs] /\ conn \in [Instances -> Conns]
      /\ call \in [Instances -> Calls]
      /\ begun \in 0 .. MaxCalls /\ crashes \in 0 .. MaxCrashes
      /\ Len(log) \in Nat
      /\ writer # i
  <2>1. writer # NoOne => pc[writer] \in Writing
    BY DEF IInv, TypeOK
  <2>2. writer # i
    BY <1>1, <2>1, StoreConnectionAssumption DEF Writing
  <2>. QED  BY <2>2, LogTyped DEF IInv, TypeOK, Pcs
<1>4. /\ conn' \in [Instances -> Conns]
      /\ \A j \in Instances \ {i} : conn'[j] = conn[j]
      /\ conn[i].mode = "pinned" => conn'[i] = conn[i]
  <2>1. Pinned(Len(log)) \in Conns
    BY <1>3, ConnsGrow DEF Conns
  <2>. QED  BY <1>1, <1>3, <2>1 DEF Look
<1>5. good \in BOOLEAN
  BY DEF Revoked
<1>6. /\ call' \in [Instances -> Calls]
      /\ \A j \in Instances \ {i} : call'[j] = call[j]
      /\ call'[i].token = call[i].token
      /\ call'[i].late = call[i].late
      /\ call'[i].allowed = good
  <2> HIDE DEF good
  <2>1. [call[i] EXCEPT !.allowed = good] \in Calls
    BY <1>3, <1>5 DEF Calls
  <2>. QED  BY <1>1, <1>3, <2>1 DEF Calls
<1>7. pc'[i] = at /\ \A j \in Instances \ {i} : pc'[j] = pc[j]
  BY <1>2, <1>3
<1>8. TypeOK'
  <2>1. at \in Pcs
    BY DEF Pcs, Writing
  <2>. QED  BY <1>1, <1>2, <1>3, <1>4, <1>6, <2>1, ShapesKept DEF IInv
<1>9. call'[i].late => Revoked(call'[i].token, Len(log))
  BY <1>6 DEF IInv, LateIsRevoked
<1>10. call'[i].late /\ call'[i].allowed => conn[i].mode = "pinned" /\ conn[i].at < Len(log)
  <2>. SUFFICES ASSUME call'[i].late, call'[i].allowed
                PROVE  conn[i].mode = "pinned" /\ conn[i].at < Len(log)
    OBVIOUS
  <2>1. View(i) # Len(log)
    BY <1>6, <1>9
  <2>2. conn[i].mode = "pinned" /\ conn[i].at = View(i)
    BY <2>1 DEF View
  <2>. QED  BY <1>3, <2>1, <2>2, ConnTyped DEF IInv
<1>11. pc'[i] = "work" => call'[i].allowed
  BY <1>2, <1>6, <1>7
<1>12. call'[i].allowed /\ call'[i].late => conn'[i].mode = "pinned" /\ conn'[i].at < Len(log)
                                          /\ pc'[i] # "answer"
  BY <1>2, <1>4, <1>6, <1>7, <1>10
<1> HIDE DEF good
<1>. QED  BY <1>1, <1>4, <1>6, <1>7, <1>8, <1>9, <1>11, <1>12, QuietStep

-----------------------------------------------------------------------------
LEMMA InitInv == Init => IInv
<1>. SUFFICES ASSUME Init PROVE IInv
  OBVIOUS
<1>1. log = <<>> /\ Len(log) = 0 /\ log \in Seq(Entries)
  BY DEF Init
<1>2. Autocommit \in Conns
  BY DEF Conns
<1>3. TypeOK
  BY <1>1, <1>2, NoCallTyped, StoreConnectionAssumption DEF Init, TypeOK
<1>4. LateIsRevoked /\ StaleStays
  BY NoCallTyped DEF Init, LateIsRevoked, StaleStays
<1>5. WorkAllowed
  BY DEF Init, WorkAllowed
<1>6. LogClean
  BY <1>1 DEF LogClean
<1>. QED  BY <1>3, <1>4, <1>5, <1>6 DEF IInv

\* Who holds the lock is at a pc where it writes.
LEMMA NotWriter ==
  ASSUME TypeOK, NEW i \in Instances, pc[i] \notin Writing
  PROVE  writer # i
  BY StoreConnectionAssumption DEF TypeOK

LEMMA StepInv == ASSUME IInv, [Next]_vars PROVE IInv'
<1>1. ASSUME NEW i \in Instances, Insert(i) PROVE IInv'
  BY <1>1, InsertInv
<1>2. ASSUME NEW i \in Instances, Commit(i) PROVE IInv'
  BY <1>2, CommitInv
<1>3. ASSUME NEW i \in Instances, Fail(i) PROVE IInv'
  BY <1>3, FailInv
<1>4. ASSUME NEW i \in Instances, Boot(i) \/ Count(i) \/ SeedFails(i) PROVE IInv'
  <2>1. /\ log' = log /\ writer' = writer /\ conn' = conn /\ call' = call
        /\ begun' = begun /\ crashes' = crashes
    BY <1>4 DEF Boot, Count, SeedFails
  <2>2. writer # i
    BY <1>4, NotWriter DEF IInv, Boot, Count, SeedFails, Writing
  <2>3. PICK at \in {"count", "idle", "seed", "down"} : pc' = [pc EXCEPT ![i] = at]
    BY <1>4 DEF Boot, Count, SeedFails, Goto
  <2>4. at \in Pcs \ {"work", "answer"}
    BY <2>3 DEF Pcs, Writing
  <2>. QED  BY <2>1, <2>2, <2>3, <2>4, MovedInv
<1>5. ASSUME NEW i \in Instances, Check(i) PROVE IInv'
  BY <1>5, CheckInv
<1>6. ASSUME NEW i \in Instances, LastHash(i) PROVE IInv'
  <2>1. /\ log' = log /\ writer' = writer /\ call' = call
        /\ begun' = begun /\ crashes' = crashes /\ Look(i) /\ pc[i] = "tail"
        /\ pc' = [pc EXCEPT ![i] = "event"]
    BY <1>6 DEF LastHash, Goto
  <2>2. writer # i
    BY <2>1, NotWriter DEF IInv, Writing
  <2>3. /\ pc \in [Instances -> Pcs] /\ conn \in [Instances -> Conns]
        /\ call \in [Instances -> Calls]
        /\ begun \in 0 .. MaxCalls /\ crashes \in 0 .. MaxCrashes
        /\ Len(log) \in Nat
    BY LogTyped DEF IInv, TypeOK, Pcs
  <2>4. /\ conn' \in [Instances -> Conns]
        /\ \A j \in Instances \ {i} : conn'[j] = conn[j]
        /\ conn[i].mode = "pinned" => conn'[i] = conn[i]
    <3>1. Pinned(Len(log)) \in Conns
      BY <2>3, ConnsGrow DEF Conns
    <3>. QED  BY <2>1, <2>3, <3>1 DEF Look
  <2>5. "event" \in Pcs
    BY DEF Pcs, Writing
  <2>6. TypeOK'
    BY <2>1, <2>2, <2>3, <2>4, <2>5, ShapesKept DEF IInv
  <2>7. pc'[i] = "event" /\ \A j \in Instances \ {i} : pc'[j] = pc[j]
    BY <2>1, <2>3
  <2>8. /\ call[i].late => Revoked(call[i].token, Len(log))
        /\ call[i].allowed /\ call[i].late => conn[i].mode = "pinned" /\ conn[i].at < Len(log)
    BY DEF IInv, LateIsRevoked, StaleStays
  <2>. QED  BY <2>1, <2>4, <2>6, <2>7, <2>8, QuietStep
<1>7. ASSUME NEW i \in Instances, NEW kind \in {"read", "write", "revoke"}, NEW t \in Tokens,
             Begin(i, kind, t)
      PROVE  IInv'
  <2> DEFINE c == [kind |-> kind, token |-> t, late |-> Revoked(t, Len(log)),
                   quiet |-> writer = NoOne, allowed |-> FALSE, wrapped |-> FALSE,
                   recorded |-> FALSE]
  <2>1. /\ log' = log /\ writer' = writer /\ conn' = conn /\ crashes' = crashes
        /\ pc[i] = "idle" /\ begun < MaxCalls /\ begun' = begun + 1
        /\ call' = [call EXCEPT ![i] = c]
        /\ pc' = [pc EXCEPT ![i] = "check"]
    BY <1>7 DEF Begin, Goto
  <2>2. writer # i
    BY <2>1, NotWriter DEF IInv, Writing
  <2>3. Revoked(t, Len(log)) \in BOOLEAN
    BY DEF Revoked
  <2>4. c \in Calls /\ ~c.allowed /\ (c.late => Revoked(c.token, Len(log)))
    <3>1. c \in Calls
      BY <2>3 DEF Calls
    <3>. QED  BY <3>1
  <2>5. conn \in [Instances -> Conns] /\ begun' \in 0 .. MaxCalls /\ crashes \in 0 .. MaxCrashes
    BY <2>1, StoreConnectionAssumption DEF IInv, TypeOK
  <2>6. "check" \in Pcs \ {"work"}
    BY DEF Pcs
  <2> HIDE DEF c
  <2>7. PICK d \in Calls : d = c
    BY <2>4
  <2>. QED  BY <2>1, <2>2, <2>4, <2>5, <2>6, <2>7, FreshCallInv
<1>8. ASSUME NEW i \in Instances, Finish(i) PROVE IInv'
  <2>1. /\ log' = log /\ writer' = writer /\ conn' = conn /\ crashes' = crashes /\ begun' = begun
        /\ pc[i] \in {"answer", "error"}
        /\ call' = [call EXCEPT ![i] = NoCall]
        /\ pc' = [pc EXCEPT ![i] = "idle"]
    BY <1>8 DEF Finish, Goto
  <2>2. writer # i
    BY <2>1, NotWriter DEF IInv, Writing
  <2>3. conn \in [Instances -> Conns] /\ begun \in 0 .. MaxCalls /\ crashes \in 0 .. MaxCrashes
    BY DEF IInv, TypeOK
  <2>4. "idle" \in Pcs \ {"work"}
    BY DEF Pcs
  <2>. QED  BY <2>1, <2>2, <2>3, <2>4, NoCallTyped, FreshCallInv
<1>9. ASSUME NEW i \in Instances, Crash(i) PROVE IInv'
  <2>1. /\ log' = log /\ begun' = begun
        /\ crashes < MaxCrashes /\ crashes' = crashes + 1
        /\ writer' = IF writer = i THEN NoOne ELSE writer
        /\ conn' = [conn EXCEPT ![i] = Autocommit]
        /\ call' = [call EXCEPT ![i] = NoCall]
        /\ pc' = [pc EXCEPT ![i] = "down"]
    BY <1>9 DEF Crash, Goto
  <2>2. writer' \in {writer, NoOne} /\ writer' # i
    BY <2>1, StoreConnectionAssumption
  <2>3. /\ conn \in [Instances -> Conns] /\ begun \in 0 .. MaxCalls
        /\ crashes \in 0 .. MaxCrashes /\ Autocommit \in Conns
    BY DEF IInv, TypeOK, Conns
  <2>4. conn' \in [Instances -> Conns] /\ \A j \in Instances \ {i} : conn'[j] = conn[j]
    BY <2>1, <2>3
  <2>5. crashes' \in 0 .. MaxCrashes
    BY <2>1, <2>3, StoreConnectionAssumption
  <2>6. "down" \in Pcs \ {"work"}
    BY DEF Pcs
  <2>. QED  BY <2>1, <2>2, <2>3, <2>4, <2>5, <2>6, NoCallTyped, FreshCallInv
<1>10. CASE UNCHANGED vars
  <2>1. TypeOK'
    BY <1>10 DEF IInv, TypeOK, Conns, vars
  <2>2. LateIsRevoked' /\ WorkAllowed' /\ StaleStays' /\ LogClean'
    BY <1>10 DEF IInv, LateIsRevoked, WorkAllowed, StaleStays, LogClean, Revoked, vars
  <2>. QED  BY <2>1, <2>2 DEF IInv
<1>. QED
  BY <1>1, <1>2, <1>3, <1>4, <1>5, <1>6, <1>7, <1>8, <1>9, <1>10 DEF Next, Work

-----------------------------------------------------------------------------
(***************************************************************************)
(* Seeding.  A process counts the tickets outside any transaction, so what *)
(* it counts is the newest version: it comes to the INSERT only while      *)
(* nobody has seeded, and those that are there leave room for one another. *)
(***************************************************************************)
SeedRows == {k \in DOMAIN log : log[k].kind = "seed"}

AtSeed == {i \in Instances : pc[i] = "seed"}

FreshStart ==
  \A i \in Instances :
    pc[i] \in {"down", "count"} \/ (pc[i] = "seed" /\ writer # i) => conn[i] = Autocommit

SeedRoom ==
  /\ IsFiniteSet(SeedRows)
  /\ Cardinality(SeedRows) + Cardinality(AtSeed) <= Cardinality(Instances)

SeedInv == IInv /\ FreshStart /\ SeedRoom

LEMMA AtSeedFinite ==
  ASSUME IsFiniteSet(Instances)
  PROVE  /\ IsFiniteSet(AtSeed)
         /\ Cardinality(AtSeed) \in Nat
         /\ Cardinality(AtSeed) <= Cardinality(Instances)
         /\ Cardinality(Instances) \in Nat
<1>1. AtSeed \in SUBSET Instances
  BY DEF AtSeed
<1>. QED  BY <1>1, FS_Subset, FS_CardinalityType

\* While no more processes come to the INSERT, and nobody commits a seed,
\* there is the room there was.
LEMMA RoomKept ==
  ASSUME IsFiniteSet(Instances), SeedRoom, SeedRows' = SeedRows, AtSeed' \subseteq AtSeed
  PROVE  SeedRoom'
<1>1. AtSeed' \in SUBSET AtSeed
  OBVIOUS
<1>2. IsFiniteSet(AtSeed) /\ Cardinality(AtSeed) \in Nat /\ Cardinality(Instances) \in Nat
  BY AtSeedFinite
<1>3. IsFiniteSet(AtSeed') /\ Cardinality(AtSeed') <= Cardinality(AtSeed)
  BY <1>1, <1>2, FS_Subset
<1>4. Cardinality(AtSeed') \in Nat
  BY <1>3, FS_CardinalityType
<1>5. Cardinality(SeedRows) \in Nat
  BY FS_CardinalityType DEF SeedRoom
<1>6. Cardinality(SeedRows) + Cardinality(AtSeed') <= Cardinality(Instances)
  BY <1>2, <1>3, <1>4, <1>5 DEF SeedRoom
<1>. QED  BY <1>6 DEF SeedRoom

LEMMA CountSeeds ==
  ASSUME IsFiniteSet(Instances), SeedInv, NEW i \in Instances, Count(i)
  PROVE  FreshStart' /\ SeedRoom'
<1>1. /\ log' = log /\ writer' = writer /\ conn' = conn /\ pc[i] = "count"
      /\ pc' = [pc EXCEPT ![i] = IF HasTickets(View(i)) THEN "idle" ELSE "seed"]
  BY DEF Count, Goto
<1>2. pc \in [Instances -> Pcs]
  BY DEF SeedInv, IInv, TypeOK, Pcs
<1>3. FreshStart'
  BY <1>1, <1>2 DEF SeedInv, FreshStart
<1>4. CASE HasTickets(View(i))
  <2>1. AtSeed' \subseteq AtSeed /\ SeedRows' = SeedRows
    BY <1>1, <1>2, <1>4 DEF AtSeed, SeedRows
  <2>. QED  BY <1>3, <2>1, RoomKept DEF SeedInv
<1>5. CASE ~HasTickets(View(i))
  <2>1. conn[i].mode # "pinned"
    <3>1. conn[i] = Autocommit
      BY <1>1 DEF SeedInv, FreshStart
    <3>. QED  BY <3>1 DEF Autocommit
  <2>2. View(i) = Len(log)
    BY <2>1 DEF View
  <2>3. SeedRows = {}
    BY <1>5, <2>2, LogTyped DEF SeedInv, IInv, TypeOK, HasTickets, SeedRows
  <2>4. SeedRows' = {}
    BY <1>1, <2>3 DEF SeedRows
  <2>5. IsFiniteSet(AtSeed') /\ Cardinality(AtSeed') \in Nat
        /\ Cardinality(AtSeed') <= Cardinality(Instances)
    <3>1. AtSeed' \in SUBSET Instances
      BY DEF AtSeed
    <3>. QED  BY <3>1, FS_Subset, FS_CardinalityType
  <2>6. IsFiniteSet({}) /\ Cardinality({}) = 0
    BY FS_EmptySet
  <2>7. SeedRoom'
    BY <2>4, <2>5, <2>6 DEF SeedRoom
  <2>. QED  BY <1>3, <2>7
<1>. QED  BY <1>4, <1>5

LEMMA CommitSeeds ==
  ASSUME IsFiniteSet(Instances), SeedInv, NEW i \in Instances, Commit(i)
  PROVE  FreshStart' /\ SeedRoom'
<1>1. /\ writer = i /\ writer' = NoOne /\ log' = Append(log, Entry(i))
      /\ conn' = [conn EXCEPT ![i] = Autocommit]
  BY DEF Commit
<1>2. /\ pc \in [Instances -> Pcs] /\ conn \in [Instances -> Conns]
      /\ log \in Seq(Entries) /\ pc[i] \in Writing
  BY <1>1, StoreConnectionAssumption DEF SeedInv, IInv, TypeOK, Pcs
<1>3. PICK at \in {"idle", "answer", "tail", "error"} : pc' = [pc EXCEPT ![i] = at]
  BY DEF Commit, Goto
<1>4. FreshStart'
  <2>1. ASSUME NEW j \in Instances \ {i} PROVE pc'[j] = pc[j] /\ conn'[j] = conn[j] /\ writer # j
    BY <1>1, <1>2, <1>3
  <2>2. conn'[i] = Autocommit
    BY <1>1, <1>2
  <2>. QED  BY <2>1, <2>2 DEF SeedInv, FreshStart
<1>5. AtSeed' = AtSeed \ {i}
  BY <1>2, <1>3 DEF AtSeed
<1> DEFINE n == Len(log) + 1
<1>6. /\ DOMAIN log = 1 .. Len(log) /\ DOMAIN log' = 1 .. n /\ Len(log) \in Nat
      /\ \A k \in 1 .. Len(log) : log'[k] = log[k]
      /\ log'[n] = Entry(i)
  BY <1>1, <1>2, LogTyped
<1>7. CASE pc[i] = "seed"
  <2>1. log'[n].kind = "seed"
    BY <1>6, <1>7 DEF Entry
  <2>2. SeedRows' = SeedRows \cup {n} /\ n \notin SeedRows
    BY <1>6, <2>1 DEF SeedRows
  <2>3. IsFiniteSet(SeedRows) /\ Cardinality(SeedRows) \in Nat
    BY FS_CardinalityType DEF SeedInv, SeedRoom
  <2>4. IsFiniteSet(SeedRows') /\ Cardinality(SeedRows') = Cardinality(SeedRows) + 1
    <3> HIDE DEF n
    <3>. QED  BY <2>2, <2>3, FS_AddElement
  <2>5. i \in AtSeed
    BY <1>7 DEF AtSeed
  <2>6. Cardinality(AtSeed') = Cardinality(AtSeed) - 1
    BY <1>5, <2>5, AtSeedFinite, FS_RemoveElement
  <2>7. Cardinality(AtSeed) \in Nat /\ Cardinality(Instances) \in Nat
    BY AtSeedFinite
  <2>8. Cardinality(SeedRows) + Cardinality(AtSeed) <= Cardinality(Instances)
    BY DEF SeedInv, SeedRoom
  <2>9. Cardinality(SeedRows') + Cardinality(AtSeed') <= Cardinality(Instances)
    BY <2>3, <2>4, <2>6, <2>7, <2>8
  <2>10. SeedRoom'
    BY <2>4, <2>9 DEF SeedRoom
  <2>. QED  BY <1>4, <2>10
<1>8. CASE pc[i] # "seed"
  <2>1. log'[n].kind # "seed"
    BY <1>6, <1>8 DEF Entry
  <2>2. SeedRows' = SeedRows
    BY <1>6, <2>1 DEF SeedRows
  <2>. QED  BY <1>4, <1>5, <2>2, RoomKept DEF SeedInv
<1>. QED  BY <1>7, <1>8

LEMMA StepSeeds ==
  ASSUME IsFiniteSet(Instances), SeedInv, [Next]_vars
  PROVE  SeedInv'
<1>1. IInv'
  BY StepInv DEF SeedInv
<1>2. /\ pc \in [Instances -> Pcs] /\ conn \in [Instances -> Conns]
      /\ \A i \in Instances : pc[i] \notin Writing => writer # i
  BY NotWriter DEF SeedInv, IInv, TypeOK, Pcs
<1>3. ASSUME log' = log, FreshStart', AtSeed' \subseteq AtSeed
      PROVE  FreshStart' /\ SeedRoom'
  <2>1. SeedRows' = SeedRows
    BY <1>3 DEF SeedRows
  <2>. QED  BY <1>3, <2>1, RoomKept DEF SeedInv
<1>4. ASSUME NEW i \in Instances, Insert(i) PROVE FreshStart' /\ SeedRoom'
  <2>1. /\ log' = log /\ pc' = pc /\ writer' = i /\ writer = NoOne
        /\ pc[i] \in Writing
        /\ conn' = [conn EXCEPT ![i] = Pinned(Len(log))]
    BY <1>4 DEF Insert
  <2>2. ASSUME NEW j \in Instances \ {i} PROVE conn'[j] = conn[j] /\ writer # j
    BY <1>2, <2>1, StoreConnectionAssumption
  <2>3. pc[i] \notin {"down", "count"}
    BY <2>1 DEF Writing
  <2>4. FreshStart'
    BY <2>1, <2>2, <2>3 DEF SeedInv, FreshStart
  <2>5. AtSeed' \subseteq AtSeed
    BY <2>1 DEF AtSeed
  <2>. QED  BY <1>3, <2>1, <2>4, <2>5
<1>5. ASSUME NEW i \in Instances,
             Fail(i) \/ Check(i) \/ LastHash(i) \/ Finish(i)
             \/ \E kind \in {"read", "write", "revoke"}, t \in Tokens : Begin(i, kind, t)
      PROVE  FreshStart' /\ SeedRoom'
  <2>1. log' = log /\ writer' = writer
    BY <1>5 DEF Fail, Check, LastHash, Finish, Begin
  <2>2. PICK at \in {"tail", "error", "work", "answer", "event", "idle", "check"} :
          pc' = [pc EXCEPT ![i] = at]
    BY <1>5 DEF Fail, Check, LastHash, Finish, Begin, Goto
  <2>3. ASSUME NEW j \in Instances \ {i} PROVE conn'[j] = conn[j]
    BY <1>2, <1>5 DEF Fail, Check, LastHash, Finish, Begin, Look, Locked
  <2>4. pc'[i] = at /\ \A j \in Instances \ {i} : pc'[j] = pc[j]
    BY <1>2, <2>2
  <2>5. FreshStart'
    BY <2>1, <2>3, <2>4 DEF SeedInv, FreshStart
  <2>6. AtSeed' \subseteq AtSeed
    BY <2>4 DEF AtSeed
  <2>. QED  BY <1>3, <2>1, <2>5, <2>6
<1>6. ASSUME NEW i \in Instances, Boot(i) \/ SeedFails(i) PROVE FreshStart' /\ SeedRoom'
  <2>1. /\ log' = log /\ writer' = writer /\ conn' = conn
        /\ pc[i] = "down" \/ (pc[i] = "seed" /\ writer # i)
    BY <1>6 DEF Boot, SeedFails
  <2>2. PICK at \in {"count", "down"} : pc' = [pc EXCEPT ![i] = at]
    BY <1>6 DEF Boot, SeedFails, Goto
  <2>3. pc'[i] = at /\ \A j \in Instances \ {i} : pc'[j] = pc[j]
    BY <1>2, <2>2
  <2>4. conn[i] = Autocommit
    BY <2>1 DEF SeedInv, FreshStart
  <2>5. FreshStart'
    BY <2>1, <2>3, <2>4 DEF SeedInv, FreshStart
  <2>6. AtSeed' \subseteq AtSeed
    BY <2>3 DEF AtSeed
  <2>. QED  BY <1>3, <2>1, <2>5, <2>6
<1>7. ASSUME NEW i \in Instances, Crash(i) PROVE FreshStart' /\ SeedRoom'
  <2>1. /\ log' = log
        /\ writer' = IF writer = i THEN NoOne ELSE writer
        /\ conn' = [conn EXCEPT ![i] = Autocommit]
        /\ pc' = [pc EXCEPT ![i] = "down"]
    BY <1>7 DEF Crash, Goto
  <2>2. conn'[i] = Autocommit /\ pc'[i] = "down"
    BY <1>2, <2>1
  <2>3. ASSUME NEW j \in Instances \ {i}
        PROVE  conn'[j] = conn[j] /\ pc'[j] = pc[j] /\ (writer' # j => writer # j)
    BY <1>2, <2>1
  <2>4. FreshStart'
    BY <2>2, <2>3 DEF SeedInv, FreshStart
  <2>5. AtSeed' \subseteq AtSeed
    BY <2>2, <2>3 DEF AtSeed
  <2>. QED  BY <1>3, <2>1, <2>4, <2>5
<1>8. ASSUME UNCHANGED vars PROVE FreshStart' /\ SeedRoom'
  <2>1. log' = log /\ pc' = pc /\ conn' = conn /\ writer' = writer
    BY <1>8 DEF vars
  <2>2. FreshStart'
    BY <2>1 DEF SeedInv, FreshStart
  <2>3. AtSeed' \subseteq AtSeed
    BY <2>1 DEF AtSeed
  <2>. QED  BY <1>3, <2>1, <2>2, <2>3
<1>9. FreshStart' /\ SeedRoom'
  BY <1>4, <1>5, <1>6, <1>7, <1>8, CountSeeds, CommitSeeds DEF Next, Work
<1>. QED  BY <1>1, <1>9 DEF SeedInv

LEMMA InitSeeds ==
  ASSUME IsFiniteSet(Instances), Init
  PROVE  SeedInv
<1>1. log = <<>> /\ pc = [i \in Instances |-> "down"]
      /\ conn = [i \in Instances |-> Autocommit]
  BY DEF Init
<1>2. SeedRows = {} /\ AtSeed = {}
  BY <1>1 DEF SeedRows, AtSeed
<1>3. FreshStart
  BY <1>1 DEF FreshStart
<1>4. SeedRoom
  BY <1>2, FS_EmptySet, AtSeedFinite DEF SeedRoom
<1>. QED  BY <1>3, <1>4, InitInv DEF SeedInv

-----------------------------------------------------------------------------
(***************************************************************************)
(* Losses.  While a call is quiet only its own process has the lock, so a  *)
(* write of it fails for one reason that is left: the version it sees.     *)
(***************************************************************************)
QuietAlone == \A i \in Instances : call[i].quiet => writer \in {NoOne, i}

LossInv == IInv /\ QuietAlone /\ LossesExplained

\* A process that is tied stays so while others go on.
LEMMA TiedStays ==
  ASSUME TypeOK, NEW j \in Instances, conn'[j] = conn[j], Tied(j),
         log' = log \/ \E e : log' = Append(log, e)
  PROVE  Tied(j)'
<1>1. /\ Len(log) \in Nat /\ conn[j].at \in 0 .. Len(log)
      /\ Len(log') \in {Len(log), Len(log) + 1}
  BY LogTyped, ConnTyped DEF TypeOK, Tied
<1>. QED  BY <1>1 DEF Tied

\* One process goes on, and the others have the calls and connections they
\* had, quiet ones at most.
LEMMA OthersExplained ==
  ASSUME LossInv, NEW i \in Instances,
         log' = log \/ \E e : log' = Append(log, e),
         writer' \in {writer, NoOne, i},
         writer' = i /\ writer # i => \A j \in Instances \ {i} : ~call'[j].quiet,
         \A j \in Instances \ {i} :
           /\ pc'[j] = pc[j] /\ conn'[j] = conn[j]
           /\ call'[j].quiet => call[j].quiet
           /\ call'[j].kind = call[j].kind /\ call'[j].recorded = call[j].recorded,
         call'[i].quiet => writer' \in {NoOne, i},
         call'[i].kind # "revoke" =>
           /\ pc'[i] = "answer" => call'[i].recorded
           /\ pc'[i] = "error" /\ call'[i].quiet => call'[i].recorded \/ Tied(i)'
  PROVE  QuietAlone' /\ LossesExplained'
<1>1. ASSUME NEW j \in Instances \ {i}, call'[j].quiet PROVE writer' \in {NoOne, j}
  <2>1. writer \in {NoOne, j} /\ (writer' = i => writer = i)
    BY <1>1 DEF LossInv, QuietAlone
  <2>. QED  BY <2>1
<1>2. QuietAlone'
  BY <1>1 DEF QuietAlone
<1>3. ASSUME NEW j \in Instances \ {i}, call'[j].kind # "revoke"
      PROVE  /\ pc'[j] = "answer" => call'[j].recorded
             /\ pc'[j] = "error" /\ call'[j].quiet => call'[j].recorded \/ Tied(j)'
  <2>1. /\ pc[j] = "answer" => call[j].recorded
        /\ pc[j] = "error" /\ call[j].quiet => call[j].recorded \/ Tied(j)
    BY <1>3 DEF LossInv, LossesExplained
  <2>2. Tied(j) => Tied(j)'
    BY TiedStays DEF LossInv, IInv
  <2>. QED  BY <2>1, <2>2
<1>4. LossesExplained'
  BY <1>3 DEF LossesExplained
<1>. QED  BY <1>2, <1>4

\* A write that fails in a quiet call does so for the version it sees.
LEMMA QuietFailureIsTied ==
  ASSUME LossInv, NEW i \in Instances, writer # i, Locked(i), log' = log, call[i].quiet
  PROVE  Tied(i)'
<1>1. writer = NoOne
  BY DEF LossInv, QuietAlone
<1>2. conn[i].mode = "pinned" /\ View(i) # Len(log) /\ conn' = conn
  BY <1>1 DEF Locked
<1>3. Len(log) \in Nat /\ conn[i].at \in 0 .. Len(log) /\ View(i) = conn[i].at
  BY <1>2, LogTyped, ConnTyped DEF LossInv, IInv, TypeOK, View
<1>. QED  BY <1>2, <1>3 DEF Tied

LEMMA FailExplained ==
  ASSUME LossInv, NEW i \in Instances, Fail(i)
  PROVE  QuietAlone' /\ LossesExplained'
<1>1. /\ log' = log /\ writer' = writer /\ writer # i /\ Locked(i)
      /\ pc \in [Instances -> Pcs] /\ call \in [Instances -> Calls]
  BY DEF Fail, LossInv, IInv, TypeOK, Pcs
<1>2. \A j \in Instances \ {i} : conn'[j] = conn[j]
  BY <1>1, LockedConn DEF LossInv
<1>3. PICK at \in {"tail", "error"} : pc' = [pc EXCEPT ![i] = at]
  BY DEF Fail, Goto
<1>4. pc'[i] = at /\ \A j \in Instances \ {i} : pc'[j] = pc[j]
  BY <1>1, <1>3
<1>5. /\ \A j \in Instances \ {i} : call'[j] = call[j]
      /\ call'[i].quiet = call[i].quiet
      /\ call'[i].kind = call[i].kind
  <2>1. CASE call' = [call EXCEPT ![i].allowed = FALSE]
    BY <1>1, <2>1 DEF Calls
  <2>2. CASE call' = [call EXCEPT ![i].allowed = FALSE, ![i].wrapped = TRUE]
    <3> DEFINE c == [call[i] EXCEPT !.allowed = FALSE, !.wrapped = TRUE]
    <3>1. c.quiet = call[i].quiet /\ c.kind = call[i].kind
      BY <1>1 DEF Calls
    <3>2. call' = [call EXCEPT ![i] = c]
      BY <1>1, <2>2
    <3> HIDE DEF c
    <3>. QED  BY <1>1, <3>1, <3>2
  <2>3. CASE call' = call
    BY <2>3
  <2>. QED  BY <2>1, <2>2, <2>3 DEF Fail
<1>6. call'[i].quiet => writer' \in {NoOne, i} /\ Tied(i)'
  BY <1>1, <1>5, QuietFailureIsTied DEF LossInv, QuietAlone
<1>. QED  BY <1>1, <1>2, <1>4, <1>5, <1>6, OthersExplained

LEMMA CommitExplained ==
  ASSUME LossInv, NEW i \in Instances, Commit(i)
  PROVE  QuietAlone' /\ LossesExplained'
<1> DEFINE done == pc[i] = "event"
           c == [call[i] EXCEPT !.recorded = done]
<1>1. /\ writer' = NoOne /\ log' = Append(log, Entry(i))
      /\ conn' = [conn EXCEPT ![i] = Autocommit]
      /\ call' = [call EXCEPT ![i].recorded = done]
      /\ pc \in [Instances -> Pcs] /\ conn \in [Instances -> Conns]
      /\ call \in [Instances -> Calls]
  BY DEF Commit, LossInv, IInv, TypeOK, Pcs
<1>2. PICK at \in {"idle", "answer", "tail", "error"} :
        /\ pc' = [pc EXCEPT ![i] = at]
        /\ at = "error" => done
        /\ at = "answer" => done \/ call[i].kind = "revoke"
  BY DEF Commit, Goto
<1>3. done \in BOOLEAN
  OBVIOUS
<1> HIDE DEF done
<1>4. c.kind = call[i].kind /\ c.recorded = done /\ call' = [call EXCEPT ![i] = c]
  BY <1>1, <1>3 DEF Calls
<1> HIDE DEF c
<1>5. call'[i] = c /\ pc'[i] = at
  BY <1>1, <1>2, <1>4
<1>6. \A j \in Instances \ {i} : pc'[j] = pc[j] /\ conn'[j] = conn[j] /\ call'[j] = call[j]
  BY <1>1, <1>2, <1>4
<1>7. call'[i].kind # "revoke" =>
        /\ pc'[i] = "answer" => call'[i].recorded
        /\ pc'[i] = "error" => call'[i].recorded
  BY <1>2, <1>4, <1>5
<1>8. writer' \in {writer, NoOne, i} /\ writer' # i
  BY <1>1, StoreConnectionAssumption
<1>9. \E e : log' = Append(log, e)
  BY <1>1
<1>10. \A j \in Instances \ {i} :
         /\ call'[j].quiet => call[j].quiet
         /\ call'[j].kind = call[j].kind /\ call'[j].recorded = call[j].recorded
  BY <1>6
<1>. QED  BY <1>1, <1>6, <1>7, <1>8, <1>9, <1>10, OthersExplained

LEMMA InsertExplained ==
  ASSUME LossInv, NEW i \in Instances, Insert(i)
  PROVE  QuietAlone' /\ LossesExplained'
<1>1. /\ log' = log /\ pc' = pc /\ writer' = i /\ pc[i] \in Writing
      /\ conn' = [conn EXCEPT ![i] = Pinned(Len(log))]
      /\ call' = [j \in Instances |-> IF j = i THEN call[j] ELSE [call[j] EXCEPT !.quiet = FALSE]]
      /\ conn \in [Instances -> Conns] /\ call \in [Instances -> Calls]
  BY DEF Insert, LossInv, IInv, TypeOK
<1>2. pc'[i] \notin {"answer", "error"}
  BY <1>1 DEF Writing
<1>3. \A j \in Instances \ {i} : pc'[j] = pc[j] /\ conn'[j] = conn[j]
  BY <1>1
<1>4. \A j \in Instances \ {i} :
        /\ ~call'[j].quiet
        /\ call'[j].kind = call[j].kind /\ call'[j].recorded = call[j].recorded
  BY <1>1 DEF Calls
<1>. QED  BY <1>1, <1>2, <1>3, <1>4, OthersExplained

LEMMA CheckExplained ==
  ASSUME LossInv, NEW i \in Instances, Check(i)
  PROVE  QuietAlone' /\ LossesExplained'
<1> DEFINE good == ~Revoked(call[i].token, View(i))
<1>1. /\ log' = log /\ writer' = writer /\ Look(i)
      /\ call' = [call EXCEPT ![i].allowed = good]
      /\ pc \in [Instances -> Pcs] /\ conn \in [Instances -> Conns]
      /\ call \in [Instances -> Calls]
  BY DEF Check, LossInv, IInv, TypeOK, Pcs
<1>2. PICK at \in {"work", "answer", "tail"} :
        pc' = [pc EXCEPT ![i] = at] /\ (at = "answer" => call[i].kind = "revoke")
  BY DEF Check, Goto
<1> HIDE DEF good
<1>3. call'[i].kind = call[i].kind /\ call'[i].quiet = call[i].quiet
  BY <1>1 DEF Calls
<1>4. \A j \in Instances \ {i} : pc'[j] = pc[j] /\ conn'[j] = conn[j] /\ call'[j] = call[j]
  BY <1>1, <1>2 DEF Look
<1>5. call[i].quiet => writer \in {NoOne, i}
  BY DEF LossInv, QuietAlone
<1>6. pc'[i] = at
  BY <1>1, <1>2
<1>. QED  BY <1>1, <1>2, <1>3, <1>4, <1>5, <1>6, OthersExplained

\* The steps that bring a process to where nothing has ended yet.
LEMMA RestExplained ==
  ASSUME LossInv, NEW i \in Instances, log' = log,
         writer' \in {writer, NoOne},
         NEW at \in Pcs \ {"answer", "error"}, pc' = [pc EXCEPT ![i] = at],
         \A j \in Instances \ {i} : conn'[j] = conn[j] /\ call'[j] = call[j],
         call'[i].quiet => writer' = NoOne \/ call'[i] = call[i]
  PROVE  QuietAlone' /\ LossesExplained'
<1>1. pc'[i] \notin {"answer", "error"} /\ \A j \in Instances \ {i} : pc'[j] = pc[j]
  BY DEF LossInv, IInv, TypeOK, Pcs
<1>2. call'[i].quiet => writer' \in {NoOne, i}
  BY DEF LossInv, QuietAlone
<1>3. writer' = i => writer = i
  BY StoreConnectionAssumption
<1>4. \A j \in Instances \ {i} :
        /\ call'[j].quiet => call[j].quiet
        /\ call'[j].kind = call[j].kind /\ call'[j].recorded = call[j].recorded
  OBVIOUS
<1>. QED  BY <1>1, <1>2, <1>3, <1>4, OthersExplained

LEMMA StepExplained ==
  ASSUME LossInv, [Next]_vars
  PROVE  LossInv'
<1>1. IInv'
  BY StepInv DEF LossInv
<1>2. /\ call \in [Instances -> Calls] /\ conn \in [Instances -> Conns]
      /\ \A i \in Instances : pc[i] \notin Writing => writer # i
  BY NotWriter DEF LossInv, IInv, TypeOK
<1>3. ~NoCall.quiet
  BY DEF NoCall
<1>4. ASSUME NEW i \in Instances, Boot(i) \/ Count(i) \/ SeedFails(i)
      PROVE  QuietAlone' /\ LossesExplained'
  <2>1. log' = log /\ writer' = writer /\ conn' = conn /\ call' = call
    BY <1>4 DEF Boot, Count, SeedFails
  <2>2. PICK at \in {"count", "idle", "seed", "down"} : pc' = [pc EXCEPT ![i] = at]
    BY <1>4 DEF Boot, Count, SeedFails, Goto
  <2>3. at \in Pcs \ {"answer", "error"}
    BY <2>2 DEF Pcs, Writing
  <2>. QED  BY <2>1, <2>2, <2>3, RestExplained
<1>5. ASSUME NEW i \in Instances, LastHash(i) PROVE QuietAlone' /\ LossesExplained'
  <2>1. /\ log' = log /\ writer' = writer /\ call' = call /\ Look(i)
        /\ pc' = [pc EXCEPT ![i] = "event"]
    BY <1>5 DEF LastHash, Goto
  <2>2. \A j \in Instances \ {i} : conn'[j] = conn[j]
    BY <1>2, <2>1 DEF Look
  <2>3. "event" \in Pcs \ {"answer", "error"}
    BY DEF Pcs, Writing
  <2>. QED  BY <2>1, <2>2, <2>3, RestExplained
<1>6. ASSUME NEW i \in Instances, NEW kind \in {"read", "write", "revoke"}, NEW t \in Tokens,
             Begin(i, kind, t)
      PROVE  QuietAlone' /\ LossesExplained'
  <2> DEFINE c == [kind |-> kind, token |-> t, late |-> Revoked(t, Len(log)),
                   quiet |-> writer = NoOne, allowed |-> FALSE, wrapped |-> FALSE,
                   recorded |-> FALSE]
  <2>1. /\ log' = log /\ writer' = writer /\ conn' = conn
        /\ call' = [call EXCEPT ![i] = c] /\ pc' = [pc EXCEPT ![i] = "check"]
    BY <1>6 DEF Begin, Goto
  <2>2. c.quiet => writer = NoOne
    OBVIOUS
  <2> HIDE DEF c
  <2>3. call'[i] = c /\ \A j \in Instances \ {i} : call'[j] = call[j]
    BY <1>2, <2>1
  <2>4. "check" \in Pcs \ {"answer", "error"}
    BY DEF Pcs
  <2>. QED  BY <2>1, <2>2, <2>3, <2>4, RestExplained
<1>7. ASSUME NEW i \in Instances, Finish(i) \/ Crash(i) PROVE QuietAlone' /\ LossesExplained'
  <2>1. /\ log' = log /\ writer' \in {writer, NoOne}
        /\ call' = [call EXCEPT ![i] = NoCall]
        /\ conn' = conn \/ conn' = [conn EXCEPT ![i] = Autocommit]
    BY <1>7 DEF Finish, Crash
  <2>2. PICK at \in {"idle", "down"} : pc' = [pc EXCEPT ![i] = at]
    BY <1>7 DEF Finish, Crash, Goto
  <2>3. at \in Pcs \ {"answer", "error"}
    BY <2>2 DEF Pcs
  <2>4. /\ \A j \in Instances \ {i} : conn'[j] = conn[j] /\ call'[j] = call[j]
        /\ call'[i] = NoCall
    BY <1>2, <2>1
  <2>. QED  BY <1>3, <2>1, <2>2, <2>3, <2>4, RestExplained
<1>8. ASSUME UNCHANGED vars PROVE QuietAlone' /\ LossesExplained'
  BY <1>8 DEF LossInv, QuietAlone, LossesExplained, Tied, vars
<1>9. QuietAlone' /\ LossesExplained'
  BY <1>4, <1>5, <1>6, <1>7, <1>8, InsertExplained, CommitExplained, FailExplained,
     CheckExplained DEF Next, Work
<1>. QED  BY <1>1, <1>9 DEF LossInv

LEMMA TiedTillRestart ==
  ASSUME IInv, Next, NEW j \in Instances, Tied(j)
  PROVE  Tied(j)' \/ pc'[j] = "down"
<1>1. /\ Len(log) \in Nat /\ conn[j].at \in 0 .. Len(log) /\ View(j) # Len(log)
      /\ conn \in [Instances -> Conns] /\ pc \in [Instances -> Pcs]
  BY LogTyped, ConnTyped DEF IInv, TypeOK, Tied, View, Pcs
<1>2. writer # j
  BY <1>1, ConnTyped, StoreConnectionAssumption DEF IInv, TypeOK
<1>3. PICK i \in Instances :
        Work(i) \/ Boot(i) \/ Crash(i)
        \/ \E kind \in {"read", "write", "revoke"}, t \in Tokens : Begin(i, kind, t)
  BY DEF Next
<1>4. CASE Crash(i)
  <2>1. log' = log /\ pc' = [pc EXCEPT ![i] = "down"] /\ conn' = [conn EXCEPT ![i] = Autocommit]
    BY <1>4 DEF Crash, Goto
  <2>2. CASE i = j
    BY <1>1, <2>1, <2>2
  <2>3. CASE i # j
    BY <1>1, <2>1, <2>3, TiedStays DEF IInv
  <2>. QED  BY <2>2, <2>3
<1>5. CASE Commit(i)
  <2>1. writer = i /\ log' = Append(log, Entry(i)) /\ conn' = [conn EXCEPT ![i] = Autocommit]
    BY <1>5 DEF Commit
  <2>2. i # j /\ conn'[j] = conn[j] /\ \E e : log' = Append(log, e)
    BY <1>1, <1>2, <2>1
  <2>. QED  BY <2>2, TiedStays DEF IInv
<1>6. CASE Insert(i)
  <2>1. i # j /\ log' = log /\ conn' = [conn EXCEPT ![i] = Pinned(Len(log))]
    BY <1>1, <1>6 DEF Insert
  <2>. QED  BY <1>1, <2>1, TiedStays DEF IInv
<1>7. CASE Fail(i)
  <2>1. log' = log /\ Locked(i)
    BY <1>7 DEF Fail
  <2>2. conn'[j] = conn[j]
    BY <2>1, LockedConn DEF Tied
  <2>. QED  BY <2>1, <2>2, TiedStays DEF IInv
<1>8. CASE Check(i) \/ LastHash(i)
  <2>1. log' = log /\ Look(i)
    BY <1>8 DEF Check, LastHash
  <2>2. conn'[j] = conn[j]
    BY <1>1, <2>1 DEF Look, Tied
  <2>. QED  BY <2>1, <2>2, TiedStays DEF IInv
<1>9. CASE Count(i) \/ SeedFails(i) \/ Finish(i) \/ Boot(i)
           \/ \E kind \in {"read", "write", "revoke"}, t \in Tokens : Begin(i, kind, t)
  <2>1. log' = log /\ conn' = conn
    BY <1>9 DEF Count, SeedFails, Finish, Boot, Begin
  <2>. QED  BY <2>1, TiedStays DEF IInv
<1>. QED  BY <1>3, <1>4, <1>5, <1>6, <1>7, <1>8, <1>9 DEF Work

-----------------------------------------------------------------------------
\* The variables keep their shapes, and the lock is only ever held on top of
\* the newest version, by a process about to commit (store.py:125-217).
THEOREM TypeCorrect == Spec => []TypeOK
<1>1. Init => IInv
  BY InitInv
<1>2. IInv /\ [Next]_vars => IInv'
  BY StepInv
<1>3. IInv => TypeOK
  BY DEF IInv
<1>. QED  BY <1>1, <1>2, <1>3, PTL DEF Spec

\* A revoked token gets nothing done and nothing answered in a call that began
\* after the revocation, by whatever old version the process is stuck with
\* (auth.py:144-167, gateway.py:96, store.py:205-217).
THEOREM StaleNeverAnswers == Spec => []RevokedStaysOut
<1>1. Init => IInv
  BY InitInv
<1>2. IInv /\ [Next]_vars => IInv'
  BY StepInv
<1>3. IInv => RevokedStaysOut
  BY DEF IInv, LogClean, StaleStays, RevokedStaysOut
<1>. QED  BY <1>1, <1>2, <1>3, PTL DEF Spec

\* However many processes start at once on an empty file, and wherever they
\* die, each that raced for it seeds it once at most (store.py:69-103).
THEOREM SeedingIsBounded ==
  ASSUME IsFiniteSet(Instances)
  PROVE  Spec => []SeedsBounded
<1>1. Init => SeedInv
  BY InitSeeds
<1>2. SeedInv /\ [Next]_vars => SeedInv'
  BY StepSeeds
<1>3. SeedInv => SeedsBounded
  <2>. SUFFICES ASSUME SeedInv PROVE SeedsBounded
    OBVIOUS
  <2>1. Cardinality(SeedRows) + Cardinality(AtSeed) <= Cardinality(Instances)
    BY DEF SeedInv, SeedRoom
  <2>2. Cardinality(SeedRows) \in Nat
    BY FS_CardinalityType DEF SeedInv, SeedRoom
  <2>3. Cardinality(AtSeed) \in Nat /\ Cardinality(Instances) \in Nat
    BY AtSeedFinite
  <2>4. Cardinality(SeedRows) <= Cardinality(Instances)
    BY <2>1, <2>2, <2>3
  <2>. QED  BY <2>4 DEF SeedsBounded, SeedRows
<1>. QED  BY <1>1, <1>2, <1>3, PTL DEF Spec

\* A tool call that was not disturbed and ended in an error is missing from
\* the record only where its process was left in a transaction on an old
\* version, and none is answered that is missing (gateway.py:82-107,
\* store.py:205-217).
THEOREM LossesHaveACause == Spec => []LossesExplained
<1>1. Init => LossInv
  BY InitInv DEF Init, NoCall, LossInv, QuietAlone, LossesExplained
<1>2. LossInv /\ [Next]_vars => LossInv'
  BY StepExplained
<1>3. LossInv => LossesExplained
  BY DEF LossInv
<1>. QED  BY <1>1, <1>2, <1>3, PTL DEF Spec

\* Nothing but a restart frees a process from a version that is no longer the
\* newest: the store has no rollback, and what it has, commit(), comes only
\* after a write, which such a process never gets through
\* (store.py:125-143, store.py:205-217).
THEOREM OnlyRestartFrees ==
  Spec => [][\A i \in Instances : Tied(i) => Tied(i)' \/ pc'[i] = "down"]_vars
<1>1. Init => IInv
  BY InitInv
<1>2. IInv /\ [Next]_vars => IInv'
  BY StepInv
<1>3. IInv /\ [Next]_vars
        => [\A i \in Instances : Tied(i) => Tied(i)' \/ pc'[i] = "down"]_vars
  BY TiedTillRestart
<1>. QED  BY <1>1, <1>2, <1>3, PTL DEF Spec

=============================================================================
