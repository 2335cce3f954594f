-------------------------- MODULE StoreConnection --------------------------
(***************************************************************************)
(* The SQLite connection of Store in src/mcpgate/store.py, under the calls *)
(* that use it: which version of the database a statement sees, when a     *)
(* write gets the one write lock, and what a write that does not get it    *)
(* leaves behind.                                                          *)
(*                                                                         *)
(* The file is in WAL mode.  A SELECT sees the newest version, but inside  *)
(* a transaction the version of the transaction's first SELECT.  Python    *)
(* begins a transaction before an INSERT or UPDATE, and the store ends it  *)
(* with commit() and in no other way: an INSERT that fails leaves it open, *)
(* and the next SELECT fixes its version.                                  *)
(*                                                                         *)
(* A call is cut down to the statements that matter here: the SELECT of    *)
(* the token, one write of its own, and the SELECT and INSERT of record(). *)
(***************************************************************************)
EXTENDS Naturals, Sequences, FiniteSets

CONSTANTS
  Instances,  \* processes on the database
  Running,    \* those among them that never stop halfway for good
  Tokens,
  NoOne,      \* nobody holds the write lock; no token
  MaxCalls,   \* bound: calls that begin
  MaxCrashes  \* bound: processes that die

ASSUME StoreConnectionAssumption ==
  /\ NoOne \notin Instances /\ NoOne \notin Tokens
  /\ Running \subseteq Instances
  /\ MaxCalls \in Nat /\ MaxCrashes \in Nat

VARIABLES
  log,     \* the committed transactions; a version is a length of it
  writer,  \* who holds the write lock
  conn,    \* the transaction of each connection
  pc,      \* where each process is
  call,    \* the call it is serving
  begun,   \* number of calls so far
  crashes

vars == <<log, writer, conn, pc, call, begun, crashes>>

\* No transaction; one that has seen nothing yet; one that sees a version.
Autocommit == [mode |-> "auto", at |-> 0]
Open == [mode |-> "open", at |-> 0]
Pinned(n) == [mode |-> "pinned", at |-> n]

NoCall == [kind |-> "none", token |-> NoOne, late |-> FALSE, quiet |-> FALSE,
           allowed |-> FALSE, wrapped |-> FALSE, recorded |-> FALSE]

Init ==
  /\ log = <<>>
  /\ writer = NoOne
  /\ conn = [i \in Instances |-> Autocommit]
  /\ pc = [i \in Instances |-> "down"]
  /\ call = [i \in Instances |-> NoCall]
  /\ begun = 0
  /\ crashes = 0

-----------------------------------------------------------------------------
(***************************************************************************)
(* Statements                                                              *)
(***************************************************************************)

\* The version a SELECT of i sees.
View(i) == IF conn[i].mode = "pinned" THEN conn[i].at ELSE Len(log)

\* A SELECT.
Look(i) ==
  conn' = [conn EXCEPT ![i] = IF @.mode = "open" THEN Pinned(Len(log)) ELSE @]

Revoked(t, n) == \E k \in 1 .. n : log[k].kind = "revoke" /\ log[k].token = t

HasTickets(n) == \E k \in 1 .. n : log[k].kind \in {"seed", "ticket"}

\* The pcs where a process writes.
Writing == {"seed", "work", "event"}

Goto(i, at) == pc' = [pc EXCEPT ![i] = at]

\* What a process at one of them writes.
Entry(i) ==
  [kind |-> CASE pc[i] = "seed" -> "seed"
              [] pc[i] = "work" -> IF call[i].kind = "revoke" THEN "revoke" ELSE "ticket"
              [] OTHER -> IF call[i].allowed THEN "allow" ELSE "deny",
   token |-> call[i].token, late |-> call[i].late]

\* An INSERT or UPDATE that gets the lock: nobody has it, and the version the
\* transaction sees, if it sees one, is the newest.
Insert(i) ==
  /\ pc[i] \in Writing
  /\ writer = NoOne
  /\ View(i) = Len(log)
  /\ writer' = i
  /\ conn' = [conn EXCEPT ![i] = Pinned(Len(log))]
  /\ call' = [j \in Instances |-> IF j = i THEN call[j] ELSE [call[j] EXCEPT !.quiet = FALSE]]
  /\ UNCHANGED <<log, pc, begun, crashes>>

\* commit(), and where the process goes on: an event of the wrapper goes with
\* an error.
Commit(i) ==
  /\ writer = i
  /\ log' = Append(log, Entry(i))
  /\ writer' = NoOne
  /\ conn' = [conn EXCEPT ![i] = Autocommit]
  /\ call' = [call EXCEPT ![i].recorded = (pc[i] = "event")]
  /\ \/ pc[i] = "seed" /\ Goto(i, "idle")
     \/ pc[i] = "work" /\ Goto(i, IF call[i].kind = "revoke" THEN "answer" ELSE "tail")
     \/ pc[i] = "event" /\ Goto(i, IF call[i].wrapped THEN "error" ELSE "answer")
  /\ UNCHANGED <<begun, crashes>>

\* Seeded fault: no busy timeout.
LockedForLong(i) ==
  /\ conn[i].mode = "pinned"
  /\ writer # NoOne \/ View(i) # Len(log)
  /\ UNCHANGED conn

\* A write that fails: at once in a transaction that sees a version, after
\* the busy timeout in any other.  The transaction stays.
Locked(i) ==
  \/ /\ conn[i].mode = "pinned"
     /\ writer # NoOne \/ View(i) # Len(log)
     /\ UNCHANGED conn
  \/ /\ conn[i].mode # "pinned"
     /\ writer # NoOne
     /\ conn' = [conn EXCEPT ![i] = Open]

\* Seeded fault: a call whose event cannot be written is answered.
BestEffort(i) ==
  /\ pc[i] \in {"work", "event"} /\ writer # i
  /\ Locked(i)
  /\ \/ pc[i] = "work" /\ Goto(i, "tail")
     \/ pc[i] = "event" /\ Goto(i, "answer")
  /\ call' = [call EXCEPT ![i].allowed = (@ /\ pc[i] = "event")]
  /\ UNCHANGED <<log, writer, begun, crashes>>

\* The error goes to the catch-all of invoke(), which records a denial, from
\* its record() to the wrapper, which tries to record another, and from there
\* or from the revocation endpoint to the caller.
Fail(i) ==
  /\ pc[i] \in {"work", "event"} /\ writer # i
  /\ Locked(i)
  /\ \/ /\ pc[i] = "work" /\ call[i].kind = "write"
        /\ Goto(i, "tail")
        /\ call' = [call EXCEPT ![i].allowed = FALSE]
     \/ /\ pc[i] = "event" /\ ~call[i].wrapped
        /\ Goto(i, "tail")
        /\ call' = [call EXCEPT ![i].allowed = FALSE, ![i].wrapped = TRUE]
     \/ /\ \/ pc[i] = "work" /\ call[i].kind = "revoke"
           \/ pc[i] = "event" /\ call[i].wrapped
        /\ Goto(i, "error")
        /\ UNCHANGED call
  /\ UNCHANGED <<log, writer, begun, crashes>>

-----------------------------------------------------------------------------
(***************************************************************************)
(* A process starts: create_runtime opens a connection and seeds.          *)
(***************************************************************************)
Boot(i) ==
  /\ pc[i] = "down"
  /\ Goto(i, "count")
  /\ UNCHANGED <<log, writer, conn, call, begun, crashes>>

\* Seeded fault: the tickets are not counted.
AlwaysSeed(i) ==
  /\ pc[i] = "count"
  /\ Goto(i, "seed")
  /\ UNCHANGED <<log, writer, conn, call, begun, crashes>>

\* seed: SELECT COUNT, and an early return.
Count(i) ==
  /\ pc[i] = "count"
  /\ Goto(i, IF HasTickets(View(i)) THEN "idle" ELSE "seed")
  /\ UNCHANGED <<log, writer, conn, call, begun, crashes>>

\* The INSERT of seed fails: the process does not come up.
SeedFails(i) ==
  /\ pc[i] = "seed" /\ writer \notin {i, NoOne}
  /\ Goto(i, "down")
  /\ UNCHANGED <<log, writer, conn, call, begun, crashes>>

-----------------------------------------------------------------------------
(***************************************************************************)
(* A call                                                                  *)
(***************************************************************************)
Begin(i, kind, t) ==
  /\ pc[i] = "idle" /\ begun < MaxCalls
  /\ begun' = begun + 1
  /\ call' = [call EXCEPT ![i] =
       [kind |-> kind, token |-> t, late |-> Revoked(t, Len(log)), quiet |-> writer = NoOne,
        allowed |-> FALSE, wrapped |-> FALSE, recorded |-> FALSE]]
  /\ Goto(i, "check")
  /\ UNCHANGED <<log, writer, conn, crashes>>

\* load_access_token: the SELECT of the artifact.  A revocation of a token
\* that is not valid has nothing to do.
Check(i) ==
  LET good == ~Revoked(call[i].token, View(i))
  IN  /\ pc[i] = "check"
      /\ Look(i)
      /\ call' = [call EXCEPT ![i].allowed = good]
      /\ Goto(i, CASE good /\ call[i].kind # "read" -> "work"
                   [] ~good /\ call[i].kind = "revoke" -> "answer"
                   [] OTHER -> "tail")
      /\ UNCHANGED <<log, writer, begun, crashes>>

\* record: the SELECT of the last hash.
LastHash(i) ==
  /\ pc[i] = "tail"
  /\ Look(i)
  /\ Goto(i, "event")
  /\ UNCHANGED <<log, writer, call, begun, crashes>>

Finish(i) ==
  /\ pc[i] \in {"answer", "error"}
  /\ Goto(i, "idle")
  /\ call' = [call EXCEPT ![i] = NoCall]
  /\ UNCHANGED <<log, writer, conn, begun, crashes>>

\* Seeded fault: the lock outlives the process.
LockStays(i) ==
  /\ pc[i] # "down" /\ crashes < MaxCrashes
  /\ crashes' = crashes + 1
  /\ conn' = [conn EXCEPT ![i] = Autocommit]
  /\ call' = [call EXCEPT ![i] = NoCall]
  /\ Goto(i, "down")
  /\ UNCHANGED <<log, writer, begun>>

\* The process dies or is restarted: its transaction and its lock are gone.
Crash(i) ==
  /\ pc[i] # "down" /\ crashes < MaxCrashes
  /\ crashes' = crashes + 1
  /\ writer' = IF writer = i THEN NoOne ELSE writer
  /\ conn' = [conn EXCEPT ![i] = Autocommit]
  /\ call' = [call EXCEPT ![i] = NoCall]
  /\ Goto(i, "down")
  /\ UNCHANGED <<log, begun>>

\* What a process does that has begun something.
Work(i) ==
  \/ Insert(i) \/ Commit(i) \/ Fail(i)
  \/ Count(i) \/ SeedFails(i) \/ Check(i) \/ LastHash(i) \/ Finish(i)

Next ==
  \E i \in Instances :
    \/ Work(i) \/ Boot(i) \/ Crash(i)
    \/ \E kind \in {"read", "write", "revoke"}, t \in Tokens : Begin(i, kind, t)

\* Only the processes that keep running go on with what they have begun; any
\* other may stop for good wherever it is, with the write lock too.
Spec == Init /\ [][Next]_vars /\ \A i \in Running : WF_vars(Work(i))

-----------------------------------------------------------------------------
(***************************************************************************)
(* Properties                                                              *)
(***************************************************************************)
Entries ==
  [kind : {"seed", "ticket", "revoke", "allow", "deny"}, token : Tokens \cup {NoOne},
   late : BOOLEAN]

Conns == {Autocommit, Open} \cup {Pinned(n) : n \in 0 .. Len(log)}

Calls ==
  [kind : {"none", "read", "write", "revoke"}, token : Tokens \cup {NoOne},
   late : BOOLEAN, quiet : BOOLEAN, allowed : BOOLEAN, wrapped : BOOLEAN, recorded : BOOLEAN]

\* The shapes of the variables; who holds the lock is about to commit on top
\* of the newest version.
TypeOK ==
  /\ log \in Seq(Entries)
  /\ conn \in [Instances -> Conns]
  /\ pc \in [Instances -> Writing \cup {"down", "count", "idle", "check", "tail", "answer", "error"}]
  /\ call \in [Instances -> Calls]
  /\ writer # NoOne =>
       /\ writer \in Instances
       /\ pc[writer] \in Writing
       /\ conn[writer] = Pinned(Len(log))
  /\ begun \in 0 .. MaxCalls /\ crashes \in 0 .. MaxCrashes

\* However old the version is that a process is left with, no call that began
\* after a revocation of its token was committed changes a ticket, is on
\* record as allowed, or is answered: what it reads may be stale, but then
\* what it writes fails (auth.py:156, gateway.py:96).
RevokedStaysOut ==
  /\ \A k \in DOMAIN log : log[k].kind \in {"ticket", "allow"} => ~log[k].late
  /\ \A i \in Instances : pc[i] = "answer" /\ call[i].allowed => ~call[i].late

\* However often processes start, and wherever they die, the tickets are
\* seeded once for each process that raced for it at most (store.py:71-73).
SeedsBounded ==
  Cardinality({k \in DOMAIN log : log[k].kind = "seed"}) <= Cardinality(Instances)

\* Whatever a process begins it ends, though another one may stop for good
\* with the write lock held: nobody waits longer than the busy timeout.
CallsEnd ==
  \A i \in Running : pc[i] \notin {"down", "idle"} ~> pc[i] \in {"down", "idle"}

\* The transaction of i sees a version that is no longer the newest.
Tied(i) == conn[i].mode = "pinned" /\ conn[i].at < Len(log)

\* A tool call is answered only when it is on record, and one that ends in an
\* error with no record was either disturbed by another process with the write
\* lock, or served by a process left in a transaction on an old version
\* (gateway.py:82-94, store.py:205-217).
LossesExplained ==
  \A i \in Instances : call[i].kind # "revoke" =>
    /\ pc[i] = "answer" => call[i].recorded
    /\ pc[i] = "error" /\ call[i].quiet => call[i].recorded \/ Tied(i)

\* A tool call during which no other process held the write lock is on
\* record (gateway.py:82 "An unexpected fault must still be evidence").
QuietCallsRecorded ==
  \A i \in Instances :
    pc[i] = "error" /\ call[i].kind # "revoke" /\ call[i].quiet => call[i].recorded

=============================================================================
