----------------------------- MODULE AuditLog ------------------------------
(***************************************************************************)
(* The HMAC-chained audit trail: AuditLog.record and verify_chain of       *)
(* src/mcpgate/audit.py over the audit_events table of store.py.           *)
(*                                                                         *)
(* record() takes the store's lock twice: once to read the hash of the     *)
(* last row (audit.py:46) and once to insert the new row (line 67).  A     *)
(* writer is one process on the database, whose event loop runs record()   *)
(* to the end before the next call; several servers on one database file   *)
(* are several writers.                                                    *)
(*                                                                         *)
(* The twelve fields a row's HMAC covers besides previous_hash are one     *)
(* value of Contents, and the HMAC is the operator Mac.                    *)
(***************************************************************************)
EXTENDS Naturals, Sequences

CONSTANTS
  Writers,      \* processes that record events
  Contents,     \* what an event says: session, client, tool, decision, args ...
  Hashes,       \* the digests a row can hold
  Mac(_, _),    \* HMAC-SHA256 under the signing key, of a content and a hash
  Genesis,      \* the previous_hash of the first row, "0" * 64
  VerifyLimit,  \* rows verify_chain reads (1_000_000 in the code)
  MaxRows,      \* bound: no record() starts once the table has so many rows
  MaxEdits      \* bound: rows rewritten, inserted or deleted behind the log's back

ASSUME AuditAssumption ==
  /\ Genesis \in Hashes
  /\ VerifyLimit \in Nat \ {0}
  /\ MaxRows \in Nat
  /\ MaxEdits \in Nat

VARIABLES
  log,       \* audit_events in the order of sequence
  inflight,  \* record() calls that have read the tail and not yet inserted
  edits,     \* rows rewritten, inserted or deleted so far
  history    \* history: every honest table, one that is all record()'s doing

vars == <<log, inflight, edits, history>>

Init ==
  /\ log = <<>>
  /\ inflight = {}
  /\ edits = 0
  /\ history = {<<>>}

HashAtEnd(rows) == IF rows = <<>> THEN Genesis ELSE rows[Len(rows)].event_hash

LastHash == HashAtEnd(log)

-----------------------------------------------------------------------------

\* Seeded fault: record() gives way between the read and the insert.
InterruptibleReadTail(w, c) ==
  /\ Len(log) < MaxRows
  /\ inflight' = inflight \cup {[writer |-> w, content |-> c, previous_hash |-> LastHash]}
  /\ UNCHANGED <<log, edits, history>>

\* Writer w enters record() for an event c and reads the hash it chains to.
ReadTail(w, c) ==
  /\ Len(log) < MaxRows
  /\ \A r \in inflight : r.writer # w
  /\ inflight' = inflight \cup {[writer |-> w, content |-> c, previous_hash |-> LastHash]}
  /\ UNCHANGED <<log, edits, history>>

\* Seeded fault: every row is chained to the genesis value.
UnchainedRow(r) ==
  [content |-> r.content, previous_hash |-> Genesis, event_hash |-> Mac(r.content, Genesis)]

\* Seeded fault: the HMAC covers the content of the row only.
UncoveredLinkRow(r) ==
  [content |-> r.content, previous_hash |-> r.previous_hash,
   event_hash |-> Mac(r.content, Genesis)]

Row(r) ==
  [content |-> r.content, previous_hash |-> r.previous_hash,
   event_hash |-> Mac(r.content, r.previous_hash)]

\* The row is hashed and inserted, chained to the tail read before.  It makes
\* one more honest table of each whose last hash it is chained to.
AppendAudit(r) ==
  /\ log' = Append(log, Row(r))
  /\ inflight' = inflight \ {r}
  /\ history' = history \cup
       {Append(h, Row(r)) : h \in {g \in history : HashAtEnd(g) = r.previous_hash}}
  /\ UNCHANGED edits

\* The process dies between the read and the insert.
Crash(r) ==
  /\ inflight' = inflight \ {r}
  /\ UNCHANGED <<log, edits, history>>

\* The digests record() has made, and the genesis value: without the key
\* nobody can write another that a row would be accepted with.
Digests == {HashAtEnd(h) : h \in history}

\* What someone can write into a row: any event under any known digests, those
\* of other rows and of deleted ones included.
Forgeries == [content : Contents, previous_hash : Digests, event_hash : Digests]

\* Someone rewrites columns of a row, as tests/test_audit.py does.
EditRow(k, row) ==
  /\ edits < MaxEdits
  /\ log[k] # row
  /\ log' = [log EXCEPT ![k] = row]
  /\ edits' = edits + 1
  /\ UNCHANGED <<inflight, history>>

\* Someone inserts a row after the k-th, under a free sequence number.
InsertRow(k, row) ==
  /\ edits < MaxEdits
  /\ log' = SubSeq(log, 1, k) \o <<row>> \o SubSeq(log, k + 1, Len(log))
  /\ edits' = edits + 1
  /\ UNCHANGED <<inflight, history>>

\* Someone deletes a row from the database.
DropRow(k) ==
  /\ edits < MaxEdits
  /\ log' = SubSeq(log, 1, k - 1) \o SubSeq(log, k + 1, Len(log))
  /\ edits' = edits + 1
  /\ UNCHANGED <<inflight, history>>

Next ==
  \/ \E w \in Writers, c \in Contents : ReadTail(w, c)
  \/ \E r \in inflight : AppendAudit(r)
  \/ \E r \in inflight : Crash(r)
  \/ \E k \in DOMAIN log, row \in Forgeries : EditRow(k, row)
  \/ \E k \in 0 .. Len(log), row \in Forgeries : InsertRow(k, row)
  \/ \E k \in DOMAIN log : DropRow(k)

Spec == Init /\ [][Next]_vars

-----------------------------------------------------------------------------
(***************************************************************************)
(* verify_chain: the newest VerifyLimit rows, oldest first, must chain     *)
(* from the genesis value and carry the HMAC of what they say.             *)
(***************************************************************************)
FirstRead == IF Len(log) > VerifyLimit THEN Len(log) - VerifyLimit + 1 ELSE 1

Linked(k) ==
  log[k].previous_hash = IF k = FirstRead THEN Genesis ELSE log[k - 1].event_hash

Authentic(k) == log[k].event_hash = Mac(log[k].content, log[k].previous_hash)

\* Seeded fault: the links are compared, the HMACs are not recomputed.
LinksOnlyVerify == \A k \in FirstRead .. Len(log) : Linked(k)

VerifyChain == \A k \in FirstRead .. Len(log) : Linked(k) /\ Authentic(k)

-----------------------------------------------------------------------------
(***************************************************************************)
(* Properties                                                              *)
(***************************************************************************)

Rows == [content : Contents, previous_hash : Hashes, event_hash : Hashes]
Readings == [writer : Writers, content : Contents, previous_hash : Hashes]

\* The shapes of the variables; a writer is inside one record() at a time,
\* because record() has no point at which its event loop could turn to
\* another call.
TypeOK ==
  /\ log \in Seq(Rows)
  /\ inflight \subseteq Readings
  /\ \A r, q \in inflight : r.writer = q.writer => r = q
  /\ edits \in 0 .. MaxEdits
  /\ history \subseteq Seq(Rows)

\* A table nobody edited verifies (README: "hash chain intact"; the suite
\* asserts verify_chain() after every sequence of calls).
IntactChainVerifies == edits = 0 => VerifyChain

\* Whatever was rewritten, inserted or deleted by someone without the key, a
\* table that verifies is one that record() alone has produced at some time:
\* a forgery always shows, and only the loss of the newest rows does not.
TamperEvident == VerifyChain => log \in history

\* When writers race and an unedited table fails to verify, two of its rows
\* are chained to the same hash.
RaceLeavesSiblings ==
  edits = 0 /\ ~VerifyChain =>
    \E j, k \in DOMAIN log : j # k /\ log[j].previous_hash = log[k].previous_hash

=============================================================================
