-------------------------- MODULE AuditLogProofs ---------------------------
(***************************************************************************)
(* What the audit chain guarantees, for any events and any crashes between *)
(* the read of the tail and the insert.  When one process records, a table *)
(* nobody touched verifies; with two it need not (run AuditLog_fork), so   *)
(* that theorem takes OneWriter as its hypothesis, and the next one says   *)
(* what a fork looks like.  However many record, and whatever is rewritten,*)
(* inserted or deleted, a table that verifies is an honest one.            *)
(***************************************************************************)
EXTENDS AuditLog, SequenceTheorems, FiniteSetTheorems, TLAPS

OneWriter == \A a, b \in Writers : a = b

\* HMAC-SHA256 yields a digest.
MacIsHash == \A c \in Contents, h \in Hashes : Mac(c, h) \in Hashes

\* verify_chain reads the whole table.
AllRowsRead == MaxRows <= VerifyLimit

(***************************************************************************)
(* While no row was touched, every row is chained to the one before it and *)
(* carries its own HMAC, and the reading a writer holds is still the tail. *)
(***************************************************************************)
Chained ==
  \A k \in DOMAIN log :
    /\ log[k].previous_hash = IF k = 1 THEN Genesis ELSE log[k - 1].event_hash
    /\ Authentic(k)

ReadingIsTail == \A r \in inflight : r.previous_hash = LastHash

\* record() starts only below the bound.
WithinBound ==
  /\ Len(log) <= MaxRows
  /\ inflight # {} => Len(log) < MaxRows

\* One writer has one record() in flight.
OneReading == \A r, q \in inflight : r = q

IInv ==
  /\ TypeOK
  /\ OneReading
  /\ edits = 0 => WithinBound /\ Chained /\ ReadingIsTail

-----------------------------------------------------------------------------
\* The tail's hash, Genesis or an event_hash, is a digest.
LEMMA LastHashTyped == ASSUME TypeOK PROVE LastHash \in Hashes
<1>1. CASE log = <<>>
  BY <1>1, AuditAssumption DEF LastHash, HashAtEnd
<1>2. CASE log # <<>>
  <2>1. Len(log) \in 1 .. Len(log)
    BY <1>2, EmptySeq DEF TypeOK
  <2>2. log[Len(log)] \in Rows
    BY <2>1, ElementOfSeq DEF TypeOK
  <2>. QED  BY <1>2, <2>2 DEF LastHash, HashAtEnd, Rows
<1>. QED  BY <1>1, <1>2

LEMMA RowTyped ==
  ASSUME MacIsHash, NEW r \in Readings PROVE Row(r) \in Rows
  BY DEF MacIsHash, Readings, Row, Rows

\* What is cut out of a table is a table of its rows.
LEMMA Cut ==
  ASSUME log \in Seq(Rows), NEW m \in Nat, NEW n \in Nat, 1 <= m, n <= Len(log)
  PROVE  /\ SubSeq(log, m, n) \in Seq(Rows)
         /\ \A j \in DOMAIN SubSeq(log, m, n) :
              \E i \in DOMAIN log : SubSeq(log, m, n)[j] = log[i]
<1>1. /\ Len(log) \in Nat /\ DOMAIN log = 1 .. Len(log)
      /\ \A j \in 1 .. Len(log) : log[j] \in Rows
  BY ElementOfSeq, LenProperties
<1>2. \A j \in m .. n : log[j] \in Rows
  BY <1>1
<1>3. /\ SubSeq(log, m, n) \in Seq(Rows)
      /\ Len(SubSeq(log, m, n)) = IF m <= n THEN n - m + 1 ELSE 0
      /\ \A j \in 1 .. n - m + 1 : SubSeq(log, m, n)[j] = log[m + j - 1]
  <2>1. m \in Int /\ n \in Int
    OBVIOUS
  <2>. QED  BY <1>2, <2>1, SubSeqProperties
<1>4. DOMAIN SubSeq(log, m, n) = 1 .. Len(SubSeq(log, m, n))
  BY <1>3, LenProperties
<1>5. ASSUME NEW j \in DOMAIN SubSeq(log, m, n)
      PROVE  \E i \in DOMAIN log : SubSeq(log, m, n)[j] = log[i]
  <2>1. j \in 1 .. n - m + 1
    BY <1>3, <1>4
  <2>2. m + j - 1 \in DOMAIN log
    BY <1>1, <2>1
  <2>. QED  BY <1>3, <2>1, <2>2
<1>. QED  BY <1>3, <1>5

\* The rows of two tables joined are rows of one or the other.
LEMMA Joined ==
  ASSUME NEW f \in Seq(Rows), NEW g \in Seq(Rows)
  PROVE  /\ f \o g \in Seq(Rows)
         /\ \A j \in DOMAIN (f \o g) :
              \/ \E i \in DOMAIN f : (f \o g)[j] = f[i]
              \/ \E i \in DOMAIN g : (f \o g)[j] = g[i]
<1>1. /\ Len(f) \in Nat /\ DOMAIN f = 1 .. Len(f)
      /\ Len(g) \in Nat /\ DOMAIN g = 1 .. Len(g)
  BY LenProperties
<1>2. PICK h : h = f \o g
  OBVIOUS
<1>3. /\ h \in Seq(Rows) /\ Len(h) = Len(f) + Len(g)
      /\ \A j \in 1 .. Len(f) + Len(g) :
           h[j] = IF j <= Len(f) THEN f[j] ELSE g[j - Len(f)]
  BY <1>2, ConcatProperties, Zenon
<1>4. DOMAIN h = 1 .. Len(f) + Len(g)
  BY <1>3, LenProperties
<1>5. ASSUME NEW j \in DOMAIN h
      PROVE  (\E i \in DOMAIN f : h[j] = f[i]) \/ (\E i \in DOMAIN g : h[j] = g[i])
  <2>1. CASE j <= Len(f)
    BY <1>1, <1>3, <1>4, <2>1
  <2>2. CASE ~(j <= Len(f))
    <3>1. j - Len(f) \in DOMAIN g /\ h[j] = g[j - Len(f)]
      BY <1>1, <1>3, <1>4, <2>2
    <3>. QED  BY <3>1
  <2>. QED  BY <2>1, <2>2
<1>. QED  BY <1>2, <1>3, <1>5

\* A row of the table, or one that was forged into it.
FromTable(rows, row) ==
  \A j \in DOMAIN rows : rows[j] = row \/ \E i \in DOMAIN log : rows[j] = log[i]

\* Whoever rewrites, inserts or deletes leaves a table, of old rows and the
\* one that was written.
LEMMA RowDropped ==
  ASSUME TypeOK, NEW k \in DOMAIN log, DropRow(k)
  PROVE  /\ log' \in Seq(Rows) /\ edits' \in 1 .. MaxEdits
         /\ inflight' = inflight /\ history' = history
         /\ \A j \in DOMAIN log' : \E i \in DOMAIN log : log'[j] = log[i]
<1>1. k \in 1 .. Len(log) /\ Len(log) \in Nat /\ log \in Seq(Rows)
  BY LenProperties DEF TypeOK
<1>2. PICK f, g : f = SubSeq(log, 1, k - 1) /\ g = SubSeq(log, k + 1, Len(log))
  OBVIOUS
<1>3. f \in Seq(Rows) /\ \A j \in DOMAIN f : \E i \in DOMAIN log : f[j] = log[i]
  <2>1. k - 1 \in Nat /\ 1 \in Nat /\ 1 <= 1 /\ k - 1 <= Len(log)
    BY <1>1
  <2>. QED  BY <1>1, <1>2, <2>1, Cut
<1>4. g \in Seq(Rows) /\ \A j \in DOMAIN g : \E i \in DOMAIN log : g[j] = log[i]
  <2>1. k + 1 \in Nat /\ 1 <= k + 1 /\ Len(log) <= Len(log)
    BY <1>1
  <2>. QED  BY <1>1, <1>2, <2>1, Cut
<1>5. log' = f \o g
  BY <1>2 DEF DropRow
<1>6. edits' \in 1 .. MaxEdits
  BY AuditAssumption DEF TypeOK, DropRow
<1>7. /\ log' \in Seq(Rows)
      /\ \A j \in DOMAIN log' : \/ \E i \in DOMAIN f : log'[j] = f[i]
                                \/ \E i \in DOMAIN g : log'[j] = g[i]
  BY <1>3, <1>4, <1>5, Joined
<1>8. \A j \in DOMAIN log' : \E i \in DOMAIN log : log'[j] = log[i]
  BY <1>3, <1>4, <1>7
<1>. QED  BY <1>6, <1>7, <1>8 DEF DropRow

LEMMA ForgedRow ==
  ASSUME TypeOK, NEW row \in Forgeries
  PROVE  row \in Rows /\ \E h \in history : HashAtEnd(h) = row.event_hash
<1>1. ASSUME NEW h \in history PROVE HashAtEnd(h) \in Hashes
  <2>1. h \in Seq(Rows)
    BY DEF TypeOK
  <2>2. CASE h = <<>>
    BY <2>2, AuditAssumption DEF HashAtEnd
  <2>3. CASE h # <<>>
    <3>1. Len(h) \in 1 .. Len(h)
      BY <2>1, <2>3, EmptySeq
    <3>2. h[Len(h)] \in Rows
      BY <2>1, <3>1, ElementOfSeq
    <3>. QED  BY <2>3, <3>2 DEF HashAtEnd, Rows
  <2>. QED  BY <2>2, <2>3
<1>2. Digests \subseteq Hashes
  BY <1>1 DEF Digests
<1>. QED  BY <1>2 DEF Forgeries, Digests, Rows

LEMMA RowEdited ==
  ASSUME TypeOK, NEW k \in DOMAIN log, NEW row \in Forgeries, EditRow(k, row)
  PROVE  /\ log' \in Seq(Rows) /\ edits' \in 1 .. MaxEdits
         /\ inflight' = inflight /\ history' = history
         /\ FromTable(log', row)
<1>1. k \in 1 .. Len(log) /\ row \in Rows
  BY ForgedRow, LenProperties DEF TypeOK
<1>2. log' = [log EXCEPT ![k] = row]
  BY DEF EditRow
<1>3. log' \in Seq(Rows)
  BY <1>1, <1>2, ExceptSeq DEF TypeOK
<1>4. edits' \in 1 .. MaxEdits
  BY AuditAssumption DEF TypeOK, EditRow
<1>. QED  BY <1>2, <1>3, <1>4 DEF EditRow, FromTable

LEMMA RowInserted ==
  ASSUME TypeOK, NEW k \in 0 .. Len(log), NEW row \in Forgeries, InsertRow(k, row)
  PROVE  /\ log' \in Seq(Rows) /\ edits' \in 1 .. MaxEdits
         /\ inflight' = inflight /\ history' = history
         /\ FromTable(log', row)
<1>1. k \in Nat /\ k <= Len(log) /\ Len(log) \in Nat /\ log \in Seq(Rows)
  BY LenProperties DEF TypeOK
<1>2. PICK f, g, one : f = SubSeq(log, 1, k) /\ g = SubSeq(log, k + 1, Len(log)) /\ one = <<row>>
  OBVIOUS
<1>3. f \in Seq(Rows) /\ \A j \in DOMAIN f : \E i \in DOMAIN log : f[j] = log[i]
  <2>1. 1 \in Nat /\ 1 <= 1
    OBVIOUS
  <2>. QED  BY <1>1, <1>2, <2>1, Cut
<1>4. g \in Seq(Rows) /\ \A j \in DOMAIN g : \E i \in DOMAIN log : g[j] = log[i]
  <2>1. k + 1 \in Nat /\ 1 <= k + 1 /\ Len(log) <= Len(log)
    BY <1>1
  <2>. QED  BY <1>1, <1>2, <2>1, Cut
<1>5. one \in Seq(Rows) /\ \A j \in DOMAIN one : one[j] = row
  <2>1. row \in Rows
    BY ForgedRow
  <2>. QED  BY <1>2, <2>1
<1>6. PICK fo : fo = f \o one
  OBVIOUS
<1>7. fo \in Seq(Rows) /\ \A j \in DOMAIN fo : fo[j] = row \/ \E i \in DOMAIN log : fo[j] = log[i]
  BY <1>3, <1>5, <1>6, Joined
<1>8. log' = fo \o g
  BY <1>2, <1>6 DEF InsertRow
<1>9. log' \in Seq(Rows) /\ FromTable(log', row)
  BY <1>4, <1>7, <1>8, Joined DEF FromTable
<1>10. edits' \in 1 .. MaxEdits
  BY AuditAssumption DEF TypeOK, InsertRow
<1>. QED  BY <1>9, <1>10 DEF InsertRow

LEMMA Appended ==
  ASSUME MacIsHash, TypeOK, NEW r \in inflight, AppendAudit(r)
  PROVE  /\ r \in Readings /\ Row(r) \in Rows
         /\ log' = Append(log, Row(r)) /\ log' \in Seq(Rows)
         /\ Len(log) \in Nat /\ Len(log') = Len(log) + 1
         /\ DOMAIN log = 1 .. Len(log)
         /\ DOMAIN log' = 1 .. Len(log) + 1
         /\ \A k \in 1 .. Len(log) : log'[k] = log[k]
         /\ log'[Len(log) + 1] = Row(r)
         /\ inflight' \subseteq inflight
         /\ edits' = edits
<1>1. r \in Readings /\ Row(r) \in Rows
  BY RowTyped DEF TypeOK
<1>. QED  BY <1>1 DEF TypeOK, AppendAudit

LEMMA TypeInductive == ASSUME MacIsHash, TypeOK, [Next]_vars PROVE TypeOK'
<1>1. ASSUME NEW w \in Writers, NEW c \in Contents, ReadTail(w, c) PROVE TypeOK'
  BY <1>1, LastHashTyped DEF TypeOK, Readings, ReadTail
<1>2. ASSUME NEW r \in inflight, AppendAudit(r) PROVE TypeOK'
  <2>1. /\ Row(r) \in Rows /\ log' \in Seq(Rows) /\ inflight' \subseteq inflight
        /\ edits' = edits
    BY <1>2, Appended
  <2>2. \A h \in history : Append(h, Row(r)) \in Seq(Rows)
    BY <2>1 DEF TypeOK
  <2>3. history' \subseteq Seq(Rows)
    BY <1>2, <2>2, Zenon DEF TypeOK, AppendAudit
  <2>. QED  BY <2>1, <2>3 DEF TypeOK
<1>3. ASSUME NEW r \in inflight, Crash(r) PROVE TypeOK'
  BY <1>3 DEF TypeOK, Crash
<1>4. ASSUME NEW k \in DOMAIN log, NEW row \in Forgeries, EditRow(k, row) PROVE TypeOK'
  BY <1>4, RowEdited DEF TypeOK
<1>5. ASSUME NEW k \in 0 .. Len(log), NEW row \in Forgeries, InsertRow(k, row) PROVE TypeOK'
  BY <1>5, RowInserted DEF TypeOK
<1>6. ASSUME NEW k \in DOMAIN log, DropRow(k) PROVE TypeOK'
  BY <1>6, RowDropped DEF TypeOK
<1>7. CASE UNCHANGED vars
  BY <1>7 DEF vars, TypeOK
<1>. QED  BY <1>1, <1>2, <1>3, <1>4, <1>5, <1>6, <1>7 DEF Next

\* However many processes record, crash, and have their rows rewritten,
\* inserted or deleted, the variables keep their shapes, and each process is inside one
\* record() at a time (audit.py:28-83).
THEOREM TypeCorrect == ASSUME MacIsHash PROVE Spec => []TypeOK
<1>1. Init => TypeOK
  BY AuditAssumption DEF Init, TypeOK
<1>2. TypeOK /\ [Next]_vars => TypeOK'
  BY TypeInductive
<1>. QED  BY <1>1, <1>2, PTL DEF Spec

-----------------------------------------------------------------------------
LEMMA InitInv == Init => IInv
  BY AuditAssumption
  DEF Init, IInv, TypeOK, OneReading, WithinBound, Chained, ReadingIsTail

LEMMA ReadTailInv ==
  ASSUME OneWriter, IInv, NEW w \in Writers, NEW c \in Contents, ReadTail(w, c)
  PROVE  IInv'
<1>1. inflight = {}
  BY DEF OneWriter, IInv, TypeOK, Readings, ReadTail
<1>2. inflight' = {[writer |-> w, content |-> c, previous_hash |-> LastHash]}
  BY <1>1 DEF ReadTail
<1>3. TypeOK'
  BY <1>2, LastHashTyped DEF IInv, TypeOK, Readings, ReadTail
<1>4. OneReading'
  BY <1>2 DEF OneReading
<1>5. ASSUME edits' = 0 PROVE WithinBound' /\ Chained' /\ ReadingIsTail'
  <2>1. Len(log) < MaxRows
    BY DEF ReadTail
  <2>2. WithinBound'
    BY <1>2, <1>5, <2>1 DEF IInv, WithinBound, ReadTail
  <2>. QED
    BY <1>2, <1>5, <2>2 DEF IInv, Chained, Authentic, ReadingIsTail, LastHash, ReadTail
<1>. QED  BY <1>3, <1>4, <1>5 DEF IInv

LEMMA AppendAuditInv ==
  ASSUME MacIsHash, IInv, NEW r \in inflight, AppendAudit(r)
  PROVE  IInv'
<1>1. /\ log' = Append(log, Row(r))
      /\ Len(log) \in Nat
      /\ Len(log') = Len(log) + 1
      /\ DOMAIN log = 1 .. Len(log)
      /\ DOMAIN log' = 1 .. Len(log) + 1
  BY Appended DEF IInv
<1>2. /\ \A k \in 1 .. Len(log) : log'[k] = log[k]
      /\ log'[Len(log) + 1] = Row(r)
  BY Appended DEF IInv
<1>3. inflight' = {}
  BY DEF IInv, OneReading, AppendAudit
<1>4. TypeOK'
  BY TypeInductive DEF IInv, Next
<1>5. OneReading' /\ (edits' = 0 => WithinBound')
  BY <1>1, <1>2, <1>3, AuditAssumption DEF IInv, OneReading, WithinBound, AppendAudit
<1>6. ASSUME edits' = 0 PROVE Chained' /\ ReadingIsTail'
  <2>1. Chained /\ r.previous_hash = LastHash
    BY <1>6 DEF IInv, ReadingIsTail, AppendAudit
  <2>2. LastHash = IF Len(log) = 0 THEN Genesis ELSE log[Len(log)].event_hash
    BY EmptySeq DEF LastHash, HashAtEnd, IInv, TypeOK
  <2>3. ASSUME NEW k \in 1 .. Len(log) + 1
        PROVE  /\ log'[k].previous_hash = IF k = 1 THEN Genesis ELSE log'[k - 1].event_hash
               /\ log'[k].event_hash = Mac(log'[k].content, log'[k].previous_hash)
    <3>1. CASE k \in 1 .. Len(log)
      BY <1>1, <1>2, <2>1, <3>1 DEF Chained, Authentic
    <3>2. CASE k = Len(log) + 1
      <4>1. log'[k] = Row(r)
        BY <1>1, <1>2, <3>2
      <4>2. k - 1 = Len(log) /\ (k = 1 <=> Len(log) = 0)
        BY <1>1, <1>2, <3>2
      <4>3. Len(log) # 0 => log'[Len(log)] = log[Len(log)]
        <5>1. Len(log) # 0 => Len(log) \in 1 .. Len(log)
          BY <1>1, <1>2
        <5>2. \A j \in 1 .. Len(log) : log'[j] = log[j]
          BY <1>1, <1>2
        <5>. QED  BY <5>1, <5>2, Zenon
      <4>4. r.previous_hash = IF k = 1 THEN Genesis ELSE log'[k - 1].event_hash
        BY <2>1, <2>2, <4>2, <4>3
      <4>. QED  BY <4>1, <4>4 DEF Row
    <3>. QED  BY <1>1, <1>2, <3>1, <3>2
  <2>. QED  BY <1>1, <1>2, <1>3, <2>3 DEF Chained, Authentic, ReadingIsTail
<1>. QED  BY <1>4, <1>5, <1>6 DEF IInv

LEMMA CrashInv == ASSUME IInv, NEW r \in inflight, Crash(r) PROVE IInv'
  BY DEF IInv, TypeOK, OneReading, WithinBound, Chained, Authentic, ReadingIsTail, LastHash, Crash

\* Once a row is touched, only the shapes are left to show.
LEMMA EditInv ==
  ASSUME IInv, TypeOK', inflight' = inflight, edits' # 0
  PROVE  IInv'
  BY DEF IInv, OneReading

LEMMA StepInv == ASSUME OneWriter, MacIsHash, IInv, [Next]_vars PROVE IInv'
<1>1. ASSUME NEW w \in Writers, NEW c \in Contents, ReadTail(w, c) PROVE IInv'
  BY <1>1, ReadTailInv
<1>2. ASSUME NEW r \in inflight, AppendAudit(r) PROVE IInv'
  BY <1>2, AppendAuditInv
<1>3. ASSUME NEW r \in inflight, Crash(r) PROVE IInv'
  BY <1>3, CrashInv
<1>4. ASSUME NEW k \in DOMAIN log, NEW row \in Forgeries, EditRow(k, row) PROVE IInv'
  BY <1>4, RowEdited, TypeInductive, EditInv DEF IInv, Next
<1>5. ASSUME NEW k \in 0 .. Len(log), NEW row \in Forgeries, InsertRow(k, row) PROVE IInv'
  BY <1>5, RowInserted, TypeInductive, EditInv DEF IInv, Next
<1>6. ASSUME NEW k \in DOMAIN log, DropRow(k) PROVE IInv'
  BY <1>6, RowDropped, TypeInductive, EditInv DEF IInv, Next
<1>7. CASE UNCHANGED vars
  BY <1>7
  DEF vars, IInv, TypeOK, OneReading, WithinBound, Chained, Authentic, ReadingIsTail, LastHash
<1>. QED  BY <1>1, <1>2, <1>3, <1>4, <1>5, <1>6, <1>7 DEF Next

-----------------------------------------------------------------------------
\* One process records and verify_chain reads the whole table: a table nobody
\* touched verifies, with crashes anywhere (audit.py:85-116).
THEOREM UntouchedTableVerifies ==
  ASSUME OneWriter, MacIsHash, AllRowsRead
  PROVE  Spec => []IntactChainVerifies
<1>1. Init => IInv
  BY InitInv
<1>2. IInv /\ [Next]_vars => IInv'
  BY StepInv
<1>3. IInv => IntactChainVerifies
  <2>. SUFFICES ASSUME IInv, edits = 0 PROVE VerifyChain
    BY DEF IntactChainVerifies
  <2>1. Len(log) \in Nat /\ DOMAIN log = 1 .. Len(log)
    BY LenProperties DEF IInv, TypeOK
  <2>2. FirstRead = 1
    BY <2>1, AuditAssumption DEF FirstRead, IInv, WithinBound, AllRowsRead
  <2>. QED  BY <2>1, <2>2 DEF VerifyChain, Linked, IInv, Chained
<1>. QED  BY <1>1, <1>2, <1>3, PTL DEF Spec

-----------------------------------------------------------------------------
(***************************************************************************)
(* The mark of a race.  While nobody touches a row, each reading holds the *)
(* hash of some row, or the genesis value; the table is one chain until a  *)
(* row goes in behind a row that is not the last, which has its successor. *)
(***************************************************************************)
Siblings == \E j, k \in DOMAIN log : j # k /\ log[j].previous_hash = log[k].previous_hash

ReadingsOfRows ==
  \A r \in inflight :
    r.previous_hash = Genesis \/ \E k \in DOMAIN log : r.previous_hash = log[k].event_hash

AllAuthentic == \A k \in DOMAIN log : Authentic(k)

RaceInv ==
  edits = 0 => ReadingsOfRows /\ AllAuthentic /\ (Chained \/ Siblings)

LEMMA AppendRace ==
  ASSUME MacIsHash, TypeOK, RaceInv, NEW r \in inflight, AppendAudit(r), edits = 0
  PROVE  ReadingsOfRows' /\ AllAuthentic' /\ (Chained' \/ Siblings')
<1> DEFINE n == Len(log) + 1
<1>1. /\ Len(log) \in Nat
      /\ DOMAIN log = 1 .. Len(log)
      /\ DOMAIN log' = 1 .. n
      /\ \A k \in 1 .. Len(log) : log'[k] = log[k]
      /\ log'[n] = Row(r)
      /\ inflight' \subseteq inflight
  BY Appended
<1>2. /\ log'[n].previous_hash = r.previous_hash
      /\ log'[n].content = r.content
      /\ log'[n].event_hash = Mac(r.content, r.previous_hash)
  BY <1>1 DEF Row
<1>3. ReadingsOfRows /\ AllAuthentic /\ (Chained \/ Siblings)
  BY DEF RaceInv
<1>4. DOMAIN log \subseteq DOMAIN log' /\ \A k \in DOMAIN log' : k \in DOMAIN log \/ k = n
  BY <1>1
<1>5. n \in DOMAIN log' /\ n \notin DOMAIN log
  BY <1>1
<1>6. \A k \in DOMAIN log : log'[k] = log[k]
  BY <1>1
<1>7. ReadingsOfRows'
  BY <1>1, <1>3, <1>4, <1>6 DEF ReadingsOfRows
<1>8. AllAuthentic'
  BY <1>2, <1>3, <1>4, <1>6 DEF AllAuthentic, Authentic
<1>9. ASSUME Siblings PROVE Siblings'
  BY <1>4, <1>6, <1>9 DEF Siblings
<1>10. CASE Chained
  <2>1. \A k \in 1 .. Len(log) :
          log[k].previous_hash = IF k = 1 THEN Genesis ELSE log[k - 1].event_hash
    BY <1>1, <1>10 DEF Chained
  <2>2. CASE r.previous_hash = LastHash
    <3>1. LastHash = IF Len(log) = 0 THEN Genesis ELSE log[Len(log)].event_hash
      BY EmptySeq DEF LastHash, HashAtEnd, TypeOK
    <3>2. Len(log) # 0 => Len(log) \in DOMAIN log
      BY <1>1
    <3>3. n - 1 = Len(log) /\ (n = 1 <=> Len(log) = 0)
      BY <1>1
    <3>4. log'[n].previous_hash = IF n = 1 THEN Genesis ELSE log'[n - 1].event_hash
      BY <1>2, <1>6, <2>2, <3>1, <3>2, <3>3
    <3>5. \A k \in DOMAIN log :
            log'[k].previous_hash = IF k = 1 THEN Genesis ELSE log'[k - 1].event_hash
      <4>1. \A k \in 1 .. Len(log) : k # 1 => k - 1 \in 1 .. Len(log)
        BY <1>1
      <4>. QED  BY <1>1, <2>1, <4>1
    <3>6. Chained'
      BY <1>4, <1>8, <3>4, <3>5 DEF Chained, AllAuthentic
    <3>. QED  BY <1>7, <1>8, <3>6
  <2>3. CASE r.previous_hash # LastHash
    <3>1. PICK j \in 1 .. Len(log) : log[j].previous_hash = r.previous_hash
      <4>1. CASE r.previous_hash = Genesis
        <5>1. log # <<>>
          BY <2>3, <4>1 DEF LastHash, HashAtEnd
        <5>2. 1 \in 1 .. Len(log)
          BY <1>1, <5>1, EmptySeq DEF TypeOK
        <5>. QED  BY <2>1, <4>1, <5>2
      <4>2. ASSUME NEW k \in DOMAIN log, r.previous_hash = log[k].event_hash
            PROVE  \E j \in 1 .. Len(log) : log[j].previous_hash = r.previous_hash
        <5>1. log # <<>> => LastHash = log[Len(log)].event_hash
          BY DEF LastHash, HashAtEnd
        <5>2. log # <<>>
          BY EmptySeq, <1>1 DEF TypeOK
        <5>3. k \in 1 .. Len(log) /\ k # Len(log)
          BY <1>1, <2>3, <4>2, <5>1, <5>2
        <5>4. k + 1 \in 1 .. Len(log) /\ k + 1 # 1 /\ (k + 1) - 1 = k
          BY <1>1, <5>3
        <5>5. log[k + 1].previous_hash = log[k].event_hash
          BY <2>1, <5>4
        <5>. QED  BY <4>2, <5>4, <5>5
      <4>. QED  BY <1>3, <4>1, <4>2 DEF ReadingsOfRows
    <3>2. /\ j \in DOMAIN log' /\ n \in DOMAIN log' /\ j # n
          /\ log'[j].previous_hash = log'[n].previous_hash
      BY <1>1, <1>2, <1>4, <1>5, <1>6, <3>1
    <3>3. Siblings'
      BY <3>2 DEF Siblings
    <3>. QED  BY <1>7, <1>8, <3>3
  <2>. QED  BY <2>2, <2>3
<1>. QED  BY <1>3, <1>7, <1>8, <1>9, <1>10

LEMMA StepRace == ASSUME MacIsHash, TypeOK, RaceInv, [Next]_vars PROVE RaceInv'
<1>1. ASSUME NEW w \in Writers, NEW c \in Contents, ReadTail(w, c), edits' = 0
      PROVE  ReadingsOfRows' /\ AllAuthentic' /\ (Chained' \/ Siblings')
  <2> DEFINE new == [writer |-> w, content |-> c, previous_hash |-> LastHash]
  <2>1. /\ log' = log /\ edits = 0
        /\ \A r \in inflight' : r \in inflight \/ r.previous_hash = LastHash
    BY <1>1 DEF ReadTail
  <2>2. LastHash = Genesis \/ \E k \in DOMAIN log : LastHash = log[k].event_hash
    <3>1. log # <<>> => Len(log) \in DOMAIN log
      BY EmptySeq, LenProperties DEF TypeOK
    <3>. QED  BY <3>1 DEF LastHash, HashAtEnd
  <2>3. ReadingsOfRows'
    BY <2>1, <2>2 DEF RaceInv, ReadingsOfRows
  <2>. QED  BY <2>1, <2>3 DEF RaceInv, AllAuthentic, Authentic, Chained, Siblings
<1>2. ASSUME NEW r \in inflight, AppendAudit(r), edits' = 0
      PROVE  ReadingsOfRows' /\ AllAuthentic' /\ (Chained' \/ Siblings')
  BY <1>2, Appended, AppendRace
<1>3. ASSUME NEW r \in inflight, Crash(r), edits' = 0
      PROVE  ReadingsOfRows' /\ AllAuthentic' /\ (Chained' \/ Siblings')
  BY <1>3 DEF Crash, RaceInv, ReadingsOfRows, AllAuthentic, Authentic, Chained, Siblings
<1>4. ASSUME NEW k, NEW row, EditRow(k, row) \/ InsertRow(k, row) \/ DropRow(k) PROVE edits' # 0
  BY <1>4 DEF TypeOK, EditRow, InsertRow, DropRow
<1>5. ASSUME UNCHANGED vars, edits' = 0
      PROVE  ReadingsOfRows' /\ AllAuthentic' /\ (Chained' \/ Siblings')
  <2>1. log' = log /\ inflight' = inflight /\ edits = 0
    BY <1>5 DEF vars
  <2>2. ReadingsOfRows'
    BY <2>1 DEF RaceInv, ReadingsOfRows
  <2>3. AllAuthentic'
    BY <2>1 DEF RaceInv, AllAuthentic, Authentic
  <2>4. Chained => Chained'
    BY <2>1 DEF Chained, Authentic
  <2>5. Siblings => Siblings'
    BY <2>1 DEF Siblings
  <2>. QED  BY <2>1, <2>2, <2>3, <2>4, <2>5 DEF RaceInv
<1>6. SUFFICES ASSUME edits' = 0
               PROVE  ReadingsOfRows' /\ AllAuthentic' /\ (Chained' \/ Siblings')
  BY DEF RaceInv
<1>7. CASE \E w \in Writers, c \in Contents : ReadTail(w, c)
  BY <1>1, <1>6, <1>7
<1>8. CASE \E r \in inflight : AppendAudit(r) \/ Crash(r)
  BY <1>2, <1>3, <1>6, <1>8
<1>9. ~(\E k, row : EditRow(k, row) \/ InsertRow(k, row) \/ DropRow(k))
  BY <1>4, <1>6
<1>. QED  BY <1>5, <1>6, <1>7, <1>8, <1>9 DEF Next

\* Any number of processes record.  An unedited table that verify_chain reads
\* whole and rejects holds two rows chained to one hash (audit.py:46-83,
\* store.py:205-224).
THEOREM ForksLeaveSiblings ==
  ASSUME MacIsHash
  PROVE  Spec => [](Len(log) <= VerifyLimit => RaceLeavesSiblings)
<1>1. Init => TypeOK /\ RaceInv
  BY AuditAssumption DEF Init, TypeOK, RaceInv, ReadingsOfRows, AllAuthentic, Chained
<1>2. TypeOK /\ RaceInv /\ [Next]_vars => TypeOK' /\ RaceInv'
  BY TypeInductive, StepRace
<1>3. TypeOK /\ RaceInv => (Len(log) <= VerifyLimit => RaceLeavesSiblings)
  <2>. SUFFICES ASSUME TypeOK, RaceInv, Len(log) <= VerifyLimit, edits = 0, ~Siblings
                PROVE  VerifyChain
    BY DEF RaceLeavesSiblings, Siblings
  <2>1. Len(log) \in Nat /\ DOMAIN log = 1 .. Len(log)
    BY LenProperties DEF TypeOK
  <2>2. FirstRead = 1
    BY <2>1, AuditAssumption DEF FirstRead
  <2>. QED  BY <2>1, <2>2 DEF VerifyChain, Linked, RaceInv, Chained
<1>. QED  BY <1>1, <1>2, <1>3, PTL DEF Spec

-----------------------------------------------------------------------------
(***************************************************************************)
(* A table that verifies is an honest one.  A digest determines the row    *)
(* that bears it and the hash that row is chained to, so it determines the *)
(* whole table that ends with it; and a digest that is anywhere in the     *)
(* table is one record() has made, or the genesis value.                   *)
(***************************************************************************)

\* HMAC-SHA256 collides for nobody without the key, and never yields "0" * 64.
CollisionFree ==
  \A c, d \in Contents, g, h \in Hashes :
    /\ Mac(c, g) = Mac(d, h) => c = d /\ g = h
    /\ Mac(c, g) # Genesis

\* An honest table that is not empty extends an honest one by a row of its own.
HonestGrowth ==
  /\ <<>> \in history
  /\ \A h \in history : h # <<>> =>
       \E g \in history, q \in Rows :
         /\ h = Append(g, q)
         /\ q.previous_hash = HashAtEnd(g)
         /\ q.event_hash = Mac(q.content, q.previous_hash)

DigestsDetermine == \A g, h \in history : HashAtEnd(g) = HashAtEnd(h) => g = h

DigestsAreHonest ==
  /\ \A k \in DOMAIN log : \E h \in history : HashAtEnd(h) = log[k].event_hash
  /\ \A r \in inflight : \E g \in history : HashAtEnd(g) = r.previous_hash

HonestInv == HonestGrowth /\ DigestsDetermine /\ DigestsAreHonest

\* The least-number principle, for sets of numbers.
LEMMA Least ==
  ASSUME NEW T \in SUBSET Nat, T # {}
  PROVE  \E n \in T : \A m \in T : n <= m
<1> DEFINE UpTo(n) == 1 .. n
           Sets == {UpTo(n) : n \in T}
           Order == StrictSubsetOrdering(Nat)
           Finite == FiniteSubsetsOf(Nat)
<1>1. IsWellFoundedOn(Order, Finite)
  BY FS_StrictSubsetOrderingWellFounded
<1>2. \A n \in T : UpTo(n) \in Finite
  <2>1. \A n \in T : IsFiniteSet(1 .. n)
    BY FS_Interval
  <2>2. \A n \in T : 1 .. n \subseteq Nat
    OBVIOUS
  <2>. QED  BY <2>1, <2>2 DEF FiniteSubsetsOf
<1>3. Sets \subseteq Finite /\ Sets # {}
  BY <1>2
<1>4. PICK S \in Sets : \A R \in Sets : ~(<<R, S>> \in Order)
  <2>. HIDE DEF Sets, Order, Finite
  <2>. QED  BY <1>1, <1>3, WFMin
<1>5. PICK n \in T : S = UpTo(n)
  OBVIOUS
<1>6. ASSUME NEW m \in T, m < n PROVE FALSE
  <2>1. 1 .. m \subseteq Nat /\ 1 .. n \subseteq Nat /\ 1 .. m \subseteq 1 .. n
    BY <1>6
  <2>2. n \in 1 .. n /\ n \notin 1 .. m
    BY <1>6
  <2>3. <<UpTo(m), UpTo(n)>> \in Order
    BY <2>1, <2>2 DEF StrictSubsetOrdering
  <2>4. UpTo(m) \in Sets
    OBVIOUS
  <2>. QED  BY <1>4, <1>5, <2>3, <2>4
<1>. QED  BY <1>5, <1>6

LEMMA EndOfAppended ==
  ASSUME NEW g \in Seq(Rows), NEW q \in Rows
  PROVE  Append(g, q) # <<>> /\ HashAtEnd(Append(g, q)) = q.event_hash
<1>1. /\ Append(g, q) # <<>>
      /\ Len(Append(g, q)) = Len(g) + 1
      /\ Append(g, q)[Len(g) + 1] = q
  BY AppendProperties
<1>. QED  BY <1>1 DEF HashAtEnd

\* A digest of an honest row determines the table it ends.
LEMMA DigestDetermines ==
  ASSUME CollisionFree, TypeOK, HonestGrowth, DigestsDetermine,
         NEW h \in history, NEW g \in history, NEW q \in Rows,
         HashAtEnd(h) = q.event_hash,
         q.event_hash = Mac(q.content, q.previous_hash),
         q.previous_hash = HashAtEnd(g)
  PROVE  h = Append(g, q)
<1>1. /\ q.content \in Contents /\ q.previous_hash \in Hashes
      /\ q = [content |-> q.content, previous_hash |-> q.previous_hash,
              event_hash |-> q.event_hash]
  BY DEF Rows
<1>2. h # <<>>
  BY <1>1 DEF CollisionFree, HashAtEnd
<1>3. PICK f \in history, p \in Rows :
        /\ h = Append(f, p)
        /\ p.previous_hash = HashAtEnd(f)
        /\ p.event_hash = Mac(p.content, p.previous_hash)
  BY <1>2 DEF HonestGrowth
<1>4. /\ p.content \in Contents /\ p.previous_hash \in Hashes
      /\ p = [content |-> p.content, previous_hash |-> p.previous_hash,
              event_hash |-> p.event_hash]
  BY DEF Rows
<1>5. HashAtEnd(h) = p.event_hash
  BY <1>3, EndOfAppended DEF TypeOK
<1>6. p.content = q.content /\ p.previous_hash = q.previous_hash
  BY <1>1, <1>3, <1>4, <1>5 DEF CollisionFree
<1>7. p = q
  BY <1>1, <1>4, <1>5, <1>6
<1>8. f = g
  BY <1>3, <1>6 DEF DigestsDetermine
<1>. QED  BY <1>3, <1>7, <1>8

LEMMA AppendHonest ==
  ASSUME MacIsHash, CollisionFree, TypeOK, HonestInv, NEW r \in inflight, AppendAudit(r)
  PROVE  HonestInv'
<1>1. PICK q \in Rows : q = Row(r)
  BY Appended
<1>2. /\ r \in Readings
      /\ q.content = r.content
      /\ q.previous_hash = r.previous_hash
      /\ q.event_hash = Mac(q.content, q.previous_hash)
  BY <1>1, Appended DEF Row
<1>3. PICK g \in history : HashAtEnd(g) = q.previous_hash
  BY <1>2 DEF HonestInv, DigestsAreHonest
<1>4. PICK new : new = Append(g, q)
  OBVIOUS
<1>5. new # <<>> /\ HashAtEnd(new) = q.event_hash
  BY <1>4, EndOfAppended DEF TypeOK
<1>6. history' = history \cup {new}
  <2>1. {f \in history : HashAtEnd(f) = r.previous_hash} = {g}
    BY <1>2, <1>3 DEF HonestInv, DigestsDetermine
  <2>2. history' = history \cup
          {Append(f, q) : f \in {f \in history : HashAtEnd(f) = r.previous_hash}}
    BY <1>1 DEF AppendAudit
  <2>. QED  BY <1>4, <2>1, <2>2
<1>7. HonestGrowth'
  BY <1>2, <1>3, <1>4, <1>6 DEF HonestInv, HonestGrowth
<1>8. DigestsDetermine'
  <2>1. ASSUME NEW h \in history, HashAtEnd(h) = HashAtEnd(new) PROVE h = new
    BY <1>2, <1>3, <1>4, <1>5, <2>1, DigestDetermines DEF HonestInv
  <2>. QED  BY <1>6, <2>1 DEF HonestInv, DigestsDetermine
<1>9. DigestsAreHonest'
  <2>1. /\ DOMAIN log' = DOMAIN log \cup {Len(log) + 1}
        /\ \A k \in DOMAIN log : log'[k] = log[k]
        /\ log'[Len(log) + 1] = q
        /\ inflight' \subseteq inflight
    <3>1. /\ Len(log) \in Nat
          /\ DOMAIN log = 1 .. Len(log)
          /\ DOMAIN log' = 1 .. Len(log) + 1
          /\ \A k \in 1 .. Len(log) : log'[k] = log[k]
          /\ log'[Len(log) + 1] = q
          /\ inflight' \subseteq inflight
      BY <1>1, Appended
    <3>2. 1 .. Len(log) + 1 = (1 .. Len(log)) \cup {Len(log) + 1}
      BY <3>1
    <3>. QED  BY <3>1, <3>2
  <2>2. \A k \in DOMAIN log' : \E h \in history' :
          HashAtEnd(h) = log'[k].event_hash
    BY <1>5, <1>6, <2>1 DEF HonestInv, DigestsAreHonest
  <2>3. \A p \in inflight' : \E f \in history' : HashAtEnd(f) = p.previous_hash
    BY <1>6, <2>1 DEF HonestInv, DigestsAreHonest
  <2>. QED  BY <2>2, <2>3 DEF DigestsAreHonest
<1>. QED  BY <1>7, <1>8, <1>9 DEF HonestInv

\* Whoever lacks the key brings no new digest into the table.
LEMMA NoNewDigest ==
  ASSUME HonestInv, history' = history, inflight' \subseteq inflight,
         \A j \in DOMAIN log' :
           \/ \E i \in DOMAIN log : log'[j] = log[i]
           \/ \E h \in history : HashAtEnd(h) = log'[j].event_hash
  PROVE  HonestInv'
<1>1. HonestGrowth' /\ DigestsDetermine'
  BY DEF HonestInv, HonestGrowth, DigestsDetermine
<1>2. DigestsAreHonest'
  BY DEF HonestInv, DigestsAreHonest
<1>. QED  BY <1>1, <1>2 DEF HonestInv

LEMMA ForgedHonest ==
  ASSUME TypeOK, HonestInv, NEW row \in Forgeries, FromTable(log', row),
         history' = history, inflight' = inflight
  PROVE  HonestInv'
<1>1. \E h \in history : HashAtEnd(h) = row.event_hash
  BY ForgedRow
<1>. QED  BY <1>1, NoNewDigest DEF FromTable

LEMMA StepHonest ==
  ASSUME MacIsHash, CollisionFree, TypeOK, HonestInv, [Next]_vars PROVE HonestInv'
<1>1. ASSUME NEW w \in Writers, NEW c \in Contents, ReadTail(w, c) PROVE HonestInv'
  <2>1. \E g \in history : HashAtEnd(g) = LastHash
    <3>1. CASE log = <<>>
      BY <3>1 DEF HonestInv, HonestGrowth, LastHash
    <3>2. CASE log # <<>>
      <4>1. Len(log) \in DOMAIN log
        BY <3>2, EmptySeq, LenProperties DEF TypeOK
      <4>. QED  BY <3>2, <4>1 DEF HonestInv, DigestsAreHonest, LastHash, HashAtEnd
    <3>. QED  BY <3>1, <3>2
  <2>2. /\ log' = log /\ history' = history
        /\ \A r \in inflight' : r \in inflight \/ r.previous_hash = LastHash
    BY <1>1 DEF ReadTail
  <2>3. HonestGrowth' /\ DigestsDetermine'
    BY <2>2 DEF HonestInv, HonestGrowth, DigestsDetermine
  <2>4. DigestsAreHonest'
    BY <2>1, <2>2 DEF HonestInv, DigestsAreHonest
  <2>. QED  BY <2>3, <2>4 DEF HonestInv
<1>2. ASSUME NEW r \in inflight, AppendAudit(r) PROVE HonestInv'
  BY <1>2, AppendHonest
<1>3. ASSUME NEW r \in inflight, Crash(r) PROVE HonestInv'
  BY <1>3, NoNewDigest DEF Crash
<1>4. ASSUME NEW k \in DOMAIN log, NEW row \in Forgeries, EditRow(k, row) PROVE HonestInv'
  BY <1>4, RowEdited, ForgedHonest
<1>5. ASSUME NEW k \in 0 .. Len(log), NEW row \in Forgeries, InsertRow(k, row) PROVE HonestInv'
  BY <1>5, RowInserted, ForgedHonest
<1>6. ASSUME NEW k \in DOMAIN log, DropRow(k) PROVE HonestInv'
  BY <1>6, RowDropped, NoNewDigest
<1>7. CASE UNCHANGED vars
  BY <1>7, NoNewDigest DEF vars
<1>. QED  BY <1>1, <1>2, <1>3, <1>4, <1>5, <1>6, <1>7 DEF Next

\* By induction on its length, every prefix of a table that verifies is honest.
LEMMA VerifiedIsHonest ==
  ASSUME CollisionFree, TypeOK, HonestInv, Len(log) <= VerifyLimit, VerifyChain
  PROVE  log \in history
<1>1. /\ Len(log) \in Nat
      /\ \A k \in 1 .. Len(log) : log[k] \in Rows
  BY ElementOfSeq, LenProperties DEF TypeOK
<1>2. FirstRead = 1
  BY <1>1, AuditAssumption DEF FirstRead
<1>3. \A k \in 1 .. Len(log) :
        /\ log[k].previous_hash = IF k = 1 THEN Genesis ELSE log[k - 1].event_hash
        /\ log[k].event_hash = Mac(log[k].content, log[k].previous_hash)
  BY <1>1, <1>2 DEF VerifyChain, Linked, Authentic
<1> DEFINE Prefix(k) == SubSeq(log, 1, k)
<1>4. Prefix(0) = <<>>
  BY SubSeqEmpty
<1>5. ASSUME NEW n \in 1 .. Len(log), Prefix(n - 1) \in history PROVE Prefix(n) \in history
  <2>1. PICK g \in history : g = Prefix(n - 1)
    BY <1>5
  <2>2. g \in Seq(Rows) /\ Prefix(n) = Append(g, log[n])
    <3>1. Prefix(n) = g \o <<log[n]>>
      BY <1>1, <2>1, SubSeqRecursiveSecond DEF TypeOK
    <3>2. g \in Seq(Rows)
      BY DEF TypeOK
    <3>3. Append(g, log[n]) = g \o <<log[n]>>
      BY <1>1, <3>2, AppendIsConcat
    <3>. QED  BY <3>1, <3>2, <3>3
  <2>3. HashAtEnd(g) = log[n].previous_hash
    <3>1. CASE n = 1
      BY <1>3, <1>4, <2>1, <3>1 DEF HashAtEnd
    <3>2. CASE n # 1
      <4>1. /\ Len(g) = n - 1
            /\ \A j \in 1 .. n - 1 : g[j] = log[j]
        BY <1>1, <2>1, <3>2, SubSeqProperties
      <4>2. n - 1 \in 1 .. n - 1 /\ n - 1 # 0
        BY <1>1, <3>2
      <4>3. g # <<>> /\ g[n - 1] = log[n - 1]
        BY <4>1, <4>2
      <4>. QED  BY <1>3, <3>2, <4>1, <4>3 DEF HashAtEnd
    <3>. QED  BY <3>1, <3>2
  <2>4. PICK h \in history : HashAtEnd(h) = log[n].event_hash
    BY <1>1 DEF HonestInv, DigestsAreHonest, TypeOK
  <2>5. PICK q \in Rows : q = log[n]
    BY <1>1
  <2>6. h = Append(g, q)
    BY <1>3, <2>3, <2>4, <2>5, DigestDetermines DEF HonestInv
  <2>. QED  BY <2>2, <2>5, <2>6
<1>6. \A k \in 0 .. Len(log) : Prefix(k) \in history
  <2> DEFINE T == {k \in 0 .. Len(log) : Prefix(k) \notin history}
  <2>1. SUFFICES ASSUME T # {} PROVE FALSE
    OBVIOUS
  <2>2. PICK n \in T : \A m \in T : n <= m
    <3>1. T \in SUBSET Nat
      BY <1>1
    <3>. HIDE DEF T
    <3>. QED  BY <2>1, <3>1, Least
  <2>3. n \in 0 .. Len(log) /\ n # 0
    BY <1>4 DEF HonestInv, HonestGrowth
  <2>4. n \in 1 .. Len(log) /\ n - 1 \in 0 .. Len(log) /\ ~(n <= n - 1)
    BY <1>1, <2>3
  <2>5. Prefix(n - 1) \in history
    BY <2>2, <2>4
  <2>. QED  BY <1>5, <2>4, <2>5
<1>7. Prefix(Len(log)) = log
  BY SubSeqFull DEF TypeOK
<1>8. Len(log) \in 0 .. Len(log)
  BY <1>1
<1>. QED  BY <1>6, <1>7, <1>8

\* However many processes record and whatever is rewritten, inserted or
\* deleted by someone without the key, a table that verify_chain reads whole and accepts is one that
\* record() alone has produced at some time (audit.py:85-116).
THEOREM VerifiedTablesAreHonest ==
  ASSUME MacIsHash, CollisionFree
  PROVE  Spec => [](Len(log) <= VerifyLimit => TamperEvident)
<1>1. Init => TypeOK /\ HonestInv
  <2>. SUFFICES ASSUME Init PROVE TypeOK /\ HonestInv
    OBVIOUS
  <2>1. log = <<>> /\ inflight = {} /\ edits = 0 /\ history = {<<>>} /\ DOMAIN log = {}
    BY DEF Init
  <2>. QED  BY <2>1, AuditAssumption
    DEF TypeOK, HonestInv, HonestGrowth, DigestsDetermine, DigestsAreHonest
<1>2. TypeOK /\ HonestInv /\ [Next]_vars => TypeOK' /\ HonestInv'
  BY TypeInductive, StepHonest
<1>3. TypeOK /\ HonestInv => (Len(log) <= VerifyLimit => TamperEvident)
  BY VerifiedIsHonest DEF TamperEvident
<1>. QED  BY <1>1, <1>2, <1>3, PTL DEF Spec

=============================================================================
