------------------------- MODULE UsageBufferProofs -------------------------
(***************************************************************************)
(* The usage buffer writes every row at most once and accounts for every   *)
(* row, for any sizes of queue and batch and any number of rows.           *)
(***************************************************************************)
EXTENDS UsageBuffer, SequenceTheorems, TLAPS

-----------------------------------------------------------------------------
(* Sequences: the operators that append and flush are built from. *)

LEMMA AppendRange ==
    ASSUME NEW S, NEW s \in Seq(S), NEW x \in S, IsInjective(s), x \notin Range(s)
    PROVE  /\ Append(s, x) \in Seq(S)
           /\ Len(Append(s, x)) = Len(s) + 1
           /\ Range(Append(s, x)) = Range(s) \cup {x}
           /\ IsInjective(Append(s, x))
<1>1. /\ Append(s, x) \in Seq(S)
      /\ Len(Append(s, x)) = Len(s) + 1
      /\ DOMAIN Append(s, x) = 1..(Len(s) + 1)
      /\ DOMAIN s = 1..Len(s) /\ Len(s) \in Nat
      /\ \A i \in 1..Len(s) : Append(s, x)[i] = s[i]
      /\ Append(s, x)[Len(s) + 1] = x
    OBVIOUS
<1>2. Range(Append(s, x)) = Range(s) \cup {x}
    BY <1>1 DEF Range
<1>3. IsInjective(Append(s, x))
    BY <1>1 DEF IsInjective, Range
<1> QED
    BY <1>1, <1>2, <1>3

(* front and back are the first n elements of s and the others. *)
Cuts(s, n, front, back) ==
    /\ front = SubSeq(s, 1, n)
    /\ back = SubSeq(s, n + 1, Len(s))
    /\ Len(front) = n /\ Len(back) = Len(s) - n
    /\ IsInjective(front) /\ IsInjective(back)
    /\ Range(front) \cup Range(back) = Range(s)
    /\ Range(front) \cap Range(back) = {}

(* Cutting an injective sequence in two separates its elements. *)
LEMMA Split ==
    ASSUME NEW S, NEW s \in Seq(S), IsInjective(s), NEW n \in 0..Len(s)
    PROVE  \E front \in Seq(S), back \in Seq(S) : Cuts(s, n, front, back)
<1>a. PICK front : front = SubSeq(s, 1, n)
    OBVIOUS
<1>b. PICK back : back = SubSeq(s, n + 1, Len(s))
    OBVIOUS
<1>1. Len(s) \in Nat /\ n \in Nat /\ n <= Len(s) /\ \A i \in 1..Len(s) : s[i] \in S
    OBVIOUS
<1>2. /\ front \in Seq(S) /\ Len(front) = n
      /\ \A i \in 1..n : front[i] = s[i]
  <2>1. \A i \in 1..n : s[i] \in S
    BY <1>1
  <2>2. front \in Seq(S) /\ Len(front) = (IF 1 <= n THEN n - 1 + 1 ELSE 0)
        /\ \A i \in 1..(n - 1 + 1) : front[i] = s[1 + i - 1]
    BY <1>a, <1>1, <2>1, SubSeqProperties
  <2> QED
    BY <1>1, <2>2
<1>3. /\ back \in Seq(S) /\ Len(back) = Len(s) - n
      /\ \A i \in 1..(Len(s) - n) : back[i] = s[n + i]
  <2>1. \A i \in (n + 1)..Len(s) : s[i] \in S
    BY <1>1
  <2>2. back \in Seq(S)
        /\ Len(back) = (IF n + 1 <= Len(s) THEN Len(s) - (n + 1) + 1 ELSE 0)
        /\ \A i \in 1..(Len(s) - (n + 1) + 1) : back[i] = s[(n + 1) + i - 1]
    BY <1>b, <1>1, <2>1, SubSeqProperties
  <2> QED
    BY <1>1, <2>2
<1>4. /\ DOMAIN s = 1..Len(s) /\ DOMAIN front = 1..n /\ DOMAIN back = 1..(Len(s) - n)
      /\ \A i \in 1..n : front[i] = s[i]
      /\ \A i \in 1..(Len(s) - n) : back[i] = s[n + i]
    BY <1>1, <1>2, <1>3
<1>5. IsInjective(front)
    BY <1>1, <1>4 DEF IsInjective
<1>6. IsInjective(back)
  <2> SUFFICES ASSUME NEW i \in 1..(Len(s) - n), NEW j \in 1..(Len(s) - n), back[i] = back[j]
               PROVE  i = j
      BY <1>1, <1>4 DEF IsInjective
  <2>1. n + i \in DOMAIN s /\ n + j \in DOMAIN s /\ s[n + i] = s[n + j]
      BY <1>1, <1>4
  <2>2. n + i = n + j
      BY <2>1 DEF IsInjective
  <2> QED
      BY <1>1, <1>4, <2>2
<1>7. Range(front) \cap Range(back) = {}
  <2> SUFFICES ASSUME NEW i \in DOMAIN front, NEW j \in DOMAIN back, front[i] = back[j]
               PROVE  FALSE
      BY DEF Range
  <2>1. i \in DOMAIN s /\ n + j \in DOMAIN s /\ s[i] = s[n + j]
      BY <1>1, <1>4
  <2>2. i = n + j
      BY <2>1 DEF IsInjective
  <2> QED
      BY <1>1, <1>4, <2>2
<1>8. Range(front) \cup Range(back) = Range(s)
  <2>1. Range(front) \subseteq Range(s)
    BY <1>1, <1>4 DEF Range
  <2>2. ASSUME NEW j \in 1..(Len(s) - n) PROVE back[j] \in Range(s)
    <3>1. n + j \in DOMAIN s /\ back[j] = s[n + j]
        BY <1>1, <1>4
    <3> QED
        BY <3>1 DEF Range
  <2>3. ASSUME NEW i \in 1..Len(s) PROVE s[i] \in Range(front) \cup Range(back)
    <3>1. CASE i <= n
        <4>1. i \in DOMAIN front /\ front[i] = s[i]
            BY <1>1, <1>4, <3>1
        <4> QED
            BY <4>1 DEF Range
    <3>2. CASE i > n
        <4>1. i - n \in DOMAIN back /\ back[i - n] = s[i]
            BY <1>1, <1>4, <3>2
        <4> QED
            BY <4>1 DEF Range
    <3> QED
        BY <1>1, <1>4, <3>1, <3>2
  <2> QED
    BY <1>1, <1>4, <2>1, <2>2, <2>3 DEF Range
<1> QED
    BY <1>a, <1>b, <1>2, <1>3, <1>5, <1>6, <1>7, <1>8 DEF Cuts

(* c is s followed by t. *)
Joins(s, t, c) ==
    /\ Len(c) = Len(s) + Len(t)
    /\ IsInjective(c)
    /\ Range(c) = Range(s) \cup Range(t)
    /\ SubSeq(c, Len(s) + 1, Len(c)) = t

(* Joining two injective sequences without common elements. *)
LEMMA Concat ==
    ASSUME NEW S, NEW s \in Seq(S), NEW t \in Seq(S), IsInjective(s), IsInjective(t),
           Range(s) \cap Range(t) = {}
    PROVE  \E c \in Seq(S) : c = s \o t /\ Joins(s, t, c)
<1> SUFFICES ASSUME NEW c, c = s \o t
             PROVE  c \in Seq(S) /\ Joins(s, t, c)
    OBVIOUS
<1>1. /\ Len(s) \in Nat /\ DOMAIN s = 1..Len(s)
      /\ Len(t) \in Nat /\ DOMAIN t = 1..Len(t)
    OBVIOUS
<1>2. /\ c \in Seq(S) /\ Len(c) = Len(s) + Len(t) /\ DOMAIN c = 1..(Len(s) + Len(t))
      /\ \A i \in 1..Len(s) : c[i] = s[i]
      /\ \A i \in (Len(s) + 1)..(Len(s) + Len(t)) : c[i] = t[i - Len(s)]
  <2>1. c \in Seq(S) /\ Len(c) = Len(s) + Len(t)
        /\ \A i \in 1..(Len(s) + Len(t)) :
              c[i] = IF i <= Len(s) THEN s[i] ELSE t[i - Len(s)]
    BY ConcatProperties
  <2>2. DOMAIN c = 1..Len(c)
    BY <2>1
  <2> QED
    BY <1>1, <2>1, <2>2
<1>3. IsInjective(c)
  <2> SUFFICES ASSUME NEW i \in DOMAIN c, NEW j \in DOMAIN c, c[i] = c[j]
               PROVE  i = j
      BY DEF IsInjective
  <2>1. CASE i <= Len(s) /\ j <= Len(s)
      BY <1>1, <1>2, <2>1 DEF IsInjective
  <2>2. CASE i > Len(s) /\ j > Len(s)
    <3>1. i - Len(s) \in DOMAIN t /\ j - Len(s) \in DOMAIN t /\ t[i - Len(s)] = t[j - Len(s)]
        BY <1>1, <1>2, <2>2
    <3>2. i - Len(s) = j - Len(s)
        BY <3>1 DEF IsInjective
    <3> QED
        BY <1>1, <1>2, <3>2
  <2>3. ASSUME NEW p \in DOMAIN c, NEW q \in DOMAIN c, p <= Len(s), q > Len(s)
        PROVE  c[p] # c[q]
    <3>1. p \in DOMAIN s /\ c[p] = s[p]
        BY <1>1, <1>2, <2>3
    <3>2. q - Len(s) \in DOMAIN t /\ c[q] = t[q - Len(s)]
        BY <1>1, <1>2, <2>3
    <3> QED
        BY <3>1, <3>2 DEF Range
  <2> QED
      BY <1>1, <1>2, <2>1, <2>2, <2>3
<1>4. Range(c) = Range(s) \cup Range(t)
  <2>1. ASSUME NEW i \in DOMAIN c PROVE c[i] \in Range(s) \cup Range(t)
    <3>1. CASE i <= Len(s)
        BY <1>1, <1>2, <3>1 DEF Range
    <3>2. CASE i > Len(s)
      <4>1. i - Len(s) \in DOMAIN t /\ c[i] = t[i - Len(s)]
          BY <1>1, <1>2, <3>2
      <4> QED
          BY <4>1 DEF Range
    <3> QED
        BY <1>1, <1>2, <3>1, <3>2
  <2>2. Range(s) \subseteq Range(c)
    BY <1>1, <1>2 DEF Range
  <2>3. ASSUME NEW i \in 1..Len(t) PROVE t[i] \in Range(c)
    <3>1. Len(s) + i \in DOMAIN c /\ c[Len(s) + i] = t[i]
        BY <1>1, <1>2
    <3> QED
        BY <3>1 DEF Range
  <2> QED
    BY <1>1, <2>1, <2>2, <2>3 DEF Range
<1>5. SubSeq(c, Len(s) + 1, Len(c)) = t
  <2>1. \A i \in (Len(s) + 1)..Len(c) : c[i] \in S
    BY <1>1, <1>2
  <2>2. PICK d : d = SubSeq(c, Len(s) + 1, Len(c))
    OBVIOUS
  <2>3. d \in Seq(S)
        /\ Len(d) = (IF Len(s) + 1 <= Len(c) THEN Len(c) - (Len(s) + 1) + 1 ELSE 0)
        /\ \A i \in 1..(Len(c) - (Len(s) + 1) + 1) : d[i] = c[(Len(s) + 1) + i - 1]
    BY <1>1, <1>2, <2>1, <2>2, SubSeqProperties
  <2>4. Len(d) = Len(t) /\ \A i \in 1..Len(t) : d[i] = t[i]
    BY <1>1, <1>2, <2>3
  <2> QED
    BY <2>2, <2>3, <2>4, SeqEqual
<1> QED
    BY <1>2, <1>3, <1>4, <1>5 DEF Joins

-----------------------------------------------------------------------------
(* The inductive invariant. *)

(* With n calls of append made, queue q, INSERTs D under way and table t, no  *)
(* row is in two places, nor twice in one.                                   *)
Distinct(q, D, t, n) ==
    /\ IsInjective(q) /\ IsInjective(t)
    /\ \A b \in D : IsInjective(b)
    /\ \A b, c \in D : b # c => Range(b) \cap Range(c) = {}
    /\ \A b \in D : Range(b) \cap Range(q) = {} /\ Range(b) \cap Range(t) = {}
    /\ Range(q) \cap Range(t) = {}
    /\ Range(q) \subseteq 1..n /\ Range(t) \subseteq 1..n
    /\ \A b \in D : Range(b) \subseteq 1..n

NoIdleBatch == ~ flushing => batch = <<>>

IInv ==
    /\ TypeOK
    /\ NoIdleBatch
    /\ AccountsForEveryRow
    /\ Distinct(queue, inDb, table, appended)

LEMMA InitIInv == Init => IInv
<1> SUFFICES ASSUME Init PROVE IInv
    OBVIOUS
<1>1. TypeOK
  <2>1. <<>> \in Seq(Row) /\ Len(<<>>) = 0
      OBVIOUS
  <2>2. Len(queue) <= MaxQueue /\ appended \in 0..MaxRows /\ queue \in Seq(Row)
        /\ batch \in Seq(Row) /\ table \in Seq(Row) /\ inDb \subseteq Seq(Row)
      BY <2>1, BufferAssumption DEF Init
  <2>3. flushing \in BOOLEAN
      BY DEF Init
  <2>4. dropped \in Nat /\ totalWritten \in Nat /\ lost \in Nat
        /\ lifecycle \in {"open", "closing", "closed", "crashed"}
      BY DEF Init
  <2> QED
      BY <2>2, <2>3, <2>4 DEF TypeOK
<1>2. NoIdleBatch /\ AccountsForEveryRow
  <2>1. NoIdleBatch
      BY DEF Init, NoIdleBatch
  <2>2. Len(<<>>) = 0
      OBVIOUS
  <2>3. AccountsForEveryRow
      BY <2>2 DEF Init, AccountsForEveryRow
  <2> QED
      BY <2>1, <2>3
<1>3. Distinct(queue, inDb, table, appended)
    BY DEF Init, Distinct, IsInjective, Range
<1> QED
    BY <1>1, <1>2, <1>3 DEF IInv

(* flush either does nothing or moves the head of the queue to the database. *)
FlushResult(q) ==
    \/ queue' = q /\ UNCHANGED <<flushing, batch, inDb>>
    \/ /\ ~ flushing /\ flushing'
       /\ inDb' = inDb \cup {batch'}
       /\ batch' \in Seq(Row) /\ queue' \in Seq(Row)
       /\ Len(batch') + Len(queue') = Len(q)
       /\ IsInjective(batch') /\ IsInjective(queue')
       /\ Range(batch') \cup Range(queue') = Range(q)
       /\ Range(batch') \cap Range(queue') = {}

LEMMA FlushMoves ==
    ASSUME NEW q \in Seq(Row), IsInjective(q), Flush(q)
    PROVE  FlushResult(q)
<1>1. CASE flushing \/ q = <<>>
    BY <1>1 DEF Flush, FlushResult
<1>2. CASE ~ (flushing \/ q = <<>>)
  <2>1. BatchSize(q) \in 0..Len(q)
      BY BufferAssumption DEF BatchSize
  <2>2. /\ batch' = SubSeq(q, 1, BatchSize(q))
        /\ queue' = SubSeq(q, BatchSize(q) + 1, Len(q))
        /\ ~ flushing /\ flushing' /\ inDb' = inDb \cup {batch'}
      BY <1>2 DEF Flush
  <2>3. PICK front \in Seq(Row), back \in Seq(Row) : Cuts(q, BatchSize(q), front, back)
      BY <2>1, Split
  <2>4. batch' = front /\ queue' = back
      BY <2>2, <2>3 DEF Cuts
  <2>5. Len(front) + Len(back) = Len(q)
      BY <2>1, <2>3 DEF Cuts
  <2> QED
      BY <2>2, <2>3, <2>4, <2>5 DEF Cuts, FlushResult
<1> QED
    BY <1>1, <1>2

(* What flush does keeps the rows distinct, ... *)
LEMMA FlushDistinct ==
    ASSUME NEW q \in Seq(Row), NEW n, Distinct(q, inDb, table, n), FlushResult(q), table' = table
    PROVE  Distinct(queue', inDb', table', n)
<1>1. CASE queue' = q /\ UNCHANGED <<flushing, batch, inDb>>
    BY <1>1
<1>2. CASE /\ inDb' = inDb \cup {batch'}
           /\ IsInjective(batch') /\ IsInjective(queue')
           /\ Range(batch') \cup Range(queue') = Range(q)
           /\ Range(batch') \cap Range(queue') = {}
  <2>1. Range(batch') \subseteq Range(q) /\ Range(queue') \subseteq Range(q)
    BY <1>2
  <2>2. \A b, c \in inDb' : b # c => Range(b) \cap Range(c) = {}
    BY <1>2, <2>1 DEF Distinct
  <2>3. \A b \in inDb' : /\ IsInjective(b) /\ Range(b) \subseteq 1..n
                        /\ Range(b) \cap Range(queue') = {} /\ Range(b) \cap Range(table) = {}
    BY <1>2, <2>1 DEF Distinct
  <2>4. /\ Range(queue') \cap Range(table) = {} /\ Range(queue') \subseteq 1..n
        /\ IsInjective(table) /\ Range(table) \subseteq 1..n
    BY <2>1 DEF Distinct
  <2> QED
    BY <1>2, <2>2, <2>3, <2>4 DEF Distinct
<1> QED
    BY <1>1, <1>2 DEF FlushResult

(* ... and the types and the number of rows in memory. *)
LEMMA FlushKeeps ==
    ASSUME NEW q \in Seq(Row), TypeOK, NoIdleBatch, FlushResult(q)
    PROVE  /\ queue' \in Seq(Row) /\ Len(queue') <= Len(q)
           /\ flushing' \in BOOLEAN
           /\ batch' \in Seq(Row)
           /\ inDb' \subseteq Seq(Row)
           /\ NoIdleBatch'
           /\ Len(batch') + Len(queue') = Len(batch) + Len(q)
<1>1. CASE queue' = q /\ UNCHANGED <<flushing, batch, inDb>>
  <2>1. Len(batch) \in Nat /\ Len(q) \in Nat
      BY DEF TypeOK
  <2> QED
      BY <1>1, <2>1 DEF TypeOK, NoIdleBatch
<1>2. CASE /\ ~ flushing /\ flushing'
           /\ inDb' = inDb \cup {batch'}
           /\ batch' \in Seq(Row) /\ queue' \in Seq(Row)
           /\ Len(batch') + Len(queue') = Len(q)
  <2>1. Len(batch) = 0
      BY <1>2 DEF NoIdleBatch
  <2>2. Len(batch') \in Nat /\ Len(queue') \in Nat
      BY <1>2
  <2>3. NoIdleBatch' /\ flushing' \in BOOLEAN /\ inDb' \subseteq Seq(Row)
      BY <1>2 DEF TypeOK, NoIdleBatch
  <2>4. Len(queue') <= Len(q) /\ Len(batch') + Len(queue') = Len(batch) + Len(q)
      BY <1>2, <2>1, <2>2
  <2> QED
      BY <1>2, <2>3, <2>4
<1> QED
    BY <1>1, <1>2 DEF FlushResult

(* append of the next row keeps the rows distinct. *)
LEMMA AppendDistinct ==
    ASSUME NEW q \in Seq(Row), NEW D, NEW t, NEW n \in Nat, Distinct(q, D, t, n), n + 1 \in Row
    PROVE  \E p \in Seq(Row) :
               p = Append(q, n + 1) /\ Len(p) = Len(q) + 1 /\ Distinct(p, D, t, n + 1)
<1> SUFFICES ASSUME NEW p, p = Append(q, n + 1)
             PROVE  p \in Seq(Row) /\ Len(p) = Len(q) + 1 /\ Distinct(p, D, t, n + 1)
    OBVIOUS
<1>1. 1..n \subseteq 1..(n + 1) /\ n + 1 \in 1..(n + 1) /\ n + 1 \notin 1..n
    OBVIOUS
<1>2. IsInjective(q) /\ n + 1 \notin Range(q)
    BY <1>1 DEF Distinct
<1>3. /\ p \in Seq(Row) /\ Len(p) = Len(q) + 1
      /\ Range(p) = Range(q) \cup {n + 1} /\ IsInjective(p)
    BY <1>2, AppendRange
<1>4. Distinct(p, D, t, n + 1)
    BY <1>1, <1>3 DEF Distinct
<1> QED
    BY <1>3, <1>4

LEMMA WidenDistinct ==
    ASSUME NEW q, NEW D, NEW t, NEW n \in Nat, Distinct(q, D, t, n)
    PROVE  Distinct(q, D, t, n + 1)
<1>1. 1..n \subseteq 1..(n + 1)
    OBVIOUS
<1> QED
    BY <1>1 DEF Distinct

(* append that finds room. *)
LEMMA PushIInv == IInv /\ Push => IInv'
<1> SUFFICES ASSUME IInv, Push PROVE IInv'
    OBVIOUS
<1>1. /\ appended \in Nat /\ appended + 1 \in Row /\ appended' = appended + 1
      /\ queue \in Seq(Row) /\ Len(queue) \in Nat /\ Len(queue) + 1 <= MaxQueue
    BY BufferAssumption DEF IInv, TypeOK, Push, Overflows, Row
<1>2. PICK q \in Seq(Row) : /\ q = Append(queue, appended + 1)
                            /\ Len(q) = Len(queue) + 1
                            /\ Distinct(q, inDb, table, appended + 1)
    BY <1>1, AppendDistinct DEF IInv
<1>3. Flush(q) \/ (queue' = q /\ UNCHANGED <<flushing, batch, inDb>>)
    BY <1>1, <1>2 DEF Push
<1>4. FlushResult(q)
  <2>1. IsInjective(q)
      BY <1>2 DEF Distinct
  <2> QED
      BY <1>3, <2>1, FlushMoves DEF FlushResult
<1>5. table' = table /\ UNCHANGED <<dropped, totalWritten, lifecycle, lost>> /\ Alive
    BY DEF Push
<1>6. /\ queue' \in Seq(Row) /\ Len(queue') <= Len(q)
      /\ flushing' \in BOOLEAN
      /\ batch' \in Seq(Row)
      /\ inDb' \subseteq Seq(Row)
      /\ NoIdleBatch'
      /\ Len(batch') + Len(queue') = Len(batch) + Len(q)
    BY <1>4, FlushKeeps DEF IInv
<1>7. Distinct(queue', inDb', table', appended')
    BY <1>1, <1>2, <1>4, <1>5, FlushDistinct
<1>8. Len(queue') <= MaxQueue
  <2>1. Len(queue') \in Nat /\ MaxQueue \in Nat
      BY <1>6, BufferAssumption
  <2> QED
      BY <1>1, <1>2, <1>6, <2>1
<1>9. TypeOK'
    BY <1>1, <1>5, <1>6, <1>8 DEF IInv, TypeOK, Row
<1>10. AccountsForEveryRow'
  <2>1. /\ dropped \in Nat /\ totalWritten \in Nat /\ lost \in Nat
        /\ Len(batch) \in Nat /\ Len(batch') \in Nat /\ Len(queue') \in Nat
        /\ appended = dropped + totalWritten + lost + Len(batch) + Len(queue)
      BY <1>5, <1>6 DEF IInv, TypeOK, AccountsForEveryRow
  <2>2. Len(q) = Len(queue) + 1
      BY <1>2
  <2>3. Len(batch') + Len(queue') = Len(batch) + Len(queue) + 1
      BY <1>1, <1>6, <2>1, <2>2
  <2>4. appended' = dropped' + totalWritten' + lost' + Len(batch') + Len(queue')
      BY <1>1, <1>5, <2>1, <2>3
  <2> QED
      BY <2>4 DEF AccountsForEveryRow
<1> QED
    BY <1>6, <1>7, <1>9, <1>10 DEF IInv

(* A flush that the timer or close() starts. *)
LEMMA FlushIInv ==
    ASSUME IInv, Flush(queue), table' = table, lifecycle # "crashed",
           lifecycle' \in {"open", "closing", "closed"},
           UNCHANGED <<dropped, totalWritten, appended, lost>>
    PROVE  IInv'
<1>1. PICK q \in Seq(Row) : q = queue
    BY DEF IInv, TypeOK
<1>2. Distinct(q, inDb, table, appended) /\ IsInjective(q)
    BY <1>1 DEF IInv, Distinct
<1>3. FlushResult(q)
  <2>1. Flush(q)
      BY <1>1
  <2> QED
      BY <1>2, <2>1, FlushMoves
<1>4. /\ queue' \in Seq(Row) /\ Len(queue') <= Len(q)
      /\ flushing' \in BOOLEAN
      /\ batch' \in Seq(Row)
      /\ inDb' \subseteq Seq(Row)
      /\ NoIdleBatch'
      /\ Len(batch') + Len(queue') = Len(batch) + Len(q)
    BY <1>3, FlushKeeps DEF IInv
<1>5. Distinct(queue', inDb', table', appended')
    BY <1>2, <1>3, FlushDistinct
<1>6. Len(queue') <= MaxQueue
  <2>1. Len(queue') \in Nat /\ MaxQueue \in Nat /\ Len(q) \in Nat /\ Len(q) <= MaxQueue
      BY <1>1, <1>4, BufferAssumption DEF IInv, TypeOK
  <2> QED
      BY <1>4, <2>1
<1>7. TypeOK'
    BY <1>4, <1>6 DEF IInv, TypeOK
<1>8. AccountsForEveryRow'
  <2>1. /\ dropped \in Nat /\ totalWritten \in Nat /\ lost \in Nat
        /\ Len(batch) \in Nat /\ Len(batch') \in Nat /\ Len(queue') \in Nat /\ Len(q) \in Nat
        /\ appended = dropped + totalWritten + lost + Len(batch) + Len(q)
      BY <1>1, <1>4 DEF IInv, TypeOK, AccountsForEveryRow, Alive
  <2>2. appended' = dropped' + totalWritten' + lost' + Len(batch') + Len(queue')
      BY <1>4, <2>1
  <2> QED
      BY <2>2 DEF AccountsForEveryRow
<1> QED
    BY <1>4, <1>5, <1>7, <1>8 DEF IInv

(* The end of flush: the batch has been counted as written or as lost. *)
LEMMA EndIInv == IInv /\ (InsertSucceeds \/ InsertFails) => IInv'
<1> SUFFICES ASSUME IInv, InsertSucceeds \/ InsertFails PROVE IInv'
    OBVIOUS
<1>1. /\ flushing' = FALSE /\ batch' = <<>> /\ UNCHANGED <<queue, dropped, appended, table, inDb>>
      /\ lifecycle' = IF lifecycle = "closing" THEN "closed" ELSE lifecycle
    BY DEF InsertSucceeds, InsertFails, FlushEnds
<1>2. Len(batch) \in Nat /\ Len(queue) \in Nat /\ batch' \in Seq(Row) /\ Len(batch') = 0
    BY <1>1 DEF IInv, TypeOK
<1>3. /\ totalWritten' \in Nat /\ lost' \in Nat
      /\ \/ totalWritten' = totalWritten + Len(batch) /\ lost' = lost
         \/ totalWritten' = totalWritten /\ lost' = lost + Len(batch)
  <2>1. totalWritten \in Nat /\ lost \in Nat
      BY DEF IInv, TypeOK
  <2>2. \/ totalWritten' = totalWritten + Len(batch) /\ lost' = lost
        \/ totalWritten' = totalWritten /\ lost' = lost + Len(batch)
      BY DEF InsertSucceeds, InsertFails, FlushEnds
  <2> QED
      BY <1>2, <2>1, <2>2
<1>4. TypeOK'
  <2>1. flushing' \in BOOLEAN /\ lifecycle' \in {"open", "closing", "closed", "crashed"}
      BY <1>1 DEF IInv, TypeOK
  <2> QED
      BY <1>1, <1>2, <1>3, <2>1 DEF IInv, TypeOK
<1>5. NoIdleBatch'
    BY <1>1 DEF NoIdleBatch
<1>6. AccountsForEveryRow'
  <2>1. CASE Alive
    <3>1. /\ dropped \in Nat /\ totalWritten \in Nat /\ lost \in Nat
          /\ appended = dropped + totalWritten + lost + Len(batch) + Len(queue)
        BY <2>1 DEF IInv, TypeOK, AccountsForEveryRow
    <3>2. Len(queue') = Len(queue) /\ dropped' = dropped /\ appended' = appended
        BY <1>1
    <3>3. CASE totalWritten' = totalWritten + Len(batch) /\ lost' = lost
      <4>1. appended' = dropped' + totalWritten' + lost' + Len(batch') + Len(queue')
          BY <1>2, <3>1, <3>2, <3>3
      <4> QED
          BY <4>1 DEF AccountsForEveryRow
    <3>4. CASE totalWritten' = totalWritten /\ lost' = lost + Len(batch)
      <4>1. appended' = dropped' + totalWritten' + lost' + Len(batch') + Len(queue')
          BY <1>2, <3>1, <3>2, <3>4
      <4> QED
          BY <4>1 DEF AccountsForEveryRow
    <3> QED
        BY <1>3, <3>3, <3>4
  <2>2. CASE ~ Alive
      BY <1>1, <2>2 DEF AccountsForEveryRow, Alive
  <2> QED
      BY <2>1, <2>2
<1>7. Distinct(queue', inDb', table', appended')
    BY <1>1 DEF IInv
<1> QED
    BY <1>4, <1>5, <1>6, <1>7 DEF IInv

(* The database executes an INSERT. *)
LEMMA ExecutesIInv == ASSUME IInv, NEW b \in inDb, DbExecutes(b) PROVE IInv'
<1>1. /\ table \in Seq(Row) /\ b \in Seq(Row)
      /\ table' = table \o b /\ inDb' = inDb \ {b} /\ UNCHANGED memoryVars
    BY DEF IInv, TypeOK, DbExecutes
<1>2. Distinct(queue, inDb, table, appended)
    BY DEF IInv
<1>3. PICK c \in Seq(Row) : c = table \o b /\ Joins(table, b, c)
    BY <1>1, <1>2, Concat DEF Distinct
<1>4. /\ table' = c /\ IsInjective(c) /\ Range(c) = Range(table) \cup Range(b)
    BY <1>1, <1>3 DEF Joins
<1>5. TypeOK'
    BY <1>1, <1>4 DEF IInv, TypeOK, memoryVars
<1>6. NoIdleBatch' /\ AccountsForEveryRow'
    BY <1>1 DEF IInv, NoIdleBatch, AccountsForEveryRow, Alive, memoryVars
<1>7. Distinct(queue, inDb \ {b}, c, appended)
  <2>1. \A d \in inDb \ {b} : Range(d) \cap Range(c) = {}
      BY <1>2, <1>4 DEF Distinct
  <2>2. Range(queue) \cap Range(c) = {} /\ Range(c) \subseteq 1..appended
      BY <1>2, <1>4 DEF Distinct
  <2> QED
      BY <1>2, <1>4, <2>1, <2>2 DEF Distinct
<1>8. Distinct(queue', inDb', table', appended')
    BY <1>1, <1>4, <1>7 DEF memoryVars
<1> QED
    BY <1>5, <1>6, <1>8 DEF IInv

LEMMA NextIInv == IInv /\ [Next]_vars => IInv'
<1> SUFFICES ASSUME IInv, [Next]_vars PROVE IInv'
    OBVIOUS
<1>1. CASE Drop
  <2>1. /\ appended \in Nat /\ dropped \in Nat /\ appended + 1 \in 0..MaxRows
        /\ appended' = appended + 1 /\ dropped' = dropped + 1
        /\ UNCHANGED <<queue, flushing, batch, totalWritten, lifecycle, lost, inDb, table>>
      BY <1>1, BufferAssumption DEF IInv, TypeOK, Drop
  <2>2. TypeOK' /\ NoIdleBatch'
      BY <2>1 DEF IInv, TypeOK, NoIdleBatch
  <2>3. AccountsForEveryRow'
    <3>1. /\ totalWritten \in Nat /\ lost \in Nat /\ Len(batch) \in Nat /\ Len(queue) \in Nat
          /\ appended = dropped + totalWritten + lost + Len(batch) + Len(queue)
        BY <1>1 DEF IInv, TypeOK, AccountsForEveryRow, Drop
    <3>2. Len(batch') = Len(batch) /\ Len(queue') = Len(queue)
        BY <2>1
    <3>3. appended' = dropped' + totalWritten' + lost' + Len(batch') + Len(queue')
        BY <2>1, <3>1, <3>2
    <3> QED
        BY <3>3 DEF AccountsForEveryRow
  <2>4. Distinct(queue', inDb', table', appended')
      BY <2>1, WidenDistinct DEF IInv
  <2> QED
      BY <2>2, <2>3, <2>4 DEF IInv
<1>2. CASE Push
    BY <1>2, PushIInv
<1>3. CASE TimerFires
  <2>1. /\ Flush(queue) /\ table' = table /\ lifecycle' = lifecycle /\ lifecycle = "open"
        /\ UNCHANGED <<dropped, totalWritten, appended, lost>>
      BY <1>3 DEF TimerFires
  <2> QED
      BY <2>1, FlushIInv
<1>4. CASE InsertSucceeds \/ InsertFails
    BY <1>4, EndIInv
<1>5. CASE Close
  <2>1. /\ Flush(queue) /\ table' = table /\ lifecycle = "open"
        /\ lifecycle' \in {"closing", "closed"}
        /\ UNCHANGED <<dropped, totalWritten, appended, lost>>
      BY <1>5 DEF Close
  <2> QED
      BY <2>1, FlushIInv
<1>6. CASE Crash
  <2>1. /\ lifecycle' = "crashed" /\ queue' = <<>> /\ flushing' = FALSE /\ batch' = <<>>
        /\ UNCHANGED <<dropped, totalWritten, appended, lost, inDb, table>>
      BY <1>6 DEF Crash
  <2>2. TypeOK'
    <3>1. <<>> \in Seq(Row) /\ Len(<<>>) = 0 /\ 0 <= MaxQueue
        BY BufferAssumption
    <3>2. flushing' \in BOOLEAN
        BY <2>1
    <3> QED
        BY <2>1, <3>1, <3>2 DEF IInv, TypeOK
  <2>3. NoIdleBatch' /\ AccountsForEveryRow'
      BY <2>1 DEF NoIdleBatch, AccountsForEveryRow, Alive
  <2>4. IsInjective(<<>>) /\ Range(<<>>) = {}
      BY DEF IsInjective, Range
  <2>5. Distinct(<<>>, inDb, table, appended)
      BY <2>4 DEF IInv, Distinct
  <2>6. Distinct(queue', inDb', table', appended')
      BY <2>1, <2>5
  <2> QED
      BY <2>2, <2>3, <2>6 DEF IInv
<1>7. CASE \E b \in inDb : DbExecutes(b) \/ DbGivesUp(b)
  <2>1. PICK b \in inDb : DbExecutes(b) \/ DbGivesUp(b)
      BY <1>7
  <2>2. CASE DbExecutes(b)
      BY <2>2, ExecutesIInv
  <2>3. CASE DbGivesUp(b)
    <3>1. inDb' = inDb \ {b} /\ UNCHANGED <<memoryVars, table>>
        BY <2>3 DEF DbGivesUp
    <3>2. TypeOK' /\ NoIdleBatch' /\ AccountsForEveryRow'
        BY <3>1 DEF IInv, TypeOK, NoIdleBatch, AccountsForEveryRow, Alive, memoryVars
    <3>3. Distinct(queue, inDb \ {b}, table, appended)
        BY DEF IInv, Distinct
    <3>4. Distinct(queue', inDb', table', appended')
        BY <3>1, <3>3 DEF memoryVars
    <3> QED
        BY <3>2, <3>4 DEF IInv
  <2> QED
      BY <2>1, <2>2, <2>3
<1>8. CASE UNCHANGED vars
  <2>1. UNCHANGED <<memoryVars, inDb, table>>
      BY <1>8 DEF vars
  <2>2. TypeOK' /\ NoIdleBatch' /\ AccountsForEveryRow'
      BY <2>1 DEF IInv, TypeOK, NoIdleBatch, AccountsForEveryRow, Alive, memoryVars
  <2>3. Distinct(queue', inDb', table', appended')
      BY <2>1 DEF IInv, memoryVars
  <2> QED
      BY <2>2, <2>3 DEF IInv
<1> QED
    BY <1>1, <1>2, <1>3, <1>4, <1>5, <1>6, <1>7, <1>8 DEF Next

(* The inductive invariant holds in every state. *)
THEOREM Invariance == Spec => []IInv
<1> QED
    BY InitIInv, NextIInv, PTL DEF Spec

(* The variables of UsageBuffer keep their types, and append its bound on the *)
(* queue, whatever the sizes.                                                 *)
THEOREM TypeCorrect == Spec => []TypeOK
<1>1. IInv => TypeOK
    BY DEF IInv
<1> QED
    BY <1>1, Invariance, PTL

(* No row of the usage log is lost without being counted. *)
THEOREM RowsAreAccountedFor == Spec => []AccountsForEveryRow
<1>1. IInv => AccountsForEveryRow
    BY DEF IInv
<1> QED
    BY <1>1, Invariance, PTL

(* No row of the usage log is written twice. *)
THEOREM RowsAreNotRepeated == Spec => []NoRowTwice
<1>1. IInv => NoRowTwice
    BY DEF IInv, Distinct, NoRowTwice, InFlight
<1> QED
    BY <1>1, Invariance, PTL

-----------------------------------------------------------------------------
(* The refinement: append is Accept, an execution is Write, and the rest      *)
(* loses pending rows or leaves the log as it was.                            *)

LEMMA InitRefines == Init => Log!LogInit
<1> SUFFICES ASSUME Init PROVE Log!LogInit
    OBVIOUS
<1>1. Range(<<>>) = {}
    BY DEF Range
<1>2. Range(queue) \cup InFlight = {}
    BY <1>1 DEF Init, InFlight
<1> QED
    BY <1>2 DEF Init, Log!LogInit

(* What flush does leaves the rows of the queue pending. *)
LEMMA FlushPending ==
    ASSUME NEW q, FlushResult(q)
    PROVE  Range(queue') \cup InFlight' = Range(q) \cup InFlight
<1>1. CASE queue' = q /\ UNCHANGED <<flushing, batch, inDb>>
    BY <1>1 DEF InFlight
<1>2. CASE inDb' = inDb \cup {batch'} /\ Range(batch') \cup Range(queue') = Range(q)
  <2>1. InFlight' = InFlight \cup Range(batch')
      BY <1>2 DEF InFlight
  <2> QED
      BY <1>2, <2>1
<1> QED
    BY <1>1, <1>2 DEF FlushResult

(* A flush that the timer or close() starts is a stutter of the log. *)
LEMMA FlushRefines ==
    ASSUME IInv, Flush(queue), table' = table
    PROVE  UNCHANGED Log!logVars
<1>1. PICK q \in Seq(Row) : q = queue
    BY DEF IInv, TypeOK
<1>2. IsInjective(q)
    BY <1>1 DEF IInv, Distinct
<1>3. Flush(q)
    BY <1>1
<1>4. FlushResult(q)
    BY <1>2, <1>3, FlushMoves
<1>5. Range(queue') \cup InFlight' = Range(queue) \cup InFlight
    BY <1>1, <1>4, FlushPending
<1> QED
    BY <1>5 DEF Log!logVars

(* append that finds room is the acceptance of the next row. *)
LEMMA PushRefines == IInv /\ Push => Log!Accept
<1> SUFFICES ASSUME IInv, Push PROVE Log!Accept
    OBVIOUS
<1>1. /\ appended \in Nat /\ appended + 1 \in Row /\ appended' = appended + 1
      /\ queue \in Seq(Row) /\ table' = table
    BY BufferAssumption DEF IInv, TypeOK, Push, Row
<1>2. Distinct(queue, inDb, table, appended) /\ appended + 1 \notin 1..appended
    BY <1>1 DEF IInv
<1>3. /\ IsInjective(queue) /\ appended + 1 \notin Range(queue)
      /\ appended + 1 \notin Range(table) /\ appended + 1 \notin InFlight
    BY <1>2 DEF Distinct, InFlight
<1>4. PICK q \in Seq(Row) : /\ q = Append(queue, appended + 1)
                            /\ Range(q) = Range(queue) \cup {appended + 1}
                            /\ IsInjective(q)
    BY <1>1, <1>3, AppendRange
<1>5. Flush(q) \/ (queue' = q /\ UNCHANGED <<flushing, batch, inDb>>)
    BY <1>1, <1>4 DEF Push
<1>6. FlushResult(q)
    BY <1>4, <1>5, FlushMoves DEF FlushResult
<1>7. Range(queue') \cup InFlight' = (Range(queue) \cup InFlight) \cup {appended + 1}
    BY <1>4, <1>6, FlushPending
<1>8. Log!Range(table) = Range(table)
    BY DEF Range, Log!Range
<1> QED
    BY <1>1, <1>3, <1>7, <1>8 DEF Log!Accept

(* An execution writes rows that were pending, each once. *)
LEMMA ExecutesRefines == ASSUME IInv, NEW b \in inDb, DbExecutes(b) PROVE Log!Write
<1>1. /\ table \in Seq(Row) /\ b \in Seq(Row)
      /\ table' = table \o b /\ inDb' = inDb \ {b} /\ queue' = queue
    BY DEF IInv, TypeOK, DbExecutes, memoryVars
<1>2. Distinct(queue, inDb, table, appended)
    BY DEF IInv
<1>3. PICK c \in Seq(Row) : c = table \o b /\ Joins(table, b, c)
    BY <1>1, <1>2, Concat DEF Distinct
<1>4. SubSeq(table', Len(table) + 1, Len(table')) = b
    BY <1>1, <1>3 DEF Joins
<1>5. IsInjective(b) /\ Range(b) \subseteq Range(queue) \cup InFlight
    BY <1>2 DEF Distinct, InFlight
<1>6. Range(queue') \cup InFlight' = (Range(queue) \cup InFlight) \ Range(b)
  <2>1. InFlight' = UNION {Range(d) : d \in inDb \ {b}}
      BY <1>1 DEF InFlight
  <2>2. UNION {Range(d) : d \in inDb \ {b}} = InFlight \ Range(b)
      BY <1>2 DEF Distinct, InFlight
  <2>3. Range(queue) \cap Range(b) = {}
      BY <1>2 DEF Distinct
  <2> QED
      BY <1>1, <2>1, <2>2, <2>3
<1>7. Log!Range(b) = Range(b) /\ (Log!IsInjective(b) <=> IsInjective(b))
    BY DEF Range, Log!Range, IsInjective, Log!IsInjective
<1> QED
    BY <1>1, <1>4, <1>5, <1>6, <1>7 DEF Log!Write

(* Every step of the buffer is a step of the log or a stutter. *)
LEMMA NextRefines == IInv /\ [Next]_vars => [Log!LogNext]_(Log!logVars)
<1> SUFFICES ASSUME IInv, [Next]_vars PROVE [Log!LogNext]_(Log!logVars)
    OBVIOUS
<1>1. CASE UNCHANGED <<queue, inDb, table>>
    BY <1>1 DEF Log!logVars, InFlight
<1>2. CASE Drop \/ InsertSucceeds \/ InsertFails \/ UNCHANGED vars
  <2>1. UNCHANGED <<queue, inDb, table>>
      BY <1>2 DEF Drop, InsertSucceeds, InsertFails, FlushEnds, vars, memoryVars
  <2> QED
      BY <1>1, <2>1
<1>3. CASE Push
    BY <1>3, PushRefines DEF Log!LogNext
<1>4. CASE TimerFires \/ Close
  <2>1. Flush(queue) /\ table' = table
      BY <1>4 DEF TimerFires, Close
  <2> QED
      BY <2>1, FlushRefines
<1>5. CASE Crash
  <2>1. queue' = <<>> /\ inDb' = inDb /\ table' = table
      BY <1>5 DEF Crash
  <2>2. Range(queue') \cup InFlight' \subseteq Range(queue) \cup InFlight
      BY <2>1 DEF InFlight, Range
  <2> QED
      BY <2>1, <2>2 DEF Log!LogNext, Log!Lose
<1>6. CASE \E b \in inDb : DbExecutes(b) \/ DbGivesUp(b)
  <2>1. PICK b \in inDb : DbExecutes(b) \/ DbGivesUp(b)
      BY <1>6
  <2>2. CASE DbExecutes(b)
      BY <2>2, ExecutesRefines DEF Log!LogNext
  <2>3. CASE DbGivesUp(b)
    <3>1. queue' = queue /\ inDb' \subseteq inDb /\ table' = table
        BY <2>3 DEF DbGivesUp, memoryVars
    <3>2. Range(queue') \cup InFlight' \subseteq Range(queue) \cup InFlight
        BY <3>1 DEF InFlight
    <3> QED
        BY <3>1, <3>2 DEF Log!LogNext, Log!Lose
  <2> QED
      BY <2>1, <2>2, <2>3
<1> QED
    BY <1>2, <1>3, <1>4, <1>5, <1>6 DEF Next

(* The usage buffer implements the log that writes a row at most once. *)
THEOREM BufferImplementsLog == Spec => ImplementsLog
<1> QED
    BY InitRefines, NextRefines, Invariance, PTL DEF Spec, ImplementsLog, Log!LogSpec
=============================================================================
