-------------------------- MODULE StreamRelayProofs --------------------------
(***************************************************************************)
(* The relay of StreamRelay, for streams of any length and any counts of      *)
(* tokens, cut into chunks anywhere: it implements EventStream.              *)
(*                                                                         *)
(* The invariant says where every piece and line of the stream is: all that   *)
(* was written comes in order, first what the client has, then what the relay *)
(* holds of a line translated, of lines read, of a line begun, then the wire. *)
(***************************************************************************)
EXTENDS StreamRelay, WellFoundedInduction, TLAPS

-----------------------------------------------------------------------------
(* Induction on the natural numbers, for a set of them. *)

LEMMA Least ==
    ASSUME NEW T \in SUBSET Nat, T # {}
    PROVE  \E n \in T : \A m \in T : n <= m
<1> DEFINE R == OpToRel(<, Nat)
<1>1. IsWellFoundedOn(R, Nat)
    BY NatLessThanWellFounded
<1>2. PICK n \in T : \A m \in T : ~ (<<m, n>> \in R)
    BY <1>1, WFMin, Zenon
<1>3. \A m \in Nat : m < n => <<m, n>> \in R
    BY DEF OpToRel
<1> HIDE DEF R
<1>4. \A m \in T : ~ (m < n)
    BY <1>2, <1>3
<1>5. \A m \in T : n <= m
    BY <1>4
<1> QED
    BY <1>5

LEMMA SetInduction ==
    ASSUME NEW S, 0 \in S, \A n \in Nat : n \in S => n + 1 \in S
    PROVE  Nat \subseteq S
<1> SUFFICES ASSUME Nat \ S # {} PROVE FALSE
    OBVIOUS
<1>1. PICK n \in Nat \ S : \A m \in Nat \ S : n <= m
    BY Least
<1>2. n # 0 /\ n - 1 \in Nat /\ n - 1 \in S
    BY <1>1
<1> QED
    BY <1>1, <1>2

-----------------------------------------------------------------------------
(* FlattenSeq, which is a recursive function: it exists, is unique, and adds one *)
(* sequence at a time.                                                          *)

Flattens(f, s, n) ==
    /\ f = [i \in 1..n |-> f[i]]
    /\ n >= 1 => f[1] = s[1]
    /\ \A i \in Nat : i # 0 /\ i + 1 <= n => f[i + 1] = f[i] \o s[i + 1]

IsFlattenSeq(f, s, n) == f = [i \in 1..n |-> IF i = 1 THEN s[i] ELSE f[i - 1] \o s[i]]

LEMMA FlattensAsFunction ==
    ASSUME NEW s, NEW n \in Nat, NEW f
    PROVE  Flattens(f, s, n) <=> IsFlattenSeq(f, s, n)
<1> DEFINE Value(i) == IF i = 1 THEN s[i] ELSE f[i - 1] \o s[i]
<1>1. ASSUME Flattens(f, s, n) PROVE f = [i \in 1..n |-> Value(i)]
  <2>1. f = [i \in 1..n |-> f[i]]
      BY <1>1, Zenon DEF Flattens
  <2>2. ASSUME NEW i \in 1..n PROVE f[i] = Value(i)
    <3>1. CASE i = 1
        BY <1>1, <3>1 DEF Flattens
    <3>2. CASE i # 1
      <4>1. PICK j \in Nat : j = i - 1
          BY <3>2
      <4>2. j # 0 /\ j + 1 <= n /\ j + 1 = i
          BY <3>2, <4>1
      <4>3. f[j + 1] = f[j] \o s[j + 1]
          BY <1>1, <4>2, Zenon DEF Flattens
      <4> QED
          BY <3>2, <4>1, <4>2, <4>3, Zenon
    <3> QED
        BY <3>1, <3>2
  <2> HIDE DEF Value
  <2>3. [i \in 1..n |-> f[i]] = [i \in 1..n |-> Value(i)]
      BY <2>2, Zenon
  <2> QED
      BY <2>1, <2>3, Zenon
<1>2. ASSUME f = [i \in 1..n |-> Value(i)] PROVE Flattens(f, s, n)
  <2> HIDE DEF Value
  <2>1. \A i \in 1..n : f[i] = Value(i)
    <3>1. \A i \in 1..n : [j \in 1..n |-> Value(j)][i] = Value(i)
        BY Zenon
    <3> QED
        BY <1>2, <3>1, Zenon
  <2>2. f = [i \in 1..n |-> f[i]]
    <3>1. [i \in 1..n |-> f[i]] = [i \in 1..n |-> Value(i)]
        BY <2>1, Zenon
    <3> QED
        BY <1>2, <3>1, Zenon
  <2>3. n >= 1 => f[1] = s[1]
      BY <2>1 DEF Value
  <2>4. ASSUME NEW i \in Nat, i # 0, i + 1 <= n PROVE f[i + 1] = f[i] \o s[i + 1]
    <3>1. i + 1 \in 1..n /\ i + 1 # 1 /\ (i + 1) - 1 = i
        BY <2>4
    <3>2. f[i + 1] = Value(i + 1)
        BY <2>1, <3>1, Zenon
    <3> QED
        BY <3>1, <3>2, Zenon DEF Value
  <2> QED
      BY <2>2, <2>3, <2>4, Zenon DEF Flattens
<1> QED
    BY <1>1, <1>2, Zenon DEF IsFlattenSeq

LEMMA FlattenExists ==
    ASSUME NEW M, NEW s \in Seq(Seq(M))
    PROVE  \E f \in [1..Len(s) -> Seq(M)] : Flattens(f, s, Len(s))
<1> DEFINE S == {n \in Nat : n <= Len(s) => \E f \in [1..n -> Seq(M)] : Flattens(f, s, n)}
<1>1. 0 \in S
  <2> DEFINE f == [i \in 1..0 |-> <<>>]
  <2>1. f \in [1..0 -> Seq(M)] /\ Flattens(f, s, 0)
      BY DEF Flattens
  <2> QED
      BY <2>1
<1>2. ASSUME NEW n \in Nat, n \in S PROVE n + 1 \in S
  <2>1. SUFFICES ASSUME n + 1 <= Len(s) PROVE \E f \in [1..(n + 1) -> Seq(M)] : Flattens(f, s, n + 1)
      OBVIOUS
  <2>2. PICK f \in [1..n -> Seq(M)] : Flattens(f, s, n)
      BY <1>2, <2>1
  <2>3. s[n + 1] \in Seq(M)
      BY <2>1
  <2> DEFINE x == IF n = 0 THEN s[n + 1] ELSE f[n] \o s[n + 1]
  <2>4. x \in Seq(M)
    <3>1. n # 0 => f[n] \in Seq(M)
        OBVIOUS
    <3> QED
        BY <2>3, <3>1
  <2>5. /\ n = 0 => x = s[n + 1]
        /\ n # 0 => x = f[n] \o s[n + 1]
      OBVIOUS
  <2> HIDE DEF x
  <2> DEFINE g == [i \in 1..(n + 1) |-> IF i <= n THEN f[i] ELSE x]
  <2>6. /\ g \in [1..(n + 1) -> Seq(M)]
        /\ g[n + 1] = x
        /\ \A i \in 1..n : g[i] = f[i]
      BY <2>4
  <2> HIDE DEF g
  <2>7. g = [i \in 1..(n + 1) |-> g[i]]
      BY <2>6
  <2>8. g[1] = s[1]
    <3>1. CASE n = 0
        BY <2>5, <2>6, <3>1
    <3>2. CASE n # 0
      <4>1. n >= 1
          BY <3>2
      <4>2. f[1] = s[1]
          BY <2>2, <4>1, Zenon DEF Flattens
      <4> QED
          BY <2>6, <4>1, <4>2
    <3> QED
        BY <3>1, <3>2
  <2>9. ASSUME NEW i \in Nat, i # 0, i + 1 <= n + 1 PROVE g[i + 1] = g[i] \o s[i + 1]
    <3>1. g[i] = f[i]
        BY <2>6, <2>9
    <3>2. CASE i = n
        BY <2>5, <2>6, <2>9, <3>1, <3>2
    <3>3. CASE i + 1 <= n
      <4>1. f[i + 1] = f[i] \o s[i + 1]
          BY <2>2, <2>9, <3>3, Zenon DEF Flattens
      <4>2. g[i + 1] = f[i + 1]
          BY <2>6, <3>3
      <4> QED
          BY <3>1, <4>1, <4>2, Zenon
    <3>4. i = n \/ i + 1 <= n
        BY <2>9
    <3> QED
        BY <3>2, <3>3, <3>4
  <2>10. Flattens(g, s, n + 1)
    <3>1. n + 1 \in Nat
        OBVIOUS
    <3> QED
        BY <2>7, <2>8, <2>9, <3>1, Zenon DEF Flattens
  <2> QED
      BY <2>6, <2>10
<1> HIDE DEF S
<1>3. Nat \subseteq S
    BY <1>1, <1>2, SetInduction
<1> QED
    BY <1>3 DEF S

LEMMA FlattenUnique ==
    ASSUME NEW s, NEW t, NEW f, NEW g, NEW m \in Nat, NEW n \in Nat, m <= n,
           \A i \in 1..m : s[i] = t[i], Flattens(f, s, m), Flattens(g, t, n)
    PROVE  \A i \in 1..m : f[i] = g[i]
<1> DEFINE S == {i \in Nat : i \in 1..m => f[i] = g[i]}
<1>1. 0 \in S
    OBVIOUS
<1>2. ASSUME NEW i \in Nat, i \in S PROVE i + 1 \in S
  <2>1. SUFFICES ASSUME i + 1 \in 1..m PROVE f[i + 1] = g[i + 1]
      OBVIOUS
  <2>2. i + 1 <= m /\ i + 1 <= n /\ s[i + 1] = t[i + 1]
      BY <2>1
  <2>3. CASE i = 0
    <3>1. m >= 1 /\ n >= 1
        BY <2>2, <2>3
    <3>2. f[1] = s[1]
        BY <3>1, Zenon DEF Flattens
    <3>3. g[1] = t[1]
        BY <3>1, Zenon DEF Flattens
    <3> QED
        BY <2>2, <2>3, <3>2, <3>3
  <2>4. CASE i # 0
    <3>1. f[i + 1] = f[i] \o s[i + 1]
        BY <2>2, <2>4, Zenon DEF Flattens
    <3>2. g[i + 1] = g[i] \o t[i + 1]
        BY <2>2, <2>4, Zenon DEF Flattens
    <3>3. f[i] = g[i]
        BY <1>2, <2>1, <2>4
    <3> QED
        BY <2>2, <3>1, <3>2, <3>3, Zenon
  <2> QED
      BY <2>3, <2>4
<1> HIDE DEF S
<1>3. Nat \subseteq S
    BY <1>1, <1>2, SetInduction
<1> QED
    BY <1>3 DEF S

LEMMA FlattenValue ==
    ASSUME NEW s, NEW n \in Nat, Len(s) = n, n > 0, NEW f, Flattens(f, s, n)
    PROVE  FlattenSeq(s) = f[n]
<1> DEFINE g == CHOOSE h : IsFlattenSeq(h, s, Len(s))
<1>1. FlattenSeq(s) = g[n]
    BY DEF FlattenSeq, IsFlattenSeq
<1>2. f[n] = g[n]
  <2>1. \E h : IsFlattenSeq(h, s, n)
      BY FlattensAsFunction, Zenon
  <2>2. IsFlattenSeq(g, s, n)
      BY <2>1, Zenon
  <2> HIDE DEF g
  <2>3. Flattens(g, s, n)
      BY <2>2, FlattensAsFunction, Zenon
  <2>4. \A i \in 1..n : f[i] = g[i]
      BY <2>3, FlattenUnique
  <2> QED
      BY <2>4
<1> QED
    BY <1>1, <1>2

LEMMA NoneIsEmpty ==
    ASSUME NEW S, NEW s \in Seq(S), Len(s) = 0
    PROVE  s = <<>>
OBVIOUS

LEMMA FlattenOneMore ==
    ASSUME NEW s, NEW t, NEW n \in Nat, n > 0, \A i \in 1..n : s[i] = t[i],
           NEW f, Flattens(f, s, n), NEW g, Flattens(g, t, n + 1)
    PROVE  g[n + 1] = f[n] \o t[n + 1]
<1>1. PICK k \in Nat : k = n + 1
    OBVIOUS
<1>2. n <= k /\ Flattens(g, t, k)
    BY <1>1
<1>3. \A i \in 1..n : f[i] = g[i]
    BY <1>2, FlattenUnique
<1>4. g[n + 1] = g[n] \o t[n + 1]
  <2>1. n # 0 /\ n + 1 <= n + 1
      OBVIOUS
  <2> QED
      BY <2>1, Zenon DEF Flattens
<1>5. f[n] = g[n]
    BY <1>3
<1> QED
    BY <1>4, <1>5, Zenon

LEMMA FlattenAppend ==
    ASSUME NEW M, NEW s \in Seq(Seq(M)), NEW x \in Seq(M)
    PROVE  FlattenSeq(Append(s, x)) = FlattenSeq(s) \o x /\ FlattenSeq(s) \in Seq(M)
<1>1. PICK t : t = Append(s, x)
    OBVIOUS
<1>2. PICK n \in Nat : n = Len(s)
    OBVIOUS
<1>3. /\ t \in Seq(Seq(M)) /\ Len(t) = n + 1 /\ t[n + 1] = x
      /\ \A i \in 1..n : s[i] = t[i]
    BY <1>1, <1>2
<1>4. PICK f \in [1..n -> Seq(M)] : Flattens(f, s, n)
    BY <1>2, FlattenExists, Zenon
<1>5. PICK g \in [1..(n + 1) -> Seq(M)] : Flattens(g, t, n + 1)
    BY <1>3, FlattenExists, Zenon
<1>6. FlattenSeq(t) = g[n + 1]
  <2>1. n + 1 \in Nat /\ n + 1 > 0
      OBVIOUS
  <2> QED
      BY <1>3, <1>5, <2>1, FlattenValue, Zenon
<1>7. CASE n = 0
  <2>1. FlattenSeq(s) = <<>>
    <3>1. s = <<>> /\ Len(s) = 0
        BY <1>2, <1>7, NoneIsEmpty
    <3>2. FlattenSeq(s) = s
        BY <3>1, Zenon DEF FlattenSeq
    <3> QED
        BY <3>1, <3>2
  <2>2. g[1] = t[1]
    <3>1. n + 1 >= 1
        OBVIOUS
    <3> QED
        BY <1>5, <3>1, Zenon DEF Flattens
  <2>3. x = <<>> \o x /\ <<>> \in Seq(M)
      OBVIOUS
  <2>4. FlattenSeq(t) = x
      BY <1>3, <1>6, <1>7, <2>2
  <2> QED
      BY <1>1, <2>1, <2>3, <2>4, Zenon
<1>8. CASE n > 0
  <2>1. FlattenSeq(s) = f[n]
      BY <1>2, <1>4, <1>8, FlattenValue, Zenon
  <2>2. f[n] \in Seq(M)
      BY <1>8
  <2>3. g[n + 1] = f[n] \o t[n + 1]
      BY <1>3, <1>4, <1>5, <1>8, FlattenOneMore, Zenon
  <2> QED
      BY <1>1, <1>3, <1>6, <2>1, <2>2, <2>3, Zenon
<1> QED
    BY <1>7, <1>8

-----------------------------------------------------------------------------
(* What the upstream writes is typed. *)

Kinds == {"text", "ping", "junk", "odd", "blank", "start", "usage", "stop", "done"}
Message == Kinds \cup {Done}
PieceType == [line : Line, tail : BOOLEAN]

LEMMA LineCounts ==
    ASSUME NEW line \in Line, NEW k \in Counts
    PROVE  line[k] \in Tokens \cup {0} /\ line[k] \in Nat
<1>1. line.input \in Tokens \cup {0} /\ line.output \in Tokens \cup {0}
    BY DEF Line
<1>2. line["input"] \in Tokens \cup {0} /\ line["output"] \in Tokens \cup {0}
    BY <1>1
<1>3. k = "input" \/ k = "output"
    BY DEF Counts
<1>4. line[k] \in Tokens \cup {0}
    BY <1>2, <1>3
<1>5. \A v \in Tokens \cup {0} : v \in Nat
    BY RelayAssumption
<1> QED
    BY <1>4, <1>5, Zenon

LEMMA NextLinesAreLines == NextLines \subseteq Line
<1>1. \A kind \in Kinds : Plain(kind) \in Line
    BY DEF Plain, Line, Kinds
<1>2. \A kind \in {"blank", "junk", "odd", "text", "done", "ping", "stop"} : Plain(kind) \in Line
    BY <1>1 DEF Kinds
<1>3. \A i, o \in Tokens : /\ [kind |-> "usage", input |-> i, output |-> o] \in Line
                            /\ [kind |-> "start", input |-> i, output |-> 0] \in Line
                            /\ [kind |-> "usage", input |-> 0, output |-> o] \in Line
    BY DEF Line
<1>4. ASSUME NEW line \in NextLines PROVE line \in Line
  <2>1. CASE \E kind \in {"blank", "junk", "odd", "text", "done", "ping", "stop"} : line = Plain(kind)
      BY <1>2, <2>1
  <2>2. CASE \E i, o \in Tokens : \/ line = [kind |-> "usage", input |-> i, output |-> o]
                                  \/ line = [kind |-> "start", input |-> i, output |-> 0]
                                  \/ line = [kind |-> "usage", input |-> 0, output |-> o]
      BY <1>3, <2>2
  <2> QED
      BY <1>4, <2>1, <2>2 DEF NextLines
<1> QED
    BY <1>4

LEMMA OutputsAreMessages ==
    ASSUME adapter \in Adapters, NEW line \in Line
    PROVE  Outputs(line) \in Seq(Message)
<1>1. line.kind \in Message /\ Done \in Message
    BY DEF Line, Message, Kinds
<1>2. /\ <<>> \in Seq(Message) /\ <<line.kind>> \in Seq(Message)
      /\ <<Done>> \in Seq(Message) /\ <<Done, Done>> \in Seq(Message)
    BY <1>1
<1>3. OpenAIOutputs(line) \in Seq(Message)
    BY <1>2, Zenon DEF OpenAIOutputs
<1>4. AnthropicOutputs(line) \in Seq(Message)
    BY <1>2 DEF AnthropicOutputs
<1> QED
    BY <1>2, <1>3, <1>4, Zenon DEF Outputs

-----------------------------------------------------------------------------
(* The messages of the first lines. *)

Translation(n) == [i \in 1..n |-> Outputs(lines[i])]
Sent(n) == FlattenSeq(Translation(n))

LEMMA SentNone == Sent(0) = <<>>
<1>1. Translation(0) = <<>> /\ Len(<<>>) = 0
    BY DEF Translation
<1> QED
    BY <1>1, Zenon DEF Sent, FlattenSeq

LEMMA TranslationType ==
    ASSUME adapter \in Adapters, lines \in Seq(Line), NEW n \in 0..Len(lines)
    PROVE  Translation(n) \in Seq(Seq(Message)) /\ Len(Translation(n)) = n
<1>1. ASSUME NEW i \in 1..n PROVE Outputs(lines[i]) \in Seq(Message)
  <2>1. lines[i] \in Line
      OBVIOUS
  <2> QED
      BY <2>1, OutputsAreMessages
<1> QED
    BY <1>1 DEF Translation

LEMMA SentOneMore ==
    ASSUME adapter \in Adapters, lines \in Seq(Line), NEW n \in Nat, n < Len(lines)
    PROVE  /\ Sent(n + 1) = Sent(n) \o Outputs(lines[n + 1])
           /\ Sent(n) \in Seq(Message) /\ Outputs(lines[n + 1]) \in Seq(Message)
<1>1. lines[n + 1] \in Line
    OBVIOUS
<1>2. Outputs(lines[n + 1]) \in Seq(Message)
    BY <1>1, OutputsAreMessages
<1>3. Translation(n) \in Seq(Seq(Message))
    BY TranslationType
<1>4. Translation(n + 1) = Append(Translation(n), Outputs(lines[n + 1]))
    BY DEF Translation
<1> QED
    BY <1>2, <1>3, <1>4, FlattenAppend, Zenon DEF Sent

LEMMA SentType ==
    ASSUME adapter \in Adapters, lines \in Seq(Line), NEW n \in 0..Len(lines)
    PROVE  Sent(n) \in Seq(Message)
<1>1. Translation(n) \in Seq(Seq(Message)) /\ <<>> \in Seq(Message)
    BY TranslationType
<1> QED
    BY <1>1, FlattenAppend, Zenon DEF Sent

(* What was sent for fewer lines is the beginning of what is sent for more. *)
LEMMA SentPrefix ==
    ASSUME adapter \in Adapters, lines \in Seq(Line), NEW m \in Nat, NEW n \in Nat,
           m <= n, n <= Len(lines)
    PROVE  /\ Len(Sent(m)) <= Len(Sent(n))
           /\ \A i \in 1..Len(Sent(m)) : Sent(n)[i] = Sent(m)[i]
<1> DEFINE S == {d \in Nat : m + d <= Len(lines) =>
                     /\ Len(Sent(m)) <= Len(Sent(m + d))
                     /\ \A i \in 1..Len(Sent(m)) : Sent(m + d)[i] = Sent(m)[i]}
<1>1. Sent(m) \in Seq(Message)
    BY SentType
<1>2. 0 \in S
    BY <1>1
<1>3. ASSUME NEW d \in Nat, d \in S PROVE d + 1 \in S
  <2>1. SUFFICES ASSUME m + d + 1 <= Len(lines)
                 PROVE  /\ Len(Sent(m)) <= Len(Sent(m + d + 1))
                        /\ \A i \in 1..Len(Sent(m)) : Sent(m + d + 1)[i] = Sent(m)[i]
      OBVIOUS
  <2>2. PICK k \in Nat : k = m + d
      OBVIOUS
  <2>3. k < Len(lines)
      BY <2>1, <2>2
  <2>4. PICK x \in Seq(Message) : x = Outputs(lines[k + 1])
      BY <2>3, SentOneMore, Zenon
  <2>5. Sent(k + 1) = Sent(k) \o x /\ Sent(k) \in Seq(Message)
      BY <2>3, <2>4, SentOneMore, Zenon
  <2>6. /\ Len(Sent(m)) <= Len(Sent(k))
        /\ \A i \in 1..Len(Sent(m)) : Sent(k)[i] = Sent(m)[i]
      BY <1>3, <2>1, <2>2
  <2>7. /\ Len(Sent(m)) <= Len(Sent(k + 1))
        /\ \A i \in 1..Len(Sent(m)) : Sent(k + 1)[i] = Sent(m)[i]
      BY <1>1, <2>5, <2>6
  <2> QED
      BY <2>2, <2>7
<1> HIDE DEF S
<1>4. n - m \in S
    BY <1>2, <1>3, SetInduction
<1> QED
    BY <1>4 DEF S

-----------------------------------------------------------------------------
(* The pieces of the stream: piece 2i - 1 begins line i and piece 2i ends it. *)

WrittenLine(i) == IF i <= Len(lines) THEN lines[i] ELSE half
Written == 2 * Len(lines) + (IF half = NoLine THEN 0 ELSE 1)
Piece(j) == [line |-> WrittenLine((j + 1) \div 2), tail |-> (j % 2 = 0)]

(* The inductive invariant.  The relay has translated the first d lines: what they  *)
(* say is with the client or about to be written, and counted; the lines after them *)
(* are in todo, and the pieces after those in the buffer and on the wire.  A stream   *)
(* that a line ended keeps that line at the head of todo.                            *)
ReadPieces(d) == 2 * (d + Len(todo)) + Len(buffer)
LinesAt(d) ==
    /\ d + Len(todo) <= Len(lines)
    /\ \A i \in 1..Len(todo) : todo[i] = lines[d + i]
PiecesAt(d) ==
    /\ ReadPieces(d) + Len(wire) = Written
    /\ buffer # <<>> => buffer[1] = Piece(ReadPieces(d))
    /\ \A j \in 1..Len(wire) : wire[j] = Piece(ReadPieces(d) + j)
MessagesAt(d) == out \o outs = Sent(d)

Reports(i, k) == lines[i].kind \in {"start", "usage"} /\ lines[i][k] # 0
LastReport(d, k, v) ==
    \/ v = 0 /\ \A i \in 1..d : ~ Reports(i, k)
    \/ \E i \in 1..d : Reports(i, k) /\ v = lines[i][k] /\ \A j \in 1..d : j > i => ~ Reports(j, k)
CountsAt(d) == \A k \in Counts : LastReport(d, k, tokens[k])

Position(d) == LinesAt(d) /\ PiecesAt(d) /\ MessagesAt(d) /\ CountsAt(d)

Types ==
    /\ TypeOK
    /\ wire \in Seq(PieceType) /\ buffer \in Seq(PieceType)
    /\ outs \in Seq(Message) /\ out \in Seq(Message)
Phases ==
    /\ at = "read" => todo = <<>>
    /\ at # "lines" => outs = <<>>
    /\ at \in FinallyBlock => \/ todo = <<>> /\ (broken \/ (closed /\ wire = <<>>))
                              \/ todo # <<>> /\ Throws(Head(todo))
    /\ logged = IF at = "settled" THEN <<tokens>> ELSE <<>>

IInv == Types /\ Phases /\ \E d \in 0..Len(lines) : Position(d)

LEMMA PieceKinds ==
    ASSUME NEW i \in Nat
    PROVE  /\ Piece(2 * i + 1) = [line |-> WrittenLine(i + 1), tail |-> FALSE]
           /\ Piece(2 * i) = [line |-> WrittenLine(i), tail |-> TRUE]
<1>1. /\ ((2 * i + 1) + 1) \div 2 = i + 1 /\ (2 * i + 1) % 2 = 1
      /\ (2 * i + 1) \div 2 = i /\ (2 * i) % 2 = 0
      /\ (1 = 0) = FALSE /\ (0 = 0) = TRUE
    OBVIOUS
<1>2. Piece(2 * i + 1) = [line |-> WrittenLine(i + 1), tail |-> FALSE]
    BY <1>1, Zenon DEF Piece
<1>3. Piece(2 * i) = [line |-> WrittenLine(i), tail |-> TRUE]
    BY <1>1, Zenon DEF Piece
<1> QED
    BY <1>2, <1>3

LEMMA Halves ==
    ASSUME NEW j \in Nat
    PROVE  \E i \in Nat : j = 2 * i \/ j = 2 * i + 1
<1>1. j \div 2 \in Nat /\ (j = 2 * (j \div 2) \/ j = 2 * (j \div 2) + 1)
    OBVIOUS
<1> QED
    BY <1>1

(* A line begun or ended changes no piece written before it. *)
LEMMA PiecesKept ==
    ASSUME lines \in Seq(Line), lines' \in Seq(Line), NEW n \in Nat, n <= Written,
           \A i \in Nat : i # 0 /\ 2 * i <= n + 1 => WrittenLine(i)' = WrittenLine(i),
           NEW j \in Nat, j # 0, j <= n
    PROVE  Piece(j)' = Piece(j)
<1>1. PICK i \in Nat : j = 2 * i \/ j = 2 * i + 1
    BY Halves
<1>2. CASE j = 2 * i
  <2>1. WrittenLine(i)' = WrittenLine(i)
      BY <1>2
  <2>2. (2 * i + 1) \div 2 = i /\ (2 * i) % 2 = 0
      OBVIOUS
  <2> QED
      BY <1>2, <2>1, <2>2 DEF Piece
<1>3. CASE j = 2 * i + 1
  <2>1. WrittenLine(i + 1)' = WrittenLine(i + 1)
      BY <1>3
  <2>2. ((2 * i + 1) + 1) \div 2 = i + 1 /\ (2 * i + 1) % 2 = 1
      OBVIOUS
  <2> QED
      BY <1>3, <2>1, <2>2 DEF Piece
<1> QED
    BY <1>1, <1>2, <1>3

(* The lines of a chunk that starts with a whole line, and what is left of it. *)
LEMMA Divided ==
    ASSUME NEW pieces \in Seq(PieceType), pieces # <<>>, NEW r \in Nat,
           \A j \in 1..Len(pieces) : pieces[j] = Piece(2 * r + j)
    PROVE  \E q \in Nat :
              /\ WholeLines(pieces) \in Seq(Line) /\ Len(WholeLines(pieces)) = q
              /\ \A i \in 1..q : WholeLines(pieces)[i] = WrittenLine(r + i)
              /\ \/ Len(pieces) = 2 * q /\ Rest(pieces) = <<>>
                 \/ Len(pieces) = 2 * q + 1 /\ Rest(pieces) = <<pieces[Len(pieces)]>>
<1>1. PICK n \in Nat : n = Len(pieces) /\ n >= 1
    OBVIOUS
<1>2. PICK q \in Nat : n = 2 * q \/ n = 2 * q + 1
    BY Halves
<1>3. (n - 0) \div 2 = q
    BY <1>2
<1>4. pieces[1].tail = FALSE
  <2>1. pieces[1] = Piece(2 * r + 1)
      BY <1>1
  <2>2. pieces[1] = [line |-> WrittenLine(r + 1), tail |-> FALSE]
      BY <2>1, PieceKinds, Zenon
  <2> QED
      BY <2>2
<1>5. WholeLines(pieces) = [i \in 1..q |-> pieces[2 * i].line]
  <2>1. WholeLines(pieces) = [i \in 1..((n - 0) \div 2) |-> pieces[0 + 2 * i].line]
      BY <1>1, <1>4, Zenon DEF WholeLines
  <2>2. \A i \in 1..q : 0 + 2 * i = 2 * i
      OBVIOUS
  <2> QED
      BY <1>3, <2>1, <2>2
<1>6. ASSUME NEW i \in 1..q
      PROVE  pieces[2 * i].line \in Line /\ pieces[2 * i].line = WrittenLine(r + i)
  <2>1. 2 * i \in 1..n
      BY <1>2
  <2>2. pieces[2 * i] \in PieceType /\ pieces[2 * i] = Piece(2 * r + 2 * i)
      BY <1>1, <2>1
  <2>3. 2 * r + 2 * i = 2 * (r + i) /\ r + i \in Nat
      OBVIOUS
  <2>4. pieces[2 * i] = [line |-> WrittenLine(r + i), tail |-> TRUE]
      BY <2>2, <2>3, PieceKinds, Zenon
  <2> QED
      BY <2>2, <2>4 DEF PieceType
<1>7. /\ WholeLines(pieces) \in Seq(Line) /\ Len(WholeLines(pieces)) = q
      /\ \A i \in 1..q : WholeLines(pieces)[i] = WrittenLine(r + i)
    BY <1>5, <1>6
<1>8. CASE n = 2 * q
  <2>1. pieces[n] = Piece(2 * (r + q)) /\ r + q \in Nat
    <3>1. 2 * r + n = 2 * (r + q) /\ n \in 1..n
        BY <1>1, <1>8
    <3> QED
        BY <1>1, <3>1
  <2>2. pieces[n].tail = TRUE
    <3>1. pieces[n] = [line |-> WrittenLine(r + q), tail |-> TRUE]
        BY <2>1, PieceKinds, Zenon
    <3> QED
        BY <3>1
  <2>3. Rest(pieces) = <<>>
      BY <1>1, <2>2, Zenon DEF Rest, Last
  <2> QED
      BY <1>1, <1>7, <1>8, <2>3
<1>9. CASE n = 2 * q + 1
  <2>1. pieces[n] = Piece(2 * (r + q) + 1) /\ r + q \in Nat
    <3>1. 2 * r + n = 2 * (r + q) + 1 /\ n \in 1..n
        BY <1>1, <1>9
    <3> QED
        BY <1>1, <3>1
  <2>2. pieces[n].tail = FALSE
    <3>1. pieces[n] = [line |-> WrittenLine(r + q + 1), tail |-> FALSE]
        BY <2>1, PieceKinds, Zenon
    <3> QED
        BY <3>1
  <2>3. Rest(pieces) = <<pieces[Len(pieces)]>>
      BY <1>1, <2>2, Zenon DEF Rest, Last
  <2> QED
      BY <1>1, <1>7, <1>9, <2>3
<1> QED
    BY <1>2, <1>8, <1>9

-----------------------------------------------------------------------------
(* The invariant at the start, and where only the upstream or the wire moves. *)

LEMMA InitIInv == Init => IInv
<1> SUFFICES ASSUME Init PROVE IInv
    OBVIOUS
<1> USE DEF Init
<1>1. Types
  <2>1. \A S : <<>> \in Seq(S)
      OBVIOUS
  <2>2. /\ adapter \in Adapters /\ half = NoLine /\ closed = FALSE /\ broken = FALSE /\ at = "read"
        /\ lines = <<>> /\ buffer = <<>> /\ todo = <<>> /\ wire = <<>>
        /\ outs = <<>> /\ out = <<>> /\ logged = <<>>
      OBVIOUS
  <2>3. tokens \in [Counts -> Nat] /\ Len(<<>>) <= 1
      OBVIOUS
  <2>4. TypeOK
      BY <2>1, <2>2, <2>3 DEF TypeOK
  <2> QED
      BY <2>1, <2>2, <2>4, Zenon DEF Types
<1>2. Phases
    BY DEF Phases, FinallyBlock
<1>3. 0 \in 0..Len(lines) /\ Position(0)
  <2>1. LinesAt(0)
      BY DEF LinesAt
  <2>2. PiecesAt(0)
      BY DEF PiecesAt, ReadPieces, Written
  <2>3. MessagesAt(0)
      BY SentNone DEF MessagesAt
  <2>4. CountsAt(0)
    <3>1. \A k \in Counts : tokens[k] = 0
        OBVIOUS
    <3>2. \A i \in 1..0 : FALSE
        OBVIOUS
    <3> QED
        BY <3>1, <3>2, Zenon DEF CountsAt, LastReport
  <2>5. 0 \in 0..Len(lines)
      OBVIOUS
  <2> QED
      BY <2>1, <2>2, <2>3, <2>4, <2>5 DEF Position
<1> QED
    BY <1>1, <1>2, <1>3, Zenon DEF IInv

(* What is translated stays so while lines are only added. *)
LEMMA TranslatedKept ==
    ASSUME NEW d \in Nat, d <= Len(lines), lines \in Seq(Line), lines' \in Seq(Line),
           \A i \in 1..d : lines'[i] = lines[i], UNCHANGED <<adapter, out, outs, tokens>>,
           MessagesAt(d), CountsAt(d)
    PROVE  MessagesAt(d)' /\ CountsAt(d)'
<1>1. Translation(d)' = Translation(d)
  <2>1. \A line : Outputs(line)' = Outputs(line)
    <3>1. adapter' = adapter
        OBVIOUS
    <3> QED
        BY <3>1, Zenon DEF Outputs, OpenAIOutputs, AnthropicOutputs
  <2>2. Translation(d)' = [i \in 1..d |-> Outputs(lines'[i])]
      BY <2>1, Zenon DEF Translation
  <2>3. [i \in 1..d |-> Outputs(lines'[i])] = [i \in 1..d |-> Outputs(lines[i])]
      BY Zenon
  <2> QED
      BY <2>2, <2>3, Zenon DEF Translation
<1>2. MessagesAt(d)'
    BY <1>1, Zenon DEF MessagesAt, Sent
<1>3. \A i \in 1..d, k \in Counts : Reports(i, k)' <=> Reports(i, k)
    BY Zenon DEF Reports
<1>4. ASSUME NEW k \in Counts PROVE LastReport(d, k, tokens[k])'
  <2>1. LastReport(d, k, tokens[k]) /\ tokens' = tokens
      BY DEF CountsAt
  <2>2. CASE tokens[k] = 0 /\ \A i \in 1..d : ~ Reports(i, k)
      BY <1>3, <2>1, <2>2, Zenon DEF LastReport
  <2>3. CASE \E i \in 1..d : Reports(i, k) /\ tokens[k] = lines[i][k] /\ \A j \in 1..d : j > i => ~ Reports(j, k)
    <3>1. PICK i \in 1..d : Reports(i, k) /\ tokens[k] = lines[i][k] /\ \A j \in 1..d : j > i => ~ Reports(j, k)
        BY <2>3
    <3>2. Reports(i, k)' /\ tokens'[k] = lines'[i][k]
        BY <1>3, <2>1, <3>1, Zenon
    <3>3. \A j \in 1..d : j > i => ~ Reports(j, k)'
        BY <1>3, <3>1, Zenon
    <3> QED
        BY <3>2, <3>3, Zenon DEF LastReport
  <2> QED
      BY <2>1, <2>2, <2>3, Zenon DEF LastReport
<1> QED
    BY <1>2, <1>4, Zenon DEF CountsAt

LEMMA WrittenType ==
    ASSUME Types
    PROVE  Written \in Nat
BY DEF Types, TypeOK, Written

LEMMA OnePieceMore ==
    ASSUME Types, Types', NEW d \in Nat, PiecesAt(d), UNCHANGED <<buffer, todo>>,
           NEW w \in Nat, w = Written, Written' = w + 1,
           NEW p \in PieceType, wire' = Append(wire, p), Piece(w + 1)' = p,
           \A i \in Nat : i # 0 /\ 2 * i <= w + 1 => WrittenLine(i)' = WrittenLine(i)
    PROVE  PiecesAt(d)'
<1>1. /\ wire \in Seq(PieceType) /\ lines \in Seq(Line) /\ lines' \in Seq(Line)
      /\ buffer \in Seq(PieceType) /\ todo \in Seq(Line)
    BY DEF Types, TypeOK
<1>2. PICK r \in Nat : r = ReadPieces(d) /\ ReadPieces(d)' = r /\ (buffer # <<>> => r # 0)
    BY <1>1 DEF ReadPieces
<1>3. /\ r + Len(wire) = w
      /\ buffer # <<>> => buffer[1] = Piece(r)
      /\ \A j \in 1..Len(wire) : wire[j] = Piece(r + j)
    BY <1>2 DEF PiecesAt
<1>4. \A j \in Nat : j # 0 /\ j <= w => Piece(j)' = Piece(j)
  <2>1. w <= Written
      OBVIOUS
  <2> QED
      BY <1>1, <2>1, PiecesKept, Zenon
<1>5. buffer # <<>> => buffer'[1] = Piece(r)'
  <2>1. buffer' = buffer
      OBVIOUS
  <2>2. r <= w
      BY <1>1, <1>2, <1>3
  <2> QED
      BY <1>2, <1>3, <1>4, <2>1, <2>2
<1>6. Len(wire') = Len(wire) + 1 /\ r + Len(wire') = w + 1
    BY <1>1, <1>2, <1>3
<1>7. ASSUME NEW j \in 1..Len(wire') PROVE wire'[j] = Piece(r + j)'
  <2>1. CASE j <= Len(wire)
    <3>1. wire'[j] = wire[j] /\ wire[j] = Piece(r + j)
        BY <1>1, <1>3, <2>1
    <3>2. r + j \in Nat /\ r + j # 0 /\ r + j <= w
        BY <1>1, <1>2, <1>3, <2>1
    <3> QED
        BY <1>4, <3>1, <3>2
  <2>2. CASE j = Len(wire) + 1
    <3>1. wire'[j] = p /\ r + j = w + 1
        BY <1>1, <1>2, <1>3, <2>2
    <3> QED
        BY <3>1
  <2> QED
      BY <1>1, <1>6, <2>1, <2>2
<1> QED
    BY <1>2, <1>5, <1>6, <1>7 DEF PiecesAt

LEMMA BeginLineStep ==
    ASSUME IInv, BeginLine
    PROVE  IInv'
<1>1. PICK line \in NextLines : half' = line /\ wire' = Append(wire, [line |-> line, tail |-> FALSE])
    BY DEF BeginLine
<1>2. /\ ~ closed /\ half = NoLine
      /\ UNCHANGED <<adapter, lines, closed, broken, reading, at, buffer, todo, outs, tokens, out, slot, logged>>
    BY DEF BeginLine, relayVars
<1>3. Types /\ Phases
    BY DEF IInv
<1>4. PICK d \in 0..Len(lines) : Position(d)
    BY DEF IInv
<1>5. line \in Line /\ line # NoLine
  <2>1. line \in Line
      BY <1>1, NextLinesAreLines
  <2>2. \A x \in Line : x # NoLine
      BY DEF Line, NoLine, Plain
  <2> QED
      BY <2>1, <2>2
<1>6. [line |-> line, tail |-> FALSE] \in PieceType
    BY <1>5 DEF PieceType
<1>7. Types'
  <2>1. wire' \in Seq(PieceType)
      BY <1>1, <1>3, <1>6 DEF Types
  <2>2. TypeOK'
      BY <1>1, <1>2, <1>3, <1>5 DEF Types, TypeOK
  <2> QED
      BY <1>2, <1>3, <2>1, <2>2 DEF Types
<1>8. Phases'
  <2>1. Throws(Head(todo))' = Throws(Head(todo))
      BY <1>2, Zenon DEF Throws
  <2> QED
      BY <1>2, <1>3, <2>1 DEF Phases
<1>9. d \in Nat /\ d <= Len(lines) /\ lines \in Seq(Line) /\ lines' \in Seq(Line) /\ lines' = lines
    BY <1>2, <1>3 DEF Types, TypeOK
<1>10. LinesAt(d)'
    BY <1>2, <1>4 DEF Position, LinesAt
<1>11. PiecesAt(d)'
  <2>1. PICK n \in Nat : n = Len(lines)
      BY <1>9
  <2>2. Written = 2 * n /\ Written' = 2 * n + 1
      BY <1>1, <1>2, <1>5, <2>1 DEF Written
  <2>3. Piece(2 * n + 1)' = [line |-> line, tail |-> FALSE]
    <3>1. Piece(2 * n + 1)' = [line |-> WrittenLine(n + 1)', tail |-> FALSE]
      <4>1. ((2 * n + 1) + 1) \div 2 = n + 1 /\ (2 * n + 1) % 2 = 1 /\ (1 = 0) = FALSE
          OBVIOUS
      <4> QED
          BY <4>1, Zenon DEF Piece
    <3>2. WrittenLine(n + 1)' = line
        BY <1>1, <1>9, <2>1 DEF WrittenLine
    <3> QED
        BY <3>1, <3>2
  <2>4. \A i \in Nat : i # 0 /\ 2 * i <= 2 * n + 1 => WrittenLine(i)' = WrittenLine(i)
      BY <1>9, <2>1 DEF WrittenLine
  <2>5. PiecesAt(d) /\ UNCHANGED <<buffer, todo>> /\ 2 * n \in Nat
      BY <1>2, <1>4 DEF Position
  <2> QED
      BY <1>1, <1>3, <1>6, <1>7, <1>9, <2>2, <2>3, <2>4, <2>5, OnePieceMore, Zenon
<1>12. MessagesAt(d)' /\ CountsAt(d)'
    BY <1>2, <1>4, <1>9, TranslatedKept DEF Position
<1> QED
    BY <1>4, <1>7, <1>8, <1>9, <1>10, <1>11, <1>12 DEF IInv, Position

LEMMA EndLineStep ==
    ASSUME IInv, EndLine
    PROVE  IInv'
<1>1. /\ ~ closed /\ half # NoLine /\ half' = NoLine
      /\ lines' = Append(lines, half) /\ wire' = Append(wire, [line |-> half, tail |-> TRUE])
      /\ UNCHANGED <<adapter, closed, broken, reading, at, buffer, todo, outs, tokens, out, slot, logged>>
    BY DEF EndLine, relayVars
<1>2. Types /\ Phases
    BY DEF IInv
<1>3. PICK d \in 0..Len(lines) : Position(d)
    BY DEF IInv
<1>4. half \in Line /\ lines \in Seq(Line)
    BY <1>1, <1>2 DEF Types, TypeOK
<1>5. [line |-> half, tail |-> TRUE] \in PieceType
    BY <1>4 DEF PieceType
<1>6. Types'
  <2>1. wire' \in Seq(PieceType)
      BY <1>1, <1>2, <1>5 DEF Types
  <2>2. TypeOK'
      BY <1>1, <1>2, <1>4 DEF Types, TypeOK
  <2> QED
      BY <1>1, <1>2, <2>1, <2>2 DEF Types
<1>7. Phases'
  <2>1. Throws(Head(todo))' = Throws(Head(todo))
      BY <1>1, Zenon DEF Throws
  <2> QED
      BY <1>1, <1>2, <2>1 DEF Phases
<1>8. PICK n \in Nat : n = Len(lines)
    BY <1>4
<1>9. /\ lines' \in Seq(Line) /\ Len(lines') = n + 1 /\ lines'[n + 1] = half
      /\ \A i \in 1..n : lines'[i] = lines[i]
      /\ d \in Nat /\ d <= n /\ d \in 0..Len(lines')
    BY <1>1, <1>4, <1>8
<1>10. LinesAt(d)'
  <2>1. d + Len(todo) <= n /\ \A i \in 1..Len(todo) : todo[i] = lines[d + i]
      BY <1>3, <1>8 DEF Position, LinesAt
  <2>2. todo' = todo /\ Len(todo) \in Nat
      BY <1>1, <1>2 DEF Types, TypeOK
  <2>3. \A i \in 1..Len(todo) : d + i \in 1..n
      BY <1>9, <2>1, <2>2
  <2> QED
      BY <1>9, <2>1, <2>2, <2>3 DEF LinesAt
<1>11. PiecesAt(d)'
  <2>1. Written = 2 * n + 1 /\ Written' = (2 * n + 1) + 1
      BY <1>1, <1>8, <1>9 DEF Written
  <2>2. Piece((2 * n + 1) + 1)' = [line |-> half, tail |-> TRUE]
    <3>1. Piece((2 * n + 1) + 1)' = [line |-> WrittenLine(n + 1)', tail |-> TRUE]
      <4>1. (((2 * n + 1) + 1) + 1) \div 2 = n + 1 /\ ((2 * n + 1) + 1) % 2 = 0 /\ (0 = 0) = TRUE
          OBVIOUS
      <4> QED
          BY <4>1, Zenon DEF Piece
    <3>2. WrittenLine(n + 1)' = half
        BY <1>9 DEF WrittenLine
    <3> QED
        BY <3>1, <3>2
  <2>3. ASSUME NEW i \in Nat, i # 0 /\ 2 * i <= (2 * n + 1) + 1 PROVE WrittenLine(i)' = WrittenLine(i)
    <3>1. CASE i <= n
        BY <1>8, <1>9, <2>3, <3>1 DEF WrittenLine
    <3>2. CASE i = n + 1
        BY <1>8, <1>9, <3>2 DEF WrittenLine
    <3> QED
        BY <2>3, <3>1, <3>2
  <2>4. PiecesAt(d) /\ UNCHANGED <<buffer, todo>> /\ 2 * n + 1 \in Nat
      BY <1>1, <1>3 DEF Position
  <2> QED
      BY <1>1, <1>2, <1>5, <1>6, <1>9, <2>1, <2>2, <2>3, <2>4, OnePieceMore, Zenon
<1>12. MessagesAt(d)' /\ CountsAt(d)'
  <2>1. \A i \in 1..d : lines'[i] = lines[i]
      BY <1>9
  <2> QED
      BY <1>1, <1>3, <1>4, <1>8, <1>9, <2>1, TranslatedKept DEF Position
<1> QED
    BY <1>6, <1>7, <1>9, <1>10, <1>11, <1>12 DEF IInv, Position

LEMMA PiecesUnread ==
    ASSUME NEW d \in Nat, NEW e \in Nat, PiecesAt(d), ReadPieces(e)' = ReadPieces(d),
           UNCHANGED <<lines, half, wire, buffer>>
    PROVE  PiecesAt(e)'
<1>1. \A j : Piece(j)' = Piece(j)
    BY Zenon DEF Piece, WrittenLine
<1>2. Written' = Written /\ wire' = wire /\ buffer' = buffer
    BY Zenon DEF Written
<1> QED
    BY <1>1, <1>2, Zenon DEF PiecesAt

LEMMA PositionKept ==
    ASSUME Types, NEW d \in 0..Len(lines), Position(d),
           UNCHANGED <<adapter, lines, half, wire, buffer, todo, outs, tokens, out>>
    PROVE  d \in 0..Len(lines') /\ Position(d)'
<1>1. d \in Nat /\ d <= Len(lines) /\ lines \in Seq(Line) /\ lines' \in Seq(Line) /\ lines' = lines
    BY DEF Types, TypeOK
<1>2. LinesAt(d)'
    BY DEF Position, LinesAt
<1>3. PiecesAt(d)'
  <2>1. ReadPieces(d)' = ReadPieces(d) /\ PiecesAt(d)
      BY Zenon DEF ReadPieces, Position
  <2> QED
      BY <1>1, <2>1, PiecesUnread
<1>4. MessagesAt(d)' /\ CountsAt(d)'
  <2>1. \A i \in 1..d : lines'[i] = lines[i]
      BY <1>1
  <2> QED
      BY <1>1, <2>1, TranslatedKept DEF Position
<1> QED
    BY <1>1, <1>2, <1>3, <1>4 DEF Position

(* The steps that move nothing of the stream. *)
StandStill == UNCHANGED <<adapter, lines, half, wire, buffer, todo, outs, tokens, out>>

LEMMA StandStillStep ==
    ASSUME IInv, StandStill, Phases', closed' \in BOOLEAN, broken' \in BOOLEAN,
           reading' \in BOOLEAN, slot' \in BOOLEAN,
           at' \in {"read", "lines"} \cup FinallyBlock, logged' \in Seq([Counts -> Nat])
    PROVE  IInv'
<1>1. Types'
    BY DEF IInv, Types, TypeOK, StandStill
<1>2. PICK d \in 0..Len(lines) : Position(d)
    BY DEF IInv
<1>3. d \in 0..Len(lines') /\ Position(d)'
    BY <1>2, PositionKept DEF IInv, StandStill
<1> QED
    BY <1>1, <1>3 DEF IInv

LEMMA NetworkSteps ==
    ASSUME IInv, Close \/ Break \/ Stall \/ Resume \/ UNCHANGED vars
    PROVE  IInv'
<1>1. /\ closed \in BOOLEAN /\ broken \in BOOLEAN /\ reading \in BOOLEAN /\ slot \in BOOLEAN
      /\ at \in {"read", "lines"} \cup FinallyBlock
      /\ logged \in Seq([Counts -> Nat]) /\ Phases
    BY DEF IInv, Types, TypeOK
<1>2. UNCHANGED <<adapter, lines, half, wire, relayVars>>
    BY DEF Close, Break, Stall, Resume, vars, upstreamVars
<1>3. /\ closed' \in BOOLEAN /\ broken' \in BOOLEAN /\ reading' \in BOOLEAN
      /\ closed' = closed \/ closed' = TRUE
      /\ broken' = broken \/ at \in {"read", "lines"}
    BY <1>1 DEF Close, Break, Stall, Resume, vars, upstreamVars
<1>4. UNCHANGED <<at, buffer, todo, outs, tokens, out, slot, logged>>
    BY <1>2 DEF relayVars
<1>5. Phases'
  <2>1. Throws(Head(todo))' = Throws(Head(todo))
      BY <1>2, <1>4, Zenon DEF Throws
  <2>2. at \in FinallyBlock => broken' = broken
      BY <1>3 DEF FinallyBlock
  <2> QED
      BY <1>1, <1>2, <1>3, <1>4, <2>1, <2>2 DEF Phases
<1>6. StandStill
    BY <1>2, <1>4 DEF StandStill
<1> QED
    BY <1>1, <1>3, <1>4, <1>5, <1>6, StandStillStep

LEMMA RelaySteps ==
    ASSUME IInv, ReadMore \/ ReadDone \/ RelayFails \/ GiveSlotBack \/ LogUsage \/ RedisRefuses
    PROVE  IInv'
<1>1. /\ closed \in BOOLEAN /\ broken \in BOOLEAN /\ reading \in BOOLEAN /\ slot \in BOOLEAN
      /\ logged \in Seq([Counts -> Nat]) /\ tokens \in [Counts -> Nat] /\ Phases
    BY DEF IInv, Types, TypeOK
<1>2. UNCHANGED <<adapter, upstreamVars, broken, reading, buffer, todo, outs, tokens, out>>
    BY DEF ReadMore, ReadDone, RelayFails, GiveSlotBack, LogUsage, RedisRefuses, Goto
<1>3. UNCHANGED <<lines, half, wire, closed>> /\ StandStill
    BY <1>2 DEF upstreamVars, StandStill
<1>4. Throws(Head(todo))' = Throws(Head(todo))
    BY <1>2, Zenon DEF Throws
<1> USE DEF Goto, Phases, FinallyBlock
<1>5. CASE ReadMore
    BY <1>1, <1>2, <1>3, <1>4, <1>5, StandStillStep DEF ReadMore
<1>6. CASE ReadDone
    BY <1>1, <1>2, <1>3, <1>4, <1>6, StandStillStep DEF ReadDone
<1>7. CASE RelayFails
    BY <1>1, <1>2, <1>3, <1>4, <1>7, StandStillStep DEF RelayFails, AfterFailure
<1>8. CASE GiveSlotBack
  <2>1. slot' = FALSE /\ at' = "given" /\ logged' = logged /\ at = "settle"
      BY <1>8 DEF GiveSlotBack
  <2>2. Phases'
      BY <1>1, <1>2, <1>3, <1>4, <2>1
  <2> QED
      BY <1>1, <1>2, <1>3, <2>1, <2>2, StandStillStep
<1>9. CASE LogUsage
  <2>1. logged' = <<tokens>> /\ at' = "settled" /\ slot' = slot
      BY <1>1, <1>9 DEF LogUsage
  <2>2. <<tokens>> \in Seq([Counts -> Nat])
      BY <1>1
  <2>3. at = "given"
      BY <1>9 DEF LogUsage
  <2> QED
      BY <1>1, <1>2, <1>3, <1>4, <2>1, <2>2, <2>3, StandStillStep
<1>10. CASE RedisRefuses
    BY <1>1, <1>2, <1>3, <1>4, <1>10, StandStillStep DEF RedisRefuses
<1> QED
    BY <1>5, <1>6, <1>7, <1>8, <1>9, <1>10

LEMMA WriteStep ==
    ASSUME IInv, WriteSSE
    PROVE  IInv'
<1>1. /\ at = "lines" /\ outs # <<>> /\ out' = Append(out, Head(outs)) /\ outs' = Tail(outs)
      /\ UNCHANGED <<adapter, lines, half, wire, closed, broken, reading, at, buffer, todo, tokens, slot, logged>>
    BY DEF WriteSSE, upstreamVars
<1>2. Types /\ Phases
    BY DEF IInv
<1>3. PICK d \in 0..Len(lines) : Position(d)
    BY DEF IInv
<1>4. outs \in Seq(Message) /\ out \in Seq(Message) /\ lines \in Seq(Line)
    BY <1>2 DEF Types, TypeOK
<1>5. /\ out' \in Seq(Message) /\ outs' \in Seq(Message)
      /\ out' \o outs' = out \o outs
    BY <1>1, <1>4
<1>6. Types'
    BY <1>1, <1>2, <1>5 DEF Types, TypeOK
<1>7. Phases'
    BY <1>1, <1>2 DEF Phases, FinallyBlock
<1>8. LinesAt(d)'
    BY <1>1, <1>3 DEF Position, LinesAt
<1>9. PiecesAt(d)'
  <2>1. ReadPieces(d)' = ReadPieces(d) /\ PiecesAt(d) /\ d \in Nat
      BY <1>1, <1>3, <1>4 DEF ReadPieces, Position
  <2> QED
      BY <1>1, <2>1, PiecesUnread
<1>10. MessagesAt(d)'
  <2>1. Sent(d)' = Sent(d)
      BY <1>1, Zenon DEF Sent, Translation, Outputs, OpenAIOutputs, AnthropicOutputs
  <2> QED
      BY <1>3, <1>5, <2>1, Zenon DEF Position, MessagesAt
<1>11. CountsAt(d)'
    BY <1>1, <1>3, Zenon DEF Position, CountsAt, LastReport, Reports
<1>12. d \in 0..Len(lines')
    BY <1>1
<1> QED
    BY <1>6, <1>7, <1>8, <1>9, <1>10, <1>11, <1>12 DEF IInv, Position

(* The count of a line that reports replaces the last one; others change nothing. *)
LEMMA CountsMove ==
    ASSUME Types, NEW d \in Nat, d < Len(lines), CountsAt(d), lines' = lines,
           tokens' = IF lines[d + 1].kind \in {"start", "usage"} THEN Counted(lines[d + 1]) ELSE tokens
    PROVE  CountsAt(d + 1)'
<1>1. \A i, k : Reports(i, k)' <=> Reports(i, k)
    BY Zenon DEF Reports
<1>2. \A i \in 1..(d + 1) : i \in 1..d \/ i = d + 1
    OBVIOUS
<1>3. \A i \in 1..d : i \in 1..(d + 1) /\ ~ (i > d + 1) /\ d + 1 > i
    OBVIOUS
<1>4. d + 1 \in 1..(d + 1) /\ ~ (d + 1 > d + 1)
    OBVIOUS
<1>5. ASSUME NEW k \in Counts PROVE LastReport(d + 1, k, tokens[k])'
  <2>1. CASE Reports(d + 1, k)
    <3>1. tokens' = [c \in Counts |-> IF lines[d + 1][c] = 0 THEN tokens[c] ELSE lines[d + 1][c]]
        BY <2>1, Zenon DEF Reports, Counted
    <3>2. tokens'[k] = lines'[d + 1][k]
        BY <2>1, <3>1, Zenon DEF Reports
    <3>3. \A j \in 1..(d + 1) : j > d + 1 => ~ Reports(j, k)'
        BY <1>2, <1>3, <1>4, Zenon
    <3> QED
        BY <1>1, <1>4, <2>1, <3>2, <3>3, Zenon DEF LastReport
  <2>2. CASE ~ Reports(d + 1, k)
    <3>1. tokens'[k] = tokens[k]
      <4>1. CASE lines[d + 1].kind \in {"start", "usage"}
          BY <2>2, <4>1, Zenon DEF Reports, Counted
      <4>2. CASE ~ lines[d + 1].kind \in {"start", "usage"}
          BY <4>2, Zenon
      <4> QED
          BY <4>1, <4>2
    <3>2. LastReport(d, k, tokens[k])
        BY Zenon DEF CountsAt
    <3>3. CASE tokens[k] = 0 /\ \A i \in 1..d : ~ Reports(i, k)
      <4>1. tokens'[k] = 0 /\ \A i \in 1..(d + 1) : ~ Reports(i, k)'
          BY <1>1, <1>2, <2>2, <3>1, <3>3, Zenon
      <4> QED
          BY <4>1, Zenon DEF LastReport
    <3>4. CASE \E i \in 1..d : /\ Reports(i, k) /\ tokens[k] = lines[i][k]
                               /\ \A j \in 1..d : j > i => ~ Reports(j, k)
      <4>1. PICK i \in 1..d : /\ Reports(i, k) /\ tokens[k] = lines[i][k]
                              /\ \A j \in 1..d : j > i => ~ Reports(j, k)
          BY <3>4
      <4>2. i \in 1..(d + 1) /\ Reports(i, k)' /\ tokens'[k] = lines'[i][k]
          BY <1>1, <1>3, <3>1, <4>1, Zenon
      <4>3. \A j \in 1..(d + 1) : j > i => ~ Reports(j, k)'
          BY <1>1, <1>2, <2>2, <4>1, Zenon
      <4> QED
          BY <4>2, <4>3, Zenon DEF LastReport
    <3> QED
        BY <3>2, <3>3, <3>4, Zenon DEF LastReport
  <2> QED
      BY <2>1, <2>2
<1> QED
    BY <1>5, Zenon DEF CountsAt

LEMMA TranslateStep ==
    ASSUME IInv, Translate
    PROVE  IInv'
<1>1. /\ at = "lines" /\ outs = <<>> /\ todo # <<>> /\ todo' = Tail(todo)
      /\ outs' = Outputs(Head(todo))
      /\ tokens' = IF Head(todo).kind \in {"start", "usage"} THEN Counted(Head(todo)) ELSE tokens
      /\ UNCHANGED <<adapter, lines, half, wire, closed, broken, reading, at, buffer, out, slot, logged>>
    BY DEF Translate, upstreamVars
<1>2. Types /\ Phases
    BY DEF IInv
<1>3. PICK d \in 0..Len(lines) : Position(d)
    BY DEF IInv
<1>4. /\ todo \in Seq(Line) /\ lines \in Seq(Line) /\ out \in Seq(Message) /\ adapter \in Adapters
      /\ buffer \in Seq(PieceType) /\ tokens \in [Counts -> Nat]
    BY <1>2 DEF Types, TypeOK
<1>5. /\ Len(todo) >= 1 /\ Len(todo') = Len(todo) - 1 /\ Head(todo) = todo[1]
      /\ \A i \in 1..Len(todo') : i + 1 \in 1..Len(todo) /\ todo'[i] = todo[i + 1]
      /\ todo' \in Seq(Line)
    BY <1>1, <1>4
<1>6. d \in Nat /\ d + Len(todo) <= Len(lines) /\ \A i \in 1..Len(todo) : todo[i] = lines[d + i]
    BY <1>3 DEF Position, LinesAt
<1>7. d < Len(lines) /\ Head(todo) = lines[d + 1] /\ lines[d + 1] \in Line
    BY <1>4, <1>5, <1>6
<1>8. Types'
  <2>1. outs' \in Seq(Message)
      BY <1>1, <1>4, <1>7, OutputsAreMessages
  <2>2. tokens' \in [Counts -> Nat]
    <3>1. Counted(lines[d + 1]) \in [Counts -> Nat]
      <4>1. \A k \in Counts : lines[d + 1][k] \in Nat /\ tokens[k] \in Nat
          BY <1>4, <1>7, LineCounts
      <4>2. \A k \in Counts : (IF lines[d + 1][k] = 0 THEN tokens[k] ELSE lines[d + 1][k]) \in Nat
          BY <4>1, Zenon
      <4> QED
          BY <4>2, Zenon DEF Counted
    <3> QED
        BY <1>1, <1>4, <1>7, <3>1, Zenon
  <2> QED
      BY <1>1, <1>2, <1>5, <2>1, <2>2 DEF Types, TypeOK
<1>9. Phases'
    BY <1>1, <1>2 DEF Phases, FinallyBlock
<1>10. LinesAt(d + 1)'
  <2>1. (d + 1) + Len(todo') <= Len(lines')
      BY <1>1, <1>5, <1>6
  <2>2. ASSUME NEW i \in 1..Len(todo') PROVE todo'[i] = lines'[(d + 1) + i]
    <3>1. i + 1 \in 1..Len(todo) /\ todo'[i] = todo[i + 1] /\ d + (i + 1) = (d + 1) + i
        BY <1>5, <1>6
    <3> QED
        BY <1>1, <1>6, <3>1
  <2> QED
      BY <2>1, <2>2 DEF LinesAt
<1>11. PiecesAt(d + 1)'
  <2>1. ReadPieces(d + 1)' = ReadPieces(d)
      BY <1>1, <1>4, <1>5, <1>6 DEF ReadPieces
  <2>2. PiecesAt(d) /\ d + 1 \in Nat
      BY <1>3, <1>6 DEF Position
  <2> QED
      BY <1>1, <1>6, <2>1, <2>2, PiecesUnread
<1>12. MessagesAt(d + 1)'
  <2>1. Sent(d + 1)' = Sent(d + 1)
      BY <1>1, Zenon DEF Sent, Translation, Outputs, OpenAIOutputs, AnthropicOutputs
  <2>2. Sent(d + 1) = Sent(d) \o Outputs(lines[d + 1])
      BY <1>4, <1>6, <1>7, SentOneMore
  <2>3. Sent(d) = out
    <3>1. Sent(d) = out \o outs
        BY <1>3, Zenon DEF Position, MessagesAt
    <3> QED
        BY <1>1, <1>4, <3>1
  <2>4. outs' = Outputs(lines[d + 1]) /\ out' = out
      BY <1>1, <1>7, Zenon
  <2> QED
      BY <2>1, <2>2, <2>3, <2>4, Zenon DEF MessagesAt
<1>13. CountsAt(d + 1)'
  <2>1. CountsAt(d) /\ lines' = lines
      BY <1>1, <1>3 DEF Position
  <2>2. tokens' = IF lines[d + 1].kind \in {"start", "usage"} THEN Counted(lines[d + 1]) ELSE tokens
      BY <1>1, <1>7, Zenon
  <2> QED
      BY <1>2, <1>6, <1>7, <2>1, <2>2, CountsMove
<1>14. d + 1 \in 0..Len(lines')
    BY <1>1, <1>4, <1>6, <1>7
<1>15. Position(d + 1)'
    BY <1>10, <1>11, <1>12, <1>13 DEF Position
<1> QED
    BY <1>8, <1>9, <1>14, <1>15 DEF IInv

LEMMA ReadStep ==
    ASSUME IInv, Read
    PROVE  IInv'
<1>1. PICK n \in 1..Len(wire) :
         /\ todo' = WholeLines(buffer \o SubSeq(wire, 1, n))
         /\ buffer' = Rest(buffer \o SubSeq(wire, 1, n))
         /\ wire' = SubSeq(wire, n + 1, Len(wire))
    BY DEF Read
<1>2. /\ at = "read" /\ ~ broken /\ at' = "lines"
      /\ UNCHANGED <<adapter, lines, half, closed, broken, reading, outs, tokens, out, slot, logged>>
    BY DEF Read
<1>3. Types /\ Phases
    BY DEF IInv
<1>4. PICK d \in 0..Len(lines) : Position(d)
    BY DEF IInv
<1>5. /\ wire \in Seq(PieceType) /\ buffer \in Seq(PieceType) /\ Len(buffer) \in {0, 1}
      /\ lines \in Seq(Line) /\ todo = <<>> /\ outs = <<>> /\ d \in Nat /\ d <= Len(lines)
  <2>1. wire \in Seq(PieceType) /\ buffer \in Seq(PieceType) /\ Len(buffer) <= 1 /\ lines \in Seq(Line)
      BY <1>3 DEF Types, TypeOK
  <2>2. todo = <<>> /\ outs = <<>>
      BY <1>2, <1>3 DEF Phases
  <2>3. Len(buffer) \in Nat
      BY <2>1
  <2>4. d \in Nat /\ d <= Len(lines)
      BY <2>1
  <2>5. Len(buffer) \in {0, 1}
    <3>1. PICK b \in Nat : b = Len(buffer)
        BY <2>3
    <3>2. b <= 1
        BY <2>1, <3>1
    <3>3. b = 0 \/ b = 1
        BY <3>2
    <3> QED
        BY <3>1, <3>3
  <2> QED
      BY <2>1, <2>2, <2>4, <2>5, Zenon
<1>6. PICK b \in Nat : b = Len(buffer) /\ (b = 0 \/ b = 1)
    BY <1>5
<1>7. ReadPieces(d) = 2 * d + b
  <2>1. Len(todo) = 0
      BY <1>5
  <2> QED
      BY <1>5, <1>6, <2>1 DEF ReadPieces
<1>8. /\ (2 * d + b) + Len(wire) = Written
      /\ b = 1 => buffer[1] = Piece(2 * d + b)
      /\ \A j \in 1..Len(wire) : wire[j] = Piece((2 * d + b) + j)
  <2>1. b = 1 => buffer # <<>>
    <3>1. Len(<<>>) = 0 /\ 0 # 1
        OBVIOUS
    <3> QED
        BY <1>6, <3>1, Zenon
  <2> QED
      BY <1>4, <1>7, <2>1, Zenon DEF Position, PiecesAt
<1>9. PICK pieces : pieces = buffer \o SubSeq(wire, 1, n)
    OBVIOUS
<1>10. /\ pieces \in Seq(PieceType) /\ Len(pieces) = b + n /\ pieces # <<>>
       /\ \A j \in 1..b : pieces[j] = buffer[j]
       /\ \A j \in 1..n : pieces[b + j] = wire[j]
  <2>1. PICK read \in Seq(PieceType) : /\ read = SubSeq(wire, 1, n) /\ Len(read) = n
                                       /\ \A j \in 1..n : read[j] = wire[j]
    <3>1. PICK read : read = SubSeq(wire, 1, n)
        OBVIOUS
    <3>2. wire \in Seq(PieceType)
        BY <1>5
    <3>3. read \in Seq(PieceType) /\ Len(read) = n /\ \A j \in 1..n : read[j] = wire[j]
        BY <3>1, <3>2
    <3> QED
        BY <3>1, <3>3
  <2>2. pieces = buffer \o read
      BY <1>9, <2>1, Zenon
  <2>3. /\ pieces \in Seq(PieceType) /\ Len(pieces) = b + n
        /\ \A j \in 1..b : pieces[j] = buffer[j]
        /\ \A j \in 1..n : pieces[b + j] = read[j]
      BY <1>5, <1>6, <2>1, <2>2
  <2>4. pieces # <<>>
    <3>1. Len(pieces) # 0 /\ Len(<<>>) = 0
        BY <1>6, <2>3
    <3> QED
        BY <3>1, Zenon
  <2> QED
      BY <2>1, <2>3, <2>4
<1>11. ASSUME NEW j \in 1..Len(pieces) PROVE pieces[j] = Piece(2 * d + j)
  <2>1. CASE j <= b
    <3>1. j = 1 /\ b = 1
        BY <1>6, <1>11, <2>1
    <3> QED
        BY <1>8, <1>10, <3>1
  <2>2. CASE j > b
    <3>1. PICK i \in 1..n : j = b + i
      <4>1. j - b \in 1..n /\ j = b + (j - b)
          BY <1>6, <1>10, <2>2
      <4> QED
          BY <4>1
    <3>2. pieces[j] = wire[i] /\ i \in 1..Len(wire)
        BY <1>5, <1>10, <3>1
    <3>3. wire[i] = Piece((2 * d + b) + i) /\ (2 * d + b) + i = 2 * d + j
        BY <1>5, <1>6, <1>8, <3>1, <3>2
    <3> QED
        BY <3>2, <3>3
  <2> QED
      BY <1>6, <1>10, <2>1, <2>2
<1>12. PICK q \in Nat :
          /\ todo' \in Seq(Line) /\ Len(todo') = q
          /\ \A i \in 1..q : todo'[i] = WrittenLine(d + i)
          /\ \/ Len(pieces) = 2 * q /\ buffer' = <<>>
             \/ Len(pieces) = 2 * q + 1 /\ buffer' = <<pieces[Len(pieces)]>>
    BY <1>1, <1>5, <1>9, <1>10, <1>11, Divided, Zenon
<1>13. Len(wire') = Len(wire) - n /\ wire' \in Seq(PieceType) /\ \A j \in 1..Len(wire') : wire'[j] = wire[n + j]
    BY <1>1, <1>5
<1>14. buffer' \in Seq(PieceType) /\ Len(buffer') <= 1 /\ ReadPieces(d)' = 2 * d + Len(pieces)
  <2>1. CASE Len(pieces) = 2 * q /\ buffer' = <<>>
      BY <1>5, <1>12, <2>1 DEF ReadPieces
  <2>2. CASE Len(pieces) = 2 * q + 1 /\ buffer' = <<pieces[Len(pieces)]>>
    <3>1. pieces[Len(pieces)] \in PieceType
        BY <1>10
    <3>2. buffer' \in Seq(PieceType) /\ Len(buffer') = 1
        BY <2>2, <3>1
    <3> QED
        BY <1>5, <1>12, <2>2, <3>2 DEF ReadPieces
  <2> QED
      BY <1>12, <2>1, <2>2
<1>15. Types'
    BY <1>2, <1>3, <1>12, <1>13, <1>14 DEF Types, TypeOK
<1>16. Phases'
    BY <1>2, <1>3 DEF Phases, FinallyBlock
<1>17. 2 * d + Len(pieces) <= Written /\ d + q <= Len(lines)
  <2>1. 2 * d + Len(pieces) <= Written
      BY <1>5, <1>6, <1>8, <1>10
  <2>2. Written <= 2 * Len(lines) + 1
      BY <1>5 DEF Written
  <2> QED
      BY <1>5, <1>12, <2>1, <2>2, WrittenType, <1>3
<1>18. LinesAt(d)'
  <2>1. ASSUME NEW i \in 1..Len(todo') PROVE todo'[i] = lines'[d + i]
    <3>1. d + i <= Len(lines) /\ i \in 1..q
        BY <1>5, <1>12, <1>17
    <3>2. todo'[i] = lines[d + i]
        BY <1>12, <3>1 DEF WrittenLine
    <3> QED
        BY <1>2, <3>2
  <2> QED
      BY <1>2, <1>12, <1>17, <2>1 DEF LinesAt
<1>19. PiecesAt(d)'
  <2>1. \A j : Piece(j)' = Piece(j)
      BY <1>2, Zenon DEF Piece, WrittenLine
  <2>2. Written' = Written
      BY <1>2, Zenon DEF Written
  <2>3. (2 * d + Len(pieces)) + Len(wire') = Written
      BY <1>5, <1>6, <1>8, <1>10, <1>13
  <2>4. buffer' # <<>> => buffer'[1] = Piece(2 * d + Len(pieces))
    <3>1. pieces[Len(pieces)] = Piece(2 * d + Len(pieces))
        BY <1>10, <1>11
    <3> QED
        BY <1>12, <3>1
  <2>5. ASSUME NEW j \in 1..Len(wire') PROVE wire'[j] = Piece((2 * d + Len(pieces)) + j)
    <3>1. n + j \in 1..Len(wire) /\ (2 * d + b) + (n + j) = (2 * d + Len(pieces)) + j
        BY <1>5, <1>6, <1>10, <1>13
    <3> QED
        BY <1>8, <1>13, <3>1
  <2> QED
      BY <1>14, <2>1, <2>2, <2>3, <2>4, <2>5, Zenon DEF PiecesAt
<1>20. MessagesAt(d)' /\ CountsAt(d)'
  <2>1. \A i \in 1..d : lines'[i] = lines[i]
      BY <1>2
  <2> QED
      BY <1>2, <1>4, <1>5, <2>1, TranslatedKept DEF Position
<1> QED
    BY <1>2, <1>4, <1>15, <1>16, <1>18, <1>19, <1>20 DEF IInv, Position
-----------------------------------------------------------------------------
(* Theorems. *)

(* The invariant: lines keep their order and their tokens through the buffer, the lines *)
(* of a chunk and the messages of a line, wherever a chunk ends.                        *)
THEOREM Invariance == Spec => []IInv
<1>1. IInv /\ [Next]_vars => IInv'
    BY BeginLineStep, EndLineStep, NetworkSteps, WriteStep, TranslateStep, ReadStep, RelaySteps DEF Next, RelayStep
<1> QED
    BY <1>1, InitIInv, PTL DEF Spec

(* Type correctness of the relay; the buffer holds at most the beginning of one line. *)
THEOREM TypeCorrect == Spec => []TypeOK
<1>1. IInv => TypeOK
    BY DEF IInv, Types
<1> QED
    BY <1>1, Invariance, PTL

(* The last report, which LastReport says by a line, is the one Reported finds. *)
LEMMA ReportedIsLast ==
    ASSUME lines \in Seq(Line), NEW k \in Counts, NEW v, LastReport(Len(lines), k, v)
    PROVE  Reported(k) = v
<1> DEFINE reports == {i \in 1..Len(lines) : lines[i].kind \in {"start", "usage"} /\ lines[i][k] # 0}
<1>1. \A i \in 1..Len(lines) : i \in reports <=> Reports(i, k)
    BY Zenon DEF Reports
<1>2. Reported(k) = IF reports = {} THEN 0 ELSE lines[Max(reports)][k]
    BY Zenon DEF Reported
<1>3. reports \subseteq 1..Len(lines)
    OBVIOUS
<1> HIDE DEF reports
<1>4. CASE v = 0 /\ \A i \in 1..Len(lines) : ~ Reports(i, k)
  <2>1. reports = {}
      BY <1>1, <1>3, <1>4, Zenon
  <2> QED
      BY <1>2, <1>4, <2>1, Zenon
<1>5. CASE \E i \in 1..Len(lines) : /\ Reports(i, k) /\ v = lines[i][k]
                                    /\ \A j \in 1..Len(lines) : j > i => ~ Reports(j, k)
  <2>1. PICK i \in 1..Len(lines) : /\ Reports(i, k) /\ v = lines[i][k]
                                   /\ \A j \in 1..Len(lines) : j > i => ~ Reports(j, k)
      BY <1>5
  <2>2. i \in reports /\ \A j \in reports : ~ (j > i)
      BY <1>1, <1>3, <2>1, Zenon
  <2>3. \A j \in reports : i >= j
      BY <1>3, <2>2
  <2>4. \A x \in reports : (\A j \in reports : x >= j) => x = i
      BY <1>3, <2>2, <2>3
  <2>5. Max(reports) = i
      BY <2>2, <2>3, <2>4, Zenon DEF Max
  <2>6. reports # {}
      BY <2>2
  <2> QED
      BY <1>2, <2>1, <2>5, <2>6, Zenon
<1> QED
    BY <1>4, <1>5, Zenon DEF LastReport

(* A stream that ended with a whole line is with the client in full when it is logged, *)
(* with the last tokens its lines reported.                                            *)
THEOREM StreamsAccounted == Spec => []IntactStreamsAreAccounted
<1>1. ASSUME IInv, at = "settled", Intact PROVE out = Messages /\ logged = <<[k \in Counts |-> Reported(k)]>>
  <2>1. Types /\ Phases
      BY <1>1 DEF IInv
  <2>2. PICK d \in 0..Len(lines) : Position(d)
      BY <1>1 DEF IInv
  <2>3. todo = <<>>
    <3>1. SUFFICES ASSUME todo # <<>> PROVE FALSE
        OBVIOUS
    <3>2. Throws(Head(todo))
        BY <1>1, <2>1, <3>1 DEF Phases, FinallyBlock
    <3>3. todo \in Seq(Line) /\ lines \in Seq(Line)
        BY <2>1 DEF Types, TypeOK
    <3>4. /\ 1 \in 1..Len(todo) /\ Head(todo) = todo[1]
          /\ d + Len(todo) <= Len(lines) /\ todo[1] = lines[d + 1]
        BY <2>2, <3>1, <3>3 DEF Position, LinesAt
    <3>5. d + 1 \in 1..Len(lines) /\ lines[d + 1].kind = "odd"
        BY <3>2, <3>3, <3>4 DEF Throws
    <3> QED
        BY <1>1, <3>5 DEF Intact, Wrote
  <2>4. /\ lines \in Seq(Line) /\ outs = <<>> /\ wire = <<>> /\ half = NoLine
        /\ logged = <<tokens>> /\ tokens \in [Counts -> Nat] /\ Len(buffer) \in {0, 1}
        /\ out \in Seq(Message)
      BY <1>1, <2>1, <2>3 DEF Types, TypeOK, Phases, Intact, FinallyBlock
  <2>5. d = Len(lines)
    <3>1. ReadPieces(d) + Len(wire) = Written
        BY <2>2 DEF Position, PiecesAt
    <3>2. Written = 2 * Len(lines) /\ Len(wire) = 0 /\ Len(todo) = 0
        BY <2>3, <2>4 DEF Written
    <3>3. ReadPieces(d) = 2 * d + Len(buffer)
        BY <2>3, <2>4, <3>2 DEF ReadPieces
    <3>4. PICK n \in Nat : n = Len(lines)
        BY <2>3, <2>4
    <3>5. d \in Nat /\ 2 * d + Len(buffer) + 0 = 2 * n
        BY <3>1, <3>2, <3>3, <3>4
    <3>6. CASE Len(buffer) = 0
      <4>1. 2 * d + 0 + 0 = 2 * n
          BY <3>5, <3>6, Zenon
      <4> QED
          BY <3>4, <3>5, <4>1
    <3>7. CASE Len(buffer) = 1
      <4>1. 2 * d + 1 + 0 = 2 * n
          BY <3>5, <3>7, Zenon
      <4> QED
          BY <3>4, <3>5, <4>1
    <3> QED
        BY <2>3, <2>4, <3>6, <3>7, Zenon
  <2>6. out = Messages
    <3>1. out \o outs = Sent(Len(lines))
        BY <2>2, <2>5, Zenon DEF Position, MessagesAt
    <3>2. out \o outs = out
        BY <2>3, <2>4
    <3> QED
        BY <3>1, <3>2, Zenon DEF Messages, Sent, Translation
  <2>7. \A k \in Counts : Reported(k) = tokens[k]
    <3>1. CountsAt(Len(lines))
        BY <2>2, <2>5, Zenon DEF Position
    <3> QED
        BY <2>3, <2>4, <3>1, ReportedIsLast, Zenon DEF CountsAt
  <2>8. tokens = [k \in Counts |-> Reported(k)]
    <3>1. [k \in Counts |-> Reported(k)] = [k \in Counts |-> tokens[k]]
        BY <2>7, Zenon
    <3> QED
        BY <2>3, <2>4, <3>1
  <2> QED
      BY <2>3, <2>4, <2>6, <2>8
<1>2. IInv => IntactStreamsAreAccounted
    BY <1>1, Zenon DEF IntactStreamsAreAccounted
<1> QED
    BY <1>2, Invariance, PTL
-----------------------------------------------------------------------------
(* The relay implements EventStream. *)

LEMMA MessagesAreSent == Messages = Sent(Len(lines))
BY Zenon DEF Messages, Sent, Translation

LEMMA MessagesKept ==
    ASSUME UNCHANGED <<adapter, lines>>
    PROVE  Messages' = Messages
<1>1. \A line : Outputs(line)' = Outputs(line)
    BY Zenon DEF Outputs, OpenAIOutputs, AnthropicOutputs
<1> QED
    BY <1>1, Zenon DEF Messages

LEMMA InitRefines == Init => Channel!StreamInit
<1> SUFFICES ASSUME Init PROVE Channel!StreamInit
    OBVIOUS
<1>1. lines = <<>> /\ out = <<>> /\ at = "read"
    BY DEF Init
<1>2. Messages = <<>>
  <2>1. Len(lines) = 0
      BY <1>1
  <2> QED
      BY <2>1, MessagesAreSent, SentNone, Zenon
<1>3. Over = FALSE
    BY <1>1 DEF Over, FinallyBlock
<1> QED
    BY <1>1, <1>2, <1>3, Zenon DEF Channel!StreamInit

LEMMA IsAppend ==
    ASSUME NEW S, NEW t \in Seq(S), NEW x \in S, NEW n \in Nat, Len(t) = n,
           NEW u \in [1..(n + 1) -> S], \A i \in 1..n : u[i] = t[i], u[n + 1] = x
    PROVE  Append(t, x) = u
<1>1. u \in Seq(S) /\ Len(u) = n + 1
    OBVIOUS
<1>2. \A i \in 1..(n + 1) : Append(t, x)[i] = u[i]
    OBVIOUS
<1>3. Append(t, x) \in Seq(S) /\ Len(Append(t, x)) = n + 1
    OBVIOUS
<1> QED
    BY <1>1, <1>2, <1>3

(* A line ended adds what it translates to, which may be nothing. *)
LEMMA EndLineRefines ==
    ASSUME IInv, EndLine
    PROVE  Channel!Emit \/ UNCHANGED Channel!streamVars
<1>1. half \in Line /\ lines \in Seq(Line) /\ adapter \in Adapters
    BY DEF IInv, Types, TypeOK, EndLine
<1>2. lines' = Append(lines, half) /\ UNCHANGED <<adapter, out, at>>
    BY DEF EndLine, relayVars
<1>3. PICK n \in Nat : n = Len(lines)
    BY <1>1
<1>4. PICK x \in Seq(Message) : x = Outputs(half)
    BY <1>1, OutputsAreMessages
<1>5. Messages' = Messages \o x /\ Messages \in Seq(Message)
  <2>1. Translation(n) \in Seq(Seq(Message)) /\ Len(Translation(n)) = n
      BY <1>1, <1>3, TranslationType
  <2>2. Messages = FlattenSeq(Translation(n))
      BY <1>3, MessagesAreSent, Zenon DEF Sent
  <2>3. Messages' = FlattenSeq(Append(Translation(n), x))
    <3>1. Len(lines') = n + 1
        BY <1>1, <1>2, <1>3
    <3>2. \A line : Outputs(line)' = Outputs(line)
        BY <1>2, Zenon DEF Outputs, OpenAIOutputs, AnthropicOutputs
    <3>3. Messages' = FlattenSeq([i \in 1..(n + 1) |-> Outputs(lines'[i])])
        BY <3>1, <3>2, Zenon DEF Messages
    <3>4. [i \in 1..(n + 1) |-> Outputs(lines'[i])] = Append(Translation(n), x)
      <4>1. \A i \in 1..n : Outputs(lines'[i]) = Outputs(lines[i])
        <5>1. \A i \in 1..n : lines'[i] = lines[i]
            BY <1>1, <1>2, <1>3
        <5> QED
            BY <5>1, Zenon
      <4>2. Outputs(lines'[n + 1]) = x
        <5>1. lines'[n + 1] = half
            BY <1>1, <1>2, <1>3
        <5> QED
            BY <1>4, <5>1, Zenon
      <4>3. \A i \in 1..n : Translation(n)[i] = Outputs(lines[i])
          BY Zenon DEF Translation
      <4>4. PICK t \in Seq(Seq(Message)) : t = Translation(n) /\ Len(t) = n
          BY <2>1
      <4>5. [i \in 1..(n + 1) |-> Outputs(lines'[i])] = Append(t, x)
        <5>1. PICK u : u = [i \in 1..(n + 1) |-> Outputs(lines'[i])]
            OBVIOUS
        <5>2. \A i \in 1..(n + 1) : u[i] = Outputs(lines'[i])
            BY <5>1, Zenon
        <5>3. (\A i \in 1..n : i \in 1..(n + 1)) /\ n + 1 \in 1..(n + 1)
            OBVIOUS
        <5>4. (\A i \in 1..n : u[i] = t[i]) /\ u[n + 1] = x
            BY <4>1, <4>2, <4>3, <4>4, <5>2, <5>3, Zenon
        <5>5. u \in [1..(n + 1) -> Seq(Message)]
          <6>1. \A i \in 1..n : t[i] \in Seq(Message)
              BY <4>4
          <6>2. \A i \in 1..(n + 1) : i \in 1..n \/ i = n + 1
              OBVIOUS
          <6>3. \A i \in 1..(n + 1) : u[i] \in Seq(Message)
              BY <5>4, <6>1, <6>2, Zenon
          <6>4. \A i \in 1..(n + 1) : Outputs(lines'[i]) \in Seq(Message)
              BY <5>2, <6>3, Zenon
          <6> QED
              BY <5>1, <6>4, Zenon
        <5>6. Append(t, x) = u
          <6>1. Len(t) = n /\ t \in Seq(Seq(Message)) /\ x \in Seq(Message)
              BY <4>4
          <6> QED
              BY <5>4, <5>5, <6>1, IsAppend
        <5> QED
            BY <5>1, <5>6, Zenon
      <4> QED
          BY <4>4, <4>5, Zenon
    <3> QED
        BY <3>3, <3>4, Zenon
  <2> QED
      BY <2>1, <2>2, <2>3, FlattenAppend, Zenon
<1>6. PICK m \in Seq(Message) : m = Messages
    BY <1>5
<1>7. Over' = Over /\ out' = out
    BY <1>2 DEF Over
<1>8. CASE x = <<>>
  <2>1. Messages' = Messages
      BY <1>5, <1>8
  <2> QED
      BY <1>7, <2>1 DEF Channel!streamVars
<1>9. CASE x # <<>>
  <2>1. PICK k \in Nat : k = Len(m) /\ Len(x) >= 1 /\ Len(m \o x) = k + Len(x)
      BY <1>9
  <2>2. SubSeq(m, 1, Len(m)) = SubSeq(m \o x, 1, Len(m))
      BY <2>1
  <2>3. m # m \o x
      BY <2>1
  <2>4. Len(m) <= Len(m \o x)
      BY <2>1
  <2>5. Channel!IsStrictPrefix(m, m \o x)
      BY <2>2, <2>3, <2>4, Zenon DEF Channel!IsStrictPrefix, Channel!IsPrefix
  <2>6. Channel!IsStrictPrefix(Messages, Messages')
      BY <1>5, <1>6, <2>5, Zenon
  <2> QED
      BY <1>7, <2>6, Zenon DEF Channel!Emit
<1> QED
    BY <1>8, <1>9

(* A message written is the next one of the stream. *)
LEMMA WriteRefines ==
    ASSUME IInv, WriteSSE
    PROVE  Channel!Deliver
<1>1. /\ at = "lines" /\ outs # <<>> /\ out' = Append(out, Head(outs))
      /\ UNCHANGED <<adapter, lines, at>>
    BY DEF WriteSSE, upstreamVars
<1>2. PICK d \in 0..Len(lines) : Position(d)
    BY DEF IInv
<1>3. lines \in Seq(Line) /\ adapter \in Adapters /\ outs \in Seq(Message) /\ out \in Seq(Message)
    BY DEF IInv, Types, TypeOK
<1>4. PICK n \in Nat : n = Len(lines) /\ d \in Nat /\ d <= n
    BY <1>3
<1>5. /\ Len(Sent(d)) <= Len(Sent(n))
      /\ \A i \in 1..Len(Sent(d)) : Sent(n)[i] = Sent(d)[i]
    BY <1>3, <1>4, SentPrefix
<1>6. Sent(d) = out \o outs /\ Sent(n) = Messages
    BY <1>2, <1>4, MessagesAreSent, Zenon DEF Position, MessagesAt
<1>7. Sent(n) \in Seq(Message)
    BY <1>3, <1>4, SentType
<1>8. /\ Len(out \o outs) = Len(out) + Len(outs) /\ Len(outs) >= 1
      /\ Len(out) + 1 \in 1..Len(out \o outs) /\ (out \o outs)[Len(out) + 1] = Head(outs)
    BY <1>1, <1>3
<1>9. Messages[Len(out) + 1] = Head(outs)
  <2>1. \A i \in 1..Len(out \o outs) : Messages[i] = (out \o outs)[i]
      BY <1>5, <1>6, Zenon
  <2> QED
      BY <1>8, <2>1, Zenon
<1>10. Len(out) < Len(Messages)
  <2>1. PICK m \in Seq(Message) : m = Messages
      BY <1>6, <1>7
  <2>2. Len(out \o outs) <= Len(m)
      BY <1>5, <1>6, <2>1, Zenon
  <2>3. Len(out) < Len(m)
      BY <1>3, <1>8, <2>2
  <2> QED
      BY <2>1, <2>3, Zenon
<1>11. out' = Append(out, Messages[Len(out) + 1])
    BY <1>1, <1>9, Zenon
<1>12. Messages' = Messages
    BY <1>1, MessagesKept
<1>13. ~ Over /\ Over' = Over
    BY <1>1 DEF Over, FinallyBlock
<1> QED
    BY <1>10, <1>11, <1>12, <1>13, Zenon DEF Channel!Deliver

(* Every step of the relay is a step of the stream or a stutter. *)
LEMMA NextRefines == IInv /\ [Next]_vars => [Channel!StreamNext]_(Channel!streamVars)
<1> SUFFICES ASSUME IInv, [Next]_vars PROVE Channel!StreamNext \/ UNCHANGED Channel!streamVars
    OBVIOUS
<1>1. ASSUME UNCHANGED <<adapter, lines, out>>, Over' = Over
      PROVE  UNCHANGED Channel!streamVars
  <2>1. Messages' = Messages
      BY <1>1, MessagesKept
  <2> QED
      BY <1>1, <2>1 DEF Channel!streamVars
<1>2. UNCHANGED <<adapter, lines, out, at>> => UNCHANGED Channel!streamVars
    BY <1>1 DEF Over
<1> USE DEF upstreamVars, relayVars, vars
<1>3. CASE BeginLine \/ Close \/ Break \/ Stall \/ Resume \/ Translate \/ UNCHANGED vars
    BY <1>2, <1>3 DEF BeginLine, Close, Break, Stall, Resume, Translate
<1>4. CASE EndLine
    BY <1>4, EndLineRefines DEF Channel!StreamNext
<1>5. CASE Read \/ ReadMore
    BY <1>1, <1>5 DEF Read, ReadMore, Goto, Over, FinallyBlock
<1>6. CASE WriteSSE
    BY <1>6, WriteRefines DEF Channel!StreamNext
<1>7. CASE ReadDone \/ RelayFails
  <2>1. at \in {"read", "lines"} /\ at' = "settle" /\ UNCHANGED <<adapter, lines, out>>
      BY <1>7 DEF ReadDone, RelayFails, Goto, AfterFailure
  <2>2. Messages' = Messages
      BY <2>1, MessagesKept
  <2>3. ~ Over /\ Over' = TRUE
      BY <2>1 DEF Over, FinallyBlock
  <2>4. out' = out
      BY <2>1
  <2>5. Channel!End
      BY <2>2, <2>3, <2>4, Zenon DEF Channel!End
  <2> QED
      BY <2>5 DEF Channel!StreamNext
<1>8. CASE GiveSlotBack \/ LogUsage \/ RedisRefuses
    BY <1>1, <1>8 DEF GiveSlotBack, LogUsage, RedisRefuses, Goto, Over, FinallyBlock
<1> QED
    BY <1>3, <1>4, <1>5, <1>6, <1>7, <1>8 DEF Next, RelayStep

(* The client gets the translation of the upstream's lines, in order, each once, from the *)
(* first on, wherever the network cuts them.                                              *)
THEOREM RelayImplementsStream == Spec => ImplementsEventStream
<1> QED
    BY InitRefines, NextRefines, Invariance, PTL DEF Spec, ImplementsEventStream, Channel!StreamSpec
=============================================================================
