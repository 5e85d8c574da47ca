--------------------------- MODULE RecordingProofs ---------------------------
(***************************************************************************)
(* What a recording holds, for all message types, messages and bounds: the *)
(* values of a message stand under the names of their fields, and the      *)
(* lines are the stream.  The recursion over nested messages goes through  *)
(* the module Recursion.                                                   *)
(***************************************************************************)
EXTENDS Recording, SequenceTheorems, TLAPS

(* The recursive functions of CsvPrinting, as instances of Recursion. *)

TypeOf(m) == m.type

FailsOf(g, m) == \E i \in DOMAIN Fields(m) : FieldFails(Fields(m)[i], m.values[i], g)
HeaderOf(g, m) ==
  FlattenSeq([i \in DOMAIN Fields(m) |-> Columns(Fields(m)[i], m.values[i], g)])
LineOf(g, m) ==
  FlattenSeq([i \in DOMAIN Fields(m) |-> Entries(Fields(m)[i], m.values[i], g)])
NamedOf(g, m) ==
  UNION {FieldNamed(Fields(m)[i], m.values[i], g) : i \in DOMAIN Fields(m)}
ShapeOf(g, m) ==
  [i \in DOMAIN Fields(m) |-> FieldShape(Fields(m)[i], m.values[i], g)]

RFails == INSTANCE Recursion WITH Dom <- Message, Rank <- TypeOf,
                                  Bound <- Len(Types) + 1, Def <- FailsOf
RHeader == INSTANCE Recursion WITH Dom <- Message, Rank <- TypeOf,
                                   Bound <- Len(Types) + 1, Def <- HeaderOf
RLine == INSTANCE Recursion WITH Dom <- Message, Rank <- TypeOf,
                                 Bound <- Len(Types) + 1, Def <- LineOf
RNamed == INSTANCE Recursion WITH Dom <- Message, Rank <- TypeOf,
                                  Bound <- Len(Types) + 1, Def <- NamedOf
RShape == INSTANCE Recursion WITH Dom <- Message, Rank <- TypeOf,
                                  Bound <- Len(Types) + 1, Def <- ShapeOf

-----------------------------------------------------------------------------
(* Sequences. *)

\* What flattening has joined after each of the first n parts.
Joins(p, seqs, n) ==
  p = [i \in 1..n |-> IF i = 1 THEN seqs[i] ELSE p[i - 1] \o seqs[i]]

LEMMA JoinsStep ==
  ASSUME NEW p, NEW seqs, NEW N, NEW n \in Nat, Joins(p, seqs, N)
  PROVE  /\ 1 \in 1..N => p[1] = seqs[1]
         /\ n # 0 /\ n + 1 \in 1..N => p[n + 1] = p[n] \o seqs[n + 1]
<1>1. \A i \in 1..N : p[i] = IF i = 1 THEN seqs[i] ELSE p[i - 1] \o seqs[i]
  BY DEF Joins
<1>2. ASSUME n # 0, n + 1 \in 1..N PROVE p[n + 1] = p[n] \o seqs[n + 1]
  <2>1. n + 1 # 1 /\ (n + 1) - 1 = n
    BY <1>2
  <2>2. p[n + 1] = p[(n + 1) - 1] \o seqs[n + 1]
    BY <1>1, <1>2, <2>1
  <2> QED
    BY <2>1, <2>2
<1> QED
  BY <1>1, <1>2

LEMMA FlattenJoins ==
  ASSUME NEW S, NEW seqs \in Seq(S), Len(seqs) # 0
  PROVE  \E p : Joins(p, seqs, Len(seqs)) /\ FlattenSeq(seqs) = p[Len(seqs)]
<1> DEFINE T == {n \in Nat : \E p : Joins(p, seqs, n)}
<1>1. 0 \in T
  <2>1. Joins([i \in 1..0 |-> 0], seqs, 0)
    <3>1. 1..0 = {}
      OBVIOUS
    <3> QED
      BY <3>1 DEF Joins
  <2> QED
    BY <2>1
<1>2. ASSUME NEW n \in Nat, n \in T PROVE n + 1 \in T
  <2>1. PICK p : Joins(p, seqs, n)
    BY <1>2
  <2> DEFINE q == [i \in 1..(n + 1) |-> IF i \in 1..n THEN p[i]
                                        ELSE IF i = 1 THEN seqs[i] ELSE p[i - 1] \o seqs[i]]
  <2>2. ASSUME NEW i \in 1..(n + 1)
        PROVE  q[i] = IF i = 1 THEN seqs[i] ELSE q[i - 1] \o seqs[i]
    <3>1. i # 1 => q[i - 1] = p[i - 1]
      OBVIOUS
    <3>2. i \in 1..n => q[i] = p[i] /\ p[i] = IF i = 1 THEN seqs[i] ELSE p[i - 1] \o seqs[i]
      BY <2>1 DEF Joins
    <3>3. i \notin 1..n => q[i] = IF i = 1 THEN seqs[i] ELSE p[i - 1] \o seqs[i]
      OBVIOUS
    <3> HIDE DEF q
    <3> QED
      BY <3>1, <3>2, <3>3
  <2>3. q = [i \in 1..(n + 1) |-> q[i]]
    OBVIOUS
  <2> HIDE DEF q
  <2>4. Joins(q, seqs, n + 1)
    BY <2>2, <2>3 DEF Joins
  <2> QED
    BY <2>4
<1>3. Len(seqs) \in Nat
  BY LenProperties
<1>4. Len(seqs) \in T
  <2> HIDE DEF T
  <2> QED
    BY <1>1, <1>2, <1>3, RHeader!NumberInduction
<1>5. FlattenSeq(seqs) = (CHOOSE p : Joins(p, seqs, Len(seqs)))[Len(seqs)]
  BY DEF FlattenSeq, Joins
<1> QED
  BY <1>4, <1>5

\* The parts of sequences are joined into a sequence.
LEMMA FlattenType ==
  ASSUME NEW S, NEW seqs \in Seq(Seq(S))
  PROVE  FlattenSeq(seqs) \in Seq(S)
<1>1. CASE Len(seqs) = 0
  <2>1. seqs = <<>> /\ FlattenSeq(seqs) = <<>>
    BY <1>1, EmptySeq DEF FlattenSeq
  <2> QED
    BY <2>1, EmptySeq
<1>2. CASE Len(seqs) # 0
  <2>1. PICK p : Joins(p, seqs, Len(seqs)) /\ FlattenSeq(seqs) = p[Len(seqs)]
    BY <1>2, FlattenJoins
  <2> DEFINE T == {n \in Nat : n \in 1..Len(seqs) => p[n] \in Seq(S)}
  <2>2. 0 \in T
    OBVIOUS
  <2>3. ASSUME NEW n \in Nat, n \in T PROVE n + 1 \in T
    <3>1. SUFFICES ASSUME n + 1 \in 1..Len(seqs) PROVE p[n + 1] \in Seq(S)
      OBVIOUS
    <3>2. seqs[n + 1] \in Seq(S)
      BY <3>1, ElementOfSeq
    <3>3. CASE n = 0
      BY <2>1, <3>1, <3>2, <3>3 DEF Joins
    <3>4. CASE n # 0
      <4>1. n \in 1..Len(seqs) /\ (n + 1) - 1 = n
        BY <3>1, <3>4, LenProperties
      <4>2. p[n + 1] = p[n] \o seqs[n + 1]
        BY <2>1, <3>1, <3>4, JoinsStep
      <4>3. p[n] \in Seq(S)
        BY <2>3, <4>1
      <4> QED
        BY <3>2, <4>2, <4>3, ConcatProperties
    <3> QED
      BY <3>3, <3>4
  <2>4. Len(seqs) \in Nat
    BY LenProperties
  <2>5. Len(seqs) \in T
    <3> HIDE DEF T
    <3> QED
      BY <2>2, <2>3, <2>4, RHeader!NumberInduction
  <2>6. Len(seqs) \in 1..Len(seqs)
    BY <1>2, <2>4
  <2>7. p[Len(seqs)] \in Seq(S)
    BY <2>5, <2>6
  <2> QED
    BY <2>1, <2>7
<1> QED
  BY <1>1, <1>2

Related(R, s, t) ==
  Len(s) = Len(t) /\ \A k \in 1..Len(s) : <<s[k], t[k]>> \in R

LEMMA ConcatRelated ==
  ASSUME NEW S, NEW T, NEW R, NEW s \in Seq(S), NEW u \in Seq(S),
         NEW t \in Seq(T), NEW v \in Seq(T), Related(R, s, t), Related(R, u, v)
  PROVE  Related(R, s \o u, t \o v)
<1>1. /\ Len(s) \in Nat /\ Len(u) \in Nat
      /\ Len(t) = Len(s) /\ Len(v) = Len(u)
  BY LenProperties DEF Related
<1>2. Len(s \o u) = Len(s) + Len(u) /\ Len(t \o v) = Len(s) + Len(u)
  <2>1. Len(s \o u) = Len(s) + Len(u)
    BY ConcatProperties
  <2>2. Len(t \o v) = Len(t) + Len(v)
    BY ConcatProperties
  <2> QED
    BY <1>1, <2>1, <2>2
<1>3. ASSUME NEW k \in 1..(Len(s) + Len(u))
      PROVE  <<(s \o u)[k], (t \o v)[k]>> \in R
  <2>1. /\ (s \o u)[k] = IF k <= Len(s) THEN s[k] ELSE u[k - Len(s)]
        /\ (t \o v)[k] = IF k <= Len(s) THEN t[k] ELSE v[k - Len(s)]
    BY <1>1, ConcatProperties
  <2>2. CASE k <= Len(s)
    BY <1>1, <2>1, <2>2 DEF Related
  <2>3. CASE ~(k <= Len(s))
    <3>1. k - Len(s) \in 1..Len(u)
      BY <1>1, <2>3
    <3> QED
      BY <2>1, <2>3, <3>1 DEF Related
  <2> QED
    BY <2>2, <2>3
<1>4. \A k \in 1..Len(s \o u) : <<(s \o u)[k], (t \o v)[k]>> \in R
  BY <1>2, <1>3
<1> QED
  BY <1>2, <1>4 DEF Related

\* Two flattened sequences correspond if their parts do.
LEMMA FlattenRelated ==
  ASSUME NEW S, NEW T, NEW R, NEW s \in Seq(Seq(S)), NEW t \in Seq(Seq(T)),
         Len(s) = Len(t), \A i \in 1..Len(s) : Related(R, s[i], t[i])
  PROVE  Related(R, FlattenSeq(s), FlattenSeq(t))
<1> DEFINE N == Len(s)
<1>1. N \in Nat /\ N = Len(t)
  BY LenProperties
<1>2. CASE N = 0
  <2>1. FlattenSeq(s) = <<>> /\ FlattenSeq(t) = <<>>
    BY <1>1, <1>2, EmptySeq DEF FlattenSeq
  <2> QED
    BY <2>1 DEF Related
<1>3. CASE N # 0
  <2>1. PICK p : Joins(p, s, N) /\ FlattenSeq(s) = p[N]
    BY <1>3, FlattenJoins
  <2>2. PICK q : Joins(q, t, N) /\ FlattenSeq(t) = q[N]
    BY <1>1, <1>3, FlattenJoins
  <2> DEFINE Ok(n) == p[n] \in Seq(S) /\ q[n] \in Seq(T) /\ Related(R, p[n], q[n])
             U == {n \in Nat : n \in 1..N => Ok(n)}
  <2>3. 0 \in U
    OBVIOUS
  <2>4. ASSUME NEW n \in Nat, n \in U PROVE n + 1 \in U
    <3>1. SUFFICES ASSUME n + 1 \in 1..N PROVE Ok(n + 1)
      OBVIOUS
    <3>2. s[n + 1] \in Seq(S) /\ t[n + 1] \in Seq(T) /\ Related(R, s[n + 1], t[n + 1])
      BY <1>1, <3>1, ElementOfSeq
    <3>3. CASE n = 0
      <4>1. p[n + 1] = s[n + 1] /\ q[n + 1] = t[n + 1]
        BY <2>1, <2>2, <3>1, <3>3 DEF Joins
      <4> QED
        BY <3>2, <4>1
    <3>4. CASE n # 0
      <4>1. n \in 1..N /\ (n + 1) - 1 = n
        BY <1>1, <3>1, <3>4
      <4>2. p[n + 1] = p[n] \o s[n + 1] /\ q[n + 1] = q[n] \o t[n + 1]
        BY <2>1, <2>2, <3>1, <3>4, JoinsStep
      <4>3. Ok(n)
        BY <2>4, <4>1
      <4>4. p[n + 1] \in Seq(S) /\ q[n + 1] \in Seq(T)
        BY <3>2, <4>2, <4>3, ConcatProperties
      <4>5. Related(R, p[n + 1], q[n + 1])
        BY <3>2, <4>2, <4>3, ConcatRelated
      <4> QED
        BY <4>4, <4>5
    <3> QED
      BY <3>3, <3>4
  <2>5. N \in U
    <3> HIDE DEF U
    <3> QED
      BY <1>1, <2>3, <2>4, RHeader!NumberInduction
  <2>6. N \in 1..N
    BY <1>1, <1>3
  <2>7. Ok(N)
    BY <2>5, <2>6
  <2> HIDE DEF N
  <2> QED
    BY <2>1, <2>2, <2>7
<1> QED
  BY <1>2, <1>3

-----------------------------------------------------------------------------
(* Fields of messages. *)

Path == Seq(STRING \cup Nat)

LEMMA FunctionIsSeq ==
  ASSUME NEW S, NEW n \in Nat, NEW g \in [1..n -> S]
  PROVE  g \in Seq(S) /\ Len(g) = n
<1>1. g \in Seq(S)
  BY SeqDef
<1>2. DOMAIN g = 1..n /\ DOMAIN g = 1..Len(g) /\ Len(g) \in Nat
  BY <1>1, LenProperties
<1> QED
  BY <1>1, <1>2

FieldsOf == [name: STRING, label: {"required", "optional", "repeated"}, type: Nat]

LEMMA TypeFacts ==
  ASSUME NEW m \in Message
  PROVE  /\ m.type \in 1..Len(Types) /\ Len(Types) \in Nat
         /\ Fields(m) \in Seq(FieldsOf)
         /\ DOMAIN Fields(m) = 1..Len(Fields(m)) /\ Len(Fields(m)) \in Nat
<1>1. Types \in Seq(Seq(FieldsOf)) /\ m.type \in DOMAIN Types
  BY CsvAssumption DEF CsvAssumption, FieldsOf
<1>2. DOMAIN Types = 1..Len(Types) /\ Len(Types) \in Nat
  BY <1>1, LenProperties
<1>3. Fields(m) \in Seq(FieldsOf)
  BY <1>1, <1>2, ElementOfSeq DEF Fields
<1> QED
  BY <1>1, <1>2, <1>3, LenProperties

LEMMA FieldType ==
  ASSUME NEW m \in Message, NEW i \in DOMAIN Fields(m)
  PROVE  /\ Fields(m)[i] \in FieldsOf
         /\ Fields(m)[i].type < m.type
<1>1. Fields(m)[i] \in FieldsOf
  BY TypeFacts, ElementOfSeq
<1>2. Fields(m)[i].type < m.type
  BY CsvAssumption DEF CsvAssumption, Fields
<1> QED
  BY <1>1, <1>2

\* The messages that a field has or is printed as have a smaller type.
LEMMA FieldValues ==
  ASSUME NEW m \in Message, NEW i \in DOMAIN Fields(m),
         NEW field, field = Fields(m)[i], NEW values, values = m.values[i]
  PROVE  /\ Printed(field, values) \in {"repeated", "not", "message", "scalar"}
         /\ Printed(field, values) = "repeated" <=> field.label = "repeated"
         /\ DOMAIN values = 1..Len(values) /\ Len(values) \in Nat
         /\ ~IsMessage(field) => values \in Seq(Scalars)
         /\ IsMessage(field) => \A k \in 1..Len(values) :
              /\ values[k] \in Message
              /\ values[k].type = field.type /\ values[k].type < m.type
<1>1. field \in FieldsOf
  BY FieldType
<1>2. Printed(field, values) \in {"repeated", "not", "message", "scalar"}
  BY DEF Printed
<1>3. Printed(field, values) = "repeated" <=> field.label = "repeated"
  BY DEF Printed
<1>4. IF IsMessage(field) THEN values \in Seq({n \in Message : n.type = field.type})
      ELSE values \in Seq(Scalars)
  BY CsvAssumption DEF CsvAssumption
<1>5. DOMAIN values = 1..Len(values) /\ Len(values) \in Nat
  BY <1>4, LenProperties
<1>6. ASSUME IsMessage(field), NEW k \in 1..Len(values)
      PROVE  values[k] \in Message /\ values[k].type = field.type
  <2>1. values[k] \in {n \in Message : n.type = field.type}
    BY <1>4, <1>6, ElementOfSeq
  <2> QED
    BY <2>1
<1> QED
  BY <1>2, <1>3, <1>4, <1>5, <1>6, FieldType

LEMMA PrintedValue ==
  ASSUME NEW m \in Message, NEW i \in DOMAIN Fields(m),
         NEW field, field = Fields(m)[i], NEW values, values = m.values[i]
  PROVE  /\ Printed(field, values) = "message" =>
              /\ IsMessage(field)
              /\ Value(field, values) \in Message
              /\ Value(field, values).type = field.type
              /\ Value(field, values).type < m.type
         /\ Printed(field, values) = "scalar" =>
              ~IsMessage(field) /\ Value(field, values) \in Scalars
<1>1. field \in FieldsOf /\ field.type < m.type
  BY FieldType
<1>2. values # <<>> => 1 \in 1..Len(values)
  <2>1. CASE IsMessage(field)
    <3>1. values \in Seq({n \in Message : n.type = field.type})
      BY <2>1, CsvAssumption DEF CsvAssumption
    <3> QED
      BY <3>1, EmptySeq
  <2>2. CASE ~IsMessage(field)
    BY <2>2, FieldValues, EmptySeq
  <2> QED
    BY <2>1, <2>2
<1>3. ASSUME Printed(field, values) = "message"
      PROVE  /\ IsMessage(field)
             /\ Value(field, values) \in Message /\ Value(field, values).type = field.type
  <2>1. IsMessage(field) /\ field.label # "repeated"
        /\ (field.label = "optional" => values # <<>>)
    BY <1>3 DEF Printed
  <2>2. CASE values # <<>>
    BY <1>2, <2>1, <2>2, FieldValues DEF Value
  <2>3. CASE values = <<>>
    <3>1. field.label = "required"
      BY <1>1, <2>1, <2>3 DEF FieldsOf
    <3>2. Unset(field.type) \in Message
      BY <2>1, <3>1, CsvAssumption DEF CsvAssumption
    <3>3. Value(field, values) = Unset(field.type)
      BY <2>1, <2>3 DEF Value
    <3> QED
      BY <2>1, <3>2, <3>3 DEF Unset
  <2> QED
    BY <2>2, <2>3
<1>4. ASSUME Printed(field, values) = "scalar"
      PROVE  ~IsMessage(field) /\ Value(field, values) \in Scalars
  <2>1. ~IsMessage(field)
    BY <1>4 DEF Printed
  <2>2. values # <<>> => values[1] \in Scalars
    BY <1>2, <2>1, FieldValues, ElementOfSeq
  <2> QED
    BY <2>1, <2>2, CsvAssumption DEF Value, CsvAssumption
<1> QED
  BY <1>1, <1>3, <1>4

-----------------------------------------------------------------------------
(* The recursive functions have the values their definitions say. *)

\* Two functions agree on all messages of smaller types.
AgreeBelow(g, h, m) == \A n \in Message : TypeOf(n) < TypeOf(m) => g[n] = h[n]

LEMMA TypesRank ==
  /\ Len(Types) + 1 \in Nat
  /\ \A m \in Message : TypeOf(m) \in Nat /\ TypeOf(m) < Len(Types) + 1
<1>1. Len(Types) \in Nat
  BY CsvAssumption, LenProperties DEF CsvAssumption
<1> QED
  BY <1>1, TypeFacts DEF TypeOf

\* What is printed of a field depends on messages of smaller types only.
LEMMA FieldAgrees ==
  ASSUME NEW g, NEW h, NEW m \in Message, AgreeBelow(g, h, m),
         NEW i \in DOMAIN Fields(m),
         NEW field, field = Fields(m)[i], NEW values, values = m.values[i]
  PROVE  /\ FieldFails(field, values, g) = FieldFails(field, values, h)
         /\ Columns(field, values, g) = Columns(field, values, h)
         /\ Entries(field, values, g) = Entries(field, values, h)
         /\ FieldNamed(field, values, g) = FieldNamed(field, values, h)
         /\ FieldShape(field, values, g) = FieldShape(field, values, h)
<1>1. Printed(field, values) = "message" => g[Value(field, values)] = h[Value(field, values)]
  BY PrintedValue DEF AgreeBelow, TypeOf
<1>2. Printed(field, values) \in {"repeated", "not", "message", "scalar"}
  BY FieldValues
<1>3. FieldFails(field, values, g) = FieldFails(field, values, h)
  BY <1>1 DEF FieldFails
<1>4. Columns(field, values, g) = Columns(field, values, h)
  BY <1>1, <1>2 DEF Columns
<1>5. Entries(field, values, g) = Entries(field, values, h)
  <2>1. IsMessage(field) =>
          [k \in DOMAIN values |-> g[values[k]]] = [k \in DOMAIN values |-> h[values[k]]]
    BY FieldValues DEF AgreeBelow, TypeOf
  <2> QED
    BY <1>1, <1>2, <2>1 DEF Entries
<1>6. FieldNamed(field, values, g) = FieldNamed(field, values, h)
  BY <1>1, <1>2 DEF FieldNamed
<1>7. FieldShape(field, values, g) = FieldShape(field, values, h)
  BY <1>1, <1>2 DEF FieldShape
<1> QED
  BY <1>3, <1>4, <1>5, <1>6, <1>7

LEMMA FailsEquation ==
  \A m \in Message : HeaderFails[m] = FailsOf(HeaderFails, m)
<1>1. ASSUME NEW g, NEW h, NEW m \in Message, AgreeBelow(g, h, m)
      PROVE  FailsOf(g, m) = FailsOf(h, m)
  BY <1>1, FieldAgrees DEF FailsOf
<1>2. RFails!IsRecursion
  BY <1>1, TypesRank DEF RFails!IsRecursion, AgreeBelow
<1>3. HeaderFails = RFails!Solution
  BY DEF HeaderFails, RFails!Solution, FailsOf
<1>4. RFails!Solution = [m \in Message |-> FailsOf(RFails!Solution, m)]
  BY <1>2, RFails!RecursionEquation
<1> QED
  BY <1>3, <1>4

LEMMA HeaderRecursion == RHeader!IsRecursion
<1>1. ASSUME NEW g, NEW h, NEW m \in Message, AgreeBelow(g, h, m)
      PROVE  HeaderOf(g, m) = HeaderOf(h, m)
  <2>1. [i \in DOMAIN Fields(m) |-> Columns(Fields(m)[i], m.values[i], g)]
          = [i \in DOMAIN Fields(m) |-> Columns(Fields(m)[i], m.values[i], h)]
    BY <1>1, FieldAgrees
  <2> QED
    BY <2>1 DEF HeaderOf
<1> QED
  BY <1>1, TypesRank DEF RHeader!IsRecursion, AgreeBelow

LEMMA HeaderEquation ==
  \A m \in Message : Header[m] = HeaderOf(Header, m)
<1>2. RHeader!IsRecursion
  BY HeaderRecursion
<1>3. Header = RHeader!Solution
  BY DEF Header, RHeader!Solution, HeaderOf
<1>4. RHeader!Solution = [m \in Message |-> HeaderOf(RHeader!Solution, m)]
  BY <1>2, RHeader!RecursionEquation
<1> QED
  BY <1>3, <1>4

LEMMA LineEquation ==
  \A m \in Message : Line[m] = LineOf(Line, m)
<1>1. ASSUME NEW g, NEW h, NEW m \in Message, AgreeBelow(g, h, m)
      PROVE  LineOf(g, m) = LineOf(h, m)
  <2>1. [i \in DOMAIN Fields(m) |-> Entries(Fields(m)[i], m.values[i], g)]
          = [i \in DOMAIN Fields(m) |-> Entries(Fields(m)[i], m.values[i], h)]
    BY <1>1, FieldAgrees
  <2> QED
    BY <2>1 DEF LineOf
<1>2. RLine!IsRecursion
  BY <1>1, TypesRank DEF RLine!IsRecursion, AgreeBelow
<1>3. Line = RLine!Solution
  BY DEF Line, RLine!Solution, LineOf
<1>4. RLine!Solution = [m \in Message |-> LineOf(RLine!Solution, m)]
  BY <1>2, RLine!RecursionEquation
<1> QED
  BY <1>3, <1>4

LEMMA NamedEquation ==
  \A m \in Message : Named[m] = NamedOf(Named, m)
<1>1. ASSUME NEW g, NEW h, NEW m \in Message, AgreeBelow(g, h, m)
      PROVE  NamedOf(g, m) = NamedOf(h, m)
  <2>1. \A i \in DOMAIN Fields(m) :
          FieldNamed(Fields(m)[i], m.values[i], g) = FieldNamed(Fields(m)[i], m.values[i], h)
    BY <1>1, FieldAgrees
  <2> QED
    BY <2>1 DEF NamedOf
<1>2. RNamed!IsRecursion
  BY <1>1, TypesRank DEF RNamed!IsRecursion, AgreeBelow
<1>3. Named = RNamed!Solution
  BY DEF Named, RNamed!Solution, NamedOf
<1>4. RNamed!Solution = [m \in Message |-> NamedOf(RNamed!Solution, m)]
  BY <1>2, RNamed!RecursionEquation
<1> QED
  BY <1>3, <1>4

LEMMA ShapeEquation ==
  \A m \in Message : Shape[m] = ShapeOf(Shape, m)
<1>1. ASSUME NEW g, NEW h, NEW m \in Message, AgreeBelow(g, h, m)
      PROVE  ShapeOf(g, m) = ShapeOf(h, m)
  BY <1>1, FieldAgrees DEF ShapeOf
<1>2. RShape!IsRecursion
  BY <1>1, TypesRank DEF RShape!IsRecursion, AgreeBelow
<1>3. Shape = RShape!Solution
  BY DEF Shape, RShape!Solution, ShapeOf
<1>4. RShape!Solution = [m \in Message |-> ShapeOf(RShape!Solution, m)]
  BY <1>2, RShape!RecursionEquation
<1> QED
  BY <1>3, <1>4

-----------------------------------------------------------------------------
(* Headers and lines. *)

LEMMA ColumnsArePaths ==
  ASSUME NEW m \in Message, NEW i \in DOMAIN Fields(m),
         NEW field, field = Fields(m)[i], NEW values, values = m.values[i],
         NEW h, \A n \in Message : n.type < m.type => h[n] \in Seq(Path)
  PROVE  Columns(field, values, h) \in Seq(Path)
<1> DEFINE inner == h[Value(field, values)]
<1>1. field.name \in STRING
  BY FieldType DEF FieldsOf
<1>2. DOMAIN values = 1..Len(values) /\ Len(values) \in Nat
  BY FieldValues
<1>3. Printed(field, values) \in {"repeated", "not", "message", "scalar"}
  BY FieldValues
<1>4. Printed(field, values) = "message" =>
        Value(field, values) \in Message /\ Value(field, values).type < m.type
  BY PrintedValue
<1>5. CASE Printed(field, values) = "repeated"
  <2>1. Columns(field, values, h) = [k \in DOMAIN values |-> <<field.name, k - 1>>]
    BY <1>5 DEF Columns
  <2>2. \A k \in 1..Len(values) : <<field.name, k - 1>> \in Path
    BY <1>1, <1>2 DEF Path
  <2>3. [k \in DOMAIN values |-> <<field.name, k - 1>>] \in [1..Len(values) -> Path]
    BY <1>2, <2>2
  <2> QED
    BY <1>2, <2>1, <2>3, FunctionIsSeq
<1>6. CASE Printed(field, values) = "not"
  BY <1>6, EmptySeq DEF Columns
<1>7. CASE Printed(field, values) = "message"
  <2>1. inner \in Seq(Path)
    BY <1>4, <1>7
  <2>2. DOMAIN inner = 1..Len(inner) /\ Len(inner) \in Nat
    BY <2>1, LenProperties
  <2>3. \A k \in 1..Len(inner) : <<field.name>> \o inner[k] \in Path
    <3>1. TAKE k \in 1..Len(inner)
    <3>2. inner[k] \in Path
      BY <2>1, ElementOfSeq
    <3>3. <<field.name>> \in Path
      BY <1>1 DEF Path
    <3> QED
      BY <3>2, <3>3, ConcatProperties DEF Path
  <2>4. Columns(field, values, h) = [k \in DOMAIN inner |-> <<field.name>> \o inner[k]]
    BY <1>7 DEF Columns
  <2> HIDE DEF inner
  <2>5. [k \in DOMAIN inner |-> <<field.name>> \o inner[k]] \in [1..Len(inner) -> Path]
    BY <2>2, <2>3
  <2> QED
    BY <2>2, <2>4, <2>5, FunctionIsSeq
<1>8. CASE Printed(field, values) = "scalar"
  <2>1. Columns(field, values, h) = << <<field.name>> >>
    BY <1>8 DEF Columns
  <2>2. <<field.name>> \in Path
    BY <1>1 DEF Path
  <2> QED
    BY <2>1, <2>2
<1> QED
  BY <1>3, <1>5, <1>6, <1>7, <1>8

LEMMA HeaderIsPaths ==
  \A m \in Message : Header[m] \in Seq(Path)
<1> DEFINE S == {m \in Message : Header[m] \in Seq(Path)}
<1>1. ASSUME NEW m \in Message,
             \A n \in Message : TypeOf(n) < TypeOf(m) => n \in S
      PROVE  m \in S
  <2> DEFINE Parts == [i \in DOMAIN Fields(m) |-> Columns(Fields(m)[i], m.values[i], Header)]
  <2>1. \A i \in DOMAIN Fields(m) :
          Columns(Fields(m)[i], m.values[i], Header) \in Seq(Path)
    BY <1>1, ColumnsArePaths DEF TypeOf
  <2>2. Parts \in Seq(Seq(Path))
    <3>1. Parts \in [1..Len(Fields(m)) -> Seq(Path)]
      BY <2>1, TypeFacts
    <3> QED
      BY <3>1, TypeFacts, FunctionIsSeq
  <2>3. Header[m] = FlattenSeq(Parts)
    BY HeaderEquation DEF HeaderOf
  <2> HIDE DEF Parts
  <2> QED
    BY <2>2, <2>3, FlattenType
<1> HIDE DEF S
<1>2. Message \subseteq S
  BY <1>1, HeaderRecursion, RHeader!RankInduction
<1> QED
  BY <1>2 DEF S

LEMMA EntriesAreScalars ==
  ASSUME NEW m \in Message, NEW i \in DOMAIN Fields(m),
         NEW field, field = Fields(m)[i], NEW values, values = m.values[i],
         NEW line, \A n \in Message : n.type < m.type => line[n] \in Seq(Scalars)
  PROVE  Entries(field, values, line) \in Seq(Scalars)
<1> DEFINE each == [k \in DOMAIN values |-> line[values[k]]]
<1>1. Printed(field, values) \in {"repeated", "not", "message", "scalar"}
  BY FieldValues
<1>2. DOMAIN values = 1..Len(values) /\ Len(values) \in Nat
  BY FieldValues
<1>3. ~IsMessage(field) => values \in Seq(Scalars)
  BY FieldValues
<1>4. IsMessage(field) => each \in Seq(Seq(Scalars))
  <2>1. IsMessage(field) => each \in [1..Len(values) -> Seq(Scalars)]
    BY <1>2, FieldValues
  <2> HIDE DEF each
  <2> QED
    BY <1>2, <2>1, FunctionIsSeq
<1>5. Printed(field, values) = "message" => line[Value(field, values)] \in Seq(Scalars)
  BY PrintedValue
<1>6. Printed(field, values) = "scalar" => Value(field, values) \in Scalars
  BY PrintedValue
<1>7. CASE Printed(field, values) = "repeated"
  <2>1. Entries(field, values, line)
          = IF IsMessage(field) THEN FlattenSeq(each) ELSE values
    BY <1>7 DEF Entries
  <2> HIDE DEF each
  <2> QED
    BY <1>3, <1>4, <2>1, FlattenType
<1>8. CASE Printed(field, values) = "not"
  BY <1>8, EmptySeq DEF Entries
<1>9. CASE Printed(field, values) = "message"
  BY <1>5, <1>9 DEF Entries
<1>10. CASE Printed(field, values) = "scalar"
  BY <1>6, <1>10 DEF Entries
<1> QED
  BY <1>1, <1>7, <1>8, <1>9, <1>10

LEMMA LineIsScalars ==
  \A m \in Message : Line[m] \in Seq(Scalars)
<1> DEFINE S == {m \in Message : Line[m] \in Seq(Scalars)}
<1>1. ASSUME NEW m \in Message,
             \A n \in Message : TypeOf(n) < TypeOf(m) => n \in S
      PROVE  m \in S
  <2> DEFINE Parts == [i \in DOMAIN Fields(m) |-> Entries(Fields(m)[i], m.values[i], Line)]
  <2>1. \A i \in DOMAIN Fields(m) :
          Entries(Fields(m)[i], m.values[i], Line) \in Seq(Scalars)
    BY <1>1, EntriesAreScalars DEF TypeOf
  <2>2. Parts \in Seq(Seq(Scalars))
    <3>1. Parts \in [1..Len(Fields(m)) -> Seq(Scalars)]
      BY <2>1, TypeFacts
    <3> QED
      BY <3>1, TypeFacts, FunctionIsSeq
  <2>3. Line[m] = FlattenSeq(Parts)
    BY LineEquation DEF LineOf
  <2> HIDE DEF Parts
  <2> QED
    BY <2>2, <2>3, FlattenType
<1> HIDE DEF S
<1>2. Message \subseteq S
  BY <1>1, HeaderRecursion, RHeader!RankInduction
<1> QED
  BY <1>2 DEF S

\* One field: under each of its columns in a message stands the other
\* message's value of that name, if the nested messages have that property.
LEMMA FieldPrinted ==
  ASSUME NEW m \in Message, NEW n \in Message, m.type = n.type,
         NEW i \in DOMAIN Fields(m), NEW field, field = Fields(m)[i],
         NEW v, v = m.values[i], NEW w, w = n.values[i],
         FieldShape(field, v, Shape) = FieldShape(field, w, Shape),
         ~FieldFails(field, v, HeaderFails),
         \A a, b \in Message :
           a.type < m.type /\ SameShape(a, b) /\ ~HeaderFails[a] =>
             Related(Named[b], Header[a], Line[b])
  PROVE  Related(FieldNamed(field, w, Named), Columns(field, v, Header),
                 Entries(field, w, Line))
<1>1. Fields(n) = Fields(m) /\ i \in DOMAIN Fields(n) /\ field = Fields(n)[i]
  BY DEF Fields
<1>2. /\ Printed(field, v) \in {"repeated", "not", "message", "scalar"}
      /\ Printed(field, w) \in {"repeated", "not", "message", "scalar"}
      /\ Printed(field, v) = "repeated" <=> field.label = "repeated"
      /\ Printed(field, w) = "repeated" <=> field.label = "repeated"
  BY <1>1, FieldValues
<1>3. CASE Printed(field, v) = "repeated"
  <2>1. Printed(field, w) = "repeated"
    BY <1>2, <1>3
  <2>2. Len(v) = Len(w)
    BY <1>3, <2>1 DEF FieldShape
  <2>3. /\ DOMAIN v = 1..Len(v) /\ Len(v) \in Nat
        /\ DOMAIN w = 1..Len(v)
    BY <1>1, <2>2, FieldValues
  <2>4. Columns(field, v, Header) = [k \in 1..Len(v) |-> <<field.name, k - 1>>]
    BY <1>3, <2>3 DEF Columns
  <2>5. Len(Columns(field, v, Header)) = Len(v)
    BY <1>1, <2>4, ColumnsArePaths, HeaderIsPaths, LenProperties
  <2>6. CASE IsMessage(field)
    <3>1. v = <<>> /\ Len(v) = 0
      BY <1>3, <2>6 DEF FieldFails
    <3>2. Entries(field, w, Line) = FlattenSeq([k \in DOMAIN w |-> Line[w[k]]])
      BY <2>1, <2>6 DEF Entries
    <3>3. DOMAIN w = {}
      BY <2>3, <3>1
    <3>4. [k \in DOMAIN w |-> Line[w[k]]] = <<>>
      BY <3>3
    <3>5. Entries(field, w, Line) = <<>>
      BY <3>2, <3>4 DEF FlattenSeq
    <3> QED
      BY <2>5, <3>1, <3>5 DEF Related
  <2>7. CASE ~IsMessage(field)
    <3>1. Entries(field, w, Line) = w
      BY <2>1, <2>7 DEF Entries
    <3>2. \A k \in 1..Len(v) : << <<field.name, k - 1>>, w[k] >> \in FieldNamed(field, w, Named)
      BY <2>1, <2>3, <2>7 DEF FieldNamed
    <3> QED
      BY <2>2, <2>3, <2>4, <2>5, <3>1, <3>2 DEF Related
  <2> QED
    BY <2>6, <2>7
<1>4. CASE Printed(field, v) = "not"
  <2>1. Printed(field, w) = "not"
    BY <1>2, <1>4 DEF FieldShape
  <2>2. Columns(field, v, Header) = <<>> /\ Entries(field, w, Line) = <<>>
    BY <1>4, <2>1 DEF Columns, Entries
  <2> QED
    BY <2>2 DEF Related
<1>5. CASE Printed(field, v) = "message"
  <2> DEFINE a == Value(field, v)
             b == Value(field, w)
  <2>1. IsMessage(field) /\ a \in Message /\ a.type = field.type /\ a.type < m.type
    BY <1>5, PrintedValue
  <2>2. Printed(field, w) # "not" /\ Printed(field, w) # "repeated"
    BY <1>2, <1>5 DEF FieldShape
  <2>3. Printed(field, w) = "message"
    BY <1>1, <1>2, <2>1, <2>2, PrintedValue
  <2>4. b \in Message /\ b.type = field.type
    BY <1>1, <2>3, PrintedValue
  <2>5. Shape[a] = Shape[b]
    BY <1>5, <2>3 DEF FieldShape
  <2>6. ~HeaderFails[a]
    BY <1>5 DEF FieldFails
  <2>7. Related(Named[b], Header[a], Line[b])
    BY <2>1, <2>4, <2>5, <2>6 DEF SameShape
  <2>8. Columns(field, v, Header) = [k \in DOMAIN Header[a] |-> <<field.name>> \o Header[a][k]]
    BY <1>5 DEF Columns
  <2>9. Entries(field, w, Line) = Line[b]
    BY <2>3 DEF Entries
  <2>10. FieldNamed(field, w, Named) = {<< <<field.name>> \o e[1], e[2] >> : e \in Named[b]}
    BY <2>3 DEF FieldNamed
  <2> HIDE DEF a, b
  <2>11. DOMAIN Header[a] = 1..Len(Header[a]) /\ Len(Header[a]) \in Nat
    BY <2>1, HeaderIsPaths, LenProperties
  <2>12. Len(Columns(field, v, Header)) = Len(Header[a])
    <3>1. DOMAIN Columns(field, v, Header) = 1..Len(Columns(field, v, Header))
          /\ Len(Columns(field, v, Header)) \in Nat
      BY ColumnsArePaths, HeaderIsPaths, LenProperties
    <3> QED
      BY <2>8, <2>11, <3>1
  <2>13. ASSUME NEW k \in 1..Len(Header[a])
         PROVE  <<Columns(field, v, Header)[k], Line[b][k]>> \in FieldNamed(field, w, Named)
    <3>1. <<Header[a][k], Line[b][k]>> \in Named[b]
      BY <2>7 DEF Related
    <3>2. << <<field.name>> \o Header[a][k], Line[b][k] >> \in FieldNamed(field, w, Named)
      <4>1. PICK e \in Named[b] : e = <<Header[a][k], Line[b][k]>>
        BY <3>1
      <4>2. e[1] = Header[a][k] /\ e[2] = Line[b][k]
        BY <4>1
      <4>3. << <<field.name>> \o e[1], e[2] >> \in FieldNamed(field, w, Named)
        BY <2>10
      <4> QED
        BY <4>2, <4>3
    <3> QED
      BY <2>8, <2>11, <3>2
  <2> QED
    BY <2>7, <2>9, <2>12, <2>13 DEF Related
<1>6. CASE Printed(field, v) = "scalar"
  <2>1. ~IsMessage(field)
    BY <1>6, PrintedValue
  <2>2. Printed(field, w) # "not" /\ Printed(field, w) # "repeated"
    BY <1>2, <1>6 DEF FieldShape
  <2>3. Printed(field, w) = "scalar"
    BY <1>1, <1>2, <2>1, <2>2, PrintedValue
  <2>4. /\ Columns(field, v, Header) = << <<field.name>> >>
        /\ Entries(field, w, Line) = << Value(field, w) >>
        /\ FieldNamed(field, w, Named) = {<< <<field.name>>, Value(field, w) >>}
    BY <1>6, <2>3 DEF Columns, Entries, FieldNamed
  <2> QED
    BY <2>4 DEF Related
<1> QED
  BY <1>2, <1>3, <1>4, <1>5, <1>6

\* The line of a message stands under the header of another one of its shape.
LEMMA HeaderFitsLine ==
  \A m, n \in Message :
    SameShape(m, n) /\ ~HeaderFails[m] => Related(Named[n], Header[m], Line[n])
<1> DEFINE Fits(m) == \A n \in Message :
             SameShape(m, n) /\ ~HeaderFails[m] => Related(Named[n], Header[m], Line[n])
           S == {m \in Message : Fits(m)}
<1>1. ASSUME NEW m \in Message,
             \A n \in Message : TypeOf(n) < TypeOf(m) => n \in S
      PROVE  m \in S
  <2>1. \A a, b \in Message :
          a.type < m.type /\ SameShape(a, b) /\ ~HeaderFails[a] =>
            Related(Named[b], Header[a], Line[b])
    BY <1>1 DEF TypeOf
  <2> HIDE DEF S
  <2>2. SUFFICES ASSUME NEW n \in Message, SameShape(m, n), ~HeaderFails[m]
                 PROVE  Related(Named[n], Header[m], Line[n])
    BY DEF S
  <2> DEFINE hs == [i \in DOMAIN Fields(m) |-> Columns(Fields(m)[i], m.values[i], Header)]
             ls == [i \in DOMAIN Fields(n) |-> Entries(Fields(n)[i], n.values[i], Line)]
  <2>3. m.type = n.type /\ Fields(m) = Fields(n) /\ Shape[m] = Shape[n]
    BY <2>2 DEF SameShape, Fields
  <2>4. DOMAIN Fields(m) = 1..Len(Fields(m)) /\ Len(Fields(m)) \in Nat
    BY TypeFacts
  <2>5. ASSUME NEW i \in DOMAIN Fields(m)
        PROVE  Related(Named[n], hs[i], ls[i])
    <3>1. FieldShape(Fields(m)[i], m.values[i], Shape) = FieldShape(Fields(m)[i], n.values[i], Shape)
      <4>1. /\ Shape[m][i] = FieldShape(Fields(m)[i], m.values[i], Shape)
            /\ Shape[n][i] = FieldShape(Fields(n)[i], n.values[i], Shape)
        BY <2>3, ShapeEquation DEF ShapeOf
      <4> QED
        BY <2>3, <4>1
    <3>2. ~FieldFails(Fields(m)[i], m.values[i], HeaderFails)
      BY <2>2, FailsEquation DEF FailsOf
    <3>3. Related(FieldNamed(Fields(m)[i], n.values[i], Named),
                  Columns(Fields(m)[i], m.values[i], Header),
                  Entries(Fields(m)[i], n.values[i], Line))
      BY <2>1, <2>3, <3>1, <3>2, FieldPrinted
    <3>4. FieldNamed(Fields(m)[i], n.values[i], Named) \subseteq Named[n]
      BY <2>3, NamedEquation DEF NamedOf
    <3> QED
      BY <2>3, <3>3, <3>4 DEF Related
  <2>6. hs \in Seq(Seq(Path)) /\ Len(hs) = Len(Fields(m))
    <3>1. hs \in [1..Len(Fields(m)) -> Seq(Path)]
      BY <2>4, ColumnsArePaths, HeaderIsPaths
    <3> HIDE DEF hs
    <3> QED
      BY <2>4, <3>1, FunctionIsSeq
  <2>7. ls \in Seq(Seq(Scalars)) /\ Len(ls) = Len(Fields(m))
    <3>1. ls \in [1..Len(Fields(m)) -> Seq(Scalars)]
      BY <2>3, <2>4, EntriesAreScalars, LineIsScalars
    <3> HIDE DEF ls
    <3> QED
      BY <2>4, <3>1, FunctionIsSeq
  <2>8. Header[m] = FlattenSeq(hs) /\ Line[n] = FlattenSeq(ls)
    BY HeaderEquation, LineEquation DEF HeaderOf, LineOf
  <2> HIDE DEF hs, ls
  <2> QED
    BY <2>4, <2>5, <2>6, <2>7, <2>8, FlattenRelated
<1> HIDE DEF S
<1>2. Message \subseteq S
  BY <1>1, HeaderRecursion, RHeader!RankInduction
<1> QED
  BY <1>2 DEF S

\* A line never has more or fewer entries than the header of a message of its
\* shape, and each stands under the name of the field it is taken from, for
\* all message types and however messages are nested: csv::Header and
\* csv::Line visit the fields alike.
THEOREM PrintingAgrees ==
  \A m, n \in Message :
    SameShape(m, n) /\ ~HeaderFails[m] => LineUnder(Header[m], Line[n], n)
<1> SUFFICES ASSUME NEW m \in Message, NEW n \in Message,
                    SameShape(m, n), ~HeaderFails[m]
             PROVE  LineUnder(Header[m], Line[n], n)
  OBVIOUS
<1>1. Related(Named[n], Header[m], Line[n])
  BY HeaderFitsLine
<1>2. DOMAIN Header[m] = 1..Len(Header[m])
  BY HeaderIsPaths, LenProperties
<1> QED
  BY <1>1, <1>2 DEF Related, LineUnder

-----------------------------------------------------------------------------
(* Sequences of datagrams. *)

\* A datagram of the stream has a message of its type.
Genuine == {d \in Datagram : d.own => d.message \in Messages}

\* The stream's own datagrams 1 to n, in order and once each, among others.
Complete(ds, n) ==
  /\ InOrder(ds)
  /\ \A i \in 1..Len(ds) : ds[i].own => ds[i].number \in 1..n
  /\ \A k \in 1..n : \E i \in 1..Len(ds) : ds[i].own /\ ds[i].number = k

\* What InOrder says of the i-th.
Placed(ds, i) ==
  /\ \A j \in 1..(i - 1) : ds[j].own => ds[j].number < ds[i].number
  /\ \A k \in 1..(ds[i].number - 1) :
       \E j \in 1..(i - 1) : ds[j].own /\ ds[j].number = k

LEMMA InOrderPlaced ==
  ASSUME NEW ds
  PROVE  InOrder(ds) <=> \A i \in DOMAIN ds : ds[i].own => Placed(ds, i)
BY DEF InOrder, Placed

LEMMA SamePlace ==
  ASSUME NEW ds, NEW es, NEW i \in Nat, es[i] = ds[i],
         \A j \in 1..(i - 1) : es[j] = ds[j], Placed(ds, i)
  PROVE  Placed(es, i)
<1>1. \A j \in 1..(i - 1) : es[j].own => es[j].number < es[i].number
  BY DEF Placed
<1>2. ASSUME NEW k \in 1..(es[i].number - 1)
      PROVE  \E j \in 1..(i - 1) : es[j].own /\ es[j].number = k
  <2>1. PICK j \in 1..(i - 1) : ds[j].own /\ ds[j].number = k
    BY <1>2 DEF Placed
  <2> QED
    BY <2>1
<1> QED
  BY <1>1, <1>2 DEF Placed

LEMMA NoneOwn ==
  ASSUME NEW ds \in Seq(Genuine), \A i \in 1..Len(ds) : ~ds[i].own
  PROVE  Complete(ds, 0)
<1>1. DOMAIN ds = 1..Len(ds)
  BY LenProperties
<1> QED
  BY <1>1 DEF Complete, InOrder

LEMMA AppendForeign ==
  ASSUME NEW ds \in Seq(Genuine), NEW d \in Genuine, ~d.own,
         NEW n \in Nat, Complete(ds, n)
  PROVE  Complete(Append(ds, d), n)
<1> DEFINE es == Append(ds, d)
<1>1. /\ es \in Seq(Genuine) /\ Len(es) = Len(ds) + 1 /\ Len(ds) \in Nat
      /\ \A i \in 1..Len(ds) : es[i] = ds[i]
      /\ es[Len(ds) + 1] = d
      /\ DOMAIN es = 1..(Len(ds) + 1) /\ DOMAIN ds = 1..Len(ds)
  BY AppendProperties, LenProperties
<1> HIDE DEF es
<1>2. ASSUME NEW i \in DOMAIN es, es[i].own
      PROVE  /\ i \in 1..Len(ds) /\ es[i] = ds[i]
             /\ \A j \in 1..(i - 1) : es[j] = ds[j] /\ j \in 1..Len(ds)
  BY <1>1, <1>2
<1>3. InOrder(es)
  <2>1. ASSUME NEW i \in DOMAIN es, es[i].own PROVE Placed(es, i)
    <3>1. i \in 1..Len(ds) /\ es[i] = ds[i]
      BY <1>2, <2>1
    <3>2. Placed(ds, i)
      BY <1>1, <2>1, <3>1, InOrderPlaced DEF Complete
    <3> QED
      BY <1>2, <2>1, <3>1, <3>2, SamePlace
  <2> QED
    BY <2>1, InOrderPlaced
<1>4. \A i \in 1..Len(es) : es[i].own => es[i].number \in 1..n
  BY <1>1, <1>2 DEF Complete
<1>5. \A k \in 1..n : \E i \in 1..Len(es) : es[i].own /\ es[i].number = k
  <2>1. TAKE k \in 1..n
  <2>2. PICK i \in 1..Len(ds) : ds[i].own /\ ds[i].number = k
    BY DEF Complete
  <2>3. i \in 1..Len(es) /\ es[i] = ds[i]
    BY <1>1
  <2> QED
    BY <2>2, <2>3
<1>6. Complete(es, n)
  BY <1>3, <1>4, <1>5 DEF Complete
<1> QED
  BY <1>6 DEF es

LEMMA AppendNext ==
  ASSUME NEW ds \in Seq(Genuine), NEW d \in Genuine, d.own,
         NEW n \in Nat, d.number = n + 1, Complete(ds, n)
  PROVE  Complete(Append(ds, d), n + 1)
<1> DEFINE es == Append(ds, d)
<1>1. /\ es \in Seq(Genuine) /\ Len(es) = Len(ds) + 1 /\ Len(ds) \in Nat
      /\ \A i \in 1..Len(ds) : es[i] = ds[i]
      /\ es[Len(ds) + 1] = d
      /\ DOMAIN es = 1..(Len(ds) + 1) /\ DOMAIN ds = 1..Len(ds)
  BY AppendProperties, LenProperties
<1> HIDE DEF es
<1>2. InOrder(es)
  <2>1. SUFFICES ASSUME NEW i \in DOMAIN es, es[i].own PROVE Placed(es, i)
    BY InOrderPlaced
  <2>2. CASE i \in 1..Len(ds)
    <3>1. es[i] = ds[i] /\ \A j \in 1..(i - 1) : es[j] = ds[j]
      BY <1>1, <2>2
    <3>2. Placed(ds, i)
      BY <1>1, <2>1, <2>2, <3>1, InOrderPlaced DEF Complete
    <3> QED
      BY <2>2, <3>1, <3>2, SamePlace
  <2>3. CASE i = Len(ds) + 1
    <3>1. es[i] = d /\ i - 1 = Len(ds)
      BY <1>1, <2>3
    <3>2. \A j \in 1..(i - 1) : es[j] = ds[j]
      BY <1>1, <3>1
    <3>3. \A j \in 1..(i - 1) : es[j].own => es[j].number \in 1..n
      BY <3>1, <3>2 DEF Complete
    <3>4. \A k \in 1..n : \E j \in 1..(i - 1) : es[j].own /\ es[j].number = k
      BY <3>1, <3>2 DEF Complete
    <3>5. es[i].number = n + 1 /\ 1..(es[i].number - 1) = 1..n
      BY <3>1
    <3> QED
      BY <3>3, <3>4, <3>5 DEF Placed
  <2> QED
    BY <1>1, <2>2, <2>3
<1>3. \A i \in 1..Len(es) : es[i].own => es[i].number \in 1..(n + 1)
  BY <1>1 DEF Complete
<1>4. ASSUME NEW k \in 1..(n + 1)
      PROVE  \E i \in 1..Len(es) : es[i].own /\ es[i].number = k
  <2>1. CASE k \in 1..n
    <3>1. PICK i \in 1..Len(ds) : ds[i].own /\ ds[i].number = k
      BY <2>1 DEF Complete
    <3>2. i \in 1..Len(es) /\ es[i] = ds[i]
      BY <1>1
    <3> QED
      BY <3>1, <3>2
  <2>2. CASE k = n + 1
    BY <1>1, <2>2
  <2> QED
    BY <2>1, <2>2
<1>5. Complete(es, n + 1)
  BY <1>2, <1>3, <1>4 DEF Complete
<1> QED
  BY <1>5 DEF es

\* What was in order is so without its end.
LEMMA PrefixInOrder ==
  ASSUME NEW ds \in Seq(Genuine), NEW es \in Seq(Genuine), InOrder(ds \o es)
  PROVE  InOrder(ds)
<1> DEFINE cs == ds \o es
<1>1. /\ DOMAIN cs = 1..(Len(ds) + Len(es))
      /\ DOMAIN ds = 1..Len(ds) /\ Len(ds) \in Nat /\ Len(es) \in Nat
      /\ \A i \in 1..Len(ds) : cs[i] = ds[i]
  BY ConcatProperties, LenProperties
<1>2. InOrder(cs)
  OBVIOUS
<1> HIDE DEF cs
<1>3. ASSUME NEW i \in 1..Len(ds), ds[i].own PROVE Placed(ds, i)
  <2>1. i \in DOMAIN cs /\ i \in Nat /\ ds[i] = cs[i]
    BY <1>1
  <2>2. \A j \in 1..(i - 1) : ds[j] = cs[j]
    BY <1>1
  <2>3. Placed(cs, i)
    BY <1>2, <1>3, <2>1, InOrderPlaced
  <2> QED
    BY <2>1, <2>2, <2>3, SamePlace
<1> QED
  BY <1>1, <1>3, InOrderPlaced

-----------------------------------------------------------------------------
(* The inductive invariant. *)

Foreign == {d \in Genuine : ~d.own}
Taken == [datagram: Genuine, message: Message]

Typed ==
  /\ TypeOK
  /\ flight \in Seq(Genuine) /\ queue \in Seq(Genuine)
  /\ consumed \in Seq(Taken)
  /\ lines \in Seq(Seq(Scalars))

\* Before the stream is asked for none of it is on its way, and nothing is
\* read before the socket is bound and the destination added.
Early ==
  /\ pc \in {"closed", "bound"} =>
       ~registered /\ sent.own = 0 /\ flight \in Seq(Foreign)
  /\ pc = "closed" => queue = <<>>
  /\ pc \in {"closed", "bound", "first"} => consumed = <<>> /\ lines = <<>>

\* The file has a line for each message after the first, and the header of the
\* first of these.
Written ==
  /\ pc = "loop" => Len(consumed) = Len(lines) + 1
  /\ lines # <<>> =>
       /\ Len(lines) < Len(consumed)
       /\ header = Header[consumed[2].message] /\ ~HeaderFails[consumed[2].message]
  /\ \A k \in 1..Len(lines) : lines[k] = Line[consumed[k + 1].message]
  /\ \A i \in 1..Len(consumed) :
       Sound(consumed[i].datagram) => consumed[i].message = consumed[i].datagram.message

\* All there is of the streams: read, in the buffer, on the network.
All == (Received \o queue) \o flight

Ordered == network = {} /\ ~missed => Complete(All, sent.own)

IInv == Typed /\ Early /\ Written /\ Ordered

-----------------------------------------------------------------------------
(* What the steps do to the sequences. *)

LEMMA RemoveAtType ==
  ASSUME NEW S, NEW s \in Seq(S), NEW i \in DOMAIN s
  PROVE  RemoveAt(s, i) \in Seq(S) /\ Len(RemoveAt(s, i)) = Len(s) - 1
<1> DEFINE a == SubSeq(s, 1, i - 1)
           b == SubSeq(s, i + 1, Len(s))
<1>1. Len(s) \in Nat /\ i \in 1..Len(s) /\ \A j \in 1..Len(s) : s[j] \in S
  BY LenProperties, ElementOfSeq
<1>2. a \in Seq(S) /\ Len(a) = i - 1
  <2>1. \A j \in 1..(i - 1) : s[j] \in S
    BY <1>1
  <2>2. a \in Seq(S) /\ Len(a) = IF 1 <= i - 1 THEN (i - 1) - 1 + 1 ELSE 0
    BY <1>1, <2>1, SubSeqProperties
  <2> QED
    BY <1>1, <2>2
<1>3. b \in Seq(S) /\ Len(b) = Len(s) - i
  <2>1. \A j \in (i + 1)..Len(s) : s[j] \in S
    BY <1>1
  <2>2. b \in Seq(S) /\ Len(b) = IF i + 1 <= Len(s) THEN Len(s) - (i + 1) + 1 ELSE 0
    BY <1>1, <2>1, SubSeqProperties
  <2> QED
    BY <1>1, <2>2
<1> HIDE DEF a, b
<1>4. RemoveAt(s, i) = a \o b
  BY DEF RemoveAt, a, b
<1>5. a \o b \in Seq(S) /\ Len(a \o b) = Len(a) + Len(b)
  BY <1>2, <1>3, ConcatProperties
<1> QED
  BY <1>1, <1>2, <1>3, <1>4, <1>5

LEMMA RemoveHead ==
  ASSUME NEW S, NEW s \in Seq(S), s # <<>>
  PROVE  RemoveAt(s, 1) = Tail(s)
<1>1. SubSeq(s, 1, 0) = <<>> /\ Tail(s) = SubSeq(s, 2, Len(s)) /\ Tail(s) \in Seq(S)
  BY SubSeqEmpty, TailIsSubSeq, HeadTailProperties
<1>2. <<>> \o Tail(s) = Tail(s)
  BY <1>1, ConcatEmptySeq
<1> QED
  BY <1>1, <1>2 DEF RemoveAt

\* Moving the head of one sequence to the end of the one before it.
LEMMA MoveHead ==
  ASSUME NEW S, NEW s \in Seq(S), NEW t \in Seq(S), t # <<>>
  PROVE  Append(s, Head(t)) \o Tail(t) = s \o t
<1>1. /\ Head(t) \in S /\ Tail(t) \in Seq(S) /\ <<Head(t)>> \in Seq(S)
      /\ t[1] = Head(t)
  BY HeadTailProperties
<1>2. t = <<Head(t)>> \o Tail(t)
  <2>1. /\ Len(t) \in Nat \ {0} /\ Len(Tail(t)) = Len(t) - 1
        /\ \A j \in 1..Len(Tail(t)) : Tail(t)[j] = t[j + 1]
    BY EmptySeq, HeadTailProperties
  <2>2. /\ <<Head(t)>> \o Tail(t) \in Seq(S)
        /\ Len(<<Head(t)>> \o Tail(t)) = 1 + Len(Tail(t))
        /\ \A j \in 1..(1 + Len(Tail(t))) :
             (<<Head(t)>> \o Tail(t))[j] = IF j <= 1 THEN Head(t) ELSE Tail(t)[j - 1]
    <3>1. Len(<<Head(t)>>) = 1 /\ <<Head(t)>>[1] = Head(t)
      OBVIOUS
    <3> HIDE <1>1
    <3>2. \A j \in 1..(1 + Len(Tail(t))) : j <= 1 => <<Head(t)>>[j] = Head(t)
      BY <2>1
    <3> QED
      BY <1>1, <3>1, <3>2, ConcatProperties
  <2>3. \A j \in 1..Len(t) : t[j] = (<<Head(t)>> \o Tail(t))[j]
    <3>1. TAKE j \in 1..Len(t)
    <3>2. CASE j = 1
      BY <1>1, <2>1, <2>2, <3>2
    <3>3. CASE j # 1
      <4>1. j - 1 \in 1..Len(Tail(t)) /\ (j - 1) + 1 = j /\ ~(j <= 1) /\ j \in 1..(1 + Len(Tail(t)))
        BY <2>1, <3>3
      <4> QED
        BY <2>1, <2>2, <4>1
    <3> QED
      BY <3>2, <3>3
  <2> QED
    BY <2>1, <2>2, <2>3, SeqEqual
<1>3. Append(s, Head(t)) = s \o <<Head(t)>>
  BY <1>1, AppendIsConcat
<1>4. (s \o <<Head(t)>>) \o Tail(t) = s \o (<<Head(t)>> \o Tail(t))
  BY <1>1, ConcatAssociative
<1> QED
  BY <1>2, <1>3, <1>4

LEMMA ReceivedType ==
  ASSUME Typed
  PROVE  /\ Received \in Seq(Genuine) /\ Len(Received) = Len(consumed)
         /\ All \in Seq(Genuine)
<1>1. /\ DOMAIN consumed = 1..Len(consumed) /\ Len(consumed) \in Nat
      /\ \A i \in 1..Len(consumed) : consumed[i] \in Taken
  BY LenProperties, ElementOfSeq DEF Typed
<1>2. Received \in [1..Len(consumed) -> Genuine]
  BY <1>1 DEF Received, Taken
<1>3. Received \in Seq(Genuine) /\ Len(Received) = Len(consumed)
  BY <1>1, <1>2, FunctionIsSeq
<1>4. Received \o queue \in Seq(Genuine)
  BY <1>3, ConcatProperties DEF Typed
<1>5. All \in Seq(Genuine)
  BY <1>4, ConcatProperties DEF Typed, All
<1> QED
  BY <1>3, <1>5

\* What receive() makes of a datagram is a message, that of the datagram if it
\* is of the stream and was read to its end.
LEMMA ParsedMessage ==
  ASSUME NEW d \in Genuine, NEW m \in Parsed(d)
  PROVE  m \in Message /\ (Sound(d) => m = d.message)
<1>1. Messages \subseteq Message /\ Fragments \subseteq Message
  BY RecordingAssumption DEF RecordingAssumption
<1>2. d.own \in BOOLEAN /\ d.whole \in BOOLEAN /\ (d.own => d.message \in Messages)
  BY DEF Genuine, Datagram
<1>3. CASE d.own /\ d.whole
  BY <1>1, <1>2, <1>3 DEF Parsed
<1>4. CASE ~(d.own /\ d.whole)
  BY <1>1, <1>4 DEF Parsed, Sound
<1> QED
  BY <1>3, <1>4

LEMMA ReceiveStep ==
  ASSUME Typed, queue # <<>>, NEW m \in Parsed(Head(queue)), Receive(m)
  PROVE  /\ Head(queue) \in Genuine /\ m \in Message
         /\ queue' \in Seq(Genuine) /\ Len(queue') <= Len(queue)
         /\ consumed' \in Seq(Taken) /\ Len(consumed') = Len(consumed) + 1
         /\ \A i \in 1..Len(consumed) : consumed'[i] = consumed[i]
         /\ consumed'[Len(consumed) + 1] = [datagram |-> Head(queue), message |-> m]
         /\ Received' \o queue' = Received \o queue
<1>1. Head(queue) \in Genuine /\ Tail(queue) \in Seq(Genuine) /\ Len(Tail(queue)) = Len(queue) - 1
  BY HeadTailProperties DEF Typed
<1>2. m \in Message
  BY <1>1, ParsedMessage
<1> DEFINE c == [datagram |-> Head(queue), message |-> m]
<1>3. c \in Taken
  BY <1>1, <1>2 DEF Taken
<1>4. queue' = Tail(queue) /\ consumed' = Append(consumed, c)
  BY DEF Receive
<1>5. /\ consumed' \in Seq(Taken) /\ Len(consumed') = Len(consumed) + 1
      /\ \A i \in 1..Len(consumed) : consumed'[i] = consumed[i]
      /\ consumed'[Len(consumed) + 1] = c
  <2> HIDE DEF c
  <2> QED
    BY <1>3, <1>4, AppendProperties DEF Typed
<1>6. Len(queue') <= Len(queue)
  <2>1. Len(queue) \in Nat
    BY LenProperties DEF Typed
  <2> QED
    BY <1>1, <1>4, <2>1
<1>7. Received' = Append(Received, Head(queue))
  <2>1. /\ DOMAIN consumed' = 1..(Len(consumed) + 1) /\ Len(consumed) \in Nat
        /\ DOMAIN consumed = 1..Len(consumed)
    BY <1>5, LenProperties DEF Typed
  <2>2. Received' = [i \in 1..(Len(consumed) + 1) |-> consumed'[i].datagram]
    BY <2>1 DEF Received
  <2>3. \A i \in 1..Len(consumed) : Received[i] = consumed[i].datagram
    BY <2>1 DEF Received
  <2>4. /\ Append(Received, Head(queue)) \in Seq(Genuine)
        /\ Len(Append(Received, Head(queue))) = Len(consumed) + 1
        /\ \A i \in 1..Len(consumed) : Append(Received, Head(queue))[i] = Received[i]
        /\ Append(Received, Head(queue))[Len(consumed) + 1] = Head(queue)
    BY <1>1, ReceivedType, AppendProperties
  <2>5. \A i \in 1..(Len(consumed) + 1) : Append(Received, Head(queue))[i] = consumed'[i].datagram
    <3>1. TAKE i \in 1..(Len(consumed) + 1)
    <3>2. CASE i \in 1..Len(consumed)
      BY <1>5, <2>3, <2>4, <3>2
    <3>3. CASE i = Len(consumed) + 1
      BY <1>5, <2>4, <3>3
    <3>4. i \in 1..Len(consumed) \/ i = Len(consumed) + 1
      BY <2>1
    <3> QED
      BY <3>2, <3>3, <3>4
  <2>6. DOMAIN Append(Received, Head(queue)) = 1..(Len(consumed) + 1)
    BY <2>4, LenProperties
  <2>7. Received' \in Seq(Genuine) /\ Len(Received') = Len(consumed) + 1
    <3>1. \A i \in 1..(Len(consumed) + 1) : consumed'[i].datagram \in Genuine
      <4>1. TAKE i \in 1..(Len(consumed) + 1)
      <4>2. consumed'[i] \in Taken
        BY <1>5, ElementOfSeq
      <4> QED
        BY <4>2 DEF Taken
    <3>2. Received' \in [1..(Len(consumed) + 1) -> Genuine]
      BY <2>2, <3>1
    <3> QED
      BY <2>1, <3>2, FunctionIsSeq
  <2>8. \A i \in 1..(Len(consumed) + 1) : Received'[i] = Append(Received, Head(queue))[i]
    BY <2>2, <2>5
  <2> QED
    BY <2>4, <2>7, <2>8, SeqEqual
<1>8. Received' \o queue' = Received \o queue
  BY <1>4, <1>7, ReceivedType, MoveHead DEF Typed
<1> QED
  BY <1>1, <1>2, <1>4, <1>5, <1>6, <1>8

LEMMA ConcatAppend ==
  ASSUME NEW S, NEW s \in Seq(S), NEW t \in Seq(S), NEW e \in S
  PROVE  s \o Append(t, e) = Append(s \o t, e)
<1>1. <<e>> \in Seq(S) /\ s \o t \in Seq(S)
  BY ConcatProperties
<1>2. Append(t, e) = t \o <<e>> /\ Append(s \o t, e) = (s \o t) \o <<e>>
  BY <1>1, AppendIsConcat
<1>3. (s \o t) \o <<e>> = s \o (t \o <<e>>)
  BY <1>1, ConcatAssociative
<1> QED
  BY <1>2, <1>3

LEMMA AllSame ==
  ASSUME UNCHANGED <<consumed, queue, flight>>
  PROVE  All' = All
BY DEF All, Received

\* Sending appends to all there is.
LEMMA AllSent ==
  ASSUME Typed, NEW d \in Genuine, flight' = Append(flight, d),
         UNCHANGED <<consumed, queue>>
  PROVE  All' = Append(All, d)
<1>1. Received \o queue \in Seq(Genuine) /\ flight \in Seq(Genuine)
  BY ReceivedType, ConcatProperties DEF Typed
<1>2. All' = (Received \o queue) \o Append(flight, d)
  BY DEF All, Received
<1> QED
  BY <1>1, <1>2, ConcatAppend DEF All

\* Delivering the first datagram on its way moves nothing in it.
LEMMA AllDelivered ==
  ASSUME Typed, flight # <<>>, flight' = Tail(flight),
         queue' = Append(queue, Head(flight)), UNCHANGED consumed
  PROVE  All' = All
<1>1. /\ Received \in Seq(Genuine) /\ queue \in Seq(Genuine)
      /\ flight \in Seq(Genuine) /\ Head(flight) \in Genuine
  BY ReceivedType, HeadTailProperties DEF Typed
<1>2. Received \o queue \in Seq(Genuine)
  BY <1>1, ConcatProperties
<1>3. All' = (Received \o Append(queue, Head(flight))) \o Tail(flight)
  BY DEF All, Received
<1>4. Received \o Append(queue, Head(flight)) = Append(Received \o queue, Head(flight))
  BY <1>1, ConcatAppend
<1>5. Append(Received \o queue, Head(flight)) \o Tail(flight) = (Received \o queue) \o flight
  BY <1>1, <1>2, MoveHead
<1> QED
  BY <1>3, <1>4, <1>5 DEF All

\* Receiving neither.
LEMMA AllReceived ==
  ASSUME Typed, queue # <<>>, NEW m \in Parsed(Head(queue)), Receive(m),
         UNCHANGED flight
  PROVE  All' = All
<1>1. Received' \o queue' = Received \o queue
  BY ReceiveStep
<1> QED
  BY <1>1 DEF All

LEMMA ForeignComplete ==
  ASSUME NEW ds \in Seq(Foreign)
  PROVE  Complete((<<>> \o <<>>) \o ds, 0)
<1>1. ds \in Seq(Genuine) /\ \A i \in 1..Len(ds) : ~ds[i].own
  <2>1. \A i \in 1..Len(ds) : ds[i] \in Foreign
    BY ElementOfSeq
  <2>2. ds \in [1..Len(ds) -> Genuine] /\ Len(ds) \in Nat
    BY <2>1, LenProperties DEF Foreign
  <2> QED
    BY <2>1, <2>2, FunctionIsSeq DEF Foreign
<1>2. <<>> \o <<>> = <<>>
  OBVIOUS
<1>3. (<<>> \o <<>>) \o ds = ds
  BY <1>1, <1>2, ConcatEmptySeq
<1> QED
  BY <1>1, <1>3, NoneOwn

-----------------------------------------------------------------------------
(* Each step keeps the invariant. *)

LEMMA InitIInv == Init => IInv
<1> SUFFICES ASSUME Init PROVE IInv
  OBVIOUS
<1>1. /\ <<>> \in Seq(Datagram) /\ <<>> \in Seq(Genuine) /\ <<>> \in Seq(Taken)
      /\ <<>> \in Seq(Seq(Scalars)) /\ <<>> \in Seq(Foreign) /\ Len(<<>>) = 0
  BY EmptySeq
<1>2. TypeOK
  <2>1. network \subseteq NetworkKinds
    BY DEF Init
  <2>2. sent \in [own: 0..MaxSent, foreign: 0..MaxStray]
    BY RecordingAssumption DEF Init, RecordingAssumption
  <2>3. Len(flight) <= MaxFlight /\ Len(queue) <= QueueLimit
    BY <1>1, RecordingAssumption DEF Init, RecordingAssumption
  <2> QED
    BY <1>1, <2>1, <2>2, <2>3 DEF Init, TypeOK
<1>3. Typed
  BY <1>1, <1>2 DEF Init, Typed
<1>4. Early
  BY <1>1 DEF Init, Early
<1>5. Written
  BY <1>1 DEF Init, Written
<1>6. Ordered
  <2>1. Received = <<>>
    BY DEF Init, Received
  <2> QED
    BY <1>1, <2>1, ForeignComplete DEF Init, Ordered, All
<1> QED
  BY <1>3, <1>4, <1>5, <1>6 DEF IInv

LEMMA SendOwnKeeps ==
  ASSUME IInv, SendOwn
  PROVE  IInv'
<1> USE DEF IInv
<1>1. PICK m \in Messages, w \in BOOLEAN :
        flight' = Append(flight, [own |-> TRUE, number |-> sent.own + 1,
                                  message |-> m, whole |-> w])
  BY DEF SendOwn
<1> DEFINE d == [own |-> TRUE, number |-> sent.own + 1, message |-> m, whole |-> w]
<1>2. sent \in [own: 0..MaxSent, foreign: 0..MaxStray] /\ MaxSent \in Nat
  BY RecordingAssumption DEF Typed, TypeOK, RecordingAssumption
<1>3. d \in Datagram /\ d \in Genuine /\ d.own /\ d.number = sent.own + 1
  BY <1>2 DEF Genuine, Datagram
<1> HIDE DEF d
<1>4. flight' = Append(flight, d)
  BY <1>1 DEF d
<1>5. Typed'
  <2>1. /\ flight' \in Seq(Datagram) /\ flight' \in Seq(Genuine)
        /\ Len(flight') = Len(flight) + 1 /\ Len(flight) \in Nat
    BY <1>3, <1>4, AppendProperties, LenProperties DEF Typed, TypeOK
  <2>2. Len(flight') <= MaxFlight
    BY <2>1, RecordingAssumption DEF SendOwn, RecordingAssumption
  <2>3. sent' \in [own: 0..MaxSent, foreign: 0..MaxStray]
    BY <1>2 DEF SendOwn
  <2>4. TypeOK'
    BY <2>1, <2>2, <2>3 DEF Typed, TypeOK, SendOwn, programVars
  <2> QED
    BY <2>1, <2>4 DEF Typed, SendOwn, programVars
<1>6. Early'
  BY DEF SendOwn, Early, programVars
<1>7. Written'
  BY DEF SendOwn, Written, programVars
<1>8. Ordered'
  <2>1. SUFFICES ASSUME network = {}, ~missed PROVE Complete(All', sent.own + 1)
    BY <1>2 DEF Ordered, SendOwn
  <2>2. All' = Append(All, d)
    BY <1>3, <1>4, AllSent DEF SendOwn, programVars
  <2>3. All \in Seq(Genuine) /\ Complete(All, sent.own) /\ sent.own \in Nat
    BY <1>2, <2>1, ReceivedType DEF Ordered
  <2> QED
    BY <1>3, <2>2, <2>3, AppendNext
<1> QED
  BY <1>5, <1>6, <1>7, <1>8

LEMMA SendForeignKeeps ==
  ASSUME IInv, SendForeign
  PROVE  IInv'
<1> USE DEF IInv
<1> DEFINE d == [own |-> FALSE, number |-> sent.foreign + 1,
                 message |-> NoMessage, whole |-> TRUE]
<1>1. flight' = Append(flight, d)
  BY DEF SendForeign
<1>2. sent \in [own: 0..MaxSent, foreign: 0..MaxStray] /\ MaxStray \in Nat
  BY RecordingAssumption DEF Typed, TypeOK, RecordingAssumption
<1>3. d \in Datagram /\ d \in Genuine /\ d \in Foreign /\ ~d.own
  BY <1>2 DEF Genuine, Datagram, Foreign
<1> HIDE DEF d
<1>4. Typed'
  <2>1. /\ flight' \in Seq(Datagram) /\ flight' \in Seq(Genuine)
        /\ Len(flight') = Len(flight) + 1 /\ Len(flight) \in Nat
    BY <1>1, <1>3, AppendProperties, LenProperties DEF Typed, TypeOK
  <2>2. Len(flight') <= MaxFlight
    BY <2>1, RecordingAssumption DEF SendForeign, RecordingAssumption
  <2>3. sent' \in [own: 0..MaxSent, foreign: 0..MaxStray]
    BY <1>2 DEF SendForeign
  <2>4. TypeOK'
    BY <2>1, <2>2, <2>3 DEF Typed, TypeOK, SendForeign, programVars
  <2> QED
    BY <2>1, <2>4 DEF Typed, SendForeign, programVars
<1>5. Early'
  <2>1. flight \in Seq(Foreign) => flight' \in Seq(Foreign)
    BY <1>1, <1>3, AppendProperties
  <2>2. sent'.own = sent.own
    BY <1>2 DEF SendForeign
  <2> QED
    BY <2>1, <2>2 DEF SendForeign, Early, programVars
<1>6. Written'
  BY DEF SendForeign, Written, programVars
<1>7. Ordered'
  <2>1. sent'.own = sent.own /\ sent.own \in Nat
    BY <1>2 DEF SendForeign
  <2>2. SUFFICES ASSUME network = {}, ~missed PROVE Complete(All', sent.own)
    BY <2>1 DEF Ordered, SendForeign
  <2>3. All' = Append(All, d)
    BY <1>1, <1>3, AllSent DEF SendForeign, programVars
  <2>4. All \in Seq(Genuine) /\ Complete(All, sent.own)
    BY <2>2, ReceivedType DEF Ordered
  <2> QED
    BY <1>3, <2>1, <2>3, <2>4, AppendForeign
<1> QED
  BY <1>4, <1>5, <1>6, <1>7

LEMMA LoseKeeps ==
  ASSUME IInv, Lose
  PROVE  IInv'
<1> USE DEF IInv
<1>1. PICK i \in DOMAIN flight : flight' = RemoveAt(flight, i)
  BY DEF Lose
<1>2. /\ flight' \in Seq(Datagram) /\ flight' \in Seq(Genuine)
      /\ Len(flight') = Len(flight) - 1 /\ Len(flight) \in Nat
      /\ flight \in Seq(Foreign) => flight' \in Seq(Foreign)
  BY <1>1, RemoveAtType, LenProperties DEF Typed, TypeOK
<1>3. Typed'
  <2>1. Len(flight') <= MaxFlight
    BY <1>2, RecordingAssumption DEF Typed, TypeOK, RecordingAssumption
  <2>2. TypeOK'
    BY <1>2, <2>1 DEF Typed, TypeOK, Lose, sensorVars, programVars
  <2> QED
    BY <1>2, <2>2 DEF Typed, Lose, programVars
<1>4. Early'
  BY <1>2 DEF Lose, Early, sensorVars, programVars
<1>5. Written'
  BY DEF Lose, Written, programVars
<1>6. Ordered'
  BY DEF Lose, Ordered
<1> QED
  BY <1>3, <1>4, <1>5, <1>6

LEMMA DeliverKeeps ==
  ASSUME IInv, Deliver
  PROVE  IInv'
<1> USE DEF IInv
<1>1. PICK i \in DOMAIN flight :
        /\ i = 1 \/ "reorders" \in network
        /\ \/ flight' = RemoveAt(flight, i)
           \/ "duplicates" \in network /\ flight' = flight
        /\ IF pc = "closed" THEN UNCHANGED <<queue, missed>>
           ELSE IF Len(queue) < QueueLimit
           THEN queue' = Append(queue, flight[i]) /\ UNCHANGED missed
           ELSE missed' = TRUE /\ UNCHANGED queue
  BY DEF Deliver
<1>2. UNCHANGED <<network, stray, registered, sent, pc, header, lines, cnt_msgs, consumed>>
  BY DEF Deliver, sensorVars, programVars
<1>3. /\ flight \in Seq(Genuine) /\ flight \in Seq(Datagram)
      /\ queue \in Seq(Genuine) /\ queue \in Seq(Datagram)
      /\ Len(flight) \in Nat /\ Len(queue) \in Nat /\ Len(flight) <= MaxFlight
      /\ Len(queue) <= QueueLimit /\ MaxFlight \in Nat /\ QueueLimit \in Nat
      /\ flight[i] \in Genuine /\ flight[i] \in Datagram
  BY LenProperties, ElementOfSeq, RecordingAssumption
     DEF Typed, TypeOK, RecordingAssumption
<1>4. /\ flight' \in Seq(Datagram) /\ flight' \in Seq(Genuine)
      /\ Len(flight') <= MaxFlight
      /\ flight \in Seq(Foreign) => flight' \in Seq(Foreign)
  <2>1. CASE flight' = RemoveAt(flight, i)
    <3>1. Len(flight') = Len(flight) - 1
      BY <1>3, <2>1, RemoveAtType
    <3> QED
      BY <1>3, <2>1, <3>1, RemoveAtType
  <2>2. CASE flight' = flight
    BY <1>3, <2>2
  <2> QED
    BY <1>1, <2>1, <2>2
<1>5. /\ queue' \in Seq(Datagram) /\ queue' \in Seq(Genuine)
      /\ Len(queue') <= QueueLimit
  <2>1. CASE queue' = queue
    BY <1>3, <2>1
  <2>2. CASE Len(queue) < QueueLimit /\ queue' = Append(queue, flight[i])
    <3>1. Len(queue') = Len(queue) + 1
      BY <1>3, <2>2, AppendProperties
    <3> QED
      BY <1>3, <2>2, <3>1, AppendProperties
  <2> QED
    BY <1>1, <2>1, <2>2
<1>6. Typed'
  <2>1. missed' \in BOOLEAN
    BY <1>1 DEF Typed, TypeOK
  <2>2. TypeOK'
    BY <1>2, <1>4, <1>5, <2>1 DEF Typed, TypeOK
  <2> QED
    BY <1>2, <1>4, <1>5, <2>2 DEF Typed
<1>7. Early'
  BY <1>1, <1>2, <1>4 DEF Early
<1>8. Written'
  BY <1>2 DEF Written
<1>9. Ordered'
  <2>1. SUFFICES ASSUME network = {}, ~missed' PROVE Complete(All', sent.own)
    BY <1>2 DEF Ordered
  <2>2. i = 1 /\ flight' = RemoveAt(flight, 1) /\ ~missed
    BY <1>1, <2>1 DEF Typed, TypeOK
  <2>3. CASE pc = "closed"
    <3>1. /\ consumed' = <<>> /\ queue' = <<>> /\ flight' \in Seq(Foreign)
          /\ sent.own = 0
      BY <1>1, <1>2, <1>4, <2>3 DEF Early
    <3>2. Received' = <<>>
      BY <3>1 DEF Received
    <3> QED
      BY <3>1, <3>2, ForeignComplete DEF All
  <2>4. CASE pc # "closed"
    <3>1. queue' = Append(queue, flight[1])
      BY <1>1, <2>1, <2>2, <2>4
    <3>2. flight # <<>> /\ Head(flight) = flight[1]
      BY <1>3, <2>2, EmptySeq, LenProperties, HeadTailProperties
    <3>3. flight' = Tail(flight)
      BY <1>3, <2>2, <3>2, RemoveHead
    <3>4. All' = All
      BY <1>2, <3>1, <3>2, <3>3, AllDelivered
    <3> QED
      BY <2>1, <2>2, <3>4 DEF Ordered
  <2> QED
    BY <2>3, <2>4
<1> QED
  BY <1>6, <1>7, <1>8, <1>9

LEMMA StrayEndsKeeps ==
  ASSUME IInv, StrayEnds
  PROVE  IInv'
<1> USE DEF IInv
<1>1. UNCHANGED <<network, registered, sent, flight, queue, missed, programVars>>
      /\ stray' \in BOOLEAN
  BY DEF StrayEnds
<1>2. Typed'
  BY <1>1 DEF Typed, TypeOK, programVars
<1>3. Early'
  BY <1>1 DEF Early, programVars
<1>4. Written'
  BY <1>1 DEF Written, programVars
<1>5. Ordered'
  BY <1>1, AllSame DEF Ordered, programVars
<1> QED
  BY <1>2, <1>3, <1>4, <1>5

LEMMA AddDestinationKeeps ==
  ASSUME IInv, AddDestination
  PROVE  IInv'
<1> USE DEF IInv
<1>1. Typed'
  BY DEF AddDestination, Typed, TypeOK
<1>2. Early'
  BY DEF AddDestination, Early
<1>3. Written'
  BY DEF AddDestination, Written
<1>4. Ordered'
  BY AllSame DEF AddDestination, Ordered
<1> QED
  BY <1>1, <1>2, <1>3, <1>4

\* Bind, NoFirstMessage and Stop, and what changes nothing.
LEMMA ProgressKeeps ==
  ASSUME IInv, pc' \in {"closed", "bound", "first", "loop", "stopped"},
         pc' = pc \/ pc' = "stopped" \/ (pc = "closed" /\ pc' = "bound"),
         UNCHANGED <<sensorVars, flight, queue, missed, header, lines, cnt_msgs,
                     consumed>>
  PROVE  IInv'
<1> USE DEF IInv
<1>1. Typed'
  BY DEF Typed, TypeOK, sensorVars
<1>2. Early'
  BY DEF Early, sensorVars
<1>3. Written'
  BY DEF Written
<1>4. Ordered'
  BY AllSame DEF Ordered, sensorVars
<1> QED
  BY <1>1, <1>2, <1>3, <1>4

\* What receive() takes leaves the messages known by their datagrams.
LEMMA ReadRight ==
  ASSUME IInv, queue # <<>>, NEW m \in Parsed(Head(queue)), Receive(m)
  PROVE  \A i \in 1..Len(consumed') :
           Sound(consumed'[i].datagram) =>
             consumed'[i].message = consumed'[i].datagram.message
<1> USE DEF IInv
<1>1. TAKE i \in 1..Len(consumed')
<1>2. Len(consumed) \in Nat
  BY LenProperties DEF Typed
<1>3. CASE i \in 1..Len(consumed)
  BY <1>3, ReceiveStep DEF Written
<1>4. CASE i = Len(consumed) + 1
  <2>1. consumed'[i] = [datagram |-> Head(queue), message |-> m]
    BY <1>4, ReceiveStep
  <2>2. Sound(Head(queue)) => m = Head(queue).message
    BY ReceiveStep, ParsedMessage
  <2> QED
    BY <2>1, <2>2
<1>5. i \in 1..Len(consumed) \/ i = Len(consumed) + 1
  <2>1. Len(consumed') = Len(consumed) + 1
    BY ReceiveStep
  <2> QED
    BY <1>1, <1>2, <2>1
<1> QED
  BY <1>3, <1>4, <1>5

LEMMA FirstMessageKeeps ==
  ASSUME IInv, FirstMessage
  PROVE  IInv'
<1> USE DEF IInv
<1>1. PICK m \in Parsed(Head(queue)) : Receive(m)
  BY DEF FirstMessage
<1>2. /\ pc = "first" /\ pc' = "loop" /\ queue # <<>>
      /\ UNCHANGED <<sensorVars, flight, missed, header, lines, cnt_msgs>>
  BY DEF FirstMessage
<1>3. /\ queue' \in Seq(Genuine) /\ Len(queue') <= Len(queue)
      /\ consumed' \in Seq(Taken) /\ Len(consumed') = Len(consumed) + 1
  BY <1>1, <1>2, ReceiveStep
<1>4. Typed'
  <2>1. queue' \in Seq(Datagram) /\ Len(queue') <= QueueLimit
    <3>1. Len(queue) \in Nat /\ Len(queue') \in Nat /\ QueueLimit \in Nat
      BY <1>3, LenProperties, RecordingAssumption DEF Typed, RecordingAssumption
    <3>2. queue' = Tail(queue)
      BY <1>1 DEF Receive
    <3> QED
      BY <1>2, <1>3, <3>1, <3>2, HeadTailProperties DEF Typed, TypeOK
  <2>2. TypeOK'
    BY <1>2, <2>1 DEF Typed, TypeOK, sensorVars
  <2> QED
    BY <1>2, <1>3, <2>2 DEF Typed
<1>5. Early'
  BY <1>2 DEF Early
<1>6. Written'
  <2>1. consumed = <<>> /\ lines = <<>> /\ Len(consumed') = 1 /\ Len(lines') = 0
    BY <1>2, <1>3, EmptySeq DEF Early
  <2> QED
    BY <1>1, <1>2, <2>1, ReadRight DEF Written
<1>7. Ordered'
  BY <1>1, <1>2, AllReceived DEF Ordered, sensorVars
<1> QED
  BY <1>4, <1>5, <1>6, <1>7

LEMMA RecordKeeps ==
  ASSUME IInv, Record
  PROVE  IInv'
<1> USE DEF IInv
<1>1. PICK m \in Parsed(Head(queue)) :
        /\ Receive(m)
        /\ \/ /\ cnt_msgs = 0 /\ HeaderFails[m]
              /\ pc' = "stopped"
              /\ UNCHANGED <<header, lines, cnt_msgs>>
           \/ /\ ~(cnt_msgs = 0 /\ HeaderFails[m])
              /\ header' = HeaderFor(m)
              /\ lines' = Append(lines, Line[m])
              /\ cnt_msgs' = cnt_msgs + 1
              /\ UNCHANGED pc
  BY DEF Record
<1>2. /\ pc = "loop" /\ queue # <<>>
      /\ UNCHANGED <<sensorVars, flight, missed>>
  BY DEF Record
<1>3. /\ m \in Message
      /\ queue' \in Seq(Genuine) /\ Len(queue') <= Len(queue)
      /\ consumed' \in Seq(Taken) /\ Len(consumed') = Len(consumed) + 1
      /\ \A i \in 1..Len(consumed) : consumed'[i] = consumed[i]
      /\ consumed'[Len(consumed) + 1].message = m
  <2>1. consumed'[Len(consumed) + 1] = [datagram |-> Head(queue), message |-> m]
    BY <1>1, <1>2, ReceiveStep
  <2>2. consumed'[Len(consumed) + 1].message = m
    BY <2>1
  <2> QED
    BY <1>1, <1>2, <2>2, ReceiveStep
<1>4. /\ Len(consumed) = Len(lines) + 1 /\ Len(lines) \in Nat /\ cnt_msgs = Len(lines)
      /\ lines \in Seq(Seq(Scalars)) /\ (lines = <<>> <=> cnt_msgs = 0)
  <2>1. lines \in Seq(Seq(Scalars)) /\ cnt_msgs = Len(lines)
    BY DEF Typed, TypeOK
  <2> QED
    BY <1>2, <2>1, LenProperties, EmptySeq DEF Written
<1>5. queue' \in Seq(Datagram) /\ Len(queue') <= QueueLimit
  <2>1. Len(queue) \in Nat /\ Len(queue') \in Nat /\ QueueLimit \in Nat
    BY <1>3, LenProperties, RecordingAssumption DEF Typed, RecordingAssumption
  <2>2. queue' = Tail(queue)
    BY <1>1 DEF Receive
  <2> QED
    BY <1>2, <1>3, <2>1, <2>2, HeadTailProperties DEF Typed, TypeOK
<1>6. Ordered'
  BY <1>1, <1>2, AllReceived DEF Ordered, sensorVars
<1>7. \A i \in 1..Len(consumed') :
        Sound(consumed'[i].datagram) =>
          consumed'[i].message = consumed'[i].datagram.message
  BY <1>1, <1>2, ReadRight
<1>8. CASE /\ cnt_msgs = 0 /\ pc' = "stopped"
           /\ UNCHANGED <<header, lines, cnt_msgs>>
  <2>1. TypeOK'
    BY <1>2, <1>5, <1>8 DEF Typed, TypeOK, sensorVars
  <2>2. Typed'
    BY <1>2, <1>3, <1>8, <2>1 DEF Typed
  <2>3. Early'
    BY <1>8 DEF Early
  <2>4. lines' = <<>> /\ Len(lines') = 0
    BY <1>4, <1>8
  <2>5. Written'
    BY <1>7, <1>8, <2>4 DEF Written
  <2> QED
    BY <1>6, <2>2, <2>3, <2>5
<1>9. CASE /\ ~(cnt_msgs = 0 /\ HeaderFails[m])
           /\ header' = HeaderFor(m)
           /\ lines' = Append(lines, Line[m])
           /\ cnt_msgs' = cnt_msgs + 1
           /\ UNCHANGED pc
  <2>1. /\ lines' \in Seq(Seq(Scalars)) /\ Len(lines') = Len(lines) + 1
        /\ \A k \in 1..Len(lines) : lines'[k] = lines[k]
        /\ lines'[Len(lines) + 1] = Line[m]
    <3>1. Line[m] \in Seq(Scalars)
      BY <1>3, LineIsScalars
    <3> QED
      BY <1>4, <1>9, <3>1, AppendProperties
  <2>2. TypeOK'
    BY <1>2, <1>4, <1>5, <1>9, <2>1 DEF Typed, TypeOK, sensorVars
  <2>3. Typed'
    BY <1>2, <1>3, <2>1, <2>2 DEF Typed
  <2>4. Early'
    BY <1>2, <1>9 DEF Early
  <2>5. header' = Header[consumed'[2].message] /\ ~HeaderFails[consumed'[2].message]
    <3>1. CASE cnt_msgs = 0
      <4>1. consumed'[2].message = m
        BY <1>3, <1>4, <3>1
      <4>2. header' = Header[m] /\ ~HeaderFails[m]
        BY <1>9, <3>1 DEF HeaderFor
      <4> QED
        BY <4>1, <4>2
    <3>2. CASE cnt_msgs # 0
      <4>1. 2 \in 1..Len(consumed) /\ lines # <<>>
        BY <1>4, <3>2
      <4>2. consumed'[2] = consumed[2]
        BY <1>3, <4>1
      <4>3. header' = header
        BY <1>9, <3>2 DEF HeaderFor
      <4> QED
        BY <4>1, <4>2, <4>3 DEF Written
    <3> QED
      BY <3>1, <3>2
  <2>6. \A k \in 1..Len(lines') : lines'[k] = Line[consumed'[k + 1].message]
    <3>1. TAKE k \in 1..Len(lines')
    <3>2. CASE k \in 1..Len(lines)
      <4>1. k + 1 \in 1..Len(consumed)
        BY <1>4, <3>2
      <4>2. lines[k] = Line[consumed[k + 1].message]
        BY <3>2 DEF Written
      <4> QED
        BY <1>3, <2>1, <3>2, <4>1, <4>2
    <3>3. CASE k = Len(lines) + 1
      BY <1>3, <1>4, <2>1, <3>3
    <3>4. k \in 1..Len(lines) \/ k = Len(lines) + 1
      BY <1>4, <2>1
    <3> QED
      BY <3>2, <3>3, <3>4
  <2>7. Written'
    BY <1>2, <1>3, <1>4, <1>7, <1>9, <2>1, <2>5, <2>6 DEF Written
  <2> QED
    BY <1>6, <2>3, <2>4, <2>7
<1> QED
  BY <1>1, <1>8, <1>9

LEMMA NextKeeps ==
  ASSUME IInv, [Next]_vars
  PROVE  IInv'
<1>1. CASE SendOwn
  BY <1>1, SendOwnKeeps
<1>2. CASE SendForeign
  BY <1>2, SendForeignKeeps
<1>3. CASE StrayEnds
  BY <1>3, StrayEndsKeeps
<1>4. CASE Lose
  BY <1>4, LoseKeeps
<1>5. CASE Deliver
  BY <1>5, DeliverKeeps
<1>6. CASE Bind \/ NoFirstMessage \/ Stop \/ Finished \/ UNCHANGED vars
  <2>1. /\ pc' = pc \/ pc' = "stopped" \/ (pc = "closed" /\ pc' = "bound")
        /\ UNCHANGED <<sensorVars, flight, queue, missed, header, lines, cnt_msgs,
                       consumed>>
    BY <1>6 DEF Bind, NoFirstMessage, Stop, Finished, vars, programVars
  <2>2. pc' \in {"closed", "bound", "first", "loop", "stopped"}
    BY <2>1 DEF IInv, Typed, TypeOK
  <2> QED
    BY <2>1, <2>2, ProgressKeeps
<1>7. CASE AddDestination
  BY <1>7, AddDestinationKeeps
<1>8. CASE FirstMessage
  BY <1>8, FirstMessageKeeps
<1>9. CASE Record
  BY <1>9, RecordKeeps
<1> QED
  BY <1>1, <1>2, <1>3, <1>4, <1>5, <1>6, <1>7, <1>8, <1>9 DEF Next

-----------------------------------------------------------------------------
(* The theorems. *)

LEMMA Invariance == Spec => []IInv
<1>1. IInv /\ [Next]_vars => IInv'
  BY NextKeeps
<1> QED
  BY <1>1, InitIInv, PTL DEF Spec

\* TypeOK holds throughout: the buffer never overflows and the count of the
\* loop of main() is that of the lines in the file.
THEOREM TypesHold == Spec => []TypeOK
<1>1. IInv => TypeOK
  BY DEF IInv, Typed
<1> QED
  BY <1>1, Invariance, PTL

\* Every line of the file that comes from a whole datagram of the stream has
\* its values under the names of their fields if it has the shape of the
\* message that receive() returned first and that made the header: for all
\* message types, and whatever the network does to the stream.
THEOREM ValuesStayUnderTheirNames == Spec => []ValuesUnderTheirNames
<1>1. ASSUME IInv, NEW k \in DOMAIN lines,
             Sound(Source(1).datagram), Sound(Source(k).datagram),
             SameShape(Source(1).datagram.message, Source(k).datagram.message)
      PROVE  LineUnder(header, lines[k], Source(k).datagram.message)
  <2>1. k \in 1..Len(lines) /\ Len(lines) \in Nat /\ lines # <<>> /\ Len(consumed) \in Nat
    BY <1>1, LenProperties, EmptySeq DEF IInv, Typed
  <2>2. Len(lines) < Len(consumed)
    BY <1>1, <2>1 DEF IInv, Written
  <2>3. /\ header = Header[consumed[2].message] /\ ~HeaderFails[consumed[2].message]
        /\ lines[k] = Line[consumed[k + 1].message]
    BY <1>1, <2>1 DEF IInv, Written
  <2>4. 2 \in 1..Len(consumed) /\ k + 1 \in 1..Len(consumed) /\ 1 + 1 = 2
    BY <2>1, <2>2
  <2>5. /\ consumed[2].message = Source(1).datagram.message
        /\ consumed[k + 1].message = Source(k).datagram.message
    BY <1>1, <2>4 DEF IInv, Written, Source
  <2>6. consumed[2] \in Taken /\ consumed[k + 1] \in Taken
    BY <1>1, <2>4, ElementOfSeq DEF IInv, Typed
  <2>7. consumed[2].message \in Message /\ consumed[k + 1].message \in Message
    BY <2>6 DEF Taken
  <2> QED
    BY <1>1, <2>3, <2>5, <2>7, PrintingAgrees
<1>2. IInv => ValuesUnderTheirNames
  BY <1>1 DEF ValuesUnderTheirNames
<1> QED
  BY <1>2, Invariance, PTL

\* The loop leaves no message out, and where network and kernel lose, repeat
\* and swap nothing, what receive() has taken is the stream from its first
\* datagram on, in order and without a gap, however it mixes with another.
THEOREM RecordingStaysTheStream == Spec => []RecordingIsTheStream
<1>1. ASSUME IInv PROVE pc = "loop" => Len(lines) = Len(consumed) - 1
  <2>1. Len(lines) \in Nat /\ Len(consumed) \in Nat
    BY <1>1, LenProperties DEF IInv, Typed
  <2> QED
    BY <1>1, <2>1 DEF IInv, Written
<1>2. ASSUME IInv, network = {}, ~missed PROVE InOrder(Received)
  <2>1. InOrder((Received \o queue) \o flight)
    BY <1>2 DEF IInv, Ordered, Complete, All
  <2>2. /\ Received \in Seq(Genuine) /\ queue \in Seq(Genuine)
        /\ flight \in Seq(Genuine) /\ Received \o queue \in Seq(Genuine)
    BY <1>2, ReceivedType, ConcatProperties DEF IInv, Typed
  <2>3. InOrder(Received \o queue)
    BY <2>1, <2>2, PrefixInOrder
  <2> QED
    BY <2>2, <2>3, PrefixInOrder
<1>3. IInv => RecordingIsTheStream
  BY <1>1, <1>2 DEF RecordingIsTheStream
<1> QED
  BY <1>3, Invariance, PTL
=============================================================================
