--------------------------- MODULE MeteringProofs ---------------------------
(***************************************************************************)
(* Proofs about Metering: for any number of writers, inputs, fields of an  *)
(* event and appends.                                                      *)
(***************************************************************************)
EXTENDS Metering, SequenceTheorems, TLAPS

(* The recursion of FlattenSeq, and the fold that reads the spool. *)
FlattenRec == INSTANCE Recursion
                WITH Dom     <- LAMBDA seqs : 1..Len(seqs),
                     Measure <- LAMBDA seqs, i : i,
                     Body    <- LAMBDA seqs, f, i : IF i = 1 THEN seqs[i] ELSE f[i - 1] \o seqs[i]

ReadFold == INSTANCE FoldTheorems WITH op <- take

-----------------------------------------------------------------------------
(* Idempotency keys *)

(* Three sequences are flattened by two concatenations. *)
LEMMA FlattenThree ==
    ASSUME NEW q, Len(q) = 3
    PROVE  FlattenSeq(q) = (q[1] \o q[2]) \o q[3]
  <1>1. Len(q) = 3
    OBVIOUS
  <1>2. FlattenRec!WellFounded(q)
    <2>1. ASSUME NEW x \in 1..3, NEW g, NEW h, \A y \in 1..3 : y < x => g[y] = h[y]
          PROVE  (IF x = 1 THEN q[x] ELSE g[x - 1] \o q[x])
                   = (IF x = 1 THEN q[x] ELSE h[x - 1] \o q[x])
      <3>1. CASE x = 1
        BY <3>1
      <3>2. CASE x # 1
        <4>1. x - 1 \in 1..3 /\ x - 1 < x
          BY <3>2
        <4>2. g[x - 1] = h[x - 1]
          BY <2>1, <4>1
        <4>3. QED
          BY <3>2, <4>2
      <3>3. QED
        BY <3>1, <3>2
    <2>2. \A x \in 1..3 : x \in Nat
      OBVIOUS
    <2>3. QED
      BY <1>1, <2>1, <2>2, ZenonT(60) DEF FlattenRec!WellFounded
  <1>3. \E f : f = [i \in 1..Len(q) |-> IF i = 1 THEN q[i] ELSE f[i - 1] \o q[i]]
    BY <1>2, FlattenRec!Defined
  <1> DEFINE fl == CHOOSE f : f = [i \in 1..Len(q) |-> IF i = 1 THEN q[i] ELSE f[i - 1] \o q[i]]
  <1>4. fl = [i \in 1..Len(q) |-> IF i = 1 THEN q[i] ELSE fl[i - 1] \o q[i]]
    BY <1>3
  <1>5. FlattenSeq(q) = fl[3]
    BY <1>1 DEF FlattenSeq
  <1> HIDE DEF fl
  <1>6. \A i \in 1..3 : fl[i] = IF i = 1 THEN q[i] ELSE fl[i - 1] \o q[i]
    BY <1>1, <1>4
  <1>a. 1 \in 1..3 /\ 2 \in 1..3 /\ 3 \in 1..3 /\ 2 - 1 = 1 /\ 3 - 1 = 2 /\ 2 # 1 /\ 3 # 1
    OBVIOUS
  <1>b. fl[1] = q[1] /\ fl[2] = fl[1] \o q[2] /\ fl[3] = fl[2] \o q[3]
    BY <1>1, <1>6, <1>a, Zenon
  <1>7. QED
    BY <1>5, <1>b

(* A part of the key and what follows it: the part is preceded by its length. *)
Put(z, rest) == (<<Len(z)>> \o z) \o rest

(* A length-prefixed part in front of a sequence is a sequence. *)
LEMMA PutType ==
    ASSUME NEW V, Nat \subseteq V, NEW z \in Seq(V), NEW rest \in Seq(V)
    PROVE  Put(z, rest) \in Seq(V)
  <1>1. <<Len(z)>> \in Seq(V)
    OBVIOUS
  <1>2. QED
    BY <1>1, ConcatProperties DEF Put

(* A part can be read back, whatever follows it. *)
LEMMA PutInjective ==
    ASSUME NEW V, Nat \subseteq V,
           NEW a \in Seq(V), NEW b \in Seq(V), NEW x \in Seq(V), NEW y \in Seq(V),
           Put(a, x) = Put(b, y)
    PROVE  a = b /\ x = y
  <1> DEFINE p == <<Len(a)>> \o a
             q == <<Len(b)>> \o b
  <1>1. /\ p \in Seq(V) /\ Len(p) = Len(a) + 1 /\ p[1] = Len(a)
        /\ \A i \in 1..Len(a) : p[i + 1] = a[i]
    OBVIOUS
  <1>2. /\ q \in Seq(V) /\ Len(q) = Len(b) + 1 /\ q[1] = Len(b)
        /\ \A i \in 1..Len(b) : q[i + 1] = b[i]
    OBVIOUS
  <1>3. p \o x = q \o y
    BY DEF Put
  <1> HIDE DEF p, q
  <1>4. \A i \in 1..Len(p) : (p \o x)[i] = p[i]
    BY <1>1
  <1>5. \A i \in 1..Len(q) : (q \o y)[i] = q[i]
    BY <1>2
  <1>6. 1 \in 1..Len(p) /\ 1 \in 1..Len(q)
    BY <1>1, <1>2
  <1>7. Len(a) = Len(b)
    BY <1>1, <1>2, <1>3, <1>4, <1>5, <1>6
  <1>8. ASSUME NEW i \in 1..Len(a) PROVE a[i] = b[i]
    <2>1. i + 1 \in 1..Len(p) /\ i + 1 \in 1..Len(q) /\ i \in 1..Len(b)
      BY <1>1, <1>2, <1>7, <1>8
    <2>2. (p \o x)[i + 1] = a[i] /\ (q \o y)[i + 1] = b[i]
      BY <1>1, <1>2, <1>4, <1>5, <1>8, <2>1
    <2>3. QED
      BY <1>3, <2>2
  <1>9. a = b
    BY <1>7, <1>8, SeqEqual
  <1>10. p \o x = p \o y
    BY <1>3, <1>9 DEF p, q
  <1>11. x = y
    BY <1>1, <1>10, ConcatSimplifications
  <1>12. QED
    BY <1>9, <1>11

(* Concatenation regrouped to the right, *)
LEMMA ThreeRight ==
    ASSUME NEW V, NEW a \in Seq(V), NEW b \in Seq(V), NEW c \in Seq(V)
    PROVE  (a \o b) \o c = a \o (b \o (c \o <<>>))
  <1>1. c \o <<>> = c
    BY ConcatEmptySeq
  <1>2. (a \o b) \o c = a \o (b \o c)
    BY ConcatAssociative
  <1>3. QED
    BY <1>1, <1>2, Zenon

(* and with it the flattening of three sequences, *)
LEMMA FlattenRight ==
    ASSUME NEW V, NEW q, Len(q) = 3, q[1] \in Seq(V), q[2] \in Seq(V), q[3] \in Seq(V)
    PROVE  FlattenSeq(q) = q[1] \o (q[2] \o (q[3] \o <<>>))
  <1>1. FlattenSeq(q) = (q[1] \o q[2]) \o q[3]
    BY FlattenThree, Zenon
  <1>2. (q[1] \o q[2]) \o q[3] = q[1] \o (q[2] \o (q[3] \o <<>>))
    BY ThreeRight, SMTT(60)
  <1>3. QED
    BY <1>1, <1>2, Zenon

(* which for length-prefixed parts is the encoding Put defines. *)
LEMMA FlattenParts ==
    ASSUME NEW V, Nat \subseteq V, NEW a \in Seq(V), NEW b \in Seq(V), NEW c \in Seq(V),
           NEW q, Len(q) = 3,
           q[1] = <<Len(a)>> \o a, q[2] = <<Len(b)>> \o b, q[3] = <<Len(c)>> \o c
    PROVE  FlattenSeq(q) = Put(a, Put(b, Put(c, <<>>)))
  <1>1. q[1] \in Seq(V) /\ q[2] \in Seq(V) /\ q[3] \in Seq(V)
    OBVIOUS
  <1>2. Put(a, Put(b, Put(c, <<>>))) = q[1] \o (q[2] \o (q[3] \o <<>>))
    BY Zenon DEF Put
  <1>3. FlattenSeq(q) = q[1] \o (q[2] \o (q[3] \o <<>>))
    BY <1>1, FlattenRight, Zenon
  <1>4. QED
    BY <1>2, <1>3, Zenon

(* The idempotency key is the three length-prefixed parts of the scope. *)
LEMMA KeyForm ==
    ASSUME NEW V, Nat \subseteq V, STRING \subseteq V,
           NEW r \in Seq(Seq(STRING)), Len(r) = 3
    PROVE  /\ r[1] \in Seq(V) /\ r[2] \in Seq(V) /\ r[3] \in Seq(V)
           /\ stable_idempotency_key(r) = Put(r[1], Put(r[2], Put(r[3], <<>>)))
  <1>1. 1 \in 1..Len(r) /\ 2 \in 1..Len(r) /\ 3 \in 1..Len(r)
    OBVIOUS
  <1>2. r[1] \in Seq(STRING) /\ r[2] \in Seq(STRING) /\ r[3] \in Seq(STRING)
    BY <1>1, ElementOfSeq
  <1>3. r[1] \in Seq(V) /\ r[2] \in Seq(V) /\ r[3] \in Seq(V)
    BY <1>2, SeqMonotonic
  <1> DEFINE q == [i \in 1..Len(r) |-> <<Len(r[i])>> \o r[i]]
  <1>4. Len(q) = 3
    OBVIOUS
  <1>5. q[1] = <<Len(r[1])>> \o r[1] /\ q[2] = <<Len(r[2])>> \o r[2] /\ q[3] = <<Len(r[3])>> \o r[3]
    BY <1>1, Zenon
  <1>6. stable_idempotency_key(r) = FlattenSeq(q)
    BY DEF stable_idempotency_key
  <1> HIDE DEF q
  <1>7. FlattenSeq(q) = Put(r[1], Put(r[2], Put(r[3], <<>>)))
    <2> DEFINE a == r[1]
               b == r[2]
               c == r[3]
    <2>1. /\ a \in Seq(V) /\ b \in Seq(V) /\ c \in Seq(V)
          /\ q[1] = <<Len(a)>> \o a /\ q[2] = <<Len(b)>> \o b /\ q[3] = <<Len(c)>> \o c
      BY <1>3, <1>5, Zenon
    <2> HIDE DEF a, b, c
    <2>2. FlattenSeq(q) = Put(a, Put(b, Put(c, <<>>)))
      BY <1>4, <2>1, FlattenParts
    <2>3. QED
      BY <2>2 DEF a, b, c
  <1>8. QED
    BY <1>3, <1>6, <1>7, Zenon

(* stable_idempotency_key tells scopes apart: the length prefixes keep the  *)
(* three parts apart whatever characters they hold.                         *)
LEMMA KeyInjective ==
    ASSUME NEW s \in Seq(Seq(STRING)), NEW t \in Seq(Seq(STRING)), Len(s) = 3, Len(t) = 3,
           stable_idempotency_key(s) = stable_idempotency_key(t)
    PROVE  s = t
  <1> DEFINE V == Nat \cup STRING
  <1>1. Nat \subseteq V /\ STRING \subseteq V
    BY Zenon
  <1> HIDE DEF V
  <1>2. <<>> \in Seq(V)
    BY EmptySeq
  <1>3. \A u, v \in Seq(V) : Put(u, v) \in Seq(V)
    BY <1>1, PutType
  <1>4. \A a, b, x, y \in Seq(V) : Put(a, x) = Put(b, y) => a = b /\ x = y
    BY <1>1, PutInjective
  <1>5. /\ s[1] \in Seq(V) /\ s[2] \in Seq(V) /\ s[3] \in Seq(V)
        /\ stable_idempotency_key(s) = Put(s[1], Put(s[2], Put(s[3], <<>>)))
    BY <1>1, KeyForm
  <1>6. /\ t[1] \in Seq(V) /\ t[2] \in Seq(V) /\ t[3] \in Seq(V)
        /\ stable_idempotency_key(t) = Put(t[1], Put(t[2], Put(t[3], <<>>)))
    BY <1>1, KeyForm
  <1> DEFINE s3 == Put(s[3], <<>>)
             t3 == Put(t[3], <<>>)
             s2 == Put(s[2], s3)
             t2 == Put(t[2], t3)
  <1>a. s3 \in Seq(V) /\ t3 \in Seq(V)
    BY <1>2, <1>3, <1>5, <1>6
  <1>b. s2 \in Seq(V) /\ t2 \in Seq(V)
    BY <1>3, <1>5, <1>6, <1>a
  <1>c. Put(s[1], s2) = Put(t[1], t2)
    BY <1>5, <1>6
  <1>d. s[1] = t[1] /\ s2 = t2
    <2> HIDE DEF s2, t2
    <2>1. QED
      BY <1>4, <1>5, <1>6, <1>b, <1>c
  <1>e. s[2] = t[2] /\ s3 = t3
    <2> HIDE DEF s3, t3
    <2>1. QED
      BY <1>4, <1>5, <1>6, <1>a, <1>d
  <1>f. s[3] = t[3]
    <2> DEFINE end == <<>>
    <2>1. end \in Seq(V) /\ Put(s[3], end) = Put(t[3], end)
      BY <1>2, <1>e
    <2> HIDE DEF end
    <2>2. QED
      BY <1>4, <1>5, <1>6, <2>1
  <1>7. s[1] = t[1] /\ s[2] = t[2] /\ s[3] = t[3]
    BY <1>d, <1>e, <1>f
  <1>8. Len(s) = Len(t) /\ \A i \in 1..Len(s) : s[i] = t[i]
    BY <1>7
  <1>9. QED
    BY <1>8, SeqEqual

-----------------------------------------------------------------------------
(* Types *)

EventOf(in) ==
    [scope |-> in.scope, quantity |-> in.quantity, timestamp |-> in.timestamp,
     idempotency_key |-> stable_idempotency_key(in.scope)]

Events == {EventOf(in) : in \in Inputs}

Quotes == {"key_begin", "key_end", "value_begin", "value_end"}

Steps == Quotes \cup {"open", "key", "colon", "value", "number", "comma", "close", "newline"}

Tokens == [step : Steps, field : 1..NumFields, event : Events, append : Nat]

(* A job that has begun; an unopened one is at its first field. *)
Jobs ==
    {j \in [event : {<<e>> : e \in Events}, append : Nat, field : 1..NumFields, step : Steps] :
        j.step = "open" => j.field = 1}

Strings == Seq(Tokens)

Fields == [1..NumFields -> {<<>>} \cup {<<s>> : s \in Strings}]

Phases ==
    {"blank", "first", "more", "key", "colon", "value", "string", "digits", "next", "whole",
     "refused"}

Lines == [phase : Phases, depth : Int, field : 0..NumFields, got : Strings, fields : Fields]

Reads == [events : Seq([1..NumFields -> Strings]), failed : BOOLEAN, line : Lines]

TypeOK ==
    /\ file \in Seq(Tokens)
    /\ job \in [Writers -> Jobs \cup {NoJob}]
    /\ appended \in Seq(Events)
    /\ started \in Nat
    /\ scan(file) \in Reads

(* An event has at least one field. *)
LEMMA SomeField == NumFields \in Nat \ {0}
  BY MeteringAssumption DEF NumFields

(* An event carries the key of its own scope. *)
LEMMA EventFields ==
    ASSUME NEW e \in Events
    PROVE  /\ e.idempotency_key = stable_idempotency_key(e.scope)
           /\ e.scope \in Seq(Seq(STRING)) /\ Len(e.scope) = 3
  BY MeteringAssumption DEF Events, EventOf

(* What inference builds, when it does not refuse, is an event. *)
LEMMA NewEventType ==
    ASSUME NEW in \in Inputs, NewEvent(in) # <<>>
    PROVE  \E e \in Events : NewEvent(in) = <<e>>
  BY DEF NewEvent, Events, EventOf

(* A write is of its job's event, field and append. *)
LEMMA TokenType ==
    ASSUME NEW j \in Jobs
    PROVE  /\ Token(j) \in Tokens
           /\ Token(j).step = j.step /\ Token(j).field = j.field
           /\ Token(j).append = j.append /\ j.event = <<Token(j).event>>
  <1>1. PICK e \in Events : j.event = <<e>>
    BY DEF Jobs
  <1>2. Token(j) = [step |-> j.step, field |-> j.field, event |-> e, append |-> j.append]
    BY <1>1 DEF Token
  <1>3. j.step \in Steps /\ j.field \in 1..NumFields /\ j.append \in Nat
    BY DEF Jobs
  <1>4. QED
    BY <1>1, <1>2, <1>3 DEF Tokens

(* The next write of a job is one of the same append. *)
LEMMA AdvanceType ==
    ASSUME NEW j \in Jobs, j.step # "newline"
    PROVE  /\ Advance(j) \in Jobs
           /\ Advance(j).event = j.event /\ Advance(j).append = j.append
           /\ Advance(j).step # "open"
  <1>1. /\ j = [event |-> j.event, append |-> j.append, field |-> j.field, step |-> j.step]
        /\ j.step \in Steps \ {"newline"} /\ j.field \in 1..NumFields
    BY DEF Jobs
  <1>2. \E s \in Steps \ {"open"}, k \in 1..NumFields :
           Advance(j) = [event |-> j.event, append |-> j.append, field |-> k, step |-> s]
    <2> DEFINE At(k, s) == [event |-> j.event, append |-> j.append, field |-> k, step |-> s]
    <2>1. CASE j.step \in {"open", "comma"}
      <3>1. Advance(j) = At(j.field, "key_begin")
        BY <1>1, <2>1 DEF Advance
      <3>2. QED
        BY <1>1, <3>1 DEF Steps, Quotes
    <2>2. CASE j.step = "key_begin"
      <3>1. Advance(j) = At(j.field, "key")
        BY <1>1, <2>2 DEF Advance
      <3>2. QED
        BY <1>1, <3>1 DEF Steps, Quotes
    <2>3. CASE j.step = "key"
      <3>1. Advance(j) = At(j.field, "key_end")
        BY <1>1, <2>3 DEF Advance
      <3>2. QED
        BY <1>1, <3>1 DEF Steps, Quotes
    <2>4. CASE j.step = "key_end"
      <3>1. Advance(j) = At(j.field, "colon")
        BY <1>1, <2>4 DEF Advance
      <3>2. QED
        BY <1>1, <3>1 DEF Steps, Quotes
    <2>5. CASE j.step = "colon"
      <3>1. Advance(j) = At(j.field, IF FieldKinds[j.field] = "string" THEN "value_begin" ELSE "number")
        BY <1>1, <2>5 DEF Advance
      <3>2. QED
        BY <1>1, <3>1 DEF Steps, Quotes
    <2>6. CASE j.step = "value_begin"
      <3>1. Advance(j) = At(j.field, "value")
        BY <1>1, <2>6 DEF Advance
      <3>2. QED
        BY <1>1, <3>1 DEF Steps, Quotes
    <2>7. CASE j.step = "value"
      <3>1. Advance(j) = At(j.field, "value_end")
        BY <1>1, <2>7 DEF Advance
      <3>2. QED
        BY <1>1, <3>1 DEF Steps, Quotes
    <2>8. CASE j.step \in {"value_end", "number"}
      <3>1. Advance(j) = IF j.field < NumFields THEN At(j.field + 1, "comma") ELSE At(j.field, "close")
        <4>1. Advance(j) = IF j.field < NumFields THEN [j EXCEPT !.step = "comma", !.field = @ + 1]
                           ELSE [j EXCEPT !.step = "close"]
          BY <2>8, Zenon DEF Advance
        <4>2. [j EXCEPT !.step = "close"] = At(j.field, "close")
          BY <1>1
        <4>3. [j EXCEPT !.step = "comma", !.field = @ + 1] = At(j.field + 1, "comma")
          <5>1. [j EXCEPT !.step = "comma"] = At(j.field, "comma")
            BY <1>1
          <5>2. [At(j.field, "comma") EXCEPT !.field = j.field + 1] = At(j.field + 1, "comma")
            OBVIOUS
          <5>3. [j EXCEPT !.step = "comma", !.field = @ + 1]
                  = [[j EXCEPT !.step = "comma"] EXCEPT !.field = j.field + 1]
            BY Zenon
          <5>4. QED
            BY <5>1, <5>2, <5>3, Zenon
        <4>4. QED
          BY <4>1, <4>2, <4>3, Zenon
      <3>2. j.field < NumFields => j.field + 1 \in 1..NumFields
        BY <1>1, SomeField
      <3>3. QED
        BY <1>1, <3>1, <3>2 DEF Steps, Quotes
    <2>9. CASE j.step = "close"
      <3>1. Advance(j) = At(j.field, "newline")
        BY <1>1, <2>9 DEF Advance
      <3>2. QED
        BY <1>1, <3>1 DEF Steps, Quotes
    <2>10. QED
      BY <1>1, <2>1, <2>2, <2>3, <2>4, <2>5, <2>6, <2>7, <2>8, <2>9 DEF Steps, Quotes
  <1>3. j.event \in {<<e>> : e \in Events} /\ j.append \in Nat
    BY DEF Jobs
  <1>4. QED
    BY <1>2, <1>3 DEF Jobs

-----------------------------------------------------------------------------
(* Reading *)

(* A line changed in one component, *)
LEMMA LineExceptOne ==
    ASSUME NEW l \in Lines, NEW p, NEW g
    PROVE  /\ [l EXCEPT !.phase = p]
                = [phase |-> p, depth |-> l.depth, field |-> l.field, got |-> l.got, fields |-> l.fields]
           /\ [l EXCEPT !.got = g]
                = [phase |-> l.phase, depth |-> l.depth, field |-> l.field, got |-> g, fields |-> l.fields]
  <1>1. l = [phase |-> l.phase, depth |-> l.depth, field |-> l.field, got |-> l.got, fields |-> l.fields]
    BY DEF Lines
  <1>2. QED
    BY <1>1

(* in two, *)
LEMMA LineExceptDepth ==
    ASSUME NEW l \in Lines, NEW p, NEW d
    PROVE  [l EXCEPT !.phase = p, !.depth = d]
             = [phase |-> p, depth |-> d, field |-> l.field, got |-> l.got, fields |-> l.fields]
  <1>1. [l EXCEPT !.phase = p] = [phase |-> p, depth |-> l.depth, field |-> l.field, got |-> l.got, fields |-> l.fields]
    BY LineExceptOne
  <1>2. [[phase |-> p, depth |-> l.depth, field |-> l.field, got |-> l.got, fields |-> l.fields] EXCEPT !.depth = d]
          = [phase |-> p, depth |-> d, field |-> l.field, got |-> l.got, fields |-> l.fields]
    OBVIOUS
  <1>3. [l EXCEPT !.phase = p, !.depth = d] = [[l EXCEPT !.phase = p] EXCEPT !.depth = d]
    BY Zenon
  <1>4. QED
    BY <1>1, <1>2, <1>3, Zenon

(* or *)
LEMMA LineExceptField ==
    ASSUME NEW l \in Lines, NEW p, NEW k
    PROVE  [l EXCEPT !.phase = p, !.field = k]
             = [phase |-> p, depth |-> l.depth, field |-> k, got |-> l.got, fields |-> l.fields]
  <1>1. [l EXCEPT !.phase = p] = [phase |-> p, depth |-> l.depth, field |-> l.field, got |-> l.got, fields |-> l.fields]
    BY LineExceptOne
  <1>2. [[phase |-> p, depth |-> l.depth, field |-> l.field, got |-> l.got, fields |-> l.fields] EXCEPT !.field = k]
          = [phase |-> p, depth |-> l.depth, field |-> k, got |-> l.got, fields |-> l.fields]
    OBVIOUS
  <1>3. [l EXCEPT !.phase = p, !.field = k] = [[l EXCEPT !.phase = p] EXCEPT !.field = k]
    BY Zenon
  <1>4. QED
    BY <1>1, <1>2, <1>3, Zenon

(* or *)
LEMMA LineExceptGot ==
    ASSUME NEW l \in Lines, NEW p, NEW g
    PROVE  [l EXCEPT !.phase = p, !.got = g]
             = [phase |-> p, depth |-> l.depth, field |-> l.field, got |-> g, fields |-> l.fields]
  <1>1. [l EXCEPT !.phase = p] = [phase |-> p, depth |-> l.depth, field |-> l.field, got |-> l.got, fields |-> l.fields]
    BY LineExceptOne
  <1>2. [[phase |-> p, depth |-> l.depth, field |-> l.field, got |-> l.got, fields |-> l.fields] EXCEPT !.got = g]
          = [phase |-> p, depth |-> l.depth, field |-> l.field, got |-> g, fields |-> l.fields]
    OBVIOUS
  <1>3. [l EXCEPT !.phase = p, !.got = g] = [[l EXCEPT !.phase = p] EXCEPT !.got = g]
    BY Zenon
  <1>4. QED
    BY <1>1, <1>2, <1>3, Zenon

(* or three. *)
LEMMA LineExceptValue ==
    ASSUME NEW l \in Lines, NEW p, NEW g, NEW fs
    PROVE  [l EXCEPT !.phase = p, !.got = g, !.fields = fs]
             = [phase |-> p, depth |-> l.depth, field |-> l.field, got |-> g, fields |-> fs]
  <1>1. [l EXCEPT !.phase = p] = [phase |-> p, depth |-> l.depth, field |-> l.field, got |-> l.got, fields |-> l.fields]
    BY LineExceptOne
  <1>2. [[phase |-> p, depth |-> l.depth, field |-> l.field, got |-> l.got, fields |-> l.fields] EXCEPT !.got = g]
          = [phase |-> p, depth |-> l.depth, field |-> l.field, got |-> g, fields |-> l.fields]
    OBVIOUS
  <1>3. [[phase |-> p, depth |-> l.depth, field |-> l.field, got |-> g, fields |-> l.fields] EXCEPT !.fields = fs]
          = [phase |-> p, depth |-> l.depth, field |-> l.field, got |-> g, fields |-> fs]
    OBVIOUS
  <1>4. [l EXCEPT !.phase = p, !.got = g, !.fields = fs] = [[[l EXCEPT !.phase = p] EXCEPT !.got = g] EXCEPT !.fields = fs]
    BY Zenon
  <1>5. QED
    BY <1>1, <1>2, <1>3, <1>4, Zenon

(* The grammar, arm by arm: what the line is after a token with this glyph. *)
Arms(l, t, g, next) ==
    /\ l.phase \in {"key", "string"} /\ g # "quote"
          => next = [l EXCEPT !.got = Append(l.got, t)]
    /\ l.phase = "key" /\ g = "quote" => next = EndKey(l)
    /\ l.phase = "string" /\ g = "quote" => next = Value(l, "next", l.got)
    /\ l.phase = "blank" =>
          next = IF g = "open" THEN [l EXCEPT !.phase = "first", !.depth = 1]
                 ELSE Line("refused")
    /\ l.phase = "first" /\ g \notin {"quote", "close"} => next = Line("refused")
    /\ l.phase = "more" /\ g # "quote" => next = Line("refused")
    /\ l.phase \in {"first", "more"} /\ g = "quote"
          => next = [l EXCEPT !.phase = "key", !.got = <<>>]
    /\ l.phase = "colon" =>
          next = IF g = "colon" THEN [l EXCEPT !.phase = "value"] ELSE Line("refused")
    /\ l.phase = "value" /\ g = "quote" =>
          next = IF Wants(l, "string")
                 THEN [l EXCEPT !.phase = "string", !.got = <<>>] ELSE Line("refused")
    /\ l.phase = "value" /\ g = "number" =>
          next = IF Wants(l, "number") THEN Value(l, "digits", <<t>>) ELSE Line("refused")
    /\ l.phase = "value" /\ g = "open" =>
          next = IF l.field = 0
                 THEN [l EXCEPT !.phase = "first", !.depth = l.depth + 1] ELSE Line("refused")
    /\ l.phase = "value" /\ g \notin {"quote", "number", "open"} => next = Line("refused")
    /\ l.phase = "digits" /\ g = "number"
          => next = Value(l, "digits", Append(l.got, t))
    /\ l.phase \in {"next", "digits"} /\ g = "comma"
          => next = [l EXCEPT !.phase = "more"]
    /\ l.phase \in {"first", "next", "digits"} /\ g = "close"
          => next = [l EXCEPT !.phase = IF l.depth = 1 THEN "whole" ELSE "next",
                                     !.depth = l.depth - 1]
    /\ l.phase = "next" /\ g \notin {"comma", "close"} => next = Line("refused")
    /\ l.phase = "digits" /\ g \notin {"comma", "close", "number"}
          => next = Line("refused")
    /\ l.phase \notin {"key", "string", "blank", "first", "more", "colon", "value",
                      "digits", "next"} => next = Line("refused")

(* It is what parse computes. *)
LEMMA ParseArms ==
    ASSUME NEW l \in Lines, NEW t \in Tokens
    PROVE  Arms(l, t, Glyph(t), parse(l, t))
  BY DEF parse, Arms

(* The reader of a name or value sees no quote in it. *)
LEMMA GlyphOf ==
    ASSUME NEW t \in Tokens
    PROVE  /\ t.step \in Quotes => Glyph(t) = "quote"
           /\ t.step \notin Quotes => Glyph(t) = t.step
           /\ t.step # "quote"
  BY DEF Glyph, Quotes, Tokens, Steps

(* A fresh line is one. *)
LEMMA LineType ==
    ASSUME NEW phase \in Phases
    PROVE  Line(phase) \in Lines /\ Line(phase).phase = phase
  <1>1. <<>> \in Strings /\ [k \in 1..NumFields |-> <<>>] \in Fields
    BY DEF Strings, Fields
  <1>2. 0 \in 0..NumFields /\ 0 \in Int
    BY SomeField
  <1>3. QED
    BY <1>1, <1>2 DEF Line, Lines

(* A field is set to the string or number just read. *)
LEMMA ValueIs ==
    ASSUME NEW l \in Lines, NEW phase \in Phases, NEW content \in Strings
    PROVE  /\ Value(l, phase, content) \in Lines
           /\ Value(l, phase, content).phase = phase
           /\ Value(l, phase, content).depth = l.depth
           /\ \A m \in 1..NumFields :
                 Value(l, phase, content).fields[m] = IF m = l.field THEN <<content>> ELSE l.fields[m]
  <1> DEFINE fs == IF l.field = 0 THEN l.fields ELSE [l.fields EXCEPT ![l.field] = <<content>>]
  <1>1. Value(l, phase, content) = [l EXCEPT !.phase = phase, !.got = content, !.fields = fs]
    BY DEF Value
  <1>2. l.fields \in Fields /\ l.depth \in Int /\ l.field \in 0..NumFields
    BY DEF Lines
  <1>3. fs \in Fields
    BY <1>2 DEF Fields
  <1>4. ASSUME NEW m \in 1..NumFields
        PROVE  fs[m] = IF m = l.field THEN <<content>> ELSE l.fields[m]
    <2>1. CASE l.field = 0
      <3>1. m # 0
        BY SomeField
      <3>2. QED
        BY <2>1, <3>1
    <2>2. CASE l.field # 0
      <3>1. m \in DOMAIN l.fields
        BY <1>2 DEF Fields
      <3>2. QED
        BY <2>2, <3>1
    <2>3. QED
      BY <2>1, <2>2
  <1> HIDE DEF fs
  <1>5. Value(l, phase, content)
          = [phase |-> phase, depth |-> l.depth, field |-> l.field, got |-> content, fields |-> fs]
    BY <1>1, LineExceptValue, Zenon
  <1>6. QED
    BY <1>2, <1>3, <1>4, <1>5 DEF Lines

(* In particular it is in the phase it is given. *)
LEMMA ValuePhase == \A l \in Lines, q \in Phases, c \in Strings : Value(l, q, c).phase = q
  BY ValueIs

(* A key ends at the field it names, or is refused. *)
LEMMA EndKeyIs ==
    ASSUME NEW l \in Lines
    PROVE  /\ KeyOf(l) \in 0..NumFields
           /\ EndKey(l) \in Lines
           /\ EndKey(l).phase # "refused" =>
                 EndKey(l) = [phase |-> "colon", depth |-> l.depth, field |-> KeyOf(l),
                              got |-> l.got, fields |-> l.fields]
  <1>1. KeyOf(l) \in 0..NumFields
    <2>1. CASE l.depth = 1 /\ Len(l.got) = 1 /\ l.got[1].step = "key"
      <3>1. l.got[1] \in Tokens
        BY <2>1 DEF Lines, Strings
      <3>2. QED
        BY <2>1, <3>1, SomeField DEF KeyOf, Tokens
    <2>2. QED
      BY <2>1, SomeField DEF KeyOf
  <1>2. [l EXCEPT !.phase = "colon", !.field = KeyOf(l)]
          = [phase |-> "colon", depth |-> l.depth, field |-> KeyOf(l), got |-> l.got,
             fields |-> l.fields]
    BY LineExceptField, Zenon
  <1>3. [phase |-> "colon", depth |-> l.depth, field |-> KeyOf(l), got |-> l.got,
         fields |-> l.fields] \in Lines
    <2>1. "colon" \in Phases
      BY DEF Phases
    <2>2. l.depth \in Int /\ l.got \in Strings /\ l.fields \in Fields
      BY DEF Lines
    <2>3. QED
      BY <1>1, <2>1, <2>2 DEF Lines
  <1>4. CASE EndKey(l) = Line("refused")
    <2>1. Line("refused") \in Lines /\ Line("refused").phase = "refused"
      BY LineType DEF Phases
    <2>2. QED
      BY <1>1, <1>4, <2>1, Zenon
  <1>5. CASE EndKey(l) # Line("refused")
    <2>1. EndKey(l) = [l EXCEPT !.phase = "colon", !.field = KeyOf(l)]
      BY <1>5 DEF EndKey
    <2>2. QED
      BY <1>1, <1>2, <1>3, <2>1, Zenon
  <1>6. QED
    BY <1>4, <1>5

(* The line stays one. *)
LEMMA ParseType ==
    ASSUME NEW l \in Lines, NEW t \in Tokens
    PROVE  parse(l, t) \in Lines
  <1> DEFINE g == Glyph(t)
             Is(q, e, m, h, gs) ==
               [phase |-> q, depth |-> e, field |-> m, got |-> h, fields |-> gs]
  <1>1. l.phase \in Phases /\ l.depth \in Int /\ l.field \in 0..NumFields
        /\ l.got \in Strings /\ l.fields \in Fields
    BY DEF Lines
  <1>2. /\ <<>> \in Strings /\ <<t>> \in Strings /\ Append(l.got, t) \in Strings
        /\ l.depth + 1 \in Int /\ l.depth - 1 \in Int /\ 1 \in Int
    BY <1>1 DEF Strings
  <1>3. \A q \in Phases, e \in Int, h \in Strings : Is(q, e, l.field, h, l.fields) \in Lines
    BY <1>1 DEF Lines
  <1>4. Line("refused") \in Lines
    BY LineType DEF Phases
  <1>5. /\ Value(l, "next", l.got) \in Lines
        /\ Value(l, "digits", <<t>>) \in Lines
        /\ Value(l, "digits", Append(l.got, t)) \in Lines
    BY <1>1, <1>2, ValueIs DEF Phases
  <1>6. EndKey(l) \in Lines
    BY EndKeyIs
  <1>7. \A q \in Phases, e \in Int, h \in Strings :
           /\ [l EXCEPT !.got = h] \in Lines
           /\ [l EXCEPT !.phase = q] \in Lines
           /\ [l EXCEPT !.phase = q, !.depth = e] \in Lines
           /\ [l EXCEPT !.phase = q, !.got = h] \in Lines
    <2> SUFFICES ASSUME NEW q \in Phases, NEW e \in Int, NEW h \in Strings
                 PROVE  /\ [l EXCEPT !.got = h] \in Lines
                        /\ [l EXCEPT !.phase = q] \in Lines
                        /\ [l EXCEPT !.phase = q, !.depth = e] \in Lines
                        /\ [l EXCEPT !.phase = q, !.got = h] \in Lines
      BY Zenon
    <2>1. /\ [l EXCEPT !.got = h] = Is(l.phase, l.depth, l.field, h, l.fields)
          /\ [l EXCEPT !.phase = q] = Is(q, l.depth, l.field, l.got, l.fields)
          /\ [l EXCEPT !.phase = q, !.depth = e] = Is(q, e, l.field, l.got, l.fields)
          /\ [l EXCEPT !.phase = q, !.got = h] = Is(q, l.depth, l.field, h, l.fields)
      <3>1. [l EXCEPT !.got = h] = Is(l.phase, l.depth, l.field, h, l.fields)
        BY LineExceptOne
      <3>2. [l EXCEPT !.phase = q] = Is(q, l.depth, l.field, l.got, l.fields)
        BY LineExceptOne
      <3>3. [l EXCEPT !.phase = q, !.depth = e] = Is(q, e, l.field, l.got, l.fields)
        BY LineExceptDepth
      <3>4. [l EXCEPT !.phase = q, !.got = h] = Is(q, l.depth, l.field, h, l.fields)
        BY LineExceptGot
      <3>5. QED
        BY <3>1, <3>2, <3>3, <3>4, Zenon
    <2>2. /\ Is(l.phase, l.depth, l.field, h, l.fields) \in Lines
          /\ Is(q, l.depth, l.field, l.got, l.fields) \in Lines
          /\ Is(q, e, l.field, l.got, l.fields) \in Lines
          /\ Is(q, l.depth, l.field, h, l.fields) \in Lines
      BY <1>1, <1>3
    <2>3. QED
      BY <2>1, <2>2, Zenon
  <1>8. \A q \in Phases : q \in {"key", "string", "blank", "first", "more", "colon", "value",
                                 "digits", "next", "whole", "refused"}
    BY DEF Phases
  <1> HIDE DEF g, Is
  <1>9. /\ "first" \in Phases /\ "key" \in Phases /\ "value" \in Phases /\ "string" \in Phases
        /\ "more" \in Phases /\ "whole" \in Phases /\ "next" \in Phases
    BY DEF Phases
  <1>10. (IF l.depth = 1 THEN "whole" ELSE "next") \in Phases
    BY <1>9
  <1> DEFINE ended == [l EXCEPT !.phase = IF l.depth = 1 THEN "whole" ELSE "next", !.depth = l.depth - 1]
  <1>11. ended \in Lines
    BY <1>2, <1>7, <1>10, <1>1
  <1> HIDE DEF ended
  <1>12. \/ parse(l, t) \in {Line("refused"), EndKey(l), Value(l, "next", l.got), ended,
                             Value(l, "digits", <<t>>), Value(l, "digits", Append(l.got, t))}
         \/ parse(l, t) \in {[l EXCEPT !.got = Append(l.got, t)],
                             [l EXCEPT !.phase = "first", !.depth = 1],
                             [l EXCEPT !.phase = "key", !.got = <<>>],
                             [l EXCEPT !.phase = "value"],
                             [l EXCEPT !.phase = "string", !.got = <<>>],
                             [l EXCEPT !.phase = "first", !.depth = l.depth + 1],
                             [l EXCEPT !.phase = "more"]}
    <2> DEFINE r == parse(l, t)
               h == Glyph(t)
    <2>1. Arms(l, t, h, r)
      BY ParseArms
    <2> HIDE DEF r, h
    <2>2. \/ r \in {Line("refused"), EndKey(l), Value(l, "next", l.got), ended,
                    Value(l, "digits", <<t>>), Value(l, "digits", Append(l.got, t))}
          \/ r \in {[l EXCEPT !.got = Append(l.got, t)],
                    [l EXCEPT !.phase = "first", !.depth = 1],
                    [l EXCEPT !.phase = "key", !.got = <<>>],
                    [l EXCEPT !.phase = "value"],
                    [l EXCEPT !.phase = "string", !.got = <<>>],
                    [l EXCEPT !.phase = "first", !.depth = l.depth + 1],
                    [l EXCEPT !.phase = "more"]}
      BY <2>1 DEF Arms, ended
    <2>3. QED
      BY <2>2 DEF r
  <1>13. /\ [l EXCEPT !.got = Append(l.got, t)] \in Lines
         /\ [l EXCEPT !.phase = "first", !.depth = 1] \in Lines
         /\ [l EXCEPT !.phase = "key", !.got = <<>>] \in Lines
         /\ [l EXCEPT !.phase = "value"] \in Lines
         /\ [l EXCEPT !.phase = "string", !.got = <<>>] \in Lines
         /\ [l EXCEPT !.phase = "first", !.depth = l.depth + 1] \in Lines
         /\ [l EXCEPT !.phase = "more"] \in Lines
    BY <1>1, <1>2, <1>7, <1>9, Zenon
  <1>14. QED
    BY <1>4, <1>5, <1>6, <1>11, <1>12, <1>13, Zenon

(* The reader is a fold over the writes, *)
LEMMA ScanIsFold ==
    \A f : scan(f) = ReadFold!Fold([events |-> <<>>, failed |-> FALSE, line |-> Line("blank")], f)
  BY DEF scan, ReadFold!Fold, FoldLeft, MapThenFoldSet, Max,
         ReadFold!FoldLeft, ReadFold!MapThenFoldSet, ReadFold!Max

(* which begins with nothing read *)
LEMMA ScanEmpty == scan(<<>>) = [events |-> <<>>, failed |-> FALSE, line |-> Line("blank")]
  BY ScanIsFold, ReadFold!FoldEmpty

(* and takes one more step for one more write. *)
LEMMA ScanAppend ==
    ASSUME NEW f \in Seq(Tokens), NEW t \in Tokens
    PROVE  scan(Append(f, t)) = take(scan(f), t)
  BY ScanIsFold, ReadFold!FoldAppend

(* A write within a line is parsed. *)
LEMMA TakeToken ==
    ASSUME NEW acc \in Reads, NEW t \in Tokens, t.step # "newline"
    PROVE  /\ take(acc, t) \in Reads
           /\ take(acc, t).events = acc.events /\ take(acc, t).failed = acc.failed
           /\ take(acc, t).line = parse(acc.line, t)
  <1>1. take(acc, t) = [acc EXCEPT !.line = parse(acc.line, t)]
    BY DEF take
  <1>2. acc.line \in Lines /\ parse(acc.line, t) \in Lines
    BY ParseType DEF Reads
  <1>3. QED
    BY <1>1, <1>2 DEF Reads

(* What has been read changes in two components, *)
LEMMA ReadExceptEvents ==
    ASSUME NEW acc \in Reads, NEW v, NEW l
    PROVE  [acc EXCEPT !.events = v, !.line = l] = [events |-> v, failed |-> acc.failed, line |-> l]
  <1>1. acc = [events |-> acc.events, failed |-> acc.failed, line |-> acc.line]
    BY DEF Reads
  <1>2. [acc EXCEPT !.events = v] = [events |-> v, failed |-> acc.failed, line |-> acc.line]
    BY <1>1
  <1>3. [[events |-> v, failed |-> acc.failed, line |-> acc.line] EXCEPT !.line = l]
          = [events |-> v, failed |-> acc.failed, line |-> l]
    OBVIOUS
  <1>4. [acc EXCEPT !.events = v, !.line = l] = [[acc EXCEPT !.events = v] EXCEPT !.line = l]
    BY Zenon
  <1>5. QED
    BY <1>2, <1>3, <1>4, Zenon

(* or these two. *)
LEMMA ReadExceptFailed ==
    ASSUME NEW acc \in Reads, NEW v, NEW l
    PROVE  [acc EXCEPT !.failed = v, !.line = l] = [events |-> acc.events, failed |-> v, line |-> l]
  <1>1. acc = [events |-> acc.events, failed |-> acc.failed, line |-> acc.line]
    BY DEF Reads
  <1>2. [acc EXCEPT !.failed = v] = [events |-> acc.events, failed |-> v, line |-> acc.line]
    BY <1>1
  <1>3. [[events |-> acc.events, failed |-> v, line |-> acc.line] EXCEPT !.line = l]
          = [events |-> acc.events, failed |-> v, line |-> l]
    OBVIOUS
  <1>4. [acc EXCEPT !.failed = v, !.line = l] = [[acc EXCEPT !.failed = v] EXCEPT !.line = l]
    BY Zenon
  <1>5. QED
    BY <1>2, <1>3, <1>4, Zenon

(* The end of a line adds an event, or fails for good, or finds it blank. *)
LEMMA EndLine ==
    ASSUME NEW acc \in Reads
    PROVE  /\ end_line(acc) \in Reads
           /\ acc.line.phase = "blank" => end_line(acc) = acc
           /\ acc.failed => end_line(acc).failed
           /\ ~end_line(acc).failed => acc.line.phase \in {"blank", "whole"}
           /\ acc.line.phase = "whole" /\ ~end_line(acc).failed =>
                 /\ end_line(acc).line = Line("blank")
                 /\ end_line(acc).events
                      = Append(acc.events, [k \in 1..NumFields |-> acc.line.fields[k][1]])
           /\ Len(end_line(acc).events) <= Len(acc.events) + 1
  <1> DEFINE whole == acc.line.phase = "whole" /\ \A k \in 1..NumFields : acc.line.fields[k] # <<>>
             event == [k \in 1..NumFields |-> acc.line.fields[k][1]]
             blank == Line("blank")
             Is(v, f, l) == [events |-> v, failed |-> f, line |-> l]
  <1>1. /\ acc = Is(acc.events, acc.failed, acc.line)
        /\ acc.events \in Seq([1..NumFields -> Strings]) /\ acc.failed \in BOOLEAN
        /\ acc.line \in Lines /\ acc.line.fields \in Fields
    BY DEF Reads, Lines
  <1>2. blank \in Lines /\ blank.phase = "blank"
    BY LineType DEF Phases
  <1>3. CASE acc.line.phase = "blank"
    <2>1. end_line(acc) = acc
      BY <1>3 DEF end_line
    <2>2. QED
      BY <1>1, <1>3, <2>1
  <1>4. CASE acc.line.phase # "blank" /\ whole
    <2>1. end_line(acc) = [acc EXCEPT !.events = Append(@, event), !.line = blank]
      BY <1>4 DEF end_line
    <2>2. [acc EXCEPT !.events = Append(@, event), !.line = blank]
            = Is(Append(acc.events, event), acc.failed, blank)
      BY ReadExceptEvents, Zenon
    <2>5. end_line(acc) = Is(Append(acc.events, event), acc.failed, blank)
      BY <2>1, <2>2, Zenon
    <2>6. event \in [1..NumFields -> Strings]
      <3> SUFFICES ASSUME NEW k \in 1..NumFields PROVE acc.line.fields[k][1] \in Strings
        OBVIOUS
      <3>1. acc.line.fields[k] \in {<<>>} \cup {<<s>> : s \in Strings}
        BY <1>1 DEF Fields
      <3>2. PICK s \in Strings : acc.line.fields[k] = <<s>>
        BY <1>4, <3>1
      <3>3. QED
        BY <3>2
    <2> HIDE DEF event, blank
    <2>7. /\ Append(acc.events, event) \in Seq([1..NumFields -> Strings])
          /\ Len(Append(acc.events, event)) = Len(acc.events) + 1 /\ Len(acc.events) \in Nat
      BY <1>1, <2>6
    <2>8. end_line(acc) \in Reads
      BY <1>1, <1>2, <2>5, <2>7 DEF Reads
    <2>9. QED
      BY <1>4, <2>5, <2>7, <2>8 DEF event, blank
  <1>5. CASE acc.line.phase # "blank" /\ ~whole
    <2>1. end_line(acc) = [acc EXCEPT !.failed = TRUE, !.line = blank]
      BY <1>5 DEF end_line
    <2>2. [acc EXCEPT !.failed = TRUE, !.line = blank] = Is(acc.events, TRUE, blank)
      BY ReadExceptFailed, Zenon
    <2>5. end_line(acc) = Is(acc.events, TRUE, blank)
      BY <2>1, <2>2, Zenon
    <2> HIDE DEF blank
    <2>6. end_line(acc) \in Reads
      BY <1>1, <1>2, <2>5 DEF Reads
    <2>7. QED
      BY <1>1, <1>5, <2>5, <2>6
  <1>6. QED
    BY <1>3, <1>4, <1>5

(* So the reader stays in Reads. *)
LEMMA TakeType ==
    ASSUME NEW acc \in Reads, NEW t \in Tokens
    PROVE  take(acc, t) \in Reads
  BY TakeToken, EndLine DEF take

(* A brace in a string stays there. *)
LEMMA BraceStays ==
    ASSUME NEW f \in Seq(Tokens), NEW t \in Tokens, BraceInString(f)
    PROVE  BraceInString(Append(f, t))
  <1>1. Len(f) \in Nat /\ Len(Append(f, t)) = Len(f) + 1 /\ \A i \in 1..Len(f) : Append(f, t)[i] = f[i]
    OBVIOUS
  <1>2. QED
    BY <1>1 DEF BraceInString

-----------------------------------------------------------------------------
(* The invariant *)

(* What a field holds is what event e wrote as its m-th, and nothing else. *)
Holds(content, e, m) ==
    \E t \in Tokens : content = << <<t>> >> /\ t.event = e /\ t.field = m

(* The line is what the writes of e before step p of field k make it. *)
Follows(l, e, k, p) ==
    /\ \A m \in 1..NumFields : m < k \/ p \in {"close", "newline"} => Holds(l.fields[m], e, m)
    /\ p # "newline" => l.depth = 1
    /\ p = "key_begin" => l.phase \in {"first", "more"}
    /\ p = "key" => l.phase = "key" /\ l.got = <<>>
    /\ p = "key_end" => /\ l.phase = "key"
                        /\ \E t \in Tokens : l.got = <<t>> /\ t.step = "key" /\ t.field = k
    /\ p = "colon" => l.phase = "colon" /\ l.field = k
    /\ p \in {"value_begin", "number"} => l.phase = "value" /\ l.field = k
    /\ p = "value" => l.phase = "string" /\ l.field = k /\ l.got = <<>>
    /\ p = "value_end" => /\ l.phase = "string" /\ l.field = k
                          /\ \E t \in Tokens : l.got = <<t>> /\ t.event = e /\ t.field = k
    /\ p \in {"comma", "close"} => l.phase \in {"next", "digits"}
    /\ p = "newline" => l.phase = "whole"

(* The next write of e carries the line on, unless it is refused. *)
LEMMA FollowsOn ==
    ASSUME NEW l \in Lines, NEW e, NEW j \in Jobs, j.event = <<e>>,
           j.step \notin {"open", "newline"}, Follows(l, e, j.field, j.step),
           parse(l, Token(j)).phase # "refused"
    PROVE  Follows(parse(l, Token(j)), e, Advance(j).field, Advance(j).step)
  <1> DEFINE t == Token(j)
             k == j.field
             p == j.step
             l1 == parse(l, t)
             n == Advance(j)
             g == Glyph(t)
  <1>1. /\ t \in Tokens /\ t.step = p /\ t.field = k /\ t.event = e
        /\ k \in 1..NumFields /\ p \in Steps \ {"open", "newline"}
    BY TokenType DEF Jobs
  <1>2. /\ p \in Quotes => g = "quote"
        /\ p \notin Quotes => g = p
    BY <1>1, GlyphOf
  <1>3. /\ <<>> \in Strings /\ <<t>> \in Strings /\ l.got \in Strings /\ 1 \in Int
        /\ l.fields \in Fields
    BY <1>1 DEF Strings, Lines
  <1>4. l1.phase # "refused"
    OBVIOUS
  <1>5. NumFields \in Nat \ {0}
    BY SomeField
  <1>6. Line("refused").phase = "refused"
    BY LineType DEF Phases
  <1>a. Arms(l, t, g, l1)
    BY <1>1, ParseArms
  <1> HIDE DEF t, l1, n, g
  <1>7. CASE p = "key_begin"
    <2>1. l1 = [l EXCEPT !.phase = "key", !.got = <<>>]
      BY <1>1, <1>2, <1>7, <1>a DEF Follows, Quotes, Arms
    <2>2. l1 = [phase |-> "key", depth |-> l.depth, field |-> l.field, got |-> <<>>, fields |-> l.fields]
      BY <2>1, LineExceptGot
    <2>3. n.step = "key" /\ n.field = k
      BY <1>7 DEF Advance, Jobs, n
    <2>4. QED
      BY <1>7, <2>2, <2>3 DEF Follows, l1, n, t
  <1>8. CASE p = "key"
    <2>1. l1 = [l EXCEPT !.got = Append(l.got, t)]
      BY <1>1, <1>2, <1>8, <1>a DEF Follows, Quotes, Arms
    <2>2. l1 = [phase |-> l.phase, depth |-> l.depth, field |-> l.field, got |-> Append(l.got, t),
                fields |-> l.fields]
      BY <2>1, LineExceptOne
    <2>3. n.step = "key_end" /\ n.field = k
      BY <1>8 DEF Advance, Jobs, n
    <2>a. l.got = <<>>
      BY <1>8 DEF Follows
    <2>4. Append(l.got, t) = <<t>>
      BY <2>a
    <2>5. QED
      BY <1>1, <1>8, <2>2, <2>3, <2>4 DEF Follows, l1, n, t
  <1>9. CASE p = "key_end"
    <2>1. l1 = EndKey(l)
      BY <1>1, <1>2, <1>9, <1>a DEF Follows, Quotes, Arms
    <2>2. l1 = [phase |-> "colon", depth |-> l.depth, field |-> KeyOf(l), got |-> l.got,
                fields |-> l.fields]
      BY <1>4, <2>1, EndKeyIs
    <2>3. KeyOf(l) = k
      BY <1>9 DEF Follows, KeyOf
    <2>4. n.step = "colon" /\ n.field = k
      BY <1>9 DEF Advance, Jobs, n
    <2>5. QED
      BY <1>9, <2>2, <2>3, <2>4 DEF Follows, l1, n, t
  <1>10. CASE p = "colon"
    <2>1. l1 = [l EXCEPT !.phase = "value"]
      BY <1>1, <1>2, <1>10, <1>a DEF Follows, Quotes, Arms
    <2>2. l1 = [phase |-> "value", depth |-> l.depth, field |-> l.field, got |-> l.got,
                fields |-> l.fields]
      BY <2>1, LineExceptOne
    <2>3. n.step \in {"value_begin", "number"} /\ n.field = k
      BY <1>10 DEF Advance, Jobs, n
    <2>4. QED
      BY <1>10, <2>2, <2>3 DEF Follows, l1, n, t
  <1>11. CASE p = "value_begin"
    <2>1. l1 = [l EXCEPT !.phase = "string", !.got = <<>>]
      BY <1>1, <1>2, <1>4, <1>6, <1>11, <1>a DEF Follows, Quotes, Arms
    <2>2. l1 = [phase |-> "string", depth |-> l.depth, field |-> l.field, got |-> <<>>,
                fields |-> l.fields]
      BY <2>1, LineExceptGot
    <2>3. n.step = "value" /\ n.field = k
      BY <1>11 DEF Advance, Jobs, n
    <2>4. QED
      BY <1>11, <2>2, <2>3 DEF Follows, l1, n, t
  <1>12. CASE p = "value"
    <2>1. l1 = [l EXCEPT !.got = Append(l.got, t)]
      BY <1>1, <1>2, <1>12, <1>a DEF Follows, Quotes, Arms
    <2>2. l1 = [phase |-> l.phase, depth |-> l.depth, field |-> l.field, got |-> Append(l.got, t),
                fields |-> l.fields]
      BY <2>1, LineExceptOne
    <2>3. n.step = "value_end" /\ n.field = k
      BY <1>12 DEF Advance, Jobs, n
    <2>a. l.got = <<>>
      BY <1>12 DEF Follows
    <2>4. Append(l.got, t) = <<t>>
      BY <2>a
    <2>5. QED
      BY <1>1, <1>12, <2>2, <2>3, <2>4 DEF Follows, l1, n, t
  <1>13. CASE p \in {"value_end", "number"}
    <2>1. \E content \in Strings, q \in {"next", "digits"} :
             l1 = Value(l, q, content) /\ Holds(<<content>>, e, k)
      <3>1. CASE p = "value_end"
        <4>1. l1 = Value(l, "next", l.got)
          BY <1>1, <1>2, <3>1, <1>a DEF Follows, Quotes, Arms
        <4>2. Holds(<<l.got>>, e, k)
          BY <3>1 DEF Follows, Holds
        <4>3. QED
          BY <1>3, <4>1, <4>2
      <3>2. CASE p = "number"
        <4>1. l1 = Value(l, "digits", <<t>>)
          BY <1>1, <1>2, <1>4, <1>6, <3>2, <1>a DEF Follows, Quotes, Arms
        <4>2. Holds(<< <<t>> >>, e, k)
          BY <1>1 DEF Holds
        <4>3. QED
          BY <1>3, <4>1, <4>2
      <3>3. QED
        BY <1>13, <3>1, <3>2
    <2>2. l.field = k /\ l.depth = 1
      BY <1>13 DEF Follows
    <2>3. /\ l1.phase \in {"next", "digits"} /\ l1.depth = 1
          /\ Holds(l1.fields[k], e, k)
          /\ \A m \in 1..NumFields : m # k => l1.fields[m] = l.fields[m]
      <3>1. PICK content \in Strings, q \in {"next", "digits"} :
               l1 = Value(l, q, content) /\ Holds(<<content>>, e, k)
        BY <2>1
      <3>2. q \in Phases
        BY DEF Phases
      <3>3. /\ l1.phase = q /\ l1.depth = l.depth
            /\ \A m \in 1..NumFields : l1.fields[m] = IF m = l.field THEN <<content>> ELSE l.fields[m]
        BY <3>1, <3>2, ValueIs
      <3>4. QED
        BY <1>1, <2>2, <3>1, <3>3
    <2>4. \/ n.step = "comma" /\ n.field = k + 1
          \/ n.step = "close" /\ n.field = k /\ k = NumFields
      <3>1. Advance(j) = IF k < NumFields THEN [j EXCEPT !.step = "comma", !.field = @ + 1]
                         ELSE [j EXCEPT !.step = "close"]
        BY <1>13, Zenon DEF Advance
      <3>2. j = [event |-> j.event, append |-> j.append, field |-> j.field, step |-> j.step]
        BY DEF Jobs
      <3>3. CASE k < NumFields
        <4>1. [j EXCEPT !.step = "comma", !.field = @ + 1]
                = [[j EXCEPT !.step = "comma"] EXCEPT !.field = j.field + 1]
          BY Zenon
        <4>2. n = [[j EXCEPT !.step = "comma"] EXCEPT !.field = j.field + 1]
          BY <3>1, <3>3, <4>1 DEF n
        <4>3. QED
          BY <3>2, <4>2
      <3>4. CASE ~(k < NumFields)
        <4>1. n = [j EXCEPT !.step = "close"]
          BY <3>1, <3>4 DEF n
        <4>2. QED
          BY <1>1, <1>5, <3>2, <3>4, <4>1
      <3>5. QED
        BY <3>3, <3>4
    <2>5. \A m \in 1..NumFields : m < k => Holds(l.fields[m], e, m)
      BY <1>13 DEF Follows
    <2>6. \A m \in 1..NumFields : m <= k => Holds(l1.fields[m], e, m)
      BY <1>1, <2>3, <2>5
    <2>7. \A m \in 1..NumFields : m < n.field \/ n.step \in {"close", "newline"} => m <= k
      BY <1>1, <1>5, <2>4
    <2>8. QED
      BY <2>3, <2>4, <2>6, <2>7 DEF Follows, l1, n, t
  <1>14. CASE p = "comma"
    <2>1. l1 = [l EXCEPT !.phase = "more"]
      BY <1>1, <1>2, <1>14, <1>a DEF Follows, Quotes, Arms
    <2>2. l1 = [phase |-> "more", depth |-> l.depth, field |-> l.field, got |-> l.got,
                fields |-> l.fields]
      BY <2>1, LineExceptOne
    <2>3. n.step = "key_begin" /\ n.field = k
      BY <1>14 DEF Advance, Jobs, n
    <2>4. QED
      BY <1>14, <2>2, <2>3 DEF Follows, l1, n, t
  <1>15. CASE p = "close"
    <2>1. l1 = [l EXCEPT !.phase = IF l.depth = 1 THEN "whole" ELSE "next", !.depth = l.depth - 1]
      BY <1>1, <1>2, <1>15, <1>a DEF Follows, Quotes, Arms
    <2>2. l1 = [phase |-> IF l.depth = 1 THEN "whole" ELSE "next", depth |-> l.depth - 1,
                field |-> l.field, got |-> l.got, fields |-> l.fields]
      BY <2>1, LineExceptDepth
    <2>3. n.step = "newline" /\ n.field = k
      BY <1>15 DEF Advance, Jobs, n
    <2>4. QED
      BY <1>15, <2>2, <2>3 DEF Follows, l1, n, t
  <1>16. QED
    BY <1>1, <1>7, <1>8, <1>9, <1>10, <1>11, <1>12, <1>13, <1>14, <1>15 DEF Steps, Quotes

(* A job that has written nothing, and one between the quotes of a string. *)
Waiting(j) == j.step \in {"idle", "open"}

InString(j) == j.step \in {"key", "key_end", "value", "value_end"}

(* f[i] is the opening quote of the string that j is in; *)
OpenedAt(f, j, i) ==
    /\ f[i].append = j.append /\ f[i].field = j.field
    /\ f[i].step = IF j.step \in {"key", "key_end"} THEN "key_begin" ELSE "value_begin"

(* and a brace was written since.  Its closing quote makes BraceInString.   *)
Trapped(f, j) ==
    /\ InString(j)
    /\ \E i, b \in 1..Len(f) : i < b /\ OpenedAt(f, j, i) /\ f[b].step = "open"

StringsOpened ==
    \A w \in Writers : InString(job[w]) => \E i \in 1..Len(file) : OpenedAt(file, job[w], i)

(* What has been read so far may still make a payload. *)
Readable(f) == ~scan(f).failed /\ scan(f).line.phase # "refused" /\ ~BraceInString(f)

(* Then the events read are those whose append returned Ok, in that order, *)
EndedLines ==
    LET events == scan(file).events
    IN  Len(events) = Len(appended) /\ \A i \in 1..Len(events) : Bills(events[i], appended[i])

(* and the line being written is blank, nobody having written to it;        *)
Blank ==
    /\ scan(file).line = Line("blank")
    /\ \A w \in Writers : Waiting(job[w])
    /\ file # <<>> => Last(file).step = "newline"

(* or one event's, whose writer, if it lives, is at that place of it, and   *)
(* nobody else has written to it;                                           *)
UnderWay ==
    \E e \in Events, k \in 1..NumFields, p \in Steps \ {"open"} :
        /\ Follows(scan(file).line, e, k, p)
        /\ \A w \in Writers : ~Waiting(job[w]) =>
              job[w].event = <<e>> /\ job[w].field = k /\ job[w].step = p
        /\ \A v, w \in Writers : ~Waiting(job[v]) /\ ~Waiting(job[w]) => v = w
        /\ p = "newline" => Last(file).step = "close" /\ Last(file).event = e

(* or struck by another's brace inside a string, which nobody can close     *)
(* but its writer or another's first quote;                                 *)
Struck ==
    /\ scan(file).line.phase \in {"key", "string"}
    /\ \A w \in Writers :
          Waiting(job[w]) \/ job[w].step = "key_begin" \/ Trapped(file, job[w])

(* or stuck, that quote having closed it: nobody has anything to write that *)
(* may follow.                                                              *)
Stuck ==
    /\ scan(file).line.phase \in {"colon", "next"}
    /\ \A w \in Writers : job[w].step \notin {"colon", "comma", "close"}

SpoolInv ==
    /\ TypeOK
    /\ StringsOpened
    /\ Len(scan(file).events) <= Len(appended)
    /\ Readable(file) => EndedLines /\ (Blank \/ UnderWay \/ Struck \/ Stuck)

(* The spool invariant holds of an empty file, *)
LEMMA SpoolInit == Init => SpoolInv
  <1> SUFFICES ASSUME Init PROVE SpoolInv
    OBVIOUS
  <1>1. file = <<>> /\ appended = <<>> /\ started = 0 /\ job = [w \in Writers |-> NoJob]
    BY DEF Init
  <1>2. scan(file) = [events |-> <<>>, failed |-> FALSE, line |-> Line("blank")]
    BY <1>1, ScanEmpty
  <1>3. scan(file) \in Reads
    <2>1. Line("blank") \in Lines /\ <<>> \in Seq([1..NumFields -> Strings])
      BY LineType DEF Phases
    <2>2. QED
      BY <1>2, <2>1 DEF Reads
  <1>4. TypeOK
    BY <1>1, <1>3 DEF TypeOK
  <1>5. \A w \in Writers : job[w].step = "idle"
    BY <1>1 DEF NoJob
  <1>6. StringsOpened /\ Blank
    BY <1>1, <1>2, <1>5 DEF StringsOpened, InString, Blank, Waiting
  <1>7. EndedLines /\ Len(scan(file).events) <= Len(appended)
    BY <1>1, <1>2 DEF EndedLines
  <1>8. QED
    BY <1>4, <1>6, <1>7 DEF SpoolInv

(* Steps that leave the spool alone: a job is dropped, or begins. *)
LEMMA JobStep ==
    ASSUME SpoolInv, UNCHANGED <<file, appended>>, started' \in Nat,
           NEW w \in Writers, NEW j \in Jobs \cup {NoJob}, Waiting(j),
           job' = [job EXCEPT ![w] = j]
    PROVE  SpoolInv'
  <1>1. \A v \in Writers : job'[v] = IF v = w THEN j ELSE job[v]
    BY DEF SpoolInv, TypeOK
  <1>2. TypeOK'
    BY <1>1 DEF SpoolInv, TypeOK
  <1>3. ~InString(j)
    BY DEF Waiting, InString
  <1>4. StringsOpened'
    BY <1>1, <1>3 DEF SpoolInv, StringsOpened
  <1>5. /\ scan(file)' = scan(file)
        /\ Readable(file') = Readable(file)
        /\ (EndedLines => EndedLines')
    BY DEF EndedLines
  <1>6. Blank => Blank'
    BY <1>1 DEF Blank
  <1>7. UnderWay => UnderWay'
    BY <1>1 DEF UnderWay
  <1>8. Struck => Struck'
    BY <1>1 DEF Struck
  <1>9. Stuck => Stuck'
    BY <1>1 DEF Stuck, Waiting
  <1>10. QED
    BY <1>2, <1>4, <1>5, <1>6, <1>7, <1>8, <1>9 DEF SpoolInv

(* What a line that follows one event says of that event's next write. *)
LEMMA PhaseTells ==
    ASSUME NEW l, NEW e, NEW k \in 1..NumFields, NEW p \in Steps \ {"open"}, Follows(l, e, k, p)
    PROVE  /\ l.phase \notin {"blank", "refused"}
           /\ l.phase = "whole" => p = "newline"
           /\ p = "newline" => l.phase = "whole"
           /\ l.phase \in {"key", "string"} => p \in {"key", "key_end", "value", "value_end"}
           /\ l.phase = "value" => l.field # 0
  <1>1. l.phase = "value" => l.field = k
    BY DEF Follows, Steps, Quotes
  <1>2. k # 0
    BY SomeField
  <1>3. QED
    BY <1>1, <1>2 DEF Follows, Steps, Quotes

(* Where a job goes next. *)
LEMMA Following ==
    ASSUME NEW j \in Jobs, j.step # "newline"
    PROVE  /\ j.step \in {"open", "comma"} => Advance(j).step = "key_begin"
           /\ j.step = "key_begin" => Advance(j).step = "key"
           /\ j.step = "key" => Advance(j).step = "key_end"
           /\ j.step = "value_begin" => Advance(j).step = "value"
           /\ j.step = "value" => Advance(j).step = "value_end"
           /\ Advance(j).step = "newline" => j.step = "close"
           /\ InString(Advance(j)) => j.step \in {"key_begin", "key", "value_begin", "value"}
           /\ InString(Advance(j)) \/ j.step = "open" => Advance(j).field = j.field
           /\ ~Waiting(Advance(j))
  <1> DEFINE n == Advance(j)
  <1>1. j = [event |-> j.event, append |-> j.append, field |-> j.field, step |-> j.step]
        /\ j.step \in Steps \ {"newline"}
    BY DEF Jobs
  <1>2. \A s : [j EXCEPT !.step = s].step = s /\ [j EXCEPT !.step = s].field = j.field
    BY <1>1
  <1>3. CASE j.step \in {"value_end", "number"}
    <2>1. [j EXCEPT !.step = "comma", !.field = @ + 1] = [[j EXCEPT !.step = "comma"] EXCEPT !.field = j.field + 1]
      BY Zenon
    <2>2. [[j EXCEPT !.step = "comma"] EXCEPT !.field = j.field + 1].step = "comma"
      BY <1>1
    <2>3. n = IF j.field < NumFields THEN [j EXCEPT !.step = "comma", !.field = @ + 1]
              ELSE [j EXCEPT !.step = "close"]
      BY <1>3, Zenon DEF Advance
    <2>4. n.step \in {"comma", "close"}
      BY <1>2, <2>1, <2>2, <2>3
    <2> HIDE DEF n
    <2>5. QED
      BY <1>3, <2>4 DEF InString, Waiting, n
  <1>4. CASE j.step \notin {"value_end", "number"}
    <2>1. \E s \in Steps : n = [j EXCEPT !.step = s] /\
             \/ j.step \in {"open", "comma"} /\ s = "key_begin"
             \/ j.step = "key_begin" /\ s = "key"
             \/ j.step = "key" /\ s = "key_end"
             \/ j.step = "key_end" /\ s = "colon"
             \/ j.step = "colon" /\ s \in {"value_begin", "number"}
             \/ j.step = "value_begin" /\ s = "value"
             \/ j.step = "value" /\ s = "value_end"
             \/ j.step = "close" /\ s = "newline"
      BY <1>1, <1>4 DEF Advance, Steps, Quotes
    <2>2. n.field = j.field /\
             \/ j.step \in {"open", "comma"} /\ n.step = "key_begin"
             \/ j.step = "key_begin" /\ n.step = "key"
             \/ j.step = "key" /\ n.step = "key_end"
             \/ j.step = "key_end" /\ n.step = "colon"
             \/ j.step = "colon" /\ n.step \in {"value_begin", "number"}
             \/ j.step = "value_begin" /\ n.step = "value"
             \/ j.step = "value" /\ n.step = "value_end"
             \/ j.step = "close" /\ n.step = "newline"
      BY <1>2, <2>1
    <2> HIDE DEF n
    <2>3. QED
      BY <2>2 DEF InString, Waiting, n
  <1>5. QED
    BY <1>3, <1>4

(* The opening quote of a string stays where it is, *)
LEMMA OpenedStays ==
    ASSUME NEW f \in Seq(Tokens), NEW t \in Tokens, NEW j, NEW i \in 1..Len(f), OpenedAt(f, j, i)
    PROVE  OpenedAt(Append(f, t), j, i) /\ i \in 1..Len(Append(f, t))
  <1>1. Append(f, t)[i] = f[i] /\ i \in 1..Len(Append(f, t))
    OBVIOUS
  <1>2. QED
    BY <1>1 DEF OpenedAt

(* and so does the brace after it. *)
LEMMA TrappedStays ==
    ASSUME NEW f \in Seq(Tokens), NEW t \in Tokens, NEW j, Trapped(f, j)
    PROVE  Trapped(Append(f, t), j)
  <1>1. PICK i, b \in 1..Len(f) : i < b /\ OpenedAt(f, j, i) /\ f[b].step = "open"
    BY DEF Trapped
  <1>2. Append(f, t)[b] = f[b] /\ b \in 1..Len(Append(f, t))
    OBVIOUS
  <1>3. OpenedAt(Append(f, t), j, i) /\ i \in 1..Len(Append(f, t))
    BY <1>1, OpenedStays
  <1>4. QED
    BY <1>1, <1>2, <1>3 DEF Trapped

(* A job that enters a string has written its opening quote, and one that   *)
(* goes on in a string is in the same.                                      *)
LEMMA OpenedOn ==
    ASSUME NEW f \in Seq(Tokens), NEW j \in Jobs, j.step # "newline", InString(Advance(j))
    PROVE  LET after == Append(f, Token(j))
           IN  /\ ~InString(j) => OpenedAt(after, Advance(j), Len(f) + 1) /\ Len(f) + 1 \in 1..Len(after)
               /\ InString(j) => \A i : OpenedAt(f, j, i) <=> OpenedAt(f, Advance(j), i)
  <1> DEFINE t == Token(j)
             n == Advance(j)
             after == Append(f, t)
  <1>1. /\ t \in Tokens /\ t.step = j.step /\ t.field = j.field /\ t.append = j.append
        /\ n.append = j.append /\ n.field = j.field
    BY TokenType, AdvanceType, Following
  <1>2. j.step \in {"key_begin", "key", "value_begin", "value"}
    BY Following
  <1>3. /\ j.step = "key_begin" => n.step = "key"
        /\ j.step = "key" => n.step = "key_end"
        /\ j.step = "value_begin" => n.step = "value"
        /\ j.step = "value" => n.step = "value_end"
    BY Following
  <1> HIDE DEF t, n
  <1>4. after[Len(f) + 1] = t /\ Len(f) + 1 \in 1..Len(after)
    BY <1>1
  <1> HIDE DEF after
  <1>5. ~InString(j) => OpenedAt(after, n, Len(f) + 1)
    BY <1>1, <1>2, <1>3, <1>4 DEF OpenedAt, InString
  <1>6. InString(j) => \A i : OpenedAt(f, j, i) <=> OpenedAt(f, n, i)
    BY <1>1, <1>2, <1>3 DEF OpenedAt, InString
  <1>7. QED
    BY <1>4, <1>5, <1>6 DEF after, n, t

(* A line that was not readable is not made so by another write of it. *)
LEMMA ReadableBefore ==
    ASSUME NEW f \in Seq(Tokens), NEW t \in Tokens, scan(f) \in Reads, Readable(Append(f, t))
    PROVE  /\ Readable(f)
           /\ t.step # "newline" => /\ scan(Append(f, t)).line = parse(scan(f).line, t)
                                   /\ parse(scan(f).line, t).phase # "refused"
  <1> DEFINE old == scan(f)
             new == scan(Append(f, t))
  <1>1. new = take(old, t)
    BY ScanAppend
  <1>2. ~BraceInString(f)
    BY BraceStays DEF Readable
  <1>3. CASE t.step = "newline"
    <2>1. new = end_line(old)
      BY <1>1, <1>3 DEF take
    <2>2. ~end_line(old).failed
      BY <2>1 DEF Readable
    <2>3. ~old.failed /\ old.line.phase \in {"blank", "whole"}
      BY <2>2, EndLine
    <2>4. QED
      BY <1>2, <1>3, <2>3 DEF Readable
  <1>4. CASE t.step # "newline"
    <2>1. new.line = parse(old.line, t) /\ new.failed = old.failed
      BY <1>1, <1>4, TakeToken
    <2>2. old.line.phase # "refused"
      <3>1. SUFFICES ASSUME old.line.phase = "refused" PROVE FALSE
        OBVIOUS
      <3> DEFINE r == parse(old.line, t)
                 g == Glyph(t)
                 l == old.line
      <3>2. Arms(l, t, g, r)
        BY ParseArms DEF Reads
      <3> HIDE DEF r, g, l
      <3>3. l.phase = "refused"
        BY <3>1 DEF l
      <3>4. r = Line("refused")
        BY <3>2, <3>3 DEF Arms
      <3>5. r.phase = "refused"
        BY <3>4, LineType DEF Phases
      <3>6. QED
        BY <2>1, <3>5 DEF Readable, r, l
    <2>3. QED
      BY <1>2, <1>4, <2>1, <2>2 DEF Readable
  <1>5. QED
    BY <1>3, <1>4

(* What a job's next write does to the spool and to its job. *)
Wrote(w, j, t) ==
    /\ j = job[w] /\ j \in Jobs /\ j.step # "newline" /\ t = Token(j)
    /\ t \in Tokens /\ t.step = j.step /\ t.field = j.field /\ t.append = j.append
    /\ j.event = <<t.event>>
    /\ file' = Append(file, t) /\ appended' = appended
    /\ \A v \in Writers : job'[v] = IF v = w THEN Advance(j) ELSE job[v]

(* A step of WriteToken is such a write. *)
LEMMA WriteTokenIs ==
    ASSUME SpoolInv, NEW w \in Writers, WriteToken(w)
    PROVE  Wrote(w, job[w], Token(job[w]))
  <1>1. job \in [Writers -> Jobs \cup {NoJob}]
    BY DEF SpoolInv, TypeOK
  <1>2. job[w] \in Jobs /\ job[w].step # "newline"
    BY <1>1 DEF WriteToken, NoJob
  <1>3. job' = [job EXCEPT ![w] = Advance(job[w])]
    BY DEF WriteToken
  <1>4. \A v \in Writers : job'[v] = IF v = w THEN Advance(job[w]) ELSE job[v]
    BY <1>1, <1>3
  <1>5. /\ Token(job[w]) \in Tokens
        /\ Token(job[w]).step = job[w].step /\ Token(job[w]).field = job[w].field
        /\ Token(job[w]).append = job[w].append /\ job[w].event = <<Token(job[w]).event>>
    BY <1>2, TokenType
  <1>6. QED
    BY <1>2, <1>4, <1>5 DEF Wrote, WriteToken

(* On a blank line, that is an event's brace: its first write. *)
LEMMA WriteToBlank ==
    ASSUME SpoolInv, NEW w \in Writers, NEW j, NEW t, Wrote(w, j, t), Readable(file'), Blank,
           j.step # "idle"
    PROVE  UnderWay'
  <1> DEFINE l == scan(file).line
             l1 == scan(file').line
             g == Glyph(t)
             e == t.event
  <1>1. j.step = "open" /\ j.field = 1 /\ t \in Tokens /\ j \in Jobs
    BY DEF Blank, Waiting, Wrote, Jobs
  <1>2. l = Line("blank") /\ l.phase = "blank" /\ l \in Lines
    BY LineType DEF Blank, Phases
  <1>3. l1 = parse(l, t) /\ l1.phase # "refused"
    BY <1>1, ReadableBefore DEF Wrote, SpoolInv, TypeOK
  <1>4. Arms(l, t, g, l1)
    BY <1>1, <1>2, <1>3, ParseArms
  <1>5. g = "open"
    BY <1>1, GlyphOf DEF Wrote, Quotes
  <1> HIDE DEF g, l1, l
  <1>6. l1 = [l EXCEPT !.phase = "first", !.depth = 1]
    BY <1>2, <1>4, <1>5 DEF Arms
  <1>7. l1.phase = "first" /\ l1.depth = 1
    BY <1>2, <1>6, LineExceptDepth
  <1>8. \A m \in 1..NumFields : ~(m < 1)
    BY SomeField
  <1>9. Follows(l1, e, 1, "key_begin")
    BY <1>7, <1>8 DEF Follows
  <1>10. /\ Advance(j).step = "key_begin" /\ Advance(j).field = 1 /\ Advance(j).event = <<e>>
    BY <1>1, Following, AdvanceType DEF Wrote
  <1>11. \A v \in Writers : v # w => Waiting(job'[v])
    BY DEF Blank, Wrote
  <1>12. e \in Events /\ 1 \in 1..NumFields /\ "key_begin" \in Steps \ {"open"}
    BY <1>1, SomeField DEF Tokens, Steps, Quotes
  <1>13. /\ \A v \in Writers : ~Waiting(job'[v]) =>
               job'[v].event = <<e>> /\ job'[v].field = 1 /\ job'[v].step = "key_begin"
         /\ \A u, v \in Writers : ~Waiting(job'[u]) /\ ~Waiting(job'[v]) => u = v
    BY <1>10, <1>11 DEF Wrote
  <1>14. QED
    BY <1>9, <1>12, <1>13 DEF UnderWay, l1

(* In an event, either that event's next write, or another's brace, which   *)
(* strikes the string it falls in.                                          *)
LEMMA WriteUnderWay ==
    ASSUME SpoolInv, NEW w \in Writers, NEW j, NEW t, Wrote(w, j, t), Readable(file'), UnderWay,
           j.step # "idle"
    PROVE  UnderWay' \/ Struck'
  <1> DEFINE l == scan(file).line
             l1 == scan(file').line
             g == Glyph(t)
  <1>1. /\ t \in Tokens /\ j \in Jobs /\ t.step = j.step /\ j.step # "newline" /\ t = Token(j)
        /\ file \in Seq(Tokens) /\ file' = Append(file, t) /\ job[w] = j
        /\ scan(file) \in Reads
    BY DEF Wrote, SpoolInv, TypeOK
  <1>2. l1 = parse(l, t) /\ l1.phase # "refused" /\ l \in Lines
    BY <1>1, ReadableBefore DEF Reads
  <1>3. Arms(l, t, g, l1)
    BY <1>1, <1>2, ParseArms
  <1>4. PICK e \in Events, k \in 1..NumFields, p \in Steps \ {"open"} :
          /\ Follows(l, e, k, p)
          /\ \A v \in Writers : ~Waiting(job[v]) =>
                job[v].event = <<e>> /\ job[v].field = k /\ job[v].step = p
          /\ \A u, v \in Writers : ~Waiting(job[u]) /\ ~Waiting(job[v]) => u = v
          /\ p = "newline" => Last(file).step = "close" /\ Last(file).event = e
    BY DEF UnderWay
  <1>5. CASE Waiting(j)
    <2>1. j.step = "open"
      BY <1>5 DEF Waiting
    <2>2. g = "open"
      BY <1>1, <2>1, GlyphOf DEF Quotes
    <2>3. /\ l.phase \notin {"blank", "refused"} /\ (l.phase = "value" => l.field # 0)
          /\ l.phase \in {"key", "string"} => p \in {"key", "key_end", "value", "value_end"}
      BY <1>4, PhaseTells
    <2>4. Line("refused").phase = "refused"
      BY LineType DEF Phases
    <2>5. l.phase \in Phases
      BY <1>2 DEF Lines
    <2> HIDE DEF g, l1, l
    <2>6. l.phase \in {"key", "string"} /\ l1 = [l EXCEPT !.got = Append(l.got, t)]
      BY <1>2, <1>3, <2>2, <2>3, <2>4, <2>5 DEF Arms, Phases
    <2>7. l1.phase = l.phase
      BY <1>2, <2>6, LineExceptOne
    <2>8. Advance(j).step = "key_begin"
      BY <1>1, <2>1, Following
    <2>9. ASSUME NEW v \in Writers, v # w, ~Waiting(job[v]) PROVE Trapped(file', job[v])
      <3>1. InString(job[v])
        BY <1>4, <2>3, <2>6, <2>9 DEF InString
      <3>2. PICK i \in 1..Len(file) : OpenedAt(file, job[v], i)
        BY <3>1 DEF SpoolInv, StringsOpened
      <3>3. OpenedAt(file', job[v], i) /\ i \in 1..Len(file')
        BY <1>1, <3>2, OpenedStays
      <3>4. /\ file'[Len(file) + 1] = t /\ Len(file) + 1 \in 1..Len(file') /\ i < Len(file) + 1
        BY <1>1
      <3>5. t.step = "open"
        BY <1>1, <2>1
      <3>6. QED
        BY <3>1, <3>3, <3>4, <3>5 DEF Trapped
    <2>10. \A v \in Writers :
              Waiting(job'[v]) \/ job'[v].step = "key_begin" \/ Trapped(file', job'[v])
      BY <2>8, <2>9 DEF Wrote
    <2>11. Struck'
      BY <2>6, <2>7, <2>10 DEF Struck, l1
    <2>12. QED
      BY <2>11
  <1>6. CASE ~Waiting(j)
    <2>1. j.event = <<e>> /\ j.field = k /\ j.step = p
      BY <1>1, <1>4, <1>6
    <2>2. j.step \notin {"open", "newline"} /\ Follows(l, e, j.field, j.step)
      BY <1>1, <1>4, <1>6, <2>1 DEF Waiting
    <2>3. Follows(l1, e, Advance(j).field, Advance(j).step)
      BY <1>1, <1>2, <2>1, <2>2, FollowsOn
    <2>4. /\ Advance(j) \in Jobs /\ Advance(j).event = <<e>> /\ Advance(j).step # "open"
      BY <1>1, <2>1, AdvanceType
    <2>5. \A v \in Writers : v # w => Waiting(job'[v])
      BY <1>1, <1>4, <1>6 DEF Wrote
    <2>6. Advance(j).step = "newline" => t.step = "close" /\ t.event = e
      BY <1>1, <2>1, Following DEF Wrote
    <2>7. Last(file') = t
      BY <1>1 DEF Last
    <2> HIDE DEF l1, l
    <2>8. Advance(j).field \in 1..NumFields /\ Advance(j).step \in Steps \ {"open"}
      BY <2>4 DEF Jobs
    <2>9. /\ \A v \in Writers : ~Waiting(job'[v]) =>
                /\ job'[v].event = <<e>> /\ job'[v].field = Advance(j).field
                /\ job'[v].step = Advance(j).step
          /\ \A u, v \in Writers : ~Waiting(job'[u]) /\ ~Waiting(job'[v]) => u = v
      BY <2>4, <2>5 DEF Wrote
    <2>10. Advance(j).step = "newline" => Last(file').step = "close" /\ Last(file').event = e
      BY <2>6, <2>7
    <2>11. UnderWay'
      BY <2>3, <2>8, <2>9, <2>10 DEF UnderWay, l1
    <2>12. QED
      BY <2>11
  <1>7. QED
    BY <1>5, <1>6

(* In a struck string: more of it, or a quote that ends it too early; the   *)
(* string's own quote makes BraceInString.                                  *)
LEMMA WriteToStruck ==
    ASSUME SpoolInv, NEW w \in Writers, NEW j, NEW t, Wrote(w, j, t), Readable(file'), Struck,
           j.step # "idle"
    PROVE  Struck' \/ Stuck'
  <1> DEFINE l == scan(file).line
             l1 == scan(file').line
             g == Glyph(t)
  <1>1. /\ t \in Tokens /\ j \in Jobs /\ t.step = j.step /\ j.step # "newline" /\ t = Token(j)
        /\ t.field = j.field /\ t.append = j.append
        /\ file \in Seq(Tokens) /\ file' = Append(file, t) /\ job[w] = j
        /\ scan(file) \in Reads
    BY DEF Wrote, SpoolInv, TypeOK
  <1>2. l1 = parse(l, t) /\ l1.phase # "refused" /\ l \in Lines
    BY <1>1, ReadableBefore DEF Reads
  <1>3. Arms(l, t, g, l1)
    BY <1>1, <1>2, ParseArms
  <1>4. /\ l.phase \in {"key", "string"}
        /\ \A v \in Writers :
              Waiting(job[v]) \/ job[v].step = "key_begin" \/ Trapped(file, job[v])
    BY DEF Struck
  <1>5. /\ t.step \in Quotes => g = "quote"
        /\ t.step \notin Quotes => g # "quote"
    BY <1>1, GlyphOf
  <1> HIDE DEF g, l1, l
  <1>6. \A v \in Writers : Trapped(file, job[v]) => Trapped(file', job[v])
    BY <1>1, TrappedStays
  <1>7. CASE g # "quote"
    <2>1. l1 = [l EXCEPT !.got = Append(l.got, t)]
      BY <1>3, <1>4, <1>7 DEF Arms
    <2>2. l1.phase = l.phase
      BY <1>2, <2>1, LineExceptOne
    <2>3. Advance(j).step = "key_begin" \/ Trapped(file', Advance(j))
      <3>1. CASE j.step = "open"
        BY <1>1, <3>1, Following
      <3>2. CASE j.step # "open"
        <4>1. Trapped(file, j) /\ j.step \in {"key", "value"}
          BY <1>1, <1>4, <1>5, <1>7, <3>2 DEF Waiting, Trapped, InString, Quotes, Jobs, Steps
        <4>2. Trapped(file', j)
          BY <1>1, <4>1, TrappedStays
        <4>3. InString(Advance(j)) /\ InString(j)
          BY <1>1, <4>1, Following DEF InString
        <4>4. \A i : OpenedAt(file', j, i) => OpenedAt(file', Advance(j), i)
          <5>1. Advance(j).append = j.append /\ Advance(j).field = j.field
            BY <1>1, <4>3, AdvanceType, Following
          <5>2. /\ j.step = "key" => Advance(j).step = "key_end"
                /\ j.step = "value" => Advance(j).step = "value_end"
            BY <1>1, Following
          <5>3. QED
            BY <4>1, <5>1, <5>2 DEF OpenedAt
        <4>5. QED
          BY <4>2, <4>3, <4>4 DEF Trapped
      <3>3. QED
        BY <3>1, <3>2
    <2>4. \A v \in Writers :
             Waiting(job'[v]) \/ job'[v].step = "key_begin" \/ Trapped(file', job'[v])
      BY <1>4, <1>6, <2>3 DEF Wrote
    <2>5. Struck'
      BY <1>4, <2>2, <2>4 DEF Struck, l1
    <2>6. QED
      BY <2>5
  <1>8. CASE g = "quote"
    <2>1. j.step = "key_begin"
      <3>1. j.step \in Quotes
        BY <1>1, <1>5, <1>8
      <3>2. SUFFICES ASSUME j.step # "key_begin" PROVE FALSE
        OBVIOUS
      <3>3. Trapped(file, j) /\ j.step \in {"key_end", "value_end"}
        BY <1>1, <1>4, <3>1, <3>2 DEF Waiting, Trapped, InString, Quotes
      <3>4. PICK i, b \in 1..Len(file) : i < b /\ OpenedAt(file, j, i) /\ file[b].step = "open"
        BY <3>3 DEF Trapped
      <3>5. /\ file'[i] = file[i] /\ file'[b] = file[b] /\ file'[Len(file) + 1] = t
            /\ Len(file') = Len(file) + 1 /\ Len(file) \in Nat
        BY <1>1
      <3>6. /\ t.append = file'[i].append /\ t.field = file'[i].field
            /\ file'[i].step \in {"key_begin", "value_begin"}
            /\ t.step = IF file'[i].step = "key_begin" THEN "key_end" ELSE "value_end"
        BY <1>1, <3>3, <3>4, <3>5 DEF OpenedAt
      <3>7. /\ b \in 1..Len(file') /\ i \in 1..(b - 1) /\ Len(file) + 1 \in (b + 1)..Len(file')
        BY <3>4, <3>5
      <3>8. file'[b].step = "open"
        BY <3>4, <3>5
      <3>9. BraceInString(file')
        BY <3>5, <3>6, <3>7, <3>8 DEF BraceInString
      <3>10. QED
        BY <3>9 DEF Readable
    <2>2. l1.phase \in {"colon", "next"}
      <3>1. CASE l.phase = "key"
        <4>1. l1 = EndKey(l)
          BY <1>3, <1>8, <3>1 DEF Arms
        <4>2. l1 = [phase |-> "colon", depth |-> l.depth, field |-> KeyOf(l), got |-> l.got,
                    fields |-> l.fields]
          BY <1>2, <4>1, EndKeyIs
        <4>3. QED
          BY <4>2
      <3>2. CASE l.phase = "string"
        <4>1. l1 = Value(l, "next", l.got)
          BY <1>3, <1>8, <3>2 DEF Arms
        <4>2. l.got \in Strings
          BY <1>2 DEF Lines
        <4>3. "next" \in Phases
          BY DEF Phases
        <4>4. Value(l, "next", l.got).phase = "next"
          BY <1>2, <4>2, <4>3, ValuePhase
        <4>5. QED
          BY <4>1, <4>4
      <3>3. QED
        BY <1>4, <3>1, <3>2
    <2>3. Advance(j).step = "key"
      BY <1>1, <2>1, Following
    <2>4. \A v \in Writers : job'[v].step \notin {"colon", "comma", "close"}
      BY <1>4, <2>3 DEF Wrote, Waiting, Trapped, InString
    <2>5. Stuck'
      BY <2>2, <2>4 DEF Stuck, l1
    <2>6. QED
      BY <2>5
  <1>9. QED
    BY <1>7, <1>8

(* After that, no write is accepted. *)
LEMMA NoWriteToStuck ==
    ASSUME SpoolInv, NEW w \in Writers, NEW j, NEW t, Wrote(w, j, t), Readable(file'), Stuck
    PROVE  FALSE
  <1> DEFINE l == scan(file).line
             l1 == scan(file').line
             g == Glyph(t)
  <1>1. /\ t \in Tokens /\ t.step = j.step /\ j.step # "newline" /\ job[w] = j
        /\ file \in Seq(Tokens) /\ file' = Append(file, t) /\ scan(file) \in Reads
    BY DEF Wrote, SpoolInv, TypeOK
  <1>2. l1 = parse(l, t) /\ l1.phase # "refused" /\ l \in Lines
    BY <1>1, ReadableBefore DEF Reads
  <1>3. Arms(l, t, g, l1)
    BY <1>1, <1>2, ParseArms
  <1>4. l.phase \in {"colon", "next"} /\ j.step \notin {"colon", "comma", "close"}
    BY <1>1 DEF Stuck
  <1>5. g \notin {"colon", "comma", "close"}
    BY <1>1, <1>4, GlyphOf
  <1>6. Line("refused").phase = "refused"
    BY LineType DEF Phases
  <1> HIDE DEF g, l1, l
  <1>7. l1 = Line("refused")
    BY <1>3, <1>4, <1>5 DEF Arms
  <1>8. QED
    BY <1>2, <1>6, <1>7

(* A writer's next write keeps the spool invariant. *)
LEMMA WriteTokenStep ==
    ASSUME SpoolInv, NEW w \in Writers, WriteToken(w)
    PROVE  SpoolInv'
  <1> DEFINE j == job[w]
             t == Token(j)
  <1>1. Wrote(w, j, t) /\ j.step # "idle" /\ started' = started
    BY WriteTokenIs DEF WriteToken
  <1>2. /\ file \in Seq(Tokens) /\ scan(file) \in Reads /\ t \in Tokens /\ t.step # "newline"
        /\ file' = Append(file, t) /\ j \in Jobs /\ j.step # "newline" /\ appended' = appended
        /\ job \in [Writers -> Jobs \cup {NoJob}]
    BY <1>1 DEF SpoolInv, TypeOK, Wrote
  <1>3. /\ scan(file') \in Reads /\ scan(file').events = scan(file).events
        /\ scan(file').failed = scan(file).failed
    BY <1>2, ScanAppend, TakeToken
  <1>4. TypeOK'
    <2>1. Advance(j) \in Jobs
      BY <1>2, AdvanceType
    <2>2. job' = [job EXCEPT ![w] = Advance(j)]
      BY DEF WriteToken
    <2>3. job' \in [Writers -> Jobs \cup {NoJob}]
      BY <1>2, <2>1, <2>2
    <2>4. file' \in Seq(Tokens)
      BY <1>2
    <2>5. QED
      BY <1>1, <1>2, <1>3, <2>3, <2>4 DEF TypeOK, SpoolInv
  <1> HIDE DEF t, j
  <1>5. StringsOpened'
    <2> SUFFICES ASSUME NEW v \in Writers, InString(job'[v])
                 PROVE  \E i \in 1..Len(file') : OpenedAt(file', job'[v], i)
      BY DEF StringsOpened
    <2>1. CASE v # w
      <3>1. job'[v] = job[v]
        BY <1>1, <2>1 DEF Wrote
      <3>2. PICK i \in 1..Len(file) : OpenedAt(file, job[v], i)
        BY <3>1 DEF SpoolInv, StringsOpened
      <3>3. QED
        BY <1>2, <3>1, <3>2, OpenedStays
    <2>2. CASE v = w
      <3>1. job'[v] = Advance(j) /\ job[w] = j /\ t = Token(j)
        BY <1>1, <2>2 DEF Wrote
      <3>2. CASE ~InString(j)
        BY <1>2, <3>1, <3>2, OpenedOn
      <3>3. CASE InString(j)
        <4>1. PICK i \in 1..Len(file) : OpenedAt(file, j, i)
          BY <3>1, <3>3 DEF SpoolInv, StringsOpened
        <4>2. OpenedAt(file, Advance(j), i)
          BY <1>2, <3>1, <3>3, <4>1, OpenedOn
        <4>3. QED
          BY <1>2, <3>1, <4>2, OpenedStays
      <3>4. QED
        BY <3>2, <3>3
    <2>3. QED
      BY <2>1, <2>2
  <1>6. Len(scan(file').events) <= Len(appended')
    BY <1>2, <1>3 DEF SpoolInv
  <1>7. ASSUME Readable(file') PROVE EndedLines' /\ (Blank' \/ UnderWay' \/ Struck' \/ Stuck')
    <2>1. Readable(file)
      BY <1>2, <1>7, ReadableBefore
    <2>2. EndedLines /\ (Blank \/ UnderWay \/ Struck \/ Stuck)
      BY <2>1 DEF SpoolInv
    <2>3. EndedLines'
      BY <1>2, <1>3, <2>2 DEF EndedLines
    <2>4. CASE Blank
      BY <1>1, <1>7, <2>3, <2>4, WriteToBlank
    <2>5. CASE UnderWay
      BY <1>1, <1>7, <2>3, <2>5, WriteUnderWay
    <2>6. CASE Struck
      BY <1>1, <1>7, <2>3, <2>6, WriteToStruck
    <2>7. CASE Stuck
      BY <1>1, <1>7, <2>7, NoWriteToStuck
    <2>8. QED
      BY <2>2, <2>3, <2>4, <2>5, <2>6, <2>7
  <1>8. QED
    BY <1>4, <1>5, <1>6, <1>7 DEF SpoolInv

(* A writer that ends its record keeps it: the record it ends is its own.   *)
LEMMA WriteNewlineStep ==
    ASSUME SpoolInv, NEW w \in Writers, WriteNewline(w)
    PROVE  SpoolInv'
  <1> DEFINE j == job[w]
             t == Token(j)
             acc == scan(file)
  <1>1. /\ file \in Seq(Tokens) /\ acc \in Reads /\ job \in [Writers -> Jobs \cup {NoJob}]
        /\ appended \in Seq(Events) /\ started \in Nat
    BY DEF SpoolInv, TypeOK
  <1>2. j \in Jobs /\ j.step = "newline"
    BY <1>1 DEF WriteNewline, NoJob
  <1>3. t \in Tokens /\ t.step = "newline" /\ j.event = <<t.event>> /\ t.event \in Events
    <2>1. t \in Tokens /\ t.step = "newline" /\ j.event = <<t.event>>
      BY <1>2, TokenType
    <2>2. QED
      BY <2>1 DEF Tokens
  <1>4. /\ file' = Append(file, t) /\ appended' = Append(appended, t.event) /\ started' = started
        /\ job' = [job EXCEPT ![w] = NoJob]
    BY <1>3 DEF WriteNewline
  <1>5. \A v \in Writers : job'[v] = IF v = w THEN NoJob ELSE job[v]
    BY <1>1, <1>4
  <1>6. scan(file') = end_line(acc) /\ scan(file') \in Reads
    BY <1>1, <1>3, <1>4, ScanAppend, TakeType DEF take
  <1>7. TypeOK'
    <2>1. file' \in Seq(Tokens) /\ appended' \in Seq(Events)
      BY <1>1, <1>3, <1>4
    <2>2. job' \in [Writers -> Jobs \cup {NoJob}]
      BY <1>1, <1>4
    <2>3. QED
      BY <1>1, <1>4, <1>6, <2>1, <2>2 DEF TypeOK
  <1> HIDE DEF t, j
  <1>8. StringsOpened'
    <2> SUFFICES ASSUME NEW v \in Writers, InString(job'[v])
                 PROVE  \E i \in 1..Len(file') : OpenedAt(file', job'[v], i)
      BY DEF StringsOpened
    <2>1. job'[v] = job[v]
      BY <1>5 DEF InString, NoJob
    <2>2. PICK i \in 1..Len(file) : OpenedAt(file, job[v], i)
      BY <2>1 DEF SpoolInv, StringsOpened
    <2>3. QED
      BY <1>1, <1>3, <1>4, <2>1, <2>2, OpenedStays
  <1>9. Len(scan(file').events) <= Len(appended')
    <2>1. /\ Len(end_line(acc).events) <= Len(acc.events) + 1 /\ Len(acc.events) <= Len(appended)
          /\ Len(appended') = Len(appended) + 1
      <3>1. Len(end_line(acc).events) <= Len(acc.events) + 1
        BY <1>1, EndLine, Zenon
      <3>2. Len(acc.events) <= Len(appended)
        BY DEF SpoolInv
      <3>3. Len(appended') = Len(appended) + 1
        BY <1>1, <1>3, <1>4
      <3>4. QED
        BY <3>1, <3>2, <3>3
    <2>2. Len(end_line(acc).events) \in Nat /\ Len(acc.events) \in Nat /\ Len(appended) \in Nat
      <3>1. end_line(acc).events \in Seq([1..NumFields -> Strings])
            /\ acc.events \in Seq([1..NumFields -> Strings])
        BY <1>1, EndLine DEF Reads
      <3>2. QED
        BY <1>1, <3>1
    <2>3. QED
      BY <1>6, <2>1, <2>2
  <1>10. ASSUME Readable(file') PROVE EndedLines' /\ Blank'
    <2>1. Readable(file)
      BY <1>1, <1>3, <1>4, <1>10, ReadableBefore
    <2>2. ~end_line(acc).failed
      BY <1>6, <1>10 DEF Readable
    <2>3. acc.line.phase \in {"blank", "whole"}
      BY <1>1, <2>2, EndLine
    <2>4. EndedLines /\ UnderWay
      <3>1. ~Blank
        BY <1>2 DEF Blank, Waiting, j
      <3>2. QED
        BY <2>1, <2>3, <3>1 DEF SpoolInv, Struck, Stuck
    <2>5. PICK e \in Events, k \in 1..NumFields, p \in Steps \ {"open"} :
            /\ Follows(acc.line, e, k, p)
            /\ \A v \in Writers : ~Waiting(job[v]) =>
                  job[v].event = <<e>> /\ job[v].field = k /\ job[v].step = p
            /\ \A u, v \in Writers : ~Waiting(job[u]) /\ ~Waiting(job[v]) => u = v
      BY <2>4 DEF UnderWay
    <2>6. ~Waiting(job[w])
      BY <1>2 DEF Waiting, j
    <2>7. p = "newline" /\ t.event = e
      BY <1>2, <1>3, <2>5, <2>6 DEF j
    <2>8. acc.line.phase = "whole"
      BY <2>5, <2>7, PhaseTells
    <2>9. \A m \in 1..NumFields : Holds(acc.line.fields[m], e, m)
      BY <2>5, <2>7 DEF Follows
    <2> DEFINE event == [m \in 1..NumFields |-> acc.line.fields[m][1]]
    <2>10. scan(file').line = Line("blank") /\ scan(file').events = Append(acc.events, event)
      BY <1>1, <1>6, <2>2, <2>8, EndLine
    <2>11. Bills(event, e)
      <3> SUFFICES ASSUME NEW m \in 1..NumFields
                   PROVE  Len(event[m]) = 1 /\ event[m][1].event = e /\ event[m][1].field = m
        BY DEF Bills
      <3>1. PICK u \in Tokens : acc.line.fields[m] = << <<u>> >> /\ u.event = e /\ u.field = m
        BY <2>9 DEF Holds
      <3>2. event[m] = <<u>>
        BY <3>1
      <3>3. QED
        BY <3>1, <3>2
    <2> HIDE DEF event
    <2>12. EndedLines'
      <3>1. acc.events \in Seq([1..NumFields -> Strings])
        BY <1>1 DEF Reads
      <3>2. Len(acc.events) = Len(appended) /\ \A i \in 1..Len(acc.events) : Bills(acc.events[i], appended[i])
        BY <2>4 DEF EndedLines
      <3> DEFINE more == Append(acc.events, event)
                 n == Len(acc.events)
      <3>3. /\ n \in Nat /\ Len(more) = n + 1 /\ more[n + 1] = event
            /\ \A i \in 1..n : more[i] = acc.events[i]
        BY <3>1
      <3>4. /\ Len(appended') = n + 1 /\ appended'[n + 1] = e
            /\ \A i \in 1..n : appended'[i] = appended[i]
        BY <1>1, <1>4, <2>7, <3>2
      <3>5. scan(file').events = more
        BY <2>10
      <3> HIDE DEF more, n
      <3>6. ASSUME NEW i \in 1..(n + 1) PROVE Bills(more[i], appended'[i])
        <4>1. i \in 1..n \/ i = n + 1
          BY <3>3
        <4>2. CASE i \in 1..n
          BY <3>2, <3>3, <3>4, <4>2 DEF n
        <4>3. CASE i = n + 1
          BY <2>11, <3>3, <3>4, <4>3
        <4>4. QED
          BY <4>1, <4>2, <4>3
      <3>7. QED
        BY <3>3, <3>4, <3>5, <3>6 DEF EndedLines
    <2>13. Blank'
      <3>1. Last(file') = t
        BY <1>1, <1>3, <1>4 DEF Last
      <3>2. \A v \in Writers : Waiting(job'[v])
        BY <1>5, <2>5, <2>6 DEF Waiting, NoJob
      <3>3. QED
        BY <1>3, <2>10, <3>1, <3>2 DEF Blank
    <2>14. QED
      BY <2>12, <2>13
  <1>11. QED
    BY <1>7, <1>8, <1>9, <1>10 DEF SpoolInv

(* Every step keeps the spool invariant. *)
LEMMA SpoolStep == SpoolInv /\ [Next]_vars => SpoolInv'
  <1> SUFFICES ASSUME SpoolInv, [Next]_vars PROVE SpoolInv'
    OBVIOUS
  <1>1. ASSUME UNCHANGED <<file, job, appended, started>> PROVE SpoolInv'
    BY <1>1 DEF SpoolInv, TypeOK, StringsOpened, EndedLines, Blank, UnderWay, Struck, Stuck
  <1>2. ASSUME NEW product_code \in ProductArgs, BuildPayload(product_code) PROVE SpoolInv'
    BY <1>1, <1>2 DEF BuildPayload
  <1>3. ASSUME NEW w \in Writers, NEW in \in Inputs, Start(w, in) PROVE SpoolInv'
    <2>1. PICK e \in Events : NewEvent(in) = <<e>>
      BY <1>3, NewEventType DEF Start
    <2> DEFINE j == [event |-> NewEvent(in), append |-> started + 1, field |-> 1, step |-> "open"]
    <2>2. job' = [job EXCEPT ![w] = j] /\ UNCHANGED <<file, appended>> /\ started' = started + 1
      BY <1>3 DEF Start
    <2>3. started \in Nat
      BY DEF SpoolInv, TypeOK
    <2>4. j \in Jobs /\ Waiting(j)
      BY <2>1, <2>3, SomeField DEF Jobs, Steps, Waiting
    <2> HIDE DEF j
    <2>5. started' \in Nat
      BY <2>2, <2>3
    <2>6. QED
      BY <2>2, <2>4, <2>5, JobStep
  <1>4. ASSUME NEW w \in Writers, WriteToken(w) PROVE SpoolInv'
    BY <1>4, WriteTokenStep
  <1>5. ASSUME NEW w \in Writers, WriteNewline(w) PROVE SpoolInv'
    BY <1>5, WriteNewlineStep
  <1>6. ASSUME NEW w \in Writers, Fail(w) PROVE SpoolInv'
    <2>1. job' = [job EXCEPT ![w] = NoJob] /\ UNCHANGED <<file, appended, started>>
      BY <1>6 DEF Fail
    <2>2. Waiting(NoJob)
      BY DEF Waiting, NoJob
    <2>3. started' \in Nat
      BY <2>1 DEF SpoolInv, TypeOK
    <2>4. QED
      BY <2>1, <2>2, <2>3, JobStep
  <1>7. CASE UNCHANGED vars
    BY <1>1, <1>7 DEF vars
  <1>8. QED
    BY <1>2, <1>3, <1>4, <1>5, <1>6, <1>7 DEF Next

(* As long as a spool may still make a payload, what it holds is, however   *)
(* the writes interleave and whoever dies, the acknowledged events whole    *)
(* and in order and one line of one event; or that line has been struck     *)
(* inside a string and can only be refused, unless the string's own writer  *)
(* closes it.                                                               *)
THEOREM SpoolIsOrdered == Spec => []SpoolInv
  BY SpoolInit, SpoolStep, PTL DEF Spec

(* Events in the spool have the same idempotency key exactly when they are  *)
(* the same usage (stable_idempotency_key), for any strings.                *)
THEOREM KeysAreStable == Spec => []KeysIdentifyUsage
  <1>1. TypeOK => KeysIdentifyUsage
    <2> SUFFICES ASSUME appended \in Seq(Events),
                        NEW i \in 1..Len(appended), NEW j \in 1..Len(appended)
                 PROVE  appended[i].idempotency_key = appended[j].idempotency_key
                            <=> appended[i].scope = appended[j].scope
      BY DEF TypeOK, KeysIdentifyUsage
    <2> DEFINE d == appended[i]
               e == appended[j]
    <2>1. d \in Events /\ e \in Events
      OBVIOUS
    <2> HIDE DEF d, e
    <2>2. d.idempotency_key = e.idempotency_key <=> d.scope = e.scope
      <3>1. /\ d.idempotency_key = stable_idempotency_key(d.scope)
            /\ d.scope \in Seq(Seq(STRING)) /\ Len(d.scope) = 3
        BY <2>1, EventFields
      <3>2. /\ e.idempotency_key = stable_idempotency_key(e.scope)
            /\ e.scope \in Seq(Seq(STRING)) /\ Len(e.scope) = 3
        BY <2>1, EventFields
      <3>3. QED
        BY <3>1, <3>2, KeyInjective
    <2>3. QED
      BY <2>2 DEF d, e
  <1>2. SpoolInv => KeysIdentifyUsage
    BY <1>1 DEF SpoolInv
  <1>3. QED
    BY <1>2, SpoolIsOrdered, PTL

(* What the reader gets, when it gets anything: no more than one event      *)
(* beyond the acknowledged ones, and, but for BraceInString, those due.     *)
LEMMA ReadsWhatWasAppended ==
    ASSUME SpoolInv, read_events_jsonl(file) # <<>>
    PROVE  LET events == read_events_jsonl(file)[1]
           IN  /\ Len(events) \in Nat /\ Len(events) <= Len(appended) + 1
               /\ ~BraceInString(file) =>
                     /\ Len(events) = Len(Due) /\ Len(Due) >= Len(appended)
                     /\ \A i \in 1..Len(Due) : Bills(events[i], Due[i])
  <1> DEFINE acc == scan(file)
             all == end_line(acc)
  <1>1. acc \in Reads /\ file \in Seq(Tokens) /\ appended \in Seq(Events)
    BY DEF SpoolInv, TypeOK
  <1>2. ~all.failed /\ read_events_jsonl(file)[1] = all.events
    BY DEF read_events_jsonl
  <1>3. all.events \in Seq([1..NumFields -> Strings]) /\ acc.events \in Seq([1..NumFields -> Strings])
    BY <1>1, EndLine DEF Reads
  <1>4. Len(all.events) \in Nat /\ Len(acc.events) \in Nat /\ Len(appended) \in Nat
    BY <1>1, <1>3
  <1>5. Len(all.events) <= Len(appended) + 1
    <2>1. Len(all.events) <= Len(acc.events) + 1
      BY <1>1, EndLine, Zenon
    <2>2. Len(acc.events) <= Len(appended)
      BY DEF SpoolInv
    <2>3. QED
      BY <1>4, <2>1, <2>2
  <1>6. ASSUME ~BraceInString(file)
        PROVE  /\ Len(all.events) = Len(Due) /\ Len(Due) >= Len(appended)
               /\ \A i \in 1..Len(Due) : Bills(all.events[i], Due[i])
    <2>1. ~acc.failed /\ acc.line.phase \in {"blank", "whole"}
      BY <1>1, <1>2, EndLine
    <2>2. Readable(file)
      BY <1>6, <2>1 DEF Readable
    <2>3. EndedLines /\ (Blank \/ UnderWay)
      BY <2>1, <2>2 DEF SpoolInv, Struck, Stuck
    <2>4. Len(acc.events) = Len(appended) /\ \A i \in 1..Len(acc.events) : Bills(acc.events[i], appended[i])
      BY <2>3 DEF EndedLines
    <2>5. CASE Blank
      <3>1. acc.line.phase = "blank"
        BY <2>5, LineType DEF Blank, Phases
      <3>2. all = acc
        BY <1>1, <3>1, EndLine
      <3>3. Due = appended
        BY <2>5 DEF Due, Blank
      <3> HIDE DEF all, acc
      <3>4. QED
        BY <1>4, <2>4, <3>2, <3>3
    <2>6. CASE UnderWay
      <3>1. PICK e \in Events, k \in 1..NumFields, p \in Steps \ {"open"} :
              /\ Follows(acc.line, e, k, p)
              /\ p = "newline" => Last(file).step = "close" /\ Last(file).event = e
        BY <2>6 DEF UnderWay
      <3>2. acc.line.phase = "whole" /\ p = "newline"
        BY <2>1, <3>1, PhaseTells
      <3> DEFINE event == [m \in 1..NumFields |-> acc.line.fields[m][1]]
      <3>3. all.events = Append(acc.events, event)
        BY <1>1, <1>2, <3>2, EndLine
      <3>4. file # <<>>
        <4>1. SUFFICES ASSUME file = <<>> PROVE FALSE
          OBVIOUS
        <4>2. acc.line = Line("blank")
          BY <4>1, ScanEmpty
        <4>3. QED
          BY <3>2, <4>2, LineType DEF Phases
      <3>5. Due = Append(appended, e)
        BY <3>1, <3>2, <3>4 DEF Due
      <3>6. Bills(event, e)
        <4> SUFFICES ASSUME NEW m \in 1..NumFields
                     PROVE  Len(event[m]) = 1 /\ event[m][1].event = e /\ event[m][1].field = m
          BY DEF Bills
        <4>1. Holds(acc.line.fields[m], e, m)
          BY <3>1, <3>2 DEF Follows
        <4>2. PICK u \in Tokens : acc.line.fields[m] = << <<u>> >> /\ u.event = e /\ u.field = m
          BY <4>1 DEF Holds
        <4>3. event[m] = <<u>>
          BY <4>2
        <4>4. QED
          BY <4>2, <4>3
      <3> DEFINE n == Len(acc.events)
      <3>7. /\ n \in Nat /\ Len(all.events) = n + 1 /\ all.events[n + 1] = event
            /\ \A i \in 1..n : all.events[i] = acc.events[i]
        <4> HIDE DEF event, all
        <4>1. QED
          BY <1>3, <3>3
      <3>8. /\ Len(Due) = n + 1 /\ Due[n + 1] = e /\ \A i \in 1..n : Due[i] = appended[i]
        BY <1>1, <2>4, <3>5
      <3> HIDE DEF event, all, n
      <3>9. ASSUME NEW i \in 1..(n + 1) PROVE Bills(all.events[i], Due[i])
        <4>1. i \in 1..n \/ i = n + 1
          BY <3>7
        <4>2. CASE i \in 1..n
          BY <2>4, <3>7, <3>8, <4>2 DEF n
        <4>3. CASE i = n + 1
          BY <3>6, <3>7, <3>8, <4>3
        <4>4. QED
          BY <4>1, <4>2, <4>3
      <3>10. n = Len(appended)
        BY <2>4 DEF n
      <3>11. QED
        BY <3>7, <3>8, <3>9, <3>10
    <2>7. QED
      BY <2>3, <2>5, <2>6
  <1> HIDE DEF all, acc
  <1>7. QED
    BY <1>2, <1>4, <1>5, <1>6

(* pzdr-metering-payload bills exactly the events due: no interleaving of   *)
(* the writers' unlocked writes, and no death between two of them, makes it *)
(* bill anything else without failing to parse, unless one writer's opening *)
(* brace lies inside another's string.                                      *)
THEOREM BillsAppended == Spec => []BillsWhatWasAppended
  <1>1. SpoolInv => BillsWhatWasAppended
    BY ReadsWhatWasAppended DEF BillsWhatWasAppended
  <1>2. QED
    BY <1>1, SpoolIsOrdered, PTL

(* A payload never exceeds what BatchMeterUsage takes, never counts more    *)
(* than one event beyond the acknowledged ones, and, with the same          *)
(* exception, never less.                                                   *)
THEOREM PayloadsAreWhole == Spec => PayloadIsWhole
  <1>1. SpoolInv /\ [Next]_vars
          => [payload' # payload /\ payload'.kind = "payload" =>
                /\ Len(payload'.records) <= MaxRecords
                /\ Len(payload'.records) <= Len(appended) + 1
                /\ Len(payload'.records) >= Len(appended) \/ BraceInString(file)]_vars
    <2> SUFFICES ASSUME SpoolInv, Next, payload' # payload, payload'.kind = "payload"
                 PROVE  /\ Len(payload'.records) <= MaxRecords
                        /\ Len(payload'.records) <= Len(appended) + 1
                        /\ Len(payload'.records) >= Len(appended) \/ BraceInString(file)
      OBVIOUS
    <2>1. PICK product_code \in ProductArgs : BuildPayload(product_code)
      BY DEF Next, Start, WriteToken, WriteNewline, Fail
    <2> DEFINE events == read_events_jsonl(file)
               recs == events[1]
    <2>2. payload' = IF started = 0 THEN Refused("io")
                     ELSE IF events = <<>> THEN Refused("json")
                     ELSE batch_meter_usage_payload(product_code, recs)
      BY <2>1 DEF BuildPayload
    <2>3. events # <<>> /\ payload' = batch_meter_usage_payload(product_code, recs)
      BY <2>2 DEF Refused, Outcome
    <2>4. /\ Len(recs) \in Nat /\ Len(recs) <= Len(appended) + 1
          /\ ~BraceInString(file) => Len(recs) = Len(Due) /\ Len(Due) >= Len(appended)
      BY <2>3, ReadsWhatWasAppended
    <2> HIDE DEF events, recs
    <2>5. require(product_code) /\ ~(Len(recs) > MaxRecords)
      BY <2>3 DEF batch_meter_usage_payload, Refused, Outcome
    <2>6. payload'.records = [i \in 1..Len(recs) |-> UsageRecord(recs[i])]
      BY <2>3, <2>5 DEF batch_meter_usage_payload, Outcome
    <2>7. Len(payload'.records) = Len(recs)
      BY <2>4, <2>6
    <2>8. QED
      BY <2>4, <2>5, <2>7, MeteringAssumption
  <1>2. QED
    BY <1>1, SpoolIsOrdered, PTL DEF Spec, PayloadIsWhole
=============================================================================
