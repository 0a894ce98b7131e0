------------------------------ MODULE OutputProofs ----------------------------
(* Theorems about the output of a run and the listeners of its log, for any    *)
(* chunks of text, any limit of a batch, any depth of transactions and any     *)
(* number of restarts.                                                         *)
EXTENDS Output, SequenceTheorems, WellFoundedInduction, TLAPS

-----------------------------------------------------------------------------
(* Sequences of sequences.                                                 *)

\* The natural numbers are well-founded, so that a set of them has a least element.
LEMMA Smallest ==
    ASSUME NEW T \in SUBSET Nat, T # {}
    PROVE  \E x \in T : \A y \in T : x <= y
<1>1. PICK x \in T : \A y \in T : <<y, x>> \notin OpToRel(<, Nat)
  BY NatLessThanWellFounded, WFMin
<1>2. \A y \in T : ~(y < x)
  BY <1>1 DEF OpToRel
<1> QED
  BY <1>2

\* What a list comes to, part by part.
Sums(f, ss) == f = [i \in 1..Len(ss) |-> IF i = 1 THEN ss[i] ELSE f[i - 1] \o ss[i]]

LEMMA FlattenIsSum ==
    ASSUME NEW ss, Len(ss) # 0
    PROVE  FlattenSeq(ss) = (CHOOSE f : Sums(f, ss))[Len(ss)]
BY DEF FlattenSeq, Sums

LEMMA SumsExist ==
    ASSUME NEW S, NEW ss \in Seq(Seq(S))
    PROVE  \E f \in [1..Len(ss) -> Seq(S)] : Sums(f, ss)
<1> DEFINE Step(f, i) == IF i = 1 THEN ss[i] ELSE f[i - 1] \o ss[i]
           Upto(n) == \E f \in [1..n -> Seq(S)] : \A i \in 1..n : f[i] = Step(f, i)
           T == {n \in 0..Len(ss) : ~Upto(n)}
<1>1. Len(ss) \in Nat /\ \A i \in 1..Len(ss) : ss[i] \in Seq(S)
  OBVIOUS
<1>2. ASSUME T # {}
      PROVE  FALSE
  <2>1. T \in SUBSET Nat
    BY <1>1
  <2>2. PICK x \in T : \A y \in T : x <= y
    BY <1>2, <2>1, Smallest
  <2>3. x \in 0..Len(ss) /\ x \in Nat /\ ~Upto(x)
    <3> HIDE DEF Upto
    <3> QED
      BY <1>1, <2>2
  <2>4. x # 0
    <3>1. [i \in 1..0 |-> <<>>] \in [1..0 -> Seq(S)] /\ 1..0 = {}
      OBVIOUS
    <3>2. Upto(0)
      BY <3>1
    <3> QED
      BY <2>3, <3>2
  <2>5. x - 1 \in 0..Len(ss) /\ ~(x <= x - 1)
    BY <1>1, <2>3, <2>4
  <2>6. Upto(x - 1)
    <3> HIDE DEF Upto
    <3> QED
      BY <2>2, <2>5
  <2>7. PICK f \in [1..(x - 1) -> Seq(S)] : \A i \in 1..(x - 1) : f[i] = Step(f, i)
    BY <2>6
  <2>8. Step(f, x) \in Seq(S)
    <3>1. x \in 1..Len(ss) /\ ss[x] \in Seq(S)
      BY <1>1, <2>3, <2>4
    <3>2. x # 1 => x - 1 \in 1..(x - 1) /\ f[x - 1] \in Seq(S)
      BY <2>3, <2>4
    <3> QED
      BY <3>1, <3>2
  <2> DEFINE g == [i \in 1..x |-> IF i < x THEN f[i] ELSE Step(f, x)]
  <2>9. g \in [1..x -> Seq(S)]
    BY <2>3, <2>8
  <2>10. \A i \in 1..x : g[i] = Step(g, i)
    <3> TAKE i \in 1..x
    <3>1. g[i] = Step(f, i)
      <4> HIDE DEF Step
      <4>1. CASE i < x
        BY <2>3, <2>7, <4>1
      <4>2. CASE ~(i < x)
        BY <2>3, <4>2
      <4> QED
        BY <4>1, <4>2
    <3>2. i # 1 => i - 1 \in 1..x /\ i - 1 < x
      BY <2>3
    <3>3. i # 1 => g[i - 1] = f[i - 1]
      BY <3>2
    <3> QED
      BY <3>1, <3>3
  <2> HIDE DEF g
  <2>11. Upto(x)
    BY <2>9, <2>10
  <2> QED
    BY <2>3, <2>11
<1>3. Upto(Len(ss))
  <2> HIDE DEF Upto
  <2> QED
    BY <1>1, <1>2
<1>4. PICK f \in [1..Len(ss) -> Seq(S)] : \A i \in 1..Len(ss) : f[i] = Step(f, i)
  BY <1>3
<1>5. f = [i \in 1..Len(ss) |-> IF i = 1 THEN ss[i] ELSE f[i - 1] \o ss[i]]
  BY <1>4
<1> QED
  BY <1>4, <1>5 DEF Sums

\* A longer list comes to the same as far as the shorter goes.
LEMMA SumsAgree ==
    ASSUME NEW S, NEW ss \in Seq(Seq(S)),
           NEW f, Sums(f, ss), NEW g, Sums(g, ss) \/ \E s \in Seq(S) : Sums(g, Append(ss, s))
    PROVE  \A i \in 1..Len(ss) : g[i] = f[i]
<1> DEFINE T == {i \in 1..Len(ss) : g[i] # f[i]}
<1>1. Len(ss) \in Nat /\ T \in SUBSET Nat
  OBVIOUS
<1>2. \A i \in 1..Len(ss) : f[i] = IF i = 1 THEN ss[i] ELSE f[i - 1] \o ss[i]
  BY DEF Sums
<1>3. \A i \in 1..Len(ss) : g[i] = IF i = 1 THEN ss[i] ELSE g[i - 1] \o ss[i]
  <2>1. CASE Sums(g, ss)
    BY <2>1 DEF Sums
  <2>2. CASE \E s \in Seq(S) : Sums(g, Append(ss, s))
    <3> PICK s \in Seq(S) : Sums(g, Append(ss, s))
      BY <2>2
    <3>1. /\ Len(Append(ss, s)) = Len(ss) + 1
          /\ \A i \in 1..Len(ss) : Append(ss, s)[i] = ss[i] /\ i \in 1..(Len(ss) + 1)
      BY <1>1
    <3>2. \A i \in 1..(Len(ss) + 1) : g[i] = IF i = 1 THEN Append(ss, s)[i] ELSE g[i - 1] \o Append(ss, s)[i]
      BY <3>1 DEF Sums
    <3> QED
      BY <3>1, <3>2
  <2> QED
    BY <2>1, <2>2
<1>4. ASSUME T # {}
      PROVE  FALSE
  <2>1. PICK x \in T : \A y \in T : x <= y
    BY <1>1, <1>4, Smallest
  <2>2. x \in 1..Len(ss) /\ g[x] # f[x]
    BY <2>1
  <2>3. x # 1
    BY <1>2, <1>3, <2>2
  <2>4. x - 1 \in 1..Len(ss) /\ ~(x <= x - 1)
    BY <1>1, <2>2, <2>3
  <2>5. g[x - 1] = f[x - 1]
    BY <2>1, <2>4
  <2> QED
    BY <1>2, <1>3, <2>2, <2>3, <2>5
<1> QED
  BY <1>4

\* Flattening takes one part after the other.
LEMMA FlattenNothing == FlattenSeq(<<>>) = <<>>
BY DEF FlattenSeq

LEMMA FlattenTypes ==
    ASSUME NEW S, NEW ss \in Seq(Seq(S))
    PROVE  FlattenSeq(ss) \in Seq(S)
<1>1. CASE Len(ss) = 0
  <2>1. ss = <<>> /\ <<>> \in Seq(S)
    BY <1>1
  <2>2. FlattenSeq(ss) = <<>>
    BY <2>1, FlattenNothing
  <2> QED
    BY <2>1, <2>2
<1>2. CASE Len(ss) # 0
  <2>1. PICK f \in [1..Len(ss) -> Seq(S)] : Sums(f, ss)
    BY SumsExist
  <2> DEFINE h == CHOOSE g : Sums(g, ss)
  <2>2. Sums(h, ss)
    BY <2>1
  <2> HIDE DEF h
  <2>3. FlattenSeq(ss) = h[Len(ss)]
    BY <1>2, FlattenIsSum DEF h
  <2>4. Len(ss) \in 1..Len(ss)
    BY <1>2
  <2>5. h[Len(ss)] = f[Len(ss)]
    BY <2>1, <2>2, <2>4, SumsAgree
  <2> QED
    BY <2>3, <2>4, <2>5
<1> QED
  BY <1>1, <1>2

LEMMA FlattenMore ==
    ASSUME NEW S, NEW ss \in Seq(Seq(S)), NEW s \in Seq(S)
    PROVE  FlattenSeq(Append(ss, s)) = FlattenSeq(ss) \o s
<1> DEFINE more == Append(ss, s)
           f == CHOOSE h : Sums(h, ss)
           g == CHOOSE h : Sums(h, more)
<1>1. /\ Len(ss) \in Nat /\ more \in Seq(Seq(S)) /\ Len(more) = Len(ss) + 1
      /\ more[Len(ss) + 1] = s /\ Len(more) # 0
  OBVIOUS
<1>2. Sums(f, ss) /\ Sums(g, more)
  BY <1>1, SumsExist
<1> HIDE DEF f, g
<1>3. FlattenSeq(more) = g[Len(ss) + 1]
  BY <1>1, FlattenIsSum DEF g
<1>4. Len(ss) + 1 \in 1..Len(more) /\ (Len(ss) + 1) - 1 = Len(ss)
  BY <1>1
<1>5. g[Len(ss) + 1] = IF Len(ss) + 1 = 1 THEN s ELSE g[Len(ss)] \o s
  <2> HIDE DEF more
  <2> QED
    BY <1>1, <1>2, <1>4 DEF Sums
<1>6. CASE Len(ss) = 0
  <2>1. ss = <<>> /\ <<>> \o s = s
    BY <1>6
  <2> QED
    BY <1>3, <1>5, <1>6, <2>1, FlattenNothing
<1>7. CASE Len(ss) # 0
  <2>1. FlattenSeq(ss) = f[Len(ss)]
    BY <1>7, FlattenIsSum DEF f
  <2>2. Len(ss) \in 1..Len(ss) /\ Len(ss) + 1 # 1
    BY <1>1, <1>7
  <2>3. g[Len(ss)] = f[Len(ss)]
    BY <1>2, <2>2, SumsAgree
  <2> QED
    BY <1>3, <1>5, <2>1, <2>2, <2>3
<1> QED
  BY <1>6, <1>7

LEMMA JoinedFirst ==
    ASSUME NEW S, NEW s \in Seq(S), NEW u \in Seq(S), s # <<>>
    PROVE  s \o u # <<>> /\ (s \o u)[1] = s[1]
<1>1. Len(s) \in Nat \ {0} /\ Len(u) \in Nat
  OBVIOUS
<1>2. Len(s \o u) = Len(s) + Len(u) /\ (s \o u)[1] = s[1]
  BY <1>1
<1> QED
  BY <1>1, <1>2

LEMMA FlattenFirst ==
    ASSUME NEW S, NEW ss \in Seq(Seq(S)), ss # <<>>, ss[1] # <<>>
    PROVE  FlattenSeq(ss) # <<>> /\ FlattenSeq(ss)[1] = ss[1][1]
<1> DEFINE h == CHOOSE g : Sums(g, ss)
<1>1. Len(ss) \in Nat \ {0} /\ \A i \in 1..Len(ss) : ss[i] \in Seq(S)
  OBVIOUS
<1>2. PICK f \in [1..Len(ss) -> Seq(S)] : Sums(f, ss)
  BY SumsExist
<1>3. Sums(h, ss)
  BY <1>2
<1> HIDE DEF h
<1>4. FlattenSeq(ss) = h[Len(ss)]
  BY <1>1, FlattenIsSum DEF h
<1>5. h[Len(ss)] = f[Len(ss)]
  BY <1>1, <1>2, <1>3, SumsAgree
<1> DEFINE T == {i \in 1..Len(ss) : ~(f[i] # <<>> /\ f[i][1] = ss[1][1])}
<1>6. ASSUME T # {}
      PROVE  FALSE
  <2>1. T \in SUBSET Nat
    BY <1>1
  <2>2. PICK x \in T : \A y \in T : x <= y
    BY <1>6, <2>1, Smallest
  <2>3. x \in 1..Len(ss) /\ ~(f[x] # <<>> /\ f[x][1] = ss[1][1])
    BY <2>2
  <2>4. f[x] = IF x = 1 THEN ss[x] ELSE f[x - 1] \o ss[x]
    BY <1>2, <2>3 DEF Sums
  <2>5. x # 1
    BY <2>3, <2>4
  <2>6. x - 1 \in 1..Len(ss) /\ ~(x <= x - 1)
    BY <1>1, <2>3, <2>5
  <2>7. f[x - 1] # <<>> /\ f[x - 1][1] = ss[1][1] /\ f[x - 1] \in Seq(S) /\ ss[x] \in Seq(S)
    BY <1>1, <2>2, <2>3, <2>6
  <2>8. f[x - 1] \o ss[x] # <<>> /\ (f[x - 1] \o ss[x])[1] = f[x - 1][1]
    BY <2>7, JoinedFirst
  <2> QED
    BY <2>3, <2>4, <2>5, <2>7, <2>8
<1>7. Len(ss) \in 1..Len(ss)
  BY <1>1
<1> QED
  BY <1>4, <1>5, <1>6, <1>7

LEMMA AppendJoined ==
    ASSUME NEW S, NEW s \in Seq(S), NEW u \in Seq(S), NEW e \in S
    PROVE  s \o Append(u, e) = Append(s \o u, e)
OBVIOUS

LEMMA JoinThree ==
    ASSUME NEW S, NEW s \in Seq(S), NEW u \in Seq(S), NEW w \in Seq(S)
    PROVE  (s \o u) \o w = s \o (u \o w)
OBVIOUS

LEMMA JoinNothing ==
    ASSUME NEW S, NEW s \in Seq(S)
    PROVE  s \o <<>> = s /\ <<>> \o s = s
OBVIOUS

LEMMA FrontAndLast ==
    ASSUME NEW S, NEW s \in Seq(S), s # <<>>
    PROVE  /\ Len(s) \in Nat \ {0} /\ Last(s) = s[Len(s)] /\ Last(s) \in S
           /\ Front(s) \in Seq(S) /\ Len(Front(s)) = Len(s) - 1
           /\ \A j \in 1..(Len(s) - 1) : Front(s)[j] = s[j]
           /\ Front(s) = <<>> <=> Len(s) = 1
<1>1. Len(s) \in Nat \ {0} /\ \A j \in 1..Len(s) : s[j] \in S
  OBVIOUS
<1>2. Last(s) = s[Len(s)] /\ Last(s) \in S
  BY <1>1 DEF Last
<1> DEFINE f == SubSeq(s, 1, Len(s) - 1)
<1>3. f \in Seq(S) /\ Len(f) = Len(s) - 1 /\ \A j \in 1..(Len(s) - 1) : f[j] = s[j]
  <2>1. \A j \in 1..(Len(s) - 1) : s[j] \in S
    BY <1>1
  <2>2. /\ f \in Seq(S) /\ Len(f) = IF 1 <= Len(s) - 1 THEN (Len(s) - 1) - 1 + 1 ELSE 0
        /\ \A j \in 1..((Len(s) - 1) - 1 + 1) : f[j] = s[1 + j - 1]
    BY <1>1, <2>1, SubSeqProperties
  <2> DEFINE m == Len(s) - 1
  <2>3. m \in Nat /\ m - 1 + 1 = m /\ (IF 1 <= m THEN m - 1 + 1 ELSE 0) = m
    BY <1>1
  <2>4. \A j \in 1..m : 1 + j - 1 = j
    BY <2>3
  <2> HIDE DEF f, m
  <2>5. /\ f \in Seq(S) /\ Len(f) = IF 1 <= m THEN m - 1 + 1 ELSE 0
        /\ \A j \in 1..(m - 1 + 1) : f[j] = s[1 + j - 1]
    BY <2>2 DEF m
  <2>6. f \in Seq(S) /\ Len(f) = m /\ \A j \in 1..m : f[j] = s[j]
    BY <2>3, <2>4, <2>5
  <2> QED
    BY <2>6 DEF m
<1> HIDE DEF f
<1>4. f = <<>> <=> Len(s) = 1
  BY <1>1, <1>3
<1>5. Front(s) = f
  BY DEF Front, f
<1> QED
  BY <1>1, <1>2, <1>3, <1>4, <1>5

-----------------------------------------------------------------------------
(* The log: an inductive invariant of the store.                           *)

Byte == [n : Nat, lead : BOOLEAN]
Types == States \cup {"output.text", "other"}
Event == [type : Types, body : Seq(Byte), stamp : Nat]
Frame == [saved : Seq(Event), callbacks : Seq(Event)]

\* The text in a list of events.
TextOf(events) == FlattenSeq([i \in DOMAIN events |-> events[i].body])

\* v is w, and after it events that are not the run's.
Extends(v, w) ==
    /\ v \in Seq(Event) /\ w \in Seq(Event) /\ Len(w) <= Len(v)
    /\ \A i \in 1..Len(w) : v[i] = w[i]
    /\ \A i \in (Len(w) + 1)..Len(v) : v[i].type = "other" /\ v[i].body = <<>>
    /\ TextOf(v) = TextOf(w)

\* The connection sees the log and what its transaction added to it.
ViewTrue ==
    /\ disk \in Seq(Event) /\ issued \in Nat /\ frames \in Seq(Frame)
    /\ Extends(view, disk)
    /\ \A j \in 1..Len(frames) : Extends(frames[j].saved, disk)
    /\ ~InTx \/ raised = "undone" => view = disk
    /\ ~InTx => raised = "no"

\* Each savepoint is where the one around it was left, and what happened since then; the
\* callbacks are for what happened.
CallbacksMatch ==
    /\ InTx => frames[1].saved = disk
    /\ \A j \in 1..(Len(frames) - 1) : frames[j + 1].saved = frames[j].saved \o frames[j].callbacks
    /\ InTx /\ raised = "no" => view = Last(frames).saved \o Last(frames).callbacks

\* What listeners were told and what they are to be told is the log since the process started.
QueueMatches ==
    /\ base \in Nat /\ told \in Seq(Event) /\ queue \in Seq(Event)
    /\ Len(disk) = base + Len(told) + Len(queue)
    /\ \A k \in 1..Len(queue) : queue[k] = disk[base + Len(told) + k]

StoreInv == ViewTrue /\ CallbacksMatch /\ QueueMatches

LEMMA TextTypes ==
    ASSUME NEW v \in Seq(Event)
    PROVE  /\ TextOf(v) \in Seq(Byte)
           /\ \A e \in Event : TextOf(Append(v, e)) = TextOf(v) \o e.body
<1> DEFINE bodies == [i \in DOMAIN v |-> v[i].body]
<1>1. \A e \in Event : e.body \in Seq(Byte)
  BY DEF Event
<1>2. DOMAIN v = 1..Len(v) /\ Len(v) \in Nat /\ \A i \in 1..Len(v) : v[i] \in Event
  OBVIOUS
<1>3. bodies \in Seq(Seq(Byte)) /\ Len(bodies) = Len(v)
  <2>1. bodies \in [1..Len(v) -> Seq(Byte)]
    BY <1>1, <1>2
  <2> HIDE DEF bodies
  <2> QED
    BY <1>2, <2>1
<1>4. TextOf(v) \in Seq(Byte)
  <2>1. FlattenSeq(bodies) \in Seq(Byte)
    <3> HIDE DEF bodies
    <3> QED
      BY <1>3, FlattenTypes
  <2> QED
    BY <2>1 DEF TextOf
<1>5. ASSUME NEW e \in Event
      PROVE  TextOf(Append(v, e)) = TextOf(v) \o e.body
  <2> DEFINE more == Append(v, e)
  <2>1. /\ DOMAIN more = 1..(Len(v) + 1) /\ more[Len(v) + 1] = e
        /\ \A i \in 1..Len(v) : more[i] = v[i]
    BY <1>2
  <2>2. [i \in DOMAIN more |-> more[i].body] = Append(bodies, e.body)
    <3>1. Append(bodies, e.body) = [i \in 1..(Len(v) + 1) |-> IF i = Len(v) + 1 THEN e.body ELSE bodies[i]]
      <4> HIDE DEF bodies
      <4> QED
        BY <1>1, <1>3
    <3>2. \A i \in 1..(Len(v) + 1) : i = Len(v) + 1 \/ (i \in 1..Len(v) /\ bodies[i] = v[i].body)
      BY <1>2
    <3> HIDE DEF bodies, more
    <3> QED
      BY <2>1, <3>1, <3>2
  <2>3. FlattenSeq(Append(bodies, e.body)) = FlattenSeq(bodies) \o e.body
    <3> HIDE DEF bodies
    <3> QED
      BY <1>1, <1>3, FlattenMore
  <2> QED
    BY <2>2, <2>3 DEF TextOf
<1> QED
  BY <1>4, <1>5

LEMMA ExtendsItself ==
    ASSUME NEW v \in Seq(Event)
    PROVE  Extends(v, v)
BY DEF Extends

LEMMA ExtendsMore ==
    ASSUME NEW v, NEW w, Extends(v, w), NEW e \in Event, e.type = "other", e.body = <<>>
    PROVE  Extends(Append(v, e), w)
<1>1. v \in Seq(Event) /\ w \in Seq(Event) /\ Len(v) \in Nat /\ Len(w) \in Nat /\ Len(w) <= Len(v)
  BY DEF Extends
<1> DEFINE more == Append(v, e)
<1>2. /\ more \in Seq(Event) /\ Len(more) = Len(v) + 1 /\ more[Len(v) + 1] = e
      /\ \A i \in 1..Len(v) : more[i] = v[i]
  BY <1>1
<1>3. TextOf(more) = TextOf(v)
  BY <1>1, TextTypes, JoinNothing
<1> HIDE DEF more
<1>4. \A i \in 1..Len(w) : more[i] = w[i]
  BY <1>1, <1>2 DEF Extends
<1>5. \A i \in (Len(w) + 1)..Len(more) : more[i].type = "other" /\ more[i].body = <<>>
  <2> TAKE i \in (Len(w) + 1)..Len(more)
  <2>1. i = Len(v) + 1 \/ (i \in (Len(w) + 1)..Len(v) /\ i \in 1..Len(v))
    BY <1>1, <1>2
  <2> QED
    BY <1>2, <2>1 DEF Extends
<1>6. Len(w) <= Len(more)
  BY <1>1, <1>2
<1>7. Extends(more, w)
  BY <1>1, <1>2, <1>3, <1>4, <1>5, <1>6 DEF Extends
<1> QED
  BY <1>7 DEF more

LEMMA JoinEvents ==
    /\ \A s, u \in Seq(Event), e \in Event : s \o Append(u, e) = Append(s \o u, e)
    /\ \A s, u, w \in Seq(Event) : (s \o u) \o w = s \o (u \o w)
<1>1. \A s, u \in Seq(Event), e \in Event : s \o Append(u, e) = Append(s \o u, e)
  BY AppendJoined
<1>2. \A s, u, w \in Seq(Event) : (s \o u) \o w = s \o (u \o w)
  BY JoinThree
<1> QED
  BY <1>1, <1>2

LEMMA FrameFields ==
    /\ \A f \in Frame : f.saved \in Seq(Event) /\ f.callbacks \in Seq(Event)
    /\ \A v, c \in Seq(Event) : [saved |-> v, callbacks |-> c] \in Frame
    /\ \A f \in Frame, c \in Seq(Event) :
           /\ [f EXCEPT !.callbacks = c] \in Frame
           /\ [f EXCEPT !.callbacks = c].saved = f.saved
           /\ [f EXCEPT !.callbacks = c].callbacks = c
BY DEF Frame

-----------------------------------------------------------------------------
(* The log: each step of the store keeps the invariant.                    *)

\* What a step may do to the log: nothing, or add events that are not the run's.
Unconcerned == Extends(disk', disk) /\ UNCHANGED <<base, told>>

\* An event is written.
LEMMA EmitWrites ==
    ASSUME issued \in Nat, NEW type \in Types, NEW body \in Seq(Byte), Emit(type, body)
    PROVE  \E e \in Event :
               /\ e.type = type /\ e.body = body
               /\ view' = Append(view, e) /\ disk' = IF InTx THEN disk ELSE view'
               /\ InTx => /\ frames' = [frames EXCEPT ![Len(frames)] =
                                           [frames[Len(frames)] EXCEPT !.callbacks = Append(frames[Len(frames)].callbacks, e)]]
                          /\ queue' = queue
               /\ ~InTx => queue' = Append(queue, e) /\ frames' = frames
               /\ raised = "no" /\ raised' = "no" /\ UNCHANGED <<base, told>> /\ issued' \in Nat
<1> DEFINE event == [type |-> type, body |-> body, stamp |-> issued']
<1>1. event \in Event /\ event.type = type /\ event.body = body /\ issued' \in Nat
  BY DEF Emit, Event
<1>2. /\ WriteEvent(event) /\ AfterCommit(event)
      /\ raised = "no" /\ UNCHANGED <<raised, base, told>>
  BY DEF Emit
<1> HIDE DEF event
<1>3. view' = Append(view, event) /\ disk' = IF InTx THEN disk ELSE view'
  BY <1>2 DEF WriteEvent
<1>4. /\ InTx => /\ frames' = [frames EXCEPT ![Len(frames)] =
                                 [frames[Len(frames)] EXCEPT !.callbacks = Append(frames[Len(frames)].callbacks, event)]]
                 /\ queue' = queue
      /\ ~InTx => queue' = Append(queue, event) /\ frames' = frames
  BY <1>2 DEF AfterCommit
<1> QED
  BY <1>1, <1>2, <1>3, <1>4

\* The log has one event more.
Writes(type, body) ==
    \E e \in Event : e.type = type /\ e.body = body /\ disk' = Append(disk, e)

\* Outside of transactions, it is in the log at once.
LEMMA EmitOutside ==
    ASSUME StoreInv, ~InTx, NEW type \in Types, NEW body \in Seq(Byte), Emit(type, body)
    PROVE  StoreInv' /\ ~InTx' /\ UNCHANGED <<base, told>> /\ Writes(type, body)
<1>1. issued \in Nat /\ disk \in Seq(Event) /\ view = disk /\ frames = <<>>
  BY DEF StoreInv, ViewTrue, InTx
<1>2. PICK e \in Event :
          /\ e.type = type /\ e.body = body
          /\ view' = Append(view, e) /\ disk' = view' /\ queue' = Append(queue, e)
          /\ frames' = frames /\ raised' = "no" /\ UNCHANGED <<base, told>> /\ issued' \in Nat
  BY <1>1, EmitWrites
<1>3. disk' \in Seq(Event) /\ Len(disk') = Len(disk) + 1 /\ Len(disk) \in Nat
  BY <1>1, <1>2
<1>4. ViewTrue'
  <2>1. Extends(view', disk')
    BY <1>2, <1>3, ExtendsItself
  <2>2. Len(frames') = 0 /\ frames' \in Seq(Frame)
    BY <1>1, <1>2
  <2> QED
    BY <1>1, <1>2, <1>3, <2>1, <2>2 DEF ViewTrue, InTx
<1>5. CallbacksMatch'
  BY <1>1, <1>2 DEF CallbacksMatch, InTx
<1>6. QueueMatches'
  <2>1. /\ base \in Nat /\ Len(told) \in Nat /\ queue \in Seq(Event) /\ Len(queue) \in Nat
        /\ Len(disk) = base + Len(told) + Len(queue)
    BY DEF StoreInv, QueueMatches
  <2>2. /\ queue' \in Seq(Event) /\ Len(queue') = Len(queue) + 1 /\ queue'[Len(queue) + 1] = e
        /\ \A k \in 1..Len(queue) : queue'[k] = queue[k]
    BY <1>2, <2>1
  <2>3. /\ disk'[Len(disk) + 1] = e /\ \A k \in 1..Len(disk) : disk'[k] = disk[k]
    BY <1>1, <1>2
  <2>4. ASSUME NEW k \in 1..Len(queue')
        PROVE  queue'[k] = disk'[base' + Len(told') + k]
    <3>1. CASE k = Len(queue) + 1
      <4>1. base + Len(told) + k = Len(disk) + 1
        BY <2>1, <3>1
      <4>2. disk'[base + Len(told) + k] = e
        BY <2>3, <4>1
      <4> QED
        BY <1>2, <2>2, <3>1, <4>2
    <3>2. CASE k \in 1..Len(queue)
      <4>1. base + Len(told) + k \in 1..Len(disk)
        BY <2>1, <3>2
      <4>2. queue[k] = disk[base + Len(told) + k]
        BY <3>2 DEF StoreInv, QueueMatches
      <4> QED
        BY <1>2, <2>2, <2>3, <3>2, <4>1, <4>2
    <3> QED
      BY <2>1, <2>2, <3>1, <3>2
  <2>5. Len(disk') = base' + Len(told') + Len(queue')
    BY <1>2, <1>3, <2>1, <2>2
  <2> QED
    BY <1>2, <2>2, <2>4, <2>5 DEF StoreInv, QueueMatches
<1> QED
  BY <1>1, <1>2, <1>4, <1>5, <1>6 DEF StoreInv, InTx, Writes

\* An event that is not the run's, in a transaction or not.
LEMMA OtherEmitStore ==
    ASSUME StoreInv, Emit("other", <<>>)
    PROVE  StoreInv' /\ Unconcerned /\ (InTx' <=> InTx)
<1>0. /\ issued \in Nat /\ "other" \in Types /\ <<>> \in Seq(Byte) /\ disk \in Seq(Event)
      /\ frames \in Seq(Frame) /\ Extends(view, disk)
      /\ \A j \in 1..Len(frames) : Extends(frames[j].saved, disk)
  BY DEF StoreInv, ViewTrue, Types
<1>1. CASE ~InTx
  <2>0. Writes("other", <<>>)
    BY <1>0, <1>1, EmitOutside
  <2>1. PICK e \in Event : e.type = "other" /\ e.body = <<>> /\ disk' = Append(disk, e)
    BY <2>0 DEF Writes
  <2>2. Extends(disk', disk)
    BY <1>0, <2>1, ExtendsItself, ExtendsMore
  <2> QED
    BY <1>0, <1>1, <2>2, EmitOutside DEF Unconcerned
<1>2. CASE InTx
  <2> DEFINE L == Len(frames)
             top == frames[L]
  <2>1. PICK e \in Event :
            /\ e.type = "other" /\ e.body = <<>>
            /\ view' = Append(view, e) /\ disk' = disk /\ queue' = queue
            /\ frames' = [frames EXCEPT ![L] = [top EXCEPT !.callbacks = Append(top.callbacks, e)]]
            /\ raised = "no" /\ raised' = "no" /\ UNCHANGED <<base, told>> /\ issued' \in Nat
    BY <1>0, <1>2, EmitWrites
  <2>2. L \in Nat \ {0} /\ top \in Frame /\ Last(frames) = top
    BY <1>0, <1>2, FrontAndLast DEF InTx
  <2>3. /\ top.saved \in Seq(Event) /\ top.callbacks \in Seq(Event)
        /\ Append(top.callbacks, e) \in Seq(Event)
    BY <2>2, FrameFields
  <2> DEFINE new == [top EXCEPT !.callbacks = Append(top.callbacks, e)]
  <2>4. new \in Frame /\ new.saved = top.saved /\ new.callbacks = Append(top.callbacks, e)
    BY <2>2, <2>3, FrameFields
  <2>5. frames' = [frames EXCEPT ![L] = new]
    BY <2>1
  <2> HIDE DEF new, top
  <2>6. /\ frames' \in Seq(Frame) /\ Len(frames') = L /\ frames'[L] = new
        /\ \A j \in 1..L : j # L => frames'[j] = frames[j]
        /\ \A j \in 1..L : frames'[j].saved = frames[j].saved
    BY <1>0, <2>2, <2>4, <2>5 DEF top
  <2>7. InTx' /\ Last(frames') = new
    <3>1. frames' # <<>>
      BY <2>2, <2>6
    <3> QED
      BY <2>6, <3>1 DEF InTx, Last
  <2>8. Extends(view', disk)
    BY <1>0, <2>1, ExtendsMore
  <2>9. ViewTrue'
    BY <1>0, <2>1, <2>6, <2>7, <2>8 DEF ViewTrue
  <2>10. view = top.saved \o top.callbacks
    BY <1>2, <2>1, <2>2 DEF StoreInv, CallbacksMatch
  <2>11. view' = new.saved \o new.callbacks
    <3>1. PICK s \in Seq(Event), u \in Seq(Event) : s = top.saved /\ u = top.callbacks
      BY <2>3
    <3>2. s \o Append(u, e) = Append(s \o u, e)
      BY JoinEvents
    <3> QED
      BY <2>1, <2>4, <2>10, <3>1, <3>2
  <2>12. \A j \in 1..(L - 1) : frames'[j + 1].saved = frames'[j].saved \o frames'[j].callbacks
    <3> TAKE j \in 1..(L - 1)
    <3>1. j \in 1..L /\ j + 1 \in 1..L /\ j # L
      BY <2>2
    <3>2. frames[j + 1].saved = frames[j].saved \o frames[j].callbacks
      BY DEF StoreInv, CallbacksMatch
    <3> QED
      BY <2>6, <3>1, <3>2
  <2>13. frames'[1].saved = disk'
    BY <1>2, <2>1, <2>2, <2>6 DEF StoreInv, CallbacksMatch
  <2>14. CallbacksMatch'
    BY <2>6, <2>7, <2>11, <2>12, <2>13 DEF CallbacksMatch
  <2>15. QueueMatches'
    BY <2>1 DEF StoreInv, QueueMatches
  <2> QED
    BY <1>0, <1>2, <2>1, <2>7, <2>9, <2>14, <2>15, ExtendsItself DEF StoreInv, Unconcerned
<1> QED
  BY <1>1, <1>2

LEMMA EnterStore ==
    ASSUME StoreInv, Enter
    PROVE  StoreInv' /\ Unconcerned
<1>1. /\ disk \in Seq(Event) /\ frames \in Seq(Frame) /\ Extends(view, disk) /\ Len(frames) \in Nat
      /\ \A j \in 1..Len(frames) : Extends(frames[j].saved, disk)
  BY DEF StoreInv, ViewTrue
<1> DEFINE new == [saved |-> view, callbacks |-> <<>>]
<1>2. view \in Seq(Event) /\ new \in Frame /\ new.saved = view /\ new.callbacks = <<>>
  <2>1. view \in Seq(Event) /\ <<>> \in Seq(Event)
    BY <1>1 DEF Extends
  <2> QED
    BY <2>1, FrameFields
<1>3. /\ raised = "no" /\ frames' = Append(frames, new)
      /\ UNCHANGED <<disk, view, raised, queue, base, told, issued>>
  BY DEF Enter
<1> HIDE DEF new
<1>4. /\ frames' \in Seq(Frame) /\ Len(frames') = Len(frames) + 1 /\ frames'[Len(frames) + 1] = new
      /\ \A j \in 1..Len(frames) : frames'[j] = frames[j]
      /\ \A j \in 1..Len(frames') : j \in 1..Len(frames) \/ j = Len(frames) + 1
  BY <1>1, <1>2, <1>3
<1>5. InTx' /\ Last(frames') = new
  <2>1. frames' # <<>>
    BY <1>1, <1>4
  <2> QED
    BY <1>4, <2>1 DEF InTx, Last
<1>6. \A j \in 1..Len(frames') : Extends(frames'[j].saved, disk)
  BY <1>1, <1>2, <1>4
<1>7. ViewTrue'
  BY <1>1, <1>3, <1>4, <1>5, <1>6 DEF StoreInv, ViewTrue
<1>8. frames'[1].saved = disk
  <2>1. CASE InTx
    <3>1. 1 \in 1..Len(frames)
      BY <1>1, <2>1 DEF InTx
    <3> QED
      BY <1>4, <2>1, <3>1 DEF StoreInv, CallbacksMatch
  <2>2. CASE ~InTx
    <3>1. Len(frames) + 1 = 1 /\ view = disk
      BY <2>2 DEF InTx, StoreInv, ViewTrue
    <3> QED
      BY <1>2, <1>4, <3>1
  <2> QED
    BY <2>1, <2>2
<1>9. \A j \in 1..(Len(frames') - 1) : frames'[j + 1].saved = frames'[j].saved \o frames'[j].callbacks
  <2> TAKE j \in 1..(Len(frames') - 1)
  <2>1. j \in 1..Len(frames) /\ frames'[j] = frames[j]
    BY <1>1, <1>4
  <2>2. CASE j = Len(frames)
    <3>1. InTx /\ Last(frames) = frames[j]
      <4>1. frames # <<>>
        BY <1>1, <2>1
      <4> QED
        BY <2>2, <4>1 DEF InTx, Last
    <3>2. view = frames[j].saved \o frames[j].callbacks
      BY <1>3, <3>1 DEF StoreInv, CallbacksMatch
    <3> QED
      BY <1>2, <1>4, <2>1, <2>2, <3>2
  <2>3. CASE j # Len(frames)
    <3>1. j \in 1..(Len(frames) - 1) /\ j + 1 \in 1..Len(frames)
      BY <1>1, <2>1, <2>3
    <3>2. frames[j + 1].saved = frames[j].saved \o frames[j].callbacks
      BY <3>1 DEF StoreInv, CallbacksMatch
    <3> QED
      BY <1>4, <2>1, <3>1, <3>2
  <2> QED
    BY <2>2, <2>3
<1>10. view' = new.saved \o new.callbacks
  BY <1>2, <1>3, JoinNothing
<1>11. CallbacksMatch'
  BY <1>3, <1>5, <1>8, <1>9, <1>10 DEF CallbacksMatch
<1>12. QueueMatches'
  BY <1>3 DEF StoreInv, QueueMatches
<1> QED
  BY <1>1, <1>3, <1>7, <1>11, <1>12, ExtendsItself DEF StoreInv, Unconcerned

\* A transaction inside another is merged into it; the outermost is committed.
LEMMA LeaveStore ==
    ASSUME StoreInv, Leave
    PROVE  StoreInv' /\ Unconcerned /\ (InTx' => InTx)
<1> DEFINE L == Len(frames)
           done == Last(frames).callbacks
           outer == Front(frames)
<1>1. /\ InTx /\ raised = "no" /\ frames # <<>> /\ issued \in Nat
      /\ disk \in Seq(Event) /\ frames \in Seq(Frame) /\ Extends(view, disk)
      /\ \A j \in 1..L : Extends(frames[j].saved, disk)
      /\ view = Last(frames).saved \o done
      /\ UNCHANGED <<view, raised, base, told, issued>>
  BY DEF StoreInv, ViewTrue, CallbacksMatch, Leave, InTx
<1>2. /\ L \in Nat \ {0} /\ Last(frames) = frames[L] /\ Last(frames) \in Frame
      /\ outer \in Seq(Frame) /\ Len(outer) = L - 1 /\ \A j \in 1..(L - 1) : outer[j] = frames[j]
      /\ outer = <<>> <=> L = 1
  BY <1>1, FrontAndLast
<1>3. Last(frames).saved \in Seq(Event) /\ done \in Seq(Event) /\ view \in Seq(Event)
  BY <1>1, <1>2, FrameFields DEF Extends
<1> HIDE DEF done, outer, L
<1>4. CASE L = 1
  <2>1. disk' = view /\ queue' = queue \o done /\ frames' = <<>>
    BY <1>2, <1>4 DEF Leave, done, outer
  <2>2. view = disk \o done
    BY <1>1, <1>2, <1>4 DEF StoreInv, CallbacksMatch
  <2>3. ViewTrue' /\ CallbacksMatch' /\ ~InTx'
    <3>1. Extends(view', disk') /\ view' = disk'
      BY <1>1, <1>3, <2>1, ExtendsItself
    <3>4. frames' \in Seq(Frame) /\ Len(frames') = 0
      BY <2>1
    <3>2. ~InTx'
      BY <2>1 DEF InTx
    <3>3. CallbacksMatch'
      <4>1. \A j \in 1..(Len(frames') - 1) : FALSE
        BY <3>4
      <4> QED
        BY <3>2, <4>1 DEF CallbacksMatch
    <3> QED
      BY <1>1, <1>3, <2>1, <3>1, <3>2, <3>3, <3>4 DEF ViewTrue
  <2>4. QueueMatches'
    <3>1. /\ base \in Nat /\ Len(told) \in Nat /\ queue \in Seq(Event) /\ Len(queue) \in Nat
          /\ Len(disk) = base + Len(told) + Len(queue) /\ Len(disk) \in Nat /\ Len(done) \in Nat
      BY <1>1, <1>3 DEF StoreInv, QueueMatches
    <3>2. /\ queue' \in Seq(Event) /\ Len(queue') = Len(queue) + Len(done)
          /\ \A k \in 1..Len(queue) : queue'[k] = queue[k]
          /\ \A k \in 1..Len(done) : queue'[Len(queue) + k] = done[k]
      BY <1>3, <2>1, <3>1
    <3>3. /\ Len(disk') = Len(disk) + Len(done)
          /\ \A k \in 1..Len(disk) : disk'[k] = disk[k]
          /\ \A k \in 1..Len(done) : disk'[Len(disk) + k] = done[k]
      BY <1>1, <1>3, <2>1, <2>2
    <3>4. ASSUME NEW k \in 1..Len(queue')
          PROVE  queue'[k] = disk'[base + Len(told) + k]
      <4>1. CASE k \in 1..Len(queue)
        <5>1. base + Len(told) + k \in 1..Len(disk) /\ queue[k] = disk[base + Len(told) + k]
          BY <3>1, <4>1 DEF StoreInv, QueueMatches
        <5> QED
          BY <3>2, <3>3, <4>1, <5>1
      <4>2. CASE k > Len(queue)
        <5>1. /\ k - Len(queue) \in 1..Len(done) /\ Len(queue) + (k - Len(queue)) = k
              /\ Len(disk) + (k - Len(queue)) = base + Len(told) + k
          BY <3>1, <3>2, <4>2
        <5> QED
          BY <3>2, <3>3, <5>1
      <4> QED
        BY <3>1, <3>2, <4>1, <4>2
    <3>5. Len(disk') = base + Len(told) + Len(queue')
      BY <3>1, <3>2, <3>3
    <3> QED
      BY <1>1, <3>2, <3>4, <3>5 DEF StoreInv, QueueMatches
  <2> QED
    BY <1>1, <2>1, <2>3, <2>4 DEF StoreInv, Unconcerned
<1>5. CASE L # 1
  <2> DEFINE top == outer[L - 1]
             new == [top EXCEPT !.callbacks = top.callbacks \o done]
  <2>1. /\ L - 1 \in 1..(L - 1) /\ L - 1 \in Nat \ {0} /\ (L - 1) + 1 = L
        /\ top = frames[L - 1] /\ top \in Frame
    <3>1. L - 1 \in 1..(L - 1) /\ L - 1 \in Nat \ {0} /\ (L - 1) + 1 = L
      BY <1>2, <1>5
    <3> QED
      BY <1>2, <3>1
  <2>2. top.saved \in Seq(Event) /\ top.callbacks \in Seq(Event) /\ top.callbacks \o done \in Seq(Event)
    BY <1>3, <2>1, FrameFields
  <2>3. frames' = [outer EXCEPT ![L - 1] = new] /\ UNCHANGED <<disk, queue>>
    BY <1>2, <1>5 DEF Leave, done, outer
  <2>4. new \in Frame /\ new.saved = top.saved /\ new.callbacks = top.callbacks \o done
    BY <2>1, <2>2, FrameFields
  <2> HIDE DEF new, top
  <2>5. /\ frames' \in Seq(Frame) /\ Len(frames') = L - 1 /\ frames'[L - 1] = new
        /\ \A j \in 1..(L - 1) : j # L - 1 => frames'[j] = frames[j]
        /\ \A j \in 1..(L - 1) : frames'[j].saved = frames[j].saved
    BY <1>2, <2>1, <2>3, <2>4
  <2>6. InTx' /\ Last(frames') = new
    <3>1. frames' # <<>>
      BY <2>1, <2>5
    <3> QED
      BY <2>5, <3>1 DEF InTx, Last
  <2>7. ViewTrue'
    <3>1. \A j \in 1..(L - 1) : Extends(frames'[j].saved, disk)
      BY <1>1, <1>2, <2>5 DEF L
    <3> QED
      BY <1>1, <2>3, <2>5, <2>6, <3>1 DEF ViewTrue
  <2>8. frames[L].saved = top.saved \o top.callbacks
    BY <2>1 DEF StoreInv, CallbacksMatch, L
  <2>9. view' = new.saved \o new.callbacks
    <3>1. PICK s \in Seq(Event), u \in Seq(Event), w \in Seq(Event) :
              s = top.saved /\ u = top.callbacks /\ w = done
      BY <1>3, <2>2
    <3>2. (s \o u) \o w = s \o (u \o w)
      BY JoinEvents
    <3> QED
      BY <1>1, <1>2, <2>4, <2>8, <3>1, <3>2
  <2>10. \A j \in 1..(Len(frames') - 1) : frames'[j + 1].saved = frames'[j].saved \o frames'[j].callbacks
    <3> TAKE j \in 1..(Len(frames') - 1)
    <3>1. j \in 1..(L - 1) /\ j + 1 \in 1..(L - 1) /\ j # L - 1
      BY <2>1, <2>5
    <3>2. frames[j + 1].saved = frames[j].saved \o frames[j].callbacks
      BY <3>1 DEF StoreInv, CallbacksMatch, L
    <3> QED
      BY <2>5, <3>1, <3>2
  <2>11. frames'[1].saved = disk
    <3>1. 1 \in 1..(L - 1)
      BY <2>1
    <3> QED
      BY <1>1, <2>5, <3>1 DEF StoreInv, CallbacksMatch
  <2>12. CallbacksMatch'
    BY <2>3, <2>6, <2>9, <2>10, <2>11 DEF CallbacksMatch
  <2>13. QueueMatches'
    BY <1>1, <2>3 DEF StoreInv, QueueMatches
  <2> QED
    BY <1>1, <2>3, <2>7, <2>12, <2>13, ExtendsItself DEF StoreInv, Unconcerned
<1> QED
  BY <1>4, <1>5

\* An error: the transaction's changes are gone at once, or when its savepoint is reached.
LEMMA ThrowStore ==
    ASSUME StoreInv, NEW error \in Errors, Throw(error)
    PROVE  StoreInv' /\ Unconcerned /\ (InTx' => InTx)
<1>1. /\ InTx /\ raised' = error /\ error # "no" /\ view' = IF error = "undone" THEN disk ELSE view
      /\ UNCHANGED <<disk, frames, queue, base, told, issued>>
  BY DEF Throw, Errors
<1>2. InTx' /\ disk \in Seq(Event) /\ Extends(disk, disk)
  BY <1>1, ExtendsItself DEF InTx, StoreInv, ViewTrue
<1>3. ViewTrue'
  BY <1>1, <1>2 DEF StoreInv, ViewTrue
<1>4. CallbacksMatch' /\ QueueMatches'
  BY <1>1, <1>2 DEF StoreInv, CallbacksMatch, QueueMatches
<1> QED
  BY <1>1, <1>2, <1>3, <1>4 DEF StoreInv, Unconcerned

LEMMA UnwindStore ==
    ASSUME StoreInv, Unwind
    PROVE  StoreInv' /\ Unconcerned /\ (InTx' => InTx)
<1> DEFINE L == Len(frames)
<1>1. /\ InTx /\ frames # <<>> /\ frames \in Seq(Frame) /\ disk \in Seq(Event) /\ issued \in Nat
      /\ \A j \in 1..L : Extends(frames[j].saved, disk)
      /\ view' = IF raised = "undone" THEN view ELSE Last(frames).saved
      /\ frames' = Front(frames) /\ UNCHANGED <<disk, queue, base, told, issued>>
      /\ raised # "no"
      /\ \/ raised' = "no" /\ (raised = "own" \/ L = 1)
         \/ raised' = raised /\ L > 1
  BY DEF StoreInv, ViewTrue, Unwind, InTx
<1>2. /\ L \in Nat \ {0} /\ Last(frames) = frames[L] /\ frames' \in Seq(Frame)
      /\ Len(frames') = L - 1 /\ \A j \in 1..(L - 1) : frames'[j] = frames[j]
      /\ frames' = <<>> <=> L = 1
  BY <1>1, FrontAndLast
<1>3. InTx' <=> L # 1
  BY <1>2 DEF InTx
<1>4. raised = "undone" => view = disk
  BY DEF StoreInv, ViewTrue
<1>5. frames[1].saved = disk
  BY <1>1 DEF StoreInv, CallbacksMatch
<1>6. Extends(view', disk)
  BY <1>1, <1>2, <1>4, ExtendsItself
<1>7. \A j \in 1..Len(frames') : Extends(frames'[j].saved, disk)
  BY <1>1, <1>2
<1>8. L = 1 => view' = disk
  BY <1>1, <1>2, <1>4, <1>5
<1>9. raised' = "undone" => view' = disk
  BY <1>1, <1>4
<1>10. L = 1 => raised' = "no"
  BY <1>1
<1> HIDE DEF L
<1>11. ViewTrue'
  BY <1>1, <1>2, <1>3, <1>6, <1>7, <1>8, <1>9, <1>10 DEF ViewTrue
<1>12. CallbacksMatch'
  <2>1. InTx' => frames'[1].saved = disk
    <3>1. L # 1 => 1 \in 1..(L - 1)
      BY <1>2
    <3> QED
      BY <1>2, <1>3, <1>5, <3>1
  <2>2. \A j \in 1..(Len(frames') - 1) : frames'[j + 1].saved = frames'[j].saved \o frames'[j].callbacks
    <3> TAKE j \in 1..(Len(frames') - 1)
    <3>1. j \in 1..(L - 1) /\ j + 1 \in 1..(L - 1)
      BY <1>2
    <3>2. frames[j + 1].saved = frames[j].saved \o frames[j].callbacks
      BY <3>1 DEF StoreInv, CallbacksMatch, L
    <3> QED
      BY <1>2, <3>1, <3>2
  <2>3. ASSUME InTx', raised' = "no"
        PROVE  view' = Last(frames').saved \o Last(frames').callbacks
    <3>1. L # 1 /\ raised = "own" /\ view' = frames[L].saved
      BY <1>1, <1>2, <1>3, <2>3 DEF L
    <3>2. L - 1 \in 1..(L - 1) /\ (L - 1) + 1 = L
      BY <1>2, <3>1
    <3>3. frames[(L - 1) + 1].saved = frames[L - 1].saved \o frames[L - 1].callbacks
      BY <3>2 DEF StoreInv, CallbacksMatch, L
    <3>4. Last(frames') = frames[L - 1]
      BY <1>2, <2>3, <3>2, FrontAndLast DEF InTx
    <3> QED
      BY <3>1, <3>2, <3>3, <3>4
  <2> QED
    BY <1>1, <2>1, <2>2, <2>3 DEF CallbacksMatch
<1>13. QueueMatches'
  BY <1>1 DEF StoreInv, QueueMatches
<1> QED
  BY <1>1, <1>11, <1>12, <1>13, ExtendsItself DEF StoreInv, Unconcerned

\* A listener is told of the event that is first in the queue.
LEMMA MicrotaskStore ==
    ASSUME StoreInv, Microtask
    PROVE  StoreInv' /\ (InTx' <=> InTx)
<1>1. /\ queue # <<>> /\ told' = Append(told, Head(queue)) /\ queue' = Tail(queue)
      /\ UNCHANGED <<disk, view, frames, raised, base, issued>>
  BY DEF Microtask
<1>2. ViewTrue' /\ CallbacksMatch' /\ (InTx' <=> InTx)
  BY <1>1 DEF StoreInv, ViewTrue, CallbacksMatch, InTx
<1>3. /\ base \in Nat /\ told \in Seq(Event) /\ Len(told) \in Nat
      /\ queue \in Seq(Event) /\ Len(queue) \in Nat \ {0}
      /\ Len(disk) = base + Len(told) + Len(queue)
  BY <1>1 DEF StoreInv, QueueMatches
<1>4. /\ Head(queue) \in Event /\ Tail(queue) \in Seq(Event) /\ Len(Tail(queue)) = Len(queue) - 1
      /\ \A k \in 1..Len(Tail(queue)) : Tail(queue)[k] = queue[k + 1]
  BY <1>1, <1>3, HeadTailProperties
<1>5. told' \in Seq(Event) /\ Len(told') = Len(told) + 1
  BY <1>1, <1>3, <1>4
<1>6. ASSUME NEW k \in 1..Len(queue')
      PROVE  queue'[k] = disk'[base' + Len(told') + k]
  <2>1. k + 1 \in 1..Len(queue) /\ queue'[k] = queue[k + 1]
    BY <1>1, <1>3, <1>4
  <2>2. queue[k + 1] = disk[base + Len(told) + (k + 1)]
    BY <2>1 DEF StoreInv, QueueMatches
  <2>3. base + Len(told) + (k + 1) = base' + Len(told') + k
    BY <1>1, <1>3, <1>5
  <2> QED
    BY <1>1, <2>1, <2>2, <2>3
<1>7. Len(disk') = base' + Len(told') + Len(queue')
  BY <1>1, <1>3, <1>4, <1>5
<1> QED
  BY <1>1, <1>2, <1>3, <1>4, <1>5, <1>6, <1>7 DEF StoreInv, QueueMatches

LEMMA RestartStore ==
    ASSUME StoreInv, Restart
    PROVE  StoreInv' /\ ~InTx' /\ disk' = disk
<1>1. /\ view' = disk /\ frames' = <<>> /\ raised' = "no" /\ queue' = <<>>
      /\ base' = Len(disk) /\ told' = <<>> /\ UNCHANGED <<disk, issued>>
  BY DEF Restart
<1>2. disk \in Seq(Event) /\ Len(disk) \in Nat /\ Extends(disk, disk) /\ issued \in Nat
  BY ExtendsItself DEF StoreInv, ViewTrue
<1>3. ~InTx' /\ Len(frames') = 0 /\ frames' \in Seq(Frame)
  BY <1>1 DEF InTx
<1>4. ViewTrue' /\ CallbacksMatch'
  <2>1. \A j \in 1..Len(frames') : FALSE
    BY <1>3
  <2>2. \A j \in 1..(Len(frames') - 1) : FALSE
    BY <1>3
  <2>3. CallbacksMatch'
    BY <1>3, <2>2 DEF CallbacksMatch
  <2>4. ViewTrue'
    BY <1>1, <1>2, <1>3, <2>1 DEF ViewTrue
  <2> QED
    BY <2>3, <2>4
<1>5. QueueMatches'
  <2>1. Len(told') = 0 /\ Len(queue') = 0 /\ told' \in Seq(Event) /\ queue' \in Seq(Event)
    BY <1>1
  <2> QED
    BY <1>1, <1>2, <2>1 DEF QueueMatches
<1> QED
  BY <1>1, <1>3, <1>4, <1>5 DEF StoreInv

-----------------------------------------------------------------------------
(* The run: an inductive invariant.                                        *)

\* The end of the run is in the log.
Over == \E i \in 1..Len(disk) : disk[i].type \in States

Succeeded == \E i \in 1..Len(disk) : disk[i].type = "succeeded"

\* Functions that have not ended run outside of transactions, and execute() knows what the
\* agent came to; a batcher that is disposed of has nothing, and is so only when the run is
\* over, or on its way there or to the end of the process.
Uninterrupted ==
    /\ rest # <<>> \/ stage \in {"finish", "catch", "unsure", "recover"} => ~InTx
    /\ rest # <<>> => stage = "working"
    /\ stage = "ending" => outcome \in States \cup {"rejected"}
    /\ stage = "finish" => text = <<>> /\ outcome \in States
    /\ stopped => /\ text = <<>> /\ rest = <<>>
                  /\ Over \/ uncaught \/ stage \in {"task", "over", "recover"}

\* What is in the log, in the batcher and still in append().
Owed == (TextOf(disk) \o text) \o rest

\* The run may still be a success.
Whole == ~stopped /\ (stage = "working" \/ (stage \in {"ending", "finish"} /\ outcome = "succeeded"))

Begins(s, u) == Len(s) <= Len(u) /\ \A k \in 1..Len(s) : u[k] = s[k]

\* Until the run is over, the batcher has what the log has not, or it has nothing; as long as
\* the run may be a success it has all of it.
NothingLost ==
    /\ given \in Seq(Byte) /\ text \in Seq(Byte) /\ rest \in Seq(Byte)
    /\ \A k \in 1..Len(given) : given[k].n = k
    /\ Begins(TextOf(disk), given)
    /\ ~Over => (text = <<>> /\ rest = <<>>) \/ Owed = given
    /\ ~Over /\ Whole => Owed = given

\* A character begins with this byte.
Leads(byte) == byte.lead

\* The first p bytes are whole characters, for all that is known.
CutAt(p) == p < Len(given) => Leads(given[p + 1])

Batch(b) == b # <<>> => /\ Len(b) <= Limit /\ Leads(b[1])
                        /\ b[Len(b)].n <= Len(given) /\ CutAt(b[Len(b)].n)

WholeCharacters ==
    /\ Len(text) <= Limit
    /\ ~Over => CutAt(Len(TextOf(disk))) /\ CutAt(Len(TextOf(disk)) + Len(text))
    /\ \A i \in 1..Len(disk) : Batch(disk[i].body)

EndsRight ==
    /\ Succeeded /\ ~uncaught => TextOf(disk) = given
    /\ \A i, j \in 1..Len(disk) : i < j /\ disk[i].type \in States => disk[j].type = "other"

RunInv == Uninterrupted /\ NothingLost /\ WholeCharacters /\ EndsRight

-----------------------------------------------------------------------------
(* The run: what its steps do to the log.                                  *)

LEMMA EndedIsOver ==
    ASSUME StoreInv
    PROVE  Ended <=> Over
<1>1. /\ view \in Seq(Event) /\ disk \in Seq(Event) /\ Len(disk) <= Len(view)
      /\ \A i \in 1..Len(disk) : view[i] = disk[i]
      /\ \A i \in (Len(disk) + 1)..Len(view) : view[i].type = "other"
  BY DEF StoreInv, ViewTrue, Extends
<1>2. DOMAIN view = 1..Len(view) /\ Len(view) \in Nat /\ Len(disk) \in Nat
  BY <1>1
<1>3. ASSUME Over
      PROVE  Ended
  <2>1. PICK i \in 1..Len(disk) : disk[i].type \in States
    BY <1>3 DEF Over
  <2>2. i \in DOMAIN view /\ view[i].type \in States
    BY <1>1, <1>2, <2>1
  <2> QED
    BY <2>2 DEF Ended
<1>4. ASSUME Ended
      PROVE  Over
  <2>1. PICK i \in 1..Len(view) : view[i].type \in States
    BY <1>2, <1>4 DEF Ended
  <2>2. i \in 1..Len(disk)
    BY <1>1, <1>2, <2>1 DEF States
  <2> QED
    BY <1>1, <2>1, <2>2 DEF Over
<1> QED
  BY <1>3, <1>4

\* A step that does not write, or one whose write fails.
LEMMA SameStore ==
    ASSUME StoreInv, UNCHANGED storeVars
    PROVE  StoreInv' /\ (InTx' <=> InTx) /\ disk' = disk /\ Unconcerned
<1>1. UNCHANGED <<disk, view, frames, raised, queue, base, told, issued>>
  BY DEF storeVars
<1>2. disk \in Seq(Event)
  BY DEF StoreInv, ViewTrue
<1> QED
  BY <1>1, <1>2, ExtendsItself DEF StoreInv, ViewTrue, CallbacksMatch, QueueMatches, InTx, Unconcerned

LEMMA FinishStore ==
    ASSUME StoreInv, ~InTx, NEW state \in States, Finish(state)
    PROVE  /\ StoreInv' /\ ~InTx' /\ UNCHANGED <<base, told>>
           /\ \/ Over /\ disk' = disk
              \/ ~Over /\ Writes(state, <<>>)
<1>1. CASE Over
  BY <1>1, EndedIsOver, SameStore DEF Finish, Unconcerned
<1>2. CASE ~Over
  <2>1. Emit(state, <<>>) /\ state \in Types /\ <<>> \in Seq(Byte)
    BY <1>2, EndedIsOver DEF Finish, Types
  <2> QED
    BY <1>2, <2>1, EmitOutside
<1> QED
  BY <1>1, <1>2

LEMMA SendTextStore ==
    ASSUME StoreInv, ~InTx, NEW b \in Seq(Byte), SendText(b)
    PROVE  /\ StoreInv' /\ ~InTx' /\ UNCHANGED <<base, told>>
           /\ \/ Over /\ disk' = disk
              \/ ~Over /\ Writes("output.text", b)
<1>1. CASE Over
  BY <1>1, EndedIsOver, SameStore DEF SendText, Unconcerned
<1>2. CASE ~Over
  <2>1. Emit("output.text", b) /\ "output.text" \in Types
    BY <1>2, EndedIsOver DEF SendText, Types
  <2> QED
    BY <1>2, <2>1, EmitOutside
<1> QED
  BY <1>1, <1>2

Longer(w, v, e) == w = Append(v, e)

LEMMA LogMore ==
    ASSUME NEW v \in Seq(Event), NEW e \in Event, NEW w, Longer(w, v, e)
    PROVE  /\ w \in Seq(Event) /\ Len(v) \in Nat /\ Len(w) = Len(v) + 1 /\ w[Len(v) + 1] = e
           /\ \A i \in 1..Len(v) : w[i] = v[i]
           /\ \A i \in 1..Len(w) : i \in 1..Len(v) \/ i = Len(v) + 1
           /\ TextOf(w) = TextOf(v) \o e.body /\ TextOf(v) \in Seq(Byte) /\ TextOf(w) \in Seq(Byte)
<1>1. /\ w \in Seq(Event) /\ Len(v) \in Nat /\ Len(w) = Len(v) + 1 /\ w[Len(v) + 1] = e
      /\ \A i \in 1..Len(v) : w[i] = v[i]
  BY DEF Longer
<1>2. \A i \in 1..Len(w) : i \in 1..Len(v) \/ i = Len(v) + 1
  BY <1>1
<1>3. TextOf(w) = TextOf(v) \o e.body
  BY TextTypes DEF Longer
<1>4. TextOf(v) \in Seq(Byte) /\ TextOf(w) \in Seq(Byte)
  BY <1>1, TextTypes
<1> QED
  BY <1>1, <1>2, <1>3, <1>4

\* The log with a batch more, or with other events more, says the same of the end of the run.
LEMMA LogWithText ==
    ASSUME StoreInv, RunInv, NEW b, Writes("output.text", b), ~Over
    PROVE  ~Over' /\ ~Succeeded' /\ TextOf(disk)' = TextOf(disk) \o b /\ EndsRight'
<1>1. PICK e \in Event : e.type = "output.text" /\ e.body = b /\ disk' = Append(disk, e)
  BY DEF Writes
<1>2. disk \in Seq(Event)
  BY DEF StoreInv, ViewTrue
<1>3. /\ Len(disk) \in Nat /\ Len(disk') = Len(disk) + 1 /\ disk'[Len(disk) + 1] = e
      /\ \A i \in 1..Len(disk) : disk'[i] = disk[i]
      /\ \A i \in 1..Len(disk') : i \in 1..Len(disk) \/ i = Len(disk) + 1
      /\ TextOf(disk)' = TextOf(disk) \o b
  <2>1. PICK w : w = disk'
    OBVIOUS
  <2>2. TextOf(disk)' = TextOf(w)
    BY <2>1 DEF TextOf
  <2>3. Longer(w, disk, e)
    BY <1>1, <2>1 DEF Longer
  <2>4. /\ Len(disk) \in Nat /\ Len(w) = Len(disk) + 1 /\ w[Len(disk) + 1] = e
        /\ \A i \in 1..Len(disk) : w[i] = disk[i]
        /\ \A i \in 1..Len(w) : i \in 1..Len(disk) \/ i = Len(disk) + 1
        /\ TextOf(w) = TextOf(disk) \o e.body
    BY <1>2, <2>3, LogMore
  <2> QED
    BY <1>1, <2>1, <2>2, <2>4
<1>4. \A i \in 1..Len(disk) : disk[i].type \notin States
  BY DEF Over
<1>5. \A i \in 1..Len(disk') : disk'[i].type \notin States
  BY <1>1, <1>3, <1>4 DEF States
<1>6. ~Over' /\ ~Succeeded'
  BY <1>5 DEF Over, Succeeded, States
<1> QED
  BY <1>3, <1>5, <1>6 DEF EndsRight

LEMMA LogWithEnd ==
    ASSUME StoreInv, RunInv, NEW state \in States, Writes(state, <<>>), ~Over
    PROVE  /\ Over' /\ TextOf(disk)' = TextOf(disk)
           /\ Succeeded' => state = "succeeded"
           /\ \A i, j \in 1..Len(disk') : i < j /\ disk'[i].type \in States => disk'[j].type = "other"
           /\ \A i \in 1..Len(disk') : disk'[i].body = <<>> \/ (i \in 1..Len(disk) /\ disk'[i] = disk[i])
<1>1. PICK e \in Event : e.type = state /\ e.body = <<>> /\ disk' = Append(disk, e)
  BY DEF Writes
<1>2. disk \in Seq(Event)
  BY DEF StoreInv, ViewTrue
<1>3. /\ Len(disk) \in Nat /\ Len(disk') = Len(disk) + 1 /\ disk'[Len(disk) + 1] = e
      /\ \A i \in 1..Len(disk) : disk'[i] = disk[i]
      /\ \A i \in 1..Len(disk') : i \in 1..Len(disk) \/ i = Len(disk) + 1
      /\ TextOf(disk)' = TextOf(disk) \o <<>> /\ TextOf(disk) \in Seq(Byte)
  <2>1. PICK w : w = disk'
    OBVIOUS
  <2>2. TextOf(disk)' = TextOf(w)
    BY <2>1 DEF TextOf
  <2>3. Longer(w, disk, e)
    BY <1>1, <2>1 DEF Longer
  <2>4. /\ Len(disk) \in Nat /\ Len(w) = Len(disk) + 1 /\ w[Len(disk) + 1] = e
        /\ \A i \in 1..Len(disk) : w[i] = disk[i]
        /\ \A i \in 1..Len(w) : i \in 1..Len(disk) \/ i = Len(disk) + 1
        /\ TextOf(w) = TextOf(disk) \o e.body /\ TextOf(disk) \in Seq(Byte)
    BY <1>2, <2>3, LogMore
  <2> QED
    BY <1>1, <2>1, <2>2, <2>4
<1>4. \A i \in 1..Len(disk) : disk[i].type \notin States
  BY DEF Over
<1>5. Over'
  <2>1. Len(disk) + 1 \in 1..Len(disk')
    BY <1>3
  <2> QED
    BY <1>1, <1>3, <2>1 DEF Over
<1>6. TextOf(disk)' = TextOf(disk)
  BY <1>3, JoinNothing
<1>7. Succeeded' => state = "succeeded"
  BY <1>1, <1>3, <1>4 DEF Succeeded, States
<1>8. \A i, j \in 1..Len(disk') : i < j /\ disk'[i].type \in States => disk'[j].type = "other"
  <2> SUFFICES ASSUME NEW i \in 1..Len(disk'), NEW j \in 1..Len(disk'), i < j, disk'[i].type \in States
               PROVE  FALSE
    OBVIOUS
  <2>1. i \in 1..Len(disk)
    BY <1>3
  <2> QED
    BY <1>3, <1>4, <2>1
<1>9. \A i \in 1..Len(disk') : disk'[i].body = <<>> \/ (i \in 1..Len(disk) /\ disk'[i] = disk[i])
  BY <1>1, <1>3
<1> QED
  BY <1>5, <1>6, <1>7, <1>8, <1>9

LEMMA LogWithOthers ==
    ASSUME RunInv, Extends(disk', disk)
    PROVE  /\ Over' <=> Over
           /\ Succeeded' <=> Succeeded
           /\ TextOf(disk)' = TextOf(disk)
           /\ \A i, j \in 1..Len(disk') : i < j /\ disk'[i].type \in States => disk'[j].type = "other"
           /\ \A i \in 1..Len(disk') : disk'[i].body = <<>> \/ (i \in 1..Len(disk) /\ disk'[i] = disk[i])
<1>1. /\ Len(disk) \in Nat /\ Len(disk') \in Nat /\ Len(disk) <= Len(disk')
      /\ \A i \in 1..Len(disk) : i \in 1..Len(disk') /\ disk'[i] = disk[i]
      /\ \A i \in (Len(disk) + 1)..Len(disk') : disk'[i].type = "other" /\ disk'[i].body = <<>>
      /\ TextOf(disk)' = TextOf(disk)
  BY DEF Extends, TextOf
<1>2. \A i \in 1..Len(disk') : i \in 1..Len(disk) \/ i \in (Len(disk) + 1)..Len(disk')
  BY <1>1
<1>3. "other" \notin States /\ "other" # "succeeded"
  BY DEF States
<1>4. (Over' <=> Over) /\ (Succeeded' <=> Succeeded)
  BY <1>1, <1>2, <1>3 DEF Over, Succeeded
<1>5. \A i, j \in 1..Len(disk') : i < j /\ disk'[i].type \in States => disk'[j].type = "other"
  <2> SUFFICES ASSUME NEW i \in 1..Len(disk'), NEW j \in 1..Len(disk'), i < j, disk'[i].type \in States
               PROVE  disk'[j].type = "other"
    OBVIOUS
  <2>1. i \in 1..Len(disk) /\ disk[i].type \in States
    BY <1>1, <1>2, <1>3
  <2>2. CASE j \in 1..Len(disk)
    BY <1>1, <2>1, <2>2 DEF RunInv, EndsRight
  <2>3. CASE j \in (Len(disk) + 1)..Len(disk')
    BY <1>1, <2>3
  <2> QED
    BY <1>2, <2>2, <2>3
<1> QED
  BY <1>1, <1>2, <1>4, <1>5

-----------------------------------------------------------------------------
(* Prefixes, and bytes by their place.                                     *)

LEMMA JoinPlaces ==
    \A s, u \in Seq(Byte) :
        /\ s \o u \in Seq(Byte) /\ Len(s \o u) = Len(s) + Len(u)
        /\ \A k \in 1..Len(s) : (s \o u)[k] = s[k]
        /\ \A k \in 1..Len(u) : (s \o u)[Len(s) + k] = u[k]
OBVIOUS

LEMMA JoinBytes ==
    \A s, u, w \in Seq(Byte) : (s \o u) \o w = s \o (u \o w)
BY JoinThree

Three(u, p, t, r) == u = (p \o t) \o r

LEMMA Places ==
    ASSUME NEW p \in Seq(Byte), NEW t \in Seq(Byte), NEW r \in Seq(Byte), NEW u, Three(u, p, t, r)
    PROVE  /\ u \in Seq(Byte) /\ Len(p) \in Nat /\ Len(t) \in Nat /\ Len(r) \in Nat
           /\ Len(u) = Len(p) + Len(t) + Len(r)
           /\ \A k \in 1..Len(p) : u[k] = p[k]
           /\ \A k \in 1..Len(t) : u[Len(p) + k] = t[k]
           /\ \A k \in 1..Len(r) : u[Len(p) + Len(t) + k] = r[k]
<1>1. Len(p) \in Nat /\ Len(t) \in Nat /\ Len(r) \in Nat
  OBVIOUS
<1>2. PICK q : q = p \o t
  OBVIOUS
<1>3. /\ q \in Seq(Byte) /\ Len(q) = Len(p) + Len(t)
      /\ \A k \in 1..Len(p) : q[k] = p[k]
      /\ \A k \in 1..Len(t) : q[Len(p) + k] = t[k]
  BY <1>1, <1>2
<1>4. u = q \o r
  BY <1>2 DEF Three
<1>5. /\ u \in Seq(Byte) /\ Len(u) = Len(q) + Len(r)
      /\ \A k \in 1..Len(q) : u[k] = q[k]
      /\ \A k \in 1..Len(r) : u[Len(q) + k] = r[k]
  <2>1. /\ q \o r \in Seq(Byte) /\ Len(q \o r) = Len(q) + Len(r)
        /\ \A k \in 1..Len(q) : (q \o r)[k] = q[k]
        /\ \A k \in 1..Len(r) : (q \o r)[Len(q) + k] = r[k]
    <3>1. q \in Seq(Byte)
      BY <1>3
    <3> QED
      BY <3>1, JoinPlaces
  <2> QED
    BY <1>4, <2>1
<1>6. \A k \in 1..Len(p) : k \in 1..Len(q)
  BY <1>1, <1>3
<1>7. \A k \in 1..Len(t) : Len(p) + k \in 1..Len(q)
  BY <1>1, <1>3
<1> QED
  BY <1>1, <1>3, <1>5, <1>6, <1>7

LEMMA BeginsTogether ==
    ASSUME NEW p \in Seq(Byte), NEW t \in Seq(Byte), NEW r \in Seq(Byte), NEW u, Three(u, p, t, r)
    PROVE  Begins(p, u) /\ Begins(p \o t, u)
<1>1. Begins(p, u)
  BY Places DEF Begins
<1>2. p \o t \in Seq(Byte) /\ Three(u, p \o t, r, <<>>) /\ <<>> \in Seq(Byte)
  BY JoinNothing DEF Three
<1>3. Begins(p \o t, u)
  BY <1>2, Places DEF Begins
<1> QED
  BY <1>1, <1>3

LEMMA BeginsLater ==
    ASSUME NEW s \in Seq(Byte), NEW u \in Seq(Byte), NEW w \in Seq(Byte), Begins(s, u)
    PROVE  Begins(s, u \o w)
<1>1. Len(s) \in Nat /\ Len(u) \in Nat /\ Len(w) \in Nat /\ Len(s) <= Len(u)
  BY DEF Begins
<1>2. Len(u \o w) = Len(u) + Len(w) /\ \A k \in 1..Len(s) : (u \o w)[k] = u[k]
  BY <1>1
<1> QED
  BY <1>1, <1>2 DEF Begins

LEMMA BeginsIsPrefix ==
    ASSUME NEW S, NEW s \in Seq(S), NEW u \in Seq(S)
    PROVE  Begins(s, u) <=> IsPrefix(s, u)
<1>1. Len(s) \in Nat /\ Len(u) \in Nat
  OBVIOUS
<1> DEFINE L == Len(s)
           a == SubSeq(s, 1, L)
           b == SubSeq(u, 1, L)
<1>2. ASSUME L <= Len(u)
      PROVE  /\ a \in Seq(S) /\ Len(a) = L /\ b \in Seq(S) /\ Len(b) = L
             /\ \A k \in 1..L : a[k] = s[k] /\ b[k] = u[k]
  <2>1. \A k \in 1..L : s[k] \in S /\ u[k] \in S
    BY <1>1, <1>2
  <2>2. /\ a \in Seq(S) /\ Len(a) = IF 1 <= L THEN L - 1 + 1 ELSE 0
        /\ \A k \in 1..(L - 1 + 1) : a[k] = s[1 + k - 1]
    BY <1>1, <2>1, SubSeqProperties
  <2>3. /\ b \in Seq(S) /\ Len(b) = IF 1 <= L THEN L - 1 + 1 ELSE 0
        /\ \A k \in 1..(L - 1 + 1) : b[k] = u[1 + k - 1]
    BY <1>1, <2>1, SubSeqProperties
  <2>4. L \in Nat /\ L - 1 + 1 = L /\ (IF 1 <= L THEN L - 1 + 1 ELSE 0) = L
    BY <1>1
  <2>5. \A k \in 1..L : 1 + k - 1 = k
    BY <2>4
  <2> HIDE DEF a, b, L
  <2> QED
    BY <2>2, <2>3, <2>4, <2>5
<1> HIDE DEF a, b
<1>3. L <= Len(u) => (a = b <=> \A k \in 1..L : u[k] = s[k])
  <2> SUFFICES ASSUME L <= Len(u)
               PROVE  a = b <=> \A k \in 1..L : u[k] = s[k]
    OBVIOUS
  <2>1. ASSUME \A k \in 1..L : u[k] = s[k]
        PROVE  a = b
    <3>1. \A k \in 1..L : a[k] = b[k]
      BY <1>2, <2>1
    <3> QED
      BY <1>1, <1>2, <3>1, SeqEqual
  <2> QED
    BY <1>2, <2>1
<1> QED
  BY <1>3 DEF Begins, IsPrefix, a, b

LEMMA SplitRest ==
    ASSUME NEW s \in Seq(Byte), NEW c \in 0..Len(s)
    PROVE  /\ SubSeq(s, 1, c) \in Seq(Byte) /\ Len(SubSeq(s, 1, c)) = c
           /\ SubSeq(s, c + 1, Len(s)) \in Seq(Byte)
           /\ SubSeq(s, 1, c) \o SubSeq(s, c + 1, Len(s)) = s
           /\ SubSeq(s, c + 1, Len(s)) = <<>> <=> c = Len(s)
<1> DEFINE a == SubSeq(s, 1, c)
           b == SubSeq(s, c + 1, Len(s))
           L == Len(s)
<1>1. L \in Nat /\ c \in Nat /\ c <= L /\ \A k \in 1..L : s[k] \in Byte
  OBVIOUS
<1>2. a \in Seq(Byte) /\ Len(a) = c /\ \A k \in 1..c : a[k] = s[k]
  <2>1. \A k \in 1..c : s[k] \in Byte
    BY <1>1
  <2>2. /\ a \in Seq(Byte) /\ Len(a) = IF 1 <= c THEN c - 1 + 1 ELSE 0
        /\ \A k \in 1..(c - 1 + 1) : a[k] = s[1 + k - 1]
    BY <1>1, <2>1, SubSeqProperties
  <2>3. c - 1 + 1 = c /\ (IF 1 <= c THEN c - 1 + 1 ELSE 0) = c /\ \A k \in 1..c : 1 + k - 1 = k
    BY <1>1
  <2> HIDE DEF a, L
  <2> QED
    BY <2>2, <2>3
<1>3. b \in Seq(Byte) /\ Len(b) = L - c /\ \A k \in 1..(L - c) : b[k] = s[c + k]
  <2>1. \A k \in (c + 1)..L : s[k] \in Byte
    BY <1>1
  <2>2. /\ b \in Seq(Byte) /\ Len(b) = IF c + 1 <= L THEN L - (c + 1) + 1 ELSE 0
        /\ \A k \in 1..(L - (c + 1) + 1) : b[k] = s[(c + 1) + k - 1]
    BY <1>1, <2>1, SubSeqProperties
  <2>3. L - (c + 1) + 1 = L - c /\ (IF c + 1 <= L THEN L - (c + 1) + 1 ELSE 0) = L - c
    BY <1>1
  <2>4. \A k \in 1..(L - c) : (c + 1) + k - 1 = c + k
    BY <1>1
  <2> HIDE DEF b, L
  <2> QED
    BY <2>2, <2>3, <2>4
<1> HIDE DEF a, b
<1>4. a \o b = s
  <2> PICK w : w = a \o b
    OBVIOUS
  <2>1. /\ w \in Seq(Byte) /\ Len(w) = L /\ \A k \in 1..c : w[k] = a[k]
        /\ \A k \in 1..(L - c) : w[c + k] = b[k]
    BY <1>1, <1>2, <1>3
  <2>2. ASSUME NEW k \in 1..L
        PROVE  w[k] = s[k]
    <3>1. CASE k <= c
      BY <1>1, <1>2, <2>1, <3>1
    <3>2. CASE ~(k <= c)
      <4> PICK d : d = k - c
        OBVIOUS
      <4>1. d \in 1..(L - c) /\ c + d = k
        BY <1>1, <3>2
      <4> QED
        BY <1>3, <2>1, <4>1
    <3> QED
      BY <3>1, <3>2
  <2>3. w = s
    BY <1>1, <2>1, <2>2, SeqEqual
  <2> QED
    BY <2>3
<1>5. b = <<>> <=> c = L
  BY <1>1, <1>3
<1> QED
  BY <1>2, <1>3, <1>4, <1>5 DEF a, b

\* How far append() takes what is left: to its end, nowhere or to where a character ends.
LEMMA CutStops ==
    ASSUME Limit \in Nat, rest \in Seq(Byte), text \in Seq(Byte), Len(text) <= Limit
    PROVE  /\ Cut \in 0..Len(rest) /\ Len(text) + Cut <= Limit
           /\ Cut = Len(rest) \/ Cut = 0 \/ Leads(rest[Cut + 1])
<1> DEFINE most == Min({Len(rest), Limit - Len(text)})
           ends == {end \in 0..most : end = 0 \/ rest[end + 1].lead}
<1>1. Len(rest) \in Nat /\ Len(text) \in Nat /\ Limit - Len(text) \in Nat
  OBVIOUS
<1>2. most \in Nat /\ most <= Len(rest) /\ Len(text) + most <= Limit
  <2>1. most \in {Len(rest), Limit - Len(text)}
        /\ \A y \in {Len(rest), Limit - Len(text)} : most <= y
    <3>1. \E x \in {Len(rest), Limit - Len(text)} : \A y \in {Len(rest), Limit - Len(text)} : x <= y
      BY <1>1
    <3> QED
      BY <3>1 DEF Min
  <2> HIDE DEF most
  <2> QED
    BY <1>1, <2>1
<1> HIDE DEF most
<1>3. Max(ends) \in ends
  <2> DEFINE far == {most - end : end \in ends}
  <2>1. 0 \in ends /\ ends \in SUBSET (0..most)
    BY <1>2
  <2>2. far \in SUBSET Nat /\ far # {}
    <3> HIDE DEF ends
    <3> QED
      BY <1>2, <2>1
  <2>3. PICK x \in far : \A y \in far : x <= y
    <3> HIDE DEF far
    <3> QED
      BY <2>2, Smallest
  <2>4. PICK e \in ends : x = most - e
    BY <2>3
  <2>5. \A y \in ends : e >= y
    <3> TAKE y \in ends
    <3>1. most - y \in far /\ most - e <= most - y /\ y \in 0..most /\ e \in 0..most
      BY <2>1, <2>3, <2>4
    <3> HIDE DEF far, ends
    <3> QED
      BY <1>2, <3>1
  <2> HIDE DEF ends
  <2> QED
    BY <2>4, <2>5 DEF Max
<1>4. Cut = IF most = Len(rest) THEN most ELSE Max(ends)
  BY DEF Cut, most
<1>5. CASE most = Len(rest)
  BY <1>1, <1>2, <1>4, <1>5
<1>6. CASE most # Len(rest)
  <2> PICK c : c = Cut
    OBVIOUS
  <2>1. c \in 0..most /\ (c = 0 \/ Leads(rest[c + 1]))
    BY <1>3, <1>4, <1>6 DEF Leads
  <2> QED
    BY <1>1, <1>2, <2>1
<1> QED
  BY <1>5, <1>6

-----------------------------------------------------------------------------
(* The run: three kinds of steps.                                          *)

\* The bytes at the borders do not change when the agent says more.
LEMMA BatchesStay ==
    ASSUME RunInv, given' = given,
           \A i \in 1..Len(disk') : disk'[i].body = <<>> \/ (i \in 1..Len(disk) /\ disk'[i] = disk[i])
    PROVE  \A i \in 1..Len(disk') : Batch(disk[i].body)'
<1>1. \A i \in 1..Len(disk) : Batch(disk[i].body)
  BY DEF RunInv, WholeCharacters
<1> QED
  BY <1>1 DEF Batch, CutAt

\* The log grows at most by events that are not the run's; the batcher keeps what it has
\* or, if the run is not to be a success, loses it.
LEMMA SilentStep ==
    ASSUME RunInv, Extends(disk', disk), given' = given, uncaught => uncaught',
           text' \in Seq(Byte), rest' \in Seq(Byte), Len(text') <= Limit,
           ~Over => (text' = text /\ rest' = rest) \/ (text' = <<>> /\ rest' = <<>>),
           ~Over /\ Whole' => Whole /\ text' = text /\ rest' = rest,
           Uninterrupted'
    PROVE  RunInv'
<1>1. /\ Over' <=> Over
      /\ Succeeded' <=> Succeeded
      /\ TextOf(disk)' = TextOf(disk)
      /\ \A i, j \in 1..Len(disk') : i < j /\ disk'[i].type \in States => disk'[j].type = "other"
      /\ \A i \in 1..Len(disk') : disk'[i].body = <<>> \/ (i \in 1..Len(disk) /\ disk'[i] = disk[i])
  BY LogWithOthers
<1>2. TextOf(disk) \in Seq(Byte)
  BY TextTypes DEF Extends
<1>3. NothingLost'
  <2>1. text' = text /\ rest' = rest => Owed' = Owed
    BY <1>1 DEF Owed
  <2>2. Begins(TextOf(disk), given)'
    BY <1>1 DEF RunInv, NothingLost, Begins
  <2> QED
    BY <1>1, <2>1, <2>2 DEF RunInv, NothingLost
<1>4. WholeCharacters'
  <2>1. \A i \in 1..Len(disk') : Batch(disk[i].body)'
    BY <1>1, BatchesStay
  <2>2. ASSUME ~Over'
        PROVE  CutAt(Len(TextOf(disk)))' /\ CutAt(Len(TextOf(disk)) + Len(text))'
    <3>1. CutAt(Len(TextOf(disk))) /\ CutAt(Len(TextOf(disk)) + Len(text))
      BY <1>1, <2>2 DEF RunInv, WholeCharacters
    <3>2. CutAt(Len(TextOf(disk)))'
      BY <1>1, <3>1 DEF CutAt
    <3>3. CASE text' = text
      BY <1>1, <3>1, <3>3 DEF CutAt
    <3>4. CASE text' = <<>>
      <4>1. Len(TextOf(disk)) + 0 = Len(TextOf(disk)) /\ Len(text') = 0
        BY <1>2, <3>4
      <4> QED
        BY <1>1, <3>1, <4>1 DEF CutAt
    <3> QED
      BY <1>1, <2>2, <3>2, <3>3, <3>4
  <2> QED
    BY <2>1, <2>2 DEF WholeCharacters
<1>5. EndsRight'
  BY <1>1 DEF RunInv, EndsRight
<1> QED
  BY <1>3, <1>4, <1>5 DEF RunInv

\* A batch, and what is left of the text behind it.
Divides(b, left) == b \o left = text \o rest

\* A batch goes into the log, which takes the batcher as far as a character ends.
LEMMA TextStep ==
    ASSUME StoreInv, RunInv, ~Over, Owed = given,
           NEW b \in Seq(Byte), NEW left \in Seq(Byte), Divides(b, left),
           Len(b) <= Limit, CutAt(Len(TextOf(disk)) + Len(b)),
           Writes("output.text", b), text' = <<>>, rest' = left, given' = given,
           Limit \in Nat, Uninterrupted'
    PROVE  RunInv'
<1>1. ~Over' /\ ~Succeeded' /\ TextOf(disk)' = TextOf(disk) \o b /\ EndsRight'
  BY LogWithText
<1>2. PICK p : p = TextOf(disk)
  OBVIOUS
<1>3. p \in Seq(Byte) /\ text \in Seq(Byte) /\ rest \in Seq(Byte) /\ given \in Seq(Byte)
  BY <1>2, TextTypes DEF StoreInv, ViewTrue, RunInv, NothingLost
<1>4. Three(given, p, b, left)
  <2>0. \A w, v \in Seq(Byte) : (p \o w) \o v = p \o (w \o v)
    <3>1. p \in Seq(Byte)
      BY <1>3
    <3> QED
      BY <3>1, JoinBytes
  <2>1. (p \o b) \o left = p \o (b \o left)
    BY <2>0
  <2>2. (p \o text) \o rest = p \o (text \o rest)
    BY <1>3, <2>0
  <2>3. given = (p \o text) \o rest
    BY <1>2 DEF Owed
  <2> QED
    BY <2>1, <2>2, <2>3 DEF Three, Divides
<1>5. /\ Len(p) \in Nat /\ Len(b) \in Nat /\ Len(left) \in Nat
      /\ Len(given) = Len(p) + Len(b) + Len(left)
      /\ \A k \in 1..Len(b) : given[Len(p) + k] = b[k]
      /\ Begins(p \o b, given)
  <2>1. Begins(p \o b, given)
    BY <1>3, <1>4, BeginsTogether
  <2>2. /\ Len(p) \in Nat /\ Len(b) \in Nat /\ Len(left) \in Nat
        /\ Len(given) = Len(p) + Len(b) + Len(left)
        /\ \A k \in 1..Len(b) : given[Len(p) + k] = b[k]
    <3>1. PICK u : u = given
      OBVIOUS
    <3>2. Three(u, p, b, left) /\ p \in Seq(Byte)
      BY <1>3, <1>4, <3>1
    <3>3. Len(u) = Len(p) + Len(b) + Len(left)
      BY <3>2, Places
    <3>4. \A k \in 1..Len(b) : u[Len(p) + k] = b[k]
      BY <3>2, Places
    <3> QED
      BY <1>3, <3>1, <3>3, <3>4
  <2> QED
    BY <2>1, <2>2
<1>6. PICK q : q = p \o b
  OBVIOUS
<1>7. q \in Seq(Byte) /\ Len(q) = Len(p) + Len(b) /\ TextOf(disk)' = q
  BY <1>1, <1>2, <1>3, <1>5, <1>6
<1>8. Owed' = given'
  <2>1. Owed' = (q \o <<>>) \o left
    BY <1>7 DEF Owed
  <2>2. q \o <<>> = q
    BY <1>7, JoinNothing
  <2> QED
    BY <1>4, <1>6, <2>1, <2>2 DEF Three
<1>9. NothingLost'
  <2>1. Begins(TextOf(disk), given)'
    BY <1>5, <1>6, <1>7 DEF Begins
  <2>2. text' \in Seq(Byte) /\ rest' \in Seq(Byte) /\ given' \in Seq(Byte)
    BY <1>3
  <2>3. \A k \in 1..Len(given') : given'[k].n = k
    BY DEF RunInv, NothingLost
  <2> QED
    BY <1>1, <1>8, <2>1, <2>2, <2>3 DEF NothingLost
<1>10. Batch(b)'
  <2> SUFFICES ASSUME b # <<>>
               PROVE  Batch(b)'
    BY DEF Batch
  <2>1. Len(b) \in 1..Len(b) /\ 1 \in 1..Len(b)
    BY <1>5
  <2>2. given[Len(p) + 1] = b[1] /\ given[Len(p) + Len(b)] = b[Len(b)]
    BY <1>5, <2>1
  <2>3. Leads(b[1])
    <3>1. CutAt(Len(p)) /\ Len(p) < Len(given)
      BY <1>2, <1>5, <2>1 DEF RunInv, WholeCharacters
    <3> QED
      BY <2>2, <3>1 DEF CutAt
  <2>4. b[Len(b)].n = Len(p) + Len(b) /\ Len(p) + Len(b) <= Len(given)
    <3>1. Len(p) + Len(b) \in 1..Len(given)
      BY <1>5, <2>1
    <3> QED
      BY <1>5, <2>2, <3>1 DEF RunInv, NothingLost
  <2>5. CutAt(b[Len(b)].n)
    BY <1>2, <2>4
  <2> QED
    BY <2>3, <2>4, <2>5 DEF Batch, CutAt
<1>11. WholeCharacters'
  <2>1. \A i \in 1..Len(disk') : Batch(disk[i].body)'
    <3>1. PICK e \in Event : e.body = b /\ disk' = Append(disk, e)
      BY DEF Writes
    <3>2. disk \in Seq(Event)
      BY DEF StoreInv, ViewTrue
    <3>3. \A i \in 1..Len(disk') : disk'[i].body = b \/ (i \in 1..Len(disk) /\ disk'[i] = disk[i])
      BY <3>1, <3>2
    <3>4. \A i \in 1..Len(disk) : Batch(disk[i].body)
      BY DEF RunInv, WholeCharacters
    <3> QED
      BY <1>10, <3>3, <3>4 DEF Batch, CutAt
  <2>2. Len(text') = 0 /\ Len(TextOf(disk)') + 0 = Len(p) + Len(b) /\ Len(TextOf(disk)') = Len(p) + Len(b)
    BY <1>5, <1>7
  <2>3. CutAt(Len(TextOf(disk)))' /\ CutAt(Len(TextOf(disk)) + Len(text))'
    BY <1>2, <2>2 DEF CutAt
  <2> QED
    BY <2>1, <2>2, <2>3 DEF WholeCharacters
<1> QED
  BY <1>1, <1>9, <1>11 DEF RunInv

\* The run ends.
LEMMA EndStep ==
    ASSUME StoreInv, RunInv, ~Over, NEW state \in States, Writes(state, <<>>),
           state = "succeeded" /\ ~uncaught' => TextOf(disk) = given,
           given' = given, text' \in Seq(Byte), rest' \in Seq(Byte), Len(text') <= Limit,
           Uninterrupted'
    PROVE  RunInv'
<1>1. /\ Over' /\ TextOf(disk)' = TextOf(disk)
      /\ Succeeded' => state = "succeeded"
      /\ \A i, j \in 1..Len(disk') : i < j /\ disk'[i].type \in States => disk'[j].type = "other"
      /\ \A i \in 1..Len(disk') : disk'[i].body = <<>> \/ (i \in 1..Len(disk) /\ disk'[i] = disk[i])
  BY LogWithEnd
<1>2. NothingLost'
  <2>1. Begins(TextOf(disk), given)'
    BY <1>1 DEF RunInv, NothingLost, Begins
  <2> QED
    BY <1>1, <2>1 DEF RunInv, NothingLost
<1>3. WholeCharacters'
  <2>1. \A i \in 1..Len(disk') : Batch(disk[i].body)'
    BY <1>1, BatchesStay
  <2> QED
    BY <1>1, <2>1 DEF WholeCharacters
<1>4. EndsRight'
  BY <1>1 DEF EndsRight
<1> QED
  BY <1>2, <1>3, <1>4 DEF RunInv

-----------------------------------------------------------------------------
(* The batcher's emit and the end of the run, wherever they are called.    *)

LEMMA FinishEnds ==
    ASSUME StoreInv, RunInv, ~InTx, NEW state \in States, Finish(state)
    PROVE  StoreInv' /\ ~InTx' /\ Over' /\ UNCHANGED <<base, told>>
<1>1. CASE Over
  <2>1. /\ StoreInv' /\ ~InTx' /\ UNCHANGED <<base, told>> /\ disk' = disk
    BY <1>1, FinishStore
  <2> QED
    BY <1>1, <2>1 DEF Over
<1>2. CASE ~Over
  BY <1>2, FinishStore, LogWithEnd
<1> QED
  BY <1>1, <1>2

LEMMA FinishKeeps ==
    ASSUME StoreInv, RunInv, ~InTx, NEW state \in States, Finish(state),
           state = "succeeded" /\ ~Over /\ ~uncaught' => TextOf(disk) = given,
           given' = given, uncaught => uncaught',
           text' \in Seq(Byte), rest' \in Seq(Byte), Len(text') <= Limit, Uninterrupted'
    PROVE  RunInv'
<1>1. CASE Over
  <2>1. disk' = disk /\ disk \in Seq(Event)
    BY <1>1, FinishStore DEF StoreInv, ViewTrue
  <2>2. Extends(disk', disk)
    BY <2>1, ExtendsItself
  <2> QED
    BY <1>1, <2>2, SilentStep
<1>2. CASE ~Over
  BY <1>2, FinishStore, EndStep
<1> QED
  BY <1>1, <1>2

LEMMA SendTextKeepsOver ==
    ASSUME StoreInv, ~InTx, NEW b \in Seq(Byte), SendText(b)
    PROVE  StoreInv' /\ ~InTx' /\ (Over => Over') /\ UNCHANGED <<base, told>>
BY SendTextStore DEF Over

LEMMA FailsKeeps ==
    ASSUME StoreInv, Fails
    PROVE  StoreInv' /\ (InTx' <=> InTx) /\ ~Over /\ ~Over' /\ disk' = disk /\ UNCHANGED <<base, told>>
           /\ Extends(disk', disk)
<1>1. ~Over /\ UNCHANGED storeVars
  BY EndedIsOver DEF Fails
<1> QED
  BY <1>1, SameStore DEF Over, Unconcerned

LEMMA FlushEnds ==
    ASSUME StoreInv, RunInv, ~InTx, Flush
    PROVE  StoreInv' /\ ~InTx' /\ (Over => Over') /\ text' = <<>> /\ UNCHANGED <<base, told>>
<1>1. text \in Seq(Byte) /\ text' = <<>>
  BY DEF Flush, RunInv, NothingLost
<1>2. CASE text = <<>>
  <2>1. UNCHANGED storeVars
    BY <1>2 DEF Flush
  <2> QED
    BY <1>1, <2>1, SameStore DEF Over, Unconcerned
<1>3. CASE text # <<>>
  <2>1. SendText(text)
    BY <1>3 DEF Flush
  <2> QED
    BY <1>1, <2>1, SendTextKeepsOver
<1> QED
  BY <1>2, <1>3

LEMMA FlushKeeps ==
    ASSUME StoreInv, RunInv, Limit \in Nat, ~InTx, rest = <<>>, Flush,
           given' = given, rest' = rest, uncaught' = uncaught, Whole' => Whole, Uninterrupted'
    PROVE  RunInv'
<1>1. /\ text \in Seq(Byte) /\ text' = <<>> /\ Len(text') = 0 /\ text' \in Seq(Byte)
      /\ rest' \in Seq(Byte) /\ disk \in Seq(Event)
  BY DEF Flush, RunInv, NothingLost, StoreInv, ViewTrue
<1>2. CASE text = <<>>
  <2>1. UNCHANGED storeVars
    BY <1>2 DEF Flush
  <2>2. Extends(disk', disk)
    BY <2>1, SameStore DEF Unconcerned
  <2> QED
    BY <1>1, <1>2, <2>2, SilentStep
<1>3. CASE text # <<>> /\ Over
  <2>1. SendText(text)
    BY <1>3 DEF Flush
  <2>2. Extends(disk', disk)
    BY <1>1, <1>3, <2>1, SendTextStore, ExtendsItself
  <2> QED
    BY <1>1, <1>3, <2>2, SilentStep
<1>4. CASE text # <<>> /\ ~Over
  <2>1. SendText(text)
    BY <1>4 DEF Flush
  <2>2. Writes("output.text", text)
    BY <1>1, <1>4, <2>1, SendTextStore
  <2>3. Owed = given /\ Len(text) <= Limit /\ CutAt(Len(TextOf(disk)) + Len(text))
    BY <1>4 DEF RunInv, NothingLost, WholeCharacters
  <2>4. Divides(text, rest')
    BY DEF Divides
  <2> QED
    BY <1>1, <1>4, <2>2, <2>3, <2>4, TextStep
<1> QED
  BY <1>2, <1>3, <1>4

-----------------------------------------------------------------------------
(* The batcher.                                                            *)

LEMMA AllOfThem ==
    ASSUME NEW S, NEW m \in Nat, NEW f \in [1..m -> S]
    PROVE  f \in Seq(S) /\ Len(f) = m
OBVIOUS

\* Is this the first byte of a character?
First(j) == j = 1

LEMMA CharacterBytes ==
    ASSUME NEW m \in Nat \ {0}
    PROVE  LET f == [j \in 1..m |-> j = 1]
           IN  f \in Seq(BOOLEAN) /\ f # <<>> /\ f[1] = TRUE
<1> DEFINE f == [j \in 1..m |-> j = 1]
<1>1. f \in [1..m -> BOOLEAN]
  BY Zenon
<1>2. 1 \in 1..m
  OBVIOUS
<1>3. f[1] = TRUE
  BY <1>2, Zenon
<1> HIDE DEF f
<1>4. f \in Seq(BOOLEAN) /\ Len(f) = m
  BY <1>1, AllOfThem
<1>5. f # <<>>
  BY <1>4
<1>6. f \in Seq(BOOLEAN) /\ f # <<>> /\ f[1] = TRUE
  BY <1>3, <1>4, <1>5
<1> QED
  BY <1>6 DEF f

LEMMA BytesAre ==
    ASSUME NEW chunk \in Seq(1..Limit) \ {<<>>}, Limit \in Nat, given \in Seq(Byte)
    PROVE  /\ BytesOf(chunk) \in Seq(Byte) /\ BytesOf(chunk) # <<>> /\ Leads(BytesOf(chunk)[1])
           /\ \A k \in 1..Len(BytesOf(chunk)) : BytesOf(chunk)[k].n = Len(given) + k
<1> DEFINE part(i) == [j \in 1..chunk[i] |-> j = 1]
           parts == [i \in DOMAIN chunk |-> part(i)]
           leads == FlattenSeq(parts)
<1>1. DOMAIN chunk = 1..Len(chunk) /\ Len(chunk) \in Nat \ {0} /\ \A i \in 1..Len(chunk) : chunk[i] \in Nat \ {0}
  OBVIOUS
<1>2. \A i \in 1..Len(chunk) : part(i) \in Seq(BOOLEAN) /\ part(i) # <<>> /\ part(i)[1] = TRUE
  BY <1>1, CharacterBytes
<1>3. /\ parts \in [1..Len(chunk) -> Seq(BOOLEAN)] /\ 1 \in 1..Len(chunk)
      /\ parts[1] # <<>> /\ parts[1][1] = TRUE
  <2> HIDE DEF part
  <2> QED
    BY <1>1, <1>2
<1> HIDE DEF parts
<1>4. parts \in Seq(Seq(BOOLEAN)) /\ Len(parts) = Len(chunk)
  BY <1>1, <1>3, AllOfThem
<1>5. parts # <<>>
  BY <1>1, <1>4
<1>6. leads \in Seq(BOOLEAN) /\ leads # <<>> /\ leads[1] = TRUE
  <2>1. leads \in Seq(BOOLEAN)
    BY <1>4, FlattenTypes
  <2>2. leads # <<>> /\ leads[1] = parts[1][1]
    BY <1>3, <1>4, <1>5, FlattenFirst
  <2> QED
    BY <1>3, <2>1, <2>2
<1> HIDE DEF leads
<1> DEFINE byte(k) == [n |-> Len(given) + k, lead |-> leads[k]]
           bytes == [k \in DOMAIN leads |-> byte(k)]
<1>7. BytesOf(chunk) = bytes
  BY DEF BytesOf, leads, parts
<1>8. Len(leads) \in Nat \ {0} /\ DOMAIN leads = 1..Len(leads) /\ \A k \in 1..Len(leads) : leads[k] \in BOOLEAN
  BY <1>6
<1>9. \A k \in 1..Len(leads) : byte(k) \in Byte /\ byte(k).n = Len(given) + k /\ byte(k).lead = leads[k]
  <2> TAKE k \in 1..Len(leads)
  <2>1. Len(given) + k \in Nat
    BY <1>8
  <2>2. leads[k] \in BOOLEAN
    BY <1>8
  <2> QED
    BY <2>1, <2>2, Zenon DEF Byte
<1> HIDE DEF byte
<1>10. bytes \in [1..Len(leads) -> Byte]
  BY <1>8, <1>9
<1>11. \A k \in 1..Len(leads) : bytes[k] = byte(k)
  BY <1>8
<1> HIDE DEF bytes
<1>12. bytes \in Seq(Byte) /\ Len(bytes) = Len(leads)
  BY <1>8, <1>10, AllOfThem
<1>13. bytes # <<>> /\ 1 \in 1..Len(leads)
  BY <1>8, <1>12
<1>14. Leads(bytes[1])
  <2>1. bytes[1] = byte(1) /\ byte(1).lead = leads[1] /\ leads[1] = TRUE
    BY <1>6, <1>9, <1>11, <1>13
  <2> QED
    BY <2>1, Zenon DEF Leads
<1>15. \A k \in 1..Len(bytes) : bytes[k].n = Len(given) + k
  BY <1>9, <1>11, <1>12
<1> QED
  BY <1>7, <1>12, <1>13, <1>14, <1>15

-----------------------------------------------------------------------------
(* Each action keeps both invariants.                                      *)

LogInv == StoreInv /\ RunInv

\* What the invariant says of the variables a step starts from.
LEMMA Known ==
    ASSUME LogInv
    PROVE  /\ given \in Seq(Byte) /\ text \in Seq(Byte) /\ rest \in Seq(Byte)
           /\ Limit \in Nat /\ Len(text) <= Limit /\ Len(text) \in Nat
           /\ <<>> \in Seq(Byte) /\ Len(<<>>) = 0 /\ Len(<<>>) <= Limit
           /\ disk \in Seq(Event) /\ Extends(disk, disk) /\ TextOf(disk) \in Seq(Byte)
           /\ ~Busy => ~InTx /\ rest = <<>> /\ stage \notin {"finish", "catch", "unsure", "recover"}
           /\ Uninterrupted
<1>1. /\ given \in Seq(Byte) /\ text \in Seq(Byte) /\ rest \in Seq(Byte) /\ Len(text) <= Limit
      /\ Uninterrupted
  BY DEF LogInv, RunInv, NothingLost, WholeCharacters
<1>2. disk \in Seq(Event) /\ Extends(disk, disk) /\ TextOf(disk) \in Seq(Byte)
  BY ExtendsItself, TextTypes DEF LogInv, StoreInv, ViewTrue
<1>3. Limit \in Nat
  BY LimitAssumption
<1>4. <<>> \in Seq(Byte) /\ Len(<<>>) = 0 /\ Len(<<>>) <= Limit /\ Len(text) \in Nat
  BY <1>1, <1>3
<1> QED
  BY <1>1, <1>2, <1>3, <1>4 DEF Busy

LEMMA AppendTextKeeps ==
    ASSUME LogInv, NEW chunk \in Chunks, AppendText(chunk)
    PROVE  LogInv' /\ disk' = disk /\ UNCHANGED <<base, told>>
<1>1. PICK b : b = BytesOf(chunk)
  OBVIOUS
<1>2. /\ ~InTx /\ rest = <<>> /\ stage = "working" /\ ~Over
      /\ given' = given \o b /\ rest' = IF stopped THEN <<>> ELSE b
      /\ UNCHANGED <<storeVars, text, stopped, stage, outcome, uncaught>>
  BY <1>1, Known, EndedIsOver DEF AppendText, execution, LogInv
<1>3. /\ b \in Seq(Byte) /\ b # <<>> /\ Leads(b[1])
      /\ \A k \in 1..Len(b) : b[k].n = Len(given) + k
  BY <1>1, Known, LimitAssumption, BytesAre
<1>4. StoreInv' /\ (InTx' <=> InTx) /\ disk' = disk /\ UNCHANGED <<base, told>>
  BY <1>2, SameStore DEF LogInv, Unconcerned
<1>5. PICK p : p = TextOf(disk)
  OBVIOUS
<1>6. /\ p \in Seq(Byte) /\ given \in Seq(Byte) /\ text \in Seq(Byte)
      /\ Len(given) \in Nat /\ Len(p) \in Nat /\ Len(text) \in Nat /\ Len(b) \in Nat \ {0}
      /\ TextOf(disk)' = p /\ Begins(p, given) /\ Len(p) <= Len(given)
  BY <1>3, <1>4, <1>5, Known DEF TextOf, LogInv, RunInv, NothingLost, Begins
<1>7. PICK g : g = given \o b
  OBVIOUS
<1>8. /\ g \in Seq(Byte) /\ Len(g) = Len(given) + Len(b) /\ given' = g
      /\ \A k \in 1..Len(given) : g[k] = given[k]
      /\ \A k \in 1..Len(b) : g[Len(given) + k] = b[k]
  BY <1>2, <1>3, <1>6, <1>7, JoinPlaces
<1>9. ASSUME NEW c \in Nat, CutAt(c), c <= Len(given)
      PROVE  c < Len(g) => Leads(g[c + 1])
  <2>1. CASE c < Len(given)
    <3>1. c + 1 \in 1..Len(given) /\ Leads(given[c + 1])
      BY <1>6, <1>9, <2>1 DEF CutAt
    <3> QED
      BY <1>8, <3>1
  <2>2. CASE c = Len(given)
    <3>1. 1 \in 1..Len(b)
      BY <1>6
    <3> QED
      BY <1>3, <1>8, <2>2, <3>1
  <2> QED
    BY <1>6, <1>9, <2>1, <2>2
<1>10. Over' <=> Over
  BY <1>4 DEF Over
<1>11. stopped => text = <<>> /\ uncaught
  BY <1>2, Known DEF Uninterrupted
<1>12. ~stopped => Owed = given
  BY <1>2 DEF LogInv, RunInv, NothingLost, Whole
<1>13. NothingLost'
  <2>1. given' \in Seq(Byte) /\ text' \in Seq(Byte) /\ rest' \in Seq(Byte)
    BY <1>2, <1>3, <1>6, <1>8, Known
  <2>2. \A k \in 1..Len(given') : given'[k].n = k
    <3> SUFFICES ASSUME NEW k \in 1..Len(g)
                 PROVE  g[k].n = k
      BY <1>8
    <3>1. CASE k \in 1..Len(given)
      BY <1>8, <3>1 DEF LogInv, RunInv, NothingLost
    <3>2. CASE ~(k \in 1..Len(given))
      <4> PICK d : d = k - Len(given)
        OBVIOUS
      <4>1. d \in 1..Len(b) /\ Len(given) + d = k
        BY <1>6, <1>8, <3>2
      <4> QED
        BY <1>3, <1>8, <4>1
    <3> QED
      BY <3>1, <3>2
  <2>3. Begins(TextOf(disk), given)'
    <3>1. Begins(p, g)
      BY <1>3, <1>6, <1>7, BeginsLater
    <3> QED
      BY <1>6, <1>8, <3>1 DEF Begins
  <2>4. ~stopped => Owed' = given'
    <3> SUFFICES ASSUME ~stopped
                 PROVE  Owed' = given'
      OBVIOUS
    <3>1. PICK pt : pt = p \o text
      OBVIOUS
    <3>2. pt \in Seq(Byte) /\ pt \o <<>> = pt
      BY <1>6, <3>1, JoinNothing
    <3>3. given = pt
      BY <1>2, <1>5, <1>12, <3>1, <3>2 DEF Owed
    <3> QED
      BY <1>2, <1>6, <3>1, <3>3 DEF Owed
  <2> QED
    BY <1>2, <1>11, <2>1, <2>2, <2>3, <2>4 DEF NothingLost, Whole
<1>14. WholeCharacters'
  <2>1. Len(p) + Len(text) <= Len(given)
    <3>1. CASE stopped
      BY <1>6, <1>11, <3>1
    <3>2. CASE ~stopped
      <4>0. PICK z : z = <<>>
        OBVIOUS
      <4>1. Three(given, p, text, z) /\ p \in Seq(Byte) /\ text \in Seq(Byte) /\ z \in Seq(Byte)
        BY <1>2, <1>5, <1>6, <1>12, <3>2, <4>0, Known DEF Owed, Three
      <4>2. Len(given) = Len(p) + Len(text) + Len(z)
        BY <4>1, Places
      <4>3. Len(z) = 0
        BY <4>0
      <4> QED
        BY <1>6, <4>2, <4>3
    <3> QED
      BY <3>1, <3>2
  <2>2. CutAt(Len(p)) /\ CutAt(Len(p) + Len(text))
    BY <1>2, <1>5 DEF LogInv, RunInv, WholeCharacters
  <2>3. CutAt(Len(TextOf(disk)))' /\ CutAt(Len(TextOf(disk)) + Len(text))'
    <3>1. /\ Len(p) < Len(g) => Leads(g[Len(p) + 1])
          /\ Len(p) + Len(text) < Len(g) => Leads(g[Len(p) + Len(text) + 1])
      BY <1>6, <1>9, <2>1, <2>2
    <3> QED
      BY <1>2, <1>6, <1>8, <3>1 DEF CutAt
  <2>4. ASSUME NEW i \in 1..Len(disk)
        PROVE  Batch(disk[i].body)'
    <3> SUFFICES ASSUME disk[i].body # <<>>
                 PROVE  Batch(disk[i].body)'
      BY <1>4 DEF Batch
    <3> PICK d : d = disk[i].body
      OBVIOUS
    <3>1. Batch(d) /\ d # <<>>
      BY DEF LogInv, RunInv, WholeCharacters
    <3>2. d \in Seq(Byte)
      <4>1. disk \in Seq(Event)
        BY Known
      <4>2. disk[i] \in Event
        BY <4>1
      <4> QED
        BY <4>2 DEF Event
    <3>3. Len(d) \in 1..Len(d) /\ d[Len(d)] \in Byte
      BY <3>1, <3>2
    <3> PICK m : m = d[Len(d)].n
      OBVIOUS
    <3>4. m \in Nat /\ m <= Len(given) /\ CutAt(m) /\ Len(d) <= Limit /\ Leads(d[1])
      BY <3>1, <3>3 DEF Batch, Byte
    <3>5. m <= Len(g)
      BY <1>6, <1>8, <3>4
    <3>6. m < Len(g) => Leads(g[m + 1])
      BY <1>9, <3>4
    <3> QED
      BY <1>4, <1>8, <3>4, <3>5, <3>6 DEF Batch, CutAt
  <2> QED
    BY <1>2, <1>4, <2>3, <2>4, Known DEF WholeCharacters
<1>15. EndsRight'
  <2>1. \A i \in 1..Len(disk') : disk'[i].type \notin States
    BY <1>2, <1>4 DEF Over
  <2> QED
    BY <2>1 DEF EndsRight, Succeeded, States
<1>16. Uninterrupted'
  BY <1>2, <1>4, <1>10, Known DEF Uninterrupted
<1> QED
  BY <1>4, <1>13, <1>14, <1>15, <1>16 DEF LogInv, RunInv

\* The loop of append() once round: it keeps what there is, sends it, or fails to.
LEMMA SliceKeeps ==
    ASSUME LogInv, Slice
    PROVE  LogInv' /\ UNCHANGED <<base, told>> /\ (disk' = disk \/ \E e \in Event : disk' = Append(disk, e))
<1>1. PICK c : c = Cut
  OBVIOUS
<1>2. PICK taken : taken = SubSeq(rest, 1, c)
  OBVIOUS
<1>3. PICK left : left = SubSeq(rest, c + 1, Len(rest))
  OBVIOUS
<1>4. PICK buffer : buffer = text \o taken
  OBVIOUS
<1>5. /\ rest # <<>> /\ UNCHANGED <<given, stopped, outcome, uncaught>>
      /\ \/ /\ left = <<>> /\ Len(buffer) < Limit
            /\ text' = buffer /\ rest' = <<>>
            /\ UNCHANGED <<storeVars, stage>>
         \/ /\ text' = <<>>
            /\ \/ SendText(buffer) /\ rest' = left /\ UNCHANGED stage
               \/ Fails /\ rest' = <<>> /\ stage' = "broken"
  BY <1>1, <1>2, <1>3, <1>4 DEF Slice
<1>6. StoreInv /\ RunInv /\ ~InTx /\ stage = "working" /\ ~stopped
  BY <1>5, Known DEF LogInv, Uninterrupted
<1>7. /\ c \in 0..Len(rest) /\ Len(text) + c <= Limit
      /\ c = Len(rest) \/ c = 0 \/ Leads(rest[c + 1])
  BY <1>1, Known, CutStops
<1>8. /\ taken \in Seq(Byte) /\ Len(taken) = c /\ left \in Seq(Byte) /\ taken \o left = rest
      /\ left = <<>> <=> c = Len(rest)
  BY <1>2, <1>3, <1>7, Known, SplitRest
<1>9. /\ buffer \in Seq(Byte) /\ Len(buffer) = Len(text) + c /\ Len(buffer) <= Limit
      /\ buffer \o left = text \o rest
  <2>1. buffer \in Seq(Byte) /\ Len(buffer) = Len(text) + c
    BY <1>4, <1>8, Known, JoinPlaces
  <2>2. (text \o taken) \o left = text \o (taken \o left)
    <3>1. text \in Seq(Byte) /\ taken \in Seq(Byte) /\ left \in Seq(Byte)
      BY <1>8, Known
    <3> QED
      BY <3>1, JoinBytes
  <2> QED
    BY <1>4, <1>7, <1>8, <2>1, <2>2
<1>10. CASE left = <<>> /\ Len(buffer) < Limit /\ text' = buffer /\ rest' = <<>> /\ UNCHANGED <<storeVars, stage>>
  <2>1. StoreInv' /\ (InTx' <=> InTx) /\ disk' = disk /\ UNCHANGED <<base, told>> /\ Extends(disk', disk)
    BY <1>6, <1>10, SameStore DEF Unconcerned
  <2>2. Uninterrupted'
    BY <1>5, <1>6, <1>10 DEF Uninterrupted
  <2>3. CASE Over
    <3>1. text' \in Seq(Byte) /\ rest' \in Seq(Byte) /\ Len(text') <= Limit
      BY <1>9, <1>10
    <3>2. RunInv'
      BY <1>5, <1>6, <2>1, <2>2, <2>3, <3>1, SilentStep
    <3> QED
      BY <2>1, <3>2 DEF LogInv
  <2>4. CASE ~Over
    <3>1. Owed = given /\ given' = given /\ uncaught' = uncaught
      BY <1>5, <1>6, <2>4 DEF RunInv, NothingLost
    <3>2. taken = rest /\ buffer = text \o rest
      <4>1. taken \o <<>> = taken
        BY <1>8, JoinNothing
      <4> QED
        BY <1>4, <1>8, <1>10, <4>1
    <3>3. TextOf(disk)' = TextOf(disk) /\ (Over' <=> Over) /\ (Succeeded' <=> Succeeded)
      BY <2>1 DEF TextOf, Over, Succeeded
    <3>4. PICK p : p = TextOf(disk)
      OBVIOUS
    <3>5. p \in Seq(Byte) /\ p \o buffer \in Seq(Byte)
      BY <1>9, <3>4, Known, JoinPlaces
    <3>6. Three(given, p, buffer, <<>>)
      <4>1. (p \o text) \o rest = p \o (text \o rest)
        <5>1. p \in Seq(Byte) /\ text \in Seq(Byte) /\ rest \in Seq(Byte)
          BY <3>5, Known
        <5> QED
          BY <5>1, JoinBytes
      <4>2. (p \o buffer) \o <<>> = p \o buffer
        BY <3>5, JoinNothing
      <4> QED
        BY <3>1, <3>2, <3>4, <4>1, <4>2 DEF Three, Owed
    <3>7. NothingLost'
      <4>1. Owed' = given'
        BY <1>10, <3>1, <3>3, <3>4, <3>6 DEF Owed, Three
      <4>2. text' \in Seq(Byte) /\ rest' \in Seq(Byte) /\ given' \in Seq(Byte)
        BY <1>9, <1>10, <3>1, Known
      <4>3. Begins(TextOf(disk), given)'
        BY <1>6, <3>1, <3>3 DEF RunInv, NothingLost, Begins
      <4> QED
        BY <1>6, <3>1, <4>1, <4>2, <4>3 DEF RunInv, NothingLost
    <3>8. WholeCharacters'
      <4>0. PICK z : z = <<>>
        OBVIOUS
      <4>1. Three(given, p, buffer, z) /\ p \in Seq(Byte) /\ buffer \in Seq(Byte) /\ z \in Seq(Byte)
        BY <1>9, <3>5, <3>6, <4>0, Known
      <4>2. Len(p) + Len(buffer) = Len(given) /\ Len(given) \in Nat
        <5>1. Len(given) = Len(p) + Len(buffer) + Len(z)
          BY <4>1, Places
        <5>2. Len(z) = 0 /\ Len(p) \in Nat /\ Len(buffer) \in Nat
          BY <4>0, <4>1
        <5> QED
          BY <5>1, <5>2, Known
      <4>3. CutAt(Len(TextOf(disk)) + Len(text))'
        BY <1>10, <3>1, <3>3, <3>4, <4>2 DEF CutAt
      <4>4. CutAt(Len(TextOf(disk)))'
        BY <1>6, <2>4, <3>1, <3>3 DEF RunInv, WholeCharacters, CutAt
      <4>5. \A i \in 1..Len(disk') : Batch(disk[i].body)'
        BY <1>6, <2>1, <3>1, BatchesStay
      <4>6. Len(text') <= Limit
        BY <1>9, <1>10
      <4> QED
        BY <4>3, <4>4, <4>5, <4>6 DEF WholeCharacters
    <3>9. EndsRight'
      BY <1>6, <2>1, <3>1, <3>3 DEF RunInv, EndsRight
    <3> QED
      BY <2>1, <2>2, <3>7, <3>8, <3>9 DEF LogInv, RunInv
  <2> QED
    BY <2>1, <2>3, <2>4
<1>11. CASE text' = <<>> /\ SendText(buffer) /\ rest' = left /\ UNCHANGED stage
  <2>1. /\ StoreInv' /\ ~InTx' /\ UNCHANGED <<base, told>>
        /\ \/ Over /\ disk' = disk
           \/ ~Over /\ Writes("output.text", buffer)
    BY <1>6, <1>9, <1>11, SendTextStore
  <2>2. Uninterrupted'
    BY <1>5, <1>6, <1>11, <2>1 DEF Uninterrupted
  <2>3. text' \in Seq(Byte) /\ rest' \in Seq(Byte) /\ Len(text') <= Limit
    BY <1>8, <1>11, Known
  <2>4. CASE Over /\ disk' = disk
    <3>1. Extends(disk', disk)
      BY <2>4, Known
    <3>2. RunInv'
      BY <1>5, <1>6, <2>2, <2>3, <2>4, <3>1, SilentStep
    <3> QED
      BY <2>1, <2>4, <3>2 DEF LogInv
  <2>5. CASE ~Over /\ Writes("output.text", buffer)
    <3>1. Owed = given
      BY <1>5, <1>6, <2>5 DEF RunInv, NothingLost
    <3>2. PICK p : p = TextOf(disk)
      OBVIOUS
    <3>3. p \in Seq(Byte) /\ Three(given, p, text, rest)
      BY <3>1, <3>2, Known DEF Owed, Three
    <3>4. /\ Len(given) = Len(p) + Len(text) + Len(rest) /\ Len(p) \in Nat /\ Len(rest) \in Nat
          /\ \A k \in 1..Len(rest) : given[Len(p) + Len(text) + k] = rest[k]
      BY <3>3, Known, Places
    <3>5. CutAt(Len(p) + Len(buffer))
      <4>1. CASE c = Len(rest)
        BY <1>9, <3>4, <4>1, Known DEF CutAt
      <4>2. CASE c = 0
        <5>1. CutAt(Len(p) + Len(text))
          BY <1>6, <2>5, <3>2 DEF RunInv, WholeCharacters
        <5>2. Len(buffer) = Len(text)
          BY <1>9, <4>2, Known
        <5> QED
          BY <5>1, <5>2
      <4>3. CASE c # Len(rest) /\ Leads(rest[c + 1])
        <5>1. c + 1 \in 1..Len(rest)
          BY <1>7, <3>4, <4>3
        <5>2. Len(p) + Len(text) + (c + 1) = Len(p) + Len(buffer) + 1
          BY <1>7, <1>9, <3>4, Known
        <5>3. given[Len(p) + Len(text) + (c + 1)] = rest[c + 1]
          BY <3>4, <5>1
        <5> QED
          BY <4>3, <5>2, <5>3 DEF CutAt
      <4> QED
        BY <1>7, <4>1, <4>2, <4>3
    <3>6. RunInv'
      <4>1. Divides(buffer, left)
        BY <1>9 DEF Divides
      <4> QED
        BY <1>5, <1>6, <1>8, <1>9, <1>11, <2>2, <2>5, <3>1, <3>2, <3>5, <4>1, Known, TextStep
    <3> QED
      BY <2>1, <2>5, <3>6 DEF LogInv, Writes
  <2> QED
    BY <2>1, <2>4, <2>5
<1>12. CASE text' = <<>> /\ Fails /\ rest' = <<>> /\ stage' = "broken"
  <2>1. /\ StoreInv' /\ (InTx' <=> InTx) /\ ~Over /\ disk' = disk /\ UNCHANGED <<base, told>>
        /\ Extends(disk', disk)
    BY <1>6, <1>12, FailsKeeps
  <2>2. Uninterrupted'
    BY <1>5, <1>6, <1>12, <2>1 DEF Uninterrupted
  <2>3. RunInv'
    BY <1>5, <1>6, <1>12, <2>1, <2>2, Known, SilentStep DEF Whole
  <2> QED
    BY <2>1, <2>3 DEF LogInv
<1> QED
  BY <1>5, <1>10, <1>11, <1>12

LEMMA TimerKeeps ==
    ASSUME LogInv, Timer
    PROVE  LogInv' /\ UNCHANGED <<base, told>>
<1>1. /\ ~InTx /\ rest = <<>> /\ stage \notin {"finish", "catch", "unsure", "recover"}
      /\ StoreInv /\ RunInv
      /\ UNCHANGED <<given, rest, stage, outcome>>
  BY Known DEF Timer, LogInv
<1>2. CASE Flush /\ UNCHANGED <<stopped, uncaught>>
  <2>1. StoreInv' /\ ~InTx' /\ (Over => Over') /\ text' = <<>> /\ UNCHANGED <<base, told>>
    BY <1>1, <1>2, FlushEnds
  <2>2. Uninterrupted'
    BY <1>1, <1>2, <2>1, Known DEF Uninterrupted
  <2>3. RunInv'
    BY <1>1, <1>2, <2>2, Known, FlushKeeps DEF Whole
  <2> QED
    BY <2>1, <2>3 DEF LogInv
<1>3. CASE Dispose /\ Finish("failed") /\ UNCHANGED uncaught
  <2>1. StoreInv' /\ ~InTx' /\ Over' /\ UNCHANGED <<base, told>>
    BY <1>1, <1>3, FinishEnds DEF States
  <2>2. text' = <<>> /\ stopped'
    BY <1>3 DEF Dispose
  <2>3. Uninterrupted'
    BY <1>1, <1>3, <2>1, <2>2, Known DEF Uninterrupted
  <2>4. text' \in Seq(Byte) /\ rest' \in Seq(Byte) /\ Len(text') <= Limit
    BY <1>1, <2>2, Known
  <2>5. RunInv'
    BY <1>1, <1>3, <2>3, <2>4, FinishKeeps DEF States
  <2> QED
    BY <2>1, <2>5 DEF LogInv
<1>4. CASE Fails /\ Dispose /\ uncaught' = TRUE
  <2>1. /\ StoreInv' /\ (InTx' <=> InTx) /\ ~Over /\ disk' = disk /\ UNCHANGED <<base, told>>
        /\ Extends(disk', disk)
    BY <1>1, <1>4, FailsKeeps
  <2>2. text' = <<>> /\ stopped'
    BY <1>4 DEF Dispose
  <2>3. Uninterrupted'
    BY <1>1, <1>4, <2>1, <2>2, Known DEF Uninterrupted
  <2>4. text' \in Seq(Byte) /\ rest' \in Seq(Byte) /\ Len(text') <= Limit
    BY <1>1, <2>2, Known
  <2>5. RunInv'
    BY <1>1, <1>4, <2>1, <2>2, <2>3, <2>4, SilentStep DEF Whole
  <2> QED
    BY <2>1, <2>5 DEF LogInv
<1> QED
  BY <1>2, <1>3, <1>4 DEF Timer

-----------------------------------------------------------------------------
(* The end of execute().                                                   *)

\* A step that leaves the store alone, and takes from the batcher nothing that is still of use.
LEMMA StillSame ==
    ASSUME LogInv, UNCHANGED storeVars, given' = given, rest' = rest, text' = text, uncaught' = uncaught,
           ~Over /\ Whole' => Whole, Uninterrupted'
    PROVE  LogInv' /\ disk' = disk /\ UNCHANGED <<base, told>>
<1>1. StoreInv' /\ disk' = disk /\ UNCHANGED <<base, told>> /\ Extends(disk', disk)
  BY SameStore DEF LogInv, Unconcerned
<1>2. text' \in Seq(Byte) /\ rest' \in Seq(Byte) /\ Len(text') <= Limit
  BY Known
<1>3. RunInv'
  BY <1>1, <1>2, SilentStep DEF LogInv
<1> QED
  BY <1>1, <1>3 DEF LogInv

\* A write fails, and the run is not to be a success any more.
LEMMA StillFails ==
    ASSUME LogInv, Fails, given' = given, uncaught => uncaught',
           (text' = text /\ rest' = rest) \/ (text' = <<>> /\ rest' = <<>>),
           ~Whole', Uninterrupted'
    PROVE  LogInv' /\ disk' = disk /\ UNCHANGED <<base, told>>
<1>1. /\ StoreInv' /\ ~Over /\ disk' = disk /\ UNCHANGED <<base, told>> /\ Extends(disk', disk)
  BY FailsKeeps DEF LogInv
<1>2. text' \in Seq(Byte) /\ rest' \in Seq(Byte) /\ Len(text') <= Limit
  BY Known
<1>3. RunInv'
  BY <1>1, <1>2, SilentStep DEF LogInv
<1> QED
  BY <1>1, <1>3 DEF LogInv

LEMMA AgentDoneKeeps ==
    ASSUME LogInv, NEW result \in States \cup {"rejected"}, AgentDone(result)
    PROVE  LogInv' /\ UNCHANGED <<base, told>>
<1>1. /\ rest = <<>> /\ ~InTx
      /\ stage = "working" \/ (stage = "broken" /\ result \in {"outcome_unknown", "rejected"})
      /\ stage' = "ending" /\ outcome' = result
      /\ UNCHANGED <<storeVars, given, rest, text, stopped, uncaught>>
  BY Known DEF AgentDone, batcher
<1>2. (InTx' <=> InTx) /\ (Over' <=> Over)
  BY <1>1, SameStore DEF LogInv, Over
<1>3. Uninterrupted'
  BY <1>1, <1>2, Known DEF Uninterrupted
<1>4. Whole' => Whole
  BY <1>1 DEF Whole
<1> QED
  BY <1>1, <1>3, <1>4, StillSame

LEMMA EndFlushKeeps ==
    ASSUME LogInv, EndFlush
    PROVE  LogInv' /\ UNCHANGED <<base, told>>
<1>1. /\ ~InTx /\ rest = <<>> /\ stage = "ending" /\ StoreInv /\ RunInv
      /\ outcome' = IF stage' = "finish" THEN outcome ELSE "none"
      /\ UNCHANGED <<given, rest, stopped, uncaught>>
  BY Known DEF EndFlush, LogInv
<1>2. CASE outcome = "rejected" /\ stage' = "catch" /\ UNCHANGED <<storeVars, text, armed>>
  <2>1. (InTx' <=> InTx) /\ (Over' <=> Over)
    BY <1>1, <1>2, SameStore DEF Over
  <2>2. Uninterrupted'
    BY <1>1, <1>2, <2>1, Known DEF Uninterrupted
  <2> QED
    BY <1>1, <1>2, <2>2, StillSame DEF Whole
<1>3. CASE outcome # "rejected" /\ Flush /\ stage' = "finish"
  <2>1. StoreInv' /\ ~InTx' /\ (Over => Over') /\ text' = <<>> /\ UNCHANGED <<base, told>>
    BY <1>1, <1>3, FlushEnds
  <2>2. Uninterrupted'
    BY <1>1, <1>3, <2>1, Known DEF Uninterrupted
  <2>3. RunInv'
    BY <1>1, <1>3, <2>2, Known, FlushKeeps DEF Whole
  <2> QED
    BY <2>1, <2>3 DEF LogInv
<1>4. CASE FlushFails /\ stage' = "catch"
  <2>1. Fails /\ text' = <<>>
    BY <1>4 DEF FlushFails
  <2>2. (InTx' <=> InTx) /\ (Over' <=> Over)
    BY <1>1, <2>1, FailsKeeps DEF Over
  <2>3. Uninterrupted'
    BY <1>1, <1>4, <2>1, <2>2, Known DEF Uninterrupted
  <2> QED
    BY <1>1, <1>4, <2>1, <2>3, StillFails DEF Whole
<1> QED
  BY <1>2, <1>3, <1>4 DEF EndFlush

LEMMA EndFinishKeeps ==
    ASSUME LogInv, EndFinish
    PROVE  LogInv' /\ UNCHANGED <<base, told>>
<1>1. /\ stage = "finish" /\ StoreInv /\ RunInv /\ UNCHANGED <<given, rest, uncaught>>
      /\ ~InTx /\ rest = <<>> /\ text = <<>> /\ outcome \in States
  BY Known DEF EndFinish, Uninterrupted, LogInv
<1>2. CASE Finish(outcome) /\ Leaves("over")
  <2>1. StoreInv' /\ ~InTx' /\ Over' /\ UNCHANGED <<base, told>>
    BY <1>1, <1>2, FinishEnds
  <2>2. text' = <<>> /\ stopped' /\ stage' = "over"
    BY <1>2 DEF Dispose, Leaves
  <2>3. Uninterrupted'
    BY <1>1, <2>1, <2>2 DEF Uninterrupted
  <2>4. text' \in Seq(Byte) /\ rest' \in Seq(Byte) /\ Len(text') <= Limit
    BY <1>1, <2>2, Known
  <2>5. outcome = "succeeded" /\ ~Over /\ ~uncaught' => TextOf(disk) = given
    <3> SUFFICES ASSUME outcome = "succeeded", ~Over, ~uncaught
                 PROVE  TextOf(disk) = given
      BY <1>1
    <3>1. Whole
      BY <1>1, Known DEF Whole, Uninterrupted
    <3>2. Owed = given
      BY <1>1, <3>1 DEF RunInv, NothingLost
    <3>3. (TextOf(disk) \o <<>>) \o <<>> = TextOf(disk)
      BY Known, JoinNothing
    <3> QED
      BY <1>1, <3>2, <3>3 DEF Owed
  <2>6. RunInv'
    BY <1>1, <1>2, <2>3, <2>4, <2>5, FinishKeeps
  <2> QED
    BY <2>1, <2>6 DEF LogInv
<1>3. CASE Fails /\ stage' = "catch" /\ UNCHANGED <<text, armed, stopped>>
  <2>1. (InTx' <=> InTx) /\ (Over' <=> Over)
    BY <1>1, <1>3, FailsKeeps DEF Over
  <2>2. Uninterrupted'
    BY <1>1, <1>3, <2>1, Known DEF Uninterrupted
  <2> QED
    BY <1>1, <1>3, <2>2, StillFails DEF Whole
<1> QED
  BY <1>2, <1>3 DEF EndFinish

LEMMA CatchFlushKeeps ==
    ASSUME LogInv, CatchFlush
    PROVE  LogInv' /\ UNCHANGED <<base, told>>
<1>1. /\ stage = "catch" /\ StoreInv /\ RunInv /\ UNCHANGED <<given, rest, uncaught>>
      /\ ~InTx /\ rest = <<>>
  BY Known DEF CatchFlush, Uninterrupted, LogInv
<1>2. CASE Flush /\ stage' = "unsure" /\ UNCHANGED stopped
  <2>1. StoreInv' /\ ~InTx' /\ (Over => Over') /\ text' = <<>> /\ UNCHANGED <<base, told>>
    BY <1>1, <1>2, FlushEnds
  <2>2. Uninterrupted'
    BY <1>1, <1>2, <2>1, Known DEF Uninterrupted
  <2>3. RunInv'
    BY <1>1, <1>2, <2>2, Known, FlushKeeps DEF Whole
  <2> QED
    BY <2>1, <2>3 DEF LogInv
<1>3. CASE Fails /\ Leaves("task")
  <2>1. text' = <<>> /\ stopped' /\ stage' = "task"
    BY <1>3 DEF Dispose, Leaves
  <2>2. Uninterrupted'
    BY <1>1, <2>1 DEF Uninterrupted
  <2> QED
    BY <1>1, <1>3, <2>1, <2>2, StillFails DEF Whole
<1> QED
  BY <1>2, <1>3 DEF CatchFlush

LEMMA CatchFinishKeeps ==
    ASSUME LogInv, CatchFinish
    PROVE  LogInv' /\ UNCHANGED <<base, told>>
<1>1. /\ stage = "unsure" /\ StoreInv /\ RunInv /\ UNCHANGED <<given, rest, uncaught>>
      /\ ~InTx /\ rest = <<>> /\ "outcome_unknown" \in States
  BY Known DEF CatchFinish, Uninterrupted, LogInv, States
<1>2. CASE Finish("outcome_unknown") /\ Leaves("over")
  <2>1. StoreInv' /\ ~InTx' /\ Over' /\ UNCHANGED <<base, told>>
    BY <1>1, <1>2, FinishEnds
  <2>2. text' = <<>> /\ stopped' /\ stage' = "over"
    BY <1>2 DEF Dispose, Leaves
  <2>3. Uninterrupted'
    BY <1>1, <2>2 DEF Uninterrupted
  <2>4. text' \in Seq(Byte) /\ rest' \in Seq(Byte) /\ Len(text') <= Limit
    BY <1>1, <2>2, Known
  <2>5. RunInv'
    BY <1>1, <1>2, <2>3, <2>4, FinishKeeps
  <2> QED
    BY <2>1, <2>5 DEF LogInv
<1>3. CASE Fails /\ Leaves("task")
  <2>1. text' = <<>> /\ stopped' /\ stage' = "task"
    BY <1>3 DEF Dispose, Leaves
  <2>2. Uninterrupted'
    BY <1>1, <2>1 DEF Uninterrupted
  <2> QED
    BY <1>1, <1>3, <2>1, <2>2, StillFails DEF Whole
<1> QED
  BY <1>2, <1>3 DEF CatchFinish

LEMMA TaskCatchKeeps ==
    ASSUME LogInv, TaskCatch
    PROVE  LogInv' /\ UNCHANGED <<base, told>>
<1>1. /\ stage' = "over" /\ StoreInv /\ RunInv /\ ~InTx /\ rest = <<>>
      /\ UNCHANGED <<given, rest, text, stopped, outcome>> /\ "failed" \in States
  BY Known DEF TaskCatch, batcher, LogInv, States
<1>2. Uninterrupted'
  BY <1>1, Known DEF Uninterrupted
<1>3. CASE Finish("failed") /\ UNCHANGED uncaught
  <2>1. StoreInv' /\ UNCHANGED <<base, told>>
    BY <1>1, <1>3, FinishEnds
  <2>2. text' \in Seq(Byte) /\ rest' \in Seq(Byte) /\ Len(text') <= Limit
    BY <1>1, Known
  <2>3. RunInv'
    BY <1>1, <1>2, <1>3, <2>2, FinishKeeps
  <2> QED
    BY <2>1, <2>3 DEF LogInv
<1>4. CASE Fails /\ uncaught' = TRUE
  BY <1>1, <1>2, <1>4, StillFails DEF Whole
<1> QED
  BY <1>3, <1>4 DEF TaskCatch

LEMMA CutShortKeeps ==
    ASSUME LogInv, CutShort
    PROVE  LogInv' /\ UNCHANGED <<base, told>>
<1>1. /\ StoreInv /\ RunInv /\ ~InTx
      /\ UNCHANGED <<given, rest, text, stopped, stage, outcome, uncaught>>
  BY Known DEF CutShort, batcher, execution, LogInv
<1>2. PICK state \in States : Finish(state) /\ state # "succeeded"
  BY DEF CutShort, States
<1>3. StoreInv' /\ ~InTx' /\ Over' /\ UNCHANGED <<base, told>>
  BY <1>1, <1>2, FinishEnds
<1>4. Uninterrupted'
  BY <1>1, <1>3, Known DEF Uninterrupted
<1>5. text' \in Seq(Byte) /\ rest' \in Seq(Byte) /\ Len(text') <= Limit
  BY <1>1, Known
<1>6. RunInv'
  BY <1>1, <1>2, <1>4, <1>5, FinishKeeps
<1> QED
  BY <1>3, <1>6 DEF LogInv

LEMMA RecoverKeeps ==
    ASSUME LogInv, Recover
    PROVE  LogInv' /\ UNCHANGED <<base, told>>
<1>1. /\ StoreInv /\ RunInv /\ ~InTx /\ Finish("outcome_unknown") /\ "outcome_unknown" \in States
      /\ rest = <<>> /\ stage' = "over" /\ UNCHANGED <<given, rest, text, stopped, uncaught>>
  BY Known DEF Recover, batcher, Uninterrupted, LogInv, States
<1>2. StoreInv' /\ Over' /\ UNCHANGED <<base, told>>
  BY <1>1, FinishEnds
<1>3. Uninterrupted'
  BY <1>1, <1>2, Known DEF Uninterrupted
<1>4. text' \in Seq(Byte) /\ rest' \in Seq(Byte) /\ Len(text') <= Limit
  BY <1>1, Known
<1>5. RunInv'
  BY <1>1, <1>3, <1>4, FinishKeeps
<1> QED
  BY <1>2, <1>5 DEF LogInv

-----------------------------------------------------------------------------
(* The rest of the process.                                                *)

LEMMA OthersKeep ==
    ASSUME LogInv, StoreInv', Unconcerned, InTx' => InTx \/ ~Busy,
           UNCHANGED <<batcher, execution>>
    PROVE  LogInv'
<1>1. UNCHANGED <<given, rest, text, armed, stopped, stage, outcome, uncaught>> /\ Extends(disk', disk)
  BY DEF batcher, execution, Unconcerned
<1>2. Over' <=> Over
  BY <1>1, LogWithOthers DEF LogInv
<1>3. Uninterrupted'
  BY <1>1, <1>2, Known DEF Uninterrupted
<1>4. text' \in Seq(Byte) /\ rest' \in Seq(Byte) /\ Len(text') <= Limit
  BY <1>1, Known
<1>5. Whole' => Whole
  BY <1>1 DEF Whole
<1>6. RunInv'
  BY <1>1, <1>3, <1>4, <1>5, SilentStep DEF LogInv
<1> QED
  BY <1>6 DEF LogInv

OtherSteps == OtherEmit \/ OtherEnter \/ OtherLeave \/ OtherThrow \/ OtherUnwind

LEMMA OtherStepsKeep ==
    ASSUME LogInv, OtherSteps
    PROVE  LogInv' /\ Unconcerned
<1>1. StoreInv /\ UNCHANGED <<batcher, execution>>
  BY DEF LogInv, OtherSteps, OtherEmit, OtherEnter, OtherLeave, OtherThrow, OtherUnwind
<1>2. CASE OtherEmit
  <2>1. Emit("other", <<>>) /\ (InTx \/ ~Busy)
    BY <1>2 DEF OtherEmit
  <2> QED
    BY <1>1, <2>1, OtherEmitStore, OthersKeep
<1>3. CASE OtherEnter
  <2>1. Enter /\ (InTx \/ ~Busy)
    BY <1>3 DEF OtherEnter
  <2> QED
    BY <1>1, <2>1, EnterStore, OthersKeep
<1>4. CASE OtherLeave
  <2>1. Leave
    BY <1>4 DEF OtherLeave
  <2> QED
    BY <1>1, <2>1, LeaveStore, OthersKeep
<1>5. CASE OtherThrow
  <2>1. PICK error \in Errors : Throw(error)
    BY <1>5 DEF OtherThrow
  <2> QED
    BY <1>1, <2>1, ThrowStore, OthersKeep
<1>6. CASE OtherUnwind
  <2>1. Unwind
    BY <1>6 DEF OtherUnwind
  <2> QED
    BY <1>1, <2>1, UnwindStore, OthersKeep
<1> QED
  BY <1>2, <1>3, <1>4, <1>5, <1>6 DEF OtherSteps

LEMMA DeliverKeeps ==
    ASSUME LogInv, Deliver
    PROVE  LogInv'
<1>1. /\ Microtask /\ disk' = disk
      /\ UNCHANGED <<given, rest, text, armed, stopped, stage, outcome, uncaught>>
  BY DEF Deliver, Microtask, batcher, execution
<1>2. StoreInv' /\ (InTx' <=> InTx)
  BY <1>1, MicrotaskStore DEF LogInv
<1>3. Extends(disk', disk) /\ (Over' <=> Over)
  BY <1>1, Known DEF Over
<1>4. Uninterrupted'
  BY <1>1, <1>2, <1>3, Known DEF Uninterrupted
<1>5. text' \in Seq(Byte) /\ rest' \in Seq(Byte) /\ Len(text') <= Limit /\ (Whole' => Whole)
  BY <1>1, Known DEF Whole
<1>6. RunInv'
  BY <1>1, <1>3, <1>4, <1>5, SilentStep DEF LogInv
<1> QED
  BY <1>2, <1>6 DEF LogInv

LEMMA RebornKeeps ==
    ASSUME LogInv, Reborn
    PROVE  LogInv' /\ disk' = disk
<1>1. /\ Restart /\ rest' = <<>> /\ text' = <<>> /\ stopped' /\ stage' = "recover"
      /\ UNCHANGED <<given, uncaught>>
  BY DEF Reborn, Dispose
<1>2. StoreInv' /\ ~InTx' /\ disk' = disk
  BY <1>1, RestartStore DEF LogInv
<1>3. Extends(disk', disk)
  BY <1>2, Known
<1>4. Uninterrupted'
  BY <1>1, <1>2 DEF Uninterrupted
<1>5. text' \in Seq(Byte) /\ rest' \in Seq(Byte) /\ Len(text') <= Limit
  BY <1>1, Known
<1>6. RunInv'
  BY <1>1, <1>3, <1>4, <1>5, SilentStep DEF LogInv, Whole
<1> QED
  BY <1>2, <1>6 DEF LogInv

-----------------------------------------------------------------------------
(* Theorems.                                                               *)

LEMMA InitEstablishes ==
    ASSUME Init
    PROVE  LogInv
<1>1. /\ disk = <<>> /\ view = <<>> /\ frames = <<>> /\ raised = "no" /\ queue = <<>>
      /\ base = 0 /\ told = <<>> /\ issued = 0
      /\ given = <<>> /\ rest = <<>> /\ text = <<>> /\ stopped = FALSE
      /\ stage = "working" /\ uncaught = FALSE
  BY DEF Init, StoreInit
<1>2. ~InTx /\ Len(frames) = 0 /\ Len(disk) = 0 /\ disk \in Seq(Event) /\ Limit \in Nat
  BY <1>1, LimitAssumption DEF InTx
<1>3. TextOf(disk) = <<>>
  <2> DEFINE none == [i \in DOMAIN <<>> |-> <<>>[i].body]
  <2>1. none = <<>>
    OBVIOUS
  <2> HIDE DEF none
  <2>2. FlattenSeq(none) = <<>>
    BY <2>1, FlattenNothing
  <2> QED
    BY <1>1, <2>2 DEF TextOf, none
<1>4. StoreInv
  <2>1. \A j \in 1..Len(frames) : FALSE
    BY <1>2
  <2>2. \A j \in 1..(Len(frames) - 1) : FALSE
    BY <1>2
  <2>3. ViewTrue
    <3>1. Extends(view, disk)
      BY <1>1, <1>2, ExtendsItself
    <3>2. frames \in Seq(Frame) /\ issued \in Nat /\ view = disk /\ raised = "no"
      BY <1>1
    <3> QED
      BY <1>2, <2>1, <3>1, <3>2 DEF ViewTrue
  <2>4. CallbacksMatch
    BY <1>1, <1>2, <2>2 DEF CallbacksMatch
  <2>5. QueueMatches
    BY <1>1, <1>2 DEF QueueMatches
  <2> QED
    BY <2>3, <2>4, <2>5 DEF StoreInv
<1>5. RunInv
  <2>1. /\ given \in Seq(Byte) /\ Len(given) = 0 /\ text \in Seq(Byte) /\ rest \in Seq(Byte)
        /\ Len(text) = 0 /\ Len(TextOf(disk)) = 0
    BY <1>1, <1>3
  <2>2. \A i \in 1..Len(disk) : FALSE
    BY <1>2
  <2>3. Owed = given
    BY <1>1, <1>3 DEF Owed
  <2>4. Uninterrupted
    BY <1>1, <1>2 DEF Uninterrupted
  <2>5. NothingLost
    BY <2>1, <2>3 DEF NothingLost, Begins
  <2>6. WholeCharacters
    BY <1>2, <2>1, <2>2 DEF WholeCharacters, CutAt
  <2>7. EndsRight
    BY <1>1, <1>3, <2>2 DEF EndsRight
  <2> QED
    BY <2>4, <2>5, <2>6, <2>7 DEF RunInv
<1> QED
  BY <1>4, <1>5 DEF LogInv

LEMMA NextKeeps ==
    ASSUME LogInv, [Next]_vars
    PROVE  LogInv'
<1>1. CASE \E chunk \in Chunks : AppendText(chunk)
  BY <1>1, AppendTextKeeps
<1>2. CASE \E result \in States \cup {"rejected"} : AgentDone(result)
  BY <1>2, AgentDoneKeeps
<1>3. CASE Slice \/ Timer \/ CutShort
  BY <1>3, SliceKeeps, TimerKeeps, CutShortKeeps
<1>4. CASE EndSteps
  BY <1>4, EndFlushKeeps, EndFinishKeeps, CatchFlushKeeps, CatchFinishKeeps, TaskCatchKeeps DEF EndSteps
<1>5. CASE OtherSteps
  BY <1>5, OtherStepsKeep
<1>6. CASE Deliver \/ Reborn \/ Recover
  BY <1>6, DeliverKeeps, RebornKeeps, RecoverKeeps
<1>7. CASE UNCHANGED vars
  <2>1. /\ UNCHANGED storeVars
        /\ UNCHANGED <<given, rest, text, armed, stopped, stage, outcome, uncaught>>
    BY <1>7 DEF vars, batcher, execution
  <2>2. (InTx' <=> InTx) /\ (Over' <=> Over) /\ (Whole' => Whole)
    BY <2>1, SameStore DEF LogInv, Over, Whole
  <2>3. Uninterrupted'
    BY <2>1, <2>2, Known DEF Uninterrupted
  <2> QED
    BY <2>1, <2>2, <2>3, StillSame
<1> QED
  BY <1>1, <1>2, <1>3, <1>4, <1>5, <1>6, <1>7 DEF Next, OtherSteps

\* In every state the log is a log, and the batcher has what it lacks.
THEOREM LogInvariant == Spec => []LogInv
<1>1. Init => LogInv
  BY InitEstablishes
<1>2. LogInv /\ [Next]_vars => LogInv'
  BY NextKeeps
<1> QED
  BY <1>1, <1>2, PTL DEF Spec

LEMMA PublishedIsText ==
    ASSUME LogInv
    PROVE  /\ Published = TextOf(disk)
           /\ DOMAIN disk = 1..Len(disk) /\ Len(disk) \in Nat
           /\ \A i \in 1..Len(disk) : disk[i].body \in Seq(Byte)
<1>1. disk \in Seq(Event)
  BY Known
<1>2. \A i \in 1..Len(disk) : disk[i] \in Event
  BY <1>1
<1>3. \A i \in 1..Len(disk) : disk[i].body \in Seq(Byte)
  BY <1>2 DEF Event
<1> QED
  BY <1>1, <1>3 DEF Published, TextOf

\* The text in the log is what the agent said, from its beginning, whichever writes failed,
\* whenever the run was cut short and the process killed; it is there in batches within the
\* limit that split no character (core/delta-batcher.ts:14).
THEOREM TextIntactHolds == Spec => []TextIntact
<1>1. LogInv => TextIntact
  <2> SUFFICES ASSUME LogInv
               PROVE  NoGap /\ WholeBatches
    BY DEF TextIntact
  <2>1. NoGap
    <3>1. Begins(TextOf(disk), given) /\ TextOf(disk) \in Seq(Byte) /\ given \in Seq(Byte)
      BY Known DEF LogInv, RunInv, NothingLost
    <3> QED
      BY <3>1, PublishedIsText, BeginsIsPrefix DEF NoGap
  <2>2. ASSUME NEW i \in DOMAIN disk, disk[i].body # <<>>
        PROVE  /\ Len(disk[i].body) <= Limit
               /\ Head(disk[i].body).lead
               /\ Last(disk[i].body).n < Len(given) => given[Last(disk[i].body).n + 1].lead
    <3>1. PICK b : b = disk[i].body
      OBVIOUS
    <3>2. b \in Seq(Byte) /\ b # <<>> /\ Batch(b)
      BY <2>2, <3>1, PublishedIsText DEF LogInv, RunInv, WholeCharacters
    <3>3. Head(b) = b[1] /\ Last(b) = b[Len(b)]
      <4>1. b \in Seq(Byte) /\ b # <<>>
        BY <3>2
      <4>2. Head(b) = b[1]
        BY <4>1
      <4>3. Last(b) = b[Len(b)]
        BY <4>1, FrontAndLast
      <4> QED
        BY <4>2, <4>3
    <3> QED
      BY <3>1, <3>2, <3>3 DEF Batch, CutAt, Leads
  <2> QED
    BY <2>1, <2>2 DEF WholeBatches
<1> QED
  BY <1>1, LogInvariant, PTL

\* A run that the log calls a success has all the agent's text there, unless an error nobody
\* handled stops the process; and nothing of the run comes after its end (core/gateway.ts:626).
THEOREM EndIsTrueHolds == Spec => []EndIsTrue
<1>1. LogInv => EndIsTrue
  <2> SUFFICES ASSUME LogInv
               PROVE  SuccessHasAll /\ EndIsLast
    BY DEF EndIsTrue
  <2>1. SuccessHasAll
    BY PublishedIsText DEF LogInv, RunInv, EndsRight, SuccessHasAll, Succeeded
  <2>2. EndIsLast
    BY PublishedIsText DEF LogInv, RunInv, EndsRight, EndIsLast
  <2> QED
    BY <2>1, <2>2
<1> QED
  BY <1>1, LogInvariant, PTL

-----------------------------------------------------------------------------
(* Whoever follows the log sees a journal.                                 *)

RunWrites ==
    \/ UNCHANGED storeVars
    \/ \E b \in Seq(Byte) : SendText(b)
    \/ \E state \in States : Finish(state)

LEMMA RunStepsWrite ==
    ASSUME LogInv, Timer \/ EndSteps \/ CutShort \/ Recover
    PROVE  RunWrites /\ ~InTx
<1>1. Flush => RunWrites
  BY Known DEF Flush, RunWrites
<1>2. Fails => RunWrites
  BY DEF Fails, RunWrites
<1>3. \A state \in States : Finish(state) => RunWrites
  BY DEF RunWrites
<1>4. CASE Timer
  BY <1>1, <1>2, <1>3, <1>4, Known DEF Timer, States
<1>5. CASE EndFlush
  <2>1. ~InTx /\ (UNCHANGED storeVars \/ Flush \/ Fails)
    BY <1>5, Known DEF EndFlush, FlushFails
  <2> QED
    BY <1>1, <1>2, <2>1 DEF RunWrites
<1>6. CASE EndFinish
  BY <1>2, <1>3, <1>6, Known DEF EndFinish, Uninterrupted
<1>7. CASE CatchFlush
  BY <1>1, <1>2, <1>7, Known DEF CatchFlush, Uninterrupted
<1>8. CASE CatchFinish
  BY <1>2, <1>3, <1>8, Known DEF CatchFinish, Uninterrupted, States
<1>9. CASE TaskCatch
  BY <1>2, <1>3, <1>9, Known DEF TaskCatch, States
<1>10. CASE CutShort
  BY <1>3, <1>10, Known DEF CutShort, States
<1>11. CASE Recover
  BY <1>3, <1>11, Known DEF Recover, Uninterrupted, States
<1> QED
  BY <1>4, <1>5, <1>6, <1>7, <1>8, <1>9, <1>10, <1>11 DEF EndSteps

LEMMA Follows ==
    ASSUME NEW v \in Seq(Event), NEW e \in Event
    PROVE  IsStrictPrefix(v, Append(v, e))
<1>1. PICK w : w = Append(v, e)
  OBVIOUS
<1>2. /\ w \in Seq(Event) /\ Len(w) = Len(v) + 1 /\ Len(v) \in Nat
      /\ \A i \in 1..Len(v) : w[i] = v[i]
  BY <1>1
<1>3. Begins(v, w)
  BY <1>2 DEF Begins
<1>4. w # v
  BY <1>2
<1> QED
  BY <1>1, <1>2, <1>3, <1>4, BeginsIsPrefix DEF IsStrictPrefix

LEMMA FollowsOthers ==
    ASSUME NEW v, NEW w, Extends(w, v), w # v
    PROVE  IsStrictPrefix(v, w)
<1>1. v \in Seq(Event) /\ w \in Seq(Event) /\ Begins(v, w)
  BY DEF Extends, Begins
<1> QED
  BY <1>1, BeginsIsPrefix DEF IsStrictPrefix

LEMMA StepTellsTruth ==
    ASSUME LogInv, [Next]_vars
    PROVE  [Observed!Next]_(Observed!journal)
<1>1. disk \in Seq(Event)
  BY Known
<1>2. ASSUME disk' = disk \/ \E e \in Event : disk' = Append(disk, e), UNCHANGED <<base, told>>
      PROVE  [Observed!Next]_(Observed!journal)
  <2>1. CASE disk' = disk
    BY <1>2, <2>1 DEF Observed!journal
  <2>2. CASE \E e \in Event : disk' = Append(disk, e)
    <3>1. IsStrictPrefix(disk, disk')
      BY <1>1, <2>2, Follows
    <3>2. Observed!Commit
      BY <1>2, <3>1 DEF Observed!Commit, Observed!IsStrictPrefix, Observed!IsPrefix, IsStrictPrefix, IsPrefix
    <3> QED
      BY <3>2 DEF Observed!Next
  <2> QED
    BY <1>2, <2>1, <2>2
<1>3. CASE \E chunk \in Chunks : AppendText(chunk)
  BY <1>2, <1>3, AppendTextKeeps
<1>4. CASE \E result \in States \cup {"rejected"} : AgentDone(result)
  <2>1. UNCHANGED storeVars
    BY <1>4 DEF AgentDone
  <2> QED
    BY <1>2, <2>1 DEF storeVars
<1>5. CASE Slice
  BY <1>2, <1>5, SliceKeeps
<1>6. CASE Timer \/ EndSteps \/ CutShort \/ Recover
  <2>1. ~InTx /\ StoreInv
    BY <1>6, RunStepsWrite DEF LogInv
  <2>2. CASE UNCHANGED storeVars
    BY <1>2, <2>2 DEF storeVars
  <2>3. CASE \E b \in Seq(Byte) : SendText(b)
    BY <1>2, <2>1, <2>3, SendTextStore DEF Writes
  <2>4. CASE \E state \in States : Finish(state)
    BY <1>2, <2>1, <2>4, FinishStore DEF Writes
  <2> QED
    BY <1>6, <2>2, <2>3, <2>4, RunStepsWrite DEF RunWrites
<1>7. CASE OtherSteps
  <2>1. Extends(disk', disk) /\ UNCHANGED <<base, told>>
    BY <1>7, OtherStepsKeep DEF Unconcerned
  <2>2. CASE disk' = disk
    BY <1>2, <2>1, <2>2
  <2>3. CASE disk' # disk
    <3>1. IsStrictPrefix(disk, disk')
      BY <2>1, <2>3, FollowsOthers
    <3>2. Observed!Commit
      BY <2>1, <3>1 DEF Observed!Commit, Observed!IsStrictPrefix, Observed!IsPrefix, IsStrictPrefix, IsPrefix
    <3> QED
      BY <3>2 DEF Observed!Next
  <2> QED
    BY <2>2, <2>3
<1>8. CASE Deliver
  <2>1. /\ queue # <<>> /\ told' = Append(told, Head(queue)) /\ UNCHANGED <<disk, base>>
    BY <1>8 DEF Deliver, Microtask
  <2>2. /\ base \in Nat /\ Len(told) \in Nat /\ queue \in Seq(Event) /\ Len(queue) \in Nat \ {0}
        /\ Len(disk) = base + Len(told) + Len(queue)
    BY <2>1 DEF LogInv, StoreInv, QueueMatches
  <2>3. Head(queue) = queue[1] /\ 1 \in 1..Len(queue)
    BY <2>1, <2>2
  <2>4. queue[1] = disk[base + Len(told) + 1]
    BY <2>3 DEF LogInv, StoreInv, QueueMatches
  <2>5. base + Len(told) + 1 <= Len(disk)
    BY <2>2
  <2>6. Observed!Tell
    BY <2>1, <2>3, <2>4, <2>5 DEF Observed!Tell
  <2> QED
    BY <2>6 DEF Observed!Next
<1>9. CASE Reborn
  <2>1. base' = Len(disk) /\ told' = <<>> /\ disk' = disk
    BY <1>9 DEF Reborn, Restart
  <2>2. Observed!Restart
    BY <2>1 DEF Observed!Restart
  <2> QED
    BY <2>2 DEF Observed!Next
<1>10. CASE UNCHANGED vars
  <2>1. UNCHANGED storeVars
    BY <1>10 DEF vars
  <2> QED
    BY <1>2, <2>1 DEF storeVars
<1> QED
  BY <1>3, <1>4, <1>5, <1>6, <1>7, <1>8, <1>9, <1>10 DEF Next, OtherSteps

\* Refinement, but for fairness: whatever fails, rolls back or is killed, the log only grows,
\* a transaction at a time, and listeners are told each of its events since the process
\* started once, in order and not before it is committed (store/index.ts:188).
THEOREM ListenersFollowSafely == Spec => Observed!Safety
<1>1. Init => Observed!Init
  BY DEF Init, StoreInit, Observed!Init
<1>2. LogInv /\ [Next]_vars => [Observed!Next]_(Observed!journal)
  BY StepTellsTruth
<1> QED
  BY <1>1, <1>2, LogInvariant, PTL DEF Spec, Observed!Safety

===============================================================================
