--------------------------- MODULE EventStreamProofs --------------------------
(* Theorems about the streams of a session and the pacer they share, for any   *)
(* number of readers, runs and events, and any allowance.                      *)
EXTENDS EventStream, FiniteSetTheorems, WellFoundedInduction, TLAPS

-----------------------------------------------------------------------------
(* Numbers.                                                                *)

\* The natural numbers are well-founded, so that a set of them has a least element.
LEMMA Smallest ==
    ASSUME NEW T \in SUBSET Nat, T # {}
    PROVE  \E x \in T : \A y \in T : x <= y
<1>1. PICK x \in T : \A y \in T : <<y, x>> \notin OpToRel(<, Nat)
  BY NatLessThanWellFounded, WFMin
<1>2. \A y \in T : ~(y < x)
  BY <1>1 DEF OpToRel
<1> QED
  BY <1>2

LEMMA Remainder ==
    ASSUME NEW a \in Nat, NEW L \in Nat \ {0}
    PROVE  (a % L) \in 0..(L - 1) /\ a \div L \in Nat /\ a = L * (a \div L) + (a % L)
OBVIOUS

LEMMA TurnOfOne ==
    ASSUME NEW a \in Nat, NEW L \in Nat \ {0}
    PROVE  (a % L) + 1 \in 1..L /\ (a + 1) % L \in Nat
<1>1. a % L \in 0..(L - 1) /\ (a + 1) % L \in 0..(L - 1)
  BY Remainder, a + 1 \in Nat
<1> QED
  BY <1>1

LEMMA Beyond ==
    ASSUME NEW a \in Nat, NEW k \in Nat, a < k
    PROVE  \A j \in Nat : k < j <=> a < j /\ k <= j /\ j # k
OBVIOUS

\* The j-th turn after the next is the turn after the j-th.
LEMMA TurnAfterTurn ==
    ASSUME NEW a \in Nat, NEW j \in Nat, NEW L \in Nat \ {0}
    PROVE  (((a + 1) % L) + j) % L = (a + 1 + j) % L
<1> DEFINE r == (a + 1) % L
           s == (r + j) % L
<1>1. PICK q \in Nat : a + 1 = L * q + r
  BY Remainder, a + 1 \in Nat
<1>2. r \in Nat
  BY Remainder, a + 1 \in Nat
<1>3. PICK p \in Nat : r + j = L * p + s
  BY <1>2, Remainder, r + j \in Nat
<1>4. s \in 0..(L - 1)
  BY <1>2, Remainder
<1> HIDE DEF r, s
<1>5. a + 1 + j = L * (q + p) + s
  BY <1>1, <1>2, <1>3, <1>4
<1>6. (L * (q + p) + s) % L = s
  BY <1>4
<1> QED
  BY <1>5, <1>6 DEF r, s

\* A whole round gives everybody a turn.
LEMMA EverybodysTurn ==
    ASSUME NEW a \in Nat, NEW L \in Nat \ {0}, NEW p \in 0..(L - 1)
    PROVE  \E j \in 0..(L - 1) : (a + j) % L = p
<1> DEFINE r == a % L
<1>1. PICK q \in Nat : a = L * q + r
  BY Remainder
<1>2. r \in 0..(L - 1)
  BY Remainder
<1> HIDE DEF r
<1>3. CASE p >= r
  <2>1. a + (p - r) = L * q + p /\ p - r \in 0..(L - 1)
    BY <1>1, <1>2, <1>3
  <2>2. (L * q + p) % L = p
    OBVIOUS
  <2> QED
    BY <2>1, <2>2
<1>4. CASE p < r
  <2>1. a + (p + L - r) = L * (q + 1) + p /\ p + L - r \in 0..(L - 1)
    BY <1>1, <1>2, <1>4
  <2>2. (L * (q + 1) + p) % L = p
    OBVIOUS
  <2> QED
    BY <2>1, <2>2
<1> QED
  BY <1>2, <1>3, <1>4

-----------------------------------------------------------------------------
(* The streams of a key.                                                   *)

Taken == {i \in Streams : phase[i] # "free"}

SlotInv ==
    /\ phase \in [Streams -> {"free", "open", "ended"}] /\ held \in Nat
    /\ SlotsCounted

LEMMA TakenFinite == IsFiniteSet(Taken) /\ Cardinality(Taken) \in Nat
<1>1. IsFiniteSet(Streams) /\ Taken \subseteq Streams
  BY StreamAssumption DEF Taken
<1> QED
  BY <1>1, FS_Subset, FS_CardinalityType

\* A stream that ends keeps its slot until it is closed.
LEMMA StreamEnds ==
    ASSUME SlotInv, NEW i, phase[i] = "open", held' = held, EndStream(i) \/ UNCHANGED <<phase, eof>>
    PROVE  SlotInv'
<1>1. phase' = phase \/ phase' = [phase EXCEPT ![i] = "ended"]
  BY DEF EndStream
<1>2. /\ phase' \in [Streams -> {"free", "open", "ended"}]
      /\ \A j \in Streams : phase'[j] # "free" <=> phase[j] # "free"
  BY <1>1 DEF SlotInv
<1>3. Taken' = Taken
  BY <1>2 DEF Taken
<1> QED
  BY <1>2, <1>3 DEF SlotInv, SlotsCounted, Taken

LEMMA AttemptSlots ==
    ASSUME SlotInv, Attempt
    PROVE  SlotInv'
<1>1. CASE Deliver(Current)
  BY <1>1, StreamEnds DEF Deliver
<1>2. CASE Skip(Current)
  <2>1. held' = held
    BY <1>2 DEF Skip
  <2>2. CASE phase[Current] = "open"
    <3>1. EndStream(Current) \/ UNCHANGED <<phase, eof>>
      BY <1>2, <2>2 DEF Skip
    <3> QED
      BY <2>1, <2>2, <3>1, StreamEnds
  <2>3. CASE phase[Current] # "open"
    <3>1. phase' = phase
      BY <1>2, <2>3 DEF Skip
    <3> QED
      BY <2>1, <3>1 DEF SlotInv, SlotsCounted
  <2> QED
    BY <2>2, <2>3
<1> QED
  BY <1>1, <1>2 DEF Attempt

LEMMA OpenSlots ==
    ASSUME SlotInv, NEW c \in Readers, NEW i \in Streams, Open(c, i)
    PROVE  SlotInv'
<1>1. /\ phase[i] = "free" /\ held < StreamsPerKey /\ held' = held + 1
      /\ phase' = [phase EXCEPT ![i] = "open"]
  BY DEF Open
<1>2. phase' \in [Streams -> {"free", "open", "ended"}] /\ held' \in Nat /\ held' <= StreamsPerKey
  BY <1>1, StreamAssumption DEF SlotInv
<1>3. Taken' = Taken \cup {i} /\ i \notin Taken
  BY <1>1 DEF Taken, SlotInv
<1>4. Cardinality(Taken') = Cardinality(Taken) + 1
  BY <1>3, TakenFinite, FS_AddElement
<1> QED
  BY <1>1, <1>2, <1>4 DEF SlotInv, SlotsCounted, Taken

LEMMA CloseSlots ==
    ASSUME SlotInv, NEW i \in Streams, Close(i)
    PROVE  SlotInv'
<1>1. /\ phase[i] # "free" /\ held' = IF held > 0 THEN held - 1 ELSE 0
      /\ phase' = [phase EXCEPT ![i] = "free"]
  BY DEF Close, FreeSlot
<1>2. Taken' = Taken \ {i} /\ i \in Taken
  BY <1>1 DEF Taken, SlotInv
<1>3. Cardinality(Taken') = Cardinality(Taken) - 1
  BY <1>2, TakenFinite, FS_RemoveElement
<1>4. held = Cardinality(Taken) /\ Cardinality(Taken) # 0
  BY <1>2, TakenFinite, FS_EmptySet DEF SlotInv, SlotsCounted, Taken
<1>5. /\ phase' \in [Streams -> {"free", "open", "ended"}] /\ held' = held - 1
      /\ held' \in Nat /\ held' <= StreamsPerKey
  BY <1>1, <1>4, StreamAssumption DEF SlotInv, SlotsCounted
<1> QED
  BY <1>3, <1>4, <1>5 DEF SlotInv, SlotsCounted, Taken

\* Nobody is connected when the daemon starts.
LEMMA NoneTaken ==
    ASSUME phase = [i \in Streams |-> "free"], held = 0
    PROVE  SlotInv
<1>1. {i \in Streams : phase[i] # "free"} = {}
  OBVIOUS
<1>2. Cardinality({i \in Streams : phase[i] # "free"}) = 0
  BY <1>1, FS_EmptySet
<1> QED
  BY <1>2, StreamAssumption DEF SlotInv, SlotsCounted

LEMMA NoneTakenNext ==
    ASSUME phase' = [i \in Streams |-> "free"], held' = 0
    PROVE  SlotInv'
<1>1. {i \in Streams : phase'[i] # "free"} = {}
  OBVIOUS
<1>2. Cardinality({i \in Streams : phase'[i] # "free"}) = 0
  BY <1>1, FS_EmptySet
<1> QED
  BY <1>2, StreamAssumption DEF SlotInv, SlotsCounted

\* A key never has more streams than it may, and none of its slots is lost
\* (app.ts:546-552, 617-625).
THEOREM SlotsCountedHolds == Spec => []SlotsCounted
<1>1. Init => SlotInv
  BY NoneTaken DEF Init
<1>2. ASSUME SlotInv, [Next]_vars
      PROVE  SlotInv'
  <2>1. CASE UNCHANGED <<phase, held>>
    BY <1>2, <2>1 DEF SlotInv, SlotsCounted
  <2>2. CASE Engine \/ Reading \/ UNCHANGED vars
    BY <2>1, <2>2 DEF Engine, Reading, Emit, Complete, LateDecision, AppendEvent, RemoveEvents, Begin,
                      Read, EndOfStream, Drop, vars, streams
  <2>3. CASE Wake \/ TimerFires \/ Tick \/ \E c \in Readers : Refused(c)
    BY <2>1, <2>3 DEF Wake, TimerFires, Tick, Refused, Refuse, streams
  <2>4. CASE Attempt
    BY <1>2, <2>4, AttemptSlots
  <2>5. CASE (\E c \in Readers, i \in Streams : Open(c, i)) \/ \E i \in Streams : Close(i)
    BY <1>2, <2>5, OpenSlots, CloseSlots
  <2>6. CASE Restart
    BY <2>6, NoneTakenNext DEF Restart
  <2> QED
    BY <1>2, <2>2, <2>3, <2>4, <2>5, <2>6 DEF Next, Server
<1>3. SlotInv => SlotsCounted
  BY DEF SlotInv
<1> QED
  BY <1>1, <1>2, <1>3, PTL DEF Spec

-----------------------------------------------------------------------------
(* Lists of numbers.                                                       *)

\* The elements of a strictly increasing sequence.
Lists(s, S) ==
    /\ \A n \in 1..Len(s) : s[n] \in S
    /\ \A k \in S : \E n \in 1..Len(s) : s[n] = k
    /\ \A n, p \in 1..Len(s) : n < p => s[n] < s[p]

LEMMA ListsNothing == Lists(<<>>, {})
BY DEF Lists

LEMMA ListsMore ==
    ASSUME NEW s \in Seq(Nat), NEW S \in SUBSET Nat, Lists(s, S), NEW k \in Nat, \A j \in S : j < k
    PROVE  Lists(Append(s, k), S \cup {k})
<1> DEFINE more == Append(s, k)
<1>1. /\ Len(more) = Len(s) + 1 /\ Len(s) \in Nat /\ more[Len(s) + 1] = k
      /\ \A n \in 1..Len(s) : more[n] = s[n]
  OBVIOUS
<1> HIDE DEF more
<1>2. \A n \in 1..Len(more) : n \in 1..Len(s) \/ n = Len(s) + 1
  BY <1>1
<1>3. \A n \in 1..Len(more) : more[n] \in S \cup {k}
  BY <1>1, <1>2 DEF Lists
<1>4. \A j \in S \cup {k} : \E n \in 1..Len(more) : more[n] = j
  <2> TAKE j \in S \cup {k}
  <2>1. CASE j \in S
    <3>1. PICK n \in 1..Len(s) : s[n] = j
      BY <2>1 DEF Lists
    <3>2. n \in 1..Len(more) /\ more[n] = j
      BY <1>1, <3>1
    <3> QED
      BY <3>2
  <2>2. CASE j = k
    <3>1. Len(s) + 1 \in 1..Len(more)
      BY <1>1
    <3> QED
      BY <1>1, <2>2, <3>1
  <2> QED
    BY <2>1, <2>2
<1>5. \A n, p \in 1..Len(more) : n < p => more[n] < more[p]
  <2> SUFFICES ASSUME NEW n \in 1..Len(more), NEW p \in 1..Len(more), n < p
               PROVE  more[n] < more[p]
    OBVIOUS
  <2>1. n \in 1..Len(s) /\ more[n] = s[n] /\ s[n] \in S
    BY <1>1 DEF Lists
  <2>2. CASE p \in 1..Len(s)
    BY <1>1, <2>1, <2>2 DEF Lists
  <2>3. CASE p = Len(s) + 1
    BY <1>1, <2>1, <2>3
  <2> QED
    BY <1>2, <2>2, <2>3
<1> QED
  BY <1>3, <1>4, <1>5 DEF Lists, more

LEMMA ListsLess ==
    ASSUME NEW s \in Seq(Nat), s # <<>>, NEW S \in SUBSET Nat, Lists(s, S)
    PROVE  /\ Head(s) \in S /\ \A j \in S : Head(s) <= j
           /\ Lists(Tail(s), S \ {Head(s)})
<1> DEFINE rest == Tail(s)
<1>1. /\ Len(s) \in Nat /\ 1 \in 1..Len(s) /\ Head(s) = s[1]
      /\ Len(rest) = Len(s) - 1
      /\ \A n \in 1..Len(rest) : n + 1 \in 1..Len(s) /\ rest[n] = s[n + 1]
      /\ \A n \in 1..Len(s) : s[n] \in Nat
  OBVIOUS
<1> HIDE DEF rest
<1>2. Head(s) \in S
  BY <1>1 DEF Lists
<1>3. \A n \in 1..Len(s) : n # 1 => s[1] < s[n] /\ s[n] # s[1] /\ n - 1 \in 1..Len(rest)
  <2> TAKE n \in 1..Len(s)
  <2>1. n # 1 => 1 < n
    OBVIOUS
  <2>2. n # 1 => s[1] < s[n]
    BY <1>1, <2>1 DEF Lists
  <2> QED
    BY <1>1, <2>2
<1>4. \A j \in S : Head(s) <= j /\ (j # Head(s) => \E n \in 1..Len(rest) : rest[n] = j)
  <2> TAKE j \in S
  <2>1. PICK n \in 1..Len(s) : s[n] = j
    BY DEF Lists
  <2>2. CASE n = 1
    BY <1>1, <2>1, <2>2
  <2>3. CASE n # 1
    <3>1. n - 1 \in 1..Len(rest) /\ s[1] < s[n]
      BY <1>3, <2>3
    <3>2. rest[n - 1] = s[(n - 1) + 1]
      BY <1>1, <3>1
    <3>3. rest[n - 1] = j
      BY <2>1, <3>2
    <3> QED
      BY <1>1, <2>1, <3>1, <3>3
  <2> QED
    BY <2>2, <2>3
<1>5. \A n \in 1..Len(rest) : rest[n] \in S \ {Head(s)}
  <2> TAKE n \in 1..Len(rest)
  <2>1. n + 1 \in 1..Len(s) /\ rest[n] = s[n + 1] /\ n + 1 # 1
    BY <1>1
  <2>2. s[n + 1] \in S /\ s[n + 1] # s[1]
    BY <1>3, <2>1 DEF Lists
  <2> QED
    BY <1>1, <2>1, <2>2
<1>6. \A n, p \in 1..Len(rest) : n < p => rest[n] < rest[p]
  <2> TAKE n, p \in 1..Len(rest)
  <2>1. /\ n + 1 \in 1..Len(s) /\ rest[n] = s[n + 1]
        /\ p + 1 \in 1..Len(s) /\ rest[p] = s[p + 1]
    BY <1>1
  <2>2. n < p => n + 1 < p + 1
    BY <1>1
  <2> QED
    BY <2>1, <2>2 DEF Lists
<1> QED
  BY <1>2, <1>4, <1>5, <1>6 DEF Lists, rest

-----------------------------------------------------------------------------
(* The readers: an inductive invariant.                                    *)

StreamTypes ==
    /\ log \in Seq([run : Runs, last : BOOLEAN])
    /\ phase \in [Streams -> {"free", "open", "ended"}]
    /\ owner \in [Streams -> Readers \cup {None}]
    /\ cursor \in [Streams -> Nat] /\ fetched \in [Streams -> Nat]
    /\ status \in [Readers -> {"new", "pausing", "reading", "returned", "not_found", "too_many"}]
    /\ via \in [Readers -> Streams \cup {None}]
    /\ wire \in [Readers -> Seq(Nat)]
    /\ after \in [Readers -> Nat] /\ start \in [Readers -> Nat]
    /\ got \in [Readers -> SUBSET Nat]

\* A stream has read no further than its page, and no page ends behind the log.
InLog == \A i \in Streams : cursor[i] <= fetched[i] /\ fetched[i] <= Len(log)

\* A stream that is not closed is for a reader; that reader may have left it.
Connected ==
    /\ \A i \in Streams : phase[i] # "free" => owner[i] \in Readers
    /\ \A c \in Readers : via[c] # None =>
        status[c] = "reading" /\ phase[via[c]] # "free" /\ owner[via[c]] = c

\* The events of reader c after the last it has seen, up to place m.
Unread(c, m) == {k \in Mine(c) : after[c] < k /\ k <= m}

\* What a reader has not read of its stream is all there is for it up to some place in the
\* log: the place where the stream is, as long as that is not closed.
OnTheWire(c) ==
    \E m \in after[c]..Len(log) : /\ via[c] # None => cursor[via[c]] = m
                                  /\ Lists(wire[c], Unread(c, m))

Follower(c) ==
    /\ OnTheWire(c)
    /\ status[c] # "reading" => wire[c] = <<>>
    /\ status[c] = "new" => got[c] = {}
    /\ start[c] <= after[c]
    /\ got[c] = {k \in Mine(c) : start[c] < k /\ k <= after[c]}

ReaderInv == StreamTypes /\ InLog /\ Connected /\ \A c \in Readers : Follower(c)

\* Events at places that were there before are the same ones.
Grows == Len(log') \in Nat /\ Len(log) <= Len(log') /\ \A k \in 1..Len(log) : log'[k] = log[k]

LEMMA MineStays ==
    ASSUME ReaderInv, Grows, NEW c
    PROVE  \A k \in 1..Len(log) : k \in Mine(c)' <=> k \in Mine(c)
<1>1. Len(log) \in Nat
  BY DEF ReaderInv, StreamTypes
<1> QED
  BY <1>1 DEF Mine, Seqs, Grows

\* A reader is not concerned by what others do, nor by its own stream being closed.
LEMMA ReaderStays ==
    ASSUME ReaderInv, Grows, NEW c \in Readers,
           after'[c] = after[c], wire'[c] = wire[c], start'[c] = start[c], got'[c] = got[c],
           status'[c] # "reading" => wire[c] = <<>>,
           status'[c] = "new" => status[c] = "new",
           via'[c] # None => via'[c] = via[c] /\ cursor'[via[c]] = cursor[via[c]]
    PROVE  Follower(c)'
<1>1. Len(log) \in Nat /\ after[c] \in Nat /\ Follower(c)
  BY DEF ReaderInv, StreamTypes
<1>2. PICK m \in after[c]..Len(log) : /\ via[c] # None => cursor[via[c]] = m
                                      /\ Lists(wire[c], Unread(c, m))
  BY <1>1 DEF Follower, OnTheWire
<1>3. m \in after'[c]..Len(log') /\ after[c] <= Len(log)
  BY <1>1, <1>2 DEF Grows
<1>4. {k \in Mine(c)' : after'[c] < k /\ k <= m} = Unread(c, m)
  BY <1>1, <1>2, MineStays DEF Unread, Mine, Seqs
<1>5. OnTheWire(c)'
  BY <1>2, <1>3, <1>4 DEF OnTheWire, Unread
<1>6. got'[c] = {k \in Mine(c)' : start'[c] < k /\ k <= after'[c]}
  <2>1. got[c] = {k \in Mine(c) : start[c] < k /\ k <= after[c]}
    BY <1>1 DEF Follower
  <2>2. \A k : k \in Mine(c)' /\ k <= after[c] <=> k \in Mine(c) /\ k <= after[c]
    BY <1>1, <1>3, MineStays DEF Mine, Seqs
  <2> QED
    BY <2>1, <2>2
<1> QED
  BY <1>1, <1>5, <1>6 DEF Follower

\* A reader without a stream has what it has seen, and nothing is on its way.
LEMMA ReaderLeaves ==
    ASSUME ReaderInv, log' = log, NEW c \in Readers,
           after'[c] = after[c], start'[c] = start[c], got'[c] = got[c],
           wire'[c] = <<>>, via'[c] = None, status'[c] # "new"
    PROVE  Follower(c)'
<1>1. Len(log) \in Nat /\ after[c] \in Nat /\ Follower(c)
  BY DEF ReaderInv, StreamTypes
<1>2. after[c] \in after[c]..Len(log)
  BY <1>1 DEF Follower, OnTheWire
<1>3. {k \in Mine(c)' : after'[c] < k /\ k <= after[c]} = {}
  BY <1>1 DEF Mine, Seqs
<1>4. OnTheWire(c)'
  BY <1>2, <1>3, ListsNothing DEF OnTheWire, Unread
<1>5. got'[c] = {k \in Mine(c)' : start'[c] < k /\ k <= after'[c]}
  BY <1>1 DEF Follower, Mine, Seqs
<1> QED
  BY <1>1, <1>4, <1>5 DEF Follower

LEMMA ReadersInitially == Init => ReaderInv
<1> SUFFICES ASSUME Init
             PROVE  ReaderInv
  OBVIOUS
<1>1. Len(log) = 0 /\ log \in Seq([run : Runs, last : BOOLEAN])
  BY DEF Init
<1>2. StreamTypes /\ InLog /\ Connected
  BY <1>1 DEF Init, StreamTypes, InLog, Connected
<1>3. ASSUME NEW c \in Readers
      PROVE  Follower(c)
  <2>1. /\ after[c] = 0 /\ wire[c] = <<>> /\ via[c] = None /\ start[c] = 0 /\ got[c] = {}
        /\ status[c] = "new"
    BY DEF Init
  <2>2. Mine(c) = {} /\ 0 \in 0..Len(log)
    BY <1>1 DEF Mine, Seqs
  <2>3. Unread(c, 0) = {}
    BY <2>2 DEF Unread
  <2>4. OnTheWire(c)
    BY <2>1, <2>2, <2>3, ListsNothing DEF OnTheWire
  <2> QED
    BY <2>1, <2>2, <2>4 DEF Follower
<1> QED
  BY <1>2, <1>3 DEF ReaderInv

-----------------------------------------------------------------------------
(* The readers: each step keeps the invariant.                             *)

LEMMA FirstIsLeast ==
    ASSUME NEW S \in SUBSET Nat, S # {}
    PROVE  First(S) \in S /\ \A j \in S : First(S) <= j
BY Smallest DEF First

LEMMA PageInLog ==
    ASSUME log \in Seq([run : Runs, last : BOOLEAN]), NEW f \in Nat, NEW k \in 1..Len(log)
    PROVE  PageEnd(f, k) \in k..Len(log)
<1> DEFINE ends == {f} \cup {f + n * Page : n \in 1..Len(log)} \cup {Len(log)}
           later == {e \in ends : e >= k /\ e <= Len(log)}
<1>1. Len(log) \in Nat /\ Page \in Nat
  BY StreamAssumption
<1>2. ends \in SUBSET Nat
  BY <1>1
<1>3. later \in SUBSET Nat /\ Len(log) \in later
  BY <1>1, <1>2
<1>4. PageEnd(f, k) = First(later)
  BY DEF PageEnd
<1>5. First(later) \in later
  BY <1>3, FirstIsLeast
<1> HIDE DEF ends
<1>6. First(later) \in Nat /\ First(later) >= k /\ First(later) <= Len(log)
  BY <1>2, <1>5
<1> QED
  BY <1>1, <1>4, <1>6

LEMMA ReaderTypes ==
    ASSUME ReaderInv
    PROVE  /\ Len(log) \in Nat
           /\ \A i \in Streams : /\ cursor[i] \in Nat /\ fetched[i] \in Nat
                                 /\ cursor[i] <= fetched[i] /\ fetched[i] <= Len(log)
                                 /\ Readable(i) \in Nat /\ cursor[i] <= Readable(i)
                                 /\ Readable(i) <= Len(log)
                                 /\ Ahead(i) \in SUBSET (1..Len(log))
           /\ \A c : Mine(c) \in SUBSET (1..Len(log))
           /\ \A c \in Readers : after[c] \in Nat /\ start[c] \in Nat /\ wire[c] \in Seq(Nat)
           /\ \A c, d \in Readers : via[c] # None /\ via[c] = via[d] => c = d
<1>1. Len(log) \in Nat
  BY DEF ReaderInv, StreamTypes
<1>2. \A i \in Streams : /\ cursor[i] \in Nat /\ fetched[i] \in Nat
                         /\ cursor[i] <= fetched[i] /\ fetched[i] <= Len(log)
  BY DEF ReaderInv, StreamTypes, InLog
<1>3. \A c : Mine(c) \in SUBSET (1..Len(log))
  BY DEF Mine, Seqs
<1> QED
  BY <1>1, <1>2, <1>3 DEF ReaderInv, StreamTypes, Connected, Readable, Ahead

\* The log grows by one event, of which nobody has heard.
LEMMA AppendReaders ==
    ASSUME ReaderInv, NEW r \in Runs, NEW last \in BOOLEAN, AppendEvent(r, last)
    PROVE  ReaderInv'
<1> DEFINE event == [run |-> r, last |-> last]
<1>1. /\ log' = Append(log, event) /\ UNCHANGED <<phase, owner, cursor, fetched>>
      /\ UNCHANGED <<status, via, wire, after, start, got>>
  BY DEF AppendEvent, streams, reader
<1>2. event \in [run : Runs, last : BOOLEAN]
  OBVIOUS
<1>3. log \in Seq([run : Runs, last : BOOLEAN])
  BY DEF ReaderInv, StreamTypes
<1> HIDE DEF event
<1>4. /\ log' \in Seq([run : Runs, last : BOOLEAN]) /\ Len(log') = Len(log) + 1 /\ Len(log) \in Nat
      /\ Grows
  BY <1>1, <1>2, <1>3 DEF Grows
<1>5. StreamTypes' /\ InLog' /\ Connected'
  BY <1>1, <1>4, ReaderTypes DEF ReaderInv, StreamTypes, InLog, Connected
<1>6. \A c \in Readers : Follower(c)'
  <2> TAKE c \in Readers
  <2>1. Follower(c)
    BY DEF ReaderInv
  <2> QED
    BY <1>1, <1>4, <2>1, ReaderStays DEF Follower
<1> QED
  BY <1>5, <1>6 DEF ReaderInv

\* A stream writes its next event: the first its reader has not got.
LEMMA DeliverReaders ==
    ASSUME ReaderInv, NEW i \in Streams, Deliver(i)
    PROVE  ReaderInv'
<1>0. PICK c \in Readers : c = owner[i]
  BY DEF Deliver, ReaderInv, Connected
<1>3. PICK k : k = First(Ahead(i))
  OBVIOUS
<1>1. /\ phase[i] = "open" /\ UNCHANGED <<log, owner, status, via, after, start, got>>
      /\ cursor' = [cursor EXCEPT ![i] = k]
      /\ fetched' = [fetched EXCEPT ![i] = IF k <= fetched[i] THEN fetched[i] ELSE PageEnd(fetched[i], k)]
      /\ wire' = IF via[c] = i THEN [wire EXCEPT ![c] = Append(wire[c], k)] ELSE wire
      /\ phase' = phase \/ phase' = [phase EXCEPT ![i] = "ended"]
  BY <1>0, <1>3 DEF Deliver, EndStream, session
<1>2. k \in Ahead(i) /\ \A j \in Ahead(i) : k <= j
  <2>1. Ahead(i) # {} /\ Ahead(i) \in SUBSET Nat
    BY ReaderTypes DEF Deliver
  <2> QED
    BY <1>3, <2>1, FirstIsLeast
<1>4. k \in Mine(c) /\ k \in 1..Len(log) /\ cursor[i] < k /\ k <= Readable(i)
  BY <1>0, <1>2, ReaderTypes DEF Ahead
<1>5. PageEnd(fetched[i], k) \in k..Len(log)
  BY <1>4, ReaderTypes, PageInLog DEF ReaderInv, StreamTypes
<1> DEFINE page == IF k <= fetched[i] THEN fetched[i] ELSE PageEnd(fetched[i], k)
<1>6. page \in Nat /\ k <= page /\ page <= Len(log) /\ fetched' = [fetched EXCEPT ![i] = page]
  BY <1>1, <1>4, <1>5, ReaderTypes
<1> HIDE DEF page
<1>7. InLog' /\ cursor' \in [Streams -> Nat] /\ fetched' \in [Streams -> Nat]
  BY <1>1, <1>4, <1>6 DEF ReaderInv, StreamTypes, InLog
<1>8. wire' \in [Readers -> Seq(Nat)]
  <2>1. Append(wire[c], k) \in Seq(Nat)
    BY <1>4, ReaderTypes
  <2> QED
    BY <1>1, <2>1 DEF ReaderInv, StreamTypes
<1>9. /\ phase' \in [Streams -> {"free", "open", "ended"}]
      /\ \A j \in Streams : phase'[j] # "free" <=> phase[j] # "free"
  BY <1>1 DEF ReaderInv, StreamTypes
<1>10. StreamTypes'
  BY <1>1, <1>7, <1>8, <1>9 DEF ReaderInv, StreamTypes
<1>11. Connected'
  BY <1>1, <1>9 DEF ReaderInv, StreamTypes, Connected
<1>12. Grows
  BY <1>1, ReaderTypes DEF Grows
<1>13. ASSUME NEW d \in Readers, via[d] # i
       PROVE  Follower(d)'
  <2>1. wire'[d] = wire[d]
    BY <1>1, <1>13 DEF ReaderInv, StreamTypes
  <2>2. via[d] # None => cursor'[via[d]] = cursor[via[d]]
    BY <1>1, <1>13 DEF ReaderInv, StreamTypes
  <2>3. status[d] # "reading" => wire[d] = <<>>
    BY DEF ReaderInv, Follower
  <2> QED
    BY <1>1, <1>12, <2>1, <2>2, <2>3, ReaderStays
<1>14. ASSUME via[c] = i
       PROVE  Follower(c)'
  <2>1. Follower(c) /\ after[c] \in Nat /\ wire[c] \in Seq(Nat) /\ i # None
    BY ReaderTypes, StreamAssumption DEF ReaderInv
  <2>2. cursor[i] \in after[c]..Len(log) /\ Lists(wire[c], Unread(c, cursor[i]))
    BY <1>14, <2>1 DEF Follower, OnTheWire
  <2>3. Unread(c, k) = Unread(c, cursor[i]) \cup {k}
    <3>1. \A j \in Mine(c) : cursor[i] < j /\ j <= k => j = k
      <4> SUFFICES ASSUME NEW j \in Mine(c), cursor[i] < j, j <= k
                   PROVE  j = k
        OBVIOUS
      <4>1. j \in 1..Len(log)
        BY ReaderTypes
      <4>2. j \in Ahead(i)
        BY <1>0, <1>4, <4>1, ReaderTypes DEF Ahead
      <4> QED
        BY <1>2, <1>4, <4>1, <4>2
    <3>2. \A j \in Mine(c) : j \in Nat
      BY ReaderTypes
    <3> QED
      BY <1>4, <2>1, <2>2, <3>1, <3>2, ReaderTypes DEF Unread
  <2>4. Unread(c, cursor[i]) \in SUBSET Nat /\ \A j \in Unread(c, cursor[i]) : j < k
    BY <1>4, ReaderTypes DEF Unread
  <2>5. Lists(Append(wire[c], k), Unread(c, k))
    BY <1>4, <2>1, <2>2, <2>3, <2>4, ListsMore
  <2>6. wire'[c] = Append(wire[c], k) /\ cursor'[i] = k
    BY <1>1, <1>14 DEF ReaderInv, StreamTypes
  <2>7. k \in after[c]..Len(log)
    BY <1>4, <2>1, <2>2, ReaderTypes
  <2>8. OnTheWire(c)'
    <3>1. {j \in Mine(c)' : after'[c] < j /\ j <= k} = Unread(c, k)
      BY <1>1 DEF Unread, Mine, Seqs
    <3>2. Lists(wire'[c], {j \in Mine(c)' : after'[c] < j /\ j <= k})
      BY <2>5, <2>6, <3>1
    <3>3. k \in after'[c]..Len(log') /\ via'[c] = i
      BY <1>1, <1>14, <2>7
    <3> QED
      BY <2>6, <3>2, <3>3 DEF OnTheWire, Unread
  <2>9. status[c] = "reading"
    BY <1>14, <2>1 DEF ReaderInv, Connected
  <2> QED
    BY <1>1, <2>1, <2>8, <2>9 DEF Follower, Mine, Seqs
<1>15. \A d \in Readers : via[d] = i => d = c
  BY <1>0, StreamAssumption DEF ReaderInv, Connected
<1> QED
  BY <1>7, <1>10, <1>11, <1>13, <1>14, <1>15 DEF ReaderInv

\* A stream passes over what is not its own.
LEMMA SkipReaders ==
    ASSUME ReaderInv, NEW i \in Streams, Skip(i)
    PROVE  ReaderInv'
<1>1. /\ UNCHANGED <<log, owner, status, via, wire, after, start, got>>
      /\ \/ phase' = phase
         \/ phase' = [phase EXCEPT ![i] = "ended"] /\ phase[i] = "open"
  BY DEF Skip, EndStream, session
<1>2. \/ UNCHANGED <<cursor, fetched>>
      \/ /\ phase[i] = "open" /\ Ahead(i) = {}
         /\ cursor' = [cursor EXCEPT ![i] = Readable(i)]
         /\ fetched' = [fetched EXCEPT ![i] = Readable(i)]
  BY DEF Skip
<1>3. /\ phase' \in [Streams -> {"free", "open", "ended"}]
      /\ \A j \in Streams : phase'[j] # "free" <=> phase[j] # "free"
  BY <1>1 DEF ReaderInv, StreamTypes
<1>4. StreamTypes' /\ InLog'
  <2>1. /\ cursor' \in [Streams -> Nat] /\ fetched' \in [Streams -> Nat]
        /\ \A j \in Streams : cursor'[j] <= fetched'[j] /\ fetched'[j] <= Len(log)
    <3>1. CASE UNCHANGED <<cursor, fetched>>
      BY <3>1 DEF ReaderInv, StreamTypes, InLog
    <3>2. CASE /\ cursor' = [cursor EXCEPT ![i] = Readable(i)]
               /\ fetched' = [fetched EXCEPT ![i] = Readable(i)]
      <4>1. Readable(i) \in Nat /\ Readable(i) <= Len(log)
        BY ReaderTypes
      <4> QED
        BY <3>2, <4>1 DEF ReaderInv, StreamTypes, InLog
    <3> QED
      BY <1>2, <3>1, <3>2
  <2> QED
    BY <1>1, <1>3, <2>1 DEF ReaderInv, StreamTypes, InLog
<1>5. Connected'
  BY <1>1, <1>3 DEF ReaderInv, StreamTypes, Connected
<1>6. Grows
  BY <1>1, ReaderTypes DEF Grows
<1>7. ASSUME NEW d \in Readers, via[d] # i \/ UNCHANGED cursor
      PROVE  Follower(d)'
  <2>1. via[d] # None => cursor'[via[d]] = cursor[via[d]]
    BY <1>2, <1>7 DEF ReaderInv, StreamTypes
  <2>2. status[d] # "reading" => wire[d] = <<>>
    BY DEF ReaderInv, Follower
  <2> QED
    BY <1>1, <1>6, <2>1, <2>2, ReaderStays
<1>8. ASSUME NEW c \in Readers, via[c] = i, ~UNCHANGED cursor
      PROVE  Follower(c)'
  <2>1. /\ Follower(c) /\ after[c] \in Nat /\ i # None /\ owner[i] = c
    BY <1>8, ReaderTypes, StreamAssumption DEF ReaderInv, Connected
  <2>2. cursor[i] \in after[c]..Len(log) /\ Lists(wire[c], Unread(c, cursor[i]))
    BY <1>8, <2>1 DEF Follower, OnTheWire
  <2>3. Ahead(i) = {} /\ cursor'[i] = Readable(i)
    BY <1>2, <1>8, ReaderTypes DEF ReaderInv, StreamTypes
  <2>4. Unread(c, Readable(i)) = Unread(c, cursor[i])
    BY <2>1, <2>2, <2>3, ReaderTypes DEF Unread, Ahead
  <2>5. Readable(i) \in after[c]..Len(log)
    BY <2>1, <2>2, ReaderTypes
  <2>6. OnTheWire(c)'
    <3>1. Lists(wire[c], Unread(c, Readable(i)))
      BY <2>2, <2>4
    <3> QED
      BY <1>1, <1>8, <2>3, <2>5, <3>1 DEF OnTheWire, Unread, Mine, Seqs
  <2> QED
    BY <1>1, <2>1, <2>6 DEF Follower, Mine, Seqs
<1> QED
  BY <1>4, <1>5, <1>7, <1>8 DEF ReaderInv

\* A request is granted: the stream begins behind the last event its reader has seen.
LEMMA OpenReaders ==
    ASSUME ReaderInv, NEW c \in Readers, NEW i \in Streams, Open(c, i)
    PROVE  ReaderInv'
<1>1. /\ status[c] = "pausing" /\ phase[i] = "free" /\ UNCHANGED <<log, after, start, got>>
      /\ phase' = [phase EXCEPT ![i] = "open"] /\ owner' = [owner EXCEPT ![i] = c]
      /\ cursor' = [cursor EXCEPT ![i] = after[c]] /\ fetched' = [fetched EXCEPT ![i] = after[c]]
      /\ status' = [status EXCEPT ![c] = "reading"] /\ via' = [via EXCEPT ![c] = i]
      /\ wire' = [wire EXCEPT ![c] = <<>>]
  BY DEF Open, session
<1>2. after[c] \in Nat /\ after[c] <= Len(log) /\ Follower(c)
  BY ReaderTypes DEF ReaderInv, Follower, OnTheWire
<1>3. /\ cursor' \in [Streams -> Nat] /\ fetched' \in [Streams -> Nat] /\ InLog'
  BY <1>1, <1>2 DEF ReaderInv, StreamTypes, InLog
<1>4. StreamTypes'
  BY <1>1, <1>3 DEF ReaderInv, StreamTypes
<1>5. i # None /\ c # None
  BY StreamAssumption
<1>6. Connected'
  <2>1. \A j \in Streams : phase'[j] # "free" => owner'[j] \in Readers
    BY <1>1 DEF ReaderInv, StreamTypes, Connected
  <2>2. ASSUME NEW d \in Readers, via'[d] # None
        PROVE  status'[d] = "reading" /\ phase'[via'[d]] # "free" /\ owner'[via'[d]] = d
    <3>1. CASE d = c
      BY <1>1, <3>1 DEF ReaderInv, StreamTypes
    <3>2. CASE d # c
      <4>1. via'[d] = via[d] /\ status'[d] = status[d] /\ via[d] \in Streams
        BY <1>1, <2>2, <3>2 DEF ReaderInv, StreamTypes
      <4>2. status[d] = "reading" /\ phase[via[d]] # "free" /\ owner[via[d]] = d
        BY <2>2, <4>1 DEF ReaderInv, Connected
      <4>3. via[d] # i
        BY <1>1, <4>2
      <4> QED
        BY <1>1, <4>1, <4>2, <4>3 DEF ReaderInv, StreamTypes
    <3> QED
      BY <3>1, <3>2
  <2> QED
    BY <2>1, <2>2 DEF Connected
<1>7. Grows
  BY <1>1, ReaderTypes DEF Grows
<1>8. ASSUME NEW d \in Readers, d # c
      PROVE  Follower(d)'
  <2>1. wire'[d] = wire[d] /\ status'[d] = status[d] /\ via'[d] = via[d]
    BY <1>1, <1>8 DEF ReaderInv, StreamTypes
  <2>2. via[d] # None => cursor'[via[d]] = cursor[via[d]]
    BY <1>1 DEF ReaderInv, StreamTypes, Connected
  <2>3. status[d] # "reading" => wire[d] = <<>>
    BY DEF ReaderInv, Follower
  <2> QED
    BY <1>1, <1>7, <2>1, <2>2, <2>3, ReaderStays
<1>9. Follower(c)'
  <2>1. wire'[c] = <<>> /\ status'[c] = "reading" /\ via'[c] = i /\ cursor'[i] = after[c]
    BY <1>1 DEF ReaderInv, StreamTypes
  <2>2. {k \in Mine(c)' : after'[c] < k /\ k <= after[c]} = {}
    BY <1>1, <1>2, ReaderTypes DEF Mine, Seqs
  <2>3. after[c] \in after'[c]..Len(log')
    BY <1>1, <1>2, ReaderTypes
  <2>4. OnTheWire(c)'
    BY <2>1, <2>2, <2>3, ListsNothing DEF OnTheWire, Unread
  <2> QED
    BY <1>1, <1>2, <2>1, <2>4 DEF Follower, Mine, Seqs
<1> QED
  BY <1>3, <1>4, <1>6, <1>8, <1>9 DEF ReaderInv

\* A response is closed; what it wrote may still be on its way.
LEMMA CloseReaders ==
    ASSUME ReaderInv, NEW i \in Streams, Close(i)
    PROVE  ReaderInv'
<1>1. phase[i] # "free"
  BY DEF Close
<1>2. PICK c \in Readers : c = owner[i]
  BY <1>1 DEF ReaderInv, Connected
<1>3. /\ UNCHANGED <<log, cursor, fetched, status, wire, after, start, got>>
      /\ phase' = [phase EXCEPT ![i] = "free"] /\ owner' = [owner EXCEPT ![i] = None]
      /\ via' = IF via[c] = i THEN [via EXCEPT ![c] = None] ELSE via
  BY <1>2 DEF Close, session
<1>4. StreamTypes' /\ InLog'
  BY <1>3 DEF ReaderInv, StreamTypes, InLog
<1>5. \A d \in Readers : via'[d] # None => via'[d] = via[d] /\ via[d] # i
  <2>1. via \in [Readers -> Streams \cup {None}]
    BY DEF ReaderInv, StreamTypes
  <2>2. \A d \in Readers : via[d] = i => d = c
    BY <1>2, StreamAssumption DEF ReaderInv, Connected
  <2>3. \A d \in Readers : via'[d] = IF d = c /\ via[c] = i THEN None ELSE via[d]
    BY <1>2, <1>3, <2>1
  <2> QED
    BY <2>2, <2>3
<1>6. Connected'
  BY <1>3, <1>5 DEF ReaderInv, StreamTypes, Connected
<1>7. Grows
  BY <1>3, ReaderTypes DEF Grows
<1>8. \A d \in Readers : status[d] # "reading" => wire[d] = <<>>
  BY DEF ReaderInv, Follower
<1>9. \A d \in Readers : Follower(d)'
  BY <1>3, <1>5, <1>7, <1>8, ReaderStays
<1> QED
  BY <1>4, <1>6, <1>9 DEF ReaderInv

\* A reader begins, behind an event it may have from before.
LEMMA BeginReaders ==
    ASSUME ReaderInv, NEW c \in Readers, NEW k \in 0..MaxEvents, Begin(c, k)
    PROVE  ReaderInv'
<1>1. /\ status[c] = "new" /\ k \in 0..Len(log)
      /\ UNCHANGED <<log, phase, owner, cursor, fetched, via, wire, got>>
      /\ status' = [status EXCEPT ![c] = "pausing"] /\ start' = [start EXCEPT ![c] = k]
      /\ after' = [after EXCEPT ![c] = k]
  BY DEF Begin, session, streams
<1>2. k \in Nat /\ Len(log) \in Nat /\ k <= Len(log) /\ Follower(c)
  BY <1>1, ReaderTypes DEF ReaderInv
<1>3. wire[c] = <<>> /\ via[c] = None /\ got[c] = {}
  BY <1>1, <1>2 DEF ReaderInv, Connected, Follower
<1>4. StreamTypes' /\ InLog' /\ Connected'
  BY <1>1, <1>2, <1>3 DEF ReaderInv, StreamTypes, InLog, Connected
<1>5. Grows
  BY <1>1, ReaderTypes DEF Grows
<1>6. ASSUME NEW d \in Readers, d # c
      PROVE  Follower(d)'
  <2>1. after'[d] = after[d] /\ status'[d] = status[d] /\ start'[d] = start[d]
    BY <1>1, <1>6 DEF ReaderInv, StreamTypes
  <2>2. status[d] # "reading" => wire[d] = <<>>
    BY DEF ReaderInv, Follower
  <2> QED
    BY <1>1, <1>5, <2>1, <2>2, ReaderStays
<1>7. Follower(c)'
  <2>1. after'[c] = k /\ start'[c] = k /\ status'[c] = "pausing"
    BY <1>1 DEF ReaderInv, StreamTypes
  <2>2. {j \in Mine(c)' : k < j /\ j <= k} = {}
    BY <1>1, <1>2 DEF Mine, Seqs
  <2>3. k \in k..Len(log')
    BY <1>1, <1>2
  <2>4. OnTheWire(c)'
    <3>1. Unread(c, k)' = {}
      BY <2>1, <2>2 DEF Unread
    <3>2. wire'[c] = <<>> /\ via'[c] = None /\ k \in after'[c]..Len(log')
      BY <1>1, <1>3, <2>1, <2>3
    <3>3. Lists(wire'[c], {})
      BY <3>2, ListsNothing
    <3> QED
      BY <1>1, <3>1, <3>2, <3>3 DEF OnTheWire
  <2> QED
    BY <1>1, <1>2, <1>3, <2>1, <2>2, <2>4 DEF Follower
<1> QED
  BY <1>4, <1>6, <1>7 DEF ReaderInv

\* A reader takes the next event off the wire: the first of those it has not seen.
LEMMA ReadReaders ==
    ASSUME ReaderInv, NEW c \in Readers, Read(c)
    PROVE  ReaderInv'
<1>1. wire[c] # <<>> /\ wire[c] \in Seq(Nat) /\ after[c] \in Nat /\ start[c] \in Nat /\ Follower(c)
  BY ReaderTypes DEF Read, ReaderInv
<1>2. PICK k : k = Head(wire[c])
  OBVIOUS
<1>3. PICK m \in after[c]..Len(log) : /\ via[c] # None => cursor[via[c]] = m
                                      /\ Lists(wire[c], Unread(c, m))
  BY <1>1 DEF Follower, OnTheWire
<1>4. Unread(c, m) \in SUBSET Nat
  BY ReaderTypes DEF Unread
<1>5. /\ k \in Unread(c, m) /\ \A j \in Unread(c, m) : k <= j
      /\ Lists(Tail(wire[c]), Unread(c, m) \ {k})
  BY <1>1, <1>2, <1>3, <1>4, ListsLess
<1>6. k \in Mine(c) /\ k \in Nat /\ after[c] < k /\ k <= m
  BY <1>4, <1>5 DEF Unread
<1>7. /\ UNCHANGED <<log, phase, owner, cursor, fetched, via, status, start>>
      /\ wire' = [wire EXCEPT ![c] = Tail(wire[c])]
      /\ after' = [after EXCEPT ![c] = k]
      /\ got' = [got EXCEPT ![c] = got[c] \cup {k}]
  BY <1>2, <1>6 DEF Read, Seen, session, streams
<1>8. Tail(wire[c]) \in Seq(Nat)
  BY <1>1
<1>9. StreamTypes' /\ InLog' /\ Connected'
  BY <1>6, <1>7, <1>8 DEF ReaderInv, StreamTypes, InLog, Connected
<1>10. Grows
  BY <1>7, ReaderTypes DEF Grows
<1>11. ASSUME NEW d \in Readers, d # c
       PROVE  Follower(d)'
  <2>1. after'[d] = after[d] /\ wire'[d] = wire[d] /\ got'[d] = got[d]
    BY <1>7, <1>11 DEF ReaderInv, StreamTypes
  <2>2. status[d] # "reading" => wire[d] = <<>>
    BY DEF ReaderInv, Follower
  <2> QED
    BY <1>7, <1>10, <2>1, <2>2, ReaderStays
<1>12. Follower(c)'
  <2>1. wire'[c] = Tail(wire[c]) /\ after'[c] = k /\ got'[c] = got[c] \cup {k}
    BY <1>7 DEF ReaderInv, StreamTypes
  <2>2. m \in k..Len(log) /\ m \in Nat /\ \A j \in Mine(c) : j \in Nat
    BY <1>3, <1>6, ReaderTypes
  <2>3. {j \in Mine(c) : k < j /\ j <= m} = Unread(c, m) \ {k}
    <3>1. \A j \in Mine(c) : k < j <=> after[c] < j /\ k <= j /\ j # k
      BY <1>1, <1>6, <2>2, Beyond
    <3>2. \A j \in Mine(c) : after[c] < j /\ j <= m => k <= j
      BY <1>5 DEF Unread
    <3>3. \A j \in Mine(c) : k < j /\ j <= m <=> after[c] < j /\ j <= m /\ j # k
      BY <3>1, <3>2
    <3> QED
      BY <3>3 DEF Unread
  <2>4. OnTheWire(c)'
    <3>1. {j \in Mine(c)' : after'[c] < j /\ j <= m} = Unread(c, m) \ {k}
      BY <1>7, <2>1, <2>3 DEF Mine, Seqs
    <3>2. Lists(wire'[c], {j \in Mine(c)' : after'[c] < j /\ j <= m})
      BY <1>5, <2>1, <3>1
    <3>3. m \in after'[c]..Len(log') /\ (via'[c] # None => cursor'[via'[c]] = m)
      BY <1>3, <1>7, <2>1, <2>2
    <3> QED
      BY <3>2, <3>3 DEF OnTheWire, Unread
  <2>5. got'[c] = {j \in Mine(c)' : start'[c] < j /\ j <= after'[c]}
    <3>1. \A j \in Mine(c) : after[c] < j /\ j <= k => j = k
      <4> SUFFICES ASSUME NEW j \in Mine(c), after[c] < j, j <= k
                   PROVE  j = k
        OBVIOUS
      <4>1. j <= m
        BY <1>6, <2>2
      <4>2. k <= j
        BY <1>5, <4>1 DEF Unread
      <4> QED
        BY <1>6, <2>2, <4>2
    <3>2. got[c] = {j \in Mine(c) : start[c] < j /\ j <= after[c]} /\ start[c] <= after[c]
      BY <1>1 DEF Follower
    <3>3. \A j \in Mine(c) : start[c] < j /\ j <= k
                             <=> (start[c] < j /\ j <= after[c]) \/ j = k
      <4> TAKE j \in Mine(c)
      <4>1. j \in Nat /\ after[c] \in Nat /\ start[c] \in Nat
        BY <1>1, <2>2
      <4>2. after[c] < j /\ j <= k => j = k
        BY <3>1
      <4> QED
        BY <1>6, <3>2, <4>1, <4>2
    <3>4. {j \in Mine(c) : start[c] < j /\ j <= k} = got[c] \cup {k}
      BY <1>6, <3>2, <3>3
    <3> QED
      BY <1>7, <2>1, <3>4 DEF Mine, Seqs
  <2>6. start'[c] <= after'[c] /\ status'[c] = "reading"
    BY <1>1, <1>6, <1>7, <2>1 DEF Follower, Read
  <2> QED
    BY <2>4, <2>5, <2>6 DEF Follower
<1> QED
  BY <1>9, <1>11, <1>12 DEF ReaderInv

\* A reader leaves its stream, which ended or was lost with what was on its way.
LEMMA LeaveReaders ==
    ASSUME ReaderInv, NEW c \in Readers, status[c] = "reading", Leave(c), UNCHANGED <<session, streams>>
    PROVE  ReaderInv'
<1>1. /\ UNCHANGED <<log, phase, owner, cursor, fetched, after, start, got>>
      /\ via' = [via EXCEPT ![c] = None] /\ wire' = [wire EXCEPT ![c] = <<>>]
      /\ \E s \in {"returned", "pausing"} : status' = [status EXCEPT ![c] = s]
  BY DEF Leave, session, streams
<1>2. \A d \in Readers : status[d] # "reading" => wire[d] = <<>>
  BY DEF ReaderInv, Follower
<1>3. StreamTypes' /\ InLog' /\ Connected' /\ Grows
  BY <1>1, ReaderTypes DEF ReaderInv, StreamTypes, InLog, Connected, Grows
<1>4. /\ via'[c] = None /\ wire'[c] = <<>> /\ status'[c] # "new"
      /\ \A d \in Readers : d # c => /\ via'[d] = via[d] /\ wire'[d] = wire[d]
                                     /\ status'[d] = status[d]
  BY <1>1 DEF ReaderInv, StreamTypes
<1>5. Follower(c)'
  BY <1>1, <1>4, ReaderLeaves
<1>6. \A d \in Readers : d # c => Follower(d)'
  BY <1>1, <1>2, <1>3, <1>4, ReaderStays
<1> QED
  BY <1>3, <1>5, <1>6 DEF ReaderInv

LEMMA RestartReaders ==
    ASSUME ReaderInv, Restart
    PROVE  ReaderInv'
<1>1. /\ UNCHANGED <<log, cursor, fetched, after, start, got>>
      /\ phase' = [i \in Streams |-> "free"] /\ owner' = [i \in Streams |-> None]
      /\ status' = [c \in Readers |-> IF status[c] # "reading" THEN status[c]
                                      ELSE IF saw[c] THEN "returned" ELSE "pausing"]
      /\ via' = [c \in Readers |-> None] /\ wire' = [c \in Readers |-> <<>>]
  BY DEF Restart, session
<1>2. StreamTypes' /\ InLog' /\ Connected' /\ Grows
  BY <1>1, ReaderTypes DEF ReaderInv, StreamTypes, InLog, Connected, Grows
<1>3. ASSUME NEW c \in Readers
      PROVE  Follower(c)'
  <2>1. via'[c] = None /\ wire'[c] = <<>>
    BY <1>1
  <2>2. CASE status[c] = "reading"
    <3>1. status'[c] # "new"
      BY <1>1, <2>2
    <3> QED
      BY <1>1, <2>1, <3>1, ReaderLeaves
  <2>3. CASE status[c] # "reading"
    <3>1. status'[c] = status[c] /\ wire[c] = <<>>
      BY <1>1, <2>3 DEF ReaderInv, Follower
    <3> QED
      BY <1>1, <1>2, <2>1, <2>3, <3>1, ReaderStays
  <2> QED
    BY <2>2, <2>3
<1> QED
  BY <1>2, <1>3 DEF ReaderInv

\* Steps that readers and their streams do not notice.
LEMMA UnnoticedReaders ==
    ASSUME ReaderInv, UNCHANGED <<log, streams, via, wire, after, start, got>>,
           \/ UNCHANGED status
           \/ \E c \in Readers, s \in {"not_found", "too_many"} :
                status[c] = "pausing" /\ status' = [status EXCEPT ![c] = s]
    PROVE  ReaderInv'
<1>1. UNCHANGED <<phase, owner, cursor, fetched>>
  BY DEF streams
<1>2. /\ status' \in [Readers -> {"new", "pausing", "reading", "returned", "not_found", "too_many"}]
      /\ \A d \in Readers : status[d] = "reading" <=> status'[d] = "reading"
  <2>1. CASE UNCHANGED status
    BY <2>1 DEF ReaderInv, StreamTypes
  <2>2. CASE \E c \in Readers, s \in {"not_found", "too_many"} :
               status[c] = "pausing" /\ status' = [status EXCEPT ![c] = s]
    BY <2>2 DEF ReaderInv, StreamTypes
  <2> QED
    BY <2>1, <2>2
<1>3. StreamTypes' /\ InLog' /\ Grows
  BY <1>1, <1>2, ReaderTypes DEF ReaderInv, StreamTypes, InLog, Grows
<1>4. Connected'
  BY <1>1, <1>2 DEF ReaderInv, Connected
<1>5. \A d \in Readers : /\ status'[d] # "reading" => wire[d] = <<>>
                         /\ status'[d] = "new" => status[d] = "new"
  BY DEF ReaderInv, StreamTypes, Follower
<1>6. \A d \in Readers : Follower(d)'
  BY <1>1, <1>3, <1>5, ReaderStays
<1> QED
  BY <1>3, <1>4, <1>6 DEF ReaderInv

LEMMA EveryStepReaders ==
    ASSUME ReaderInv, [Next]_vars, Attempt => Current \in Streams
    PROVE  ReaderInv'
<1>1. CASE Engine
  <2>1. CASE RemoveEvents
    BY <2>1, UnnoticedReaders DEF RemoveEvents, streams, reader
  <2>2. CASE \E r \in Runs : Emit(r) \/ Complete(r) \/ LateDecision(r)
    BY <2>2, AppendReaders DEF Emit, Complete, LateDecision
  <2> QED
    BY <1>1, <2>1, <2>2 DEF Engine
<1>2. CASE Attempt
  BY <1>2, DeliverReaders, SkipReaders DEF Attempt
<1>3. CASE Wake \/ TimerFires
  BY <1>3, UnnoticedReaders DEF Wake, TimerFires, session, reader
<1>4. CASE Tick \/ UNCHANGED vars
  BY <1>4, UnnoticedReaders DEF Tick, vars, session, reader
<1>5. CASE \E c \in Readers : Refused(c)
  <2>1. PICK c \in Readers : Refused(c)
    BY <1>5
  <2>2. Refuse(c, "not_found") \/ Refuse(c, "too_many")
    BY <2>1 DEF Refused
  <2>3. /\ UNCHANGED <<log, streams, via, wire, after, start, got>>
        /\ \E s \in {"not_found", "too_many"} : status' = [status EXCEPT ![c] = s]
    BY <2>2 DEF Refuse, session
  <2>4. status[c] = "pausing"
    BY <2>1 DEF Refused
  <2> QED
    BY <2>3, <2>4, UnnoticedReaders
<1>6. CASE (\E c \in Readers, i \in Streams : Open(c, i)) \/ \E i \in Streams : Close(i)
  BY <1>6, OpenReaders, CloseReaders
<1>7. CASE Restart
  BY <1>7, RestartReaders
<1>8. CASE Reading
  <2>1. CASE \E c \in Readers : EndOfStream(c) \/ Drop(c)
    BY <2>1, LeaveReaders DEF EndOfStream, Drop
  <2>2. CASE (\E c \in Readers, k \in 0..MaxEvents : Begin(c, k)) \/ \E c \in Readers : Read(c)
    BY <2>2, BeginReaders, ReadReaders
  <2> QED
    BY <1>8, <2>1, <2>2 DEF Reading
<1> QED
  BY <1>1, <1>2, <1>3, <1>4, <1>5, <1>6, <1>7, <1>8 DEF Next, Server

-----------------------------------------------------------------------------
(* The pacer: an inductive invariant.                                      *)

PacerTypes ==
    /\ sinks \in Seq(Streams) /\ turn \in Nat /\ trying \in 0..Len(sinks)
    /\ sent \in Seq(0..Window) /\ recent \in Seq(0..Window)

\* The sinks are the streams that are not closed, each once.
Subscribed ==
    /\ \A i \in Streams : phase[i] # "free" <=> \E n \in 1..Len(sinks) : sinks[n] = i
    /\ \A n, p \in 1..Len(sinks) : sinks[n] = sinks[p] => n = p

\* The window knows of every delivery of the last second, and perhaps of some before those.
Remembers ==
    \E more \in Nat :
        /\ Len(sent) = more + Len(recent)
        /\ \A n \in 1..more : sent[n] >= Window
        /\ \A n \in 1..Len(recent) : sent[more + n] = recent[n] /\ recent[n] < Window
        /\ \A n, p \in 1..Len(recent) : n <= p => recent[p] <= recent[n]

Within ==
    /\ Len(sent) <= Limit
    /\ trying > 0 => Len(sent) < Limit /\ ~woken

\* While the pump goes round, a stream with something to send is still to be tried; when it
\* has gone round there is none, unless it was interrupted or the allowance is used up.
YetToTry ==
    \A i \in Streams : phase[i] = "open" /\ Ahead(i) # {} =>
        \/ \E j \in 0..(trying - 1) : sinks[((turn + j) % Len(sinks)) + 1] = i
        \/ trying = 0 /\ (woken \/ (timer /\ Len(sent) >= Limit))

PacerInv == PacerTypes /\ Subscribed /\ Remembers /\ Within /\ YetToTry

-----------------------------------------------------------------------------
(* The pacer: its window.                                                  *)

\* What leaves the window is what is too old, up to the first that is not.
LEMMA YoungOnes ==
    ASSUME NEW ages \in Seq(Nat)
    PROVE  \E gone \in 0..Len(ages) :
               /\ \A k \in 1..gone : ages[k] >= Window
               /\ gone < Len(ages) => ages[gone + 1] < Window
               /\ Young(ages) = [n \in 1..(Len(ages) - gone) |-> ages[gone + n]]
<1> DEFINE L == Len(ages)
           Stays(n) == /\ \A k \in 1..n : ages[k] >= Window
                       /\ n < L => ages[n + 1] < Window
           T == {n \in 0..L : n = L \/ ages[n + 1] < Window}
           gone == CHOOSE n \in 0..L : Stays(n)
<1> HIDE DEF gone
<1>1. L \in Nat /\ Window \in Nat /\ \A k \in 1..L : ages[k] \in Nat
  BY StreamAssumption
<1>2. T \in SUBSET Nat /\ L \in T
  BY <1>1
<1>3. PICK x \in T : \A y \in T : x <= y
  BY <1>2, Smallest
<1>4. \A k \in 1..x : ages[k] >= Window
  <2> TAKE k \in 1..x
  <2>1. x \in 0..L /\ x \in Nat /\ k \in 1..L /\ k - 1 \in 0..L /\ ~(x <= k - 1)
    BY <1>1, <1>3
  <2>2. ~(ages[(k - 1) + 1] < Window)
    BY <1>3, <2>1
  <2>3. (k - 1) + 1 = k
    OBVIOUS
  <2> QED
    BY <1>1, <2>1, <2>2, <2>3
<1>5. x \in 0..L /\ Stays(x)
  BY <1>1, <1>3, <1>4
<1>6. gone \in 0..L /\ Stays(gone)
  <2> HIDE DEF Stays
  <2> QED
    BY <1>5 DEF gone
<1>7. Young(ages) = [n \in 1..(L - gone) |-> ages[gone + n]]
  BY DEF Young, gone
<1> QED
  BY <1>6, <1>7

LEMMA AllOfThem ==
    ASSUME NEW S, NEW m \in Nat, NEW f \in [1..m -> S]
    PROVE  f \in Seq(S) /\ Len(f) = m
OBVIOUS

\* After the old ones have left, the window holds what is allowed for.
LEMMA YoungSent ==
    ASSUME PacerTypes, Remembers
    PROVE  Young(sent) = recent
<1>1. /\ sent \in Seq(Nat) /\ Len(sent) \in Nat /\ Len(recent) \in Nat
      /\ Window \in Nat /\ \A n \in 1..Len(recent) : recent[n] \in Nat
  BY StreamAssumption DEF PacerTypes
<1>2. PICK more \in Nat :
          /\ Len(sent) = more + Len(recent)
          /\ \A n \in 1..more : sent[n] >= Window
          /\ \A n \in 1..Len(recent) : sent[more + n] = recent[n] /\ recent[n] < Window
  BY DEF Remembers
<1>3. PICK gone \in 0..Len(sent) :
          /\ \A k \in 1..gone : sent[k] >= Window
          /\ gone < Len(sent) => sent[gone + 1] < Window
          /\ Young(sent) = [n \in 1..(Len(sent) - gone) |-> sent[gone + n]]
  BY <1>1, YoungOnes
<1>4. ~(gone < more)
  <2> SUFFICES ASSUME gone < more
               PROVE  FALSE
    OBVIOUS
  <2>1. gone + 1 \in 1..more /\ gone < Len(sent) /\ gone + 1 \in 1..Len(sent)
    BY <1>1, <1>2, <1>3
  <2>2. sent[gone + 1] \in Nat
    BY <1>1, <2>1
  <2> QED
    BY <1>1, <1>2, <1>3, <2>1, <2>2
<1>5. ~(gone > more)
  <2> SUFFICES ASSUME gone > more
               PROVE  FALSE
    OBVIOUS
  <2>1. more + 1 \in 1..gone /\ 1 \in 1..Len(recent)
    BY <1>1, <1>2, <1>3
  <2>2. sent[more + 1] >= Window /\ sent[more + 1] = recent[1] /\ recent[1] < Window
    BY <1>2, <1>3, <2>1
  <2> QED
    BY <1>1, <2>1, <2>2
<1>6. gone = more
  BY <1>1, <1>2, <1>3, <1>4, <1>5
<1>7. Young(sent) = [n \in 1..Len(recent) |-> recent[n]]
  <2>1. Len(sent) - gone = Len(recent)
    BY <1>1, <1>2, <1>6
  <2>2. \A n \in 1..Len(recent) : sent[gone + n] = recent[n]
    BY <1>2, <1>6
  <2> QED
    BY <1>3, <2>1, <2>2
<1>8. recent = [n \in 1..Len(recent) |-> recent[n]]
  BY DEF PacerTypes
<1> QED
  BY <1>7, <1>8

\* Time passes.
LEMMA TickWindow ==
    ASSUME PacerTypes, Remembers, Tick
    PROVE  /\ sent' \in Seq(0..Window) /\ recent' \in Seq(0..Window)
           /\ Len(sent') = Len(sent) /\ Remembers'
<1> DEFINE aged == [n \in DOMAIN recent |-> recent[n] + 1]
<1>1. /\ Len(sent) \in Nat /\ Len(recent) \in Nat /\ Window \in Nat \ {0}
      /\ \A n \in 1..Len(sent) : sent[n] \in 0..Window
      /\ \A n \in 1..Len(recent) : recent[n] \in 0..Window
  BY StreamAssumption DEF PacerTypes
<1>2. PICK more \in Nat :
          /\ Len(sent) = more + Len(recent)
          /\ \A n \in 1..more : sent[n] >= Window
          /\ \A n \in 1..Len(recent) : sent[more + n] = recent[n] /\ recent[n] < Window
          /\ \A n, p \in 1..Len(recent) : n <= p => recent[p] <= recent[n]
  BY DEF Remembers
<1>3. /\ sent' = [n \in 1..Len(sent) |-> IF sent[n] < Window THEN sent[n] + 1 ELSE Window]
      /\ recent' = Young(aged)
  BY DEF Tick, PacerTypes
<1>4. aged \in Seq(Nat) /\ Len(aged) = Len(recent) /\ \A n \in 1..Len(recent) : aged[n] = recent[n] + 1
  <2>1. aged = [n \in 1..Len(recent) |-> recent[n] + 1]
    BY DEF PacerTypes
  <2>2. \A n \in 1..Len(recent) : recent[n] + 1 \in Nat
    BY <1>1
  <2> HIDE DEF aged
  <2> QED
    BY <1>1, <2>1, <2>2
<1> HIDE DEF aged
<1>5. PICK gone \in 0..Len(recent) :
          /\ \A k \in 1..gone : aged[k] >= Window
          /\ gone < Len(recent) => aged[gone + 1] < Window
          /\ recent' = [n \in 1..(Len(recent) - gone) |-> aged[gone + n]]
  BY <1>3, <1>4, YoungOnes
<1>6. /\ gone \in Nat /\ Len(recent) - gone \in Nat
      /\ \A n \in 1..(Len(recent) - gone) : /\ gone + n \in 1..Len(recent)
                                            /\ recent'[n] = recent[gone + n] + 1
  BY <1>1, <1>4, <1>5
<1>7. \A n \in 1..(Len(recent) - gone) : recent'[n] < Window /\ recent'[n] \in 0..Window
  <2> TAKE n \in 1..(Len(recent) - gone)
  <2>1. gone + 1 \in 1..Len(recent) /\ gone + 1 <= gone + n
    BY <1>1, <1>5, <1>6
  <2>2. aged[gone + 1] = recent[gone + 1] + 1 /\ aged[gone + 1] < Window
    BY <1>1, <1>4, <1>5, <2>1
  <2>3. recent[gone + n] <= recent[gone + 1]
    BY <1>2, <1>6, <2>1
  <2> QED
    BY <1>1, <1>6, <2>1, <2>2, <2>3
<1>8. recent' \in Seq(0..Window) /\ Len(recent') = Len(recent) - gone
  <2> DEFINE m == Len(recent) - gone
             f == [n \in 1..m |-> aged[gone + n]]
  <2>1. m \in Nat /\ recent' = f /\ \A n \in 1..m : f[n] \in 0..Window
    BY <1>5, <1>6, <1>7
  <2>2. f \in [1..m -> 0..Window]
    BY <2>1
  <2>3. f \in Seq(0..Window) /\ Len(f) = m
    <3> HIDE DEF f, m
    <3> QED
      BY <2>1, <2>2, AllOfThem
  <2> QED
    BY <2>1, <2>3
<1>9. sent' \in Seq(0..Window) /\ Len(sent') = Len(sent)
  <2>1. \A n \in 1..Len(sent) : (IF sent[n] < Window THEN sent[n] + 1 ELSE Window) \in 0..Window
    BY <1>1
  <2> QED
    BY <1>1, <1>3, <2>1
<1>10. \A n \in 1..(more + gone) : sent'[n] >= Window
  <2> TAKE n \in 1..(more + gone)
  <2>1. n \in 1..Len(sent) /\ sent'[n] = IF sent[n] < Window THEN sent[n] + 1 ELSE Window
    BY <1>1, <1>2, <1>3, <1>5
  <2>2. CASE n <= more
    BY <1>1, <1>2, <2>1, <2>2
  <2>3. CASE n > more
    <3>1. n - more \in 1..gone /\ n - more \in 1..Len(recent) /\ more + (n - more) = n
      BY <1>1, <1>2, <1>5, <2>3
    <3>2. sent[n] = recent[n - more]
      BY <1>2, <3>1
    <3>3. recent[n - more] + 1 >= Window
      BY <1>4, <1>5, <3>1
    <3> QED
      BY <1>1, <1>2, <2>1, <3>1, <3>2, <3>3
  <2> QED
    BY <2>2, <2>3
<1>11. \A n \in 1..Len(recent') : sent'[more + gone + n] = recent'[n] /\ recent'[n] < Window
  <2> TAKE n \in 1..Len(recent')
  <2>1. /\ gone + n \in 1..Len(recent) /\ recent'[n] = recent[gone + n] + 1 /\ recent'[n] < Window
        /\ more + (gone + n) \in 1..Len(sent) /\ more + (gone + n) = more + gone + n
    BY <1>1, <1>2, <1>6, <1>7, <1>8
  <2>2. sent[more + gone + n] = recent[gone + n] /\ recent[gone + n] < Window
    BY <1>2, <2>1
  <2> QED
    BY <1>3, <2>1, <2>2
<1>12. \A n, p \in 1..Len(recent') : n <= p => recent'[p] <= recent'[n]
  <2> TAKE n, p \in 1..Len(recent')
  <2>1. /\ gone + n \in 1..Len(recent) /\ recent'[n] = recent[gone + n] + 1
        /\ gone + p \in 1..Len(recent) /\ recent'[p] = recent[gone + p] + 1
    BY <1>6, <1>8
  <2>2. n <= p => recent[gone + p] <= recent[gone + n]
    BY <1>2, <1>6, <2>1
  <2> QED
    BY <1>1, <2>1, <2>2
<1>13. more + gone \in Nat /\ Len(sent') = (more + gone) + Len(recent')
  BY <1>1, <1>2, <1>6, <1>8, <1>9
<1> QED
  BY <1>8, <1>9, <1>10, <1>11, <1>12, <1>13 DEF Remembers

\* An event is written.
LEMMA DeliveryWindow ==
    ASSUME PacerTypes, Remembers, sent' = Append(sent, 0), recent' = Append(recent, 0)
    PROVE  /\ sent' \in Seq(0..Window) /\ recent' \in Seq(0..Window)
           /\ Len(sent') = Len(sent) + 1 /\ Remembers'
<1>1. /\ Len(sent) \in Nat /\ Len(recent) \in Nat /\ Window \in Nat \ {0}
      /\ \A n \in 1..Len(recent) : recent[n] \in Nat
  BY StreamAssumption DEF PacerTypes
<1>2. PICK more \in Nat :
          /\ Len(sent) = more + Len(recent)
          /\ \A n \in 1..more : sent[n] >= Window
          /\ \A n \in 1..Len(recent) : sent[more + n] = recent[n] /\ recent[n] < Window
          /\ \A n, p \in 1..Len(recent) : n <= p => recent[p] <= recent[n]
  BY DEF Remembers
<1>3. /\ sent' \in Seq(0..Window) /\ Len(sent') = Len(sent) + 1 /\ sent'[Len(sent) + 1] = 0
      /\ \A n \in 1..Len(sent) : sent'[n] = sent[n]
  BY <1>1 DEF PacerTypes
<1>4. /\ recent' \in Seq(0..Window) /\ Len(recent') = Len(recent) + 1 /\ recent'[Len(recent) + 1] = 0
      /\ \A n \in 1..Len(recent) : recent'[n] = recent[n]
  BY <1>1 DEF PacerTypes
<1>5. \A n \in 1..Len(recent') : n \in 1..Len(recent) \/ n = Len(recent) + 1
  BY <1>1, <1>4
<1>6. \A n \in 1..more : sent'[n] >= Window
  BY <1>1, <1>2, <1>3
<1>7. \A n \in 1..Len(recent') : sent'[more + n] = recent'[n] /\ recent'[n] < Window
  <2> TAKE n \in 1..Len(recent')
  <2>1. CASE n \in 1..Len(recent)
    <3>1. more + n \in 1..Len(sent)
      BY <1>1, <1>2, <2>1
    <3> QED
      BY <1>2, <1>3, <1>4, <2>1, <3>1
  <2>2. CASE n = Len(recent) + 1
    BY <1>1, <1>2, <1>3, <1>4, <2>2
  <2> QED
    BY <1>5, <2>1, <2>2
<1>8. \A n, p \in 1..Len(recent') : n <= p => recent'[p] <= recent'[n]
  <2> SUFFICES ASSUME NEW n \in 1..Len(recent'), NEW p \in 1..Len(recent'), n <= p
               PROVE  recent'[p] <= recent'[n]
    OBVIOUS
  <2>1. CASE p \in 1..Len(recent)
    <3>1. n \in 1..Len(recent)
      BY <1>1, <1>4, <2>1
    <3> QED
      BY <1>2, <1>4, <2>1, <3>1
  <2>2. CASE p = Len(recent) + 1
    BY <1>1, <1>4, <1>5, <2>2
  <2> QED
    BY <1>5, <2>1, <2>2
<1>9. Len(sent') = more + Len(recent')
  BY <1>1, <1>2, <1>3, <1>4
<1> QED
  BY <1>3, <1>4, <1>6, <1>7, <1>8, <1>9 DEF Remembers

-----------------------------------------------------------------------------
(* The pacer: each step keeps the invariant.                               *)

\* A round that begins tries every sink once.
LEMMA WholeRound ==
    ASSUME NEW open \in Seq(Streams), NEW n \in 1..Len(open), NEW t \in Nat
    PROVE  \E j \in 0..(Len(open) - 1) : open[((t + j) % Len(open)) + 1] = open[n]
<1>1. Len(open) \in Nat \ {0} /\ n - 1 \in 0..(Len(open) - 1) /\ (n - 1) + 1 = n
  OBVIOUS
<1>2. PICK j \in 0..(Len(open) - 1) : (t + j) % Len(open) = n - 1
  BY <1>1, EverybodysTurn
<1>3. open[((t + j) % Len(open)) + 1] = open[n]
  BY <1>1, <1>2
<1> QED
  BY <1>3

\* The pump starts, after a commit, on its timer, or because a stream came or went.
LEMMA StartPumpPacer ==
    ASSUME PacerInv, NEW open \in Seq(Streams), StartPump(open), recent' = recent,
           ~woken', Subscribed'
    PROVE  PacerInv'
<1>1. /\ sinks' = open /\ sent' = recent
      /\ trying' = IF Len(recent) < Limit THEN Len(open) ELSE 0
      /\ Len(recent) >= Limit => timer'
      /\ turn' = turn \/ turn' = 0
  BY YoungSent DEF StartPump, PacerInv
<1>2. Len(recent) \in Nat /\ Len(open) \in Nat /\ Limit \in Nat
  BY StreamAssumption DEF PacerInv, PacerTypes
<1>3. PacerTypes'
  BY <1>1, <1>2 DEF PacerInv, PacerTypes
<1>4. Remembers'
  <2>1. PICK more \in Nat :
            /\ \A n \in 1..Len(recent) : recent[n] < Window
            /\ \A n, p \in 1..Len(recent) : n <= p => recent[p] <= recent[n]
    BY DEF PacerInv, Remembers
  <2>2. /\ Len(sent') = 0 + Len(recent') /\ \A n \in 1..0 : sent'[n] >= Window
        /\ \A n \in 1..Len(recent') : sent'[0 + n] = recent'[n] /\ recent'[n] < Window
        /\ \A n, p \in 1..Len(recent') : n <= p => recent'[p] <= recent'[n]
    BY <1>1, <1>2, <2>1
  <2> QED
    BY <2>2 DEF Remembers
<1>5. Within'
  <2>1. Len(recent) <= Len(sent) /\ Len(sent) <= Limit /\ Len(sent) \in Nat
    BY <1>2 DEF PacerInv, PacerTypes, Remembers, Within
  <2> QED
    BY <1>1, <1>2, <2>1 DEF Within
<1>6. YetToTry'
  <2>1. ASSUME NEW i \in Streams, phase'[i] = "open"
        PROVE  \/ \E j \in 0..(trying' - 1) : sinks'[((turn' + j) % Len(sinks')) + 1] = i
               \/ trying' = 0 /\ timer' /\ Len(sent') >= Limit
    <3>1. PICK n \in 1..Len(open) : open[n] = i
      BY <1>1, <2>1 DEF Subscribed
    <3>2. CASE Len(recent) < Limit
      BY <1>1, <1>3, <3>1, <3>2, WholeRound DEF PacerTypes
    <3>3. CASE ~(Len(recent) < Limit)
      BY <1>1, <1>2, <3>3
    <3> QED
      BY <3>2, <3>3
  <2> QED
    BY <2>1 DEF YetToTry
<1> QED
  BY <1>3, <1>4, <1>5, <1>6 DEF PacerInv

\* Steps that neither the pacer nor its streams notice, other than that there may be less
\* to read.
LEMMA UnnoticedPacer ==
    ASSUME PacerInv, UNCHANGED <<phase, sinks, turn, sent, timer, trying, woken, recent>>,
           \A i \in Streams : phase[i] = "open" /\ Ahead(i)' # {} => Ahead(i) # {}
    PROVE  PacerInv'
<1>1. PacerTypes' /\ Subscribed' /\ Remembers' /\ Within'
  BY DEF PacerInv, PacerTypes, Subscribed, Remembers, Within
<1>2. YetToTry'
  BY DEF PacerInv, YetToTry
<1> QED
  BY <1>1, <1>2 DEF PacerInv

LEMMA UnnoticedLog ==
    ASSUME PacerInv, UNCHANGED <<session, streams, window, woken, recent>>
    PROVE  PacerInv'
<1>1. UNCHANGED <<log, removed, phase, owner, cursor, fetched, sinks, turn, sent, timer, trying>>
  BY DEF session, streams, window
<1>2. \A i \in Streams : Ahead(i)' = Ahead(i)
  BY <1>1 DEF Ahead, Mine, Seqs, Readable
<1> QED
  BY <1>1, <1>2, UnnoticedPacer

LEMMA AppendPacer ==
    ASSUME PacerInv, NEW r \in Runs, NEW last \in BOOLEAN, AppendEvent(r, last)
    PROVE  PacerInv'
<1>1. /\ trying = 0 /\ woken' = (sinks # <<>>)
      /\ UNCHANGED <<phase, sinks, turn, sent, timer, trying, recent>>
  BY DEF AppendEvent, streams, window, history
<1>2. PacerTypes' /\ Subscribed' /\ Remembers'
  BY <1>1 DEF PacerInv, PacerTypes, Subscribed, Remembers
<1>3. Within'
  BY <1>1 DEF PacerInv, Within
<1>4. \A i \in Streams : phase'[i] = "open" => woken'
  <2> SUFFICES ASSUME NEW i \in Streams, phase[i] = "open"
               PROVE  sinks # <<>>
    BY <1>1
  <2>1. \E n \in 1..Len(sinks) : sinks[n] = i
    BY DEF PacerInv, Subscribed
  <2> QED
    BY <2>1 DEF PacerInv, PacerTypes
<1>5. YetToTry'
  BY <1>1, <1>4 DEF YetToTry
<1> QED
  BY <1>2, <1>3, <1>5 DEF PacerInv

LEMMA RemovePacer ==
    ASSUME ReaderInv, PacerInv, RemoveEvents
    PROVE  PacerInv'
<1>1. /\ ~removed /\ removed'
      /\ UNCHANGED <<log, phase, owner, cursor, fetched, sinks, turn, sent, timer, trying, woken, recent>>
  BY DEF RemoveEvents, streams, window, history
<1>2. \A i \in Streams : Ahead(i)' \subseteq Ahead(i)
  <2> TAKE i \in Streams
  <2>1. fetched[i] \in Nat /\ Len(log) \in Nat /\ fetched[i] <= Len(log)
    BY ReaderTypes
  <2>2. Mine(owner[i])' = Mine(owner[i]) /\ Mine(owner[i]) \in SUBSET Nat
    BY <1>1, <2>1 DEF Mine, Seqs
  <2>3. Readable(i) = Len(log) /\ Readable(i)' = fetched[i]
    BY <1>1 DEF Readable
  <2> QED
    BY <1>1, <2>1, <2>2, <2>3 DEF Ahead
<1> QED
  BY <1>1, <1>2, UnnoticedPacer

LEMMA TickPacer ==
    ASSUME PacerInv, Tick
    PROVE  PacerInv'
<1>1. UNCHANGED <<log, removed, phase, owner, cursor, fetched, sinks, turn, timer, trying, woken>>
  BY DEF Tick, session, streams
<1>2. PacerTypes' /\ Remembers' /\ Len(sent') = Len(sent)
  BY <1>1, TickWindow DEF PacerInv, PacerTypes
<1>3. Subscribed' /\ Within'
  BY <1>1, <1>2 DEF PacerInv, Subscribed, Within
<1>4. \A i \in Streams : Ahead(i)' = Ahead(i)
  BY <1>1 DEF Ahead, Mine, Seqs, Readable
<1>5. YetToTry'
  BY <1>1, <1>2, <1>4 DEF PacerInv, YetToTry
<1> QED
  BY <1>2, <1>3, <1>5 DEF PacerInv

LEMMA OpenPacer ==
    ASSUME ReaderInv, PacerInv, NEW c \in Readers, NEW i \in Streams, Open(c, i)
    PROVE  PacerInv'
<1>1. /\ phase[i] = "free" /\ phase' = [phase EXCEPT ![i] = "open"] /\ ~woken'
      /\ StartPump(Append(sinks, i)) /\ recent' = recent
  BY DEF Open, Idle
<1>2. /\ sinks \in Seq(Streams) /\ Len(sinks) \in Nat /\ sinks' = Append(sinks, i)
      /\ \A j \in Streams : phase[j] # "free" <=> \E n \in 1..Len(sinks) : sinks[n] = j
      /\ \A n, p \in 1..Len(sinks) : sinks[n] = sinks[p] => n = p
  BY <1>1 DEF StartPump, PacerInv, PacerTypes, Subscribed
<1>3. /\ sinks' \in Seq(Streams) /\ Len(sinks') = Len(sinks) + 1 /\ sinks'[Len(sinks) + 1] = i
      /\ \A n \in 1..Len(sinks) : sinks'[n] = sinks[n] /\ sinks[n] # i
      /\ \A n \in 1..Len(sinks') : n \in 1..Len(sinks) \/ n = Len(sinks) + 1
  BY <1>1, <1>2
<1>4. \A j \in Streams : phase'[j] # "free" <=> phase[j] # "free" \/ j = i
  BY <1>1 DEF ReaderInv, StreamTypes
<1>5. Subscribed'
  <2>1. \A j \in Streams : phase'[j] # "free" <=> \E n \in 1..Len(sinks') : sinks'[n] = j
    <3> TAKE j \in Streams
    <3>1. ASSUME phase[j] # "free"
          PROVE  \E n \in 1..Len(sinks') : sinks'[n] = j
      <4>1. PICK n \in 1..Len(sinks) : sinks[n] = j
        BY <1>2, <3>1
      <4>2. n \in 1..Len(sinks') /\ sinks'[n] = j
        BY <1>2, <1>3, <4>1
      <4> QED
        BY <4>2
    <3>2. Len(sinks) + 1 \in 1..Len(sinks')
      BY <1>2, <1>3
    <3>3. ASSUME NEW n \in 1..Len(sinks'), sinks'[n] = j
          PROVE  phase[j] # "free" \/ j = i
      BY <1>2, <1>3, <3>3
    <3> QED
      BY <1>3, <1>4, <3>1, <3>2, <3>3
  <2>2. \A n, p \in 1..Len(sinks') : sinks'[n] = sinks'[p] => n = p
    BY <1>2, <1>3
  <2> QED
    BY <2>1, <2>2 DEF Subscribed
<1> QED
  BY <1>1, <1>2, <1>3, <1>5, StartPumpPacer

LEMMA ClosePacer ==
    ASSUME ReaderInv, PacerInv, NEW i \in Streams, Close(i)
    PROVE  PacerInv'
<1> DEFINE L == Len(sinks)
           at == CHOOSE n \in DOMAIN sinks : sinks[n] = i
           From(n) == IF n < at THEN n ELSE n + 1
           fewer == [n \in 1..(L - 1) |-> sinks[From(n)]]
<1> HIDE DEF at
<1>1. /\ phase[i] # "free" /\ phase' = [phase EXCEPT ![i] = "free"] /\ ~woken'
      /\ StartPump(Without(i)) /\ recent' = recent
  BY DEF Close, Idle
<1>2. /\ sinks \in Seq(Streams) /\ L \in Nat
      /\ \A j \in Streams : phase[j] # "free" <=> \E n \in 1..L : sinks[n] = j
      /\ \A n, p \in 1..L : sinks[n] = sinks[p] => n = p
  BY <1>1 DEF PacerInv, PacerTypes, Subscribed
<1>3. at \in 1..L /\ sinks[at] = i
  <2>1. DOMAIN sinks = 1..L /\ \E n \in 1..L : sinks[n] = i
    BY <1>1, <1>2
  <2> QED
    BY <2>1 DEF at
<1>4. Without(i) = fewer
  BY DEF Without, at
<1>5. L - 1 \in Nat /\ \A n \in 1..(L - 1) : From(n) \in 1..L /\ From(n) # at
  BY <1>2, <1>3
<1>6. \A n, p \in 1..(L - 1) : From(n) = From(p) => n = p
  BY <1>2, <1>3
<1>7. \A m \in 1..L : m # at => \E n \in 1..(L - 1) : From(n) = m
  <2> SUFFICES ASSUME NEW m \in 1..L, m # at
               PROVE  \E n \in 1..(L - 1) : From(n) = m
    OBVIOUS
  <2>1. CASE m < at
    <3>1. m \in 1..(L - 1) /\ From(m) = m
      BY <1>2, <1>3, <2>1
    <3> QED
      BY <3>1
  <2>2. CASE m > at
    <3>1. m - 1 \in 1..(L - 1) /\ From(m - 1) = m
      BY <1>2, <1>3, <2>2
    <3> QED
      BY <3>1
  <2> QED
    BY <1>2, <1>3, <2>1, <2>2
<1> HIDE DEF From
<1>8. /\ fewer \in Seq(Streams) /\ Len(fewer) = L - 1
      /\ \A n \in 1..(L - 1) : fewer[n] = sinks[From(n)]
  <2>1. \A n \in 1..(L - 1) : sinks[From(n)] \in Streams
    BY <1>2, <1>5
  <2>2. fewer \in [1..(L - 1) -> Streams]
    BY <2>1
  <2> QED
    BY <1>5, <2>2, AllOfThem
<1> HIDE DEF fewer, L
<1>9. sinks' = fewer
  BY <1>1, <1>4 DEF StartPump
<1>10. \A j \in Streams : phase'[j] # "free" <=> phase[j] # "free" /\ j # i
  BY <1>1 DEF ReaderInv, StreamTypes
<1>11. Subscribed'
  <2>1. ASSUME NEW j \in Streams
        PROVE  phase'[j] # "free" <=> \E n \in 1..(L - 1) : fewer[n] = j
    <3>1. ASSUME phase[j] # "free", j # i
          PROVE  \E n \in 1..(L - 1) : fewer[n] = j
      <4>1. PICK m \in 1..L : sinks[m] = j
        BY <1>2, <3>1
      <4>2. m # at
        BY <1>3, <3>1, <4>1
      <4>3. PICK n \in 1..(L - 1) : From(n) = m
        BY <1>7, <4>1, <4>2
      <4>4. fewer[n] = j
        BY <1>8, <4>1, <4>3
      <4> QED
        BY <4>4
    <3>2. ASSUME NEW n \in 1..(L - 1), fewer[n] = j
          PROVE  phase[j] # "free" /\ j # i
      <4>1. From(n) \in 1..L /\ From(n) # at /\ sinks[From(n)] = j
        BY <1>5, <1>8, <3>2
      <4> QED
        BY <1>2, <1>3, <4>1
    <3> QED
      BY <1>10, <3>1, <3>2
  <2>2. \A n, p \in 1..(L - 1) : fewer[n] = fewer[p] => n = p
    BY <1>2, <1>5, <1>6, <1>8
  <2>3. Len(sinks') = L - 1
    BY <1>8, <1>9
  <2> QED
    BY <1>9, <2>1, <2>2, <2>3 DEF Subscribed
<1> QED
  BY <1>1, <1>4, <1>8, <1>11, StartPumpPacer

LEMMA CurrentIsOpenStream ==
    ASSUME PacerInv, trying > 0
    PROVE  Current \in Streams /\ Len(sinks) \in Nat \ {0} /\ trying \in 1..Len(sinks)
<1>1. sinks \in Seq(Streams) /\ Len(sinks) \in Nat \ {0} /\ turn \in Nat /\ trying \in 1..Len(sinks)
  BY DEF PacerInv, PacerTypes
<1>2. (turn % Len(sinks)) + 1 \in 1..Len(sinks)
  BY <1>1, TurnOfOne
<1> QED
  BY <1>1, <1>2 DEF Current

LEMMA DeliverPacer ==
    ASSUME ReaderInv, PacerInv, trying > 0, Deliver(Current)
    PROVE  PacerInv'
<1>1. /\ sinks \in Seq(Streams) /\ Len(sinks) \in Nat \ {0} /\ Len(sent) \in Nat
      /\ turn \in Nat /\ Limit \in Nat /\ Len(sent) < Limit /\ ~woken /\ Current \in Streams
  BY CurrentIsOpenStream, StreamAssumption DEF PacerInv, PacerTypes, Within
<1>2. /\ turn' = (turn + 1) % Len(sinks) /\ UNCHANGED <<sinks, woken>>
      /\ sent' = Append(sent, 0) /\ recent' = Append(recent, 0)
      /\ trying' = IF Len(sent') < Limit THEN Len(sinks) ELSE 0
      /\ Len(sent') >= Limit => timer'
      /\ phase[Current] = "open"
      /\ phase' = phase \/ phase' = [phase EXCEPT ![Current] = "ended"]
  BY DEF Deliver, NextTurn, EndStream
<1>3. /\ sent' \in Seq(0..Window) /\ recent' \in Seq(0..Window) /\ Len(sent') = Len(sent) + 1
      /\ Remembers'
  BY <1>2, DeliveryWindow DEF PacerInv
<1>4. turn' \in Nat /\ trying' \in 0..Len(sinks)
  <2>1. (turn + 1) % Len(sinks) \in Nat
    BY <1>1, TurnOfOne
  <2> QED
    BY <1>1, <1>2, <2>1
<1>5. PacerTypes'
  BY <1>1, <1>2, <1>3, <1>4 DEF PacerTypes
<1>6. \A i \in Streams : phase'[i] # "free" <=> phase[i] # "free"
  BY <1>2 DEF ReaderInv, StreamTypes
<1>7. Subscribed'
  BY <1>2, <1>6 DEF PacerInv, Subscribed
<1>8. Within'
  BY <1>1, <1>2, <1>3 DEF Within
<1>9. YetToTry'
  <2>1. ASSUME NEW i \in Streams, phase'[i] = "open"
        PROVE  \/ \E j \in 0..(trying' - 1) : sinks'[((turn' + j) % Len(sinks')) + 1] = i
               \/ trying' = 0 /\ timer' /\ Len(sent') >= Limit
    <3>1. PICK n \in 1..Len(sinks) : sinks[n] = i
      BY <1>6, <2>1 DEF PacerInv, Subscribed
    <3>2. CASE Len(sent') < Limit
      <4>1. trying' = Len(sinks) /\ sinks' = sinks
        BY <1>2, <3>2
      <4>2. \E j \in 0..(Len(sinks) - 1) : sinks[((turn' + j) % Len(sinks)) + 1] = i
        BY ONLY <1>1, <1>4, <3>1, WholeRound
      <4> QED
        BY <4>1, <4>2
    <3>3. CASE ~(Len(sent') < Limit)
      BY <1>1, <1>2, <1>3, <3>3
    <3> QED
      BY <3>2, <3>3
  <2> QED
    BY <2>1 DEF YetToTry
<1> QED
  BY <1>3, <1>5, <1>7, <1>8, <1>9 DEF PacerInv

LEMMA SkipPacer ==
    ASSUME ReaderInv, PacerInv, trying > 0, Skip(Current)
    PROVE  PacerInv'
<1>0. PICK i : i = Current
  OBVIOUS
<1>1. /\ i \in Streams /\ Len(sinks) \in Nat \ {0} /\ trying \in 1..Len(sinks) /\ turn \in Nat
      /\ i = sinks[(turn % Len(sinks)) + 1]
  BY <1>0, CurrentIsOpenStream DEF PacerInv, PacerTypes, Current
<1>2. /\ turn' = (turn + 1) % Len(sinks) /\ trying' = trying - 1
      /\ UNCHANGED <<log, removed, owner, sinks, sent, timer, woken, recent>>
      /\ \/ phase' = phase
         \/ phase' = [phase EXCEPT ![i] = "ended"] /\ phase[i] = "open"
  BY <1>0 DEF Skip, NextTurn, EndStream, session, history
<1>3. IF phase[i] = "open" THEN /\ cursor' = [cursor EXCEPT ![i] = Readable(i)]
                                /\ fetched' = [fetched EXCEPT ![i] = Readable(i)]
                           ELSE UNCHANGED <<phase, cursor, fetched>>
  BY <1>0 DEF Skip
<1>4. turn' \in Nat /\ trying' \in 0..Len(sinks)
  <2>1. (turn + 1) % Len(sinks) \in Nat
    BY <1>1, TurnOfOne
  <2> QED
    BY <1>1, <1>2, <2>1
<1>5. PacerTypes' /\ Remembers'
  BY <1>2, <1>4 DEF PacerInv, PacerTypes, Remembers
<1>6. \A k \in Streams : /\ phase'[k] # "free" <=> phase[k] # "free"
                         /\ phase'[k] = "open" => phase[k] = "open"
  BY <1>2 DEF ReaderInv, StreamTypes
<1>7. Subscribed'
  BY <1>2, <1>6 DEF PacerInv, Subscribed
<1>8. Within'
  BY <1>1, <1>2, <1>4 DEF PacerInv, Within
<1>9. ASSUME NEW k \in Streams, k # i
      PROVE  Ahead(k)' = Ahead(k)
  <2>1. cursor'[k] = cursor[k] /\ fetched'[k] = fetched[k]
    BY <1>3, <1>9 DEF ReaderInv, StreamTypes
  <2> QED
    BY <1>2, <2>1 DEF Ahead, Mine, Seqs, Readable
<1>10. ASSUME phase[i] = "open"
       PROVE  Ahead(i)' = {}
  <2>1. cursor'[i] = Readable(i) /\ fetched'[i] = Readable(i) /\ Readable(i) \in Nat
    BY <1>1, <1>3, <1>10, ReaderTypes DEF ReaderInv, StreamTypes
  <2>2. Readable(i)' = Readable(i)
    BY <1>2, <2>1 DEF Readable
  <2>3. \A m \in 1..Len(log)' : ~(cursor'[i] < m /\ m <= Readable(i)')
    BY <2>1, <2>2
  <2> QED
    BY <2>3 DEF Ahead, Mine, Seqs
<1>11. YetToTry'
  <2>1. ASSUME NEW k \in Streams, phase'[k] = "open", Ahead(k)' # {}
        PROVE  \E j \in 0..(trying' - 1) : sinks'[((turn' + j) % Len(sinks')) + 1] = k
    <3>1. k # i
      BY <1>6, <1>10, <2>1
    <3>2. PICK j \in 0..(trying - 1) : sinks[((turn + j) % Len(sinks)) + 1] = k
      BY <1>1, <1>6, <1>9, <2>1, <3>1 DEF PacerInv, YetToTry
    <3>3. j # 0
      BY <1>1, <3>1, <3>2
    <3>4. j - 1 \in Nat /\ j - 1 \in 0..(trying' - 1) /\ turn + 1 + (j - 1) = turn + j
      BY <1>1, <1>2, <3>3
    <3>5. (turn' + (j - 1)) % Len(sinks) = (turn + j) % Len(sinks)
      <4>1. (((turn + 1) % Len(sinks)) + (j - 1)) % Len(sinks) = (turn + 1 + (j - 1)) % Len(sinks)
        BY <1>1, <3>4, TurnAfterTurn
      <4> QED
        BY <1>2, <3>4, <4>1
    <3> QED
      BY <1>2, <3>2, <3>4, <3>5
  <2> QED
    BY <2>1 DEF YetToTry
<1> QED
  BY <1>5, <1>7, <1>8, <1>11 DEF PacerInv

LEMMA RestartPacer ==
    ASSUME PacerInv, Restart
    PROVE  PacerInv'
<1>1. /\ phase' = [i \in Streams |-> "free"] /\ sinks' = <<>> /\ turn' = 0 /\ sent' = <<>>
      /\ recent' = <<>> /\ trying' = 0
  BY DEF Restart, Idle
<1>2. PacerTypes' /\ Within'
  BY <1>1, StreamAssumption DEF PacerTypes, Within
<1>3. Subscribed' /\ YetToTry'
  BY <1>1 DEF Subscribed, YetToTry
<1>4. Remembers'
  <2>1. /\ Len(sent') = 0 + Len(recent') /\ \A n \in 1..0 : sent'[n] >= Window
        /\ \A n \in 1..Len(recent') : sent'[0 + n] = recent'[n] /\ recent'[n] < Window
        /\ \A n, p \in 1..Len(recent') : n <= p => recent'[p] <= recent'[n]
    BY <1>1
  <2> QED
    BY <2>1 DEF Remembers
<1> QED
  BY <1>2, <1>3, <1>4 DEF PacerInv

LEMMA PacerInitially == Init => PacerInv
<1> SUFFICES ASSUME Init
             PROVE  PacerInv
  OBVIOUS
<1>1. PacerTypes /\ Within
  BY StreamAssumption DEF Init, PacerTypes, Within
<1>2. Subscribed /\ YetToTry
  BY DEF Init, Subscribed, YetToTry
<1>3. Remembers
  <2>1. /\ Len(sent) = 0 + Len(recent) /\ \A n \in 1..0 : sent[n] >= Window
        /\ \A n \in 1..Len(recent) : sent[0 + n] = recent[n] /\ recent[n] < Window
        /\ \A n, p \in 1..Len(recent) : n <= p => recent[p] <= recent[n]
    BY DEF Init
  <2> QED
    BY <2>1 DEF Remembers
<1> QED
  BY <1>1, <1>2, <1>3 DEF PacerInv

LEMMA EveryStepPacer ==
    ASSUME ReaderInv, PacerInv, [Next]_vars
    PROVE  PacerInv'
<1>1. CASE Engine
  <2>1. CASE RemoveEvents
    BY <2>1, RemovePacer
  <2>2. CASE \E r \in Runs : Emit(r) \/ Complete(r) \/ LateDecision(r)
    BY <2>2, AppendPacer DEF Emit, Complete, LateDecision
  <2> QED
    BY <1>1, <2>1, <2>2 DEF Engine
<1>2. CASE Attempt
  BY <1>2, DeliverPacer, SkipPacer DEF Attempt
<1>3. CASE Wake \/ TimerFires
  <2>1. /\ StartPump(sinks) /\ recent' = recent /\ phase' = phase /\ ~woken'
    BY <1>3 DEF Wake, TimerFires, Idle, streams, history
  <2>2. sinks' = sinks /\ sinks \in Seq(Streams)
    BY <2>1 DEF StartPump, PacerInv, PacerTypes
  <2>3. Subscribed'
    BY <2>1, <2>2 DEF PacerInv, Subscribed
  <2> QED
    BY <2>1, <2>2, <2>3, StartPumpPacer
<1>4. CASE Tick
  BY <1>4, TickPacer
<1>5. CASE UNCHANGED vars \/ Reading \/ \E c \in Readers : Refused(c)
  <2>1. UNCHANGED <<session, streams, window, woken, history>>
    BY <1>5 DEF vars, Reading, Begin, Read, EndOfStream, Drop, Refused, Refuse
  <2> QED
    BY <2>1, UnnoticedLog DEF history
<1>6. CASE (\E c \in Readers, i \in Streams : Open(c, i)) \/ \E i \in Streams : Close(i)
  BY <1>6, OpenPacer, ClosePacer
<1>7. CASE Restart
  BY <1>7, RestartPacer
<1> QED
  BY <1>1, <1>2, <1>3, <1>4, <1>5, <1>6, <1>7 DEF Next, Server

-----------------------------------------------------------------------------
(* What the readers and the pacer promise.                                 *)

LEMMA StreamInvHolds == Spec => [](ReaderInv /\ PacerInv)
<1>1. Init => ReaderInv /\ PacerInv
  BY ReadersInitially, PacerInitially
<1>2. ASSUME ReaderInv, PacerInv, [Next]_vars
      PROVE  (ReaderInv /\ PacerInv)'
  <2>1. Attempt => Current \in Streams
    BY <1>2, CurrentIsOpenStream DEF Attempt
  <2> QED
    BY <1>2, <2>1, EveryStepReaders, EveryStepPacer
<1> QED
  BY <1>1, <1>2, PTL DEF Spec

\* A reader gets each event of its own from where it began to the last it has seen, whatever
\* connections it lost, whatever daemon it was served by and however often its stream was
\* paced, ended or resumed (app.ts:533-625, client/index.ts:298-360).
THEOREM NothingMissedHolds == Spec => []NothingMissed
<1>1. ReaderInv => NothingMissed
  BY DEF ReaderInv, Follower, NothingMissed
<1> QED
  BY <1>1, StreamInvHolds, PTL

\* No second has more deliveries than are allowed, and who has something to read while the
\* daemon rests waits for allowance, with the timer set (event-pacer.ts:45-78).
THEOREM PacedHolds == Spec => []Paced
<1>1. ASSUME ReaderInv, PacerInv
      PROVE  Allowance
  <2>1. Len(recent) <= Len(sent) /\ Len(sent) <= Limit /\ Limit \in Nat
    BY <1>1, StreamAssumption DEF PacerInv, PacerTypes, Remembers, Within
  <2> QED
    BY <1>1, <2>1 DEF PacerInv, PacerTypes, Allowance
<1>2. ASSUME ReaderInv, PacerInv
      PROVE  NothingStalls
  <2>1. ASSUME trying = 0
        PROVE  0..(trying - 1) = {}
    BY <2>1
  <2> QED
    BY <1>2, <2>1 DEF PacerInv, YetToTry, Idle, NothingStalls
<1>3. ReaderInv /\ PacerInv => Paced
  BY <1>1, <1>2 DEF Paced
<1> QED
  BY <1>3, StreamInvHolds, PTL

-----------------------------------------------------------------------------
(* Turns.                                                                  *)

LEMMA SameTurn ==
    ASSUME NEW a \in Nat, NEW L \in Nat \ {0}
    PROVE  ((a % L) + 1) % L = (a + 1) % L /\ (a + L) % L = a % L /\ (a % L) % L = a % L
<1> DEFINE r == a % L
<1>1. PICK q \in Nat : a = L * q + r
  BY Remainder
<1>2. r \in 0..(L - 1)
  BY Remainder
<1> HIDE DEF r
<1>3. r % L = r /\ (a + L) % L = r
  <2>1. a + L = L * (q + 1) + r
    BY <1>1, <1>2
  <2>2. (L * (q + 1) + r) % L = r
    BY <1>2
  <2> QED
    BY <1>2, <2>1, <2>2
<1>4. (r + 1) % L = (a + 1) % L
  <2>1. CASE r + 1 < L
    <3>1. a + 1 = L * q + (r + 1) /\ r + 1 \in 0..(L - 1)
      BY <1>1, <1>2, <2>1
    <3>2. \A v \in 0..(L - 1) : (L * q + v) % L = v
      BY ONLY q \in Nat, L \in Nat \ {0}
    <3>3. (r + 1) % L = r + 1
      BY ONLY <3>1, L \in Nat \ {0}
    <3> QED
      BY <3>1, <3>2, <3>3
  <2>2. CASE r + 1 = L
    <3>1. a + 1 = L * (q + 1) + 0
      BY <1>1, <1>2, <2>2
    <3>2. (L * (q + 1) + 0) % L = 0 /\ L % L = 0
      OBVIOUS
    <3> QED
      BY <2>2, <3>1, <3>2
  <2> QED
    BY <1>2, <2>1, <2>2
<1> QED
  BY <1>3, <1>4 DEF r

\* Only a whole round leads from a turn to the same turn.
LEMMA WholeRoundOnly ==
    ASSUME NEW a \in Nat, NEW L \in Nat \ {0}, NEW j \in 1..L, (a + j) % L = (a + 1) % L
    PROVE  j = 1
<1> DEFINE r == (a + 1) % L
<1>1. PICK q \in Nat : a + 1 = L * q + r
  BY Remainder, a + 1 \in Nat
<1>2. PICK p \in Nat : a + j = L * p + r
  BY Remainder, a + j \in Nat
<1>3. r \in 0..(L - 1)
  BY Remainder, a + 1 \in Nat
<1> HIDE DEF r
<1>4. j - 1 = L * (p - q) /\ j - 1 \in 0..(L - 1)
  BY <1>1, <1>2, <1>3
<1>5. p - q = 0
  <2>1. p - q > 0 => L * (p - q) >= L
    OBVIOUS
  <2>2. p - q < 0 => L * (p - q) < 0
    OBVIOUS
  <2> QED
    BY <1>4, <2>1, <2>2
<1> QED
  BY <1>4, <1>5

\* Who was served last is the last to be tried again.
LastInRound ==
    served \in Streams =>
        \E q \in 1..Len(sinks) :
            sinks[q] = served /\ (turn + trying) % Len(sinks) = q % Len(sinks)

LEMMA DeliverTurn ==
    ASSUME PacerInv, trying > 0, Deliver(Current)
    PROVE  LastInRound'
<1>1. sinks \in Seq(Streams) /\ Len(sinks) \in Nat \ {0} /\ turn \in Nat /\ trying \in Nat
  BY CurrentIsOpenStream DEF PacerInv, PacerTypes
<1>2. PICK q : q = (turn % Len(sinks)) + 1
  OBVIOUS
<1>3. q \in 1..Len(sinks) /\ sinks[q] = Current
  BY <1>1, <1>2, TurnOfOne DEF Current
<1>4. /\ sinks' = sinks /\ turn' = (turn + 1) % Len(sinks) /\ served' = Current
      /\ trying' = Len(sinks) \/ trying' = 0
  BY DEF Deliver, NextTurn
<1>5. (turn' + trying') % Len(sinks) = (turn + 1) % Len(sinks)
  <2>1. (((turn + 1) % Len(sinks)) + trying') % Len(sinks) = (turn + 1 + trying') % Len(sinks)
    <3>1. trying' \in Nat
      BY <1>1, <1>4
    <3> QED
      BY ONLY <1>1, <3>1, TurnAfterTurn
  <2>2. (turn + 1 + trying') % Len(sinks) = (turn + 1) % Len(sinks)
    <3>1. (turn + 1 + Len(sinks)) % Len(sinks) = (turn + 1) % Len(sinks)
      BY <1>1, SameTurn, turn + 1 \in Nat
    <3> QED
      BY <1>1, <1>4, <3>1
  <2> QED
    BY <1>4, <2>1, <2>2
<1>6. q % Len(sinks) = (turn + 1) % Len(sinks)
  BY <1>1, <1>2, SameTurn
<1> QED
  BY <1>3, <1>4, <1>5, <1>6 DEF LastInRound

LEMMA SkipTurn ==
    ASSUME PacerInv, LastInRound, trying > 0, Skip(Current)
    PROVE  LastInRound'
<1>1. /\ Len(sinks) \in Nat \ {0} /\ turn \in Nat /\ trying \in 1..Len(sinks)
      /\ trying - 1 \in Nat /\ turn + 1 + (trying - 1) = turn + trying
  BY CurrentIsOpenStream DEF PacerInv, PacerTypes
<1>2. /\ sinks' = sinks /\ turn' = (turn + 1) % Len(sinks) /\ trying' = trying - 1
      /\ served' = served
  BY DEF Skip, NextTurn, history
<1>3. (((turn + 1) % Len(sinks)) + (trying - 1)) % Len(sinks) = (turn + 1 + (trying - 1)) % Len(sinks)
  BY <1>1, TurnAfterTurn
<1>4. (turn' + trying') % Len(sinks) = (turn + trying) % Len(sinks)
  BY <1>1, <1>2, <1>3
<1> QED
  BY <1>2, <1>4 DEF LastInRound

LEMMA PumpTurn ==
    ASSUME PacerInv, LastInRound, trying = 0, StartPump(sinks), served' = served
    PROVE  LastInRound'
<1> SUFFICES ASSUME served \in Streams
             PROVE  LastInRound'
  BY DEF LastInRound
<1>1. PICK q \in 1..Len(sinks) :
          sinks[q] = served /\ (turn + trying) % Len(sinks) = q % Len(sinks)
  BY DEF LastInRound
<1>2. sinks \in Seq(Streams) /\ Len(sinks) \in Nat \ {0} /\ turn \in Nat /\ sinks # <<>>
  BY <1>1 DEF PacerInv, PacerTypes
<1>3. /\ sinks' = sinks /\ turn' = turn
      /\ trying' = Len(sinks) \/ trying' = 0
  BY <1>2 DEF StartPump
<1>4. (turn + Len(sinks)) % Len(sinks) = turn % Len(sinks)
  BY ONLY <1>2, SameTurn
<1>5. turn + 0 = turn
  BY <1>2
<1> QED
  BY <1>1, <1>3, <1>4, <1>5 DEF LastInRound

LEMMA EveryStepTurn ==
    ASSUME PacerInv, LastInRound, [Next]_vars
    PROVE  LastInRound'
<1>1. CASE Attempt
  BY <1>1, DeliverTurn, SkipTurn DEF Attempt
<1>2. CASE Wake \/ TimerFires
  <2>1. StartPump(sinks) /\ trying = 0 /\ served' = served
    BY <1>2 DEF Wake, TimerFires, Idle, history
  <2> QED
    BY <2>1, PumpTurn
<1>3. CASE Restart \/ (\E c \in Readers, i \in Streams : Open(c, i)) \/ \E i \in Streams : Close(i)
  <2>1. served' = None
    BY <1>3 DEF Restart, Open, Close
  <2> QED
    BY <2>1, StreamAssumption DEF LastInRound
<1>4. CASE Engine \/ Tick \/ Reading \/ UNCHANGED vars \/ \E c \in Readers : Refused(c)
  <2>1. UNCHANGED <<sinks, turn, trying, served>>
    <3>1. CASE Engine \/ Tick
      BY <3>1 DEF Engine, Emit, Complete, LateDecision, AppendEvent, RemoveEvents, Tick, window,
                  history
    <3>2. CASE Reading \/ UNCHANGED vars \/ \E c \in Readers : Refused(c)
      BY <3>2 DEF Reading, Begin, Read, EndOfStream, Drop, Refused, Refuse, vars, window, history
    <3> QED
      BY <1>4, <3>1, <3>2
  <2> QED
    BY <2>1 DEF LastInRound
<1> QED
  BY <1>1, <1>2, <1>3, <1>4 DEF Next, Server

\* A delivery is the only step after which more has been sent than before.
LEMMA OnlyDeliveries ==
    ASSUME PacerInv, [Next]_vars, NEW i \in Streams, served' = i, Len(sent') > Len(sent)
    PROVE  trying > 0 /\ Deliver(Current)
<1>1. Len(sent) \in Nat /\ Len(recent) \in Nat /\ Len(recent) <= Len(sent) /\ ~(Len(sent) > Len(sent))
  BY DEF PacerInv, PacerTypes, Remembers
<1>2. CASE Attempt
  <2>1. Skip(Current) => sent' = sent
    BY DEF Skip
  <2> QED
    BY <1>1, <1>2, <2>1 DEF Attempt
<1>3. CASE Wake \/ TimerFires
  <2>1. sent' = recent
    BY <1>3, YoungSent DEF Wake, TimerFires, StartPump, PacerInv
  <2> QED
    BY <1>1, <2>1
<1>4. CASE Restart \/ (\E c \in Readers, j \in Streams : Open(c, j)) \/ \E j \in Streams : Close(j)
  <2>1. served' = None
    BY <1>4 DEF Restart, Open, Close
  <2> QED
    BY <2>1, StreamAssumption
<1>5. CASE Tick
  <2>1. sent' = [n \in 1..Len(sent) |-> IF sent[n] < Window THEN sent[n] + 1 ELSE Window]
    BY <1>5 DEF Tick, PacerInv, PacerTypes
  <2>2. Len(sent') = Len(sent)
    BY <1>1, <2>1
  <2> QED
    BY <1>1, <2>2
<1>6. CASE Engine \/ Reading \/ UNCHANGED vars \/ \E c \in Readers : Refused(c)
  <2>1. sent' = sent
    BY <1>6 DEF Engine, Emit, Complete, LateDecision, AppendEvent, RemoveEvents, window,
                Reading, Begin, Read, EndOfStream, Drop, Refused, Refuse, vars
  <2> QED
    BY <1>1, <2>1
<1> QED
  BY <1>2, <1>3, <1>4, <1>5, <1>6 DEF Next, Server

\* Whoever is given two events in a row was tried last, after every other stream had nothing
\* to send (event-pacer.ts:54-66: a round goes on behind the stream served).
THEOREM TakeTurnsHolds == Spec => TakeTurns
<1> DEFINE Turn == \A i, j \in Streams :
               served = i /\ served' = i /\ Len(sent') > Len(sent)
               /\ i # j /\ phase[j] = "open" => Ahead(j) = {}
<1>1. Init => LastInRound
  BY StreamAssumption DEF Init, LastInRound
<1>2. ASSUME PacerInv, LastInRound, [Next]_vars
      PROVE  Turn
  <2> SUFFICES ASSUME NEW i \in Streams, NEW j \in Streams, served = i, served' = i,
                      Len(sent') > Len(sent), i # j, phase[j] = "open"
               PROVE  Ahead(j) = {}
    OBVIOUS
  <2>1. trying > 0 /\ Deliver(Current) /\ Current = i
    <3>1. trying > 0 /\ Deliver(Current)
      BY <1>2, OnlyDeliveries
    <3> QED
      BY <3>1 DEF Deliver
  <2>2. Len(sinks) \in Nat \ {0} /\ trying \in 1..Len(sinks) /\ turn \in Nat
    BY <1>2, <2>1, CurrentIsOpenStream DEF PacerInv, PacerTypes
  <2>3. PICK q \in 1..Len(sinks) :
            sinks[q] = i /\ (turn + trying) % Len(sinks) = q % Len(sinks)
    BY <1>2 DEF LastInRound
  <2>4. q = (turn % Len(sinks)) + 1
    <3>1. (turn % Len(sinks)) + 1 \in 1..Len(sinks) /\ sinks[(turn % Len(sinks)) + 1] = i
      BY <2>1, <2>2, TurnOfOne DEF Current
    <3> QED
      BY <1>2, <2>3, <3>1 DEF PacerInv, Subscribed
  <2>5. (turn + trying) % Len(sinks) = (turn + 1) % Len(sinks)
    BY <2>2, <2>3, <2>4, SameTurn
  <2>6. trying = 1
    BY <2>2, <2>5, WholeRoundOnly
  <2>7. \A l \in 0..(trying - 1) : sinks[((turn + l) % Len(sinks)) + 1] # j
    BY <2>1, <2>2, <2>6 DEF Current
  <2> QED
    BY <1>2, <2>6, <2>7 DEF PacerInv, YetToTry
<1>3. ASSUME PacerInv, LastInRound, [Next]_vars
      PROVE  LastInRound'
  BY <1>3, EveryStepTurn
<1>4. Spec => [](PacerInv /\ LastInRound)
  BY <1>1, <1>3, StreamInvHolds, PTL DEF Spec
<1>5. Spec => [][Turn]_vars
  BY <1>2, <1>4, PTL DEF Spec
<1> QED
  BY <1>5 DEF TakeTurns

===============================================================================
