----------------------------- MODULE ServerProofs -----------------------------
(* Theorems about the HTTP server, for any requests, keys, limits and windows. *)
EXTENDS Server, FiniteSetTheorems, WellFoundedInduction, TLAPS

-----------------------------------------------------------------------------
(* The lock-out.                                                           *)

\* The natural numbers are well-founded, so that a set of them has a least element.
LEMMA Smallest ==
    ASSUME NEW T \in SUBSET Nat, T # {}
    PROVE  \E x \in T : \A y \in T : x <= y
<1>1. PICK x \in T : \A y \in T : <<y, x>> \notin OpToRel(<, Nat)
  BY NatLessThanWellFounded, WFMin
<1>2. \A y \in T : ~(y < x)
  BY <1>1 DEF OpToRel
<1> QED
  BY <1>2

\* Failures of an address: the oldest first, none out of the window, no more than the limit.
Recent(ages) ==
    /\ ages \in Seq(Nat)
    /\ Len(ages) <= Limit
    /\ \A i \in 1..Len(ages) : ages[i] < Window
    /\ \A i, j \in 1..Len(ages) : i <= j => ages[j] <= ages[i]

\* What a tick leaves of them: all, one tick older, unless the first is too old.
LEMMA Ageing ==
    ASSUME NEW ages, Recent(ages)
    PROVE  /\ Recent(Aged(ages))
           /\ ages # <<>> /\ ages[1] + 1 < Window =>
                Len(Aged(ages)) = Len(ages) /\ Aged(ages)[1] = ages[1] + 1
           /\ ages # <<>> /\ ages[1] + 1 >= Window => Len(Aged(ages)) < Len(ages)
<1> DEFINE Gone(n) == \A i \in 1..Len(ages) : i <= n <=> ages[i] + 1 >= Window
           young == {i \in 1..Len(ages) : ages[i] + 1 < Window}
<1>1. /\ Window \in Nat \ {0} /\ Limit \in Nat \ {0} /\ Len(ages) \in Nat
      /\ \A i \in 1..Len(ages) : ages[i] \in Nat
  BY FormAssumption DEF Recent
<1>2. \E n \in 0..Len(ages) : Gone(n)
  <2>1. CASE young = {}
    <3>1. \A i \in 1..Len(ages) : ages[i] + 1 >= Window
      <4> TAKE i \in 1..Len(ages)
      <4>1. i \notin young
        BY <2>1
      <4>2. ~(ages[i] + 1 < Window)
        BY <4>1
      <4> QED
        BY <1>1, <4>2
    <3>2. Gone(Len(ages))
      BY <1>1, <3>1
    <3>3. Len(ages) \in 0..Len(ages)
      BY <1>1
    <3> HIDE DEF Gone
    <3> QED
      BY <3>2, <3>3
  <2>2. CASE young # {}
    <3>0. young \in SUBSET Nat
      BY <1>1
    <3> HIDE DEF young
    <3>1. PICK m \in young : \A y \in young : m <= y
      BY <2>2, <3>0, Smallest
    <3> USE DEF young
    <3>2. \A i \in 1..Len(ages) : m <= i => ages[i] + 1 < Window
      BY <1>1, <3>1 DEF Recent
    <3>3. Gone(m - 1)
      BY <1>1, <3>1, <3>2
    <3>4. m - 1 \in 0..Len(ages)
      BY <1>1, <3>1
    <3> QED
      BY <3>3, <3>4
  <2> QED
    BY <2>1, <2>2
<1> DEFINE gone == CHOOSE n \in 0..Len(ages) : Gone(n)
<1>3. gone \in 0..Len(ages) /\ Gone(gone)
  BY <1>2
<1>4. Aged(ages) = [i \in 1..(Len(ages) - gone) |-> ages[gone + i] + 1]
  BY DEF Aged
<1> HIDE DEF gone
<1>5. /\ Aged(ages) \in Seq(Nat) /\ Len(Aged(ages)) = Len(ages) - gone
      /\ \A i \in 1..Len(Aged(ages)) : /\ gone + i \in 1..Len(ages)
                                       /\ Aged(ages)[i] = ages[gone + i] + 1
  <2>1. Len(ages) - gone \in Nat
    BY <1>1, <1>3
  <2>2. \A i \in 1..(Len(ages) - gone) : gone + i \in 1..Len(ages) /\ ages[gone + i] + 1 \in Nat
    BY <1>1, <1>3
  <2> QED
    BY <1>4, <2>1, <2>2
<1>6. \A i \in 1..Len(Aged(ages)) : Aged(ages)[i] < Window
  BY <1>1, <1>3, <1>5
<1>7. \A i, j \in 1..Len(Aged(ages)) : i <= j => Aged(ages)[j] <= Aged(ages)[i]
  <2> TAKE i, j \in 1..Len(Aged(ages))
  <2>1. /\ gone + i \in 1..Len(ages) /\ Aged(ages)[i] = ages[gone + i] + 1
        /\ gone + j \in 1..Len(ages) /\ Aged(ages)[j] = ages[gone + j] + 1
    BY <1>5
  <2>2. i <= j => ages[gone + j] <= ages[gone + i]
    <3>1. i <= j => gone + i <= gone + j
      BY <1>3, <1>5
    <3> QED
      BY <2>1, <3>1 DEF Recent
  <2> QED
    BY <1>1, <2>1, <2>2
<1>8. Recent(Aged(ages))
  BY <1>1, <1>3, <1>5, <1>6, <1>7 DEF Recent
<1>9. ASSUME ages # <<>>, ages[1] + 1 < Window
      PROVE  Len(Aged(ages)) = Len(ages) /\ Aged(ages)[1] = ages[1] + 1
  <2>1. 1 \in 1..Len(ages)
    BY <1>9 DEF Recent
  <2>2. gone = 0
    BY <1>1, <1>3, <1>9, <2>1
  <2> QED
    BY <1>1, <1>5, <2>1, <2>2
<1>10. ASSUME ages # <<>>, ages[1] + 1 >= Window
       PROVE  Len(Aged(ages)) < Len(ages)
  <2>1. 1 \in 1..Len(ages)
    BY <1>10 DEF Recent
  <2>2. gone # 0
    BY <1>1, <1>3, <1>10, <2>1
  <2> QED
    BY <1>1, <1>3, <1>5, <2>2
<1> QED
  BY <1>8, <1>9, <1>10

-----------------------------------------------------------------------------
(* The inductive invariants.                                               *)

\* An address that was told to come back later is locked until then: it has as many
\* failures as the limit, and what is left to wait is what the oldest has left.
LockInv ==
    /\ form \in Forms
    /\ failures \in [Addresses -> Seq(Nat)] /\ promised \in [Addresses -> Nat]
    /\ \A a \in Addresses :
        /\ Recent(failures[a])
        /\ promised[a] > 0 => /\ Len(failures[a]) = Limit
                              /\ promised[a] = Window - Head(failures[a])

Runs == [command : {Command(r) : r \in DOMAIN form}, body : {form[r].body : r \in DOMAIN form},
         day : {0, 1}, state : {"active", "over", "removed"}]

RunsTyped ==
    /\ form \in Forms /\ day \in {0, 1}
    /\ made \in Seq(Runs)
    /\ answer \in [Requests -> [status : Nat, run : Nat]]

\* Every record is of a run, of the day, command and body of that run.
RecordsTrue ==
    \A c \in commands :
        /\ c.run \in 1..Len(made)
        /\ made[c.run].command = c.command /\ made[c.run].body = c.body
        /\ made[c.run].day = c.day

\* No run is of tomorrow, and each of today that has a key has a record: without one a
\* retry would start a second.
TodayRecorded ==
    \A i \in 1..Len(made) :
        /\ made[i].day <= day
        /\ made[i].day = day /\ made[i].command.idem # None => \E c \in commands : c.run = i

AnswersKnown == \A r \in DOMAIN form : answer[r].run # 0 => answer[r].run \in 1..Len(made)

RunsInv ==
    /\ RunsTyped /\ RecordsTrue /\ TodayRecorded /\ AnswersKnown
    /\ OneRunPerCommand /\ AnswersOwn

Stages == {"new", "arrived", "held", "closing", "left", "streaming", "answered"}

\* The handler that has read a key has yet to answer, and it only accepts a token that is
\* a key: who holds a slot has one to give it back to.
SlotsInv ==
    /\ form \in Forms
    /\ stage \in [Requests -> Stages] /\ waits \in [Keys -> Nat]
    /\ reading # None => reading \in DOMAIN form /\ stage[reading] \in {"arrived", "streaming"}
    /\ copy # None => reading # None /\ form[reading].token \in Keys
    /\ \A r \in DOMAIN form : stage[r] \in {"held", "streaming"} => form[r].token \in Keys
    /\ SlotsExact

-----------------------------------------------------------------------------
(* Retry-After.                                                            *)

\* A locked address has failed, and the oldest failure is in the window yet.
LEMMA LockedWaits ==
    ASSUME LockInv, NEW a \in Addresses, Locked(a)
    PROVE  /\ failures[a] # <<>> /\ Len(failures[a]) = Limit
           /\ Head(failures[a]) = failures[a][1] /\ failures[a][1] \in Nat
           /\ RetryAfter(a) \in Nat \ {0}
<1>1. Limit \in Nat \ {0} /\ Window \in Nat \ {0}
  BY FormAssumption
<1>2. failures[a] \in Seq(Nat) /\ Recent(failures[a])
  BY DEF LockInv
<1> DEFINE ages == failures[a]
<1>3. ages \in Seq(Nat) /\ Len(ages) \in Nat /\ Len(ages) <= Limit /\ Len(ages) >= Limit
  BY <1>2 DEF Recent, Locked
<1>4. 1 \in 1..Len(ages) /\ Len(ages) = Limit /\ ages # <<>>
  BY <1>1, <1>3
<1>5. ages[1] < Window /\ ages[1] \in Nat /\ Head(ages) = ages[1]
  BY <1>2, <1>3, <1>4 DEF Recent
<1> QED
  BY <1>1, <1>4, <1>5 DEF RetryAfter

\* A failure counts while the address is not locked, and never past the limit.
LEMMA FailureCounted ==
    ASSUME LockInv, NEW a \in Addresses, Failed(a)
    PROVE  /\ failures' \in [Addresses -> Seq(Nat)]
           /\ \A b \in Addresses : /\ Recent(failures'[b])
                                   /\ Locked(b) => failures'[b] = failures[b]
<1>1. Limit \in Nat \ {0} /\ Window \in Nat \ {0}
  BY FormAssumption
<1>2. CASE Locked(a)
  <2>1. failures' = failures
    BY <1>2 DEF Failed
  <2> QED
    BY <2>1 DEF LockInv
<1>3. CASE ~Locked(a)
  <2> DEFINE ages == failures[a]
             more == Append(ages, 0)
  <2>1. failures' = [failures EXCEPT ![a] = more]
    BY <1>3 DEF Failed
  <2>2. ages \in Seq(Nat) /\ Recent(ages) /\ Len(ages) \in Nat /\ Len(ages) < Limit
    BY <1>1, <1>3 DEF LockInv, Locked
  <2>3. /\ more \in Seq(Nat) /\ Len(more) = Len(ages) + 1 /\ more[Len(ages) + 1] = 0
        /\ \A i \in 1..Len(ages) : more[i] = ages[i] /\ ages[i] \in Nat
    BY <2>2
  <2> HIDE DEF more, ages
  <2>4. Recent(more)
    <3>1. \A i \in 1..Len(more) : more[i] < Window /\ more[i] \in Nat
      <4> TAKE i \in 1..Len(more)
      <4>1. i \in 1..Len(ages) \/ i = Len(ages) + 1
        BY <2>2, <2>3
      <4>2. \A k \in 1..Len(ages) : ages[k] < Window
        BY <2>2 DEF Recent
      <4> QED
        BY <1>1, <2>3, <4>1, <4>2
    <3>2. \A i, j \in 1..Len(more) : i <= j => more[j] <= more[i]
      <4> TAKE i, j \in 1..Len(more)
      <4>1. CASE j = Len(ages) + 1
        BY <2>2, <2>3, <3>1, <4>1
      <4>2. CASE j # Len(ages) + 1 /\ i <= j
        <5>1. i \in 1..Len(ages) /\ j \in 1..Len(ages)
          BY <2>2, <2>3, <4>2
        <5>2. ages[j] <= ages[i]
          BY <2>2, <4>2, <5>1 DEF Recent
        <5> QED
          BY <2>3, <5>1, <5>2
      <4> QED
        BY <4>1, <4>2
    <3> QED
      BY <1>1, <2>2, <2>3, <3>1, <3>2 DEF Recent
  <2>5. \A b \in Addresses : failures'[b] = IF b = a THEN more ELSE failures[b]
    BY <2>1 DEF LockInv
  <2>6. failures' \in [Addresses -> Seq(Nat)]
    BY <2>1, <2>3 DEF LockInv
  <2> QED
    BY <1>3, <2>4, <2>5, <2>6 DEF LockInv
<1> QED
  BY <1>2, <1>3

\* The steps after which the addresses are as they were.
LEMMA AddressesLeftAlone ==
    ASSUME LockInv, UNCHANGED <<form, failures, promised>>
    PROVE  LockInv'
BY DEF LockInv

LEMMA LockInitially == Init => LockInv
<1> SUFFICES ASSUME Init
             PROVE  LockInv
  OBVIOUS
<1>1. Limit \in Nat \ {0}
  BY FormAssumption
<1>2. Recent(<<>>)
  BY <1>1 DEF Recent
<1>3. /\ \A a \in Addresses : failures[a] = <<>> /\ promised[a] = 0
      /\ failures \in [Addresses -> Seq(Nat)] /\ promised \in [Addresses -> Nat] /\ form \in Forms
  BY DEF Init
<1> QED
  BY <1>2, <1>3 DEF LockInv

\* After a day, or a restart, no failure is remembered.
LEMMA FailuresForgotten ==
    ASSUME LockInv, form' = form, failures' = [a \in Addresses |-> <<>>],
           promised' = [a \in Addresses |-> 0]
    PROVE  LockInv' /\ \A a \in Addresses : ~Locked(a)'
<1>1. Limit \in Nat \ {0}
  BY FormAssumption
<1>2. Recent(<<>>)
  BY <1>1 DEF Recent
<1>3. /\ \A a \in Addresses : failures'[a] = <<>> /\ promised'[a] = 0
      /\ failures' \in [Addresses -> Seq(Nat)] /\ promised' \in [Addresses -> Nat]
  OBVIOUS
<1>4. LockInv'
  BY <1>2, <1>3 DEF LockInv
<1> QED
  BY <1>1, <1>3, <1>4 DEF Locked

\* What a tick makes of one address.
LEMMA AddressAges ==
    ASSUME LockInv, Tick, NEW a \in Addresses
    PROVE  /\ Recent(failures'[a]) /\ promised'[a] \in Nat
           /\ promised'[a] > 0 => /\ Len(failures'[a]) = Limit
                                  /\ promised'[a] = Window - Head(failures'[a])
           /\ promised[a] > 0 /\ promised'[a] = 0 => ~Locked(a)'
<1> DEFINE old == failures[a]
           new == failures'[a]
           left == promised[a]
<1>1. Limit \in Nat \ {0} /\ Window \in Nat \ {0}
  BY FormAssumption
<1>2. /\ Recent(old) /\ left \in Nat
      /\ left > 0 => Len(old) = Limit /\ left = Window - Head(old)
  BY DEF LockInv
<1>3. new = Aged(old) /\ promised'[a] = IF left = 0 THEN 0 ELSE left - 1
  BY DEF Tick
<1>4. /\ Recent(new)
      /\ old # <<>> /\ old[1] + 1 < Window => Len(new) = Len(old) /\ new[1] = old[1] + 1
      /\ old # <<>> /\ old[1] + 1 >= Window => Len(new) < Len(old)
  BY <1>2, <1>3, Ageing
<1>5. Locked(a)' <=> Len(new) >= Limit
  BY DEF Locked
<1>6. old \in Seq(Nat) /\ new \in Seq(Nat) /\ Len(old) \in Nat /\ Len(new) \in Nat
  BY <1>2, <1>4 DEF Recent
<1> DEFINE next == promised'[a]
<1> HIDE DEF old, new, left, next
<1>7. CASE left = 0
  BY <1>3, <1>4, <1>7 DEF new, left, next
<1>8. CASE left > 0
  <2>1. Len(old) = Limit /\ old # <<>> /\ Head(old) = old[1] /\ old[1] \in Nat /\ left = Window - old[1]
    <3>1. Len(old) = Limit /\ left = Window - Head(old)
      BY <1>2, <1>8
    <3>2. old # <<>> /\ 1 \in 1..Len(old)
      BY <1>1, <1>6, <3>1
    <3> QED
      BY <1>6, <3>1, <3>2
  <2>2. next = left - 1 /\ next \in Nat
    BY <1>2, <1>3, <1>8 DEF next
  <2>3. CASE old[1] + 1 < Window
    <3>1. Len(new) = Limit /\ new[1] = old[1] + 1
      BY <1>4, <2>1, <2>3
    <3>2. new # <<>> /\ Head(new) = new[1]
      BY <1>1, <1>6, <3>1
    <3>3. next = Window - Head(new) /\ next > 0
      BY <1>1, <2>1, <2>2, <2>3, <3>1, <3>2
    <3> QED
      BY <1>4, <2>2, <3>1, <3>3 DEF new, next
  <2>4. CASE old[1] + 1 >= Window
    <3>1. Len(new) < Limit
      BY <1>4, <2>1, <2>4
    <3>2. next = 0
      BY <1>1, <1>8, <2>1, <2>2, <2>4, <1>2
    <3>3. ~(Len(new) >= Limit)
      BY <1>1, <1>6, <3>1
    <3> QED
      BY <1>4, <1>5, <2>2, <3>2, <3>3 DEF new, next
  <2> QED
    BY <1>1, <2>1, <2>3, <2>4
<1> QED
  BY <1>2, <1>7, <1>8

\* A step keeps the promise, and lets it run out only when the address is open again.
LEMMA PromiseKept ==
    ASSUME LockInv, [Next]_vars
    PROVE  /\ LockInv'
           /\ \A a \in Addresses : promised[a] > 0 /\ promised'[a] = 0 => ~Locked(a)'
<1>0. \A r \in DOMAIN form : form[r].address \in Addresses
  BY FormAssumption DEF LockInv
<1>1. ASSUME UNCHANGED <<form, failures, promised>>
      PROVE  /\ LockInv'
             /\ \A a \in Addresses : promised[a] > 0 /\ promised'[a] = 0 => ~Locked(a)'
  BY <1>1, AddressesLeftAlone
<1>2. ASSUME NEW r \in DOMAIN form, Arrive(r)
      PROVE  /\ LockInv'
             /\ \A a \in Addresses : promised[a] > 0 /\ promised'[a] = 0 => ~Locked(a)'
  <2> DEFINE address == form[r].address
  <2>1. form' = form /\ failures' = failures /\ address \in Addresses
    BY <1>0, <1>2 DEF Arrive
  <2>2. CASE ~Locked(address)
    <3>1. promised' = promised
      BY <1>2, <2>2 DEF Arrive
    <3> QED
      BY <1>1, <2>1, <3>1
  <2>3. CASE Locked(address)
    <3>1. promised' = [promised EXCEPT ![address] = RetryAfter(address)]
      BY <1>2, <2>3 DEF Arrive
    <3>2. Len(failures[address]) = Limit /\ RetryAfter(address) \in Nat \ {0}
      BY <2>1, <2>3, LockedWaits
    <3>3. RetryAfter(address) = Window - Head(failures[address])
      BY DEF RetryAfter
    <3> DEFINE wait == RetryAfter(address)
    <3> HIDE DEF wait, address
    <3>4. /\ promised' \in [Addresses -> Nat]
          /\ \A a \in Addresses : promised'[a] = IF a = address THEN wait ELSE promised[a]
      BY <2>1, <3>1, <3>2 DEF LockInv, wait
    <3>5. LockInv'
      BY <2>1, <3>2, <3>3, <3>4 DEF LockInv, wait
    <3> QED
      BY <3>2, <3>4, <3>5 DEF wait
  <2> QED
    BY <2>2, <2>3
<1>3. ASSUME NEW r \in DOMAIN form, Unauthorized(r)
      PROVE  /\ LockInv'
             /\ \A a \in Addresses : promised[a] > 0 /\ promised'[a] = 0 => ~Locked(a)'
  <2>1. UNCHANGED <<form, promised>> /\ Failed(form[r].address) /\ form[r].address \in Addresses
    BY <1>0, <1>3 DEF Unauthorized
  <2>2. /\ failures' \in [Addresses -> Seq(Nat)]
        /\ \A b \in Addresses : /\ Recent(failures'[b])
                                /\ Locked(b) => failures'[b] = failures[b]
    BY <2>1, FailureCounted
  <2>3. \A a \in Addresses : promised[a] > 0 => Locked(a)
    <3> TAKE a \in Addresses
    <3>1. promised[a] > 0 => Len(failures[a]) = Limit
      BY DEF LockInv
    <3> QED
      BY <3>1, FormAssumption DEF Locked
  <2>4. LockInv'
    BY <2>1, <2>2, <2>3 DEF LockInv
  <2> QED
    BY <2>1, <2>4 DEF LockInv
<1>4. ASSUME Tick
      PROVE  /\ LockInv'
             /\ \A a \in Addresses : promised[a] > 0 /\ promised'[a] = 0 => ~Locked(a)'
  <2>1. \A a \in Addresses :
            /\ Recent(failures'[a]) /\ promised'[a] \in Nat
            /\ promised'[a] > 0 => /\ Len(failures'[a]) = Limit
                                   /\ promised'[a] = Window - Head(failures'[a])
            /\ promised[a] > 0 /\ promised'[a] = 0 => ~Locked(a)'
    BY <1>4, AddressAges
  <2>2. /\ form' = form /\ failures' = [a \in Addresses |-> failures'[a]]
        /\ promised' = [a \in Addresses |-> promised'[a]]
    BY <1>4 DEF Tick, requestVars
  <2>3. failures' \in [Addresses -> Seq(Nat)] /\ promised' \in [Addresses -> Nat]
    BY <2>1, <2>2 DEF Recent
  <2> QED
    BY <2>1, <2>2, <2>3 DEF LockInv
<1>5. ASSUME DayPasses \/ Restart
      PROVE  /\ LockInv'
             /\ \A a \in Addresses : promised[a] > 0 /\ promised'[a] = 0 => ~Locked(a)'
  BY <1>5, FailuresForgotten DEF DayPasses, Restart, requestVars
<1>6. ASSUME NEW r \in DOMAIN form, Request(r)
      PROVE  Arrive(r) \/ Unauthorized(r) \/ UNCHANGED <<form, failures, promised>>
  BY <1>6 DEF Request, Lookup, PostRun, WaitEnds, CallerLeaves, SecondEnd, RevokeKey, OpenStream,
              HeartbeatReads, Heartbeat, accessVars, requestVars
<1>7. ASSUME CliRevokes \/ Retention \/ (\E k \in CliKeys : CliReads(k))
             \/ (\E run \in DOMAIN made : RunEnds(run)) \/ UNCHANGED vars
      PROVE  UNCHANGED <<form, failures, promised>>
  BY <1>7 DEF CliRevokes, Retention, CliReads, RunEnds, vars, accessVars, requestVars
<1> QED
  BY <1>1, <1>2, <1>3, <1>4, <1>5, <1>6, <1>7 DEF Next

\* Retry-After is kept: when the time an address was told to wait has passed, it is not
\* locked (auth-guard.ts:44, 51).
THEOREM RetryAfterHolds == Spec => RetryAfterSuffices
<1>1. LockInv /\ [Next]_vars => LockInv'
  BY PromiseKept
<1>2. LockInv /\ [Next]_vars =>
        [\A a \in Addresses : promised[a] > 0 /\ promised'[a] = 0 => ~Locked(a)']_vars
  BY PromiseKept
<1> QED
  BY <1>1, <1>2, LockInitially, PTL DEF Spec, RetryAfterSuffices

-----------------------------------------------------------------------------
(* Slots for held responses.                                               *)

\* The requests whose responses a key has open.
Holding(k) == {r \in DOMAIN form : form[r].token = k /\ stage[r] = "held"}

LEMMA HoldingFinite ==
    ASSUME form \in Forms, NEW k
    PROVE  IsFiniteSet(Holding(k)) /\ Cardinality(Holding(k)) \in Nat
<1>1. IsFiniteSet(Requests) /\ Holding(k) \subseteq Requests
  BY FormAssumption DEF Holding
<1> QED
  BY <1>1, FS_Subset, FS_CardinalityType

\* A step that neither opens a held response nor ends one.
LEMMA NoneHeldOrFreed ==
    ASSUME SlotsExact, UNCHANGED <<form, waits>>,
           \A r \in DOMAIN form : stage'[r] = "held" <=> stage[r] = "held"
    PROVE  SlotsExact'
<1> SUFFICES ASSUME NEW k \in Keys
             PROVE  waits'[k] = Cardinality({r \in DOMAIN form' : form'[r].token = k /\ stage'[r] = "held"})
  BY DEF SlotsExact
<1>1. {r \in DOMAIN form' : form'[r].token = k /\ stage'[r] = "held"}
        = {r \in DOMAIN form : form[r].token = k /\ stage[r] = "held"}
  OBVIOUS
<1> QED
  BY <1>1 DEF SlotsExact

\* A response that begins to be held takes a slot of its key.
LEMMA SlotTaken ==
    ASSUME SlotsInv, NEW r \in DOMAIN form, stage[r] # "held", form[r].token \in Keys, form' = form,
           stage' = [stage EXCEPT ![r] = "held"],
           waits' = [waits EXCEPT ![form[r].token] = @ + 1]
    PROVE  SlotsExact' /\ waits' \in [Keys -> Nat]
<1> DEFINE token == form[r].token
<1>1. form \in Forms /\ r \in Requests /\ stage \in [Requests -> Stages] /\ waits \in [Keys -> Nat]
  BY FormAssumption DEF SlotsInv
<1>2. SUFFICES ASSUME NEW k \in Keys
               PROVE  waits'[k] = Cardinality(Holding(k)')
  BY <1>1 DEF SlotsExact, Holding
<1>3. waits[k] = Cardinality(Holding(k))
  BY DEF SlotsInv, SlotsExact, Holding
<1>4. CASE k = token
  <2>1. Holding(k)' = Holding(k) \cup {r} /\ r \notin Holding(k)
    BY <1>1, <1>4 DEF Holding
  <2>2. Cardinality(Holding(k) \cup {r}) = Cardinality(Holding(k)) + 1
    BY <1>1, <2>1, HoldingFinite, FS_AddElement
  <2>3. waits'[k] = waits[k] + 1
    BY <1>1, <1>4
  <2> QED
    BY <1>3, <2>1, <2>2, <2>3
<1>5. CASE k # token
  <2>1. Holding(k)' = Holding(k)
    BY <1>1, <1>5 DEF Holding
  <2>2. waits'[k] = waits[k]
    BY <1>1, <1>5
  <2> QED
    BY <1>3, <2>1, <2>2
<1> QED
  BY <1>4, <1>5

\* The first end of a held response gives the slot back, and there is one to give.
LEMMA SlotGivenBack ==
    ASSUME SlotsInv, NEW r \in DOMAIN form, stage[r] = "held", form' = form,
           NEW s, s # "held", stage' = [stage EXCEPT ![r] = s], Freed(form[r].token)
    PROVE  SlotsExact' /\ waits' \in [Keys -> Nat]
<1> DEFINE token == form[r].token
<1>1. /\ form \in Forms /\ r \in Requests /\ stage \in [Requests -> Stages]
      /\ waits \in [Keys -> Nat] /\ token \in Keys
  BY FormAssumption DEF SlotsInv
<1>2. waits' = [waits EXCEPT ![token] = IF waits[token] = 0 THEN 0 ELSE waits[token] - 1]
  BY <1>1 DEF Freed
<1>3. waits' \in [Keys -> Nat]
  BY <1>1, <1>2
<1>4. SUFFICES ASSUME NEW k \in Keys
               PROVE  waits'[k] = Cardinality(Holding(k)')
  BY <1>3 DEF SlotsExact, Holding
<1>5. waits[k] = Cardinality(Holding(k))
  BY DEF SlotsInv, SlotsExact, Holding
<1>6. CASE k = token
  <2>1. Holding(k)' = Holding(k) \ {r} /\ r \in Holding(k)
    BY <1>1, <1>6 DEF Holding
  <2>2. Cardinality(Holding(k) \ {r}) = Cardinality(Holding(k)) - 1
    BY <1>1, <2>1, HoldingFinite, FS_RemoveElement
  <2>3. Cardinality(Holding(k)) # 0
    BY <1>1, <2>1, HoldingFinite, FS_EmptySet
  <2>4. waits'[k] = waits[k] - 1
    BY <1>1, <1>2, <1>5, <1>6, <2>3
  <2> QED
    BY <1>5, <2>1, <2>2, <2>4
<1>7. CASE k # token
  <2>1. Holding(k)' = Holding(k)
    BY <1>1, <1>7 DEF Holding
  <2>2. waits'[k] = waits[k]
    BY <1>1, <1>2, <1>7
  <2> QED
    BY <1>5, <2>1, <2>2
<1> QED
  BY <1>6, <1>7

\* What is left to show of a step after which no handler is at work.
LEMMA Settled ==
    ASSUME SlotsInv, form' = form, reading' = None, copy' = None, SlotsExact',
           waits' \in [Keys -> Nat], NEW r \in DOMAIN form, NEW s \in Stages,
           stage' = [stage EXCEPT ![r] = s],
           s \in {"held", "streaming"} => form[r].token \in Keys
    PROVE  SlotsInv'
<1>1. form \in Forms /\ r \in Requests /\ stage \in [Requests -> Stages]
  BY FormAssumption DEF SlotsInv
<1>2. /\ stage' \in [Requests -> Stages]
      /\ \A q \in Requests : stage'[q] = IF q = r THEN s ELSE stage[q]
  BY <1>1
<1>3. \A q \in DOMAIN form : q \in Requests
  BY <1>1, FormAssumption
<1> QED
  BY <1>1, <1>2, <1>3 DEF SlotsInv

\* The same of one that moves a request along, but not to or from a held response.
LEMMA Moved ==
    ASSUME SlotsInv, UNCHANGED <<form, waits>>, reading' = None, copy' = None,
           NEW r \in DOMAIN form, stage[r] # "held", NEW s \in Stages \ {"held"},
           stage' = [stage EXCEPT ![r] = s],
           s = "streaming" => form[r].token \in Keys
    PROVE  SlotsInv'
<1>1. /\ form \in Forms /\ stage \in [Requests -> Stages] /\ waits \in [Keys -> Nat] /\ SlotsExact
      /\ \A q \in DOMAIN form : q \in Requests
  BY FormAssumption DEF SlotsInv
<1>2. \A q \in DOMAIN form : stage'[q] = "held" <=> stage[q] = "held"
  BY <1>1
<1>3. SlotsExact'
  BY <1>1, <1>2, NoneHeldOrFreed
<1> QED
  BY <1>1, <1>3, Settled

LEMMA SlotsInitially == Init => SlotsInv
<1> SUFFICES ASSUME Init
             PROVE  SlotsInv
  OBVIOUS
<1>1. /\ form \in Forms /\ stage = [r \in Requests |-> "new"] /\ waits = [k \in Keys |-> 0]
      /\ reading = None /\ copy = None
  BY DEF Init
<1>2. \A r \in DOMAIN form : r \in Requests
  BY <1>1, FormAssumption
<1>3. \A k \in Keys : {r \in DOMAIN form : form[r].token = k /\ stage[r] = "held"} = {}
  BY <1>1, <1>2
<1>4. SlotsExact
  BY <1>1, <1>3, FS_EmptySet DEF SlotsExact
<1> QED
  BY <1>1, <1>2, <1>4 DEF SlotsInv, Stages

\* The answers of a handler: POST /runs holds a response for a key that it has a slot of.
LEMMA PostRunSlots ==
    ASSUME SlotsInv, NEW r \in DOMAIN form, PostRun(r)
    PROVE  SlotsInv'
<1>1. /\ form' = form /\ reading = r /\ reading' = None /\ copy' = None /\ copy # None
  BY DEF PostRun, Handled, Accepted
<1>2. stage[r] # "held" /\ form[r].token \in Keys
  BY <1>1 DEF SlotsInv
<1>3. ASSUME NEW run, Responds(r, run)
      PROVE  SlotsInv'
  <2>1. CASE form[r].wait
    <3>1. /\ stage' = [stage EXCEPT ![r] = "held"]
          /\ waits' = [waits EXCEPT ![form[r].token] = @ + 1]
      BY <1>3, <2>1 DEF Responds
    <3>2. SlotsExact' /\ waits' \in [Keys -> Nat]
      BY <1>1, <1>2, <3>1, SlotTaken
    <3>3. "held" \in Stages
      BY DEF Stages
    <3> QED
      BY <1>1, <1>2, <3>1, <3>2, <3>3, Settled
  <2>2. CASE ~form[r].wait
    <3>1. stage' = [stage EXCEPT ![r] = "answered"] /\ waits' = waits
      BY <1>3, <2>2 DEF Responds, Answers
    <3>2. "answered" \in Stages \ {"held"} /\ "answered" # "streaming"
      BY DEF Stages
    <3> QED
      BY <1>1, <1>2, <3>1, <3>2, Moved
  <2> QED
    BY <2>1, <2>2
<1>4. ASSUME NEW status, Answers(r, status, 0), UNCHANGED waits
      PROVE  SlotsInv'
  <2>1. stage' = [stage EXCEPT ![r] = "answered"] /\ waits' = waits
    BY <1>4 DEF Answers
  <2>2. "answered" \in Stages \ {"held"} /\ "answered" # "streaming"
    BY DEF Stages
  <2> QED
    BY <1>1, <1>2, <2>1, <2>2, Moved
<1>5. CASE Recall(r)
  BY <1>3, <1>4, <1>5 DEF Recall
<1>6. CASE Create(r)
  BY <1>3, <1>6 DEF Create
<1>7. CASE Refuse(r)
  BY <1>4, <1>7 DEF Refuse
<1>8. CASE Answers(r, 429, 0) /\ UNCHANGED <<waits, made, commands>>
  BY <1>4, <1>8
<1> QED
  BY <1>5, <1>6, <1>7, <1>8 DEF PostRun

LEMMA RequestSlots ==
    ASSUME SlotsInv, NEW r \in DOMAIN form, Request(r)
    PROVE  SlotsInv'
<1>1. /\ form \in Forms /\ r \in Requests /\ stage \in [Requests -> Stages]
      /\ reading = None => copy = None
      /\ reading # None => stage[reading] \in {"arrived", "streaming"}
      /\ copy # None => form[reading].token \in Keys
  BY FormAssumption DEF SlotsInv
<1>2. /\ Stages \ {"held"} = {"new", "arrived", "closing", "left", "streaming", "answered"}
      /\ "closing" \in Stages /\ "left" \in Stages
  BY DEF Stages
<1>3. CASE Arrive(r)
  <2>1. PICK s \in {"arrived", "answered"} : stage' = [stage EXCEPT ![r] = s]
    BY <1>3 DEF Arrive, Answers
  <2>2. /\ UNCHANGED <<form, waits>> /\ stage[r] = "new"
        /\ reading' = None /\ copy' = None
    BY <1>1, <1>3 DEF Arrive, runVars
  <2> QED
    BY <1>2, <2>1, <2>2, Moved
<1>4. CASE Unauthorized(r) \/ RevokeKey(r)
  <2>1. stage' = [stage EXCEPT ![r] = "answered"]
    BY <1>4 DEF Unauthorized, RevokeKey, Answers
  <2>2. UNCHANGED <<form, waits>> /\ reading = r /\ reading' = None /\ copy' = None
    BY <1>4 DEF Unauthorized, RevokeKey, Handled, runVars
  <2>3. stage[r] # "held"
    BY <1>1, <1>4, <2>2, FormAssumption DEF Unauthorized, RevokeKey, SlotsInv
  <2> QED
    BY <1>2, <2>1, <2>2, <2>3, Moved
<1>5. CASE OpenStream(r)
  <2>1. stage' = [stage EXCEPT ![r] = "streaming"] /\ stage[r] = "arrived" /\ copy # None
    BY <1>5 DEF OpenStream, Accepted
  <2>2. UNCHANGED <<form, waits>> /\ reading = r /\ reading' = None /\ copy' = None
    BY <1>5 DEF OpenStream, Handled, runVars
  <2> QED
    BY <1>1, <1>2, <2>1, <2>2, Moved
<1>6. CASE Heartbeat(r)
  <2>1. /\ UNCHANGED <<form, waits>> /\ reading = r /\ reading' = None /\ copy' = None
        /\ stage[r] = "streaming"
    BY <1>6 DEF Heartbeat, Handled, runVars
  <2>2. form[r].token \in Keys
    BY <2>1 DEF SlotsInv
  <2>3. stage' = stage \/ stage' = [stage EXCEPT ![r] = "answered"]
    BY <1>6 DEF Heartbeat, Answers
  <2>4. stage' = [stage EXCEPT ![r] = "streaming"] \/ stage' = [stage EXCEPT ![r] = "answered"]
    BY <1>1, <2>1, <2>3
  <2> QED
    BY <1>2, <2>1, <2>2, <2>4, Moved
<1>7. CASE SecondEnd(r)
  <2>1. stage' = [stage EXCEPT ![r] = "answered"] /\ stage[r] # "held"
    BY <1>7 DEF SecondEnd
  <2>2. UNCHANGED <<form, waits>> /\ reading' = None /\ copy' = None
    BY <1>1, <1>7 DEF SecondEnd, runVars
  <2> QED
    BY <1>2, <2>1, <2>2, Moved
<1>8. CASE WaitEnds(r) \/ CallerLeaves(r)
  <2>1. PICK s \in {"closing", "left"} : stage' = [stage EXCEPT ![r] = s]
    BY <1>8 DEF WaitEnds, CallerLeaves
  <2>2. /\ stage[r] = "held" /\ Freed(form[r].token)
        /\ form' = form /\ reading' = None /\ copy' = None
    BY <1>1, <1>8 DEF WaitEnds, CallerLeaves
  <2>3. s # "held" /\ s \notin {"held", "streaming"}
    OBVIOUS
  <2>4. SlotsExact' /\ waits' \in [Keys -> Nat]
    BY <2>1, <2>2, <2>3, SlotGivenBack
  <2> QED
    BY <1>2, <2>1, <2>2, <2>3, <2>4, Settled
<1>9. CASE Lookup(r) \/ HeartbeatReads(r)
  <2>1. /\ UNCHANGED <<form, stage, waits>> /\ reading' = r
        /\ stage[r] \in {"arrived", "streaming"}
    BY <1>9 DEF Lookup, HeartbeatReads, runVars
  <2>2. r # None
    BY <1>1, FormAssumption
  <2>3. copy' # None => form[r].token \in Keys
    BY <1>9 DEF Lookup, HeartbeatReads, SlotsInv
  <2>4. SlotsExact'
    BY <2>1, NoneHeldOrFreed DEF SlotsInv
  <2> QED
    BY <2>1, <2>2, <2>3, <2>4 DEF SlotsInv
<1>10. CASE PostRun(r)
  BY <1>10, PostRunSlots
<1> QED
  BY <1>3, <1>4, <1>5, <1>6, <1>7, <1>8, <1>9, <1>10 DEF Request

LEMMA RestartFreesAll ==
    ASSUME SlotsInv, Restart
    PROVE  SlotsInv'
<1>1. /\ form \in Forms /\ stage \in [Requests -> Stages]
      /\ \A r \in DOMAIN form : r \in Requests
  BY FormAssumption DEF SlotsInv
<1>2. /\ form' = form /\ reading' = None /\ copy' = None /\ waits' = [k \in Keys |-> 0]
      /\ stage' = [r \in Requests |-> IF stage[r] = "new" THEN "new" ELSE "answered"]
  BY DEF Restart
<1>3. /\ stage' \in [Requests -> Stages] /\ waits' \in [Keys -> Nat]
      /\ \A r \in DOMAIN form : stage'[r] \notin {"held", "streaming"}
  BY <1>1, <1>2 DEF Stages
<1>4. \A k \in Keys : {r \in DOMAIN form' : form'[r].token = k /\ stage'[r] = "held"} = {}
  BY <1>2, <1>3
<1>5. SlotsExact'
  BY <1>2, <1>4, FS_EmptySet DEF SlotsExact
<1> QED
  BY <1>1, <1>2, <1>3, <1>5 DEF SlotsInv

\* A key's count of wait= slots is the number of responses held for it (app.ts:382-410).
THEOREM SlotsExactHolds == Spec => []SlotsExact
<1>1. ASSUME SlotsInv, [Next]_vars
      PROVE  SlotsInv'
  <2>1. CASE \E r \in DOMAIN form : Request(r)
    BY <1>1, <2>1, RequestSlots
  <2>2. CASE Restart
    BY <1>1, <2>2, RestartFreesAll
  <2>3. CASE \/ \E k \in CliKeys : CliReads(k)
             \/ \E run \in DOMAIN made : RunEnds(run)
             \/ CliRevokes \/ Retention \/ Tick \/ DayPasses \/ UNCHANGED vars
    <3>1. UNCHANGED <<form, stage, reading, copy, waits>>
      BY <2>3 DEF CliReads, RunEnds, CliRevokes, Retention, Tick, DayPasses, vars, requestVars, runVars
    <3>2. SlotsExact'
      BY <1>1, <3>1, NoneHeldOrFreed DEF SlotsInv
    <3> QED
      BY <1>1, <3>1, <3>2 DEF SlotsInv
  <2> QED
    BY <1>1, <2>1, <2>2, <2>3 DEF Next
<1>2. SlotsInv => SlotsExact
  BY DEF SlotsInv
<1> QED
  BY <1>1, <1>2, SlotsInitially, PTL DEF Spec

-----------------------------------------------------------------------------
(* Retried commands.                                                       *)

\* A run that a request may be told of.
Tells(r, run) ==
    run \in 1..Len(made) /\ made[run].command = Command(r) /\ made[run].body = form[r].body

LEMMA RunsTypes ==
    ASSUME RunsInv
    PROVE  /\ form \in Forms /\ day \in {0, 1} /\ Len(made) \in Nat /\ DOMAIN made = 1..Len(made)
           /\ \A r \in DOMAIN form : r \in Requests
           /\ \A i \in 1..Len(made) : made[i] \in Runs
           /\ answer \in [Requests -> [status : Nat, run : Nat]]
           /\ \A r \in DOMAIN form : answer[r].run # 0 => Tells(r, answer[r].run)
BY FormAssumption DEF RunsInv, RunsTyped, AnswersKnown, AnswersOwn, Tells

\* A step that tells callers of their own runs only.
LEMMA RunsTold ==
    ASSUME RunsInv, UNCHANGED <<form, made, commands, day>>,
           answer' \in [Requests -> [status : Nat, run : Nat]],
           \A r \in DOMAIN form :
                answer'[r].run \in {0, answer[r].run} \/ Tells(r, answer'[r].run)
    PROVE  RunsInv'
<1>1. \A r \in DOMAIN form : answer'[r].run # 0 => Tells(r, answer'[r].run)
  BY RunsTypes
<1>2. AnswersKnown' /\ AnswersOwn'
  BY <1>1 DEF AnswersKnown, AnswersOwn, Tells, Command
<1>3. RunsTyped'
  BY DEF RunsInv, RunsTyped, Runs, Command
<1>4. RecordsTrue' /\ TodayRecorded' /\ OneRunPerCommand'
  BY DEF RunsInv, RecordsTrue, TodayRecorded, OneRunPerCommand
<1> QED
  BY <1>2, <1>3, <1>4 DEF RunsInv

\* A response that names no run, or one of its own.
LEMMA Answered ==
    ASSUME RunsInv, UNCHANGED <<form, made, commands, day>>, NEW r \in DOMAIN form,
           NEW status \in Nat, NEW run \in Nat, Answers(r, status, run),
           run = 0 \/ Tells(r, run)
    PROVE  RunsInv'
<1>1. answer \in [Requests -> [status : Nat, run : Nat]] /\ \A q \in DOMAIN form : q \in Requests
  BY RunsTypes
<1> DEFINE new == [status |-> status, run |-> run]
<1>2. answer' = [answer EXCEPT ![r] = new]
  BY DEF Answers
<1>3. new \in [status : Nat, run : Nat] /\ new.run = run
  OBVIOUS
<1> HIDE DEF new
<1>4. /\ answer' \in [Requests -> [status : Nat, run : Nat]]
      /\ \A q \in DOMAIN form : answer'[q] = IF q = r THEN new ELSE answer[q]
  BY <1>1, <1>2, <1>3
<1> QED
  BY <1>1, <1>3, <1>4, RunsTold

\* Runs end and are removed, records go when their day is over; what a run was asked for stays.
LEMMA RunsKept ==
    ASSUME RunsInv, UNCHANGED <<form, answer, day>>, made' \in Seq(Runs), Len(made') = Len(made),
           \A i \in 1..Len(made) : /\ made'[i].command = made[i].command
                                   /\ made'[i].body = made[i].body
                                   /\ made'[i].day = made[i].day,
           commands' \subseteq commands,
           \A c \in commands : c.day = day => c \in commands'
    PROVE  RunsInv'
<1>1. /\ form \in Forms /\ day \in {0, 1} /\ Len(made) \in Nat /\ DOMAIN made = 1..Len(made)
      /\ DOMAIN made' = 1..Len(made)
  BY RunsTypes
<1>2. RunsTyped'
  BY DEF RunsInv, RunsTyped, Runs, Command
<1>3. RecordsTrue'
  BY DEF RunsInv, RecordsTrue
<1>4. TodayRecorded'
  <2> SUFFICES ASSUME NEW i \in 1..Len(made)
               PROVE  /\ made[i].day <= day
                      /\ made[i].day = day /\ made[i].command.idem # None =>
                            \E c \in commands' : c.run = i
    BY DEF TodayRecorded
  <2>1. /\ made[i].day <= day
        /\ made[i].day = day /\ made[i].command.idem # None => \E c \in commands : c.run = i
    BY DEF RunsInv, TodayRecorded
  <2>2. \A c \in commands : c.run = i => c.day = made[i].day
    BY DEF RunsInv, RecordsTrue
  <2> QED
    BY <2>1, <2>2
<1>5. OneRunPerCommand'
  BY <1>1 DEF RunsInv, OneRunPerCommand
<1>6. AnswersKnown' /\ AnswersOwn'
  BY DEF RunsInv, AnswersKnown, AnswersOwn, Command
<1> QED
  BY <1>2, <1>3, <1>4, <1>5, <1>6 DEF RunsInv

\* A run that changes its state only is a run of the same request.
LEMMA StateOnly ==
    ASSUME RunsInv, NEW i \in 1..Len(made), NEW state \in {"active", "over", "removed"}
    PROVE  LET run == [made[i] EXCEPT !.state = state]
           IN  /\ run \in Runs /\ run.command = made[i].command
               /\ run.body = made[i].body /\ run.day = made[i].day
<1> DEFINE old == made[i]
<1>1. old \in Runs
  BY RunsTypes
<1> HIDE DEF old
<1>2. LET run == [old EXCEPT !.state = state]
      IN  /\ run \in Runs /\ run.command = old.command /\ run.body = old.body /\ run.day = old.day
  BY <1>1 DEF Runs
<1> QED
  BY <1>2 DEF old

LEMMA RunsInitially == Init => RunsInv
<1> SUFFICES ASSUME Init
             PROVE  RunsInv
  OBVIOUS
<1>1. /\ form \in Forms /\ made = <<>> /\ commands = {} /\ day = 0
      /\ answer = [r \in Requests |-> [status |-> 0, run |-> 0]]
      /\ \A r \in DOMAIN form : r \in Requests
  BY FormAssumption DEF Init
<1>2. Len(made) = 0 /\ DOMAIN made = {} /\ 1..Len(made) = {} /\ made \in Seq(Runs)
  BY <1>1
<1>3. /\ answer \in [Requests -> [status : Nat, run : Nat]]
      /\ \A r \in DOMAIN form : answer[r].run = 0
  BY <1>1
<1> QED
  BY <1>1, <1>2, <1>3 DEF RunsInv, RunsTyped, RecordsTrue, TodayRecorded, AnswersKnown,
                          OneRunPerCommand, AnswersOwn

\* What a response that names a run leaves in the answers.
LEMMA Responded ==
    ASSUME RunsInv, NEW r \in DOMAIN form, NEW run \in Nat, Responds(r, run)
    PROVE  /\ answer' \in [Requests -> [status : Nat, run : Nat]]
           /\ \A q \in DOMAIN form : answer'[q].run = IF q = r THEN run ELSE answer[q].run
<1>1. answer \in [Requests -> [status : Nat, run : Nat]] /\ \A q \in DOMAIN form : q \in Requests
  BY RunsTypes
<1> DEFINE old == answer[r]
<1>2. old \in [status : Nat, run : Nat]
  BY <1>1
<1>3. PICK new \in [status : Nat, run : Nat] : new.run = run /\ answer' = [answer EXCEPT ![r] = new]
  <2>1. CASE ~form[r].wait
    <3> DEFINE new == [status |-> 202, run |-> run]
    <3>1. answer' = [answer EXCEPT ![r] = new]
      BY <2>1 DEF Responds, Answers
    <3>2. new \in [status : Nat, run : Nat] /\ new.run = run
      OBVIOUS
    <3> HIDE DEF new
    <3> QED
      BY <3>1, <3>2
  <2>2. CASE form[r].wait
    <3> DEFINE new == [old EXCEPT !.run = run]
    <3>1. answer' = [answer EXCEPT ![r] = new]
      BY <2>2 DEF Responds
    <3> HIDE DEF old
    <3>2. new \in [status : Nat, run : Nat] /\ new.run = run
      BY <1>2
    <3> HIDE DEF new
    <3> QED
      BY <3>1, <3>2
  <2> QED
    BY <2>1, <2>2
<1> QED
  BY <1>1, <1>3

\* What the table remembers of a command, it may be told.
LEMMA RecallSound ==
    ASSUME RunsInv, NEW r \in DOMAIN form, Recall(r), UNCHANGED <<form, day>>
    PROVE  RunsInv'
<1>1. PICK c \in Stored(r) :
        /\ UNCHANGED <<made, commands>>
        /\ IF c.body # form[r].body THEN Answers(r, 409, 0) /\ UNCHANGED waits
           ELSE IF made[c.run].state = "removed" THEN Answers(r, 404, 0) /\ UNCHANGED waits
           ELSE Responds(r, c.run)
  BY DEF Recall
<1>2. c \in commands /\ c.command = Command(r)
  BY DEF Stored
<1>3. c.body = form[r].body => Tells(r, c.run)
  BY <1>2 DEF RunsInv, RecordsTrue, Tells
<1>4. c.run \in Nat
  BY <1>2, RunsTypes DEF RunsInv, RecordsTrue
<1>5. CASE \E status \in {404, 409} : Answers(r, status, 0)
  BY <1>1, <1>5, Answered
<1>6. CASE c.body = form[r].body /\ Responds(r, c.run)
  <2>1. /\ answer' \in [Requests -> [status : Nat, run : Nat]]
        /\ \A q \in DOMAIN form : answer'[q].run = IF q = r THEN c.run ELSE answer[q].run
    BY <1>4, <1>6, Responded
  <2> QED
    BY <1>1, <1>3, <1>6, <2>1, RunsTold
<1> QED
  BY <1>1, <1>5, <1>6

\* A command without a record has no run of today, so a new one is its only one.
LEMMA CreateSound ==
    ASSUME RunsInv, NEW r \in DOMAIN form, Create(r), UNCHANGED <<form, day>>
    PROVE  RunsInv'
<1> DEFINE run == Len(made) + 1
           record == [command |-> Command(r), body |-> form[r].body, run |-> run, day |-> day]
<1>1. /\ form \in Forms /\ day \in {0, 1} /\ Len(made) \in Nat /\ DOMAIN made = 1..Len(made)
      /\ made \in Seq(Runs) /\ \A q \in DOMAIN form : q \in Requests
  BY RunsTypes DEF RunsInv, RunsTyped
<1>2. /\ NewRun(r) \in Runs /\ NewRun(r).command = Command(r) /\ NewRun(r).body = form[r].body
      /\ NewRun(r).day = day /\ Command(r).idem = form[r].idem
  BY <1>1 DEF NewRun, Runs, Command
<1>3. /\ Stored(r) = {} /\ made' = Append(made, NewRun(r)) /\ Responds(r, run)
      /\ commands' = IF form[r].idem = None THEN commands ELSE commands \cup {record}
  BY DEF Create
<1>4. /\ made' \in Seq(Runs) /\ Len(made') = run /\ made'[run] = NewRun(r)
      /\ DOMAIN made' = 1..run
      /\ \A i \in 1..Len(made) : made'[i] = made[i]
  BY <1>1, <1>2, <1>3
<1>5. /\ answer' \in [Requests -> [status : Nat, run : Nat]]
      /\ \A q \in DOMAIN form : answer'[q].run = IF q = r THEN run ELSE answer[q].run
  BY <1>1, <1>3, Responded
<1>6. /\ record.command = Command(r) /\ record.body = form[r].body
      /\ record.run = run /\ record.day = day
  OBVIOUS
<1>7. \A i \in 1..run : i \in 1..Len(made) \/ i = run
  BY <1>1
<1> HIDE DEF record, run
<1>8. RunsTyped'
  BY <1>1, <1>4, <1>5 DEF RunsTyped, Runs, Command
<1>9. run \in 1..run /\ 1..Len(made) \subseteq 1..run /\ run \notin 1..Len(made) /\ run # 0
  BY <1>1 DEF run
<1>10. RecordsTrue'
  <2> SUFFICES ASSUME NEW c \in commands'
               PROVE  /\ c.run \in 1..run
                      /\ made'[c.run].command = c.command /\ made'[c.run].body = c.body
                      /\ made'[c.run].day = c.day
    BY <1>4 DEF RecordsTrue
  <2>1. CASE c \in commands
    <3>1. /\ c.run \in 1..Len(made)
          /\ made[c.run].command = c.command /\ made[c.run].body = c.body
          /\ made[c.run].day = c.day
      BY <2>1 DEF RunsInv, RecordsTrue
    <3> QED
      BY <1>4, <1>9, <3>1
  <2>2. CASE c = record
    BY <1>2, <1>4, <1>6, <1>9, <2>2
  <2> QED
    BY <1>3, <2>1, <2>2
<1>11. TodayRecorded'
  <2> SUFFICES ASSUME NEW i \in 1..run
               PROVE  /\ made'[i].day <= day
                      /\ made'[i].day = day /\ made'[i].command.idem # None =>
                            \E c \in commands' : c.run = i
    BY <1>4 DEF TodayRecorded
  <2>1. CASE i \in 1..Len(made)
    <3>1. /\ made[i].day <= day
          /\ made[i].day = day /\ made[i].command.idem # None => \E c \in commands : c.run = i
      BY <2>1 DEF RunsInv, TodayRecorded
    <3>2. commands \subseteq commands' /\ made'[i] = made[i]
      BY <1>3, <1>4, <2>1
    <3> QED
      BY <3>1, <3>2
  <2>2. CASE i = run
    BY <1>1, <1>2, <1>3, <1>4, <1>6, <2>2
  <2> QED
    BY <1>7, <2>1, <2>2
<1>12. \A j \in 1..Len(made) :
            made[j].command = Command(r) /\ form[r].idem # None => made[j].day # day
  <2> SUFFICES ASSUME NEW j \in 1..Len(made), made[j].command = Command(r), form[r].idem # None,
                      made[j].day = day
               PROVE  FALSE
    OBVIOUS
  <2>1. PICK c \in commands : c.run = j
    BY <1>2 DEF RunsInv, TodayRecorded
  <2>2. c.command = Command(r)
    BY <2>1 DEF RunsInv, RecordsTrue
  <2> QED
    BY <1>3, <2>2 DEF Stored
<1>13. OneRunPerCommand'
  <2> SUFFICES ASSUME NEW i \in 1..run, NEW j \in 1..run, i # j,
                      made'[i].command = made'[j].command, made'[i].command.idem # None
               PROVE  made'[i].day # made'[j].day
    BY <1>4 DEF OneRunPerCommand
  <2>1. CASE i \in 1..Len(made) /\ j \in 1..Len(made)
    <3>1. made'[i] = made[i] /\ made'[j] = made[j]
      BY <1>4, <2>1
    <3>2. i \in DOMAIN made /\ j \in DOMAIN made
      BY <1>1, <2>1
    <3> QED
      BY <3>1, <3>2 DEF RunsInv, OneRunPerCommand
  <2>2. CASE i = run /\ j \in 1..Len(made)
    BY <1>2, <1>4, <1>12, <2>2
  <2>3. CASE i \in 1..Len(made) /\ j = run
    BY <1>2, <1>4, <1>12, <2>3
  <2> QED
    BY <1>7, <2>1, <2>2, <2>3
<1>14. \A q \in DOMAIN form : answer'[q].run # 0 =>
            /\ answer'[q].run \in 1..run
            /\ made'[answer'[q].run].command = Command(q) /\ made'[answer'[q].run].body = form[q].body
  <2> TAKE q \in DOMAIN form
  <2>1. CASE q = r
    BY <1>2, <1>4, <1>5, <1>9, <2>1
  <2>2. CASE q # r
    <3>1. answer[q].run # 0 => Tells(q, answer[q].run)
      BY RunsTypes
    <3>2. answer'[q].run = answer[q].run
      BY <1>5, <2>2
    <3> QED
      BY <1>4, <1>9, <3>1, <3>2 DEF Tells
  <2> QED
    BY <2>1, <2>2
<1>15. AnswersKnown' /\ AnswersOwn'
  BY <1>4, <1>14 DEF AnswersKnown, AnswersOwn, Command
<1> QED
  BY <1>8, <1>10, <1>11, <1>13, <1>15 DEF RunsInv

LEMMA RequestRuns ==
    ASSUME RunsInv, NEW r \in DOMAIN form, Request(r)
    PROVE  RunsInv'
<1>1. answer \in [Requests -> [status : Nat, run : Nat]] /\ r \in Requests
  BY RunsTypes
<1>2. UNCHANGED <<form, day>>
  BY DEF Request, Arrive, Lookup, Unauthorized, PostRun, WaitEnds, CallerLeaves, SecondEnd,
         RevokeKey, OpenStream, HeartbeatReads, Heartbeat
<1>3. CASE PostRun(r)
  <2>1. CASE Recall(r)
    BY <1>2, <2>1, RecallSound
  <2>2. CASE Create(r)
    BY <1>2, <2>2, CreateSound
  <2>3. CASE Refuse(r) \/ (Answers(r, 429, 0) /\ UNCHANGED <<waits, made, commands>>)
    <3>1. UNCHANGED <<made, commands>> /\ \E status \in Nat : Answers(r, status, 0)
      BY <2>3 DEF Refuse
    <3> QED
      BY <1>2, <3>1, Answered
  <2> QED
    BY <1>3, <2>1, <2>2, <2>3 DEF PostRun
<1>4. CASE ~PostRun(r)
  <2>1. UNCHANGED <<made, commands>>
    BY <1>4 DEF Request, Arrive, Lookup, Unauthorized, WaitEnds, CallerLeaves, SecondEnd,
                RevokeKey, OpenStream, HeartbeatReads, Heartbeat, runVars
  <2>2. CASE answer' = answer
    BY <1>1, <1>2, <2>1, <2>2, RunsTold
  <2>3. CASE \E status \in Nat : Answers(r, status, 0)
    BY <1>2, <2>1, <2>3, Answered
  <2>4. CASE answer' = [answer EXCEPT ![r].status = 200]
    <3> DEFINE old == answer[r]
               new == [old EXCEPT !.status = 200]
    <3>1. answer' = [answer EXCEPT ![r] = new]
      BY <2>4
    <3>2. old \in [status : Nat, run : Nat]
      BY <1>1
    <3>3. new.run = answer[r].run
      BY <3>2
    <3> HIDE DEF old
    <3>4. new \in [status : Nat, run : Nat]
      BY <3>2
    <3> HIDE DEF new
    <3>5. /\ answer' \in [Requests -> [status : Nat, run : Nat]]
          /\ \A q \in DOMAIN form : answer'[q].run = answer[q].run
      BY <1>1, <3>1, <3>3, <3>4, RunsTypes
    <3> QED
      BY <1>2, <2>1, <3>5, RunsTold
  <2>5. \/ answer' = answer
        \/ answer' = [answer EXCEPT ![r].status = 200]
        \/ \E status \in Nat : Answers(r, status, 0)
    <3>1. CASE Arrive(r) \/ Lookup(r) \/ Unauthorized(r) \/ SecondEnd(r) \/ OpenStream(r)
               \/ HeartbeatReads(r) \/ CallerLeaves(r)
      BY <3>1 DEF Arrive, Lookup, Unauthorized, SecondEnd, OpenStream, HeartbeatReads, CallerLeaves
    <3>2. CASE RevokeKey(r)
      BY <3>2 DEF RevokeKey
    <3>3. CASE Heartbeat(r)
      BY <3>3 DEF Heartbeat
    <3>4. CASE WaitEnds(r)
      BY <3>4 DEF WaitEnds
    <3> QED
      BY <1>4, <3>1, <3>2, <3>3, <3>4 DEF Request
  <2> QED
    BY <2>2, <2>3, <2>4, <2>5
<1> QED
  BY <1>3, <1>4

\* Runs end, by themselves or with the daemon, and retention takes them away.
LEMMA RunsGoOn ==
    ASSUME RunsInv, (\E run \in DOMAIN made : RunEnds(run)) \/ Retention \/ Restart
    PROVE  RunsInv'
<1>1. Len(made) \in Nat /\ DOMAIN made = 1..Len(made) /\ made \in Seq(Runs)
  BY RunsTypes DEF RunsInv, RunsTyped
<1> DEFINE Changed(i) == {made[i]} \cup {[made[i] EXCEPT !.state = state] : state \in {"over", "removed"}}
<1>2. \A i \in 1..Len(made) : \A new \in Changed(i) :
        /\ new \in Runs /\ new.command = made[i].command
        /\ new.body = made[i].body /\ new.day = made[i].day
  <2> TAKE i \in 1..Len(made)
  <2>1. \A state \in {"over", "removed"} :
            LET run == [made[i] EXCEPT !.state = state]
            IN  /\ run \in Runs /\ run.command = made[i].command
                /\ run.body = made[i].body /\ run.day = made[i].day
    BY StateOnly
  <2>2. made[i] \in Runs
    BY RunsTypes
  <2> QED
    BY <2>1, <2>2, Zenon
<1>3. /\ DOMAIN made' = 1..Len(made) /\ made' = [i \in 1..Len(made) |-> made'[i]]
      /\ \A i \in 1..Len(made) : made'[i] \in Changed(i)
  <2>1. CASE \E run \in DOMAIN made : RunEnds(run)
    <3>1. PICK run \in 1..Len(made) : made' = [made EXCEPT ![run] = [made[run] EXCEPT !.state = "over"]]
      BY <1>1, <2>1 DEF RunEnds
    <3> DEFINE new == [made[run] EXCEPT !.state = "over"]
    <3>2. new \in Changed(run)
      OBVIOUS
    <3> HIDE DEF new
    <3>3. \A i \in 1..Len(made) : made'[i] = IF i = run THEN new ELSE made[i]
      BY <1>1, <3>1 DEF new
    <3>4. \A i \in 1..Len(made) : made[i] \in Changed(i)
      OBVIOUS
    <3>5. DOMAIN made' = 1..Len(made) /\ made' = [i \in 1..Len(made) |-> made'[i]]
      BY <1>1, <3>1
    <3> HIDE DEF Changed
    <3> QED
      BY <3>2, <3>3, <3>4, <3>5
  <2>2. CASE Retention
    BY <1>1, <2>2 DEF Retention
  <2>3. CASE Restart
    BY <1>1, <2>3 DEF Restart
  <2> QED
    BY <2>1, <2>2, <2>3
<1> HIDE DEF Changed
<1>4. /\ made' \in Seq(Runs) /\ Len(made') = Len(made)
      /\ \A i \in 1..Len(made) : /\ made'[i].command = made[i].command
                                 /\ made'[i].body = made[i].body
                                 /\ made'[i].day = made[i].day
  BY <1>1, <1>2, <1>3
<1>5. /\ UNCHANGED <<form, answer, day>> /\ commands' \subseteq commands
      /\ \A c \in commands : c.day = day => c \in commands'
  BY DEF RunEnds, Retention, Restart, requestVars
<1> QED
  BY <1>4, <1>5, RunsKept

\* Yesterday's commands may start their runs again: nothing of today has one yet.
LEMMA RunsNextDay ==
    ASSUME RunsInv, DayPasses
    PROVE  RunsInv'
<1>1. UNCHANGED <<form, answer, made, commands>> /\ day = 0 /\ day' = 1
  BY DEF DayPasses, requestVars, runVars
<1>2. RunsTyped' /\ RecordsTrue' /\ OneRunPerCommand' /\ AnswersKnown' /\ AnswersOwn'
  BY <1>1 DEF RunsInv, RunsTyped, Runs, RecordsTrue, OneRunPerCommand, AnswersKnown, AnswersOwn,
              Command
<1>3. TodayRecorded'
  <2>1. \A i \in 1..Len(made) : made[i].day <= 0 /\ made[i].day \in {0, 1}
    BY <1>1, RunsTypes DEF RunsInv, TodayRecorded, Runs
  <2> QED
    BY <1>1, <2>1 DEF TodayRecorded
<1> QED
  BY <1>2, <1>3 DEF RunsInv

\* A retried command starts no second run in its day, and no caller is told of another's
\* run or of one that was asked for otherwise (app.ts:227-264, gateway.ts:1005).
THEOREM IdempotentHolds == Spec => []Idempotent
<1>1. ASSUME RunsInv, [Next]_vars
      PROVE  RunsInv'
  <2>1. CASE \E r \in DOMAIN form : Request(r)
    BY <1>1, <2>1, RequestRuns
  <2>2. CASE (\E run \in DOMAIN made : RunEnds(run)) \/ Retention \/ Restart
    BY <1>1, <2>2, RunsGoOn
  <2>3. CASE DayPasses
    BY <1>1, <2>3, RunsNextDay
  <2>4. CASE (\E k \in CliKeys : CliReads(k)) \/ CliRevokes \/ Tick \/ UNCHANGED vars
    <3>1. UNCHANGED <<form, answer, made, commands, day>>
      BY <2>4 DEF CliReads, CliRevokes, Tick, vars, requestVars, runVars
    <3> QED
      BY <1>1, <3>1, RunsTold, RunsTypes
  <2> QED
    BY <1>1, <2>1, <2>2, <2>3, <2>4 DEF Next
<1>2. RunsInv => Idempotent
  BY DEF RunsInv, Idempotent
<1> QED
  BY <1>1, <1>2, RunsInitially, PTL DEF Spec

===============================================================================
