----------------------------- MODULE PolicyProofs -----------------------------
(***************************************************************************)
(* For every tree, operation, list and limit: what a judgement reached     *)
(* lies in the workspace and in no protected place, and an operation that  *)
(* passes names nothing outside it.  That needs no induction over the      *)
(* tree: a walk only goes from a directory to what lies directly in it, or *)
(* along a link whose end it has looked at.  First of all, what            *)
(* canonicalPath finds for a straight path is what the system finds, or    *)
(* nothing: by induction on its calls.  In the second half: an allowed     *)
(* read opens no secret the tool would open, for the walk has covered what *)
(* the tool covers; and a refusal has a cause, for the walk meets nothing  *)
(* the tool does not, and counts no file more often than the tool has ways *)
(* to it.                                                                  *)
(***************************************************************************)
EXTENDS Policy, FiniteSetTheorems, WellFoundedInduction, TLAPS

\* The natural numbers are well-founded, so that a set of them has a least element.
LEMMA Smallest ==
    ASSUME NEW T \in SUBSET Nat, T # {}
    PROVE  \E x \in T : \A y \in T : x <= y
<1>1. PICK x \in T : \A y \in T : <<y, x>> \notin OpToRel(<, Nat)
  BY NatLessThanWellFounded, WFMin
<1>2. \A y \in T : ~(y < x)
  BY <1>1 DEF OpToRel
<1> QED
  BY <1>2

-----------------------------------------------------------------------------
(* What canonicalPath finds.                                               *)

Tried(f, k) ==
    [p \in Path |-> [hops \in 0..MaxHops |-> IF k = 0 THEN NoPath ELSE Looked(f[k - 1], p, hops)]]

Calls(f, N) == f = [k \in 0..N |-> Tried(f, k)]

LEMMA CallsExist ==
    ASSUME NEW N \in Nat
    PROVE  \E f : Calls(f, N)
<1> DEFINE Upto(n) == \E f : Calls(f, n)
           T == {n \in Nat : ~Upto(n)}
<1>1. ASSUME T # {}
      PROVE  FALSE
  <2>1. PICK x \in T : \A y \in T : x <= y
    BY <1>1, Smallest, T \in SUBSET Nat
  <2>2. x \in Nat /\ ~Upto(x)
    BY <2>1
  <2>3. x # 0
    <3> DEFINE g == [k \in 0..0 |-> Tried([m \in {} |-> 0], 0)]
    <3>1. \A f : Tried(f, 0) = Tried([m \in {} |-> 0], 0)
      BY DEF Tried
    <3>2. Tried(g, 0) = Tried([m \in {} |-> 0], 0)
      BY <3>1
    <3>3. \A k \in 0..0 : k = 0
      OBVIOUS
    <3>4. Calls(g, 0)
      BY <3>2, <3>3 DEF Calls
    <3> QED
      BY <2>2, <3>4
  <2>4. x - 1 \in Nat /\ Upto(x - 1)
    <3>1. x - 1 \in Nat /\ ~(x <= x - 1)
      BY <2>2, <2>3
    <3> HIDE DEF Upto
    <3> QED
      BY <2>1, <3>1
  <2>5. PICK f : Calls(f, x - 1)
    BY <2>4
  <2> DEFINE g == [k \in 0..x |-> IF k < x THEN f[k] ELSE Tried(f, x)]
  <2>6. ASSUME NEW k \in 0..x
        PROVE  g[k] = Tried(g, k)
    <3>1. k < x => k \in 0..(x - 1)
      BY <2>2
    <3>2. k < x => f[k] = Tried(f, k)
      BY <2>5, <3>1 DEF Calls
    <3>3. k # 0 => k - 1 \in 0..x /\ k - 1 < x
      BY <2>2
    <3>4. k # 0 => g[k - 1] = f[k - 1]
      BY <3>3
    <3>5. g[k] = Tried(f, k)
      <4>1. ~(k < x) => k = x
        BY <2>2
      <4> QED
        BY <3>2, <4>1
    <3> HIDE DEF g
    <3>6. Tried(g, k) = Tried(f, k)
      BY <3>4 DEF Tried
    <3> QED
      BY <3>5, <3>6
  <2>7. Calls(g, x)
    BY <2>6 DEF Calls
  <2> QED
    BY <2>2, <2>7
<1> QED
  BY <1>1

LEMMA CanonicalCalls ==
    /\ Calls(CanonicalPath, MaxSteps)
    /\ \A k \in 0..MaxSteps, p \in Path, hops \in 0..MaxHops :
          CanonicalPath[k][p][hops]
            = IF k = 0 THEN NoPath ELSE Looked(CanonicalPath[k - 1], p, hops)
<1>1. CanonicalPath = CHOOSE f : Calls(f, MaxSteps)
  BY DEF CanonicalPath, Calls, Tried
<1>2. MaxSteps \in Nat
  BY DEF MaxSteps
<1>3. Calls(CanonicalPath, MaxSteps)
  BY <1>1, <1>2, CallsExist
<1>4. \A k \in 0..MaxSteps : CanonicalPath[k] = Tried(CanonicalPath, k)
  BY <1>3 DEF Calls
<1>5. \A f, k : \A p \in Path, hops \in 0..MaxHops :
          Tried(f, k)[p][hops] = IF k = 0 THEN NoPath ELSE Looked(f[k - 1], p, hops)
  BY DEF Tried
<1> QED
  BY <1>3, <1>4, <1>5

LEMMA EntryType ==
    ASSUME NEW dir, NEW name
    PROVE  Entry(dir, name) \in Node \cup {NoPath} /\ Entry(NoPath, name) = NoPath
<1>1. {n \in Node \ {FsRoot} : Parent[n] = NoPath /\ Name[n] = name} = {}
  BY TreeAssumption
<1> QED
  BY <1>1 DEF Entry

\* What one call returns for a path: a node or nothing, and for a straight path what the
\* system finds or nothing.
Finds(found, p) ==
    found \in Node \cup {NoPath} /\ (p \in Straight => found \in {NoPath, Real(p)})

LEMMA CallFinds ==
    ASSUME NEW rest, \A p \in Path, hops \in 0..MaxHops : Finds(rest[p][hops], p),
           NEW p \in Path, NEW hops \in 0..MaxHops
    PROVE  Finds(Looked(rest, p, hops), p)
<1> DEFINE entry == Lstat[p]
<1>1. entry \in Node \cup {NoPath} /\ Parent[p] \in Path /\ Relinked[p] \in Path
  BY TreeAssumption
<1>2. hops # MaxHops => 0 \in 0..MaxHops /\ hops + 1 \in 0..MaxHops
  BY DEF MaxHops
<1>3. entry # NoPath => Real(p) = Leads[entry] /\ (entry \notin Links => Leads[entry] = entry)
  BY <1>1, TreeAssumption, SystemAssumption DEF Real
<1>4. CASE hops = MaxHops
  BY <1>4 DEF Looked, Finds
<1>5. CASE hops # MaxHops /\ (entry = NoPath \/ Kind[entry] = "missing")
  <2> DEFINE above == rest[Parent[p]][0]
  <2>1. Looked(rest, p, hops) = Entry(above, Name[p])
    BY <1>5 DEF Looked
  <2>2. Finds(above, Parent[p])
    BY <1>1, <1>2, <1>5
  <2>3. p # FsRoot
    BY <1>5, TreeAssumption, SystemAssumption
  <2>4. ASSUME p \in Straight
        PROVE  Entry(above, Name[p]) \in {NoPath, Real(p)}
    <3>1. above \in {NoPath, Real(Parent[p])}
      BY <2>2, <2>4, StraightAssumption DEF Finds
    <3>2. entry = Entry(Real(Parent[p]), Name[p])
      BY <2>3, SystemAssumption
    <3>3. entry = NoPath \/ Real(p) = entry
      BY <1>1, <1>3, <1>5 DEF Links
    <3> HIDE DEF above
    <3> QED
      BY <3>1, <3>2, <3>3, EntryType
  <2> QED
    BY <2>1, <2>4, EntryType DEF Finds
<1>6. CASE hops # MaxHops /\ entry # NoPath /\ Kind[entry] = "link"
  <2>1. Looked(rest, p, hops) = rest[Relinked[p]][hops + 1]
    BY <1>6 DEF Looked
  <2>2. Finds(rest[Relinked[p]][hops + 1], Relinked[p])
    BY <1>1, <1>2, <1>6
  <2>3. entry \in Links
    BY <1>1, <1>6 DEF Links
  <2>4. p \in Straight => Relinked[p] \in Straight /\ Real(Relinked[p]) = Real(p)
    BY <2>3, StraightAssumption
  <2> QED
    BY <2>1, <2>2, <2>4 DEF Finds
<1>7. CASE hops # MaxHops /\ entry # NoPath /\ Kind[entry] \notin {"missing", "link"}
  <2>1. Looked(rest, p, hops) = entry
    BY <1>7 DEF Looked
  <2>2. entry \notin Links
    BY <1>7 DEF Links
  <2> QED
    BY <1>1, <1>3, <1>7, <2>1, <2>2 DEF Finds
<1> QED
  BY <1>4, <1>5, <1>6, <1>7

\* What canonicalPath finds is a node and no link, and the very one the system finds if the
\* path is straight (core/paths.ts).
LEMMA CanonicalFinds ==
    ASSUME NEW p \in Path
    PROVE  /\ Canonical(p) \in (Node \ Links) \cup {NoPath}
           /\ p \in Straight => Canonical(p) \in {NoPath, Real(p)}
<1> DEFINE Good(k) == \A q \in Path, hops \in 0..MaxHops : Finds(CanonicalPath[k][q][hops], q)
           T == {k \in 0..MaxSteps : ~Good(k)}
<1>1. \A k \in 0..MaxSteps, q \in Path, hops \in 0..MaxHops :
          CanonicalPath[k][q][hops] = IF k = 0 THEN NoPath ELSE Looked(CanonicalPath[k - 1], q, hops)
  BY CanonicalCalls
<1>2. ASSUME T # {}
      PROVE  FALSE
  <2>1. PICK x \in T : \A y \in T : x <= y
    BY <1>2, Smallest, T \in SUBSET Nat
  <2>2. x \in 0..MaxSteps /\ ~Good(x)
    BY <2>1
  <2>3. x # 0
    BY <1>1, <2>2 DEF Finds
  <2>4. x - 1 \in 0..MaxSteps /\ ~(x <= x - 1)
    BY <2>2, <2>3 DEF MaxSteps
  <2>5. Good(x - 1)
    <3> HIDE DEF Good
    <3> QED
      BY <2>1, <2>4
  <2>6. Good(x)
    BY <1>1, <2>2, <2>3, <2>5, CallFinds
  <2> QED
    BY <2>2, <2>6
<1>3. MaxSteps \in 0..MaxSteps /\ 0 \in 0..MaxHops
  BY DEF MaxSteps, MaxHops
<1>4. Good(MaxSteps)
  <2> HIDE DEF Good
  <2> QED
    BY <1>2, <1>3
<1>5. Canonical(p) = CanonicalPath[MaxSteps][p][0]
  BY TreeAssumption DEF Canonical
<1>6. Finds(Canonical(p), p)
  BY <1>3, <1>4, <1>5
<1> QED
  BY <1>6, SystemAssumption DEF Finds

LEMMA NoPathNowhere == NoPath \notin Node /\ NoPath \notin Straight /\ Canonical(NoPath) = NoPath
BY TreeAssumption, StraightAssumption DEF Canonical

\* What is neither missing nor a link is found where it is.
LEMMA SolidStays ==
    ASSUME NEW n \in Node, Kind[n] \notin {"missing", "link"}
    PROVE  Canonical(n) = n
<1>1. /\ n \in Path /\ Lstat[n] = n /\ n # NoPath
  BY TreeAssumption, SystemAssumption
<1>2. /\ MaxSteps \in 0..MaxSteps /\ MaxSteps # 0
      /\ 0 \in 0..MaxHops /\ 0 # MaxHops
  BY DEF MaxSteps, MaxHops
<1>3. CanonicalPath[MaxSteps][n][0] = Looked(CanonicalPath[MaxSteps - 1], n, 0)
  BY <1>1, <1>2, CanonicalCalls
<1> QED
  BY <1>1, <1>2, <1>3 DEF Canonical, Looked

\* A straight name that is followed to its end is followed to what is opened.
LEMMA StraightFound ==
    ASSUME NEW name, StraightName(name), Canonical(name.path) # NoPath
    PROVE  name.node = Canonical(name.path) /\ name.node \in Node \ Links
BY CanonicalFinds, StraightAssumption DEF StraightName

-----------------------------------------------------------------------------
(* Where a judgement goes.                                                 *)

Judging == at \in {"search", "walk", "git"}

Enrolled == at \notin {"enrol", "stranger"} => ~RefuseWorkspaceRoot(given.root)

Passed ==
    /\ Judging => ~ContainRefuses /\ verdict = "none"
    /\ at \in {"enrol", "stranger", "contain"} =>
          walk = NoWalk /\ searched = {} /\ verdict = "none"
    /\ Permitted => ~ContainRefuses

StartsInside(list) ==
    \A i \in DOMAIN list :
        list[i].dir \in Straight /\ Real(list[i].dir) \in Dirs => Real(list[i].dir) \in Inside

Solid == {n \in Node : Kind[n] # "missing"}

Walks ==
    [search : SearchRecord \cup {NoPath}, stack : Seq(Node), seen : SUBSET Node,
     dir : Node \cup {NoPath}, entries : SUBSET Solid, files : SUBSET Node, count : Nat]

Confined(w) ==
    w.stack \in Seq(Inside) /\ w.entries \subseteq Inside /\ w.files \subseteq Inside

IInv ==
    /\ given \in Cases
    /\ Enrolled
    /\ Passed
    /\ Judging => todo \in Seq(SearchRecord) /\ StartsInside(todo)
    /\ walk \in Walks
    /\ walk.search.dir \in Straight => Confined(walk)
    /\ \A s \in searched : s.where \in Straight => s.files \subseteq Inside

\* What lies directly in a directory of the workspace lies in the workspace
\* (reach.ts: `join(current, entry.name)`).
LEMMA ChildInside ==
    ASSUME given \in Cases, NEW dir \in Inside, NEW n \in Children(dir)
    PROVE  n \in Inside
BY TreeAssumption DEF Children, Inside, IsWithin

\* A workspace that was enrolled and a protected place have nothing in common
\* (refuseWorkspaceRoot).
LEMMA InsideUnprotected ==
    ASSUME given \in Cases, ~RefuseWorkspaceRoot(given.root), NEW f \in Inside,
           NEW p \in Protected
    PROVE  ~IsWithin(f, p)
BY TreeAssumption DEF RefuseWorkspaceRoot, Inside, IsWithin

\* Where a visited entry leads is a node, and in the workspace if the entry is.
LEMMA VisitedEnd ==
    ASSUME NEW n \in Solid, ~LeadsOut(n)
    PROVE  /\ Canonical(n) \in Node /\ Kind[Canonical(n)] \in {"dir", "file", "missing"}
           /\ Kind[n] # "link" => Canonical(n) = n
           /\ n \in Inside \/ Kind[n] = "link" => Canonical(n) \in Inside
<1>1. n \in Node /\ Kind[n] \in {"dir", "file", "link"} /\ n \in Path
  BY TreeAssumption DEF Solid
<1>2. CASE Kind[n] = "link"
  <2>1. Canonical(n) \in Inside /\ Canonical(n) \in Node
    BY <1>2 DEF LeadsOut, Inside
  <2>2. Canonical(n) \notin Links
    BY <1>1, <2>1, CanonicalFinds, NoPathNowhere
  <2> QED
    BY <1>2, <2>1, <2>2, TreeAssumption DEF Links
<1>3. CASE Kind[n] # "link"
  <2>1. Canonical(n) = n
    BY <1>1, <1>3, SolidStays
  <2> QED
    BY <1>1, <1>3, <2>1
<1> QED
  BY <1>2, <1>3

\* The file an entry adds, and the directory, are nodes, and lie in the workspace if the
\* walk is confined to it (reachableFiles).
LEMMA EnterInside ==
    ASSUME given \in Cases, NEW w \in Walks, NEW n \in Solid, ~LeadsOut(n)
    PROVE  /\ Enter(w, n) \in Walks /\ Enter(w, n).search = w.search
           /\ Confined(w) /\ n \in Inside => Confined(Enter(w, n))
<1> DEFINE target == Canonical(n)
           pushed == [w EXCEPT !.stack = Append(@, n)]
           listed == [w EXCEPT !.files = @ \cup {n}, !.count = @ + 1]
           led == [w EXCEPT !.seen = @ \cup {target}, !.stack = Append(@, target)]
           opened == [w EXCEPT !.seen = @ \cup {target}, !.files = @ \cup {target}, !.count = @ + 1]
<1>1. n \in Node /\ target \in Node /\ (n \in Inside => target \in Inside)
  BY VisitedEnd DEF Solid
<1> HIDE DEF target
<1>2. /\ Append(w.stack, n) \in Seq(Node) /\ Append(w.stack, target) \in Seq(Node)
      /\ w.stack \in Seq(Inside) /\ n \in Inside =>
            Append(w.stack, n) \in Seq(Inside) /\ Append(w.stack, target) \in Seq(Inside)
  BY <1>1 DEF Walks
<1>3. /\ pushed \in Walks /\ pushed.search = w.search /\ pushed.stack = Append(w.stack, n)
      /\ pushed.entries = w.entries /\ pushed.files = w.files
  BY <1>2 DEF Walks
<1>4. /\ led \in Walks /\ led.search = w.search /\ led.stack = Append(w.stack, target)
      /\ led.entries = w.entries /\ led.files = w.files
  BY <1>1, <1>2 DEF Walks
<1>5. /\ listed \in Walks /\ listed.search = w.search /\ listed.stack = w.stack
      /\ listed.entries = w.entries /\ listed.files = w.files \cup {n}
  <2>1. w.files \cup {n} \in SUBSET Node /\ w.count + 1 \in Nat
    BY <1>1 DEF Walks
  <2> QED
    BY <2>1 DEF Walks
<1>6. /\ opened \in Walks /\ opened.search = w.search /\ opened.stack = w.stack
      /\ opened.entries = w.entries /\ opened.files = w.files \cup {target}
  <2>1. w.files \cup {target} \in SUBSET Node /\ w.seen \cup {target} \in SUBSET Node
        /\ w.count + 1 \in Nat
    BY <1>1 DEF Walks
  <2> QED
    BY <2>1 DEF Walks
<1>7. Enter(w, n) \in {pushed, listed, led, opened, w}
  BY DEF Enter, target
<1> HIDE DEF pushed, listed, led, opened
<1>8. ASSUME Confined(w), n \in Inside
      PROVE  Confined(pushed) /\ Confined(listed) /\ Confined(led) /\ Confined(opened)
  BY <1>1, <1>2, <1>3, <1>4, <1>5, <1>6, <1>8 DEF Confined
<1> QED
  BY <1>3, <1>4, <1>5, <1>6, <1>7, <1>8

\* A declared path that is not refused, and the directory a command runs in, are found in
\* the workspace.
LEMMA CheckFinds ==
    ASSUME NEW name \in Names \cup {NoName}, ~CheckRefuses(name)
    PROVE  /\ Canonical(name.path) \in Inside /\ Canonical(name.path) \in Node \ Links
           /\ Canonical(name.path) \in Straight
           /\ Real(Canonical(name.path)) = Canonical(name.path)
           /\ StraightName(name) => name.node = Canonical(name.path)
<1> DEFINE found == Canonical(name.path)
<1>1. found \in Inside /\ found \in Node
  BY DEF CheckRefuses, Inside
<1>2. name.path \in Path
  BY <1>1, NoPathNowhere DEF Names, NoName
<1>3. found \in Node \ Links
  BY <1>1, <1>2, CanonicalFinds, NoPathNowhere
<1>4. found \in Straight
  BY <1>3, StraightAssumption
<1>5. Lstat[found] = found /\ Leads[found] = found /\ found # NoPath
  BY <1>3, NoPathNowhere, SystemAssumption
<1>6. Real(found) = found
  BY <1>5 DEF Real
<1>7. StraightName(name) => name.node = found
  BY <1>5, StraightFound
<1> QED
  BY <1>1, <1>3, <1>4, <1>6, <1>7

LEMMA CaseTypes ==
    ASSUME given \in Cases
    PROVE  /\ op.paths \in Seq(Names \cup {NoName}) /\ op.opens \subseteq Node
           /\ op.searches \in Seq(SearchRecord)
           /\ op.kind # "exec" => op.searches = <<>> /\ Words = {}
           /\ op.kind = "exec" => op.cwd \in Names \cup {NoName}
           /\ \A word \in Words : word.names \subseteq Names
           /\ given.limit \in Nat
<1>1. \A word \in Words : word.names \subseteq Names
  BY CaseAssumption DEF op, Words
<1>2. op.kind # "exec" => op.searches = <<>> /\ op.segments = <<>>
  BY CaseAssumption DEF op
<1>3. op.segments = <<>> => Words = {}
  BY DEF Words
<1> QED
  BY <1>1, <1>2, <1>3, CaseAssumption DEF op

\* Where the searches of a contained operation begin: a read where its path is found, a
\* command where one of its words says, or where it runs.
LEMMA SearchesBegin ==
    ASSUME given \in Cases, ~ContainRefuses
    PROVE  /\ Searches \in Seq(SearchRecord)
           /\ \A i \in DOMAIN Searches : \E name \in Names \cup {NoName} :
                 /\ Searches[i].name = name
                 /\ \/ ~CheckRefuses(name) /\ Searches[i].dir = Canonical(name.path)
                    \/ /\ op.kind = "exec" /\ Searches[i].dir = name.path
                       /\ \E word \in Words : name \in word.names /\ ~word.program
<1>1. CASE op.kind = "read" /\ op.recursive
  <2>1. Searches = [i \in DOMAIN op.paths |-> ReadSearch(op.paths[i])]
    BY <1>1 DEF Searches
  <2>2. op.paths \in Seq(Names \cup {NoName}) /\ op.opens \subseteq Node
    BY CaseTypes
  <2>3. ASSUME NEW i \in DOMAIN op.paths
        PROVE  /\ ReadSearch(op.paths[i]) \in SearchRecord
               /\ op.paths[i] \in Names \cup {NoName} /\ ~CheckRefuses(op.paths[i])
               /\ ReadSearch(op.paths[i]).name = op.paths[i]
               /\ ReadSearch(op.paths[i]).dir = Canonical(op.paths[i].path)
    <3>1. op.paths[i] \in Names \cup {NoName} /\ op.paths[i] \in Declared
      BY <2>2, <2>3 DEF Declared
    <3>2. ~CheckRefuses(op.paths[i])
      BY <1>1, <3>1 DEF ContainRefuses
    <3>3. Canonical(op.paths[i].path) \in Path \cup {NoPath}
      BY <3>1, <3>2, CheckFinds, TreeAssumption
    <3> QED
      BY <2>2, <3>1, <3>2, <3>3 DEF ReadSearch, SearchRecord
  <2>4. Searches \in Seq(SearchRecord)
    BY <2>1, <2>2, <2>3
  <2> QED
    BY <2>1, <2>3, <2>4
<1>2. CASE ~(op.kind = "read" /\ op.recursive)
  <2>1. Searches = op.searches /\ op.searches \in Seq(SearchRecord)
    BY <1>2, CaseTypes DEF Searches
  <2>2. ASSUME NEW i \in DOMAIN op.searches
        PROVE  \E name \in Names \cup {NoName} :
                 /\ op.searches[i].name = name
                 /\ \/ ~CheckRefuses(name) /\ op.searches[i].dir = Canonical(name.path)
                    \/ /\ op.kind = "exec" /\ op.searches[i].dir = name.path
                       /\ \E word \in Words : name \in word.names /\ ~word.program
    <3>1. op.kind = "exec"
      BY CaseTypes
    <3>2. op.searches[i] \in SearchRecord
      BY <2>1
    <3>3. op.searches[i].name \in Names \cup {NoName}
      BY <3>2 DEF SearchRecord
    <3>4. \/ op.searches[i].name = op.cwd /\ op.searches[i].dir = Canonical(op.cwd.path)
          \/ /\ op.searches[i].dir = op.searches[i].name.path
             /\ \E j \in DOMAIN op.segments : \E word \in op.segments[j].words :
                   op.searches[i].name \in word.names /\ ~word.program
      BY <3>1, CaseAssumption DEF op
    <3>5. ~CheckRefuses(op.cwd)
      BY <3>1 DEF ContainRefuses
    <3> QED
      BY <3>1, <3>3, <3>4, <3>5 DEF Words
  <2> QED
    BY <2>1, <2>2
<1> QED
  BY <1>1, <1>2

\* A directory a contained operation searches by a straight path lies in the workspace
\* (analyseOperation).
LEMMA SearchesInside ==
    ASSUME given \in Cases, ~ContainRefuses
    PROVE  Searches \in Seq(SearchRecord) /\ StartsInside(Searches)
<1>1. Searches \in Seq(SearchRecord)
  BY SearchesBegin
<1>2. ASSUME NEW i \in DOMAIN Searches, Searches[i].dir \in Straight, Real(Searches[i].dir) \in Dirs
      PROVE  Real(Searches[i].dir) \in Inside
  <2>1. PICK name \in Names \cup {NoName} :
            /\ Searches[i].name = name
            /\ \/ ~CheckRefuses(name) /\ Searches[i].dir = Canonical(name.path)
               \/ /\ op.kind = "exec" /\ Searches[i].dir = name.path
                  /\ \E word \in Words : name \in word.names /\ ~word.program
    BY SearchesBegin
  <2>2. CASE ~CheckRefuses(name) /\ Searches[i].dir = Canonical(name.path)
    BY <2>2, CheckFinds
  <2>3. CASE /\ op.kind = "exec" /\ Searches[i].dir = name.path
             /\ \E word \in Words : name \in word.names /\ ~word.program
    <3>1. PICK word \in Words : name \in word.names /\ ~word.program
      BY <2>3
    <3>2. ~WordRefuses(word)
      BY <2>3, <3>1 DEF ContainRefuses
    <3>3. Canonical(name.path) # NoPath
      BY <3>1, <3>2 DEF WordRefuses
    <3>4. Canonical(name.path) = Real(name.path)
      BY <1>2, <2>3, <3>3, CanonicalFinds, StraightAssumption
    <3>5. Real(name.path) \notin Devices
      BY <1>2, <2>3, TreeAssumption DEF Dirs
    <3> QED
      BY <2>3, <3>1, <3>2, <3>4, <3>5 DEF WordRefuses
  <2> QED
    BY <2>1, <2>2, <2>3
<1> QED
  BY <1>1, <1>2 DEF StartsInside

\* The walk of a straight search starts where the tool does.
LEMMA StraightStart ==
    ASSUME given \in Cases, ~ContainRefuses, NEW search \in SearchesOf, StraightName(search.name)
    PROVE  Real(search.dir) = search.name.node /\ search.dir \in Straight
<1>1. PICK i \in DOMAIN Searches : search = Searches[i]
  BY DEF SearchesOf
<1>2. PICK name \in Names \cup {NoName} :
          /\ search.name = name
          /\ \/ ~CheckRefuses(name) /\ search.dir = Canonical(name.path)
             \/ search.dir = name.path
  BY <1>1, SearchesBegin
<1>3. CASE ~CheckRefuses(name) /\ search.dir = Canonical(name.path)
  BY <1>2, <1>3, CheckFinds
<1>4. CASE search.dir = name.path
  BY <1>2, <1>4 DEF StraightName
<1> QED
  BY <1>2, <1>3, <1>4

\* Nothing of what is judged changes while it is judged.
LEMMA GivenStays ==
    ASSUME given' = given
    PROVE  /\ Inside' = Inside /\ op' = op
           /\ ContainRefuses' = ContainRefuses
           /\ RefuseWorkspaceRoot(given.root)' = RefuseWorkspaceRoot(given.root)
           /\ Touched' = Touched /\ Words' = Words
<1>1. Inside' = Inside /\ op' = op
  BY DEF Inside, op
<1>2. Declared' = Declared /\ Words' = Words
  BY <1>1 DEF Declared, Words
<1>3. ContainRefuses' = ContainRefuses
  BY <1>1, <1>2 DEF ContainRefuses, CheckRefuses, WordRefuses
<1>4. Touched' = Touched
  BY <1>1, <1>2 DEF Touched
<1> QED
  BY <1>1, <1>2, <1>3, <1>4 DEF RefuseWorkspaceRoot

\* A judgement starts with nothing walked.
LEMMA NoWalkType == NoWalk \in Walks /\ Confined(NoWalk) /\ Confined(NoWalk)'
BY DEF NoWalk, Walks, Confined

LEMMA InitInvariant == Init => IInv
<1> SUFFICES ASSUME Init PROVE IInv
  OBVIOUS
<1> QED
  BY NoWalkType DEF Init, IInv, Enrolled, Passed, Judging, Permitted

\* A search is concluded with files its walk found.
LEMMA ConcludeInvariant ==
    ASSUME IInv, NEW kept \in SUBSET walk.files, Conclude(kept), at \in {"walk", "git"}
    PROVE  IInv'
<1> USE DEF IInv
<1>1. given' = given /\ todo' = todo /\ verdict' = verdict /\ at' = "search" /\ walk' = NoWalk
  BY DEF Conclude
<1>2. Inside' = Inside /\ ContainRefuses' = ContainRefuses
      /\ RefuseWorkspaceRoot(given.root)' = RefuseWorkspaceRoot(given.root)
  BY <1>1, GivenStays
<1>3. \A s \in searched' : s.where \in Straight => s.files \subseteq Inside'
  <2>1. walk.search.dir \in Straight => kept \subseteq Inside
    BY DEF Confined
  <2>2. searched' = searched
          \/ searched' = searched \cup {[where |-> walk.search.dir, files |-> kept]}
    BY DEF Conclude
  <2> QED
    BY <1>2, <2>1, <2>2
<1>4. todo' \in Seq(SearchRecord) /\ StartsInside(todo)'
  BY <1>1, <1>2 DEF StartsInside, Judging
<1> QED
  BY <1>1, <1>2, <1>3, <1>4, NoWalkType DEF Enrolled, Passed, Judging, Permitted

\* Each step keeps the invariant.
LEMMA StepInvariant == IInv /\ [Next]_vars => IInv'
<1> SUFFICES ASSUME IInv, [Next]_vars PROVE IInv'
  OBVIOUS
<1>1. given' = given
  BY DEF Next, vars, Enrol, Contain, NextSearch, ReadDir, Visit, WalkEnds, GitAnswers, GitFails,
         Conclude, Decide, Stop
<1>2. Inside' = Inside /\ ContainRefuses' = ContainRefuses
      /\ RefuseWorkspaceRoot(given.root)' = RefuseWorkspaceRoot(given.root)
  BY <1>1, GivenStays
<1> DEFINE Rest == /\ \A s \in searched : s.where \in Straight => s.files \subseteq Inside
                   /\ walk \in Walks
                   /\ walk.search.dir \in Straight => Confined(walk)
<1>3. UNCHANGED <<walk, searched>> => Rest'
  BY <1>2 DEF IInv, Confined
<1>4. CASE Enrol
  BY <1>1, <1>2, <1>3, <1>4 DEF Enrol, IInv, Enrolled, Passed, Judging, Permitted
<1>5. CASE Contain
  <2>1. CASE ContainRefuses
    BY <1>1, <1>2, <1>3, <1>5, <2>1
       DEF Contain, IInv, Enrolled, Passed, Judging, Permitted
  <2>2. CASE ~ContainRefuses
    <3>1. todo' = Searches /\ UNCHANGED <<walk, searched, verdict>> /\ at' = "search"
          /\ at = "contain"
      BY <1>5, <2>2 DEF Contain
    <3>2. todo' \in Seq(SearchRecord) /\ StartsInside(todo)'
      BY <1>1, <1>2, <2>2, <3>1, SearchesInside DEF IInv, StartsInside
    <3> QED
      BY <1>1, <1>2, <1>3, <2>2, <3>1, <3>2
         DEF IInv, Enrolled, Passed, Judging, Permitted
  <2> QED
    BY <2>1, <2>2
<1>6. CASE NextSearch
  <2>1. at = "search" /\ todo # <<>> /\ todo' = Tail(todo) /\ UNCHANGED <<searched, verdict>>
        /\ at' \in {"search", "walk"}
    BY <1>6 DEF NextSearch
  <2>2. todo \in Seq(SearchRecord) /\ StartsInside(todo)
    BY <2>1 DEF IInv, Judging
  <2>3. todo' \in Seq(SearchRecord) /\ StartsInside(todo)'
    <3>1. \A i \in DOMAIN Tail(todo) : i + 1 \in DOMAIN todo /\ Tail(todo)[i] = todo[i + 1]
      BY <2>1, <2>2
    <3> QED
      BY <1>2, <2>1, <2>2, <3>1 DEF StartsInside
  <2>4. walk' \in Walks /\ (walk.search.dir \in Straight => Confined(walk))'
    <3> DEFINE start == Real(Head(todo).dir)
    <3>1. CASE start \in Dirs
      <4>1. 1 \in DOMAIN todo /\ Head(todo) = todo[1] /\ Head(todo) \in SearchRecord
        BY <2>1, <2>2
      <4>2. start \in Node /\ (Head(todo).dir \in Straight => start \in Inside)
        BY <2>2, <3>1, <4>1 DEF StartsInside, Dirs
      <4>3. walk' = [NoWalk EXCEPT !.search = Head(todo), !.stack = <<start>>, !.seen = {start}]
        BY <1>6, <3>1 DEF NextSearch
      <4> HIDE DEF start
      <4>4. <<start>> \in Seq(Node) /\ {start} \subseteq Node
        BY <4>2
      <4>5. /\ walk'.search = Head(todo) /\ walk'.stack = <<start>> /\ walk'.entries = {}
            /\ walk'.files = {} /\ walk' \in Walks
        BY <4>1, <4>3, <4>4 DEF NoWalk, Walks
      <4> QED
        BY <1>2, <4>2, <4>5 DEF Confined
    <3>2. CASE start \notin Dirs
      <4>1. UNCHANGED <<walk, searched>>
        BY <1>6, <2>1, <3>2 DEF NextSearch
      <4> QED
        BY <1>3, <4>1
    <3> QED
      BY <3>1, <3>2
  <2> QED
    BY <1>1, <1>2, <2>1, <2>3, <2>4 DEF IInv, Enrolled, Passed, Judging, Permitted
<1>7. CASE ReadDir
  <2>1. at = "walk" /\ walk.stack # <<>> /\ UNCHANGED <<at, todo, searched, verdict>>
    BY <1>7 DEF ReadDir
  <2>2. walk \in Walks /\ walk.stack \in Seq(Node)
    BY DEF IInv, Walks
  <2> DEFINE dir == walk.stack[Len(walk.stack)]
             below == IF dir \in Unreadable THEN {} ELSE Children(dir)
  <2>3. /\ dir \in Node /\ SubSeq(walk.stack, 1, Len(walk.stack) - 1) \in Seq(Node)
        /\ walk.stack \in Seq(Inside) =>
              dir \in Inside /\ SubSeq(walk.stack, 1, Len(walk.stack) - 1) \in Seq(Inside)
    BY <2>1, <2>2
  <2>4. below \subseteq Solid /\ (dir \in Inside => below \subseteq Inside)
    BY ChildInside DEF IInv, Children, Solid
  <2>5. walk' = [walk EXCEPT !.stack = SubSeq(@, 1, Len(@) - 1), !.dir = dir, !.entries = below]
    BY <1>7 DEF ReadDir
  <2> HIDE DEF dir, below
  <2>6. /\ walk' \in Walks /\ walk'.search = walk.search /\ walk'.files = walk.files
        /\ walk'.stack = SubSeq(walk.stack, 1, Len(walk.stack) - 1) /\ walk'.entries = below
    BY <2>2, <2>3, <2>4, <2>5 DEF Walks
  <2>7. (walk.search.dir \in Straight => Confined(walk))'
    BY <1>2, <2>3, <2>4, <2>6 DEF IInv, Confined
  <2>8. StartsInside(todo)'
    BY <1>2, <2>1 DEF StartsInside, IInv, Judging
  <2> QED
    BY <1>1, <1>2, <2>1, <2>6, <2>7, <2>8 DEF IInv, Enrolled, Passed, Judging, Permitted
<1>8. CASE Visit
  <2>1. at = "walk" /\ UNCHANGED <<todo, searched, verdict>> /\ at' \in {"walk", "search"}
    BY <1>8 DEF Visit
  <2>2. PICK n \in walk.entries :
          LET rest == [walk EXCEPT !.entries = @ \ {n}]
          IN  walk' = rest \/ walk' = NoWalk
                \/ (~LeadsOut(n) /\ walk' = Enter(rest, n))
    BY <1>8 DEF Visit
  <2> DEFINE rest == [walk EXCEPT !.entries = @ \ {n}]
  <2>3. /\ rest \in Walks /\ n \in Solid /\ rest.search = walk.search
        /\ rest.stack = walk.stack /\ rest.files = walk.files /\ rest.entries = walk.entries \ {n}
    BY DEF IInv, Walks
  <2>4. ~LeadsOut(n) => /\ Enter(rest, n) \in Walks /\ Enter(rest, n).search = walk.search
                        /\ Confined(rest) /\ n \in Inside => Confined(Enter(rest, n))
    BY <2>3, EnterInside DEF IInv
  <2>5. Confined(walk) => Confined(rest) /\ n \in Inside
    BY <2>3 DEF Confined
  <2>6. walk' = rest \/ walk' = NoWalk \/ (~LeadsOut(n) /\ walk' = Enter(rest, n))
    BY <2>2
  <2> HIDE DEF rest
  <2>7. walk' \in Walks /\ (walk'.search.dir \in Straight => Confined(walk'))
    BY <2>3, <2>4, <2>5, <2>6, NoWalkType DEF IInv
  <2>8. (walk.search.dir \in Straight => Confined(walk))'
    BY <1>2, <2>7 DEF Confined
  <2>9. StartsInside(todo)'
    BY <1>2, <2>1 DEF StartsInside, IInv, Judging
  <2> QED
    BY <1>1, <1>2, <2>1, <2>7, <2>8, <2>9 DEF IInv, Enrolled, Passed, Judging, Permitted
<1>9. CASE WalkEnds
  <2>1. CASE Suspects = {}
    BY <1>9, <2>1, ConcludeInvariant DEF WalkEnds, Opened
  <2>2. CASE Suspects # {}
    <3>1. at = "walk" /\ at' = "git" /\ UNCHANGED <<todo, walk, searched, verdict>>
      BY <1>9, <2>2 DEF WalkEnds
    <3>2. StartsInside(todo)'
      BY <1>2, <3>1 DEF StartsInside, IInv, Judging
    <3> QED
      BY <1>1, <1>2, <1>3, <3>1, <3>2 DEF IInv, Enrolled, Passed, Judging, Permitted
  <2> QED
    BY <2>1, <2>2
<1>10. CASE GitAnswers
  BY <1>10, ConcludeInvariant DEF GitAnswers, Opened
<1>11. CASE GitFails
  BY <1>11, ConcludeInvariant DEF GitFails, Opened
<1>12. CASE Decide
  <2>1. at = "search" /\ at' = "settled" /\ UNCHANGED <<walk, searched>>
    BY <1>12 DEF Decide
  <2> QED
    BY <1>1, <1>2, <1>3, <2>1 DEF IInv, Enrolled, Passed, Judging, Permitted
<1>13. CASE Stop \/ UNCHANGED vars
  <2>1. UNCHANGED vars
    BY <1>13 DEF Stop
  <2>2. StartsInside(todo)' <=> StartsInside(todo)
    BY <1>2, <2>1 DEF StartsInside, vars
  <2> QED
    BY <1>1, <1>2, <1>3, <2>1, <2>2 DEF vars, IInv, Enrolled, Passed, Judging, Permitted
<1> QED
  BY <1>4, <1>5, <1>6, <1>7, <1>8, <1>9, <1>10, <1>11, <1>12, <1>13 DEF Next

\* What a walk that starts at a straight path has found, and what such a search is judged
\* by, lies in the workspace and in no protected place, however the links lie: what a rule
\* is asked about is never outside.
THEOREM ReachStays == Spec => []StaysInside
<1>1. IInv => StaysInside
  <2> SUFFICES ASSUME IInv,
                      NEW f \in (IF at \in {"walk", "git"} /\ walk.search.dir \in Straight
                                 THEN walk.files ELSE {})
                                \cup UNION {s.files : s \in {t \in searched : t.where \in Straight}}
               PROVE  IsWithin(f, given.root) /\ \A p \in Protected : ~IsWithin(f, p)
    BY DEF StaysInside
  <2>1. f \in Inside
    BY DEF IInv, Confined
  <2>2. CASE at \in {"enrol", "stranger"}
    BY <2>2 DEF IInv, Passed
  <2>3. CASE at \notin {"enrol", "stranger"}
    BY <2>1, <2>3, InsideUnprotected DEF IInv, Enrolled, Inside
  <2> QED
    BY <2>2, <2>3
<1> QED
  BY <1>1, InitInvariant, StepInvariant, PTL DEF Spec

\* An operation passes, whatever the lists say, only if what is opened for each straight
\* name of it lies in the workspace, unprotected and no secret of it.
THEOREM NoRuleLifts == Spec => []ContainmentStands
<1>1. IInv => ContainmentStands
  <2> SUFFICES ASSUME IInv, Permitted,
                      NEW name \in Touched \cup UNION {w.names : w \in Words}, StraightName(name)
               PROVE  /\ name \in Touched /\ (op.kind = "exec" => name.node \notin Devices) =>
                            name.node \in Inside /\ ~IsWorkspaceSecret(name.node, given.root)
                      /\ \A p \in Protected : ~IsWithin(name.node, p)
    BY DEF ContainmentStands
  <2>1. ~ContainRefuses
    BY DEF IInv, Passed
  <2>2. ASSUME name \in Names \cup {NoName}, ~CheckRefuses(name)
        PROVE  /\ name.node \in Inside /\ ~IsWorkspaceSecret(name.node, given.root)
               /\ \A p \in Protected : ~IsWithin(name.node, p)
    BY <2>2, CheckFinds DEF CheckRefuses
  <2>3. CASE op.kind \in {"read", "write"} /\ name \in Declared
    <3>1. name \in Names \cup {NoName}
      BY <2>3, CaseTypes DEF Declared, IInv
    <3>2. ~CheckRefuses(name)
      BY <2>1, <2>3 DEF ContainRefuses
    <3> QED
      BY <2>2, <3>1, <3>2
  <2>4. CASE op.kind = "exec" /\ name = op.cwd
    <3>1. name \in Names \cup {NoName} /\ ~CheckRefuses(name)
      BY <2>1, <2>4, CaseTypes DEF ContainRefuses, IInv
    <3> QED
      BY <2>2, <3>1
  <2>5. CASE op.kind = "exec" /\ \E word \in Words : name \in word.names
    <3>1. ASSUME NEW word \in Words, name \in word.names
          PROVE  /\ \A p \in Protected : ~IsWithin(name.node, p)
                 /\ ~word.program /\ name.node \notin Devices =>
                       name.node \in Inside /\ ~IsWorkspaceSecret(name.node, given.root)
      <4>1. ~WordRefuses(word)
        BY <2>1, <2>5, <3>1 DEF ContainRefuses
      <4>2. name.node = Canonical(name.path)
        BY <3>1, <4>1, StraightFound DEF WordRefuses
      <4> QED
        BY <3>1, <4>1, <4>2 DEF WordRefuses
    <3>2. name \in Touched => name = op.cwd \/ \E word \in Words : name \in word.names /\ ~word.program
      BY <2>5 DEF Touched
    <3> QED
      BY <2>4, <2>5, <3>1, <3>2
  <2> QED
    BY <2>3, <2>4, <2>5, CaseTypes DEF Touched, IInv
<1> QED
  BY <1>1, InitInvariant, StepInvariant, PTL DEF Spec

\* Nothing an agent may do leaves its workspace, by its own account or by what it reaches.
THEOREM ContainedHolds == Spec => []Contained
BY ReachStays, NoRuleLifts, PTL DEF Contained

-----------------------------------------------------------------------------
(* What a search opens.                                                    *)

Beginning(search) == {search.name.node} \cap Dirs

Further(search, dirs) == dirs \cup ({Leads[n] : n \in Meets(search, dirs)} \cap Dirs)

\* The directories a search opens within k steps, for each k up to N.
Growth(f, search, N) ==
    f = [k \in 0..N |-> IF k = 0 THEN Beginning(search) ELSE Further(search, f[k - 1])]

LEMMA OpensIsGrowth ==
    ASSUME NEW search
    PROVE  Opens(search) = (CHOOSE f : Growth(f, search, Cardinality(Dirs)))[Cardinality(Dirs)]
BY DEF Opens, Growth, Beginning, Further

LEMMA GrowthExists ==
    ASSUME NEW search, NEW N \in Nat
    PROVE  \E f : Growth(f, search, N)
<1> DEFINE Step(f, k) == IF k = 0 THEN Beginning(search) ELSE Further(search, f[k - 1])
           Upto(n) == \E f : Growth(f, search, n)
           T == {n \in Nat : ~Upto(n)}
<1>1. ASSUME T # {}
      PROVE  FALSE
  <2>1. PICK x \in T : \A y \in T : x <= y
    BY <1>1, Smallest, T \in SUBSET Nat
  <2>2. x \in Nat /\ ~Upto(x)
    BY <2>1
  <2>3. x # 0
    <3>1. Growth([k \in 0..0 |-> Beginning(search)], search, 0)
      BY DEF Growth
    <3> QED
      BY <2>2, <3>1
  <2>4. x - 1 \in Nat /\ Upto(x - 1)
    <3>1. x - 1 \in Nat /\ ~(x <= x - 1)
      BY <2>2, <2>3
    <3> HIDE DEF Upto
    <3> QED
      BY <2>1, <3>1
  <2>5. PICK f : Growth(f, search, x - 1)
    BY <2>4
  <2> DEFINE g == [k \in 0..x |-> IF k < x THEN f[k] ELSE Step(f, x)]
  <2>6. ASSUME NEW k \in 0..x
        PROVE  g[k] = Step(g, k)
    <3>1. k < x => k \in 0..(x - 1)
      BY <2>2
    <3>2. k < x => f[k] = Step(f, k)
      BY <2>5, <3>1 DEF Growth
    <3>3. k # 0 => k - 1 \in 0..x /\ k - 1 < x
      BY <2>2
    <3>4. k # 0 => g[k - 1] = f[k - 1]
      BY <3>3
    <3>5. g[k] = Step(f, k)
      <4> HIDE DEF Step
      <4>1. ~(k < x) => k = x
        BY <2>2
      <4> QED
        BY <3>2, <4>1
    <3> QED
      BY <3>4, <3>5
  <2>7. Growth(g, search, x)
    BY <2>6 DEF Growth
  <2> QED
    BY <2>2, <2>7
<1> QED
  BY <1>1

\* No set of directories that has all it meets is left.
LEMMA GrowthBounded ==
    ASSUME NEW search, NEW N \in Nat, NEW f, Growth(f, search, N), NEW D,
           Beginning(search) \subseteq D, Further(search, D) \subseteq D
    PROVE  \A k \in 0..N : f[k] \subseteq D
<1> DEFINE T == {k \in 0..N : ~(f[k] \subseteq D)}
<1>1. ASSUME T # {}
      PROVE  FALSE
  <2>1. PICK x \in T : \A y \in T : x <= y
    BY <1>1, Smallest, T \in SUBSET Nat
  <2>2. x \in 0..N /\ ~(f[x] \subseteq D)
    BY <2>1
  <2>3. x # 0
    BY <2>2 DEF Growth
  <2>4. x - 1 \in 0..N /\ ~(x <= x - 1)
    BY <2>2, <2>3
  <2>5. f[x - 1] \subseteq D
    BY <2>1, <2>4
  <2>6. f[x] = Further(search, f[x - 1])
    BY <2>2, <2>3 DEF Growth
  <2>7. Further(search, f[x - 1]) \subseteq Further(search, D)
    BY <2>5 DEF Further, Meets
  <2> QED
    BY <2>2, <2>6, <2>7
<1> QED
  BY <1>1

LEMMA DirsFinite == IsFiniteSet(Dirs) /\ Cardinality(Dirs) \in Nat
<1>1. IsFiniteSet(Dirs)
  BY TreeAssumption, FS_Subset, Dirs \subseteq Node DEF Dirs
<1> QED
  BY <1>1, FS_CardinalityType

LEMMA OpensWithin ==
    ASSUME NEW search, NEW D,
           Beginning(search) \subseteq D, Further(search, D) \subseteq D
    PROVE  Opens(search) \subseteq D
<1> DEFINE N == Cardinality(Dirs)
           g == CHOOSE f : Growth(f, search, N)
<1>1. N \in Nat
  BY DirsFinite
<1>2. Growth(g, search, N)
  BY <1>1, GrowthExists
<1>3. N \in 0..N
  BY <1>1
<1>4. Opens(search) = g[N]
  BY OpensIsGrowth
<1> HIDE DEF N, g
<1> QED
  BY <1>1, <1>2, <1>3, <1>4, GrowthBounded

-----------------------------------------------------------------------------
(* A search opens a set of directories that is closed.                     *)

LEMMA StrictlyMore ==
    ASSUME NEW S, NEW T, IsFiniteSet(T), S \subseteq T, S # T
    PROVE  Cardinality(S) + 1 <= Cardinality(T) /\ Cardinality(S) \in Nat /\ Cardinality(T) \in Nat
<1>1. IsFiniteSet(S) /\ Cardinality(S) <= Cardinality(T) /\ Cardinality(S) # Cardinality(T)
  BY FS_Subset
<1>2. Cardinality(S) \in Nat /\ Cardinality(T) \in Nat
  BY <1>1, FS_CardinalityType
<1> QED
  BY <1>1, <1>2

\* Each step opens a directory more, until none does.
LEMMA GrowthStops ==
    ASSUME NEW search, NEW N \in Nat, NEW f, Growth(f, search, N)
    PROVE  \A k \in 0..N :
              /\ f[k] \subseteq Dirs
              /\ Further(search, f[k]) = f[k] \/ k + 1 <= Cardinality(f[k])
<1> DEFINE Good(k) == /\ f[k] \subseteq Dirs
                      /\ Further(search, f[k]) = f[k] \/ k + 1 <= Cardinality(f[k])
           T == {k \in 0..N : ~Good(k)}
<1>1. ASSUME T # {}
      PROVE  FALSE
  <2>1. PICK x \in T : \A y \in T : x <= y
    BY <1>1, Smallest, T \in SUBSET Nat
  <2>2. x \in 0..N /\ x \in Nat /\ ~Good(x)
    BY <2>1
  <2>3. CASE x = 0
    <3>1. f[0] = Beginning(search)
      BY <2>2, <2>3 DEF Growth
    <3>2. f[0] = {} \/ f[0] = {search.name.node}
      BY <3>1 DEF Beginning
    <3>3. Further(search, {}) = {}
      BY DEF Further, Meets
    <3>4. Cardinality({search.name.node}) = 1
      BY FS_Singleton
    <3>5. Beginning(search) \subseteq Dirs
      BY DEF Beginning
    <3> QED
      BY <2>2, <2>3, <3>1, <3>2, <3>3, <3>4, <3>5
  <2>4. CASE x # 0
    <3>1. x - 1 \in 0..N /\ ~(x <= x - 1)
      BY <2>2, <2>4
    <3>2. Good(x - 1)
      <4> HIDE DEF Good
      <4> QED
        BY <2>1, <3>1
    <3>3. f[x] = Further(search, f[x - 1])
      BY <2>2, <2>4 DEF Growth
    <3>4. f[x - 1] \subseteq f[x] /\ f[x] \subseteq Dirs
      BY <3>2, <3>3 DEF Further
    <3>5. CASE Further(search, f[x - 1]) = f[x - 1]
      BY <2>2, <3>2, <3>3, <3>5
    <3>6. CASE Further(search, f[x - 1]) # f[x - 1]
      <4>1. IsFiniteSet(f[x])
        BY <3>4, DirsFinite, FS_Subset
      <4>2. /\ Cardinality(f[x - 1]) + 1 <= Cardinality(f[x])
            /\ Cardinality(f[x - 1]) \in Nat /\ Cardinality(f[x]) \in Nat
        BY <3>3, <3>4, <3>6, <4>1, StrictlyMore
      <4>3. x <= Cardinality(f[x - 1])
        BY <2>2, <3>2, <3>6
      <4>4. x + 1 <= Cardinality(f[x])
        BY <2>2, <4>2, <4>3
      <4> QED
        BY <2>2, <3>4, <4>4
    <3> QED
      BY <3>5, <3>6
  <2> QED
    BY <2>3, <2>4
<1> HIDE DEF Good
<1>2. \A k \in 0..N : Good(k)
  BY <1>1
<1> QED
  BY <1>2 DEF Good

LEMMA OpensClosed ==
    ASSUME NEW search
    PROVE  /\ Opens(search) \subseteq Dirs
           /\ Beginning(search) \subseteq Opens(search)
           /\ Further(search, Opens(search)) = Opens(search)
<1> DEFINE N == Cardinality(Dirs)
           g == CHOOSE f : Growth(f, search, N)
<1>1. N \in Nat /\ N \in 0..N /\ 0 \in 0..N /\ ~(N + 1 <= N)
  BY DirsFinite
<1>2. Growth(g, search, N)
  BY <1>1, GrowthExists
<1>3. Opens(search) = g[N]
  BY OpensIsGrowth
<1> HIDE DEF g
<1>4. /\ g[N] \subseteq Dirs
      /\ Further(search, g[N]) = g[N] \/ N + 1 <= Cardinality(g[N])
  <2> HIDE DEF N
  <2> QED
    BY <1>1, <1>2, GrowthStops
<1>5. Cardinality(g[N]) <= N /\ Cardinality(g[N]) \in Nat
  BY <1>4, DirsFinite, FS_Subset, FS_CardinalityType
<1>6. Further(search, g[N]) = g[N]
  <2> HIDE DEF N
  <2> QED
    BY <1>1, <1>4, <1>5
<1>7. Beginning(search) \subseteq g[N]
  <2> DEFINE T == {k \in 0..N : ~(Beginning(search) \subseteq g[k])}
  <2> HIDE DEF N
  <2>1. ASSUME T # {}
        PROVE  FALSE
    <3>1. PICK x \in T : \A y \in T : x <= y
      BY <1>1, <2>1, Smallest, T \in SUBSET Nat
    <3>2. x # 0 /\ x \in 0..N
      BY <1>1, <1>2, <3>1 DEF Growth
    <3>3. x - 1 \in 0..N /\ ~(x <= x - 1)
      BY <1>1, <3>2
    <3>4. Beginning(search) \subseteq g[x - 1]
      BY <3>1, <3>3
    <3>5. g[x] = Further(search, g[x - 1])
      BY <1>2, <3>2 DEF Growth
    <3> QED
      BY <3>1, <3>4, <3>5 DEF Further
  <2> QED
    BY <1>1, <2>1
<1> QED
  BY <1>3, <1>4, <1>6, <1>7

-----------------------------------------------------------------------------
(* What a walk has covered.                                                *)

Stacked(w) == {w.stack[i] : i \in 1..Len(w.stack)}

Found(w, done) == w.files \cup done \cup Stacked(w)

Handled(n, w, done) == Leads[n] \in Found(w, done) \/ Kind[Leads[n]] = "missing"

\* What a tool meets in those of its directories that are listed so far, `done`, is found or
\* yet to be visited.
Covers(w, done) ==
    /\ done \cup Stacked(w) \subseteq Dirs
    /\ \A f \in w.files : Kind[f] = "file"
    /\ Beginning(w.search) \subseteq done \cup Stacked(w)
    /\ w.seen \subseteq Found(w, done)
    /\ \A n \in Meets(w.search, done \cap Opens(w.search)) : n \in w.entries \/ Handled(n, w, done)

\* Where an entry leads that a straight search meets, the walk finds it as the tool does.
LEMMA MetLeads ==
    ASSUME NEW search, StraightSearch(search), NEW n \in Meets(search, Opens(search)), ~LeadsOut(n)
    PROVE  Canonical(n) = Leads[n]
<1>1. n \in Solid /\ n \in Node /\ n \in Path /\ Lstat[n] = n /\ n # NoPath
  BY TreeAssumption, SystemAssumption DEF Meets, Solid
<1>2. CASE Kind[n] = "link"
  <2>1. n \in Straight
    BY <1>1, <1>2 DEF StraightSearch, Links
  <2>2. Canonical(n) # NoPath
    BY <1>2, NoPathNowhere DEF LeadsOut, Inside
  <2>3. Canonical(n) = Real(n)
    BY <1>1, <2>1, <2>2, CanonicalFinds
  <2> QED
    BY <1>1, <2>3 DEF Real
<1>3. CASE Kind[n] # "link"
  BY <1>1, <1>3, SolidStays, SystemAssumption DEF Solid, Links
<1> QED
  BY <1>2, <1>3

\* An entry that is passed over is nothing the tool meets.
LEMMA PassedOverUnmet ==
    ASSUME NEW search, NEW dirs, NEW n \in Meets(search, dirs)
    PROVE  ~PassedOver(n, search)
<1>1. n \in Node \ {FsRoot} /\ Above[n] = {n} \cup Above[Parent[n]]
  BY TreeAssumption DEF Meets
<1>2. ASSUME Skipped(n)
      PROVE  FALSE
  <2>1. Kind[n] = "dir" /\ Name[n] # "node_modules"
    BY <1>2 DEF Skipped, Meets
  <2>2. Name[n] \in {"objects", "lfs"} /\ \E g \in Above[Parent[n]] : Name[g] = ".git"
    BY <1>2, <2>1 DEF Skipped
  <2>3. ".git" \in {Name[g] : g \in Above[n]}
    BY <1>1, <2>2
  <2> QED
    BY <2>1, <2>2, <2>3 DEF Meets
<1> QED
  BY <1>2 DEF PassedOver, Meets

\* What an entry that leads to `target` adds to a walk.
Adds(w, e, target) ==
    /\ e.search = w.search /\ e.entries = w.entries
    /\ w.files \subseteq e.files /\ e.files \subseteq w.files \cup {target}
    /\ Stacked(w) \subseteq Stacked(e) /\ Stacked(e) \subseteq Stacked(w) \cup {target}
    /\ w.seen \subseteq e.seen /\ e.seen \subseteq w.seen \cup {target}
    /\ e.seen # w.seen => target \in e.files \cup Stacked(e)
    /\ target \in e.files => target \in w.files \/ Kind[target] = "file"
    /\ target \in Stacked(e) => target \in Stacked(w) \/ target \in Dirs
    /\ target \in e.files \cup Stacked(e) \cup w.seen \/ Kind[target] = "missing"

LEMMA EnterAdds ==
    ASSUME given \in Cases, NEW w \in Walks, NEW n \in Solid, ~LeadsOut(n)
    PROVE  Adds(w, Enter(w, n), Canonical(n))
<1> DEFINE e == Enter(w, n)
           target == Canonical(n)
<1>1. n \in Node /\ target \in Node
  BY VisitedEnd DEF Solid
<1>2. Kind[target] \in {"dir", "file", "missing"} /\ (Kind[n] # "link" => target = n)
  BY VisitedEnd
<1>3. w.stack \in Seq(Node)
  BY DEF Walks
<1>4. \A m \in Node : {Append(w.stack, m)[i] : i \in 1..Len(Append(w.stack, m))}
                        = Stacked(w) \cup {m}
  BY <1>3 DEF Stacked
<1> DEFINE pushed == [w EXCEPT !.stack = Append(@, target)]
           listed == [w EXCEPT !.files = @ \cup {target}, !.count = @ + 1]
           led == [w EXCEPT !.seen = @ \cup {target}, !.stack = Append(@, target)]
           opened == [w EXCEPT !.seen = @ \cup {target}, !.files = @ \cup {target}, !.count = @ + 1]
<1>5. \/ e = pushed /\ Kind[target] = "dir"
      \/ e = listed /\ Kind[target] = "file"
      \/ e = w /\ (Kind[target] = "missing" \/ target \in w.seen)
      \/ e = led /\ Kind[target] = "dir"
      \/ e = opened /\ Kind[target] = "file"
  BY <1>2 DEF Enter
<1>6. /\ pushed.search = w.search /\ pushed.entries = w.entries /\ pushed.files = w.files
      /\ pushed.seen = w.seen /\ pushed.stack = Append(w.stack, target)
      /\ listed.search = w.search /\ listed.entries = w.entries
      /\ listed.files = w.files \cup {target}
      /\ listed.seen = w.seen /\ listed.stack = w.stack
  BY DEF Walks
<1>7. /\ led.search = w.search /\ led.entries = w.entries /\ led.files = w.files
      /\ led.seen = w.seen \cup {target} /\ led.stack = Append(w.stack, target)
      /\ opened.search = w.search /\ opened.entries = w.entries
      /\ opened.files = w.files \cup {target}
      /\ opened.seen = w.seen \cup {target} /\ opened.stack = w.stack
  BY DEF Walks
<1>8. /\ Stacked(pushed) = Stacked(w) \cup {target} /\ Stacked(led) = Stacked(w) \cup {target}
      /\ Stacked(listed) = Stacked(w) /\ Stacked(opened) = Stacked(w)
  BY <1>1, <1>4, <1>6, <1>7 DEF Stacked
<1>9. Kind[target] = "dir" => target \in Dirs
  BY <1>1 DEF Dirs
<1> HIDE DEF pushed, listed, led, opened, e, target
<1>10. ASSUME e = pushed /\ Kind[target] = "dir"
       PROVE  Adds(w, e, target)
  BY <1>6, <1>8, <1>9, <1>10 DEF Adds
<1>11. ASSUME e = listed /\ Kind[target] = "file"
       PROVE  Adds(w, e, target)
  BY <1>6, <1>8, <1>11 DEF Adds
<1>12. ASSUME e = w /\ (Kind[target] = "missing" \/ target \in w.seen)
       PROVE  Adds(w, e, target)
  BY <1>12 DEF Adds
<1>13. ASSUME e = led /\ Kind[target] = "dir"
       PROVE  Adds(w, e, target)
  BY <1>7, <1>8, <1>9, <1>13 DEF Adds
<1>14. ASSUME e = opened /\ Kind[target] = "file"
       PROVE  Adds(w, e, target)
  BY <1>7, <1>8, <1>14 DEF Adds
<1> QED
  BY <1>5, <1>10, <1>11, <1>12, <1>13, <1>14 DEF e, target

\* A walk starts with nothing listed, at a directory.
LEMMA CoversStart ==
    ASSUME NEW search, search.name.node \in Dirs, NEW w,
           w.search = search, w.stack = <<search.name.node>>, w.seen = {search.name.node},
           w.files = {}
    PROVE  Covers(w, {})
<1>1. Stacked(w) = {search.name.node}
  BY DEF Stacked
<1>2. Meets(w.search, {}) = {}
  BY DEF Meets
<1> QED
  BY <1>1, <1>2 DEF Covers, Found, Beginning

\* A directory is listed: what the tool meets there is an entry.
LEMMA CoversReadDir ==
    ASSUME IInv, NEW done, Covers(walk, done), ReadDir
    PROVE  \E more : Covers(walk', more)
<1> DEFINE dir == walk.stack[Len(walk.stack)]
           rest == SubSeq(walk.stack, 1, Len(walk.stack) - 1)
           more == done \cup {dir}
<1>1. walk \in Walks /\ walk.stack \in Seq(Node) /\ walk.stack # <<>> /\ walk.entries = {}
  BY DEF IInv, Walks, ReadDir
<1>2. /\ walk'.search = walk.search /\ walk'.seen = walk.seen /\ walk'.files = walk.files
      /\ walk'.stack = rest
      /\ walk'.entries = IF dir \in Unreadable THEN {} ELSE Children(dir)
  BY <1>1 DEF ReadDir, Walks
<1>3. Stacked(walk) = Stacked(walk') \cup {dir}
  <2>1. Len(walk.stack) \in Nat /\ Len(walk.stack) # 0 /\ Len(rest) = Len(walk.stack) - 1
    BY <1>1
  <2>2. \A i \in 1..Len(rest) : rest[i] = walk.stack[i]
    BY <1>1
  <2>3. \A i \in 1..Len(walk.stack) : i \in 1..Len(rest) \/ i = Len(walk.stack)
    BY <2>1
  <2>4. 1..Len(rest) \subseteq 1..Len(walk.stack) /\ Len(walk.stack) \in 1..Len(walk.stack)
    BY <2>1
  <2> HIDE DEF rest
  <2> QED
    BY <1>2, <2>2, <2>3, <2>4 DEF Stacked
<1>4. Found(walk', more) = Found(walk, done)
  BY <1>2, <1>3 DEF Found
<1>5. ASSUME NEW n \in Meets(walk'.search, more \cap Opens(walk'.search))
      PROVE  n \in walk'.entries \/ Handled(n, walk', more)
  <2> DEFINE opened == Opens(walk.search)
  <2>1. CASE n \in Meets(walk.search, done \cap opened)
    BY <1>1, <1>4, <2>1 DEF Covers, Handled
  <2>2. CASE n \notin Meets(walk.search, done \cap opened)
    <3>1. n \in Meets(walk.search, more \cap opened)
      BY <1>2
    <3> HIDE DEF dir, opened
    <3>2. n \in Node \ {FsRoot} /\ Parent[n] = dir /\ dir \notin Unreadable /\ Kind[n] # "missing"
      BY <2>2, <3>1 DEF Meets
    <3> QED
      BY <1>2, <3>2 DEF Children
  <2> QED
    BY <2>1, <2>2
<1> HIDE DEF dir, rest
<1>6. Covers(walk', more)
  BY <1>2, <1>3, <1>4, <1>5 DEF Covers
<1> QED
  BY <1>6

\* An entry is visited: it is passed over, or what it leads to is found.
LEMMA CoversVisit ==
    ASSUME IInv, NEW done, Covers(walk, done), StraightSearch(walk.search),
           NEW n \in walk.entries, NEW w,
           \/ PassedOver(n, walk.search) /\ w = [walk EXCEPT !.entries = @ \ {n}]
           \/ ~LeadsOut(n) /\ w = Enter([walk EXCEPT !.entries = @ \ {n}], n)
    PROVE  Covers(w, done)
<1> DEFINE rest == [walk EXCEPT !.entries = @ \ {n}]
           target == Canonical(n)
<1>1. walk \in Walks /\ rest \in Walks /\ n \in Solid
  BY DEF IInv, Walks
<1>2. /\ rest.search = walk.search /\ rest.stack = walk.stack /\ rest.seen = walk.seen
      /\ rest.files = walk.files /\ rest.entries = walk.entries \ {n}
  BY <1>1 DEF Walks
<1>3. Stacked(rest) = Stacked(walk)
  BY <1>2 DEF Stacked
<1>4. CASE PassedOver(n, walk.search) /\ w = rest
  <2>1. n \notin Meets(walk.search, done \cap Opens(walk.search))
    BY <1>4, PassedOverUnmet
  <2> HIDE DEF rest
  <2> QED
    BY <1>2, <1>3, <1>4, <2>1 DEF Covers, Found, Handled
<1>5. CASE ~LeadsOut(n) /\ w = Enter(rest, n)
  <2>1. Adds(rest, w, target)
    BY <1>1, <1>5, EnterAdds DEF IInv
  <2> HIDE DEF rest, target
  <2>2. Found(walk, done) \subseteq Found(w, done)
    BY <1>2, <1>3, <2>1 DEF Found, Adds
  <2>3. done \cup Stacked(w) \subseteq Dirs
    BY <1>3, <2>1 DEF Adds, Covers
  <2>4. \A f \in w.files : Kind[f] = "file"
    BY <1>2, <2>1 DEF Adds, Covers
  <2>5. w.seen \subseteq Found(w, done)
    <3>1. \A m \in w.seen : m \in walk.seen \/ (m = target /\ w.seen # walk.seen)
      BY <1>2, <2>1 DEF Adds
    <3>2. w.seen # walk.seen => target \in Found(w, done)
      BY <1>2, <2>1 DEF Adds, Found
    <3> QED
      BY <2>2, <3>1, <3>2 DEF Covers
  <2>6. n \in Meets(walk.search, done \cap Opens(walk.search)) => Handled(n, w, done)
    <3>2. n \in Meets(walk.search, done \cap Opens(walk.search)) => target = Leads[n]
      <4>1. Meets(walk.search, done \cap Opens(walk.search)) \subseteq Meets(walk.search, Opens(walk.search))
        BY DEF Meets
      <4> QED
        BY <1>5, <4>1, MetLeads DEF target
    <3>1. target \in w.files \cup Stacked(w) \cup walk.seen \/ Kind[target] = "missing"
      BY <1>2, <2>1 DEF Adds
    <3> QED
      BY <2>2, <3>1, <3>2 DEF Covers, Found, Handled
  <2>7. w.search = walk.search /\ w.entries = walk.entries \ {n} /\ Stacked(walk) \subseteq Stacked(w)
    BY <1>2, <1>3, <2>1 DEF Adds
  <2>8. ASSUME NEW m \in Meets(w.search, done \cap Opens(w.search))
        PROVE  m \in w.entries \/ Handled(m, w, done)
    <3>1. m \in walk.entries \/ Handled(m, walk, done)
      BY <2>7 DEF Covers
    <3>2. Handled(m, walk, done) => Handled(m, w, done)
      BY <2>2 DEF Handled
    <3> QED
      BY <2>6, <2>7, <3>1, <3>2
  <2> QED
    BY <2>3, <2>4, <2>5, <2>7, <2>8 DEF Covers
<1> QED
  BY <1>4, <1>5

\* The files a tool lists in a directory tree, a walk of it that came to its end has found.
LEMMA WalkFindsAll ==
    ASSUME NEW w, NEW done, Covers(w, done), w.entries = {}, w.stack = <<>>
    PROVE  \A f \in Lists(w.search) \cap Node : Kind[f] = "file" => f \in w.files
<1> DEFINE both == done \cap Opens(w.search)
<1>1. Stacked(w) = {}
  BY DEF Stacked
<1>2. Beginning(w.search) \subseteq both /\ done \subseteq Dirs
  BY <1>1, OpensClosed DEF Covers
<1>3. \A n \in Meets(w.search, both) :
          Leads[n] \in w.files \cup done \/ Kind[Leads[n]] = "missing"
  BY <1>1 DEF Covers, Handled, Found
<1>4. Further(w.search, both) \subseteq both
  <2>1. Meets(w.search, both) \subseteq Meets(w.search, Opens(w.search))
    BY DEF Meets
  <2>2. \A n \in Meets(w.search, both) : Leads[n] \in Dirs => Leads[n] \in Opens(w.search)
    BY <2>1, OpensClosed DEF Further
  <2>3. \A n \in Meets(w.search, both) : Leads[n] \in Dirs => Leads[n] \in done
    BY <1>3 DEF Covers, Dirs
  <2> QED
    BY <2>2, <2>3 DEF Further
<1> HIDE DEF both
<1>5. Opens(w.search) \subseteq both
  BY <1>2, <1>4, OpensWithin
<1>6. Meets(w.search, Opens(w.search)) \subseteq Meets(w.search, both)
  BY <1>5 DEF Meets
<1> SUFFICES ASSUME NEW f \in Lists(w.search) \cap Node, Kind[f] = "file"
             PROVE  f \in w.files
  OBVIOUS
<1>7. PICK n \in Meets(w.search, both) : f = Leads[n]
  BY <1>6 DEF Lists
<1> QED
  BY <1>2, <1>3, <1>7 DEF Dirs

\* What is no directory is not searched.
LEMMA NoDirNoReads ==
    ASSUME NEW search, search.name.node \notin Dirs
    PROVE  Lists(search) = {} /\ ToolReads(search) = {}
<1>1. Beginning(search) = {} /\ Meets(search, {}) = {}
  BY DEF Beginning, Meets
<1>2. Further(search, {}) = {}
  BY <1>1 DEF Further
<1>3. Opens(search) = {}
  BY <1>1, <1>2, OpensWithin
<1> QED
  BY <1>1, <1>3 DEF ToolReads, Lists

-----------------------------------------------------------------------------
(* What a permission rests on.                                             *)

Todo == {todo[i] : i \in 1..Len(todo)}

\* Each straight search of the operation is yet to come, under way, or judged by what its
\* tool reads.
HasCome(search) ==
    \/ search \in Todo
    \/ at \in {"walk", "git"} /\ search = walk.search
    \/ ToolReads(search) \subseteq Reached \cap Inside

NoSecrets == \A f \in Reached : ~HoldsGitCredentials(f, given.root)

WalkCovers ==
    at \in {"walk", "git"} =>
        /\ refused = "no"
        /\ StraightSearch(walk.search) => \E done : Covers(walk, done)
        /\ at = "git" => walk.entries = {} /\ walk.stack = <<>>

\* Only what the operation searches is walked.
OwnSearches ==
    /\ Judging => Todo \subseteq SearchesOf
    /\ at \in {"walk", "git"} => walk.search \in SearchesOf
    /\ SearchesOf = {} => searched = {}

\* A permission was given by the lists, and after the last search.
Grounds ==
    Permitted =>
        /\ at = "settled" /\ refused = "no" /\ todo = <<>> /\ ~Denied
        /\ EverySubjectMatches(Listing)

SearchInv ==
    /\ IInv
    /\ Judging \/ Permitted => todo \in Seq(SearchRecord)
    /\ (Judging \/ Permitted) /\ refused = "no" => \A search \in StraightSearches : HasCome(search)
    /\ OwnSearches
    /\ NoSecrets
    /\ WalkCovers
    /\ Grounds

LEMMA SearchesStay ==
    ASSUME given' = given
    PROVE  /\ SearchesOf' = SearchesOf /\ op' = op /\ StraightSearches' = StraightSearches
           /\ Inside' = Inside
<1>1. op' = op /\ Inside' = Inside
  BY DEF op, Inside
<1>2. SearchesOf' = SearchesOf
  BY <1>1 DEF SearchesOf, Searches, ReadSearch
<1> QED
  BY <1>1, <1>2 DEF StraightSearches

LEMMA TodoShrinks ==
    ASSUME todo \in Seq(SearchRecord), todo # <<>>, todo' = Tail(todo)
    PROVE  /\ todo' \in Seq(SearchRecord) /\ Todo \subseteq Todo' \cup {Head(todo)}
           /\ Todo' \subseteq Todo /\ Head(todo) \in Todo
<1>1. /\ \A i \in 1..Len(todo) : i # 1 => i - 1 \in 1..Len(Tail(todo)) /\ todo[i] = Tail(todo)[i - 1]
      /\ \A i \in 1..Len(Tail(todo)) : i + 1 \in 1..Len(todo) /\ Tail(todo)[i] = todo[i + 1]
  OBVIOUS
<1>2. 1 \in 1..Len(todo) /\ todo[1] = Head(todo) /\ Tail(todo) \in Seq(SearchRecord)
  OBVIOUS
<1>3. Todo' = {Tail(todo)[i] : i \in 1..Len(Tail(todo))}
  BY DEF Todo
<1>4. Todo' \subseteq Todo /\ Head(todo) \in Todo
  BY <1>1, <1>2, <1>3 DEF Todo
<1>5. ASSUME NEW i \in 1..Len(todo)
      PROVE  todo[i] \in Todo' \cup {Head(todo)}
  <2>1. CASE i = 1
    BY <2>1, <1>2
  <2>2. CASE i # 1
    BY <2>2, <1>1, <1>3
  <2> QED
    BY <2>1, <2>2
<1>6. Todo \subseteq Todo' \cup {Head(todo)}
  BY <1>5 DEF Todo
<1> QED
  BY <1>2, <1>4, <1>6

\* A visit and a listing leave the walk its search.
LEMMA SearchStays ==
    ASSUME IInv, ReadDir \/ (Visit /\ at' = "walk")
    PROVE  walk'.search = walk.search
<1>1. CASE ReadDir
  BY <1>1 DEF ReadDir, IInv, Walks
<1>2. CASE Visit /\ at' = "walk"
  <2>1. PICK n \in walk.entries :
            \/ walk' = [walk EXCEPT !.entries = @ \ {n}]
            \/ ~LeadsOut(n) /\ walk' = Enter([walk EXCEPT !.entries = @ \ {n}], n)
    BY <1>2 DEF Visit
  <2>2. /\ [walk EXCEPT !.entries = @ \ {n}] \in Walks /\ n \in Solid
        /\ [walk EXCEPT !.entries = @ \ {n}].search = walk.search
    BY DEF IInv, Walks
  <2> QED
    BY <2>1, <2>2, EnterInside DEF IInv
<1> QED
  BY <1>1, <1>2

LEMMA OwnSearchesKept == IInv /\ OwnSearches /\ [Next]_vars => OwnSearches'
<1> SUFFICES ASSUME IInv, OwnSearches, [Next]_vars
             PROVE  OwnSearches'
  OBVIOUS
<1>1. given' = given
  BY DEF Next, vars, Enrol, Contain, NextSearch, ReadDir, Visit, WalkEnds, GitAnswers, GitFails,
         Conclude, Decide, Stop
<1>2. SearchesOf' = SearchesOf
  BY <1>1, SearchesStay
<1>3. CASE Enrol
  BY <1>2, <1>3 DEF Enrol, OwnSearches, Judging
<1>4. CASE Contain
  <2>1. CASE ContainRefuses
    BY <1>2, <1>4, <2>1 DEF Contain, OwnSearches, Judging
  <2>2. CASE ~ContainRefuses
    <3>1. todo' = Searches /\ UNCHANGED searched /\ at' = "search"
      BY <1>4, <2>2 DEF Contain
    <3>2. Todo' = SearchesOf
      BY <2>2, <3>1, SearchesInside DEF IInv, SearchesOf, Todo
    <3> QED
      BY <1>2, <3>1, <3>2 DEF OwnSearches
  <2> QED
    BY <2>1, <2>2
<1>5. CASE NextSearch
  <2>1. at = "search" /\ todo # <<>> /\ todo' = Tail(todo) /\ UNCHANGED searched
    BY <1>5 DEF NextSearch
  <2>2. todo \in Seq(SearchRecord) /\ Todo \subseteq SearchesOf
    BY <2>1 DEF IInv, OwnSearches, Judging
  <2>3. Todo' \subseteq SearchesOf' /\ Head(todo) \in SearchesOf'
    BY <1>2, <2>1, <2>2, TodoShrinks
  <2>4. at' = "search" \/ walk'.search = Head(todo)
    BY <1>5, <2>1 DEF NextSearch, NoWalk
  <2> QED
    BY <1>2, <2>1, <2>3, <2>4 DEF OwnSearches
<1>6. CASE ReadDir \/ (Visit /\ at' = "walk")
  <2>1. at = "walk" /\ UNCHANGED <<todo, searched>> /\ walk'.search = walk.search
    BY <1>6, SearchStays DEF ReadDir, Visit
  <2> QED
    BY <1>2, <2>1 DEF OwnSearches, Judging, Todo
<1>7. CASE Visit /\ at' # "walk"
  <2>1. at = "walk" /\ at' = "search" /\ UNCHANGED <<todo, searched>>
    BY <1>7 DEF Visit
  <2> QED
    BY <1>2, <2>1 DEF OwnSearches, Judging, Todo
<1>8. ASSUME at \in {"walk", "git"}, NEW kept, Conclude(kept)
      PROVE  OwnSearches'
  BY <1>2, <1>8 DEF Conclude, OwnSearches, Judging, Todo
<1>9. CASE WalkEnds
  <2>1. CASE Suspects = {}
    BY <1>8, <1>9, <2>1 DEF WalkEnds
  <2>2. CASE Suspects # {}
    <3>1. at = "walk" /\ at' = "git" /\ UNCHANGED <<todo, walk, searched>>
      BY <1>9, <2>2 DEF WalkEnds
    <3> QED
      BY <1>2, <3>1 DEF OwnSearches, Judging, Todo
  <2> QED
    BY <2>1, <2>2
<1>10. CASE GitAnswers \/ GitFails
  BY <1>8, <1>10 DEF GitAnswers, GitFails
<1>11. CASE Decide
  BY <1>2, <1>11 DEF Decide, OwnSearches, Judging
<1>12. CASE Stop \/ UNCHANGED vars
  BY <1>2, <1>12 DEF Stop, vars, OwnSearches, Judging, Todo
<1> QED
  BY <1>3, <1>4, <1>5, <1>6, <1>7, <1>9, <1>10, <1>11, <1>12 DEF Next, Visit

\* The lists judge the same as long as nothing else has been searched.
LEMMA SubjectsStay ==
    ASSUME UNCHANGED <<given, searched, refused>>
    PROVE  /\ Denied' <=> Denied
           /\ Reached' = Reached
           /\ Subjects' = Subjects
           /\ NoSecrets' <=> NoSecrets
<1>1. op' = op /\ Reached' = Reached
  BY DEF op, Reached
<1>2. Segments' = Segments /\ NamedPaths' = NamedPaths /\ Paths' = Paths
  BY <1>1 DEF Segments, NamedPaths, Words, Paths, Declared
<1>3. Subjects' = Subjects
  BY <1>1, <1>2 DEF Subjects
<1> QED
  BY <1>1, <1>2, <1>3 DEF Denied, NoSecrets

\* A walk is concluded by no less than its tool reads, or refuses the operation.
LEMMA ConcludeJudges ==
    ASSUME SearchInv, at \in {"walk", "git"}, walk.entries = {}, walk.stack = <<>>, NEW kept,
           kept \subseteq Opened, Conclude(kept), IInv',
           StraightSearch(walk.search) => ToolReads(walk.search) \subseteq kept
    PROVE  SearchInv'
<1>1. /\ given' = given /\ todo' = todo /\ verdict' = verdict /\ at' = "search" /\ walk' = NoWalk
  BY DEF Conclude
<1>2. ~Permitted /\ ~Permitted' /\ Judging
  BY <1>1 DEF SearchInv, Grounds, Permitted, Judging
<1>3. /\ SearchesOf' = SearchesOf /\ StraightSearches' = StraightSearches /\ Inside' = Inside
      /\ Todo' = Todo
  BY <1>1, SearchesStay DEF Todo
<1>4. todo' \in Seq(SearchRecord) /\ OwnSearches'
  BY <1>1, <1>2, <1>3 DEF SearchInv, OwnSearches
<1>5. CASE \E f \in kept : HoldsGitCredentials(f, given.root)
  <2>1. refused' = "secret" /\ searched' = searched
    BY <1>5 DEF Conclude
  <2>2. NoSecrets'
    BY <1>1, <2>1 DEF SearchInv, NoSecrets, Reached
  <2> QED
    BY <1>1, <1>2, <1>4, <2>1, <2>2 DEF SearchInv, WalkCovers, Grounds
<1>6. CASE ~\E f \in kept : HoldsGitCredentials(f, given.root)
  <2>1. /\ refused' = refused
        /\ searched' = searched \cup {[where |-> walk.search.dir, files |-> kept]}
    BY <1>6 DEF Conclude
  <2>2. Reached' = Reached \cup kept
    <3>1. UNION {s.files : s \in {[where |-> walk.search.dir, files |-> kept]}} = kept
      OBVIOUS
    <3>2. \A A, B : UNION {s.files : s \in A \cup B}
                      = (UNION {s.files : s \in A}) \cup (UNION {s.files : s \in B})
      OBVIOUS
    <3> QED
      BY <2>1, <3>1, <3>2 DEF Reached
  <2>3. NoSecrets'
    BY <1>1, <1>6, <2>2 DEF SearchInv, NoSecrets
  <2>4. StraightSearch(walk.search) => kept \subseteq Inside
    <3>1. given \in Cases /\ ~ContainRefuses /\ walk.search \in SearchesOf
      BY <1>2 DEF SearchInv, IInv, Passed, OwnSearches
    <3>2. StraightSearch(walk.search) => walk.search.dir \in Straight
      BY <3>1, StraightStart DEF StraightSearch
    <3> QED
      BY <3>2 DEF SearchInv, IInv, Confined, Opened
  <2>5. ASSUME refused' = "no", NEW search \in StraightSearches
        PROVE  HasCome(search)'
    <3>1. HasCome(search)
      BY <1>2, <2>1, <2>5 DEF SearchInv
    <3>2. CASE search = walk.search
      <4>1. ToolReads(search) \subseteq kept /\ kept \subseteq Inside
        BY <2>4, <2>5, <3>2 DEF StraightSearches
      <4> QED
        BY <1>3, <2>2, <4>1 DEF HasCome
    <3>3. CASE search # walk.search
      BY <1>3, <2>2, <3>1, <3>3 DEF HasCome
    <3> QED
      BY <3>2, <3>3
  <2> QED
    BY <1>1, <1>2, <1>3, <1>4, <2>3, <2>5 DEF SearchInv, WalkCovers, Grounds
<1> QED
  BY <1>5, <1>6

LEMMA JudgementKept == SearchInv /\ [Next]_vars => SearchInv'
<1> SUFFICES ASSUME SearchInv, [Next]_vars
             PROVE  SearchInv'
  OBVIOUS
<1>1. given' = given
  BY DEF Next, vars, Enrol, Contain, NextSearch, ReadDir, Visit, WalkEnds, GitAnswers, GitFails,
         Conclude, Decide, Stop
<1>2. IInv /\ IInv'
  BY StepInvariant DEF SearchInv
<1>3. /\ SearchesOf' = SearchesOf /\ op' = op /\ StraightSearches' = StraightSearches
      /\ Inside' = Inside
  BY <1>1, SearchesStay
<1> OwnSearches'
  BY <1>2, OwnSearchesKept DEF SearchInv
<1>4. CASE Enrol
  <2>1. /\ at' \in {"stranger", "contain"} /\ UNCHANGED <<todo, walk, searched, refused, verdict>>
        /\ at = "enrol"
    BY <1>4 DEF Enrol
  <2>2. ~Permitted /\ ~Permitted' /\ ~Judging' /\ NoSecrets'
    BY <1>1, <2>1 DEF SearchInv, Grounds, Permitted, Judging, NoSecrets, Reached
  <2> QED
    BY <1>2, <2>1, <2>2 DEF SearchInv, WalkCovers, Grounds
<1>5. CASE Contain
  <2>1. at = "contain" /\ UNCHANGED <<walk, searched, refused>>
    BY <1>5 DEF Contain
  <2>2. ~Permitted /\ NoSecrets'
    BY <1>1, <2>1 DEF SearchInv, Grounds, NoSecrets, Reached
  <2>3. CASE ContainRefuses
    <3>1. at' = "settled" /\ verdict' = "deny"
      BY <1>5, <2>3 DEF Contain
    <3> QED
      BY <1>2, <2>1, <2>2, <3>1 DEF SearchInv, WalkCovers, Grounds, Permitted, Judging
  <2>4. CASE ~ContainRefuses
    <3>1. at' = "search" /\ todo' = Searches /\ verdict' = verdict
      BY <1>5, <2>4 DEF Contain
    <3>2. todo' \in Seq(SearchRecord)
      BY <2>4, <3>1, SearchesInside, <1>2 DEF IInv
    <3>3. Todo' = SearchesOf
      BY <3>1, <3>2 DEF SearchesOf, Todo
    <3>4. \A search \in StraightSearches' : HasCome(search)'
      BY <1>3, <3>3 DEF StraightSearches, HasCome
    <3> QED
      BY <1>2, <1>3, <2>1, <2>2, <3>1, <3>2, <3>3, <3>4
         DEF SearchInv, WalkCovers, Grounds, Permitted, Judging
  <2> QED
    BY <2>3, <2>4
<1>6. CASE NextSearch
  <2>1. at = "search" /\ todo # <<>> /\ todo' = Tail(todo) /\ refused = "no"
        /\ UNCHANGED <<searched, refused, verdict>>
    BY <1>6 DEF NextSearch
  <2>2. ~Permitted /\ ~Permitted' /\ NoSecrets' /\ Judging
    BY <1>1, <2>1 DEF SearchInv, Grounds, Permitted, NoSecrets, Reached, Judging
  <2>3. /\ todo \in Seq(SearchRecord) /\ Todo \subseteq SearchesOf
        /\ \A search \in StraightSearches : HasCome(search)
    BY <2>1, <2>2 DEF SearchInv, OwnSearches
  <2> DEFINE search == Head(todo)
  <2>4. /\ todo' \in Seq(SearchRecord) /\ Todo \subseteq Todo' \cup {search}
        /\ search \in SearchesOf
    BY <2>1, <2>3, TodoShrinks
  <2>5. Reached' = Reached
    BY <2>1 DEF Reached
  <2> HIDE DEF search
  <2>6. ASSUME NEW s \in StraightSearches
        PROVE  s = search \/ s \in Todo' \/ ToolReads(s) \subseteq Reached' \cap Inside'
    BY <1>3, <2>1, <2>3, <2>4, <2>5 DEF HasCome
  <2>7. StraightSearch(search) => Real(search.dir) = search.name.node
    <3>1. given \in Cases /\ ~ContainRefuses
      BY <1>2, <2>2 DEF IInv, Passed
    <3> QED
      BY <2>4, <3>1, StraightStart DEF StraightSearch
  <2>8. CASE Real(search.dir) \in Dirs
    <3>1. /\ at' = "walk"
          /\ walk' = [NoWalk EXCEPT !.search = search, !.stack = <<Real(search.dir)>>,
                                    !.seen = {Real(search.dir)}]
      BY <1>6, <2>8 DEF NextSearch, search
    <3>2. /\ walk'.search = search /\ walk'.stack = <<Real(search.dir)>>
          /\ walk'.seen = {Real(search.dir)} /\ walk'.files = {}
      BY <3>1 DEF NoWalk
    <3>3. StraightSearch(search) => Covers(walk', {})
      BY <2>7, <2>8, <3>2, CoversStart
    <3>4. \A s \in StraightSearches' : HasCome(s)'
      BY <1>3, <2>6, <3>1, <3>2 DEF HasCome
    <3>5. WalkCovers'
      BY <2>1, <3>1, <3>2, <3>3 DEF WalkCovers
    <3> QED
      BY <1>2, <2>2, <2>4, <3>4, <3>5 DEF SearchInv, Grounds
  <2>9. CASE Real(search.dir) \notin Dirs
    <3>1. at' = at /\ walk' = walk
      BY <1>6, <2>9 DEF NextSearch, search
    <3>2. StraightSearch(search) => ToolReads(search) = {}
      BY <2>7, <2>9, NoDirNoReads
    <3>3. \A s \in StraightSearches' : HasCome(s)'
      BY <1>3, <2>6, <3>2 DEF HasCome, StraightSearches
    <3> QED
      BY <1>2, <2>1, <2>2, <2>4, <3>1, <3>3 DEF SearchInv, WalkCovers, Grounds
  <2> QED
    BY <2>8, <2>9
<1>7. CASE ReadDir
  <2>1. at = "walk" /\ UNCHANGED <<at, todo, searched, refused, verdict>>
    BY <1>7 DEF ReadDir
  <2>2. ~Permitted /\ ~Permitted' /\ NoSecrets' /\ Judging /\ Reached' = Reached /\ Todo' = Todo
    BY <1>1, <2>1 DEF SearchInv, Grounds, Permitted, NoSecrets, Reached, Judging, Todo
  <2>3. walk'.search = walk.search
    BY <1>2, <1>7, SearchStays
  <2>4. WalkCovers'
    BY <1>2, <1>7, <2>1, <2>3, CoversReadDir DEF WalkCovers, SearchInv
  <2>5. refused' = "no" => \A s \in StraightSearches' : HasCome(s)'
    BY <1>3, <2>1, <2>2, <2>3 DEF HasCome, SearchInv
  <2> QED
    BY <1>2, <2>1, <2>2, <2>4, <2>5 DEF SearchInv, Grounds
<1>8. CASE Visit
  <2>1. at = "walk" /\ UNCHANGED <<todo, searched, verdict>>
    BY <1>8 DEF Visit
  <2>2. ~Permitted /\ ~Permitted' /\ NoSecrets' /\ Judging /\ Reached' = Reached /\ Todo' = Todo
    BY <1>1, <2>1 DEF SearchInv, Grounds, Permitted, NoSecrets, Reached, Judging, Todo
  <2>3. todo' \in Seq(SearchRecord)
    BY <2>1, <2>2 DEF SearchInv
  <2>4. CASE at' = "search" /\ refused' # "no"
    BY <1>2, <2>2, <2>3, <2>4 DEF SearchInv, WalkCovers, Grounds
  <2>5. CASE ~(at' = "search" /\ refused' # "no")
    <3>1. PICK n \in walk.entries :
              /\ UNCHANGED <<at, refused>>
              /\ \/ /\ PassedOver(n, walk.search)
                    /\ walk' = [walk EXCEPT !.entries = @ \ {n}]
                 \/ /\ ~LeadsOut(n)
                    /\ walk' = Enter([walk EXCEPT !.entries = @ \ {n}], n)
      BY <1>8, <2>5 DEF Visit
    <3>2. StraightSearch(walk.search) => \E done : Covers(walk, done)
      BY <2>1 DEF SearchInv, WalkCovers
    <3>3. StraightSearch(walk.search) => \E done : Covers(walk', done)
      BY <1>2, <3>1, <3>2, CoversVisit
    <3>4. walk'.search = walk.search
      BY <1>2, <1>8, <2>1, <3>1, SearchStays
    <3>5. WalkCovers'
      BY <2>1, <3>1, <3>3, <3>4 DEF WalkCovers, SearchInv
    <3>6. refused' = "no" => \A s \in StraightSearches' : HasCome(s)'
      BY <1>3, <2>1, <2>2, <3>1, <3>4 DEF HasCome, SearchInv
    <3> QED
      BY <1>2, <2>2, <2>3, <3>5, <3>6 DEF SearchInv, Grounds
  <2> QED
    BY <2>4, <2>5
<1>9. CASE WalkEnds
  <2>1. at = "walk" /\ walk.entries = {} /\ walk.stack = <<>>
    BY <1>9 DEF WalkEnds
  <2>2. StraightSearch(walk.search) => ToolReads(walk.search) \subseteq Opened
    BY <2>1, WalkFindsAll DEF SearchInv, WalkCovers, Opened, ToolReads
  <2>3. CASE Suspects = {}
    BY <1>2, <1>9, <2>1, <2>2, <2>3, ConcludeJudges DEF WalkEnds
  <2>4. CASE Suspects # {}
    <3>1. at' = "git" /\ UNCHANGED <<todo, walk, searched, refused, verdict>>
      BY <1>9, <2>4 DEF WalkEnds
    <3>2. ~Permitted /\ ~Permitted' /\ NoSecrets' /\ Judging /\ Reached' = Reached /\ Todo' = Todo
      BY <1>1, <2>1, <3>1 DEF SearchInv, Grounds, Permitted, NoSecrets, Reached, Judging, Todo
    <3>3. WalkCovers'
      BY <2>1, <3>1 DEF WalkCovers, SearchInv
    <3>4. refused' = "no" => \A s \in StraightSearches' : HasCome(s)'
      BY <1>3, <2>1, <3>1, <3>2 DEF HasCome, SearchInv
    <3> QED
      BY <1>2, <3>1, <3>2, <3>3, <3>4 DEF SearchInv, Grounds
  <2> QED
    BY <2>3, <2>4
<1>10. CASE GitAnswers \/ GitFails
  <2>1. at = "git" /\ walk.entries = {} /\ walk.stack = <<>>
    BY <1>10 DEF GitAnswers, GitFails, SearchInv, WalkCovers
  <2>2. StraightSearch(walk.search) => ToolReads(walk.search) \subseteq Opened
    BY <2>1, WalkFindsAll DEF SearchInv, WalkCovers, Opened, ToolReads
  <2>3. StraightSearch(walk.search) =>
            ToolReads(walk.search) \subseteq Opened \ (Suspects \cap Ignored)
    BY <2>2 DEF Suspects, ToolReads
  <2>4. PICK kept : /\ kept \subseteq Opened /\ Conclude(kept)
                    /\ StraightSearch(walk.search) => ToolReads(walk.search) \subseteq kept
    BY <1>10, <2>2, <2>3 DEF GitAnswers, GitFails
  <2> QED
    BY <1>2, <2>1, <2>4, ConcludeJudges
<1>11. CASE Decide
  <2>1. /\ at = "search" /\ at' = "settled" /\ (todo = <<>> \/ refused # "no")
        /\ UNCHANGED <<todo, walk, searched, refused>>
    BY <1>11 DEF Decide
  <2>2. ~Permitted /\ Judging /\ Reached' = Reached /\ Todo' = Todo /\ NoSecrets'
    BY <1>1, <2>1 DEF SearchInv, Grounds, Reached, Judging, Todo, NoSecrets
  <2>3. (Denied' <=> Denied) /\ Subjects' = Subjects
    BY <1>1, <2>1, SubjectsStay
  <2>4. Grounds'
    <3>1. Permitted' => /\ ~Denied
                        /\ \/ verdict' = "allow" /\ EverySubjectMatches(given.rules.allow)
                           \/ /\ verdict' = "ask"
                              /\ EverySubjectMatches(given.rules.allow \cup given.rules.ask)
      BY <1>11 DEF Decide, Permitted
    <3>2. /\ verdict' = "allow" => Listing' = given.rules.allow
          /\ verdict' = "ask" => Listing' = given.rules.allow \cup given.rules.ask
      BY <1>1 DEF Listing
    <3>3. Permitted' => EverySubjectMatches(Listing')
      BY <3>1, <3>2
    <3>4. Permitted' => EverySubjectMatches(Listing)'
      BY <3>3, <1>3, <2>3 DEF EverySubjectMatches
    <3>5. Permitted' => refused = "no"
      BY <3>1 DEF Denied
    <3> QED
      BY <2>1, <2>3, <3>1, <3>4, <3>5 DEF Grounds
  <2>5. refused' = "no" => \A s \in StraightSearches' : HasCome(s)'
    BY <1>3, <2>1, <2>2 DEF HasCome, SearchInv
  <2> QED
    BY <1>2, <2>1, <2>2, <2>4, <2>5 DEF SearchInv, WalkCovers
<1>12. CASE Stop \/ UNCHANGED vars
  <2>1. UNCHANGED vars
    BY <1>12 DEF Stop
  <2>2. UNCHANGED <<given, at, todo, walk, searched, refused, gitFailed, verdict>>
    BY <2>1 DEF vars
  <2>3. (Denied' <=> Denied) /\ Reached' = Reached /\ Subjects' = Subjects /\ (NoSecrets' <=> NoSecrets)
    BY <2>2, SubjectsStay
  <2>4. Todo' = Todo /\ Listing' = Listing /\ (Permitted' <=> Permitted) /\ (Judging' <=> Judging)
    BY <2>2 DEF Todo, Listing, Permitted, Judging
  <2>5. EverySubjectMatches(Listing)' <=> EverySubjectMatches(Listing)
    BY <1>3, <2>3, <2>4 DEF EverySubjectMatches
  <2>6. \A s : HasCome(s)' <=> HasCome(s)
    BY <1>3, <2>2, <2>3, <2>4 DEF HasCome
  <2>7. WalkCovers'
    BY <2>2 DEF SearchInv, WalkCovers
  <2>8. Grounds'
    BY <2>2, <2>3, <2>4, <2>5 DEF SearchInv, Grounds
  <2> QED
    BY <1>2, <1>3, <2>2, <2>3, <2>4, <2>6, <2>7, <2>8 DEF SearchInv
<1> QED
  BY <1>4, <1>5, <1>6, <1>7, <1>8, <1>9, <1>10, <1>11, <1>12 DEF Next

LEMMA StartsJudging == Init => SearchInv
<1> SUFFICES ASSUME Init
             PROVE  SearchInv
  OBVIOUS
<1>1. Reached = {} /\ ~Permitted /\ ~Judging
  BY DEF Init, Reached, Permitted, Judging
<1> QED
  BY <1>1, InitInvariant DEF Init, SearchInv, NoSecrets, WalkCovers, Grounds, OwnSearches

LEMMA SearchInvariant == Spec => []SearchInv
BY StartsJudging, JudgementKept, PTL DEF Spec

\* A plain read searches nothing, so that the lists judge the file itself.
LEMMA PlainReadSearches ==
    ASSUME given \in Cases, op.kind = "read", ~op.recursive
    PROVE  SearchesOf = {}
BY CaseTypes DEF SearchesOf, Searches

\* No permission rests on a search that was judged by less than its tool reads: not when
\* links lead round, when a directory cannot be listed, when an entry comes late, or when
\* git gives no answer; nor on a name that was followed to another file than is opened.
THEOREM PermissionIsSafeHolds == Spec => []PermissionIsSafe
<1>1. ASSUME SearchInv, Permitted
      PROVE  /\ given \in Cases /\ ~ContainRefuses
             /\ at = "settled" /\ refused = "no" /\ todo = <<>> /\ ~Denied
             /\ EverySubjectMatches(Listing)
  BY <1>1 DEF SearchInv, IInv, Passed, Grounds
<1>2. ASSUME SearchInv, Permitted, NEW search \in StraightSearches, NEW f \in ToolReads(search)
      PROVE  /\ ~Suspect(f)
             /\ op.kind = "read" => FirstMatch(Listing, "read", {f})
             /\ IsWithin(f, given.root)
             /\ \A p \in Protected : ~IsWithin(f, p)
             /\ ~HoldsGitCredentials(f, given.root)
  <2>1. f \in Reached /\ f \in Inside
    <3>1. HasCome(search) /\ Todo = {}
      BY <1>1, <1>2 DEF SearchInv, Todo
    <3> QED
      BY <1>1, <1>2, <3>1 DEF HasCome
  <2>2. IsWithin(f, given.root) /\ \A p \in Protected : ~IsWithin(f, p)
    BY <1>1, <1>2, <2>1, InsideUnprotected DEF SearchInv, IInv, Enrolled, Inside
  <2>3. ~HoldsGitCredentials(f, given.root)
    BY <1>2, <2>1 DEF SearchInv, NoSecrets
  <2>4. ~Suspect(f)
    BY <1>1, <1>2, <2>1 DEF Denied, Suspect, FirstMatch
  <2>5. ASSUME op.kind = "read"
        PROVE  FirstMatch(Listing, "read", {f})
    <3>1. Plain(f) \in Subjects
      BY <2>1, <2>5 DEF Subjects
    <3>2. FirstMatch(Listing, op.kind, Plain(f).allow)
      BY <1>1, <1>2, <3>1 DEF EverySubjectMatches
    <3> QED
      BY <2>5, <3>2 DEF Plain
  <2> QED
    BY <2>2, <2>3, <2>4, <2>5
<1>3. ASSUME SearchInv, Permitted, op.kind = "exec" \/ (op.kind = "read" /\ ~op.recursive),
             NEW name \in Touched \ {op.cwd}, StraightName(name), name.node \notin Devices,
             Kind[name.node] # "missing"
      PROVE  ~Suspect(name.node)
  <2>1. CASE op.kind = "exec"
    <3>1. PICK word \in Words : name \in word.names /\ ~word.program
      BY <1>3, <2>1 DEF Touched
    <3>2. ~WordRefuses(word)
      BY <1>1, <1>3, <2>1, <3>1 DEF ContainRefuses
    <3>3. name.node = Canonical(name.path)
      BY <1>3, <3>1, <3>2, StraightFound DEF WordRefuses
    <3>4. name.node \in NamedPaths
      BY <1>3, <3>1, <3>3 DEF NamedPaths
    <3> QED
      BY <1>1, <1>3, <2>1, <3>4 DEF Denied, Suspect, FirstMatch
  <2>2. CASE op.kind = "read" /\ ~op.recursive
    <3>1. name \in Declared /\ name \in Names \cup {NoName}
      BY <1>1, <1>3, <2>2, CaseTypes DEF Touched, Declared
    <3>2. ~CheckRefuses(name)
      BY <1>1, <1>3, <2>2, <3>1 DEF ContainRefuses
    <3>3. name.node \in Paths
      BY <1>3, <3>1, <3>2, CheckFinds DEF Paths
    <3>4. searched = {}
      BY <1>1, <1>3, <2>2, PlainReadSearches DEF SearchInv, OwnSearches
    <3>5. Plain(name.node) \in Subjects
      <4>1. name.node \notin {s.where : s \in {t \in searched : t.files # {}}}
        BY <3>4
      <4> QED
        BY <2>2, <3>3, <4>1 DEF Subjects
    <3>6. ~FirstMatch(given.rules.deny, op.kind, Plain(name.node).deny)
      BY <1>1, <1>3, <3>5 DEF Denied
    <3> QED
      BY <2>2, <3>6 DEF Plain, Suspect
  <2> QED
    BY <1>3, <2>1, <2>2
<1>4. SearchInv => PermissionIsSafe
  <2>1. SearchInv => PermissionCovers
    BY <1>2, <1>3 DEF PermissionCovers
  <2>2. SearchInv => SecretsKept
    BY <1>2 DEF SecretsKept
  <2> QED
    BY <2>1, <2>2 DEF PermissionIsSafe
<1> QED
  BY <1>4, SearchInvariant, PTL


-----------------------------------------------------------------------------
(* How often a walk counts a file.                                         *)

\* A directory is listed because it is the start, because a link leads to it, or because the
\* directory it lies in is listed.  Where that began is its origin.
Origins(search) ==
    {search.name.node} \cup (IF search.follow THEN {Leads[n] : n \in Links} ELSE {})

Pairs(w, tags) == {<<w.stack[i], tags[i]>> : i \in 1..Len(w.stack)}

\* What has come into the walk in a directory of the same origin has come from there.
Placed(p, w, listed, from) ==
    /\ p[1] \in Node /\ p[2] \in Origins(w.search) /\ p[2] \in Above[p[1]]
    /\ p[1] = p[2] => p[1] \in w.seen
    /\ p[1] # p[2] => <<Parent[p[1]], p[2]>> \in listed /\ ~(p[2] = from /\ p[1] \in w.entries)

\* The stack has no directory twice with one origin, nor the files any; all of it is something
\* the tool opens or lists.
Tagged(w, tags, listed, counted, from) ==
    /\ tags \in Seq(Node) /\ Len(tags) = Len(w.stack)
    /\ \A i, j \in 1..Len(w.stack) : w.stack[i] = w.stack[j] /\ tags[i] = tags[j] => i = j
    /\ listed \cap Pairs(w, tags) = {}
    /\ listed \cup counted \subseteq Node \X Node
    /\ IsFiniteSet(counted) /\ Cardinality(counted) = w.count
    /\ \A p \in listed \cup counted \cup Pairs(w, tags) : Placed(p, w, listed, from)
    /\ w.entries # {} =>
          <<w.dir, from>> \in listed /\ w.entries \subseteq Children(w.dir) /\ w.dir \notin Unreadable
    /\ \A p \in listed \cup Pairs(w, tags) : p[1] \in Opens(w.search)
    /\ \A p \in counted : p[1] \in Lists(w.search)
    /\ w.files \subseteq Lists(w.search)

\* The rest of a walk to which something is added.
Adding(w, e) ==
    e.search = w.search /\ e.entries = w.entries /\ e.dir = w.dir /\ w.seen \subseteq e.seen

\* Directory m comes on top of the stack, with the origin o.
Pushed(w, e, tags, m, o) ==
    /\ Pairs(e, Append(tags, o)) = Pairs(w, tags) \cup {<<m, o>>}
    /\ Append(tags, o) \in Seq(Node) /\ Len(Append(tags, o)) = Len(e.stack)
    /\ \A i \in 1..Len(e.stack) :
          \/ /\ i \in 1..Len(w.stack)
             /\ e.stack[i] = w.stack[i] /\ Append(tags, o)[i] = tags[i]
          \/ i = Len(w.stack) + 1 /\ e.stack[i] = m /\ Append(tags, o)[i] = o

LEMMA PairsPushed ==
    ASSUME NEW w, NEW e, NEW tags \in Seq(Node), NEW m \in Node, NEW o \in Node,
           w.stack \in Seq(Node), Len(tags) = Len(w.stack), e.stack = Append(w.stack, m)
    PROVE  Pushed(w, e, tags, m, o)
<1> DEFINE st == Append(w.stack, m)
           tg == Append(tags, o)
           k == Len(w.stack) + 1
<1>1. /\ Len(st) = k /\ Len(tg) = k /\ k \in 1..k /\ st[k] = m /\ tg[k] = o
      /\ \A i \in 1..k : i \in 1..Len(w.stack) \/ i = k
      /\ \A i \in 1..Len(w.stack) : i \in 1..k /\ st[i] = w.stack[i] /\ tg[i] = tags[i]
      /\ tg \in Seq(Node)
  OBVIOUS
<1> HIDE DEF st, tg, k
<1>2. Pairs(e, tg) = {<<st[i], tg[i]>> : i \in 1..k}
  BY <1>1 DEF Pairs, st
<1>3. {<<st[i], tg[i]>> : i \in 1..k} = {<<w.stack[i], tags[i]>> : i \in 1..Len(w.stack)} \cup {<<m, o>>}
  BY <1>1
<1>4. Pairs(e, tg) = Pairs(w, tags) \cup {<<m, o>>}
  BY <1>2, <1>3 DEF Pairs
<1>5. e.stack = st
  BY DEF st
<1>6. \A i \in 1..k : \/ i \in 1..Len(w.stack) /\ st[i] = w.stack[i] /\ tg[i] = tags[i]
                      \/ i = k /\ st[i] = m /\ tg[i] = o
  BY <1>1
<1> QED
  BY <1>1, <1>4, <1>5, <1>6 DEF tg, k, Pushed

LEMMA TaggedPush ==
    ASSUME NEW w, NEW e, NEW tags, NEW listed, NEW counted, NEW from,
           Tagged(w, tags, listed, counted, from),
           NEW m \in Node, NEW o \in Node, w.stack \in Seq(Node),
           Adding(w, e), e.stack = Append(w.stack, m), e.files = w.files, e.count = w.count,
           <<m, o>> \notin listed \cup Pairs(w, tags), Placed(<<m, o>>, e, listed, from),
           m \in Opens(w.search)
    PROVE  Tagged(e, Append(tags, o), listed, counted, from)
<1>1. /\ Pairs(e, Append(tags, o)) = Pairs(w, tags) \cup {<<m, o>>}
      /\ Append(tags, o) \in Seq(Node) /\ Len(Append(tags, o)) = Len(e.stack)
      /\ \A i \in 1..Len(e.stack) :
            \/ /\ i \in 1..Len(w.stack)
               /\ e.stack[i] = w.stack[i] /\ Append(tags, o)[i] = tags[i]
            \/ i = Len(w.stack) + 1 /\ e.stack[i] = m /\ Append(tags, o)[i] = o
  <2>1. tags \in Seq(Node) /\ Len(tags) = Len(w.stack)
    BY DEF Tagged
  <2>2. Pushed(w, e, tags, m, o)
    BY <2>1, PairsPushed
  <2> QED
    BY <2>2 DEF Pushed
<1> DEFINE tg == Append(tags, o)
<1> HIDE DEF tg
<1>2. ASSUME NEW i \in 1..Len(e.stack), NEW j \in 1..Len(e.stack),
             e.stack[i] = e.stack[j], tg[i] = tg[j]
      PROVE  i = j
  <2>1. \A l \in 1..Len(w.stack) : ~(w.stack[l] = m /\ tags[l] = o)
    <3>1. \A l \in 1..Len(w.stack) : <<w.stack[l], tags[l]>> \in Pairs(w, tags)
      BY DEF Pairs
    <3> QED
      BY <3>1
  <2> QED
    BY <1>1, <1>2, <2>1 DEF Tagged, tg
<1>3. \A p \in listed \cup counted \cup Pairs(w, tags) : Placed(p, e, listed, from)
  BY DEF Tagged, Placed, Adding
<1>4. listed \cap Pairs(e, tg) = {}
  BY <1>1 DEF Tagged, tg
<1>5. \A p \in listed \cup counted \cup Pairs(e, tg) : Placed(p, e, listed, from)
  BY <1>1, <1>3 DEF tg
<1>6. \A p \in listed \cup Pairs(e, tg) : p[1] \in Opens(e.search)
  BY <1>1 DEF Tagged, Adding, tg
<1>7. /\ tg \in Seq(Node) /\ Len(tg) = Len(e.stack)
  BY <1>1 DEF tg
<1>8. Tagged(e, tg, listed, counted, from)
  BY <1>2, <1>4, <1>5, <1>6, <1>7 DEF Tagged, Adding
<1> QED
  BY <1>8 DEF tg

LEMMA TaggedCount ==
    ASSUME NEW w, NEW e, NEW tags, NEW listed, NEW counted, NEW from,
           Tagged(w, tags, listed, counted, from),
           NEW m \in Node, NEW o \in Node,
           Adding(w, e), e.stack = w.stack, e.files = w.files \cup {m}, e.count = w.count + 1,
           <<m, o>> \notin counted, Placed(<<m, o>>, e, listed, from),
           m \in Lists(w.search)
    PROVE  Tagged(e, tags, listed, counted \cup {<<m, o>>}, from)
<1> DEFINE more == counted \cup {<<m, o>>}
<1>1. Pairs(e, tags) = Pairs(w, tags)
  BY DEF Pairs
<1>2. \A p \in listed \cup counted \cup Pairs(w, tags) : Placed(p, e, listed, from)
  BY DEF Tagged, Placed, Adding
<1>3. IsFiniteSet(more) /\ Cardinality(more) = e.count
  <2>1. IsFiniteSet(counted) /\ Cardinality(counted) = w.count
    BY DEF Tagged
  <2>2. IsFiniteSet(more) /\ Cardinality(more) = Cardinality(counted) + 1
    BY <2>1, FS_AddElement
  <2> QED
    BY <2>1, <2>2
<1>4. \A p \in listed \cup more \cup Pairs(e, tags) : Placed(p, e, listed, from)
  BY <1>1, <1>2
<1>5. listed \cup more \subseteq Node \X Node
  BY DEF Tagged
<1>6. \A p \in more : p[1] \in Lists(e.search)
  BY DEF Tagged, Adding
<1> HIDE DEF more
<1>7. Tagged(e, tags, listed, more, from)
  BY <1>1, <1>3, <1>4, <1>5, <1>6 DEF Tagged, Adding
<1> QED
  BY <1>7 DEF more

\* An entry that is not passed over is something the tool meets.
LEMMA VisitedMet ==
    ASSUME NEW search, NEW dirs, NEW d \in dirs \ Unreadable, NEW n \in Children(d),
           ~PassedOver(n, search)
    PROVE  n \in Meets(search, dirs)
<1>1. n \in Node \ {FsRoot} /\ Parent[n] = d /\ Kind[n] # "missing"
  BY DEF Children
<1>2. Above[n] = {n} \cup Above[Parent[n]]
  BY <1>1, TreeAssumption
<1>3. ASSUME Kind[n] = "dir"
      PROVE  /\ Name[n] # "node_modules"
             /\ ".git" \in {Name[g] : g \in Above[n]} => Name[n] \notin {"objects", "lfs"}
  <2>1. ~Skipped(n)
    BY DEF PassedOver
  <2>2. Name[n] # "node_modules"
    BY <1>3, <2>1 DEF Skipped
  <2>3. ASSUME Name[n] \in {"objects", "lfs"}, ".git" \in {Name[g] : g \in Above[n]}
        PROVE  FALSE
    <3>1. PICK g \in Above[n] : Name[g] = ".git"
      BY <2>3
    <3>2. g \in Above[Parent[n]]
      BY <1>2, <2>3, <3>1
    <3> QED
      BY <1>3, <2>1, <2>3, <3>1, <3>2 DEF Skipped
  <2> QED
    BY <2>2, <2>3
<1> QED
  BY <1>1, <1>3 DEF Meets, PassedOver

LEMMA TaggedStart ==
    ASSUME NEW search, NEW w, search.name.node \in Dirs,
           w.search = search, w.stack = <<search.name.node>>, w.seen = {search.name.node},
           w.files = {}, w.entries = {}, w.count = 0
    PROVE  Tagged(w, <<search.name.node>>, {}, {}, NoPath)
<1> DEFINE s == search.name.node
<1>1. s \in Node /\ s \in Dirs /\ s \in Above[s]
  BY TreeAssumption DEF Dirs
<1>2. s \in Opens(search) /\ s \in Origins(search)
  BY <1>1, OpensClosed DEF Beginning, Origins
<1>3. Pairs(w, <<s>>) = {<<s, s>>}
  BY DEF Pairs
<1>4. Placed(<<s, s>>, w, {}, NoPath)
  BY <1>1, <1>2 DEF Placed
<1>5. <<s>> \in Seq(Node) /\ Len(<<s>>) = 1
  BY <1>1
<1>6. IsFiniteSet({}) /\ Cardinality({}) = 0
  BY FS_EmptySet
<1> HIDE DEF s
<1>7. Tagged(w, <<s>>, {}, {}, NoPath)
  <2>1. w.stack = <<s>> /\ Len(w.stack) = 1
    BY DEF s
  <2> QED
    BY <1>2, <1>3, <1>4, <1>5, <1>6, <2>1 DEF Tagged
<1> QED
  BY <1>7 DEF s

\* A directory is listed: none of what lies in it has come into the walk from there before.
LEMMA TaggedReadDir ==
    ASSUME IInv, NEW tags, NEW listed, NEW counted, NEW from,
           Tagged(walk, tags, listed, counted, from), ReadDir
    PROVE  \E t, l, f : Tagged(walk', t, l, counted, f)
<1> DEFINE k == Len(walk.stack)
           rest == SubSeq(walk.stack, 1, k - 1)
           left == SubSeq(tags, 1, k - 1)
           dir == walk.stack[k]
           tag == tags[k]
           more == listed \cup {<<dir, tag>>}
<1>1. walk \in Walks /\ walk.stack \in Seq(Node) /\ walk.stack # <<>> /\ walk.entries = {}
  BY DEF IInv, Walks, ReadDir, Inside
<1>2. /\ walk'.search = walk.search /\ walk'.seen = walk.seen /\ walk'.files = walk.files
      /\ walk'.stack = rest /\ walk'.count = walk.count /\ walk'.dir = dir
      /\ walk'.entries = IF dir \in Unreadable THEN {} ELSE Children(dir)
  BY <1>1 DEF ReadDir, Walks
<1>3. tags \in Seq(Node) /\ Len(tags) = k
  BY DEF Tagged
<1>4. /\ k \in Nat /\ k \in 1..k /\ dir \in Node /\ tag \in Node
      /\ rest \in Seq(Node) /\ left \in Seq(Node) /\ Len(rest) = k - 1 /\ Len(left) = k - 1
      /\ \A i \in 1..(k - 1) : i \in 1..k /\ i # k /\ rest[i] = walk.stack[i] /\ left[i] = tags[i]
      /\ \A i \in 1..k : i \in 1..(k - 1) \/ i = k
  BY <1>1, <1>3
<1> HIDE DEF k, rest, left
<1>5. /\ \A i \in 1..k : <<walk.stack[i], tags[i]>> \in Pairs(walk, tags)
      /\ \A p \in Pairs(walk, tags) : \E i \in 1..k : p = <<walk.stack[i], tags[i]>>
  BY DEF Pairs, k
<1>6. Pairs(walk', left) = {<<rest[i], left[i]>> : i \in 1..(k - 1)}
  BY <1>2, <1>4 DEF Pairs
<1>7. Pairs(walk, tags) = Pairs(walk', left) \cup {<<dir, tag>>}
  <2>1. ASSUME NEW p \in Pairs(walk', left)
        PROVE  p \in Pairs(walk, tags)
    <3>1. PICK i \in 1..(k - 1) : p = <<rest[i], left[i]>>
      BY <1>6
    <3>2. i \in 1..k /\ p = <<walk.stack[i], tags[i]>>
      BY <1>4, <3>1
    <3> QED
      BY <1>5, <3>2
  <2>2. <<dir, tag>> \in Pairs(walk, tags)
    BY <1>4, <1>5
  <2>3. ASSUME NEW p \in Pairs(walk, tags)
        PROVE  p \in Pairs(walk', left) \/ p = <<dir, tag>>
    <3>1. PICK i \in 1..k : p = <<walk.stack[i], tags[i]>>
      BY <1>5
    <3>2. CASE i = k
      BY <3>1, <3>2
    <3>3. CASE i # k
      <4>1. i \in 1..(k - 1) /\ p = <<rest[i], left[i]>>
        BY <1>4, <3>1, <3>3
      <4> QED
        BY <1>6, <4>1
    <3> QED
      BY <3>2, <3>3
  <2> HIDE DEF dir, tag
  <2> QED
    BY <2>1, <2>2, <2>3
<1>8. <<dir, tag>> \notin Pairs(walk', left)
  <2>1. \A i, j \in 1..k : walk.stack[i] = walk.stack[j] /\ tags[i] = tags[j] => i = j
    BY DEF Tagged, k
  <2>2. \A i \in 1..(k - 1) : ~(rest[i] = dir /\ left[i] = tag)
    BY <1>4, <2>1
  <2> QED
    BY <1>6, <2>2
<1>9. <<dir, tag>> \notin listed /\ <<dir, tag>> \in Pairs(walk, tags)
  BY <1>7 DEF Tagged
<1> HIDE DEF dir, tag
<1>10. \A i, j \in 1..Len(walk'.stack) :
          walk'.stack[i] = walk'.stack[j] /\ left[i] = left[j] => i = j
  BY <1>2, <1>4 DEF Tagged, k
<1>11. more \cap Pairs(walk', left) = {}
  BY <1>7, <1>8, <1>9 DEF Tagged
<1>12. ASSUME NEW p \in more \cup counted \cup Pairs(walk', left)
       PROVE  Placed(p, walk', more, tag)
  <2>1. Placed(p, walk, listed, from)
    BY <1>7 DEF Tagged
  <2>2. p[1] # p[2] => <<Parent[p[1]], p[2]>> \in more /\ ~(p[2] = tag /\ p[1] \in walk'.entries)
    <3>1. ASSUME p[1] # p[2], p[2] = tag, p[1] \in walk'.entries
          PROVE  FALSE
      <4>1. Parent[p[1]] = dir
        BY <1>2, <3>1 DEF Children
      <4>2. <<Parent[p[1]], p[2]>> \in listed
        BY <2>1, <3>1 DEF Placed
      <4> QED
        BY <1>9, <3>1, <4>1, <4>2
    <3> QED
      BY <2>1, <3>1 DEF Placed
  <2> HIDE DEF more
  <2> QED
    BY <1>2, <2>1, <2>2 DEF Placed
<1>13. \A p \in more \cup Pairs(walk', left) : p[1] \in Opens(walk'.search)
  BY <1>2, <1>7 DEF Tagged
<1>14. walk'.entries # {} => <<walk'.dir, tag>> \in more /\ walk'.entries \subseteq Children(walk'.dir)
                             /\ walk'.dir \notin Unreadable
  BY <1>2
<1>15. more \cup counted \subseteq Node \X Node
  BY <1>4 DEF Tagged
<1> HIDE DEF more
<1>16. Tagged(walk', left, more, counted, tag)
  BY <1>2, <1>4, <1>10, <1>11, <1>12, <1>13, <1>14, <1>15 DEF Tagged
<1> QED
  BY <1>16

\* What a visit adds to a walk, by the kind of the entry.
Enters(w, e, n) ==
    /\ Adding(w, e)
    /\ \/ e = w
       \/ /\ Kind[n] = "dir" /\ Canonical(n) \in Dirs
          /\ e.stack = Append(w.stack, n) /\ e.files = w.files /\ e.count = w.count
       \/ /\ Kind[n] = "file"
          /\ e.stack = w.stack /\ e.files = w.files \cup {n} /\ e.count = w.count + 1
       \/ /\ Kind[n] = "link" /\ Canonical(n) \notin w.seen /\ Canonical(n) \in e.seen
          /\ Canonical(n) \in Dirs
          /\ e.stack = Append(w.stack, Canonical(n)) /\ e.files = w.files /\ e.count = w.count
       \/ /\ Kind[n] = "link" /\ Canonical(n) \notin w.seen /\ Canonical(n) \in e.seen
          /\ e.stack = w.stack /\ e.files = w.files \cup {Canonical(n)} /\ e.count = w.count + 1

LEMMA EnterKinds ==
    ASSUME NEW w \in Walks, NEW n \in Solid, ~LeadsOut(n)
    PROVE  Enters(w, Enter(w, n), n)
<1> DEFINE target == Canonical(n)
           pushed == [w EXCEPT !.stack = Append(@, n)]
           listed == [w EXCEPT !.files = @ \cup {n}, !.count = @ + 1]
           led == [w EXCEPT !.seen = @ \cup {target}, !.stack = Append(@, target)]
           opened == [w EXCEPT !.seen = @ \cup {target}, !.files = @ \cup {target}, !.count = @ + 1]
<1>1. n \in Node /\ target \in Node
  BY VisitedEnd DEF Solid
<1>2. Kind[n] # "link" => target = n
  BY VisitedEnd
<1>3. Kind[n] \in {"dir", "file", "link"}
  BY <1>1, TreeAssumption DEF Solid
<1>4. \/ Kind[n] = "dir" /\ Enter(w, n) = pushed
      \/ Kind[n] = "file" /\ Enter(w, n) = listed
      \/ Enter(w, n) = w
      \/ Kind[n] = "link" /\ target \notin w.seen /\ target \in Dirs /\ Enter(w, n) = led
      \/ Kind[n] = "link" /\ target \notin w.seen /\ Enter(w, n) = opened
  BY <1>1, <1>3 DEF Enter, Dirs
<1>5. /\ Adding(w, w) /\ Adding(w, pushed) /\ Adding(w, listed) /\ Adding(w, led)
      /\ Adding(w, opened)
  BY DEF Walks, Adding
<1>6. /\ pushed.stack = Append(w.stack, n) /\ pushed.files = w.files /\ pushed.count = w.count
      /\ listed.stack = w.stack /\ listed.files = w.files \cup {n} /\ listed.count = w.count + 1
  BY DEF Walks
<1>7. /\ led.stack = Append(w.stack, target) /\ led.files = w.files /\ led.count = w.count
      /\ target \in led.seen /\ target \in opened.seen
      /\ opened.stack = w.stack /\ opened.files = w.files \cup {target}
      /\ opened.count = w.count + 1
  BY DEF Walks
<1>8. Kind[n] = "dir" => target \in Dirs
  BY <1>1, <1>2 DEF Dirs
<1> HIDE DEF pushed, listed, led, opened
<1>9. CASE Kind[n] = "dir" /\ Enter(w, n) = pushed
  BY <1>5, <1>6, <1>8, <1>9 DEF Enters
<1>10. CASE Kind[n] = "file" /\ Enter(w, n) = listed
  BY <1>5, <1>6, <1>10 DEF Enters
<1>11. CASE Enter(w, n) = w
  BY <1>5, <1>11 DEF Enters
<1>12. CASE Kind[n] = "link" /\ target \notin w.seen /\ target \in Dirs /\ Enter(w, n) = led
  BY <1>5, <1>7, <1>12 DEF Enters
<1>13. CASE Kind[n] = "link" /\ target \notin w.seen /\ Enter(w, n) = opened
  BY <1>5, <1>7, <1>13 DEF Enters
<1> QED
  BY <1>4, <1>9, <1>10, <1>11, <1>12, <1>13

\* An entry is visited: what it adds has not come into the walk from this directory before, and
\* what a link adds has not been at the end of one before.
LEMMA TaggedVisit ==
    ASSUME IInv, NEW tags, NEW listed, NEW counted, NEW from,
           Tagged(walk, tags, listed, counted, from), StraightSearch(walk.search),
           NEW n \in walk.entries, NEW w,
           \/ w = [walk EXCEPT !.entries = @ \ {n}]
           \/ /\ ~PassedOver(n, walk.search) /\ ~LeadsOut(n)
              /\ w = Enter([walk EXCEPT !.entries = @ \ {n}], n)
    PROVE  \E t, c : Tagged(w, t, listed, c, from)
<1> DEFINE rest == [walk EXCEPT !.entries = @ \ {n}]
           target == Canonical(n)
<1>1. walk \in Walks /\ rest \in Walks /\ n \in Solid
  BY DEF IInv, Walks
<1>2. /\ rest.search = walk.search /\ rest.stack = walk.stack /\ rest.seen = walk.seen
      /\ rest.files = walk.files /\ rest.entries = walk.entries \ {n} /\ rest.dir = walk.dir
      /\ rest.count = walk.count /\ rest.stack \in Seq(Node)
  BY <1>1 DEF Walks
<1> HIDE DEF rest
<1>3. Pairs(rest, tags) = Pairs(walk, tags)
  BY <1>2 DEF Pairs
<1>4. Tagged(rest, tags, listed, counted, from)
  <2>1. \A p \in listed \cup counted \cup Pairs(rest, tags) : Placed(p, rest, listed, from)
    BY <1>2, <1>3 DEF Tagged, Placed
  <2> QED
    BY <1>2, <1>3, <2>1 DEF Tagged
<1>5. CASE w = rest
  BY <1>4, <1>5
<1>6. CASE ~PassedOver(n, walk.search) /\ ~LeadsOut(n) /\ w = Enter(rest, n)
  <2>1. /\ <<walk.dir, from>> \in listed /\ n \in Children(walk.dir) /\ walk.dir \notin Unreadable
        /\ walk.dir \in Opens(walk.search)
    BY DEF Tagged
  <2>2. /\ n \in Node \ {FsRoot} /\ Parent[n] = walk.dir /\ Kind[n] # "missing"
        /\ Above[n] = {n} \cup Above[walk.dir] /\ n \notin Above[walk.dir]
    BY <2>1, TreeAssumption DEF Children
  <2>3. /\ from \in Node /\ from \in Origins(walk.search) /\ from \in Above[walk.dir]
    <3>1. <<walk.dir, from>> \in Node \X Node
      BY <2>1 DEF Tagged
    <3>2. Placed(<<walk.dir, from>>, walk, listed, from)
      BY <2>1 DEF Tagged
    <3> QED
      BY <3>1, <3>2 DEF Placed
  <2>4. n \in Meets(walk.search, Opens(walk.search))
    BY <1>6, <2>1, VisitedMet
  <2>0. target = Leads[n]
    BY <1>6, <2>4, MetLeads
  <2>5. target \in Lists(walk.search) /\ (target \in Dirs => target \in Opens(walk.search))
    BY <2>4, <2>0, OpensClosed DEF Lists, Further
  <2>6. target \in Node
    BY <1>1, <1>6, VisitedEnd
  <2>7. Kind[n] # "link" => target = n
    BY <1>1, <1>6, VisitedEnd
  <2>8. Enters(rest, w, n)
    BY <1>1, <1>6, EnterKinds
  <2>9. <<n, from>> \notin listed \cup counted \cup Pairs(rest, tags) /\ Placed(<<n, from>>, w, listed, from)
    <3>1. n # from
      BY <2>2, <2>3
    <3>2. \A p \in listed \cup counted \cup Pairs(walk, tags) :
              p[1] # p[2] => ~(p[2] = from /\ p[1] \in walk.entries)
      BY DEF Tagged, Placed
    <3>3. <<n, from>> \notin listed \cup counted \cup Pairs(rest, tags)
      BY <1>3, <3>1, <3>2
    <3>4. w.search = walk.search /\ n \notin w.entries
      BY <1>2, <2>8 DEF Enters, Adding
    <3> QED
      BY <2>1, <2>2, <2>3, <3>1, <3>3, <3>4 DEF Placed
  <2>10. ASSUME Kind[n] = "link", target \notin rest.seen, target \in w.seen
         PROVE  /\ <<target, target>> \notin listed \cup counted \cup Pairs(rest, tags)
                /\ Placed(<<target, target>>, w, listed, from)
    <3>1. \A p \in listed \cup counted \cup Pairs(walk, tags) : p[1] = p[2] => p[1] \in walk.seen
      BY DEF Tagged, Placed
    <3>2. <<target, target>> \notin listed \cup counted \cup Pairs(rest, tags)
      BY <1>2, <1>3, <2>10, <3>1
    <3>3. target \in Origins(walk.search)
      BY <1>6, <2>2, <2>10, <2>0 DEF Origins, Links, PassedOver
    <3>4. target \in Above[target]
      BY <2>6, TreeAssumption
    <3>5. w.search = walk.search
      BY <1>2, <2>8 DEF Enters, Adding
    <3> QED
      BY <2>6, <2>10, <3>2, <3>3, <3>4, <3>5 DEF Placed
  <2> HIDE DEF target
  <2>11. Adding(rest, w)
    BY <2>8 DEF Enters
  <2>12. CASE w = rest
    BY <1>4, <2>12
  <2>13. CASE /\ Kind[n] = "dir" /\ target \in Dirs
              /\ w.stack = Append(rest.stack, n) /\ w.files = rest.files /\ w.count = rest.count
    <3>1. n \in Opens(rest.search)
      BY <1>2, <2>5, <2>7, <2>13
    <3>2. Tagged(w, Append(tags, from), listed, counted, from)
      BY <1>2, <1>4, <2>2, <2>3, <2>9, <2>11, <2>13, <3>1, TaggedPush
    <3> QED
      BY <3>2
  <2>14. CASE /\ Kind[n] = "file"
              /\ w.stack = rest.stack /\ w.files = rest.files \cup {n} /\ w.count = rest.count + 1
    <3>1. n \in Lists(rest.search)
      BY <1>2, <2>5, <2>7, <2>14
    <3>2. Tagged(w, tags, listed, counted \cup {<<n, from>>}, from)
      BY <1>4, <2>2, <2>3, <2>9, <2>11, <2>14, <3>1, TaggedCount
    <3> QED
      BY <3>2
  <2>15. CASE /\ Kind[n] = "link" /\ target \notin rest.seen /\ target \in w.seen /\ target \in Dirs
              /\ w.stack = Append(rest.stack, target) /\ w.files = rest.files
              /\ w.count = rest.count
    <3>1. target \in Opens(rest.search)
      BY <1>2, <2>5, <2>15
    <3>2. Tagged(w, Append(tags, target), listed, counted, from)
      BY <1>2, <1>4, <2>6, <2>10, <2>11, <2>15, <3>1, TaggedPush
    <3> QED
      BY <3>2
  <2>16. CASE /\ Kind[n] = "link" /\ target \notin rest.seen /\ target \in w.seen
              /\ w.stack = rest.stack /\ w.files = rest.files \cup {target}
              /\ w.count = rest.count + 1
    <3>1. target \in Lists(rest.search)
      BY <1>2, <2>5
    <3>2. Tagged(w, tags, listed, counted \cup {<<target, target>>}, from)
      BY <1>4, <2>6, <2>10, <2>11, <2>16, <3>1, TaggedCount
    <3> QED
      BY <3>2
  <2> QED
    BY <2>8, <2>12, <2>13, <2>14, <2>15, <2>16 DEF Enters, target
<1> QED
  BY <1>5, <1>6 DEF rest

LEMMA Products ==
    ASSUME NEW a \in Nat, NEW b \in Nat, NEW c \in Nat, NEW d \in Nat, a <= b * c, c <= d
    PROVE  a <= b * d
<1>1. b * d = b * c + b * (d - c) /\ d - c \in Nat
  OBVIOUS
<1>2. b * (d - c) \in Nat /\ b * c \in Nat
  BY <1>1
<1> QED
  BY <1>1, <1>2

\* A file is counted once for the start and once for each link there is, at most.
Times(search) == IF search.follow THEN 1 + Cardinality(Links) ELSE 1

LEMMA LinksFinite == IsFiniteSet(Links) /\ Cardinality(Links) \in Nat
<1>1. Links \subseteq Node
  BY DEF Links
<1> QED
  BY <1>1, TreeAssumption, FS_Subset, FS_CardinalityType

LEMMA TimesType == ASSUME NEW search PROVE Times(search) \in Nat
BY LinksFinite DEF Times

LEMMA ListsFinite ==
    ASSUME NEW search
    PROVE  IsFiniteSet(Lists(search)) /\ Cardinality(Lists(search)) \in Nat
<1> DEFINE met == Meets(search, Opens(search))
           f == [n \in met |-> Leads[n]]
<1>1. IsFiniteSet(met)
  <2>1. met \subseteq Node
    BY DEF Meets
  <2> QED
    BY <2>1, TreeAssumption, FS_Subset
<1>2. f \in Surjection(met, Lists(search))
  BY DEF Surjection, Lists
<1> HIDE DEF f, met
<1> QED
  BY <1>1, <1>2, FS_Surjection, FS_CardinalityType

LEMMA CountBounded ==
    ASSUME NEW w, NEW tags, NEW listed, NEW counted, NEW from,
           Tagged(w, tags, listed, counted, from)
    PROVE  w.count <= Cardinality(Lists(w.search)) * Times(w.search)
<1> DEFINE ends == {Leads[n] : n \in Links}
<1>1. IsFiniteSet(Links) /\ Cardinality(Links) \in Nat
  BY LinksFinite
<1>2. IsFiniteSet(Lists(w.search)) /\ Cardinality(Lists(w.search)) \in Nat
  BY ListsFinite
<1>3. IsFiniteSet(ends) /\ Cardinality(ends) <= Cardinality(Links) /\ Cardinality(ends) \in Nat
  <2> DEFINE f == [n \in Links |-> Leads[n]]
  <2>1. f \in Surjection(Links, ends)
    BY DEF Surjection
  <2> HIDE DEF f, ends
  <2> QED
    BY <1>1, <2>1, FS_Surjection, FS_CardinalityType
<1>4. /\ IsFiniteSet(Origins(w.search)) /\ Cardinality(Origins(w.search)) \in Nat
      /\ Cardinality(Origins(w.search)) <= Times(w.search)
  <2>1. CASE w.search.follow
    <3>1. Origins(w.search) = ends \cup {w.search.name.node}
      BY <2>1 DEF Origins
    <3>2. /\ IsFiniteSet(Origins(w.search))
          /\ Cardinality(Origins(w.search)) <= Cardinality(ends) + 1
      <4> HIDE DEF ends
      <4>1. PICK first : first = w.search.name.node
        OBVIOUS
      <4>2. /\ IsFiniteSet(ends \cup {first})
            /\ \/ Cardinality(ends \cup {first}) = Cardinality(ends)
               \/ Cardinality(ends \cup {first}) = Cardinality(ends) + 1
        BY <1>3, FS_AddElement
      <4> QED
        BY <1>3, <3>1, <4>1, <4>2
    <3>3. Cardinality(Origins(w.search)) \in Nat
      BY <3>2, FS_CardinalityType
    <3> HIDE DEF ends
    <3> QED
      BY <1>1, <1>3, <2>1, <3>2, <3>3 DEF Times
  <2>2. CASE ~w.search.follow
    <3>1. Origins(w.search) = {w.search.name.node}
      BY <2>2 DEF Origins
    <3>2. IsFiniteSet(Origins(w.search)) /\ Cardinality(Origins(w.search)) = 1
      BY <3>1, FS_Singleton
    <3> QED
      BY <2>2, <3>2 DEF Times
  <2> QED
    BY <2>1, <2>2
<1>5. counted \subseteq Lists(w.search) \X Origins(w.search)
  <2> SUFFICES ASSUME NEW p \in counted
               PROVE  p \in Lists(w.search) \X Origins(w.search)
    OBVIOUS
  <2>1. p \in Node \X Node /\ p[1] \in Lists(w.search) /\ p[2] \in Origins(w.search)
    BY DEF Tagged, Placed
  <2> QED
    BY <2>1
<1>6. Cardinality(counted) <= Cardinality(Lists(w.search)) * Cardinality(Origins(w.search))
  <2> DEFINE all == Lists(w.search) \X Origins(w.search)
  <2>1. IsFiniteSet(all) /\ Cardinality(all) = Cardinality(Lists(w.search)) * Cardinality(Origins(w.search))
    BY <1>2, <1>4, FS_Product
  <2>2. counted \in SUBSET all
    BY <1>5
  <2> HIDE DEF all
  <2>3. Cardinality(counted) <= Cardinality(all)
    BY <2>1, <2>2, FS_Subset
  <2> QED
    BY <2>1, <2>3
<1>7. Cardinality(counted) = w.count /\ Cardinality(counted) \in Nat
  BY FS_CardinalityType DEF Tagged
<1>8. Times(w.search) \in Nat
  BY TimesType
<1> QED
  BY <1>2, <1>4, <1>6, <1>7, <1>8, Products

-----------------------------------------------------------------------------
(* What a refusal rests on.                                                *)

\* A search is recorded by the files a rule may object to, but for those git took away.
Recorded(search) ==
    \/ Coverable(search) = {}
    \/ \E s \in searched :
          /\ s.where = search.dir
          /\ \A f \in Coverable(search) : f \in s.files \/ (Suspect(f) /\ f \notin ToolReads(search))

ReachedForCause ==
    \A f \in Reached : \E search \in SearchesOf :
        f \in Coverable(search) /\ (Suspect(f) => f \in Objectionable(search))

WalkTagged ==
    at \in {"walk", "git"} =>
        /\ walk.search \in SearchesOf
        /\ \E tags, listed, counted, from : Tagged(walk, tags, listed, counted, from)

CauseInv ==
    /\ SearchInv
    /\ IsStraight
    /\ WalkTagged
    /\ refused # "no" => \E search \in SearchesOf : SearchCause(search)
    /\ ReachedForCause
    /\ Judging /\ refused = "no" =>
          \A search \in SearchesOf :
              \/ search \in Todo
              \/ at \in {"walk", "git"} /\ search = walk.search
              \/ Recorded(search)
    /\ RefusedForCause

\* A straight name that is refused is forbidden.
LEMMA CheckCause ==
    ASSUME NEW name, StraightName(name), CheckRefuses(name)
    PROVE  Forbidden(name)
<1>1. CASE Canonical(name.path) = NoPath
  BY <1>1 DEF Forbidden
<1>2. CASE Canonical(name.path) # NoPath
  BY <1>2, StraightFound DEF CheckRefuses, Forbidden
<1> QED
  BY <1>1, <1>2

LEMMA WordCause ==
    ASSUME NEW word, WordRefuses(word), \A name \in word.names : StraightName(name)
    PROVE  ForbiddenWord(word)
<1>1. PICK name \in word.names :
        LET canonical == Canonical(name.path)
        IN  \/ canonical = NoPath
            \/ \E p \in Protected : IsWithin(canonical, p) \/ IsWithin(p, canonical)
            \/ /\ canonical \notin Devices /\ ~word.program
               /\ \/ canonical \notin Inside
                  \/ IsWorkspaceSecret(canonical, given.root)
  BY DEF WordRefuses
<1>2. CASE Canonical(name.path) = NoPath
  BY <1>2 DEF ForbiddenWord
<1>3. CASE Canonical(name.path) # NoPath
  <2>1. name.node = Canonical(name.path)
    BY <1>3, StraightFound
  <2> QED
    BY <1>1, <1>3, <2>1 DEF ForbiddenWord, Forbidden
<1> QED
  BY <1>2, <1>3

\* What containment refuses of straight names is forbidden for what is opened
\* (containOperation).
LEMMA ContainCauses ==
    ASSUME given \in Cases, IsStraight, ContainRefuses
    PROVE  ContainCause
<1>1. CASE op.kind = "write"
  <2>1. ASSUME Declared = {}
        PROVE  op.paths = <<>>
    <3>1. op.paths \in Seq(Names \cup {NoName})
      BY CaseTypes
    <3>2. DOMAIN op.paths = 1..Len(op.paths)
      BY <3>1
    <3>3. \A i \in DOMAIN op.paths : op.paths[i] \in Declared
      BY DEF Declared
    <3>4. \A i \in 1..Len(op.paths) : FALSE
      BY <2>1, <3>2, <3>3
    <3>5. Len(op.paths) = 0
      BY <3>1, <3>4
    <3> QED
      BY <3>1, <3>5
  <2>2. \A name \in Declared : StraightName(name)
    BY <1>1 DEF IsStraight, Touched
  <2> QED
    BY <1>1, <2>1, <2>2, CheckCause DEF ContainRefuses, ContainCause
<1>2. CASE op.kind = "read"
  <2>1. \A name \in Declared : StraightName(name)
    BY <1>2 DEF IsStraight, Touched
  <2> QED
    BY <1>2, <2>1, CheckCause DEF ContainRefuses, ContainCause
<1>3. CASE op.kind = "exec"
  <2>1. StraightName(op.cwd)
    BY <1>3 DEF IsStraight, Touched
  <2>2. \A word \in Words : \A name \in word.names : StraightName(name)
    BY DEF IsStraight
  <2>3. CASE \E word \in Words : WordRefuses(word)
    BY <1>3, <2>2, <2>3, WordCause DEF ContainCause
  <2>4. CASE CheckRefuses(op.cwd)
    BY <1>3, <2>1, <2>4, CheckCause DEF ContainCause
  <2> QED
    BY <1>3, <2>3, <2>4 DEF ContainRefuses, ContainCause
<1>4. CASE op.kind = "net"
  BY <1>4 DEF ContainRefuses, ContainCause
<1> QED
  BY <1>1, <1>2, <1>3, <1>4 DEF ContainRefuses

\* What the lists object to, or do not cover, is a cause.
LEMMA SubjectCause ==
    ASSUME CauseInv, ~ContainRefuses, \A search \in SearchesOf : Recorded(search),
           NEW subject \in Subjects,
           \/ FirstMatch(given.rules.deny, op.kind, subject.deny)
           \/ ~Covered(subject.allow)
    PROVE  Cause
<1>1. CASE op.kind # "read"
  BY <1>1 DEF Itself, Cause
<1>2. CASE op.kind = "read"
  <2>1. PICK n \in (Paths \ {s.where : s \in {t \in searched : t.files # {}}})
                      \cup Reached \cup (IF Paths = {} THEN {given.root} ELSE {}) :
            subject = Plain(n)
    BY <1>2 DEF Subjects
  <2>2. Suspect(n) \/ ~Covered({n})
    BY <1>2, <2>1 DEF Plain, Suspect
  <2>3. CASE n \in Reached
    <3>1. PICK search \in SearchesOf :
              n \in Coverable(search) /\ (Suspect(n) => n \in Objectionable(search))
      BY <2>3 DEF CauseInv, ReachedForCause
    <3> QED
      BY <1>2, <2>2, <3>1 DEF Cause
  <2>4. CASE Paths = {} /\ n = given.root
    <3>1. subject \in Itself
      BY <1>2, <2>1, <2>4 DEF Itself
    <3> QED
      BY <3>1 DEF Cause
  <2>5. CASE n \in Paths /\ \A s \in searched : s.where = n => s.files = {}
    <3>1. CASE subject \in Itself
      BY <3>1 DEF Cause
    <3>2. CASE subject \notin Itself
      <4> DEFINE open(search) ==
                {f \in Coverable(search) : Suspect(f) => f \in Objectionable(search)}
      <4>5. PICK search \in SearchesOf : search.dir = n /\ open(search) # {}
        BY <1>2, <2>1, <2>5, <3>2 DEF Itself
      <4>1. PICK f \in Coverable(search) : Suspect(f) => f \in Objectionable(search)
        BY <4>5
      <4>2. search.dir = n
        BY <4>5
      <4>3. Recorded(search)
        BY <4>1
      <4>4. Suspect(f)
        BY <2>5, <4>1, <4>2, <4>3 DEF Recorded
      <4> QED
        BY <4>1, <4>4 DEF Cause
    <3> QED
      BY <3>1, <3>2
  <2> QED
    BY <2>1, <2>3, <2>4, <2>5
<1> QED
  BY <1>1, <1>2

\* The judgement is over and the operation does not pass: there is a cause.
LEMMA RefusalCause ==
    ASSUME CauseInv, at = "search", todo = <<>> \/ refused # "no",
           Denied \/ ~EverySubjectMatches(given.rules.allow \cup given.rules.ask)
    PROVE  Cause
<1>1. ~ContainRefuses /\ Judging
  BY DEF CauseInv, SearchInv, IInv, Passed, Judging
<1>2. CASE refused # "no"
  BY <1>2 DEF CauseInv, Cause
<1>3. CASE refused = "no"
  <2>1. Todo = {}
    BY <1>3 DEF Todo
  <2>2. \A search \in SearchesOf : Recorded(search)
    BY <1>1, <1>3, <2>1 DEF CauseInv
  <2>3. CASE ~EverySubjectMatches(given.rules.allow \cup given.rules.ask)
    <3>1. PICK subject \in Subjects : ~Covered(subject.allow)
      BY <2>3 DEF EverySubjectMatches, Covered
    <3> QED
      BY <1>1, <2>2, <3>1, SubjectCause
  <2>4. CASE Subjects = {} \/ \E s \in Segments : s.sedObjection
    BY <2>4 DEF Cause
  <2>5. CASE FirstMatch(given.rules.deny, "read", Reached)
    <3>1. PICK f \in Reached : Suspect(f)
      BY <2>5 DEF FirstMatch, Suspect
    <3>2. PICK search \in SearchesOf : f \in Objectionable(search)
      BY <3>1 DEF CauseInv, ReachedForCause
    <3> QED
      BY <3>1, <3>2 DEF Cause
  <2>6. CASE op.kind = "exec" /\ FirstMatch(given.rules.deny, "read", NamedPaths)
    <3>1. PICK n \in NamedPaths : Suspect(n)
      BY <2>6 DEF FirstMatch, Suspect
    <3> QED
      BY <2>6, <3>1 DEF Cause
  <2>7. CASE \E subject \in Subjects : FirstMatch(given.rules.deny, op.kind, subject.deny)
    BY <1>1, <2>2, <2>7, SubjectCause
  <2> QED
    BY <1>3, <2>3, <2>4, <2>5, <2>6, <2>7 DEF Denied
<1> QED
  BY <1>2, <1>3

LEMMA CauseStays ==
    ASSUME UNCHANGED <<given, searched>>, gitFailed' = gitFailed
    PROVE  Cause' <=> Cause
<1>1. op' = op /\ SearchesOf' = SearchesOf /\ Inside' = Inside /\ Touched' = Touched /\ Words' = Words
  BY GivenStays, SearchesStay
<1>2. Segments' = Segments /\ NamedPaths' = NamedPaths /\ Paths' = Paths
  BY <1>1 DEF Segments, NamedPaths, Words, Paths, Declared
<1>3. Subjects' = Subjects
  BY <1>1, <1>2 DEF Subjects, Reached
<1>4. \A f : Suspect(f)' <=> Suspect(f)
  BY DEF Suspect
<1>5. \A search : SearchCause(search)' <=> SearchCause(search)
  BY <1>1 DEF SearchCause, LeadsOut
<1>6. \A search : Objectionable(search)' = Objectionable(search)
  BY DEF Objectionable
<1>7. Itself' = Itself
  BY <1>1, <1>2, <1>3, <1>4, <1>6 DEF Itself
<1>8. \A values : Covered(values)' <=> Covered(values)
  BY <1>1 DEF Covered
<1>9. ContainCause' <=> ContainCause
  BY <1>1 DEF ContainCause, Declared, Forbidden, ForbiddenWord
<1> QED
  BY <1>1, <1>2, <1>3, <1>4, <1>5, <1>6, <1>7, <1>8, <1>9 DEF Cause

LEMMA StraightStays == ASSUME given' = given PROVE IsStraight' <=> IsStraight
<1>1. /\ SearchesOf' = SearchesOf /\ op' = op /\ StraightSearches' = StraightSearches
      /\ Touched' = Touched /\ Words' = Words
  BY GivenStays, SearchesStay
<1> QED
  BY <1>1 DEF IsStraight

\* As long as nothing else has been searched, the causes are the same.
LEMMA CausesStay ==
    ASSUME CauseInv, UNCHANGED <<given, searched, gitFailed>>
    PROVE  /\ ReachedForCause' /\ SearchesOf' = SearchesOf /\ IsStraight'
           /\ \A search : Recorded(search)' <=> Recorded(search)
           /\ \A search : SearchCause(search)' <=> SearchCause(search)
           /\ Cause' <=> Cause
<1>1. SearchesOf' = SearchesOf /\ Inside' = Inside
  BY GivenStays, SearchesStay
<1>2. \A f : Suspect(f)' <=> Suspect(f)
  BY DEF Suspect
<1>3. \A search : Objectionable(search)' = Objectionable(search)
  BY DEF Objectionable
<1>4. Reached' = Reached
  BY DEF Reached
<1>5. ReachedForCause'
  BY <1>1, <1>2, <1>3, <1>4 DEF CauseInv, ReachedForCause
<1>6. \A search : Recorded(search)' <=> Recorded(search)
  BY <1>2 DEF Recorded
<1>7. \A search : SearchCause(search)' <=> SearchCause(search)
  BY <1>1 DEF SearchCause, LeadsOut
<1>8. IsStraight'
  BY StraightStays DEF CauseInv
<1> QED
  BY <1>1, <1>5, <1>6, <1>7, <1>8, CauseStays

\* A walk that came to its end has found what a rule may object to, and nothing else.
LEMMA WalkOpens ==
    ASSUME CauseInv, at \in {"walk", "git"}, walk.entries = {}, walk.stack = <<>>
    PROVE  /\ Opened = Coverable(walk.search)
           /\ \A f \in walk.files : f \in Lists(walk.search) /\ f \in Node
<1>1. /\ \A f \in walk.files : f \in Lists(walk.search) /\ Kind[f] = "file" /\ f \in Node
      /\ \A f \in Lists(walk.search) \cap Node : Kind[f] = "file" => f \in walk.files
  <2>5. StraightSearch(walk.search)
    BY DEF CauseInv, WalkTagged, IsStraight, StraightSearches
  <2>1. PICK done : Covers(walk, done)
    BY <2>5 DEF CauseInv, SearchInv, WalkCovers
  <2>2. \A f \in Lists(walk.search) \cap Node : Kind[f] = "file" => f \in walk.files
    BY <2>1, WalkFindsAll
  <2>3. \A f \in walk.files : Kind[f] = "file" /\ f \in Node
    BY <2>1 DEF Covers, CauseInv, SearchInv, IInv, Walks
  <2>4. walk.files \subseteq Lists(walk.search)
    BY DEF CauseInv, WalkTagged, Tagged
  <2> QED
    BY <2>2, <2>3, <2>4
<1>2. Opened = Coverable(walk.search)
  BY <1>1 DEF Opened, Coverable
<1> QED
  BY <1>1, <1>2

\* A walk is concluded by the files its tool opens, but for suspects that git took away.
LEMMA ConcludeRecords ==
    ASSUME CauseInv, at \in {"walk", "git"}, NEW kept, kept \subseteq Opened,
           walk.entries = {}, walk.stack = <<>>,
           \A f \in Opened : f \in kept \/ (Suspect(f) /\ f \notin ToolReads(walk.search)),
           \A f \in kept : Suspect(f) => gitFailed' \/ f \in ToolReads(walk.search),
           gitFailed => gitFailed', Conclude(kept), SearchInv'
    PROVE  CauseInv'
<1>1. /\ given' = given /\ todo' = todo /\ verdict' = verdict /\ at' = "search" /\ walk' = NoWalk
  BY DEF Conclude
<1>2. Judging /\ verdict = "none" /\ refused = "no" /\ walk.search \in SearchesOf
      /\ Todo' = Todo
  BY <1>1 DEF CauseInv, SearchInv, WalkCovers, IInv, Passed, Judging, WalkTagged, Todo
<1>3. SearchesOf' = SearchesOf /\ Inside' = Inside /\ IsStraight'
  BY <1>1, GivenStays, SearchesStay, StraightStays DEF CauseInv
<1>4. \A f : Suspect(f)' <=> Suspect(f)
  BY <1>1 DEF Suspect
<1>5. \A search : SearchCause(search)' <=> SearchCause(search)
  BY <1>1, <1>3 DEF SearchCause, LeadsOut
<1>6. \A f \in walk.files : f \in Lists(walk.search) /\ f \in Node
  BY WalkOpens
<1>7. Opened = Coverable(walk.search)
  BY WalkOpens
<1>8. ~RefusedForCause' => FALSE
  BY <1>1, <1>2 DEF RefusedForCause
<1>9. ~WalkTagged' => FALSE
  BY <1>1 DEF WalkTagged
<1>10. CASE \E f \in kept : HoldsGitCredentials(f, given.root)
  <2>1. refused' = "secret" /\ searched' = searched
    BY <1>10 DEF Conclude
  <2>2. PICK f \in kept : HoldsGitCredentials(f, given.root)
    BY <1>10
  <2>3. f \in Lists(walk.search) \cap Node
    BY <1>6, <2>2 DEF Opened
  <2>4. SearchCause(walk.search)
    BY <2>2, <2>3 DEF SearchCause
  <2>5. ReachedForCause'
    <3> SUFFICES ASSUME NEW x \in Reached'
                 PROVE  \E search \in SearchesOf' :
                          x \in Coverable(search) /\ (Suspect(x)' => x \in Objectionable(search)')
      BY DEF ReachedForCause
    <3>1. x \in Reached
      BY <2>1 DEF Reached
    <3>2. PICK search \in SearchesOf : x \in Coverable(search)
                                       /\ (Suspect(x) => x \in Objectionable(search))
      BY <3>1 DEF CauseInv, ReachedForCause
    <3>3. x \in Objectionable(search) => x \in Objectionable(search)'
      BY <3>2 DEF Objectionable
    <3> QED
      BY <1>3, <1>4, <3>2, <3>3
  <2>6. \E search \in SearchesOf' : SearchCause(search)'
    BY <1>2, <1>3, <1>5, <2>4
  <2> QED
    BY <1>2, <1>3, <1>8, <1>9, <2>1, <2>5, <2>6 DEF CauseInv
<1>11. CASE ~\E f \in kept : HoldsGitCredentials(f, given.root)
  <2>1. /\ refused' = refused
        /\ searched' = searched \cup {[where |-> walk.search.dir, files |-> kept]}
    BY <1>11 DEF Conclude
  <2>2. \A x \in Reached' : x \in Reached \/ x \in kept
    BY <2>1 DEF Reached
  <2>3. ASSUME NEW x \in Reached'
        PROVE  \E search \in SearchesOf' :
                  x \in Coverable(search) /\ (Suspect(x)' => x \in Objectionable(search)')
    <3>1. CASE x \in Reached
      <4>1. PICK search \in SearchesOf : x \in Coverable(search)
                                         /\ (Suspect(x) => x \in Objectionable(search))
        BY <3>1 DEF CauseInv, ReachedForCause
      <4>2. x \in Objectionable(search) => x \in Objectionable(search)'
        BY <4>1 DEF Objectionable
      <4> QED
        BY <1>3, <1>4, <4>1, <4>2
    <3>2. CASE x \in kept
      <4>1. x \in Coverable(walk.search)
        BY <1>7, <3>2
      <4>2. PICK now : now = walk.search
        OBVIOUS
      <4>3. Suspect(x) => gitFailed' \/ x \in ToolReads(now)
        BY <3>2, <4>2
      <4>4. Suspect(x) => x \in Objectionable(now)'
        BY <4>1, <4>2, <4>3 DEF Objectionable
      <4> QED
        BY <1>2, <1>3, <1>4, <4>1, <4>2, <4>4
    <3> QED
      BY <2>2, <3>1, <3>2
  <2>4. ReachedForCause'
    BY <2>3 DEF ReachedForCause
  <2>5. ASSUME NEW search, Recorded(search)
        PROVE  Recorded(search)'
    BY <1>4, <2>1, <2>5 DEF Recorded
  <2>6. PICK now : now = walk.search
    OBVIOUS
  <2>7. Recorded(now)'
    <3>1. [where |-> now.dir, files |-> kept] \in searched'
      BY <2>1, <2>6
    <3>2. \A f \in Coverable(now) : f \in kept \/ (Suspect(f) /\ f \notin ToolReads(now))
      BY <1>7, <2>6
    <3> QED
      BY <1>4, <3>1, <3>2 DEF Recorded
  <2>8. \A search \in SearchesOf' : search \in Todo' \/ Recorded(search)'
    <3> SUFFICES ASSUME NEW search \in SearchesOf
                 PROVE  search \in Todo' \/ Recorded(search)'
      BY <1>3
    <3>1. search \in Todo \/ search = walk.search \/ Recorded(search)
      BY <1>2 DEF CauseInv
    <3> QED
      BY <1>2, <2>5, <2>6, <2>7, <3>1
  <2> QED
    BY <1>2, <1>3, <1>8, <1>9, <2>1, <2>4, <2>8 DEF CauseInv
<1> QED
  BY <1>10, <1>11

\* What git is not asked about, the tool reads; what git does not name, too.
LEMMA SuspectsAreRead ==
    ASSUME CauseInv, at \in {"walk", "git"}, walk.entries = {}, walk.stack = <<>>,
           NEW f \in Opened, Suspect(f)
    PROVE  f \in ToolReads(walk.search) <=> f \notin Suspects \cap Ignored
<1>1. f \in Coverable(walk.search)
  BY WalkOpens
<1>2. f \in ToolReads(walk.search) <=> ~(walk.search.ignores /\ f \in Ignored)
  BY <1>1 DEF ToolReads, Coverable
<1>3. f \in Suspects <=> walk.search.ignores
  BY DEF Suspects
<1> QED
  BY <1>2, <1>3

LEMMA RefusalKept == CauseInv /\ [Next]_vars => CauseInv'
<1> SUFFICES ASSUME CauseInv, [Next]_vars
             PROVE  CauseInv'
  OBVIOUS
<1>1. given' = given
  BY DEF Next, vars, Enrol, Contain, NextSearch, ReadDir, Visit, WalkEnds, GitAnswers, GitFails,
         Conclude, Decide, Stop
<1>2. SearchInv /\ SearchInv' /\ IInv /\ IInv'
  BY JudgementKept DEF CauseInv, SearchInv
<1>3. SearchesOf' = SearchesOf /\ op' = op /\ IsStraight'
  BY <1>1, SearchesStay, StraightStays DEF CauseInv
<1>4. verdict' # "deny" => RefusedForCause'
  BY DEF RefusedForCause
<1>5. at' \notin {"walk", "git"} => WalkTagged'
  BY DEF WalkTagged
<1> DEFINE Same == /\ ReachedForCause' /\ SearchesOf' = SearchesOf /\ IsStraight'
                   /\ \A search : Recorded(search)' <=> Recorded(search)
                   /\ \A search : SearchCause(search)' <=> SearchCause(search)
                   /\ Cause' <=> Cause
<1>6. UNCHANGED <<searched, gitFailed>> => Same
  BY <1>1, CausesStay
<1> HIDE DEF Same
<1>7. CASE Enrol
  <2>1. /\ at' \in {"stranger", "contain"} /\ UNCHANGED <<todo, searched, refused, gitFailed, verdict>>
        /\ at = "enrol"
    BY <1>7 DEF Enrol
  <2>2. Same /\ Todo' = Todo /\ verdict' # "deny" /\ ~Judging'
    BY <1>2, <1>6, <2>1 DEF Todo, IInv, Passed, Judging
  <2> QED
    BY <1>2, <1>4, <1>5, <2>1, <2>2 DEF CauseInv, Same
<1>8. CASE Contain
  <2>1. at = "contain" /\ UNCHANGED <<walk, searched, refused, gitFailed>>
        /\ at' \in {"settled", "search"}
    BY <1>8 DEF Contain
  <2>2. Same
    BY <1>6, <2>1
  <2>3. CASE ContainRefuses
    <3>1. todo' = todo /\ at' = "settled"
      BY <1>8, <2>3 DEF Contain
    <3>2. Todo' = Todo /\ ~Judging'
      BY <3>1 DEF Todo, Judging
    <3>4. ContainCause
      BY <1>2, <2>3, ContainCauses DEF IInv, CauseInv
    <3>3. RefusedForCause'
      BY <2>2, <3>4 DEF RefusedForCause, Same, Cause
    <3> QED
      BY <1>2, <1>5, <2>1, <2>2, <3>1, <3>2, <3>3 DEF CauseInv, Same
  <2>4. CASE ~ContainRefuses
    <3>1. todo' = Searches /\ at' = "search" /\ verdict' = verdict
      BY <1>8, <2>4 DEF Contain
    <3>2. verdict' # "deny"
      BY <1>2, <2>1, <3>1 DEF IInv, Passed
    <3>3. Todo' = SearchesOf
      BY <1>2, <2>4, <3>1, SearchesInside DEF IInv, Todo, SearchesOf
    <3> QED
      BY <1>2, <1>4, <1>5, <2>1, <2>2, <3>1, <3>2, <3>3 DEF CauseInv, Same
  <2> QED
    BY <2>3, <2>4
<1>9. CASE NextSearch
  <2>1. at = "search" /\ todo # <<>> /\ todo' = Tail(todo) /\ refused = "no"
        /\ UNCHANGED <<searched, refused, gitFailed, verdict>>
    BY <1>9 DEF NextSearch
  <2>2. Same /\ verdict' # "deny" /\ Judging
    BY <1>2, <1>6, <2>1 DEF IInv, Passed, Judging
  <2> DEFINE search == Head(todo)
  <2>3. /\ Todo' \subseteq Todo /\ Todo \subseteq Todo' \cup {search} /\ search \in Todo
        /\ Todo \subseteq SearchesOf
    BY <1>2, <2>1, <2>2, TodoShrinks DEF SearchInv, OwnSearches
  <2> HIDE DEF search
  <2>4. PICK now : now = search
    OBVIOUS
  <2>5. ASSUME NEW s \in SearchesOf
        PROVE  s = now \/ s \in Todo' \/ Recorded(s)'
    BY <2>1, <2>2, <2>3, <2>4 DEF CauseInv, Same
  <2>6. now \in SearchesOf
    BY <2>3, <2>4
  <2>9. now.name.node = Real(now.dir)
    <3>1. given \in Cases /\ ~ContainRefuses
      BY <1>2, <2>2 DEF IInv, Passed
    <3>2. StraightName(now.name)
      BY <2>6 DEF CauseInv, IsStraight, StraightSearches, StraightSearch
    <3> QED
      BY <2>6, <3>1, <3>2, StraightStart
  <2>7. CASE now.name.node \in Dirs
    <3>1. /\ at' = "walk"
          /\ walk' = [NoWalk EXCEPT !.search = now, !.stack = <<now.name.node>>,
                                    !.seen = {now.name.node}]
      BY <1>9, <2>4, <2>7, <2>9 DEF NextSearch, search
    <3>2. /\ walk'.search = now /\ walk'.stack = <<now.name.node>>
          /\ walk'.seen = {now.name.node} /\ walk'.files = {}
          /\ walk'.entries = {} /\ walk'.count = 0
      BY <3>1 DEF NoWalk
    <3>3. Tagged(walk', <<now.name.node>>, {}, {}, NoPath)
      BY <2>7, <3>2, TaggedStart
    <3>4. \E tags, listed, counted, from : Tagged(walk', tags, listed, counted, from)
      BY <3>3
    <3>5. WalkTagged'
      BY <1>3, <2>6, <3>2, <3>4 DEF WalkTagged
    <3> QED
      BY <1>2, <1>3, <1>4, <2>1, <2>2, <2>5, <2>6, <3>1, <3>2, <3>5 DEF CauseInv, Same
  <2>8. CASE now.name.node \notin Dirs
    <3>1. at' = at
      BY <1>9, <2>4, <2>8, <2>9 DEF NextSearch, search
    <3>2. Lists(now) = {}
      BY <2>8, NoDirNoReads
    <3>3. Recorded(now)'
      BY <3>2 DEF Recorded, Coverable
    <3> QED
      BY <1>2, <1>3, <1>4, <1>5, <2>1, <2>2, <2>5, <2>6, <3>1, <3>3 DEF CauseInv, Same
  <2> QED
    BY <2>7, <2>8
<1>10. CASE ReadDir
  <2>1. at = "walk" /\ UNCHANGED <<at, todo, searched, refused, gitFailed, verdict>>
    BY <1>10 DEF ReadDir
  <2>2. Same /\ Todo' = Todo /\ verdict' # "deny" /\ (Judging' <=> Judging)
    BY <1>2, <1>6, <2>1 DEF Todo, IInv, Passed, Judging
  <2>3. walk'.search = walk.search
    BY <1>2, <1>10 DEF ReadDir, IInv, Walks
  <2>4. \E tags, listed, counted, from : Tagged(walk', tags, listed, counted, from)
    <3>1. PICK tags, listed, counted, from : Tagged(walk, tags, listed, counted, from)
      BY <2>1 DEF CauseInv, WalkTagged
    <3>2. \E t, l, f : Tagged(walk', t, l, counted, f)
      BY <1>2, <1>10, <3>1, TaggedReadDir
    <3> QED
      BY <3>2
  <2>5. WalkTagged'
    BY <1>3, <2>1, <2>3, <2>4 DEF CauseInv, WalkTagged
  <2> QED
    BY <1>2, <1>3, <1>4, <2>1, <2>2, <2>3, <2>5 DEF CauseInv, Same
<1>11. CASE Visit
  <2>1. at = "walk" /\ UNCHANGED <<todo, searched, gitFailed, verdict>>
    BY <1>11 DEF Visit
  <2>2. Same /\ Todo' = Todo /\ verdict' # "deny" /\ Judging
    BY <1>2, <1>6, <2>1 DEF Todo, IInv, Passed, Judging
  <2>3. PICK now : now = walk.search
    OBVIOUS
  <2>4. now \in SearchesOf
    BY <2>1, <2>3 DEF CauseInv, WalkTagged
  <2>5. PICK tags, listed, counted, from : Tagged(walk, tags, listed, counted, from)
    BY <2>1 DEF CauseInv, WalkTagged
  <2>6. PICK n \in walk.entries :
          LET rest == [walk EXCEPT !.entries = @ \ {n}]
              entered == Enter(rest, n)
          IN  \/ /\ PassedOver(n, walk.search)
                 /\ walk' = rest
                 /\ UNCHANGED <<at, refused>>
              \/ /\ ~PassedOver(n, walk.search) /\ LeadsOut(n)
                 /\ refused' = "outside" /\ at' = "search" /\ walk' = NoWalk
              \/ /\ ~PassedOver(n, walk.search) /\ ~LeadsOut(n)
                 /\ IF Truncates(entered.count)
                    THEN refused' = "size" /\ at' = "search" /\ walk' = NoWalk
                    ELSE walk' = entered /\ UNCHANGED <<at, refused>>
    BY <1>11 DEF Visit
  <2> DEFINE rest == [walk EXCEPT !.entries = @ \ {n}]
             entered == Enter(rest, n)
  <2>7. rest \in Walks /\ rest.search = walk.search /\ n \in Solid
    BY <1>2 DEF IInv, Walks
  <2>8. ~LeadsOut(n) => entered.search = now
    <3>1. ~LeadsOut(n) => Adds(rest, entered, Canonical(n))
      BY <1>2, <2>7, EnterAdds DEF IInv
    <3> HIDE DEF rest, entered
    <3> QED
      BY <2>3, <2>7, <3>1 DEF Adds
  <2>9. \A w : \/ w = rest
               \/ ~PassedOver(n, walk.search) /\ ~LeadsOut(n) /\ w = entered
               => \E t, c : Tagged(w, t, listed, c, from)
    <3>1. StraightSearch(walk.search)
      BY <2>3, <2>4 DEF CauseInv, IsStraight, StraightSearches
    <3> QED
      BY <1>2, <2>5, <3>1, TaggedVisit
  <2> HIDE DEF rest, entered
  <2>10. CASE UNCHANGED <<at, refused>> /\ walk' \in {rest, entered} /\ walk'.search = now
              /\ \E t, c : Tagged(walk', t, listed, c, from)
    <3>1. WalkTagged'
      BY <1>3, <2>4, <2>10 DEF WalkTagged
    <3> QED
      BY <1>2, <1>3, <1>4, <2>1, <2>2, <2>3, <2>10, <3>1 DEF CauseInv, Same, Judging
  <2>11. CASE refused' # "no" /\ at' = "search" /\ SearchCause(now)
    BY <1>2, <1>3, <1>4, <1>5, <2>2, <2>4, <2>11 DEF CauseInv, Same
  <2>12. CASE PassedOver(n, walk.search) /\ walk' = rest /\ UNCHANGED <<at, refused>>
    BY <2>3, <2>7, <2>9, <2>10, <2>12
  <2>13. CASE ~PassedOver(n, walk.search) /\ LeadsOut(n) /\ refused' = "outside" /\ at' = "search"
    <3>1. n \in Children(walk.dir) /\ walk.dir \in Opens(now) \ Unreadable
      BY <2>3, <2>5 DEF Tagged
    <3>2. n \in Meets(now, Opens(now))
      BY <2>3, <2>13, <3>1, VisitedMet
    <3>3. SearchCause(now)
      BY <2>13, <3>2 DEF SearchCause
    <3> QED
      BY <2>11, <2>13, <3>3
  <2>14. CASE /\ ~PassedOver(n, walk.search) /\ ~LeadsOut(n) /\ Truncates(entered.count)
              /\ refused' = "size" /\ at' = "search"
    <3>1. PICK t, c : Tagged(entered, t, listed, c, from)
      BY <2>9, <2>14
    <3> DEFINE bound == Cardinality(Lists(now)) * Times(now)
    <3>2. entered.count <= bound
      BY <2>8, <2>14, <3>1, CountBounded
    <3>3. entered.count \in Nat /\ given.limit \in Nat
      BY <1>2, <3>1, FS_CardinalityType, CaseAssumption DEF Tagged, IInv
    <3>4. bound \in Int
      <4>1. IsFiniteSet(Lists(now)) /\ Cardinality(Lists(now)) \in Nat
        BY ListsFinite
      <4>2. Times(now) \in Nat
        BY TimesType
      <4> QED
        BY <4>1, <4>2
    <3> HIDE DEF bound
    <3>5. bound >= given.limit
      BY <2>14, <3>2, <3>3, <3>4 DEF Truncates
    <3>6. SearchCause(now)
      BY <3>5 DEF SearchCause, bound, Times
    <3> QED
      BY <2>11, <2>14, <3>6
  <2>15. CASE /\ ~PassedOver(n, walk.search) /\ ~LeadsOut(n)
              /\ walk' = entered /\ UNCHANGED <<at, refused>>
    BY <2>8, <2>9, <2>10, <2>15
  <2> QED
    BY <2>6, <2>12, <2>13, <2>14, <2>15 DEF rest, entered
<1>12. CASE WalkEnds
  <2>1. at = "walk" /\ walk.entries = {} /\ walk.stack = <<>> /\ gitFailed' = gitFailed
    BY <1>12 DEF WalkEnds
  <2>2. CASE Suspects = {}
    <3>1. Conclude(Opened)
      BY <1>12, <2>2 DEF WalkEnds
    <3>2. \A f \in Opened : Suspect(f) => f \in ToolReads(walk.search)
      BY <2>1, <2>2, SuspectsAreRead
    <3> QED
      BY <1>2, <2>1, <3>1, <3>2, ConcludeRecords
  <2>3. CASE Suspects # {}
    <3>1. at' = "git" /\ UNCHANGED <<todo, walk, searched, refused, verdict>>
      BY <1>12, <2>3 DEF WalkEnds
    <3>2. Same /\ Todo' = Todo /\ verdict' # "deny" /\ Judging
      BY <1>2, <1>6, <2>1, <3>1 DEF Todo, IInv, Passed, Judging
    <3>3. WalkTagged'
      BY <1>3, <2>1, <3>1 DEF CauseInv, WalkTagged
    <3> QED
      BY <1>2, <1>3, <1>4, <2>1, <3>1, <3>2, <3>3 DEF CauseInv, Same
  <2> QED
    BY <2>2, <2>3
<1>13. CASE GitAnswers
  <2>1. at = "git" /\ walk.entries = {} /\ walk.stack = <<>> /\ gitFailed' = gitFailed
    BY <1>2, <1>13 DEF GitAnswers, SearchInv, WalkCovers
  <2> DEFINE kept == Opened \ (Suspects \cap Ignored)
  <2>2. PICK k : k = kept
    OBVIOUS
  <2>3. Conclude(k)
    BY <1>13, <2>2 DEF GitAnswers
  <2>4. /\ k \subseteq Opened
        /\ \A f \in Opened : f \in k \/ (Suspect(f) /\ f \notin ToolReads(walk.search))
        /\ \A f \in k : Suspect(f) => f \in ToolReads(walk.search)
    <3>1. \A f \in Suspects : Suspect(f)
      BY DEF Suspects
    <3>2. \A f \in Opened : Suspect(f) =>
              (f \in ToolReads(walk.search) <=> f \notin Suspects \cap Ignored)
      BY <2>1, SuspectsAreRead
    <3> QED
      BY <2>2, <3>1, <3>2
  <2> HIDE DEF kept
  <2> QED
    BY <1>2, <2>1, <2>3, <2>4, ConcludeRecords
<1>14. CASE GitFails
  <2>1. at = "git" /\ walk.entries = {} /\ walk.stack = <<>> /\ gitFailed' = TRUE
    BY <1>2, <1>14 DEF GitFails, SearchInv, WalkCovers
  <2>2. PICK k : k = Opened
    OBVIOUS
  <2>3. Conclude(k)
    BY <1>14, <2>2 DEF GitFails
  <2> QED
    BY <1>2, <2>1, <2>2, <2>3, ConcludeRecords
<1>15. CASE Decide
  <2>1. /\ at = "search" /\ at' = "settled" /\ (todo = <<>> \/ refused # "no")
        /\ UNCHANGED <<todo, walk, searched, refused, gitFailed>>
    BY <1>15 DEF Decide
  <2>2. Same /\ Todo' = Todo /\ ~Judging'
    BY <1>6, <2>1 DEF Todo, Judging
  <2>3. verdict' = "deny" => Denied \/ ~EverySubjectMatches(given.rules.allow \cup given.rules.ask)
    <3>1. given.rules.ask = {} => given.rules.allow \cup given.rules.ask = given.rules.allow
      OBVIOUS
    <3> QED
      BY <1>15, <3>1 DEF Decide
  <2>4. RefusedForCause'
    BY <2>1, <2>2, <2>3, RefusalCause DEF RefusedForCause, Same
  <2> QED
    BY <1>2, <1>5, <2>1, <2>2, <2>4 DEF CauseInv, Same
<1>16. CASE Stop \/ UNCHANGED vars
  <2>1. UNCHANGED <<given, at, todo, walk, searched, refused, gitFailed, verdict>>
    BY <1>16 DEF Stop, vars
  <2>2. Same /\ Todo' = Todo /\ (Judging' <=> Judging)
    BY <1>6, <2>1 DEF Todo, Judging
  <2>3. RefusedForCause'
    BY <2>1, <2>2 DEF CauseInv, RefusedForCause, Same
  <2>4. WalkTagged'
    BY <1>3, <2>1 DEF CauseInv, WalkTagged
  <2> QED
    BY <1>2, <1>3, <2>1, <2>2, <2>3, <2>4 DEF CauseInv, Same
<1> QED
  BY <1>7, <1>8, <1>9, <1>10, <1>11, <1>12, <1>13, <1>14, <1>15, <1>16 DEF Next

\* A refusal has a cause in what the operation is: one that no walk, no order of entries and no
\* answer of git made up.
THEOREM RefusedForCauseHolds == Spec => []RefusedForCause
<1> DEFINE Inv == SearchInv /\ (IsStraight => CauseInv)
<1>1. Init => Inv
  <2> SUFFICES ASSUME Init
               PROVE  Inv
    OBVIOUS
  <2>1. SearchInv
    BY StartsJudging
  <2>2. Reached = {} /\ ~Judging
    BY DEF Init, Reached, Judging
  <2> QED
    BY <2>1, <2>2 DEF Init, CauseInv, WalkTagged, ReachedForCause, RefusedForCause
<1>2. Inv /\ [Next]_vars => Inv'
  <2> SUFFICES ASSUME Inv, [Next]_vars
               PROVE  Inv'
    OBVIOUS
  <2>1. given' = given
    BY DEF Next, vars, Enrol, Contain, NextSearch, ReadDir, Visit, WalkEnds, GitAnswers, GitFails,
           Conclude, Decide, Stop
  <2>2. IsStraight' <=> IsStraight
    BY <2>1, StraightStays
  <2>3. SearchInv'
    BY JudgementKept
  <2>4. CauseInv => CauseInv'
    BY RefusalKept
  <2> QED
    BY <2>2, <2>3, <2>4
<1>3. Inv => RefusedForCause
  BY DEF CauseInv, RefusedForCause
<1> HIDE DEF Inv
<1> QED
  BY <1>1, <1>2, <1>3, PTL DEF Spec

===============================================================================
