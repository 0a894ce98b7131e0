--------------------------------- MODULE Policy -------------------------------
(***************************************************************************)
(* How one operation of an agent is judged: the directory is enrolled as a *)
(* workspace (addWorkspace), the operation is contained (containOperation),*)
(* what its searches reach is walked (core/reach.ts, decide/analysis.ts),  *)
(* git says what it ignores (decide/ignored.ts), and the three lists       *)
(* decide (decide/builtin.ts).                                             *)
(*                                                                         *)
(* The file system is a tree of nodes and does not change meanwhile; a     *)
(* pattern is the set of things it matches.  A path is what path.resolve() *)
(* makes of a name: `..` takes back the name before it, be that a link or  *)
(* not.  A name comes with that path and with the node that is opened when *)
(* it is used as it is written; the code looks at the first, and whether   *)
(* that finds the second is what the properties are about.  The words of a *)
(* command and what its search would do come with it (decide/command.ts    *)
(* and decide/recursive.ts are not modelled).                              *)
(***************************************************************************)
EXTENDS Naturals, Sequences, FiniteSets

CONSTANTS
    Node,         \* what is, or could be, on disk
    Kind,         \* of each node: "dir", "file", "link" or "missing"
    Above,        \* itself and the directories it lies in
    Leads,        \* where it leads, as realpath finds: a link's end, or the node itself
    Path,         \* absolute paths without `..`; a node is its own real path
    Parent,       \* dirname, of a node the directory it lies in; FsRoot lies in itself
    Name,         \* basename
    Lstat,        \* the entry a path finds; links on the way are followed, not the last name
    Relinked,     \* resolve(dirname(path), readlink(path)), where that entry is a link
    Straight,     \* paths from which no `..` of a link's text takes back a link's name
    DotNames,     \* names that start with a dot
    Unreadable,   \* directories that cannot be listed
    Ignored,      \* files .gitignore names
    Tokens,       \* git configs whose text carries a credential
    FsRoot, Home, \* "/" and the home directory
    Protected,    \* protectedPaths(): never to be touched
    SystemRoots,  \* SYSTEM_ROOTS
    Devices,      \* DEVICES
    NoPath,       \* the empty path; what cannot be resolved
    Cases         \* the directories, operations, lists and limits to judge

\* A tree: of two directories a node lies in, one lies in the other.
ASSUME TreeAssumption ==
    /\ IsFiniteSet(Node) /\ Node \subseteq Path
    /\ Kind \in [Node -> {"dir", "file", "link", "missing"}]
    /\ Leads \in [Node -> Node \cup {NoPath}]
    /\ Parent \in [Path -> Path] /\ \A n \in Node : Parent[n] \in Node
    /\ Lstat \in [Path -> Node \cup {NoPath}] /\ Relinked \in [Path -> Path]
    /\ Above \in [Node -> SUBSET Node]
    /\ NoPath \notin Path /\ FsRoot \in Node /\ Kind[FsRoot] = "dir"
    /\ Protected \subseteq Node
    /\ \A n \in Node : n \in Above[n]
    /\ \A n \in Node \ {FsRoot} : Above[n] = {n} \cup Above[Parent[n]] /\ n \notin Above[Parent[n]]
    /\ \A n \in Node : \A a \in Above[n], b \in Above[n] : a \in Above[b] \/ b \in Above[a]
    /\ \A d \in Devices : d \in Node => Kind[d] = "file"

VARIABLES
    given,     \* what is judged: root, op, rules, limit
    at,        \* how far the judgement is
    todo,      \* the searches not yet walked
    walk,      \* the walk under way (reachableFiles)
    searched,  \* the searches walked: SearchReach
    refused,   \* why a search was refused, or "no"
    gitFailed, \* history: did git once give no answer?
    verdict

vars == <<given, at, todo, walk, searched, refused, gitFailed, verdict>>

op == given.op

(* ------------------------------------------------------------- paths -- *)

MaxHops == 16

\* So many calls and looks are followed; past them the code throws, at the latest for want
\* of stack.
MaxSteps == 60

Dirs == {n \in Node : Kind[n] = "dir"}

Links == {n \in Node : Kind[n] = "link"}

IsWithin(n, parent) == parent \in Above[n]

\* join(), where the directory is a real path.
Entry(dir, name) ==
    LET named == {n \in Node \ {FsRoot} : Parent[n] = dir /\ Name[n] = name}
    IN  IF named = {} THEN NoPath ELSE CHOOSE n \in named : TRUE

\* What the system opens for a path, and realpath.
Real(p) == IF p = NoPath \/ Lstat[p] = NoPath THEN NoPath ELSE Leads[Lstat[p]]

\* canonicalPath at its hops-th look in one call, given what its calls find: a link's text is
\* resolved by name against the directory as it is spelled, what is not there is put below
\* what the rest leads to, in a call with hops of its own.
Looked(calls, p, hops) ==
    LET entry == Lstat[p]
    IN  IF hops = MaxHops THEN NoPath
        ELSE IF entry = NoPath \/ Kind[entry] = "missing"
             THEN Entry(calls[Parent[p]][0], Name[p])
        ELSE IF Kind[entry] = "link" THEN calls[Relinked[p]][hops + 1]
        ELSE entry

CanonicalPath[k \in 0..MaxSteps] ==
    [p \in Path |-> [hops \in 0..MaxHops |->
        IF k = 0 THEN NoPath ELSE Looked(CanonicalPath[k - 1], p, hops)]]

Canonical(p) == IF p = NoPath THEN NoPath ELSE CanonicalPath[MaxSteps][p][0]

\* The file system: what a path finds lies where the directory above it really is, and
\* a link leads to something that is none.
ASSUME SystemAssumption ==
    /\ \A n \in Node : Lstat[n] = n
    /\ \A n \in Node \ Links : Leads[n] = n
    /\ \A n \in Node : Leads[n] \notin Links
    /\ \A p \in Path \ {FsRoot} : Lstat[p] = Entry(Real(Parent[p]), Name[p])
    /\ \A p \in Path : Canonical(p) \notin Links

\* On a straight path a link's text, with its `..` taken back by name, leads to where the
\* link leads, and that path is straight as well.
ASSUME StraightAssumption ==
    /\ Node \ Links \subseteq Straight /\ Straight \subseteq Path
    /\ \A p \in Straight :
          /\ Parent[p] \in Straight
          /\ Lstat[p] \in Links => Relinked[p] \in Straight /\ Real(Relinked[p]) = Real(p)

\* A name as it is written: the path resolve() makes of it, and the node that is opened.
Names == [path : Path, node : Node \cup {NoPath}]

NoName == [path |-> NoPath, node |-> NoPath]

Whole(n) == [path |-> n, node |-> Leads[n]]

\* A directory a tool searches: where the code begins, the name it has that from, what it
\* reads there, and the files its globs leave it.
SearchRecord ==
    [dir : Path \cup {NoPath}, name : Names \cup {NoName}, hidden : BOOLEAN, follow : BOOLEAN,
     ignores : BOOLEAN, opens : SUBSET Node]

\* A command searches the directories it names, or the one it runs in, where it was found.
ASSUME CaseAssumption ==
    \A c \in Cases :
        /\ c.root \in Node /\ Kind[c.root] = "dir" /\ c.limit \in Nat \ {0}
        /\ c.op.kind \in {"read", "write", "exec", "net", "tool"}
        /\ c.op.paths \in Seq(Names \cup {NoName})
        /\ c.op.opens \subseteq Node
        /\ c.op.searches \in Seq(SearchRecord)
        /\ c.op.kind # "exec" => c.op.searches = <<>> /\ c.op.segments = <<>>
        /\ c.op.kind = "exec" =>
              /\ c.op.cwd \in Names \cup {NoName}
              /\ \A i \in DOMAIN c.op.searches :
                    LET search == c.op.searches[i]
                    IN  \/ search.name = c.op.cwd /\ search.dir = Canonical(c.op.cwd.path)
                        \/ /\ search.dir = search.name.path
                           /\ \E j \in DOMAIN c.op.segments : \E word \in c.op.segments[j].words :
                                 search.name \in word.names /\ ~word.program
        /\ \A i \in DOMAIN c.op.segments : \A word \in c.op.segments[i].words :
              word.names \subseteq Names

Inside == {n \in Node : IsWithin(n, given.root)}

ConfigNames == {"config", "config.worktree"}

\* isWorkspaceSecret, by the names between the last .git below the root and the file.
IsWorkspaceSecret(n, root) ==
    LET below == Above[n] \ Above[root]
        gits == {g \in below : Name[g] = ".git"}
        last == CHOOSE g \in gits : \A h \in gits : IsWithin(g, h)
        inside == (Above[n] \ Above[last]) \ {n}
        First(name) == \E m \in inside : Parent[m] = last /\ Name[m] = name
    IN  \/ n \in below /\ Name[n] = ".git-credentials"
        \/ /\ gits # {} /\ last # n
           /\ \/ inside = {} /\ Name[n] \in ConfigNames \cup {"credentials"}
              \/ First("modules") /\ Cardinality(inside) >= 2 /\ Name[n] \in ConfigNames
              \/ /\ First("worktrees") /\ Cardinality(inside) = 2
                 /\ Name[n] = "config.worktree"

HoldsGitCredentials(n, root) ==
    IsWorkspaceSecret(n, root) /\ (Name[n] \in ConfigNames => n \in Tokens)

(* ------------------------------------------------ the calls of Claude -- *)

NoOperation(kind) ==
    [kind |-> kind, paths |-> <<>>, recursive |-> FALSE, opens |-> Node, cwd |-> NoName,
     segments |-> <<>>, searches |-> <<>>, empty |-> FALSE, unjudgeable |-> FALSE,
     subject |-> NoPath]

WriteTools == {"Write", "Edit", "MultiEdit", "NotebookEdit"}

\* toolToOperation: what a call of a built-in tool asks for.  A Grep without a path searches the
\* workspace, a Glob whose pattern climbs out is a read of that place too, and what is left
\* out of the call is the empty name.
ToolToOperation(call, root) ==
    LET from == IF call.path = NoName THEN Whole(root) ELSE call.path
    IN  CASE call.tool \in WriteTools ->
               [NoOperation("write") EXCEPT !.paths = <<call.path>>]
          [] call.tool = "Read" -> [NoOperation("read") EXCEPT !.paths = <<call.path>>]
          [] call.tool = "Grep" ->
               [NoOperation("read") EXCEPT !.paths = <<from>>, !.recursive = TRUE,
                    !.opens = IF call.exclude THEN Node \ call.glob ELSE call.glob]
          [] call.tool = "Glob" ->
               [NoOperation("read") EXCEPT
                    !.paths = IF call.climbs = NoName THEN <<from>> ELSE <<from, call.climbs>>]
          [] call.tool = "TodoWrite" -> NoOperation("read")
          [] call.tool = "WebFetch" -> [NoOperation("net") EXCEPT !.subject = call.name]
          [] call.tool = "mcp" -> [NoOperation("tool") EXCEPT !.subject = call.name]
          [] call.tool = "Bash" ->
               [NoOperation("exec") EXCEPT !.cwd = Whole(root), !.segments = call.segments,
                    !.searches = call.searches, !.unjudgeable = call.unjudgeable,
                    !.empty = call.segments = <<>> /\ ~call.unjudgeable]

(* --------------------------------------------------------- enrolment -- *)

\* Mutant: a protected place below the directory is not looked for.
RefuseRootWithin(dir) ==
    \/ dir = FsRoot
    \/ \E s \in SystemRoots : IsWithin(dir, s)
    \/ IsWithin(Home, dir)
    \/ \E p \in Protected : IsWithin(dir, p)

RefuseWorkspaceRoot(dir) ==
    \/ dir = FsRoot
    \/ \E s \in SystemRoots : IsWithin(dir, s)
    \/ IsWithin(Home, dir)
    \/ \E p \in Protected : IsWithin(p, dir) \/ IsWithin(dir, p)
    \/ \E n \in Node : Parent[n] = dir /\ Name[n] = ".portrail" /\ Kind[n] # "missing"

(* ------------------------------------------------------- containment -- *)

\* Mutant: what the path finds is held to the workspace, not where that leads.
CheckRefusesDeclared(name) ==
    \/ Canonical(name.path) = NoPath \/ Lstat[name.path] \notin Inside
    \/ \E p \in Protected : IsWithin(Canonical(name.path), p)

\* `check`: a declared path, refused?
CheckRefuses(name) ==
    LET canonical == Canonical(name.path)
    IN  \/ canonical \notin Inside
        \/ \E p \in Protected : IsWithin(canonical, p)
        \/ IsWorkspaceSecret(canonical, given.root)

Declared == {op.paths[i] : i \in DOMAIN op.paths}

Words == UNION {op.segments[i].words : i \in DOMAIN op.segments}

\* judgeCommandPaths: a word of a command, refused?
WordRefuses(word) ==
    \E name \in word.names :
        LET canonical == Canonical(name.path)
        IN  \/ canonical = NoPath
            \/ \E p \in Protected : IsWithin(canonical, p) \/ IsWithin(p, canonical)
            \/ /\ canonical \notin Devices /\ ~word.program
               /\ \/ canonical \notin Inside
                  \/ IsWorkspaceSecret(canonical, given.root)

ContainRefuses ==
    \/ op.kind = "write" /\ (Declared = {} \/ \E name \in Declared : CheckRefuses(name))
    \/ op.kind = "read" /\ \E name \in Declared : CheckRefuses(name)
    \/ /\ op.kind = "exec"
       /\ \/ op.empty \/ CheckRefuses(op.cwd) \/ op.unjudgeable
          \/ \E word \in Words : WordRefuses(word)
    \/ op.kind = "net" /\ op.subject = NoPath

Paths == {Canonical(name.path) : name \in Declared}

\* The canonical paths of what a command names, as far as it exists.
NamedPaths ==
    {n \in UNION {{Canonical(name.path) : name \in word.names} :
                     word \in {w \in Words : ~w.program}} :
        n \notin Devices /\ Kind[n] # "missing"}

(* --------------------------------------------------------- the lists -- *)

FirstMatch(list, kind, values) ==
    \E rule \in list : rule.kind = kind /\ rule.matches \cap values # {}

Plain(value) == [deny |-> {value}, allow |-> {value}]

Own(segment) == {segment.text, segment.unwrapped}

\* analyseSegment: what a rule may match of one command of the line.
DenyForms(segment) ==
    Own(segment) \cup {segment.named}
      \cup IF segment.fed
           THEN {Append(form, "<stdin>") : form \in {segment.unwrapped, segment.named}}
           ELSE {}

Suspect(file) == FirstMatch(given.rules.deny, "read", {file})

(* ------------------------------------------------- the state machine -- *)

NoWalk == [search |-> NoPath, stack |-> <<>>, seen |-> {}, dir |-> NoPath,
           entries |-> {}, files |-> {}, count |-> 0]

Init ==
    /\ given \in Cases
    /\ at = "enrol" /\ todo = <<>> /\ walk = NoWalk /\ searched = {}
    /\ refused = "no" /\ gitFailed = FALSE /\ verdict = "none"

Enrol ==
    /\ at = "enrol"
    /\ at' = IF RefuseWorkspaceRoot(given.root) THEN "stranger" ELSE "contain"
    /\ UNCHANGED <<given, todo, walk, searched, refused, gitFailed, verdict>>

\* Grep's search of a path it was given, as the tool performs it.
ReadSearch(name) ==
    [dir |-> Canonical(name.path), name |-> name, hidden |-> TRUE, follow |-> FALSE,
     ignores |-> TRUE, opens |-> op.opens]

Searches ==
    IF op.kind = "read" /\ op.recursive
    THEN [i \in DOMAIN op.paths |-> ReadSearch(op.paths[i])]
    ELSE op.searches

Contain ==
    /\ at = "contain"
    /\ IF ContainRefuses
       THEN at' = "settled" /\ verdict' = "deny" /\ UNCHANGED todo
       ELSE at' = "search" /\ todo' = Searches /\ UNCHANGED verdict
    /\ UNCHANGED <<given, walk, searched, refused, gitFailed>>

\* The walk begins where realpath finds the directory; what is none is not walked.
NextSearch ==
    /\ at = "search" /\ todo # <<>> /\ refused = "no"
    /\ LET search == Head(todo)
           start == Real(search.dir)
       IN  IF start \in Dirs
           THEN /\ walk' = [NoWalk EXCEPT !.search = search, !.stack = <<start>>,
                                          !.seen = {start}]
                /\ at' = "walk"
           ELSE UNCHANGED <<walk, at>>
    /\ todo' = Tail(todo)
    /\ UNCHANGED <<given, searched, refused, gitFailed, verdict>>

Children(dir) == {n \in Node \ {FsRoot} : Parent[n] = dir /\ Kind[n] # "missing"}

\* Mutant: a directory that cannot be listed is tried again.
ReadDirAgain ==
    /\ at = "walk" /\ walk.entries = {} /\ walk.stack # <<>>
    /\ LET dir == walk.stack[Len(walk.stack)]
       IN  walk' = IF dir \in Unreadable THEN walk
                   ELSE [walk EXCEPT !.stack = SubSeq(@, 1, Len(@) - 1), !.dir = dir,
                                     !.entries = Children(dir)]
    /\ UNCHANGED <<given, at, todo, searched, refused, gitFailed, verdict>>

\* A directory is popped and listed; one that cannot be listed is passed over.
ReadDir ==
    /\ at = "walk" /\ walk.entries = {} /\ walk.stack # <<>>
    /\ LET dir == walk.stack[Len(walk.stack)]
       IN  walk' = [walk EXCEPT !.stack = SubSeq(@, 1, Len(@) - 1), !.dir = dir,
                                !.entries = IF dir \in Unreadable THEN {} ELSE Children(dir)]
    /\ UNCHANGED <<given, at, todo, searched, refused, gitFailed, verdict>>

Skipped(n) ==
    /\ Kind[n] = "dir"
    /\ \/ Name[n] = "node_modules"
       \/ /\ Name[n] \in {"objects", "lfs"}
          /\ \E g \in Above[Parent[n]] : Name[g] = ".git"

PassedOver(n, search) ==
    \/ ~search.hidden /\ Name[n] \in DotNames
    \/ Skipped(n)
    \/ Kind[n] = "link" /\ ~search.follow

\* What an entry adds: a directory to the stack, a file to the files.
Enter(w, n) ==
    LET target == Canonical(n)
    IN  IF Kind[n] = "dir"  THEN [w EXCEPT !.stack = Append(@, n)]
        ELSE IF Kind[n] = "file" THEN [w EXCEPT !.files = @ \cup {n}, !.count = @ + 1]
        ELSE IF Kind[target] = "missing" \/ target \in w.seen THEN w
        ELSE IF Kind[target] = "dir"
             THEN [w EXCEPT !.seen = @ \cup {target}, !.stack = Append(@, target)]
        ELSE [w EXCEPT !.seen = @ \cup {target}, !.files = @ \cup {target}, !.count = @ + 1]

LeadsOut(n) == Kind[n] = "link" /\ Canonical(n) \notin Inside

Truncates(count) == count >= given.limit

\* One entry of the listed directory, in an order of the file system's.
Visit ==
    /\ at = "walk"
    /\ \E n \in walk.entries :
          LET rest == [walk EXCEPT !.entries = @ \ {n}]
              entered == Enter(rest, n)
          IN  \/ /\ PassedOver(n, walk.search)
                 /\ walk' = rest
                 /\ UNCHANGED <<at, refused>>
              \/ /\ ~PassedOver(n, walk.search) /\ LeadsOut(n)
                 /\ refused' = "outside" /\ at' = "search" /\ walk' = NoWalk
              \/ /\ ~PassedOver(n, walk.search) /\ ~LeadsOut(n)
                 /\ IF Truncates(entered.count)
                    THEN refused' = "size" /\ at' = "search" /\ walk' = NoWalk
                    ELSE walk' = entered /\ UNCHANGED <<at, refused>>
    /\ UNCHANGED <<given, todo, searched, gitFailed, verdict>>

Opened == walk.files \cap walk.search.opens

Suspects == IF walk.search.ignores THEN {f \in Opened : Suspect(f)} ELSE {}

\* Mutant: a search is left to the lists, whatever it opens.
ConcludeOpen(kept) ==
    /\ searched' = searched \cup {[where |-> walk.search.dir, files |-> kept]}
    /\ at' = "search" /\ walk' = NoWalk
    /\ UNCHANGED <<given, todo, refused, verdict>>

\* The walk is over; kept are the files the tool opens as far as git does not ignore them.
Conclude(kept) ==
    /\ IF \E f \in kept : HoldsGitCredentials(f, given.root)
       THEN refused' = "secret" /\ UNCHANGED searched
       ELSE /\ searched' = searched \cup {[where |-> walk.search.dir, files |-> kept]}
            /\ UNCHANGED refused
    /\ at' = "search" /\ walk' = NoWalk
    /\ UNCHANGED <<given, todo, verdict>>

WalkEnds ==
    /\ at = "walk" /\ walk.entries = {} /\ walk.stack = <<>>
    /\ IF Suspects = {}
       THEN Conclude(Opened)
       ELSE at' = "git" /\ UNCHANGED <<given, todo, walk, searched, refused, verdict>>
    /\ UNCHANGED gitFailed

\* git answers, with some of the suspects or none.
GitAnswers ==
    /\ at = "git"
    /\ Conclude(Opened \ (Suspects \cap Ignored))
    /\ UNCHANGED gitFailed

\* Mutant: what git was asked about is taken to be ignored.
GitFailsOpen ==
    /\ at = "git"
    /\ Conclude(Opened \ Suspects)
    /\ gitFailed' = TRUE

\* No git, no repository, an error: nothing is taken to be ignored.
GitFails ==
    /\ at = "git"
    /\ Conclude(Opened)
    /\ gitFailed' = TRUE

Segments == {op.segments[i] : i \in DOMAIN op.segments}

Reached == UNION {s.files : s \in searched}

\* Mutant: a directory searched stays a subject beside its files.
SubjectsAndDirs ==
    IF op.kind = "exec" THEN {[deny |-> DenyForms(s), allow |-> Own(s)] : s \in Segments}
    ELSE IF op.kind \in {"read", "write"}
         THEN {Plain(n) : n \in Paths \cup Reached
                            \cup (IF op.kind = "read" /\ Paths = {} THEN {given.root} ELSE {})}
    ELSE {Plain(op.subject)}

\* What the lists judge.  The files a read reached stand in for the directory searched.
Subjects ==
    CASE op.kind = "exec" -> {[deny |-> DenyForms(s), allow |-> Own(s)] : s \in Segments}
      [] op.kind = "read" ->
            {Plain(n) : n \in (Paths \ {s.where : s \in {t \in searched : t.files # {}}})
                                \cup Reached \cup (IF Paths = {} THEN {given.root} ELSE {})}
      [] op.kind = "write" -> {Plain(n) : n \in Paths}
      [] OTHER -> {Plain(op.subject)}

EverySubjectMatches(list) ==
    \A subject \in Subjects : FirstMatch(list, op.kind, subject.allow)

Denied ==
    \/ refused # "no"
    \/ Subjects = {}
    \/ FirstMatch(given.rules.deny, "read", Reached)
    \/ op.kind = "exec" /\ FirstMatch(given.rules.deny, "read", NamedPaths)
    \/ \E subject \in Subjects : FirstMatch(given.rules.deny, op.kind, subject.deny)
    \/ \E s \in Segments : s.sedObjection

Decide ==
    /\ at = "search" /\ (todo = <<>> \/ refused # "no")
    /\ verdict' =
          IF Denied THEN "deny"
          ELSE IF EverySubjectMatches(given.rules.allow) THEN "allow"
          ELSE IF given.rules.ask # {} /\ EverySubjectMatches(given.rules.allow \cup given.rules.ask)
               THEN "ask"
          ELSE "deny"
    /\ at' = "settled"
    /\ UNCHANGED <<given, todo, walk, searched, refused, gitFailed>>

Stop == at \in {"settled", "stranger"} /\ UNCHANGED vars

Next ==
    \/ Enrol \/ Contain \/ NextSearch \/ ReadDir \/ Visit \/ WalkEnds
    \/ GitAnswers \/ GitFails \/ Decide \/ Stop

\* The daemon goes on with a judgement it has begun, and git ends; that is assumed of git,
\* for nothing limits the time it takes.
Fairness ==
    /\ WF_vars(Enrol) /\ WF_vars(Contain) /\ WF_vars(NextSearch) /\ WF_vars(ReadDir)
    /\ WF_vars(Visit) /\ WF_vars(WalkEnds) /\ WF_vars(GitAnswers \/ GitFails)
    /\ WF_vars(Decide)

Spec == Init /\ [][Next]_vars /\ Fairness

(* -------------------------------------------------------- properties -- *)

TypeOK ==
    /\ given \in Cases
    /\ at \in {"enrol", "stranger", "contain", "search", "walk", "git", "settled"}
    /\ \A i \in DOMAIN todo : todo[i].dir \in Path
    /\ walk.seen \cup walk.entries \cup walk.files \subseteq Node
    /\ walk.count \in 0..(given.limit - 1)
    /\ \A s \in searched : s.where \in Path /\ s.files \subseteq Node
    /\ refused \in {"no", "outside", "size", "secret"}
    /\ gitFailed \in BOOLEAN
    /\ verdict \in {"none", "allow", "ask", "deny"}

\* The name finds by its path what is opened by it as it is written: no `..` takes back a link.
StraightName(name) == name.path \in Straight /\ name.node = Real(name.path)

\* What the tool does, whatever the judgement made of it: the directories a search opens
\* are the least set that holds its start and what it meets there.
Meets(search, dirs) ==
    {n \in Node \ {FsRoot} :
        /\ Parent[n] \in dirs \ Unreadable
        /\ Kind[n] # "missing"
        /\ Name[n] \in DotNames => search.hidden
        /\ Kind[n] = "link" => search.follow
        /\ Kind[n] = "dir" =>
              /\ Name[n] # "node_modules"
              /\ ".git" \in {Name[g] : g \in Above[n]} => Name[n] \notin {"objects", "lfs"}}

Opens(search) ==
    LET Grown[k \in 0..Cardinality(Dirs)] ==
            IF k = 0 THEN {search.name.node} \cap Dirs
            ELSE LET smaller == Grown[k - 1]
                 IN  smaller \cup ({Leads[n] : n \in Meets(search, smaller)} \cap Dirs)
    IN  Grown[Cardinality(Dirs)]

Lists(search) == {Leads[n] : n \in Meets(search, Opens(search))}

ToolReads(search) ==
    {f \in Lists(search) \cap search.opens :
        f \in Node /\ Kind[f] = "file" /\ ~(search.ignores /\ f \in Ignored)}

SearchesOf == {Searches[i] : i \in DOMAIN Searches}

\* The search begins at a straight name, and each link it meets is straight.
StraightSearch(search) ==
    StraightName(search.name) /\ Meets(search, Opens(search)) \cap Links \subseteq Straight

StraightSearches == {search \in SearchesOf : StraightSearch(search)}

Permitted == verdict \in {"allow", "ask"}

Listing == given.rules.allow \cup (IF verdict = "ask" THEN given.rules.ask ELSE {})

\* What an operation names for the agent to touch.
Touched ==
    IF op.kind \in {"read", "write"} THEN Declared
    ELSE IF op.kind = "exec" THEN {op.cwd} \cup UNION {w.names : w \in {v \in Words : ~v.program}}
    ELSE {}

\* An operation passes only if no file its searches really open is named by a deny rule, and
\* a read only if a rule covers each of them: reached by links, cycles and hidden
\* directories, and whatever becomes of the question to git (builtin.ts:139-142).  Neither
\* does a command pass that names a file of the deny list by a straight name, or a plain read.
PermissionCovers ==
    Permitted =>
        /\ \A search \in StraightSearches : \A f \in ToolReads(search) :
              /\ ~Suspect(f)
              /\ op.kind = "read" => FirstMatch(Listing, "read", {f})
        /\ op.kind = "exec" \/ (op.kind = "read" /\ ~op.recursive) =>
              \A name \in Touched \ {op.cwd} :
                  StraightName(name) /\ name.node \notin Devices /\ Kind[name.node] # "missing"
                      => ~Suspect(name.node)

\* No list lifts what holds in every workspace: no file a permitted search really opens
\* lies outside the workspace or in a protected place, or holds git's credentials
\* (core/protected.ts:70-78).
SecretsKept ==
    Permitted =>
        \A search \in StraightSearches : \A f \in ToolReads(search) :
            /\ IsWithin(f, given.root)
            /\ \A p \in Protected : ~IsWithin(f, p)
            /\ ~HoldsGitCredentials(f, given.root)

\* So no permission rests on a search that was judged by less than its tool reads.
PermissionIsSafe == PermissionCovers /\ SecretsKept

\* What a walk has found, and what a search is judged by, lies in the workspace and in no
\* protected place: enrolment, containment and the walk each see to a part of it, the walk
\* from where realpath finds a straight path, on to what canonicalPath makes of each link.
StaysInside ==
    \A f \in (IF at \in {"walk", "git"} /\ walk.search.dir \in Straight THEN walk.files ELSE {})
             \cup UNION {s.files : s \in {t \in searched : t.where \in Straight}} :
        IsWithin(f, given.root) /\ \A p \in Protected : ~IsWithin(f, p)

\* An operation passes only if what is opened for each straight name it declares, or a
\* command names, is in the workspace and neither protected nor one of its secrets; a
\* device may lie elsewhere, and so may the program of a command, but in no protected
\* place (gateway.ts:1116-1122, 1176-1181).
ContainmentStands ==
    Permitted =>
        /\ \A name \in Touched :
              StraightName(name) /\ (op.kind = "exec" => name.node \notin Devices) =>
                  /\ name.node \in Inside
                  /\ ~IsWorkspaceSecret(name.node, given.root)
        /\ \A name \in Touched \cup UNION {w.names : w \in Words} :
              StraightName(name) => \A p \in Protected : ~IsWithin(name.node, p)

\* Nothing an agent may do leaves its workspace, by its own account or by what it reaches.
Contained == StaysInside /\ ContainmentStands

\* What speaks against a name: it is not followed to its end, or is somewhere it may not be.
Forbidden(name) ==
    \/ Canonical(name.path) = NoPath \/ name.node \notin Inside
    \/ \E p \in Protected : IsWithin(name.node, p)
    \/ IsWorkspaceSecret(name.node, given.root)

ForbiddenWord(word) ==
    \E name \in word.names :
        \/ Canonical(name.path) = NoPath
        \/ \E p \in Protected : IsWithin(name.node, p) \/ IsWithin(p, name.node)
        \/ name.node \notin Devices /\ ~word.program /\ Forbidden(name)

ContainCause ==
    \/ op.kind = "write" /\ op.paths = <<>>
    \/ op.kind \in {"read", "write"} /\ \E name \in Declared : Forbidden(name)
    \/ op.kind = "exec" /\ (op.empty \/ op.unjudgeable \/ Forbidden(op.cwd))
    \/ op.kind = "exec" /\ \E word \in Words : ForbiddenWord(word)
    \/ op.kind = "net" /\ op.subject = NoPath

\* Why a search may be refused: it meets a link that leads out, it lists as many files as
\* the limit (each followed link may list some again), or it opens a secret.
SearchCause(search) ==
    \/ \E n \in Meets(search, Opens(search)) : LeadsOut(n)
    \/ Cardinality(Lists(search))
         * (IF search.follow THEN 1 + Cardinality(Links) ELSE 1) >= given.limit
    \/ \E f \in Lists(search) \cap Node : HoldsGitCredentials(f, given.root)

\* The files a rule may object to.  Git is only asked about those a deny rule names, so an
\* allow rule must cover an ignored file too; and git's answer may be missing.
Coverable(search) == {f \in Lists(search) \cap search.opens : f \in Node /\ Kind[f] = "file"}

Objectionable(search) == IF gitFailed THEN Coverable(search) ELSE ToolReads(search)

\* What a rule must cover besides the files: a directory searched is its files, if any.
Itself ==
    IF op.kind # "read" THEN Subjects
    ELSE {Plain(n) : n \in
            IF Paths = {} THEN {given.root}
            ELSE {m \in Paths : \A search \in SearchesOf :
                     search.dir = m =>
                        {f \in Coverable(search) : Suspect(f) => f \in Objectionable(search)} = {}}}

Covered(values) == FirstMatch(given.rules.allow \cup given.rules.ask, op.kind, values)

Cause ==
    \/ ContainCause
    \/ \E search \in SearchesOf :
          \/ SearchCause(search)
          \/ \E f \in Objectionable(search) : Suspect(f)
          \/ op.kind = "read" /\ \E f \in Coverable(search) : ~Covered({f})
    \/ op.kind = "exec" /\ \E n \in NamedPaths : Suspect(n)
    \/ \E s \in Segments : s.sedObjection
    \/ Subjects = {}
    \/ \E subject \in Itself :
          \/ FirstMatch(given.rules.deny, op.kind, subject.deny)
          \/ ~Covered(subject.allow)

\* All its names are straight, and the links its searches meet.
IsStraight ==
    /\ \A name \in Touched \cup UNION {w.names : w \in Words} : StraightName(name)
    /\ StraightSearches = SearchesOf

\* The refusal of an operation with straight names has a cause in what it is: it opens what
\* it may not, a search cannot be judged, a deny rule names something it does, or no rule
\* covers a part of it.
RefusedForCause == verdict = "deny" /\ IsStraight => Cause

\* Every operation of a workspace is judged in the end, round links that lead back too.
Judged == <>(at \in {"settled", "stranger"})
=============================================================================
