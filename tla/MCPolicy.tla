------------------------------- MODULE MCPolicy -------------------------------
(***************************************************************************)
(* A small home directory with a workspace in it, for Policy: hidden and   *)
(* ignored files, a .git with a token, links to a file, to a directory,    *)
(* round in a circle, to nothing and out of the workspace, names and links *)
(* that climb from a linked directory, and one that nobody may list.       *)
(***************************************************************************)
EXTENDS Policy, SequencesExt

\* node -> <<kind, parent, name>>
MCTree ==
    [n \in {"/", "usr", "grep", "null", "t", "home", "ssh", "id", "conf", "gh", "tok", "work",
            "git", "cfg", "objects", "pack", "nm", "dep", "env", "src", "a", "alias", "inner",
            "c", "up", "back", "pit", "self", "near", "fresh", "docs", "b", "shut", "h", "gone",
            "far", "away", "loop", "bent", "lib", "odd", "bent/a", "new"} |->
        CASE n = "/" -> <<"dir", "/", "">>
          [] n \in {"usr", "home"} -> <<"dir", "/", n>>
          [] n \in {"null", "t"} -> <<"file", "/", n>>
          [] n = "grep" -> <<"file", "usr", n>>
          [] n = "ssh" -> <<"dir", "home", ".ssh">>
          [] n = "id" -> <<"file", "ssh", n>>
          [] n = "conf" -> <<"dir", "home", ".config">>
          [] n = "gh" -> <<"dir", "conf", n>>
          [] n = "tok" -> <<"file", "gh", n>>
          [] n = "work" -> <<"dir", "home", n>>
          [] n = "git" -> <<"dir", "work", ".git">>
          [] n = "cfg" -> <<"file", "git", "config">>
          [] n = "objects" -> <<"dir", "git", n>>
          [] n = "pack" -> <<"file", "objects", n>>
          [] n \in {"src", "docs", "far"} -> <<"dir", "work", n>>
          [] n = "nm" -> <<"dir", "src", "node_modules">>
          [] n = "dep" -> <<"file", "nm", n>>
          [] n = "env" -> <<"file", "docs", ".env">>
          [] n = "a" -> <<"file", "src", n>>
          [] n = "b" -> <<"file", "docs", n>>
          [] n = "c" -> <<"file", "inner", n>>
          [] n = "h" -> <<"file", "shut", n>>
          [] n = "alias" -> <<"link", "src", n>>
          [] n = "inner" -> <<"dir", "src", n>>
          [] n \in {"up", "back"} -> <<"link", "inner", n>>
          [] n = "pit" -> <<"dir", "inner", n>>
          [] n \in {"self", "near"} -> <<"link", "pit", n>>
          [] n = "fresh" -> <<"missing", "inner", n>>
          [] n = "shut" -> <<"dir", "docs", n>>
          [] n = "gone" -> <<"link", "docs", n>>
          [] n \in {"away", "loop"} -> <<"link", "far", n>>
          [] n = "bent" -> <<"dir", "far", n>>
          [] n \in {"lib", "odd"} -> <<"link", "bent", n>>
          [] n = "bent/a" -> <<"file", "bent", "a">>
          [] n = "new" -> <<"missing", "work", n>>]

MCNode == DOMAIN MCTree
MCKind == [n \in MCNode |-> MCTree[n][1]]
MCAbove[n \in MCNode] ==
    IF n = "/" THEN {n} ELSE {n} \cup MCAbove[MCTree[n][2]]

\* What is read in a link: where it starts, and the names it goes through from there.
MCText ==
    [n \in {m \in MCNode : MCKind[m] = "link"} |->
        CASE n = "alias" -> <<"src", <<"a">>>>
          [] n = "up" -> <<"inner", <<"..">>>>
          [] n = "back" -> <<"inner", <<"..", "a">>>>
          [] n = "self" -> <<"/", <<"home", "work", "src", "inner", "pit">>>>
          [] n = "near" -> <<"pit", <<"..", "c">>>>
          [] n = "gone" -> <<"docs", <<"..", "new">>>>
          [] n = "away" -> <<"/", <<"t">>>>
          [] n = "loop" -> <<"far", <<"loop">>>>
          [] n = "lib" -> <<"bent", <<"..", "..", "src", "inner">>>>
          [] n = "odd" -> <<"bent", <<"lib", "..", "a">>>>]

MCLeads ==
    [n \in MCNode |->
        CASE n \in {"alias", "back", "odd"} -> "a"
          [] n = "up" -> "src"
          [] n = "self" -> "pit"
          [] n = "near" -> "c"
          [] n = "gone" -> "new"
          [] n = "away" -> "t"
          [] n = "loop" -> ""
          [] n = "lib" -> "inner"
          [] OTHER -> n]

\* Paths through the linked directory: path -> <<entry, parent, name>>
MCThrough ==
    [p \in {"lib/c", "lib/fresh", "lib/up", "lib/back", "lib/pit", "lib/pit/near"} |->
        CASE p = "lib/c" -> <<"c", "lib", "c">>
          [] p = "lib/fresh" -> <<"fresh", "lib", "fresh">>
          [] p = "lib/up" -> <<"up", "lib", "up">>
          [] p = "lib/back" -> <<"back", "lib", "back">>
          [] p = "lib/pit" -> <<"pit", "lib", "pit">>
          [] p = "lib/pit/near" -> <<"near", "lib/pit", "near">>]

MCPath == MCNode \cup DOMAIN MCThrough
MCLstat == [p \in MCPath |-> IF p \in MCNode THEN p ELSE MCThrough[p][1]]
MCParent == [p \in MCPath |-> IF p \in MCNode THEN MCTree[p][2] ELSE MCThrough[p][2]]
MCName == [p \in MCPath |-> IF p \in MCNode THEN MCTree[p][3] ELSE MCThrough[p][3]]

MCRelinked ==
    [p \in MCPath |->
        CASE p = "lib/up" -> "bent"
          [] p \in {"lib/back", "odd"} -> "bent/a"
          [] p = "lib/pit/near" -> "lib/c"
          [] p = "back" -> "a"
          [] p = "loop" -> "loop"
          [] OTHER -> IF p \in MCNode THEN MCLeads[p] ELSE p]

MCStraight == MCPath \ {"lib/up", "lib/back", "odd"}

\* path.resolve(), of the first k names of the link at a path: it does not look at the disk.
ResolvedIn(p, k) ==
    LET text == MCText[Lstat[p]]
        Step(q, name) ==
            IF name = ".." THEN Parent[q]
            ELSE CHOOSE r \in Path : Parent[r] = q /\ Name[r] = name /\ r # FsRoot
    IN  FoldLeft(Step, IF text[1] = FsRoot THEN FsRoot ELSE Parent[p], SubSeq(text[2], 1, k))

\* What the system finds for the text of a link: links are followed before the next name.
FoundBy(n) ==
    LET Step(m, name) == IF name = ".." THEN Parent[Leads[m]] ELSE Entry(Leads[m], name)
    IN  FoldLeft(Step, MCText[n][1], MCText[n][2])

\* The tables say of each link what its text says, and in the text of a straight one no
\* `..` follows a link.
ASSUME TextAssumption ==
    /\ \A p \in Path : Lstat[p] \in Links =>
          Relinked[p] = ResolvedIn(p, Len(MCText[Lstat[p]][2]))
    /\ \A n \in Links : MCText[n][1] \in {FsRoot, Parent[n]} /\ Leads[n] = Leads[FoundBy(n)]
    /\ \A p \in Straight : Lstat[p] \in Links =>
          \A i \in DOMAIN MCText[Lstat[p]][2] :
              MCText[Lstat[p]][2][i] = ".." => Kind[Lstat[ResolvedIn(p, i - 1)]] = "dir"

(* ------------------------------------------------------ the operations -- *)

\* A name without `..`, and two that climb from the linked directory or along a crooked link.
Plainly(p) == [path |-> p, node |-> Real(p)]

Crooked == {[path |-> "bent/a", node |-> "a"], Plainly("lib/back"), Plainly("odd")}

Aliases == {Plainly(p) : p \in {"lib", "lib/c", "lib/fresh", "lib/pit/near"}}

\* A call with nothing in it but the tool's name.
Call(tool) ==
    [tool |-> tool, path |-> NoName, glob |-> MCNode, exclude |-> FALSE, climbs |-> NoName,
     name |-> "", segments |-> <<>>, searches |-> <<>>, unjudgeable |-> FALSE]

Of(call) == ToolToOperation(call, "work")

\* Codex declares several files at once.
Files(kind, paths) == [NoOperation(kind) EXCEPT !.paths = paths]

Grep(paths, opens) ==
    [NoOperation("read") EXCEPT !.paths = paths, !.recursive = TRUE, !.opens = opens]

Word(names) == [names |-> names, program |-> FALSE]

\* `wrapped` is run through env, by its path.
Segment(names, wrapped) ==
    [words |-> {[names |-> {Plainly("grep")}, program |-> TRUE]}
                  \cup {Word({n}) : n \in names},
     text |-> IF wrapped THEN <<"env", "/usr/grep">> ELSE <<"grep">>,
     unwrapped |-> IF wrapped THEN <<"/usr/grep">> ELSE <<"grep">>,
     named |-> <<"grep">>, fed |-> FALSE, sedObjection |-> FALSE]

Search(name, tool) ==
    [dir |-> name.path, name |-> name, hidden |-> tool = "grep", follow |-> tool = "grep",
     ignores |-> tool = "rg", opens |-> MCNode]

Exec(segments, searches) ==
    Of([Call("Bash") EXCEPT !.segments = segments, !.searches = searches])

\* The command is run in another directory of the workspace, and searches it.
ExecAt(cwd, names) ==
    [Exec(<<Segment(names, FALSE)>>,
          <<[Search(cwd, "grep") EXCEPT !.dir = Canonical(cwd.path)]>>) EXCEPT !.cwd = cwd]

MCOps ==
    {Of([Call(tool) EXCEPT !.path = p]) : tool \in {"Read", "Grep", "Write"},
          p \in {NoName} \cup Crooked \cup Aliases
                    \cup {Plainly(p) : p \in {"a", "env", "cfg", "away", "loop", "src", "new"}}}
    \cup {Of([Call("Grep") EXCEPT !.path = p, !.glob = {"c", "b"}, !.exclude = e]) :
              p \in {Plainly(q) : q \in {"src", "docs", "shut", "lib"}}, e \in BOOLEAN}
    \cup {Of([Call("Glob") EXCEPT !.path = Plainly("src"), !.climbs = c]) :
              c \in {NoName, Plainly("docs"), Plainly("t"), Plainly("ssh")}}
    \cup {Of(Call("TodoWrite")), Of(Call("WebFetch")),
          Of([Call("WebFetch") EXCEPT !.name = "host"]), Of([Call("mcp") EXCEPT !.name = "host"])}
    \cup {Files("write", <<>>), Files("write", <<Plainly("new"), Plainly("a")>>),
          Files("read", <<Plainly("alias"), Plainly("b")>>)}
    \cup {Grep(p, MCNode) : p \in {<<Plainly("src"), Plainly("env")>>, <<Plainly("docs"), Plainly("src")>>}}
    \cup {Exec(<<Segment({n}, w)>>, <<>>) : w \in BOOLEAN,
              n \in {Plainly(p) : p \in {"a", "env", "cfg", "t", "null", "gone"}} \cup Crooked}
    \cup {Exec(<<Segment({n}, FALSE)>>, <<Search(n, tool)>>) :
              n \in {Plainly(p) : p \in {"src", "docs", "far", "bent", "lib"}}, tool \in {"grep", "rg"}}
    \cup {ExecAt(Plainly(p), {Plainly("c")}) : p \in {"lib", "lib/up"}}
    \cup {Exec(<<Segment({Plainly("src")}, FALSE), Segment({Plainly("docs")}, TRUE)>>,
               <<Search(Plainly("src"), "rg"), Search(Plainly("docs"), "grep")>>)}
    \cup {Of([Call("Bash") EXCEPT !.unjudgeable = TRUE]), Of(Call("Bash")),
          [Exec(<<Segment({Plainly("a")}, FALSE)>>, <<>>) EXCEPT !.segments[1].sedObjection = TRUE],
          [Exec(<<Segment({Plainly("a")}, FALSE)>>, <<>>) EXCEPT !.segments[1].fed = TRUE]}

Rule(kind, matches) == [kind |-> kind, matches |-> matches]

MCAllow ==
    {{}, {Rule("read", {"a", "c", "b", "work"}), Rule("exec", {<<"grep">>}), Rule("write", {"a"})},
     {Rule("read", MCNode), Rule("exec", {<<"env", "/usr/grep">>, <<"grep">>})}}

MCDeny ==
    {{}, {Rule("read", {"env", "dep", "pack"})},
     {Rule("read", {"c"}), Rule("exec", {<<"grep">>}), Rule("write", {"a"})},
     {Rule("exec", {<<"grep", "<stdin>">>})}}

MCAsk == {{}, {Rule("read", MCNode), Rule("exec", {<<"grep">>, <<"/usr/grep">>}),
               Rule("write", {"new", "a"}), Rule("net", {"host"})}}

MCCases ==
    {[root |-> "work", op |-> o, rules |-> [allow |-> a, deny |-> d, ask |-> q], limit |-> l] :
        o \in MCOps, a \in MCAllow, d \in MCDeny, q \in MCAsk, l \in {3, 4, 20}}
    \cup {[root |-> r, op |-> Grep(<<Plainly(r)>>, MCNode), limit |-> 20,
           rules |-> [allow |-> {Rule("read", MCNode)}, deny |-> {}, ask |-> {}]] :
             r \in {"/", "usr", "home", "conf", "ssh", "gh", "inner"}}
=============================================================================
