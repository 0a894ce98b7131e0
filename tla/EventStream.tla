------------------------------ MODULE EventStream ------------------------------
(***************************************************************************)
(* How the events of one session reach its readers: the events route of    *)
(* server/app.ts, the allowance of server/event-pacer.ts, the log of       *)
(* store/index.ts and the resuming reader of client/index.ts.              *)
(*                                                                         *)
(* An event is a position in the log, its seq.  pump() does not give up    *)
(* the process; its attempts are steps here, and nothing else of the       *)
(* daemon moves until it is done.  Readers are other processes.            *)
(***************************************************************************)
EXTENDS Integers, Sequences, FiniteSets

CONSTANTS
    NumRuns,         \* bound: the runs of the session, one after the other
    MaxEvents,       \* bound: the events they produce
    Readers,         \* bound: the programs that follow a run
    Follows,         \* the run each of them follows
    Wide,            \* those that ask for all=true
    Streams,         \* bound: the responses open at one time
    StreamsPerKey,   \* STREAMS_PER_KEY
    Limit,           \* deliveries in one window, 100
    Window,          \* ticks in one window, 1000 ms
    Page,            \* events fetched at a time, 100
    MayResume,       \* may a reader be given an `after`?
    MaxFaults,       \* bound: lost connections and restarts
    None             \* no reader, no stream

Runs == 1..NumRuns

ASSUME StreamAssumption ==
    /\ NumRuns \in Nat /\ MaxEvents \in Nat /\ MaxFaults \in Nat
    /\ Follows \in [Readers -> Runs]
    /\ Wide \subseteq Readers
    /\ IsFiniteSet(Streams)
    /\ StreamsPerKey \in Nat /\ Limit \in Nat \ {0}
    /\ Window \in Nat \ {0} /\ Page \in Nat \ {0}
    /\ MayResume \in BOOLEAN
    /\ None \notin Readers \cup Streams

VARIABLES
    log,       \* the events of the session: the run of each, and is it its run.completed
    removed,   \* did retention remove the session?
    \* one response of the events route
    phase,     \* "free", "open", or "ended" by the server and not yet closed
    owner,     \* the reader it was opened for
    cursor,    \* seq, the last event consumed
    fetched,   \* the last event of the page in `buffered`
    held,      \* streams.get(keyId)
    \* the pacer's window
    sinks,     \* the subscribed streams in the order they came
    turn,      \* window.cursor
    sent,      \* window.sent, as ages
    timer,     \* is window.timer set?
    woken,     \* is a wake() queued behind a commit?
    trying,    \* attempts left in this round of pump(), 0 when it does not run
    \* the readers
    status,    \* "new", "pausing" before a request, "reading", and how it ended
    via,       \* the stream it reads
    wire,      \* what it has not read of that stream yet
    eof,       \* does that end with the end of the stream?
    after, saw,  \* of client/index.ts: the last event seen, sawTerminal
    start, got,  \* history: the `after` it was given, the events it was given
    recent,    \* history: ages of all deliveries of the last window
    served,    \* history: who got the last event, until a stream comes or goes
    faults

session == <<log, removed>>
streams == <<phase, owner, cursor, fetched, held>>
window == <<sinks, turn, sent, timer, trying>>
reader == <<status, via, wire, eof, after, saw, start, got>>
history == <<recent, served>>
vars == <<session, streams, window, woken, reader, history, faults>>

Idle == trying = 0 /\ ~woken

-----------------------------------------------------------------------------
(* The log.                                                                *)

Seqs == 1..Len(log)
Completed(r) == {k \in Seqs : log[k].run = r /\ log[k].last}
Begun == {r \in Runs : \E k \in Seqs : log[k].run = r}
Active == {r \in Begun : Completed(r) = {}}

\* The events a stream or a reader of c is about.
Mine(c) == {k \in Seqs : c \in Wide \/ log[k].run = Follows[c]}

\* finished() of the route: over, or no record any more.
Finished(c) == removed \/ Completed(Follows[c]) # {}

\* The first event of a set, and the end of the page that holds event k when the pages
\* before it ended at f.
First(S) == CHOOSE k \in S : \A j \in S : k <= j
PageEnd(f, k) ==
    LET ends == {f} \cup {f + n * Page : n \in 1..Len(log)} \cup {Len(log)}
    IN  First({e \in ends : e >= k /\ e <= Len(log)})

-----------------------------------------------------------------------------
(* The pacer.                                                              *)

\* The oldest are the first, and go as long as they are out of the window.
Young(ages) ==
    LET gone == CHOOSE n \in 0..Len(ages) :
                    /\ \A k \in 1..n : ages[k] >= Window
                    /\ n < Len(ages) => ages[n + 1] < Window
    IN  [n \in 1..(Len(ages) - gone) |-> ages[gone + n]]

\* Slips: the window goes with its last stream; the timer that was set is cleared and
\* not set again; an attempt for each delivery allowed.
StartPumpForgetful(open) ==
    LET live == IF open = <<>> THEN <<>> ELSE Young(sent) IN
    /\ sinks' = open /\ sent' = live
    /\ trying' = IF Len(live) < Limit THEN Len(open) ELSE 0
    /\ timer' = (Len(live) >= Limit)
    /\ turn' = IF open = <<>> THEN 0 ELSE turn
StartPumpTimerless(open) ==
    LET live == Young(sent) IN
    /\ sinks' = open /\ sent' = live
    /\ trying' = IF Len(live) < Limit THEN Len(open) ELSE 0
    /\ timer' = (open = <<>> /\ live # <<>>)
    /\ turn' = IF open = <<>> /\ live = <<>> THEN 0 ELSE turn

\* pump() up to its first attempt, and all of it if there is none: the timer waits for
\* allowance, or for the end of a window nobody uses.
StartPump(open) ==
    LET live == Young(sent) IN
    /\ sinks' = open
    /\ sent' = live
    /\ trying' = IF Len(live) < Limit THEN Len(open) ELSE 0
    /\ timer' = (Len(live) >= Limit \/ (open = <<>> /\ live # <<>>))
    /\ turn' = IF open = <<>> /\ live = <<>> THEN 0 ELSE turn

\* Slip: every round begins with the first stream.
CurrentFirst == sinks[Len(sinks) - trying + 1]

\* The stream whose turn it is.
Current == sinks[(turn % Len(sinks)) + 1]

NextTurn == turn' = (turn + 1) % Len(sinks)

\* What stream i can still read of its log, and what of that is its own.
Readable(i) == IF removed THEN fetched[i] ELSE Len(log)
Ahead(i) == {k \in Mine(owner[i]) : cursor[i] < k /\ k <= Readable(i)}

\* Its own run.completed ends a stream.
LastFor(i, k) == owner[i] \notin Wide /\ log[k].last

EndStream(i) ==
    /\ phase' = [phase EXCEPT ![i] = "ended"]
    /\ eof' = IF via[owner[i]] = i THEN [eof EXCEPT ![owner[i]] = TRUE] ELSE eof

\* The sink writes the next event of its own, skipping others.  A response with more
\* than a megabyte unsent is ended too.
Deliver(i) ==
    LET k == First(Ahead(i)) IN
    /\ phase[i] = "open"
    /\ Ahead(i) # {}
    /\ cursor' = [cursor EXCEPT ![i] = k]
    /\ fetched' = [fetched EXCEPT ![i] = IF k <= @ THEN @ ELSE PageEnd(@, k)]
    /\ wire' = IF via[owner[i]] = i THEN [wire EXCEPT ![owner[i]] = Append(@, k)] ELSE wire
    /\ \/ EndStream(i)
       \/ ~LastFor(i, k) /\ UNCHANGED <<phase, eof>>
    /\ NextTurn
    /\ sent' = Append(sent, 0)
    /\ trying' = IF Len(sent') < Limit THEN Len(sinks) ELSE 0
    /\ timer' = (Len(sent') >= Limit)
    /\ recent' = Append(recent, 0)
    /\ served' = i
    /\ UNCHANGED <<session, owner, held, sinks, woken, status, via, after, saw, start, got,
                   faults>>

\* The sink has nothing to write; if its run is over, nothing will ever come.
Skip(i) ==
    /\ phase[i] = "open" => Ahead(i) = {}
    /\ NextTurn
    /\ trying' = trying - 1
    /\ IF phase[i] = "open"
       THEN /\ cursor' = [cursor EXCEPT ![i] = Readable(i)]
            /\ fetched' = [fetched EXCEPT ![i] = Readable(i)]
            /\ IF owner[i] \notin Wide /\ Finished(owner[i])
               THEN EndStream(i)
               ELSE UNCHANGED <<phase, eof>>
       ELSE UNCHANGED <<cursor, fetched, phase, eof>>
    /\ UNCHANGED <<session, owner, held, sinks, sent, timer, woken, status, via, wire, after,
                   saw, start, got, history, faults>>

Attempt == trying > 0 /\ (Deliver(Current) \/ Skip(Current))

\* The wake() that follows a commit.
Wake ==
    /\ woken /\ trying = 0
    /\ woken' = FALSE
    /\ StartPump(sinks)
    /\ UNCHANGED <<session, streams, reader, history, faults>>

TimerFires ==
    /\ Idle
    /\ timer /\ Head(sent) >= Window
    /\ StartPump(sinks)
    /\ UNCHANGED <<session, streams, woken, reader, history, faults>>

\* Time passes; ages past the window are all the same.
Tick ==
    /\ Idle
    /\ sent' = [n \in DOMAIN sent |-> IF sent[n] < Window THEN sent[n] + 1 ELSE Window]
    /\ recent' = Young([n \in DOMAIN recent |-> recent[n] + 1])
    /\ UNCHANGED <<session, streams, sinks, turn, timer, trying, woken, reader, served, faults>>

-----------------------------------------------------------------------------
(* The engine: what it appends to the log, and when retention removes it.  *)

\* One commit may append several events before the streams hear of it.
AppendEvent(r, last) ==
    /\ trying = 0 /\ ~removed
    /\ Len(log) < MaxEvents
    /\ log' = Append(log, [run |-> r, last |-> last])
    /\ woken' = (sinks # <<>>)
    /\ UNCHANGED <<removed, streams, window, reader, history, faults>>

\* A run of the session works while no other does.
Emit(r) ==
    /\ Active \subseteq {r}
    /\ Completed(r) = {}
    /\ \A q \in 1..(r - 1) : q \in Begun
    /\ AppendEvent(r, FALSE)

Complete(r) == r \in Active /\ AppendEvent(r, TRUE)

\* operation.decided of a run that is over.
LateDecision(r) == Completed(r) # {} /\ AppendEvent(r, FALSE)

\* retention() removes a session without active runs, and all of its log.
RemoveEvents ==
    /\ Idle /\ ~removed
    /\ Active = {}
    /\ removed' = TRUE
    /\ UNCHANGED <<log, streams, window, woken, reader, history, faults>>

-----------------------------------------------------------------------------
(* The route.                                                              *)

Refuse(c, answer) ==
    /\ status' = [status EXCEPT ![c] = answer]
    /\ UNCHANGED <<session, streams, window, woken, via, wire, eof, after, saw, start, got,
                   history, faults>>

\* A request for a run that is gone, or one stream too many.
Refused(c) ==
    /\ Idle
    /\ status[c] = "pausing"
    /\ \/ removed /\ Refuse(c, "not_found")
       \/ ~removed /\ held >= StreamsPerKey /\ Refuse(c, "too_many")

\* The checks pass: the cursor is never ahead of the log, nor behind what is retained.
Open(c, i) ==
    /\ Idle
    /\ status[c] = "pausing" /\ phase[i] = "free"
    /\ ~removed /\ held < StreamsPerKey
    /\ held' = held + 1
    /\ phase' = [phase EXCEPT ![i] = "open"]
    /\ owner' = [owner EXCEPT ![i] = c]
    /\ cursor' = [cursor EXCEPT ![i] = after[c]]
    /\ fetched' = [fetched EXCEPT ![i] = after[c]]
    /\ status' = [status EXCEPT ![c] = "reading"]
    /\ via' = [via EXCEPT ![c] = i]
    /\ wire' = [wire EXCEPT ![c] = <<>>]
    /\ eof' = [eof EXCEPT ![c] = FALSE]
    /\ saw' = [saw EXCEPT ![c] = FALSE]
    /\ StartPump(Append(sinks, i))
    /\ served' = None
    /\ UNCHANGED <<session, woken, after, start, got, recent, faults>>

\* Slip: the slot of a stream the server ended itself is not given back.
FreeSlotOfOpen(i) == held' = IF phase[i] = "open" THEN held - 1 ELSE held

\* The pacer's set of sinks without one of them.
Without(i) ==
    LET at == CHOOSE n \in DOMAIN sinks : sinks[n] = i
    IN  [n \in 1..(Len(sinks) - 1) |-> sinks[IF n < at THEN n ELSE n + 1]]

FreeSlot(i) == held' = IF held > 0 THEN held - 1 ELSE 0

\* The "close" event of a response that ended, or whose reader went away.
Close(i) ==
    LET c == owner[i] IN
    /\ Idle
    /\ phase[i] = "ended" \/ (phase[i] = "open" /\ via[c] # i)
    /\ phase' = [phase EXCEPT ![i] = "free"]
    /\ owner' = [owner EXCEPT ![i] = None]
    /\ via' = IF via[c] = i THEN [via EXCEPT ![c] = None] ELSE via
    /\ FreeSlot(i)
    /\ StartPump(Without(i))
    /\ served' = None
    /\ UNCHANGED <<session, cursor, fetched, woken, status, wire, eof, after, saw, start,
                   got, recent, faults>>

-----------------------------------------------------------------------------
(* The reader.                                                             *)

Begin(c, k) ==
    /\ status[c] = "new"
    /\ Follows[c] \in Begun
    /\ k \in 0..Len(log) /\ (MayResume \/ k = 0)
    /\ status' = [status EXCEPT ![c] = "pausing"]
    /\ start' = [start EXCEPT ![c] = k]
    /\ after' = [after EXCEPT ![c] = k]
    /\ UNCHANGED <<session, streams, window, woken, via, wire, eof, saw, got, history, faults>>

\* Slip: the reader goes on from the number of events it has had.
SeenByCount(c, k) == after[c] + 1

\* What the reader remembers of event k.
Seen(c, k) == k

\* Events at or behind `after` are dropped.
Read(c) ==
    LET k == Head(wire[c]) IN
    /\ status[c] = "reading" /\ wire[c] # <<>>
    /\ wire' = [wire EXCEPT ![c] = Tail(@)]
    /\ IF k > after[c]
       THEN /\ after' = [after EXCEPT ![c] = Seen(c, k)]
            /\ got' = [got EXCEPT ![c] = @ \cup {k}]
            /\ saw' = [saw EXCEPT ![c] = @ \/ log[k].last]
       ELSE UNCHANGED <<after, got, saw>>
    /\ UNCHANGED <<session, streams, window, woken, status, via, eof, start, history, faults>>

\* The reader is done if it saw a run.completed on this stream; otherwise it asks again.
Leave(c) ==
    /\ status' = [status EXCEPT ![c] = IF saw[c] THEN "returned" ELSE "pausing"]
    /\ via' = [via EXCEPT ![c] = None]
    /\ wire' = [wire EXCEPT ![c] = <<>>]
    /\ eof' = [eof EXCEPT ![c] = FALSE]
    /\ UNCHANGED <<after, saw, start, got>>

EndOfStream(c) ==
    /\ status[c] = "reading" /\ wire[c] = <<>> /\ eof[c]
    /\ Leave(c)
    /\ UNCHANGED <<session, streams, window, woken, history, faults>>

\* The connection is lost, with what was on its way; the daemon hears of it later.
Drop(c) ==
    /\ faults < MaxFaults
    /\ status[c] = "reading"
    /\ faults' = faults + 1
    /\ Leave(c)
    /\ UNCHANGED <<session, streams, window, woken, history>>

\* The daemon is replaced by another: its streams and its pacer are gone.
Restart ==
    LET cut == {c \in Readers : status[c] = "reading"} IN
    /\ Idle /\ faults < MaxFaults
    /\ faults' = faults + 1
    /\ phase' = [i \in Streams |-> "free"]
    /\ owner' = [i \in Streams |-> None]
    /\ held' = 0
    /\ sinks' = <<>> /\ turn' = 0 /\ sent' = <<>> /\ timer' = FALSE
    /\ recent' = <<>> /\ served' = None
    /\ status' = [c \in Readers |-> IF c \notin cut THEN status[c]
                                    ELSE IF saw[c] THEN "returned" ELSE "pausing"]
    /\ via' = [c \in Readers |-> None]
    /\ wire' = [c \in Readers |-> <<>>]
    /\ eof' = [c \in Readers |-> FALSE]
    /\ UNCHANGED <<session, cursor, fetched, trying, woken, after, saw, start, got>>

-----------------------------------------------------------------------------
Init ==
    /\ log = <<>> /\ removed = FALSE
    /\ phase = [i \in Streams |-> "free"]
    /\ owner = [i \in Streams |-> None]
    /\ cursor = [i \in Streams |-> 0] /\ fetched = [i \in Streams |-> 0]
    /\ held = 0
    /\ sinks = <<>> /\ turn = 0 /\ sent = <<>> /\ timer = FALSE
    /\ woken = FALSE /\ trying = 0
    /\ status = [c \in Readers |-> "new"]
    /\ via = [c \in Readers |-> None]
    /\ wire = [c \in Readers |-> <<>>]
    /\ eof = [c \in Readers |-> FALSE]
    /\ after = [c \in Readers |-> 0] /\ start = [c \in Readers |-> 0]
    /\ saw = [c \in Readers |-> FALSE]
    /\ got = [c \in Readers |-> {}]
    /\ recent = <<>> /\ served = None /\ faults = 0

Engine ==
    \/ \E r \in Runs : Emit(r)
    \/ \E r \in Runs : Complete(r)
    \/ \E r \in Runs : LateDecision(r)
    \/ RemoveEvents

Server ==
    \/ Attempt \/ Wake \/ TimerFires \/ Tick
    \/ \E c \in Readers : Refused(c)
    \/ \E c \in Readers, i \in Streams : Open(c, i)
    \/ \E i \in Streams : Close(i)
    \/ Restart

Reading ==
    \/ \E c \in Readers, k \in 0..MaxEvents : Begin(c, k)
    \/ \E c \in Readers : Read(c)
    \/ \E c \in Readers : EndOfStream(c)
    \/ \E c \in Readers : Drop(c)

Next == Engine \/ Server \/ Reading

Spec == Init /\ [][Next]_vars

\* The daemon runs and its clock does, a reader reads what it is sent and asks again
\* after its pause, and a response that ended is closed.  Nothing is assumed of runs.
FairSpec ==
    /\ Spec
    /\ WF_vars(Attempt) /\ WF_vars(Wake) /\ WF_vars(TimerFires) /\ WF_vars(Tick)
    /\ \A c \in Readers : /\ WF_vars(Refused(c) \/ \E i \in Streams : Open(c, i))
                          /\ WF_vars(Read(c))
                          /\ WF_vars(EndOfStream(c))
    /\ \A i \in Streams : WF_vars(Close(i))

-----------------------------------------------------------------------------
TypeOK ==
    /\ log \in Seq([run : Runs, last : BOOLEAN]) /\ removed \in BOOLEAN
    /\ phase \in [Streams -> {"free", "open", "ended"}]
    /\ owner \in [Streams -> Readers \cup {None}]
    /\ cursor \in [Streams -> Nat] /\ fetched \in [Streams -> Nat]
    /\ held \in Nat
    /\ sinks \in Seq(Streams) /\ turn \in Nat /\ trying \in 0..Len(sinks)
    /\ sent \in Seq(0..Window) /\ recent \in Seq(0..Window)
    /\ timer \in BOOLEAN /\ woken \in BOOLEAN
    /\ status \in [Readers -> {"new", "pausing", "reading", "returned", "not_found", "too_many"}]
    /\ via \in [Readers -> Streams \cup {None}]
    /\ wire \in [Readers -> Seq(Nat)]
    /\ eof \in [Readers -> BOOLEAN] /\ saw \in [Readers -> BOOLEAN]
    /\ after \in [Readers -> Nat] /\ start \in [Readers -> Nat]
    /\ got \in [Readers -> SUBSET Nat]
    /\ served \in Streams \cup {None} /\ faults \in 0..MaxFaults

\* A reader misses nothing: between the `after` it was given and the last event it
\* has seen it got every event of its own, whatever was lost and resumed in between.
NothingMissed ==
    \A c \in Readers : got[c] = {k \in Mine(c) : start[c] < k /\ k <= after[c]}

\* No wakeup is lost: when the daemon rests, a stream has events to send only if the
\* allowance is used up and the timer is set that wakes it.
NothingStalls ==
    Idle => \A i \in Streams :
        phase[i] = "open" /\ Ahead(i) # {} => timer /\ Len(sent) >= Limit

\* The allowance of the session holds in every window, however streams come and go.
Allowance == Len(recent) <= Limit

\* A stream is neither faster than its session may be nor slower than it must be.
Paced == Allowance /\ NothingStalls

\* A key never has more streams than it may, and none of its slots is lost.
SlotsCounted ==
    /\ held = Cardinality({i \in Streams : phase[i] # "free"})
    /\ held <= StreamsPerKey

\* Streams take turns: none gets two events in a row while another has one to send.
TakeTurns ==
    [][\A i, j \in Streams :
         served = i /\ served' = i /\ Len(sent') > Len(sent)
         /\ i # j /\ phase[j] = "open" => Ahead(j) = {}]_vars

\* The run of c is over, and what c was given to begin with lies before its end.
EndIsAhead(c) ==
    /\ Completed(Follows[c]) # {}
    /\ \A k \in Completed(Follows[c]) : start[c] < k

\* A reader of a run, connected or not when it ends, is told of the end and returns, unless
\* it is refused; and no response stays open that has no more to tell, not even that of a
\* reader who began at the end or behind it.
ReaderReturns ==
    \A c \in Readers \ Wide :
        /\ status[c] \in {"pausing", "reading"} /\ EndIsAhead(c)
              ~> status[c] \in {"returned", "not_found", "too_many"}
        /\ status[c] = "reading" /\ Completed(Follows[c]) # {} ~> status[c] # "reading"

=============================================================================
