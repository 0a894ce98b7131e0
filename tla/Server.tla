--------------------------------- MODULE Server -------------------------------
(***************************************************************************)
(* Requests to the HTTP server (server/app.ts): the lock-out of addresses  *)
(* (server/auth-guard.ts), API keys (core/keys.ts) that the command line   *)
(* revokes from a process of its own, retried commands and their stored    *)
(* answers, held wait= responses, and open streams that are asked for      *)
(* their key again.                                                        *)
(*                                                                         *)
(* Requests are given: one that repeats another is a retry or a duplicate, *)
(* and they arrive in any order.  The handlers run in one thread, the      *)
(* command line beside it.  A run is its number in `made`.                 *)
(***************************************************************************)
EXTENDS Naturals, Sequences, FiniteSets

CONSTANTS
    Requests,     \* the requests
    Addresses,    \* where they come from
    Forms,        \* what they may ask for
    Keys,         \* API keys; any other token is unknown
    Admins,       \* keys with the scope keys:admin; all have the others
    Mortal,       \* keys that expire within the day
    None,         \* no idempotency key, nothing read
    Limit,        \* AuthGuardOptions.limit
    Window,       \* AuthGuardOptions.windowMs, in ticks; a key is not fresh longer than one
    WaitsPerKey,  \* WAITS_PER_KEY
    CliKeys,      \* bound: what the command line revokes
    Restarts      \* bound: restarts of the daemon

ASSUME FormAssumption ==
    /\ IsFiniteSet(Requests) /\ None \notin Requests
    /\ Limit \in Nat \ {0} /\ Window \in Nat \ {0} /\ WaitsPerKey \in Nat \ {0}
    /\ Admins \subseteq Keys /\ CliKeys \subseteq Keys /\ Mortal \subseteq Keys
    /\ \A f \in Forms : \A r \in DOMAIN f :
        /\ r \in Requests
        /\ DOMAIN f[r] = {"kind", "token", "address", "idem", "body", "wait", "target"}
        /\ f[r].kind \in {"run", "revoke", "stream"} /\ f[r].address \in Addresses
        /\ f[r].kind = "revoke" => f[r].target \in Keys

VARIABLES
    form,       \* what each request asks for
    stage,      \* how far each request is
    answer,     \* what it was answered: a status, and the run if one
    reading,    \* the request whose handler has read its key
    copy,       \* the record it read
    key,        \* key records: revoked?, and used within the minute?
    failures,   \* AuthGuard.failures of each address, as ages
    waits,      \* wait= slots taken by each key
    made,       \* the runs
    commands,   \* the table of the same name
    cli,        \* the key record that `portrail key revoke` has read, and which
    promised,   \* history: ticks left of the Retry-After each address was given
    day,        \* 1 when a day has passed
    restarts

requestVars == <<form, stage, answer, reading, copy>>
accessVars == <<key, failures, cli, promised>>
runVars == <<waits, made, commands>>
vars == <<requestVars, accessVars, runVars, day, restarts>>

Init ==
    /\ form \in Forms
    /\ stage = [r \in Requests |-> "new"]
    /\ answer = [r \in Requests |-> [status |-> 0, run |-> 0]]
    /\ reading = None /\ copy = None
    /\ key = [k \in Keys |-> [revoked |-> FALSE, fresh |-> FALSE]]
    /\ failures = [a \in Addresses |-> <<>>]
    /\ waits = [k \in Keys |-> 0]
    /\ made = <<>> /\ commands = {}
    /\ cli = None
    /\ promised = [a \in Addresses |-> 0]
    /\ day = 0 /\ restarts = 0

-----------------------------------------------------------------------------
(* The lock-out.                                                           *)

Locked(address) == Len(failures[address]) >= Limit

\* retryAfter(): until the oldest failure is out of the window.
RetryAfter(address) == Window - Head(failures[address])

\* Slip: a refused request counts again.
FailedAlways(address) ==
    failures' = [failures EXCEPT ![address] = Append(@, 0)]

\* failed(): not counted when others have locked the address since.
Failed(address) ==
    failures' = IF Locked(address) THEN failures
                ELSE [failures EXCEPT ![address] = Append(@, 0)]

\* recent(): what is out of the window is forgotten.  The oldest are the first.
Aged(ages) ==
    LET gone == CHOOSE n \in 0..Len(ages) :
                    \A i \in 1..Len(ages) : i <= n <=> ages[i] + 1 >= Window
    IN  [i \in 1..(Len(ages) - gone) |-> ages[gone + i] + 1]

-----------------------------------------------------------------------------
(* From the first byte to the handler.                                     *)

Answers(r, status, run) ==
    /\ stage' = [stage EXCEPT ![r] = "answered"]
    /\ answer' = [answer EXCEPT ![r] = [status |-> status, run |-> run]]

\* The onRequest hook; a locked-out address is refused before anything is looked at.
Arrive(r) ==
    /\ stage[r] = "new" /\ reading = None
    /\ LET address == form[r].address
       IN  IF Locked(address)
           THEN /\ Answers(r, 429, 0)
                /\ promised' = [promised EXCEPT ![address] = RetryAfter(address)]
           ELSE /\ stage' = [stage EXCEPT ![r] = "arrived"]
                /\ UNCHANGED <<answer, promised>>
    /\ UNCHANGED <<form, reading, copy, key, failures, cli, runVars, day, restarts>>

\* keys.authenticate() finds the record by the hash of the token.
Lookup(r) ==
    /\ stage[r] = "arrived" /\ reading = None
    /\ reading' = r
    /\ copy' = IF form[r].token \in Keys THEN key[form[r].token] ELSE None
    /\ UNCHANGED <<form, stage, answer, accessVars, runVars, day, restarts>>

Expired(k) == k \in Mortal /\ day = 1

\* What the rest of authenticate() says of it.
Accepted(token) == copy # None /\ ~copy.revoked /\ ~Expired(token)

\* The touch, at most once a minute, writes back the whole record that was read.
Touched(token) ==
    IF copy.fresh THEN key ELSE [key EXCEPT ![token] = [copy EXCEPT !.fresh = TRUE]]

\* The handler is done with.
Handled(r) == reading = r /\ reading' = None /\ copy' = None

Unauthorized(r) ==
    /\ stage[r] = "arrived" /\ Handled(r)
    /\ ~Accepted(form[r].token)
    /\ Answers(r, 401, 0)
    /\ Failed(form[r].address)
    /\ UNCHANGED <<form, key, cli, promised, runVars, day, restarts>>

-----------------------------------------------------------------------------
(* POST /runs.                                                             *)

Command(r) == [token |-> form[r].token, idem |-> form[r].idem]

\* Slip: the stored answer is looked for by its key alone, whoever sent it.
StoredByAnyone(r) == {c \in commands : form[r].idem # None /\ c.command.idem = form[r].idem}

Stored(r) == {c \in commands : form[r].idem # None /\ c.command = Command(r)}

NewRun(r) == [command |-> Command(r), body |-> form[r].body, day |-> day, state |-> "active"]

\* A response that names a run: at once, or when the run is over.
Responds(r, run) ==
    IF form[r].wait
    THEN /\ stage' = [stage EXCEPT ![r] = "held"]
         /\ answer' = [answer EXCEPT ![r].run = run]
         /\ waits' = [waits EXCEPT ![form[r].token] = @ + 1]
    ELSE Answers(r, 202, run) /\ UNCHANGED waits

SlotFree(r) == form[r].wait => waits[form[r].token] < WaitsPerKey

Recall(r) ==
    \E c \in Stored(r) :
        /\ UNCHANGED <<made, commands>>
        /\ IF c.body # form[r].body THEN Answers(r, 409, 0) /\ UNCHANGED waits
           ELSE IF made[c.run].state = "removed" THEN Answers(r, 404, 0) /\ UNCHANGED waits
           ELSE Responds(r, c.run)

\* createRun() and the record of it in one transaction.
Create(r) ==
    /\ Stored(r) = {}
    /\ LET run == Len(made) + 1
       IN  /\ made' = Append(made, NewRun(r))
           /\ commands' = IF form[r].idem = None THEN commands
                          ELSE commands \cup {[command |-> Command(r), body |-> form[r].body,
                                               run |-> run, day |-> day]}
           /\ Responds(r, run)

\* Busy, full, malformed, or a failed disk: the transaction leaves nothing.
Refuse(r) ==
    /\ Stored(r) = {}
    /\ Answers(r, 400, 0)
    /\ UNCHANGED <<waits, made, commands>>

PostRun(r) ==
    /\ Handled(r) /\ form[r].kind = "run" /\ Accepted(form[r].token)
    /\ key' = Touched(form[r].token)
    /\ IF SlotFree(r) THEN Recall(r) \/ Create(r) \/ Refuse(r)
       ELSE Answers(r, 429, 0) /\ UNCHANGED <<waits, made, commands>>
    /\ UNCHANGED <<form, failures, cli, promised, day, restarts>>

-----------------------------------------------------------------------------
(* A held response has two ends, its own and the connection's.             *)

Freed(k) == waits' = [waits EXCEPT ![k] = IF @ = 0 THEN 0 ELSE @ - 1]

\* waitForRun() resolved: the run is over or the caller's patience is.  If the run is gone
\* by then nothing is sent, and the connection times out.
WaitEnds(r) ==
    /\ stage[r] = "held" /\ reading = None
    /\ Freed(form[r].token)
    /\ stage' = [stage EXCEPT ![r] = "closing"]
    /\ answer' = IF made[answer[r].run].state = "removed" THEN answer
                 ELSE [answer EXCEPT ![r].status = 200]
    /\ UNCHANGED <<form, reading, copy, accessVars, made, commands, day, restarts>>

\* The caller leaves: "close" frees the slot, and the wait is aborted after it.
CallerLeaves(r) ==
    /\ stage[r] = "held" /\ reading = None
    /\ Freed(form[r].token)
    /\ stage' = [stage EXCEPT ![r] = "left"]
    /\ UNCHANGED <<form, answer, reading, copy, accessVars, made, commands, day, restarts>>

\* Slip: both ends free the slot.
SecondEndAgain(r) ==
    /\ stage[r] \in {"closing", "left"} /\ reading = None
    /\ Freed(form[r].token)
    /\ stage' = [stage EXCEPT ![r] = "answered"]
    /\ UNCHANGED <<form, answer, reading, copy, accessVars, made, commands, day, restarts>>

\* The other end finds the slot released.
SecondEnd(r) ==
    /\ stage[r] \in {"closing", "left"} /\ reading = None
    /\ stage' = [stage EXCEPT ![r] = "answered"]
    /\ UNCHANGED <<form, answer, reading, copy, accessVars, runVars, day, restarts>>

-----------------------------------------------------------------------------
(* DELETE /keys/:keyId, and streams.                                       *)

RevokeKey(r) ==
    /\ Handled(r) /\ form[r].kind = "revoke" /\ Accepted(form[r].token)
    /\ LET touched == Touched(form[r].token)
       IN  IF form[r].token \notin Admins
           THEN Answers(r, 403, 0) /\ key' = touched
           ELSE IF form[r].token = form[r].target
           THEN Answers(r, 409, 0) /\ key' = touched
           ELSE Answers(r, 200, 0) /\ key' = [touched EXCEPT ![form[r].target].revoked = TRUE]
    /\ UNCHANGED <<form, failures, cli, promised, runVars, day, restarts>>

OpenStream(r) ==
    /\ stage[r] = "arrived" /\ Handled(r) /\ form[r].kind = "stream" /\ Accepted(form[r].token)
    /\ key' = Touched(form[r].token)
    /\ stage' = [stage EXCEPT ![r] = "streaming"]
    /\ UNCHANGED <<form, answer, failures, cli, promised, runVars, day, restarts>>

\* The heartbeat authenticates again; its failures are not counted.
HeartbeatReads(r) ==
    /\ stage[r] = "streaming" /\ reading = None
    /\ reading' = r /\ copy' = key[form[r].token]
    /\ UNCHANGED <<form, stage, answer, accessVars, runVars, day, restarts>>

\* Slip: a heartbeat that is refused does not end the stream.
HeartbeatTrusting(r) ==
    /\ stage[r] = "streaming" /\ Handled(r)
    /\ key' = IF Accepted(form[r].token) THEN Touched(form[r].token) ELSE key
    /\ UNCHANGED <<form, stage, answer, failures, cli, promised, runVars, day, restarts>>

Heartbeat(r) ==
    /\ stage[r] = "streaming" /\ Handled(r)
    /\ IF Accepted(form[r].token)
       THEN key' = Touched(form[r].token) /\ UNCHANGED <<stage, answer>>
       ELSE Answers(r, 200, 0) /\ UNCHANGED key
    /\ UNCHANGED <<form, failures, cli, promised, runVars, day, restarts>>

-----------------------------------------------------------------------------
(* The command line, the other work of the daemon, and time.               *)

CliReads(k) ==
    /\ cli = None /\ ~key[k].revoked
    /\ cli' = [id |-> k, record |-> key[k]]
    /\ UNCHANGED <<requestVars, key, failures, promised, runVars, day, restarts>>

CliRevokes ==
    /\ cli # None
    /\ key' = [key EXCEPT ![cli.id] = [cli.record EXCEPT !.revoked = TRUE]]
    /\ cli' = None
    /\ UNCHANGED <<requestVars, failures, promised, runVars, day, restarts>>

RunEnds(run) ==
    /\ reading = None
    /\ made[run].state = "active"
    /\ made' = [made EXCEPT ![run].state = "over"]
    /\ UNCHANGED <<requestVars, accessVars, waits, commands, day, restarts>>

\* Slip: the records of commands go with the runs.
RetentionTakesAll ==
    /\ reading = None
    /\ made' = [run \in DOMAIN made |->
                    IF made[run].state = "over" THEN [made[run] EXCEPT !.state = "removed"]
                    ELSE made[run]]
    /\ commands' = {c \in commands : made'[c.run].state # "removed"}
    /\ UNCHANGED <<requestVars, accessVars, waits, day, restarts>>

\* retention(): runs that are over, and commands once they are a day old.
Retention ==
    /\ reading = None
    /\ made' = [run \in DOMAIN made |->
                    IF made[run].state = "over" THEN [made[run] EXCEPT !.state = "removed"]
                    ELSE made[run]]
    /\ commands' = {c \in commands : c.day = day}
    /\ UNCHANGED <<requestVars, accessVars, waits, day, restarts>>

Tick ==
    /\ failures' = [a \in Addresses |-> Aged(failures[a])]
    /\ key' = [k \in Keys |-> [key[k] EXCEPT !.fresh = FALSE]]
    /\ promised' = [a \in Addresses |-> IF promised[a] = 0 THEN 0 ELSE promised[a] - 1]
    /\ UNCHANGED <<requestVars, cli, runVars, day, restarts>>

DayPasses ==
    /\ day = 0
    /\ day' = 1
    /\ failures' = [a \in Addresses |-> <<>>]
    /\ key' = [k \in Keys |-> [key[k] EXCEPT !.fresh = FALSE]]
    /\ promised' = [a \in Addresses |-> 0]
    /\ UNCHANGED <<requestVars, cli, runVars, restarts>>

\* What the daemon held in memory is gone; runs in flight are over.
Restart ==
    /\ restarts < Restarts
    /\ restarts' = restarts + 1
    /\ stage' = [r \in Requests |-> IF stage[r] = "new" THEN "new" ELSE "answered"]
    /\ reading' = None /\ copy' = None
    /\ waits' = [k \in Keys |-> 0]
    /\ made' = [run \in DOMAIN made |->
                    IF made[run].state = "active" THEN [made[run] EXCEPT !.state = "over"]
                    ELSE made[run]]
    /\ failures' = [a \in Addresses |-> <<>>]
    /\ promised' = [a \in Addresses |-> 0]
    /\ UNCHANGED <<form, answer, key, commands, cli, day>>

-----------------------------------------------------------------------------
Request(r) ==
    \/ Arrive(r) \/ Lookup(r) \/ Unauthorized(r)
    \/ PostRun(r) \/ WaitEnds(r) \/ CallerLeaves(r) \/ SecondEnd(r)
    \/ RevokeKey(r) \/ OpenStream(r) \/ HeartbeatReads(r) \/ Heartbeat(r)

Next ==
    \/ \E r \in DOMAIN form : Request(r)
    \/ \E k \in CliKeys : CliReads(k)
    \/ \E run \in DOMAIN made : RunEnds(run)
    \/ CliRevokes \/ Retention \/ Tick \/ DayPasses \/ Restart

\* Handlers end, a heartbeat comes every 15 seconds, the command line is not stopped.
Fairness ==
    /\ WF_vars(\E r \in Requests : Unauthorized(r) \/ PostRun(r) \/ RevokeKey(r) \/ OpenStream(r)
                                        \/ Heartbeat(r))
    /\ \A r \in Requests : SF_vars(HeartbeatReads(r))
    /\ WF_vars(CliRevokes)

Spec == Init /\ [][Next]_vars

FairSpec == Spec /\ Fairness

-----------------------------------------------------------------------------
(* Properties.                                                             *)

TypeOK ==
    /\ stage \in [Requests -> {"new", "arrived", "held", "closing", "left", "streaming", "answered"}]
    /\ answer \in [Requests -> [status : {0, 200, 202, 400, 401, 403, 404, 409, 429},
                                run : 0..Cardinality(Requests)]]
    /\ reading \in Requests \cup {None} /\ (copy # None => reading # None)
    /\ key \in [Keys -> [revoked : BOOLEAN, fresh : BOOLEAN]]
    /\ \A a \in Addresses :
        \A i \in DOMAIN failures[a] : failures[a][i] \in 0..(Window - 1)
    /\ waits \in [Keys -> 0..WaitsPerKey]
    /\ \A c \in commands : c.run \in DOMAIN made

\* A retried command does not start a second run within the day its record is kept,
\* whatever became of the first (app.ts:227, gateway.ts:1005).
OneRunPerCommand ==
    \A i, j \in DOMAIN made :
        /\ i # j /\ made[i].command = made[j].command
        /\ made[i].command.idem # None
        => made[i].day # made[j].day

\* A caller is only told of a run that the same key asked for with the same body: a
\* stored answer is never another's, nor that of a changed request (app.ts:248-264).
AnswersOwn ==
    \A r \in DOMAIN form :
        LET run == answer[r].run
        IN  run # 0 =>
                made[run].command = Command(r) /\ made[run].body = form[r].body

\* Retries are safe: a command starts one run, and its answer is that one.
Idempotent == OneRunPerCommand /\ AnswersOwn

\* A key's count of wait= slots is the number of responses held for it: neither end of
\* a response, nor both, frees more or less than was taken (app.ts:382-410).
SlotsExact ==
    \A k \in Keys :
        waits[k] = Cardinality({r \in DOMAIN form : form[r].token = k /\ stage[r] = "held"})

\* Retry-After is kept: when it has passed the address is not locked, however many
\* requests it sent in between (auth-guard.ts:44, 51).
RetryAfterSuffices ==
    [][\A a \in Addresses : promised[a] > 0 /\ promised'[a] = 0 => ~Locked(a)']_vars

\* The stream of a key that was revoked and stays so is ended by its heartbeat
\* (app.ts:607).
StreamsEnd ==
    []<>(\A r \in DOMAIN form : stage[r] = "streaming" => ~key[form[r].token].revoked)

\* docs/security.md:68: revocation takes effect on the next request; a key once revoked
\* is never a good one again.
RevokedForGood == [][\A k \in Keys : key[k].revoked => key'[k].revoked]_vars

===============================================================================
