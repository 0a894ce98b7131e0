--------------------------------- MODULE Store --------------------------------
(***************************************************************************)
(* Transactions of store/index.ts as the gateway uses them: savepoints in  *)
(* a transaction, events written in them, and callbacks that must wait for *)
(* the outermost commit.  One connection of one process; the log is that   *)
(* of one session, so an event's seq is its place in it.                   *)
(***************************************************************************)
EXTENDS Naturals, Sequences, SequencesExt

CONSTANTS
    Depth,       \* bound: transactions in transactions
    MaxTx,       \* bound: calls of tx() that hold something else than one event
    MaxLives     \* bound: starts of the process

VARIABLES
    disk,      \* the events in the file
    view,      \* the events this connection reads
    frames,    \* Store.transactions, with what each savepoint goes back to
    raised,    \* the error on its way up, if any
    queue,     \* microtasks
    base,      \* history: events in the file when the process started
    told,      \* history: events emitted to listeners since then
    issued,    \* events written so far, those rolled back included
    entered,   \* calls of tx() so far
    lives      \* starts of the process so far

storeVars == <<disk, view, frames, raised, queue, base, told, issued, entered, lives>>

\* "own": thrown by the caller.  "disk": a statement failed.  "undone": it failed and
\* SQLite has rolled the whole transaction back by itself.
Errors == {"own", "disk", "undone"}

StoreInit ==
    /\ disk = <<>> /\ view = <<>>
    /\ frames = <<>> /\ raised = "no" /\ queue = <<>>
    /\ base = 0 /\ told = <<>>
    /\ issued = 0 /\ entered = 0 /\ lives = 1

InTx == frames # <<>>

\* event(): a transaction of its own, which counts with the one it is in.
WriteEvent(event) ==
    /\ view' = Append(view, event)
    /\ disk' = IF InTx THEN disk ELSE view'

\* afterCommit(): with the innermost transaction, or a microtask at once.
AfterCommit(callback) ==
    IF InTx
    THEN /\ frames' = [frames EXCEPT ![Len(frames)].callbacks = Append(@, callback)]
         /\ UNCHANGED queue
    ELSE queue' = Append(queue, callback) /\ UNCHANGED frames

\* emitEvent() of the gateway.
Emit(type, body) ==
    /\ raised = "no"
    /\ issued' = issued + 1
    /\ LET event == [type |-> type, body |-> body, stamp |-> issued']
       IN  WriteEvent(event) /\ AfterCommit(event)
    /\ UNCHANGED <<raised, base, told, entered, lives>>

\* tx(): BEGIN, or SAVEPOINT inside another.
Enter ==
    /\ raised = "no"
    /\ Len(frames) < Depth /\ entered < MaxTx
    /\ entered' = entered + 1
    /\ frames' = Append(frames, [saved |-> view, callbacks |-> <<>>])
    /\ UNCHANGED <<disk, view, raised, queue, base, told, issued, lives>>

\* Slip: every commit lets its callbacks go.
LeaveEagerly ==
    /\ InTx /\ raised = "no"
    /\ frames' = Front(frames)
    /\ queue' = queue \o Last(frames).callbacks
    /\ disk' = IF Len(frames) = 1 THEN view ELSE disk
    /\ UNCHANGED <<view, raised, base, told, issued, entered, lives>>

\* COMMIT or RELEASE, and the callbacks to the parent or the microtask queue.
Leave ==
    /\ InTx /\ raised = "no"
    /\ LET done == Last(frames).callbacks
           outer == Front(frames)
       IN  IF outer = <<>>
           THEN /\ disk' = view
                /\ queue' = queue \o done
                /\ frames' = outer
           ELSE /\ frames' = [outer EXCEPT ![Len(outer)].callbacks = @ \o done]
                /\ UNCHANGED <<disk, queue>>
    /\ UNCHANGED <<view, raised, base, told, issued, entered, lives>>

\* fn() throws, or a statement or the COMMIT does.
Throw(error) ==
    /\ InTx /\ raised = "no"
    /\ raised' = error
    /\ view' = IF error = "undone" THEN disk ELSE view
    /\ UNCHANGED <<disk, frames, queue, base, told, issued, entered, lives>>

\* The catch of tx(): back to the savepoint, and the callbacks are dropped.  The error
\* goes on, unless it is the caller's own and the code around this tx() catches it.
Unwind ==
    /\ InTx /\ raised # "no"
    /\ view' = IF raised = "undone" THEN view ELSE Last(frames).saved
    /\ frames' = Front(frames)
    /\ \/ raised' = "no" /\ (raised = "own" \/ Len(frames) = 1)
       \/ raised' = raised /\ Len(frames) > 1
    /\ UNCHANGED <<disk, queue, base, told, issued, entered, lives>>

\* A callback of emitEvent(): the gateway emits the event to its listeners.
Microtask ==
    /\ ~InTx /\ queue # <<>>
    /\ told' = Append(told, Head(queue))
    /\ queue' = Tail(queue)
    /\ UNCHANGED <<disk, view, frames, raised, base, issued, entered, lives>>

\* The process is killed and another opens the file.
Restart ==
    /\ lives < MaxLives
    /\ lives' = lives + 1
    /\ view' = disk
    /\ frames' = <<>> /\ raised' = "no" /\ queue' = <<>>
    /\ base' = Len(disk) /\ told' = <<>>
    /\ UNCHANGED <<disk, issued, entered>>

===============================================================================
