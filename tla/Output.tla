-------------------------------- MODULE Output --------------------------------
(***************************************************************************)
(* The output of one run on its way into the log: the agent's text through *)
(* the batcher of core/delta-batcher.ts, the end of the run in execute()   *)
(* of core/gateway.ts, and the store, which other work of the process      *)
(* writes to as well and which may fail at any write.                      *)
(*                                                                         *)
(* Text is a sequence of bytes: its number in the agent's output, and      *)
(* whether a character begins with it.                                     *)
(***************************************************************************)
EXTENDS Store, FiniteSetsExt

CONSTANTS
    Limit,       \* bytes in a batch: 8192
    Chunks,      \* what the agent says at a time: the widths of the characters
    MaxBytes,    \* bound: bytes the agent says
    MaxEvents    \* bound: events before the rest of the process falls silent

\* A batch has room for any one character.
ASSUME LimitAssumption ==
    /\ Limit \in Nat /\ MaxBytes \in Nat /\ MaxEvents \in Nat
    /\ Chunks \subseteq Seq(1..Limit) \ {<<>>}

VARIABLES
    given,     \* history: what the agent said
    rest,      \* what the running append() has not taken yet
    text,      \* DeltaBatcher.text
    armed,     \* is there a timer?
    stopped,   \* was the batcher disposed of?
    stage,     \* how far execute() is
    outcome,   \* what handle.done came to
    uncaught   \* an error that nobody handled: the process shuts down

batcher == <<given, rest, text, armed, stopped>>
execution == <<stage, outcome, uncaught>>
vars == <<storeVars, batcher, execution>>

States == {"succeeded", "failed", "cancelled", "outcome_unknown"}
Stages == {"working", "broken", "ending", "finish", "catch", "unsure", "task", "over", "recover"}

Init ==
    /\ StoreInit
    /\ given = <<>> /\ rest = <<>> /\ text = <<>>
    /\ armed = FALSE /\ stopped = FALSE
    /\ stage = "working" /\ outcome = "none" /\ uncaught = FALSE

-----------------------------------------------------------------------------
(* Writes of the run, each a transaction of its own that may fail.         *)

Ended == \E i \in DOMAIN view : view[i].type \in States

\* Slip: the batcher does not ask whether the run is over.
SendTextAnyway(batch) == Emit("output.text", batch)

\* The batcher's emit: nothing more once the run is over.
SendText(batch) == IF Ended THEN UNCHANGED storeVars ELSE Emit("output.text", batch)

\* finish() does nothing for a run that is over.
Finish(state) == IF Ended THEN UNCHANGED storeVars ELSE Emit(state, <<>>)

Fails == ~Ended /\ UNCHANGED storeVars

\* A function of JavaScript runs to its end before another; a daemon that starts does
\* nothing with its runs before recover().
Busy == InTx \/ rest # <<>> \/ stage \in {"finish", "catch", "unsure", "recover"}

-----------------------------------------------------------------------------
(* The batcher.                                                            *)

BytesOf(chunk) ==
    LET leads == FlattenSeq([i \in DOMAIN chunk |-> [j \in 1..chunk[i] |-> j = 1]])
    IN  [k \in DOMAIN leads |-> [n |-> Len(given) + k, lead |-> leads[k]]]

\* A "text" event of the provider; append() begins.
AppendText(chunk) ==
    /\ ~Busy /\ stage = "working" /\ ~Ended
    /\ given' = given \o BytesOf(chunk)
    /\ Len(given') <= MaxBytes
    /\ rest' = IF stopped THEN <<>> ELSE BytesOf(chunk)
    /\ UNCHANGED <<storeVars, text, armed, stopped, execution>>

\* Slip: as much as fits.
CutAnywhere == Min({Len(rest), Limit - Len(text)})

\* As much as fits, back to where a character ends.
Cut ==
    LET most == Min({Len(rest), Limit - Len(text)})
    IN  IF most = Len(rest) THEN most
        ELSE Max({end \in 0..most : end = 0 \/ rest[end + 1].lead})

Dispose == armed' = FALSE /\ stopped' = TRUE /\ text' = <<>>

\* flush() clears before it emits.
Flush ==
    /\ armed' = FALSE /\ text' = <<>>
    /\ IF text = <<>> THEN UNCHANGED storeVars ELSE SendText(text)

FlushFails == armed' = FALSE /\ text # <<>> /\ text' = <<>> /\ Fails

\* Slip: the timer is set before the loop, for what was buffered then.
SliceUnarmed ==
    /\ rest # <<>>
    /\ LET buffer == text \o SubSeq(rest, 1, Cut)
           left == SubSeq(rest, Cut + 1, Len(rest))
       IN  \/ /\ left = <<>> /\ Len(buffer) < Limit
              /\ text' = buffer /\ armed' = (text # <<>>) /\ rest' = <<>>
              /\ UNCHANGED <<storeVars, stage>>
           \/ /\ left # <<>> \/ Len(buffer) = Limit
              /\ text' = <<>> /\ armed' = FALSE
              /\ \/ SendText(buffer) /\ rest' = left /\ UNCHANGED stage
                 \/ Fails /\ rest' = <<>> /\ stage' = "broken"
    /\ UNCHANGED <<given, stopped, outcome, uncaught>>

\* Slip: the provider takes no notice of the error.
SliceUnnoticed ==
    /\ rest # <<>>
    /\ LET buffer == text \o SubSeq(rest, 1, Cut)
           left == SubSeq(rest, Cut + 1, Len(rest))
       IN  \/ /\ left = <<>> /\ Len(buffer) < Limit
              /\ text' = buffer /\ armed' = TRUE
              /\ UNCHANGED storeVars
           \/ /\ left # <<>> \/ Len(buffer) = Limit
              /\ text' = <<>> /\ armed' = FALSE
              /\ SendText(buffer) \/ Fails
    /\ rest' = SubSeq(rest, Cut + 1, Len(rest))
    /\ UNCHANGED <<given, stopped, execution>>

\* The loop of append() once round.  The provider that hears of an error is lost.
Slice ==
    /\ rest # <<>>
    /\ LET buffer == text \o SubSeq(rest, 1, Cut)
           left == SubSeq(rest, Cut + 1, Len(rest))
       IN  \/ /\ left = <<>> /\ Len(buffer) < Limit
              /\ text' = buffer /\ armed' = TRUE /\ rest' = <<>>
              /\ UNCHANGED <<storeVars, stage>>
           \/ /\ left # <<>> \/ Len(buffer) = Limit
              /\ text' = <<>> /\ armed' = FALSE
              /\ \/ SendText(buffer) /\ rest' = left /\ UNCHANGED stage
                 \/ Fails /\ rest' = <<>> /\ stage' = "broken"
    /\ UNCHANGED <<given, stopped, outcome, uncaught>>

\* The timer: what cannot be written ends the run, and if that cannot be written...
Timer ==
    /\ ~Busy /\ armed
    /\ \/ Flush /\ UNCHANGED <<stopped, uncaught>>
       \/ ~Ended /\ Dispose /\ Finish("failed") /\ UNCHANGED uncaught
       \/ Fails /\ Dispose /\ uncaught' = TRUE
    /\ UNCHANGED <<given, rest, stage, outcome>>

-----------------------------------------------------------------------------
(* The end of execute().                                                   *)

AgentDone(result) ==
    /\ ~Busy
    /\ \/ stage = "working" /\ result \in States \cup {"rejected"}
       \/ stage = "broken" /\ result \in {"outcome_unknown", "rejected"}
    /\ stage' = "ending" /\ outcome' = result
    /\ UNCHANGED <<storeVars, batcher, uncaught>>

\* `finally`: dispose of the batcher and be off.
Leaves(to) == Dispose /\ stage' = to

\* Slip: the text is left to the timer.
EndUnflushed ==
    /\ ~Busy /\ stage = "ending"
    /\ stage' = IF outcome = "rejected" THEN "catch" ELSE "finish"
    /\ outcome' = IF stage' = "finish" THEN outcome ELSE "none"
    /\ UNCHANGED <<storeVars, batcher, uncaught>>

\* await handle.done; batcher.flush(); or straight to the catch block.
EndFlush ==
    /\ ~Busy /\ stage = "ending"
    /\ \/ /\ outcome = "rejected" /\ stage' = "catch"
          /\ UNCHANGED <<storeVars, text, armed>>
       \/ outcome # "rejected" /\ Flush /\ stage' = "finish"
       \/ outcome # "rejected" /\ FlushFails /\ stage' = "catch"
    /\ outcome' = IF stage' = "finish" THEN outcome ELSE "none"
    /\ UNCHANGED <<given, rest, stopped, uncaught>>

EndFinish ==
    /\ stage = "finish"
    /\ \/ Finish(outcome) /\ Leaves("over")
       \/ Fails /\ stage' = "catch" /\ UNCHANGED <<text, armed, stopped>>
    /\ outcome' = "none"
    /\ UNCHANGED <<given, rest, uncaught>>

CatchFlush ==
    /\ stage = "catch"
    /\ \/ Flush /\ stage' = "unsure" /\ UNCHANGED stopped
       \/ text # <<>> /\ Fails /\ Leaves("task")
    /\ UNCHANGED <<given, rest, outcome, uncaught>>

CatchFinish ==
    /\ stage = "unsure"
    /\ \/ Finish("outcome_unknown") /\ Leaves("over")
       \/ Fails /\ Leaves("task")
    /\ UNCHANGED <<given, rest, outcome, uncaught>>

\* execute() threw: pump()'s own catch.
TaskCatch ==
    /\ ~Busy /\ stage = "task"
    /\ stage' = "over"
    /\ \/ Finish("failed") /\ UNCHANGED uncaught
       \/ Fails /\ uncaught' = TRUE
    /\ UNCHANGED <<batcher, outcome>>

\* Cancelled, out of time, shut down: others finish the run while its agent works.
CutShort ==
    /\ ~Busy /\ ~Ended /\ stage \in {"working", "broken", "ending"}
    /\ \E state \in {"cancelled", "outcome_unknown"} : Finish(state)
    /\ UNCHANGED <<batcher, execution>>

-----------------------------------------------------------------------------
(* The rest of the process.                                                *)

OtherEmit ==
    /\ InTx \/ ~Busy
    /\ issued < MaxEvents
    /\ Emit("other", <<>>)
    /\ UNCHANGED <<batcher, execution>>

OtherEnter ==
    /\ InTx \/ ~Busy
    /\ Enter
    /\ UNCHANGED <<batcher, execution>>

OtherLeave == Leave /\ UNCHANGED <<batcher, execution>>

OtherThrow ==
    /\ \E error \in Errors : Throw(error)
    /\ UNCHANGED <<batcher, execution>>

OtherUnwind == Unwind /\ UNCHANGED <<batcher, execution>>

Deliver == ~Busy /\ Microtask /\ UNCHANGED <<batcher, execution>>

\* Killed at any point, and started again: recover() ends the run it finds.
Reborn ==
    /\ Restart
    /\ rest' = <<>> /\ Dispose
    /\ stage' = "recover" /\ outcome' = "none"
    /\ UNCHANGED <<given, uncaught>>

Recover ==
    /\ stage = "recover"
    /\ Finish("outcome_unknown")
    /\ stage' = "over"
    /\ UNCHANGED <<batcher, outcome, uncaught>>

-----------------------------------------------------------------------------
EndSteps == EndFlush \/ EndFinish \/ CatchFlush \/ CatchFinish \/ TaskCatch

Next ==
    \/ \E chunk \in Chunks : AppendText(chunk)
    \/ \E result \in States \cup {"rejected"} : AgentDone(result)
    \/ Slice \/ Timer \/ EndSteps \/ CutShort
    \/ OtherEmit \/ OtherEnter \/ OtherLeave \/ OtherThrow \/ OtherUnwind
    \/ Deliver \/ Reborn \/ Recover

\* Functions end, the timer fires and microtasks run; nothing is said of the agent.
Fairness ==
    /\ WF_vars(Slice) /\ WF_vars(EndSteps) /\ WF_vars(Recover)
    /\ SF_vars(Timer) /\ SF_vars(Deliver)
    /\ WF_vars(OtherLeave \/ OtherThrow) /\ WF_vars(OtherUnwind)

Spec == Init /\ [][Next]_vars /\ Fairness

-----------------------------------------------------------------------------
(* Properties.                                                             *)

TypeOK ==
    /\ rest \in Seq([n : 1..MaxBytes, lead : BOOLEAN]) /\ text \in Seq([n : 1..MaxBytes, lead : BOOLEAN])
    /\ armed \in BOOLEAN /\ stopped \in BOOLEAN /\ uncaught \in BOOLEAN
    /\ stage \in Stages /\ outcome \in States \cup {"none", "rejected"}
    /\ raised \in Errors \cup {"no"} /\ Len(frames) <= Depth
    /\ ~InTx => raised = "no" /\ view = disk

Published == FlattenSeq([i \in DOMAIN disk |-> disk[i].body])

\* Listeners hear of every event that is in the log for good, once, in its order, and of
\* no event that was rolled back: what tx() and afterCommit() promise (store:188).
Observed == INSTANCE Journal WITH log <- disk

ListenersFollow == Observed!Spec

\* The text in the log is what the agent said, from its beginning, without a gap, a
\* repetition or a byte out of order, whichever writes failed (delta-batcher:14, flush).
NoGap == IsPrefix(Published, given)

\* A batch is within the limit and never splits a character (delta-batcher:19).
WholeBatches ==
    \A i \in DOMAIN disk :
        LET batch == disk[i].body
        IN  batch # <<>> =>
                /\ Len(batch) <= Limit
                /\ Head(batch).lead
                /\ Last(batch).n < Len(given) => given[Last(batch).n + 1].lead

\* The log holds the agent's words: what was said, in order, in whole characters.
TextIntact == NoGap /\ WholeBatches

\* A run is only called a success with all its text in the log; an error nobody could
\* handle stops the process (gateway:626, cli/commands:182).
SuccessHasAll ==
    (\E i \in DOMAIN disk : disk[i].type = "succeeded") /\ ~uncaught => Published = given

\* The end of the run is written once, and no text after it (gateway:446, gateway:539).
EndIsLast ==
    \A i, j \in DOMAIN disk :
        i < j /\ disk[i].type \in States => disk[j].type = "other"

\* What the end of a run says stays true: nothing is missing before it or comes after it.
EndIsTrue == SuccessHasAll /\ EndIsLast

\* What the agent said does not wait for more of it: the timer brings it out
\* (delta-batcher:34).
TextGetsOut ==
    []<>(\/ Published = given \/ Ended
         \/ stopped \/ stage # "working")

===============================================================================
