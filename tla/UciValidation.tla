--------------------------- MODULE UciValidation ----------------------------
(***************************************************************************)
(* uci.rs, validate_engine_with_cancel: the caller's thread talks UCI to a *)
(* child process, a reader thread moves the child's output line by line    *)
(* into a bounded channel, and the user may cancel at any time.            *)
(*                                                                         *)
(* Nothing is assumed of the engine: it writes any line at any time,       *)
(* solicited or not, leaves a descendant that holds its output open, stops *)
(* reading, hangs or exits.                                                *)
(***************************************************************************)
EXTENDS Naturals, Sequences

CONSTANTS
  Capacity,   \* of the channel: 256 events
  PipeSize,   \* what the pipe of the child's output holds, in lines
  MaxLines    \* the limit of 4 MiB of output, in lines

ASSUME LimitsAssumption == {Capacity, PipeSize, MaxLines} \subseteq Nat \ {0}

VARIABLES
  pc,        \* where the caller's thread is
  stage,     \* the answer it waits for
  result,    \* what validate_engine_with_cancel returns
  cancel,    \* the cancel flag
  expired,   \* the deadline of the current wait has passed
  child,     \* the engine process
  heir,      \* a descendant of the engine has its output open
  pipe,      \* lines written and not yet read
  channel,   \* events sent and not yet received
  listening, \* the receiver of the channel exists
  reader,    \* the reader thread: its state, the event it is sending, and
             \* the lines it has read
  early      \* history: cancelled before quit was sent

vars ==
  <<pc, stage, result, cancel, expired, child, heir, pipe, channel, listening,
    reader, early>>

callerVars == <<pc, stage, result, expired>>
engineVars == <<child, heir, pipe>>
readerVars == <<channel, reader>>
userVars   == <<cancel, early>>

Answers == {"uciok", "readyok", "bestmove"}

\* badmove is a bestmove that is no move from the starting position, overlong
\* a line of more than 16 KiB, other anything else.
Lines == Answers \cup {"badmove", "overlong", "other"}

Events == (Lines \ {"overlong"}) \cup {"rejected"}

ProgramCounters ==
  {"start", "send", "check", "receive", "quit", "sendQuit", "exit", "wait",
   "kill", "reap", "drop", "finish", "done"}

TypeOK ==
  /\ pc \in ProgramCounters
  /\ stage \in Answers
  /\ result \in {"none", "ok", "error", "cancelled"}
  /\ {cancel, expired, heir, listening, early} \subseteq BOOLEAN
  /\ child \in {"none", "running", "exited", "reaped"}
  /\ pipe \in Seq(Lines) /\ Len(pipe) <= PipeSize
  /\ channel \in Seq(Events) /\ Len(channel) <= Capacity
  /\ reader \in [state: {"none", "reading", "sending", "done"},
                 event: Events \cup {"none"}, total: 0..(MaxLines + 1)]

Init ==
  /\ pc = "start" /\ stage = "uciok" /\ result = "none" /\ expired = FALSE
  /\ cancel = FALSE /\ early = FALSE
  /\ child = "none" /\ heir = FALSE /\ pipe = <<>>
  /\ channel = <<>> /\ listening = TRUE
  /\ reader = [state |-> "none", event |-> "none", total |-> 0]

-----------------------------------------------------------------------------
(* The caller's thread                                                      *)

\* run_protocol has failed: the child is killed next.
Fail(r) == pc' = "kill" /\ result' = r /\ UNCHANGED <<stage, expired>>

\* Cancelled at once, no such executable, or the spawn fails: no child.
StartFails ==
  /\ pc = "start"
  /\ result' = IF cancel THEN "cancelled" ELSE "error"
  /\ pc' = "done"
  /\ UNCHANGED <<stage, expired, engineVars, readerVars, listening, userVars>>

Spawn ==
  /\ pc = "start"
  /\ ~cancel
  /\ child' = "running"
  /\ reader' = [reader EXCEPT !.state = "reading"]
  /\ pc' = "send"
  /\ UNCHANGED <<stage, result, expired, heir, pipe, channel, listening,
                 userVars>>

\* The command that asks for the answer of this stage; its deadline starts.
Send ==
  /\ pc = "send"
  /\ child = "running" \/ heir
  /\ pc' = "check" /\ expired' = FALSE
  /\ UNCHANGED <<stage, result, engineVars, readerVars, listening, userVars>>

\* The engine has closed its input, or cannot be waited for.
SendFails ==
  /\ pc \in {"send", "sendQuit", "wait"}
  /\ Fail("error")
  /\ UNCHANGED <<engineVars, readerVars, listening, userVars>>

\* The checks that run_protocol and receive_before make before they go on.
\* (The one at the start of run_protocol is that of the first receive_before.)
Cancelled ==
  /\ pc \in {"check", "quit", "exit"}
  /\ cancel
  /\ Fail("cancelled")
  /\ UNCHANGED <<engineVars, readerVars, listening, userVars>>

TimedOut ==
  /\ pc = "check"
  /\ ~cancel /\ expired
  /\ Fail("error")
  /\ UNCHANGED <<engineVars, readerVars, listening, userVars>>

Check ==
  /\ pc = "check"
  /\ ~cancel /\ ~expired
  /\ pc' = "receive"
  /\ UNCHANGED <<stage, result, expired, engineVars, readerVars, listening,
                 userVars>>

\* recv_timeout ends without an event.
Poll ==
  /\ pc = "receive"
  /\ channel = <<>>
  /\ reader.state # "done"
  /\ pc' = "check"
  /\ UNCHANGED <<stage, result, expired, engineVars, readerVars, listening,
                 userVars>>

Disconnected ==
  /\ pc = "receive"
  /\ channel = <<>>
  /\ reader.state = "done"
  /\ Fail("error")
  /\ UNCHANGED <<engineVars, readerVars, listening, userVars>>

Rejects(event) ==
  event = "rejected" \/ (stage = "bestmove" /\ event = "badmove")

Receive ==
  /\ pc = "receive"
  /\ channel # <<>>
  /\ channel' = Tail(channel)
  /\ LET event == Head(channel) IN
     \/ Rejects(event) /\ Fail("error")
     \/ /\ ~Rejects(event) /\ event # stage
        /\ pc' = "check"
        /\ UNCHANGED <<stage, result, expired>>
     \/ /\ event = stage
        /\ pc' = IF stage = "bestmove" THEN "quit" ELSE "send"
        /\ stage' = IF stage = "uciok" THEN "readyok" ELSE "bestmove"
        /\ UNCHANGED <<result, expired>>
  /\ UNCHANGED <<engineVars, reader, listening, userVars>>

CheckQuit ==
  /\ pc = "quit"
  /\ ~cancel
  /\ pc' = "sendQuit"
  /\ UNCHANGED <<stage, result, expired, engineVars, readerVars, listening,
                 userVars>>

SendQuit ==
  /\ pc = "sendQuit"
  /\ child = "running" \/ heir
  /\ pc' = "exit" /\ expired' = FALSE
  /\ UNCHANGED <<stage, result, engineVars, readerVars, listening, userVars>>

\* Mutant: the wait for the exit does not look at the cancel flag.
ExitUnchecked ==
  /\ pc = "exit"
  /\ pc' = "wait"
  /\ UNCHANGED <<stage, result, expired, engineVars, readerVars, listening,
                 userVars>>

CheckExit ==
  /\ pc = "exit"
  /\ ~cancel
  /\ pc' = "wait"
  /\ UNCHANGED <<stage, result, expired, engineVars, readerVars, listening,
                 userVars>>

\* Still running, before the deadline: sleep 10 ms.
StillRunning ==
  /\ pc = "wait"
  /\ child = "running" /\ ~expired
  /\ pc' = "exit"
  /\ UNCHANGED <<stage, result, expired, engineVars, readerVars, listening,
                 userVars>>

Exited ==
  /\ pc = "wait"
  /\ child = "exited"
  /\ result' = "ok" /\ pc' = "reap"
  /\ UNCHANGED <<stage, expired, engineVars, readerVars, listening, userVars>>

QuitIgnored ==
  /\ pc = "wait"
  /\ child = "running" /\ expired
  /\ Fail("error")
  /\ UNCHANGED <<engineVars, readerVars, listening, userVars>>

\* Mutant: an engine whose validation failed is left running.
KillNot ==
  /\ pc = "kill"
  /\ pc' = "drop"
  /\ UNCHANGED <<stage, result, expired, engineVars, readerVars, listening,
                 userVars>>

Kill ==
  /\ pc = "kill"
  /\ child' = "exited"
  /\ pc' = "reap"
  /\ UNCHANGED <<stage, result, expired, heir, pipe, readerVars, listening,
                 userVars>>

Reap ==
  /\ pc = "reap"
  /\ child = "exited"
  /\ child' = "reaped"
  /\ pc' = "drop"
  /\ UNCHANGED <<stage, result, expired, heir, pipe, readerVars, listening,
                 userVars>>

\* Mutant: the receiver outlives the call.
KeepReceiver ==
  /\ pc = "drop"
  /\ pc' = "finish"
  /\ UNCHANGED <<stage, result, expired, engineVars, readerVars, listening,
                 userVars>>

DropReceiver ==
  /\ pc = "drop"
  /\ listening' = FALSE
  /\ channel' = <<>>
  /\ pc' = "finish"
  /\ UNCHANGED <<stage, result, expired, engineVars, reader, userVars>>

\* Mutant: finish_reader joins the reader whatever it takes.
JoinReader ==
  /\ pc = "finish"
  /\ reader.state = "done"
  /\ pc' = "done"
  /\ UNCHANGED <<stage, result, expired, engineVars, readerVars, listening,
                 userVars>>

\* finish_reader: join the reader, or give it up after 100 ms.
FinishReader ==
  /\ pc = "finish"
  /\ pc' = "done"
  /\ UNCHANGED <<stage, result, expired, engineVars, readerVars, listening,
                 userVars>>

Caller ==
  \/ StartFails \/ Spawn \/ Send \/ SendFails \/ Cancelled \/ TimedOut
  \/ Check \/ Poll \/ Disconnected \/ Receive
  \/ CheckQuit \/ SendQuit \/ CheckExit \/ StillRunning \/ Exited
  \/ QuitIgnored \/ Kill \/ Reap \/ DropReceiver \/ FinishReader

-----------------------------------------------------------------------------
(* The reader thread, the engine, the user and the clock                    *)

Open == child = "running" \/ heir

\* One line, counted against both limits.
ReadLine ==
  LET line == Head(pipe)
      over == line = "overlong" \/ reader.total = MaxLines IN
  /\ reader.state = "reading"
  /\ pipe # <<>>
  /\ pipe' = Tail(pipe)
  /\ reader' = [state |-> "sending",
                event |-> IF over THEN "rejected" ELSE line,
                total |-> reader.total + 1]
  /\ UNCHANGED <<callerVars, child, heir, channel, listening, userVars>>

EndOfOutput ==
  /\ reader.state = "reading"
  /\ pipe = <<>> /\ ~Open
  /\ reader' = [reader EXCEPT !.state = "done"]
  /\ UNCHANGED <<callerVars, engineVars, channel, listening, userVars>>

\* Mutant: an unbounded channel.
DeliverUnbounded ==
  /\ reader.state = "sending"
  /\ listening
  /\ channel' = Append(channel, reader.event)
  /\ reader' = [reader EXCEPT !.event = "none",
                  !.state = IF reader.event = "rejected" THEN "done"
                            ELSE "reading"]
  /\ UNCHANGED <<callerVars, engineVars, listening, userVars>>

\* The channel has room; after a rejection the reader ends.
Deliver ==
  /\ reader.state = "sending"
  /\ listening
  /\ Len(channel) < Capacity
  /\ channel' = Append(channel, reader.event)
  /\ reader' = [reader EXCEPT !.event = "none",
                  !.state = IF reader.event = "rejected" THEN "done"
                            ELSE "reading"]
  /\ UNCHANGED <<callerVars, engineVars, listening, userVars>>

\* The receiver is gone.
DeliverFails ==
  /\ reader.state = "sending"
  /\ ~listening
  /\ reader' = [reader EXCEPT !.event = "none", !.state = "done"]
  /\ UNCHANGED <<callerVars, engineVars, channel, listening, userVars>>

Reader == ReadLine \/ EndOfOutput \/ Deliver \/ DeliverFails

EngineWrites(line) ==
  /\ Open
  /\ Len(pipe) < PipeSize
  /\ pipe' = Append(pipe, line)
  /\ UNCHANGED <<callerVars, child, heir, readerVars, listening, userVars>>

EngineForks ==
  /\ child = "running"
  /\ heir' = TRUE
  /\ UNCHANGED <<callerVars, child, pipe, readerVars, listening, userVars>>

EngineExits ==
  /\ child = "running"
  /\ child' = "exited"
  /\ UNCHANGED <<callerVars, heir, pipe, readerVars, listening, userVars>>

HeirExits ==
  /\ heir
  /\ heir' = FALSE
  /\ UNCHANGED <<callerVars, child, pipe, readerVars, listening, userVars>>

Cancel ==
  /\ ~cancel
  /\ pc # "done"
  /\ cancel' = TRUE
  /\ early' =
       (pc \in {"start", "send", "check", "receive", "quit", "sendQuit"})
  /\ UNCHANGED <<callerVars, engineVars, readerVars, listening>>

Expire ==
  /\ pc \in {"check", "receive", "exit", "wait"}
  /\ ~expired
  /\ expired' = TRUE
  /\ UNCHANGED <<pc, stage, result, engineVars, readerVars, listening,
                 userVars>>

Engine ==
  \/ \E line \in Lines : EngineWrites(line)
  \/ EngineForks \/ EngineExits \/ HeirExits

\* The call has returned and nobody can write any more.
Over ==
  /\ pc = "done"
  /\ reader.state \in {"none", "done"}
  /\ ~Open
  /\ UNCHANGED vars

Next == Caller \/ Reader \/ Engine \/ Cancel \/ Expire \/ Over

Spec == Init /\ [][Next]_vars

\* The operating system runs both threads.  Nothing is fair about the engine,
\* and the deadlines are a premise of the one property that needs them.
FairSpec == Spec /\ WF_vars(Caller) /\ WF_vars(Reader)

-----------------------------------------------------------------------------
(* Properties                                                               *)

\* However validation ends, the engine itself is no longer running and has
\* been waited for.
EngineIsReaped == pc = "done" => child \in {"none", "reaped"}

\* Success means that the engine ended by itself after it had answered, not that
\* it was killed, timed out or rejected; and it is never the answer to a
\* cancellation that came before quit was sent, although the flag is only looked
\* at between two waits.
OkIsEarned ==
  /\ [][result # "ok" /\ result' = "ok" => child = "exited"]_vars
  /\ [](early => result # "ok")

\* Whatever the engine and its descendants do, the call returns once its
\* deadlines pass.
ValidationReturns == WF_vars(Expire) => <>(pc = "done")

\* "Cancellation is polled every 100 ms while these long ceilings prevent slow
\* removable storage from causing a false failure" (uci.rs:24): a cancelled
\* call returns without any deadline passing.
CancelReturns == cancel ~> pc = "done"

\* The reader thread does not outlive the call for longer than the engine's
\* descendants hold its output open, even if it was waiting for room in the
\* channel.
ReaderEnds ==
  [](pc = "done" /\ ~Open => <>(reader.state \in {"none", "done"}))
=============================================================================
