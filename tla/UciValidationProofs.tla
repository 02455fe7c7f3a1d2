------------------------ MODULE UciValidationProofs -------------------------
(***************************************************************************)
(* Proofs about UciValidation, for channels, pipes and limits of any size. *)
(* ProcessInv says what the caller knows of the engine's process, EarlyInv *)
(* what it may not know of the user; neither needs the reader's side.      *)
(***************************************************************************)
EXTENDS UciValidation, TLAPS

\* Before the spawn there is no process, after the reap none either, and only
\* an engine that has ended is waited for.
ProcessInv ==
  /\ pc = "start" <=> child = "none" /\ pc # "done"
  /\ pc = "reap" => child = "exited"
  /\ pc \in {"drop", "finish"} => child = "reaped"
  /\ pc = "done" => child \in {"none", "reaped"}

\* An early cancellation is seen before the wait for the exit.
EarlyInv ==
  /\ early => cancel
  /\ pc = "wait" => ~early
  /\ result = "ok" => ~early /\ pc \in {"reap", "drop", "finish", "done"}

Controls ==
  /\ pc \in ProgramCounters /\ stage \in Answers
  /\ result \in {"none", "ok", "error", "cancelled"}
  /\ child \in {"none", "running", "exited", "reaped"}
  /\ pc = "start" => reader.state = "none"

Flags ==
  /\ cancel \in BOOLEAN /\ expired \in BOOLEAN /\ heir \in BOOLEAN
  /\ listening \in BOOLEAN /\ early \in BOOLEAN

Queues ==
  /\ pipe \in Seq(Lines) /\ Len(pipe) <= PipeSize
  /\ channel \in Seq(Events) /\ Len(channel) <= Capacity
  /\ reader \in [state: {"none", "reading", "sending", "done"},
                 event: Events \cup {"none"}, total: 0..(MaxLines + 1)]
  /\ reader.state = "sending" => reader.event # "none"
  /\ reader.total = MaxLines + 1 =>
       reader.state = "done" \/ reader.event = "rejected"
  /\ reader.state \in {"none", "reading"} => reader.event = "none"

Inv == Controls /\ Flags /\ Queues /\ ProcessInv /\ EarlyInv

\* One line or event is taken from the front, or put at the back.
LEMMA Queueing ==
  ASSUME NEW S, NEW q \in Seq(S)
  PROVE  /\ q # <<>> => /\ Head(q) \in S /\ Tail(q) \in Seq(S)
                        /\ Len(Tail(q)) < Len(q)
         /\ \A e \in S : /\ Append(q, e) \in Seq(S)
                         /\ Len(Append(q, e)) = Len(q) + 1
         /\ Len(q) \in Nat /\ <<>> \in Seq(S) /\ Len(<<>>) = 0
OBVIOUS

\* Nothing runs and nothing is written at first.
LEMMA Initially ==
  ASSUME Init
  PROVE  Inv
<1>1. Queues
  BY LimitsAssumption DEF Init, Queues, Events
<1>2. QED
  BY <1>1 DEF Init, Inv, Controls, Flags, ProgramCounters, Answers, ProcessInv, EarlyInv

\* The two threads, the engine, the user and the clock keep the pipe and the
\* channel within their sizes, and the reader within its limit of lines.
LEMMA QueuesStep ==
  ASSUME Queues, Controls, Next
  PROVE  Queues'
<1>1. PipeSize \in Nat /\ Capacity \in Nat /\ MaxLines \in Nat /\ Capacity > 0
  BY LimitsAssumption
<1>2. CASE UNCHANGED <<pipe, channel, reader>>
  BY <1>2 DEF Queues
<1>3. CASE Spawn
  BY <1>1, <1>3 DEF Spawn, Queues, Controls
<1>4. CASE Receive
  <2>1. channel' \in Seq(Events) /\ Len(channel') <= Capacity
    BY <1>1, <1>4, Queueing DEF Receive, Queues
  <2>2. pipe' = pipe /\ reader' = reader
    BY <1>4 DEF Receive, engineVars
  <2>3. QED
    BY <2>1, <2>2 DEF Queues
<1>5. CASE DropReceiver
  BY <1>1, <1>5 DEF DropReceiver, Queues, engineVars
<1>6. CASE ReadLine
  <2>1. Head(pipe) \in Lines /\ pipe' \in Seq(Lines) /\ Len(pipe') <= PipeSize
    BY <1>1, <1>6, Queueing DEF ReadLine, Queues
  <2>2. PICK event :
          /\ reader' = [state |-> "sending", event |-> event,
                        total |-> reader.total + 1]
          /\ event \in Events
          /\ reader.total = MaxLines => event = "rejected"
    BY <1>6, <2>1 DEF ReadLine, Events
  <2>3. reader.state = "reading" /\ channel' = channel
    BY <1>6 DEF ReadLine
  <2>4. reader.total \in 0..MaxLines
    BY <1>1, <2>3 DEF Queues, Events
  <2>5. event # "none"
    BY <2>2 DEF Events, Lines, Answers
  <2>6. QED
    BY <1>1, <2>1, <2>2, <2>3, <2>4, <2>5 DEF Queues
<1>7. CASE EndOfOutput
  BY <1>1, <1>7 DEF EndOfOutput, Queues, engineVars
<1>8. CASE Deliver
  <2>1. reader.state = "sending" /\ reader.event \in Events
    BY <1>8 DEF Deliver, Queues
  <2>2. channel' \in Seq(Events) /\ Len(channel') <= Capacity
    BY <1>1, <1>8, <2>1, Queueing DEF Deliver, Queues
  <2>3. /\ reader' = [reader EXCEPT !.event = "none",
                        !.state = IF reader.event = "rejected" THEN "done"
                                  ELSE "reading"]
        /\ pipe' = pipe
    BY <1>8 DEF Deliver, engineVars
  <2>4. QED
    BY <1>1, <2>1, <2>2, <2>3 DEF Queues
<1>9. CASE DeliverFails
  BY <1>1, <1>9 DEF DeliverFails, Queues, engineVars
<1>10. ASSUME NEW line \in Lines, EngineWrites(line)
       PROVE  Queues'
  <2>1. pipe' \in Seq(Lines) /\ Len(pipe') <= PipeSize
    BY <1>1, <1>10, Queueing DEF EngineWrites, Queues
  <2>2. channel' = channel /\ reader' = reader
    BY <1>10 DEF EngineWrites, readerVars
  <2>3. QED
    BY <2>1, <2>2 DEF Queues
<1>11. ASSUME Caller, ~Spawn, ~Receive, ~DropReceiver
       PROVE  UNCHANGED <<pipe, channel, reader>>
  BY <1>11 DEF Caller, StartFails, Send, SendFails, Cancelled, TimedOut, Check,
     Poll, Disconnected, CheckQuit, SendQuit, CheckExit, StillRunning, Exited,
     QuitIgnored, Kill, Reap, FinishReader, engineVars, readerVars
<1>12. ASSUME EngineForks \/ EngineExits \/ HeirExits \/ Cancel \/ Expire \/ Over
       PROVE  UNCHANGED <<pipe, channel, reader>>
  BY <1>12 DEF EngineForks, EngineExits, HeirExits, Cancel, Expire, Over, vars,
     engineVars, readerVars
<1>13. QED
  BY <1>2, <1>3, <1>4, <1>5, <1>6, <1>7, <1>8, <1>9, <1>10, <1>11, <1>12
     DEF Next, Reader, Engine

\* Flags stay flags.
LEMMA FlagsStep ==
  ASSUME Flags, Next
  PROVE  Flags'
<1> USE DEF Next, Caller, Reader, Engine, callerVars, engineVars, readerVars,
            userVars, vars
<1>1. cancel' = cancel \/ cancel' = TRUE
  BY DEF StartFails, Spawn, Send, SendFails, Cancelled, TimedOut, Check, Poll,
         Disconnected, Receive, CheckQuit, SendQuit, CheckExit, StillRunning,
         Exited, QuitIgnored, Kill, Reap, DropReceiver, FinishReader, Fail,
         ReadLine, EndOfOutput, Deliver, DeliverFails, EngineWrites,
         EngineForks, EngineExits, HeirExits, Cancel, Expire, Over
<1>2. expired' = expired \/ expired' = TRUE \/ expired' = FALSE
  BY DEF StartFails, Spawn, Send, SendFails, Cancelled, TimedOut, Check, Poll,
         Disconnected, Receive, CheckQuit, SendQuit, CheckExit, StillRunning,
         Exited, QuitIgnored, Kill, Reap, DropReceiver, FinishReader, Fail,
         ReadLine, EndOfOutput, Deliver, DeliverFails, EngineWrites,
         EngineForks, EngineExits, HeirExits, Cancel, Expire, Over
<1>3. heir' = heir \/ heir' = TRUE \/ heir' = FALSE
  BY DEF StartFails, Spawn, Send, SendFails, Cancelled, TimedOut, Check, Poll,
         Disconnected, Receive, CheckQuit, SendQuit, CheckExit, StillRunning,
         Exited, QuitIgnored, Kill, Reap, DropReceiver, FinishReader, Fail,
         ReadLine, EndOfOutput, Deliver, DeliverFails, EngineWrites,
         EngineForks, EngineExits, HeirExits, Cancel, Expire, Over
<1>4. listening' = listening \/ listening' = FALSE
  BY DEF StartFails, Spawn, Send, SendFails, Cancelled, TimedOut, Check, Poll,
         Disconnected, Receive, CheckQuit, SendQuit, CheckExit, StillRunning,
         Exited, QuitIgnored, Kill, Reap, DropReceiver, FinishReader, Fail,
         ReadLine, EndOfOutput, Deliver, DeliverFails, EngineWrites,
         EngineForks, EngineExits, HeirExits, Cancel, Expire, Over
<1>5. early' = early \/ early' \in BOOLEAN
  <2>1. CASE ~Cancel
    BY <2>1 DEF StartFails, Spawn, Send, SendFails, Cancelled, TimedOut, Check, Poll,
           Disconnected, Receive, CheckQuit, SendQuit, CheckExit, StillRunning,
           Exited, QuitIgnored, Kill, Reap, DropReceiver, FinishReader, Fail,
           ReadLine, EndOfOutput, Deliver, DeliverFails, EngineWrites,
           EngineForks, EngineExits, HeirExits, Expire, Over
  <2>2. CASE Cancel
    BY <2>2 DEF Cancel
  <2>3. QED
    BY <2>1, <2>2
<1>6. QED
  BY <1>1, <1>2, <1>3, <1>4, <1>5 DEF Flags

\* The caller, one action at a time, and what the others leave alone.
LEMMA ControlsStep ==
  ASSUME Controls, Flags, ProcessInv, EarlyInv, Next
  PROVE  Controls' /\ ProcessInv' /\ EarlyInv'
<1> USE DEF Controls, ProcessInv, EarlyInv, ProgramCounters, Answers,
            callerVars, engineVars, readerVars, userVars
<1>1. CASE StartFails
  BY <1>1 DEF StartFails
<1>2. CASE Spawn
  BY <1>2 DEF Spawn
<1>3. CASE Send \/ SendQuit
  BY <1>3 DEF Send, SendQuit
<1>4. CASE SendFails \/ Cancelled \/ TimedOut \/ Disconnected \/ QuitIgnored
  BY <1>4 DEF SendFails, Cancelled, TimedOut, Disconnected, QuitIgnored, Fail
<1>5. CASE Check \/ Poll \/ CheckQuit \/ CheckExit \/ StillRunning
  BY <1>5 DEF Check, Poll, CheckQuit, CheckExit, StillRunning
<1>6. CASE Receive
  BY <1>6 DEF Receive, Fail
<1>7. CASE Exited
  BY <1>7 DEF Exited
<1>8. CASE Kill \/ Reap
  BY <1>8 DEF Kill, Reap
<1>9. CASE DropReceiver \/ FinishReader
  BY <1>9 DEF DropReceiver, FinishReader
<1>10. CASE Reader
  BY <1>10 DEF Reader, ReadLine, EndOfOutput, Deliver, DeliverFails
<1>11. CASE Engine
  BY <1>11 DEF Engine, EngineWrites, EngineForks, EngineExits, HeirExits
<1>12. CASE Cancel
  BY <1>12 DEF Cancel
<1>13. CASE Expire \/ Over
  BY <1>13 DEF Expire, Over, vars
<1>14. QED
  BY <1>1, <1>2, <1>3, <1>4, <1>5, <1>6, <1>7, <1>8, <1>9, <1>10, <1>11, <1>12,
     <1>13 DEF Next, Caller

\* Inv is inductive.
LEMMA Invariance == Spec => []Inv
<1>1. Init => Inv
  BY Initially
<1>2. ASSUME Inv, [Next]_vars
      PROVE  Inv'
  <2>1. CASE Next
    BY <1>2, <2>1, QueuesStep, FlagsStep, ControlsStep DEF Inv
  <2>2. CASE UNCHANGED vars
    BY <1>2, <2>2 DEF vars, Inv, Controls, Flags, Queues, ProcessInv, EarlyInv
  <2>3. QED
    BY <1>2, <2>1, <2>2
<1>3. QED
  BY <1>1, <1>2, PTL DEF Spec

\* The variables have their types, and pipe, channel and counter their limits.
THEOREM ValidationTyped == Spec => []TypeOK
<1>1. Inv => TypeOK
  BY DEF Inv, Controls, Flags, Queues, TypeOK
<1>2. QED
  BY <1>1, Invariance, PTL

\* However validation ends, the engine has been waited for.
THEOREM Reaped == Spec => []EngineIsReaped
<1>1. Inv => EngineIsReaped
  BY DEF Inv, ProcessInv, EngineIsReaped
<1>2. QED
  BY <1>1, Invariance, PTL

\* Success is of an engine that ended by itself, and never the answer to a
\* cancellation that came before quit was sent.
THEOREM Earned == Spec => OkIsEarned
<1>1. Inv => (early => result # "ok")
  BY DEF Inv, EarlyInv
<1>2. ASSUME [Next]_vars
      PROVE  [result # "ok" /\ result' = "ok" => child = "exited"]_vars
  <2>1. ASSUME result # "ok", result' = "ok"
        PROVE  Exited
    BY <1>2, <2>1 DEF Next, Caller, StartFails, Spawn, Send, SendFails,
       Cancelled, TimedOut, Check, Poll, Disconnected, Receive, CheckQuit,
       SendQuit, CheckExit, StillRunning, QuitIgnored, Kill, Reap, DropReceiver,
       FinishReader, Fail, Reader, ReadLine, EndOfOutput, Deliver, DeliverFails,
       Engine, EngineWrites, EngineForks, EngineExits, HeirExits, Cancel,
       Expire, Over, vars, callerVars
  <2>2. QED
    BY <2>1 DEF Exited
<1>3. QED
  BY <1>1, <1>2, Invariance, PTL DEF Spec, OkIsEarned
=============================================================================
