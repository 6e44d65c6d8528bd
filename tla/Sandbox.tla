------------------------------ MODULE Sandbox ------------------------------
(***************************************************************************)
(* One run of ContainerSandbox (sandbox.py): the thread that calls run,    *)
(* the two threads that capture the output, the client process of the      *)
(* container runtime, and the container, which may outlive the client.     *)
(*                                                                         *)
(* Output is counted, not spelled out.  The program in the container is    *)
(* under nobody's control: it may write, end, or go on for ever.           *)
(***************************************************************************)
EXTENDS Integers, Sequences

CONSTANTS OutputBytes, ChunkBytes,   \* limits.output_bytes, _CHUNK_BYTES
          PipeBytes,                 \* what a pipe holds
          MaxWritten                 \* bound: what is written to a stream

ASSUME SizesAssumption == /\ OutputBytes \in Nat /\ MaxWritten \in Nat
                          /\ ChunkBytes \in Nat \ {0} /\ PipeBytes \in Nat \ {0}

VARIABLES
  main,        \* where the calling thread is in run
  todo,        \* the streams it has still to join, or to close
  long,        \* whether the code is larger than a pipe
  late,        \* whether the deadline of _finished has passed
  timedOut,    \* timed_out
  killed,      \* killed
  returncode,  \* process.returncode: how the client was seen to end
  report,      \* the SandboxResult
  overflow,    \* the Event the readers share
  reader,      \* what each reader does, and the chunk in its hands
  captured,    \* what each reader has kept
  closed,      \* the streams that are closed
  client, container, pipe,
  written,     \* history: what was written to each stream
  gaveUp,      \* history: whether a reader was left behind
  missed       \* history: whether the kill command was without effect

vars == <<main, todo, long, late, timedOut, killed, returncode, report, overflow, reader,
          captured, closed, client, container, pipe, written, gaveUp, missed>>

Streams == {"stdout", "stderr"}
InOrder == <<"stdout", "stderr">>
NoCode == "None"
NoReport == [exit |-> "unreported"]
Least(a, b) == IF a <= b THEN a ELSE b

theCaller  == <<main, todo, long, late, timedOut, killed, returncode, report>>
theReaders == <<overflow, reader, captured>>
theRuntime == <<client, container, pipe, written>>
theHistory == <<gaveUp, missed>>

ClientUp == client \in {"up", "dying"}

Init ==
  /\ main = "spawn" /\ todo = InOrder /\ long \in BOOLEAN
  /\ late = FALSE /\ timedOut = FALSE /\ killed = FALSE
  /\ returncode = NoCode /\ report = NoReport
  /\ overflow = FALSE
  /\ reader = [s \in Streams |-> [does |-> "starts", chunk |-> 0]]
  /\ captured = [s \in Streams |-> 0]
  /\ closed = {}
  /\ client = "none" /\ container = "none"
  /\ pipe = [s \in Streams |-> 0] /\ written = [s \in Streams |-> 0]
  /\ gaveUp = FALSE /\ missed = FALSE

-----------------------------------------------------------------------------
(* The container runtime and what runs in it.                              *)

(* The client asks for the container; it may be killed before that is done *)
(* and the container starts all the same.                                  *)
Started ==
  /\ container = "starting"
  /\ container' = "running"
  /\ UNCHANGED <<theCaller, theReaders, closed, client, pipe, written, theHistory>>

(* There is no such image: the client says so and exits.                   *)
StartFails ==
  /\ container = "starting" /\ client = "up"
  /\ container' = "never" /\ client' = "failed"
  /\ pipe' = [pipe EXCEPT !["stderr"] = 1]
  /\ written' = [written EXCEPT !["stderr"] = 1]
  /\ UNCHANGED <<theCaller, theReaders, closed, theHistory>>

(* The program runs once it has read all of the code, and waits when the   *)
(* pipe is full.                                                           *)
Write(s) ==
  /\ container = "running" /\ client = "up" /\ main \notin {"spawn", "send"}
  /\ pipe[s] < PipeBytes /\ written[s] < MaxWritten
  /\ pipe' = [pipe EXCEPT ![s] = @ + 1]
  /\ written' = [written EXCEPT ![s] = @ + 1]
  /\ UNCHANGED <<theCaller, theReaders, closed, client, container, theHistory>>

ProgramEnds ==
  /\ container = "running" /\ main \notin {"spawn", "send"}
  /\ container' = "ended"
  /\ UNCHANGED <<theCaller, theReaders, closed, client, pipe, written, theHistory>>

ClientEnds ==
  /\ client = "up" /\ container \in {"ended", "killed"}
  /\ client' = "exited"
  /\ UNCHANGED <<theCaller, theReaders, closed, container, pipe, written, theHistory>>

(* The client process is lost under a container that goes on.              *)
ClientLost ==
  /\ client = "up" /\ container = "running"
  /\ client' = "lost"
  /\ UNCHANGED <<theCaller, theReaders, closed, container, pipe, written, theHistory>>

ClientDies ==
  /\ client = "dying"
  /\ client' = "killed"
  /\ UNCHANGED <<theCaller, theReaders, closed, container, pipe, written, theHistory>>

-----------------------------------------------------------------------------
(* _capture, one thread for each stream.                                   *)

Read(s) ==
  /\ reader[s].does = "reads" /\ pipe[s] > 0
  /\ LET size == Least(pipe[s], ChunkBytes)
     IN  /\ reader' = [reader EXCEPT ![s] = [does |-> "keeps", chunk |-> size]]
         /\ pipe' = [pipe EXCEPT ![s] = @ - size]
  /\ UNCHANGED <<theCaller, overflow, captured, closed, client, container, written, theHistory>>

Room(s) == OutputBytes - captured[s]

(* A read of a stream that has been closed raises, which ends the thread.  *)
KeepChunk(s) ==
  /\ reader[s].does = "keeps"
  /\ captured' = [captured EXCEPT ![s] = @ + Least(reader[s].chunk, Room(s))]
  /\ overflow' = (overflow \/ reader[s].chunk > Room(s))
  /\ reader' = [reader EXCEPT ![s] =
                  [does |-> IF s \in closed THEN "ended" ELSE "reads", chunk |-> 0]]
  /\ UNCHANGED <<theCaller, closed, theRuntime, theHistory>>

ReadEnds(s) ==
  /\ reader[s].does = "reads" /\ pipe[s] = 0 /\ ~ClientUp
  /\ reader' = [reader EXCEPT ![s].does = "ended"]
  /\ UNCHANGED <<theCaller, overflow, captured, closed, theRuntime, theHistory>>

-----------------------------------------------------------------------------
(* run, in the thread of the caller.                                       *)

theJudgement == <<long, late, timedOut, killed, returncode, report>>

SpawnFails ==
  /\ main = "spawn"
  /\ main' = "unavailable"
  /\ UNCHANGED <<todo, theJudgement, theReaders, closed, theRuntime, theHistory>>

Spawn ==
  /\ main = "spawn"
  /\ main' = "send"
  /\ client' = "up" /\ container' = "starting"
  /\ reader' = [s \in Streams |-> [does |-> "reads", chunk |-> 0]]
  /\ UNCHANGED <<todo, theJudgement, overflow, captured, closed, pipe, written, theHistory>>

(* _send: what does not fit in the pipe has to be read; a client that has  *)
(* gone makes the write fail, which is suppressed.                         *)
Send ==
  /\ main = "send"
  /\ long => container = "running" \/ ~ClientUp
  /\ main' = "check"
  /\ UNCHANGED <<todo, theJudgement, theReaders, closed, theRuntime, theHistory>>

DeadlinePasses ==
  /\ main \in {"check", "wait"} /\ ~late
  /\ late' = TRUE
  /\ UNCHANGED <<main, todo, long, timedOut, killed, returncode, report,
                 theReaders, closed, theRuntime, theHistory>>

(* The head of the loop of _finished, and what follows the loop.           *)
Check ==
  /\ main = "check" /\ ~late
  /\ main' = IF overflow THEN "decide" ELSE "wait"
  /\ UNCHANGED <<todo, theJudgement, theReaders, closed, theRuntime, theHistory>>

Seen == IF ClientUp THEN NoCode ELSE client

Poll ==
  /\ main = "check" /\ late
  /\ main' = "decide"
  /\ timedOut' = ClientUp
  /\ returncode' = Seen
  /\ UNCHANGED <<todo, long, late, killed, report, theReaders, closed, theRuntime, theHistory>>

(* process.wait(timeout=0.05), which returns or runs out.                  *)
Wait ==
  /\ main = "wait"
  /\ main' = IF ClientUp THEN "check" ELSE "decide"
  /\ returncode' = Seen
  /\ UNCHANGED <<todo, long, late, timedOut, killed, report,
                 theReaders, closed, theRuntime, theHistory>>

Exceeded == timedOut \/ overflow

Decide ==
  /\ main = "decide"
  /\ main' = IF Exceeded THEN "kill" ELSE "join"
  /\ UNCHANGED <<todo, theJudgement, theReaders, closed, theRuntime, theHistory>>

(* Mutant of KillCommand: only the client is killed. *)
KillNothing == UNCHANGED <<container, missed>>

(* The kill command is without effect when it fails, which is suppressed,  *)
(* or when there is no such container yet.                                 *)
KillCommand ==
  \/ /\ container' = IF container = "running" THEN "killed" ELSE container
     /\ missed' = (container = "starting")
  \/ /\ container' = container
     /\ missed' = TRUE

(* Mutant of KillClient: the client is trusted to end with its container. *)
SpareClient == client

(* process.kill(): nothing is sent to a process that has ended.            *)
KillClient == IF client = "up" THEN "dying" ELSE client

Kill ==
  /\ main = "kill"
  /\ KillCommand
  /\ client' = KillClient
  /\ main' = "reap"
  /\ UNCHANGED <<todo, theJudgement, theReaders, closed, pipe, written, gaveUp>>

(* The exit is waited for, but not longer than _REAP_SECONDS.              *)
Reap ==
  /\ main = "reap"
  /\ main' = "join"
  /\ returncode' = Seen
  /\ UNCHANGED <<todo, long, late, timedOut, killed, report,
                 theReaders, closed, theRuntime, theHistory>>

(* So is each of the readers, one after the other.                         *)
Join ==
  /\ main = "join"
  /\ LET left == Tail(todo)
     IN  /\ main' = IF left = << >> THEN "close" ELSE "join"
         /\ todo' = IF left = << >> THEN InOrder ELSE left
  /\ gaveUp' = (gaveUp \/ reader[Head(todo)].does # "ended")
  /\ UNCHANGED <<theJudgement, theReaders, closed, theRuntime, missed>>

(* A stream cannot be closed while a thread is inside a read of it.        *)
Close ==
  /\ main = "close"
  /\ reader[Head(todo)].does # "reads"
  /\ closed' = closed \cup {Head(todo)}
  /\ todo' = Tail(todo)
  /\ main' = IF Tail(todo) = << >> THEN "judge" ELSE "close"
  /\ UNCHANGED <<theJudgement, theReaders, theRuntime, theHistory>>

(* Mutant of KilledBy: a run that ended in time was not killed. *)
ExceededInTime == timedOut

KilledBy == Exceeded

Judge ==
  /\ main = "judge"
  /\ killed' = KilledBy
  /\ main' = "report"
  /\ UNCHANGED <<todo, long, late, timedOut, returncode, report,
                 theReaders, closed, theRuntime, theHistory>>

Report ==
  /\ main = "report"
  /\ report' = [exit |-> IF killed THEN NoCode ELSE returncode,
                output |-> captured, timed_out |-> timedOut, output_truncated |-> overflow]
  /\ main' = "done"
  /\ UNCHANGED <<todo, long, late, timedOut, killed, returncode,
                 theReaders, closed, theRuntime, theHistory>>

Ended == main \in {"done", "unavailable"}

Rest ==
  /\ Ended
  /\ UNCHANGED vars

Caller == \/ SpawnFails \/ Spawn \/ Send \/ Check \/ Poll \/ Wait \/ Decide \/ Kill \/ Reap
          \/ Join \/ Close \/ Judge \/ Report

Reader(s) == Read(s) \/ KeepChunk(s) \/ ReadEnds(s)

Runtime ==
  \/ Started \/ StartFails \/ ProgramEnds \/ ClientEnds \/ ClientLost \/ ClientDies
  \/ \E s \in Streams : Write(s)

Next == Caller \/ DeadlinePasses \/ Runtime \/ Rest \/ \E s \in Streams : Reader(s)

(* Threads run, time passes, a killed process dies, and the runtime starts *)
(* a container or says that it cannot.  Nothing is asked of the program.   *)
Fairness ==
  /\ WF_vars(Caller) /\ WF_vars(DeadlinePasses)
  /\ \A s \in Streams : WF_vars(Reader(s))
  /\ WF_vars(ClientDies) /\ WF_vars(Started \/ StartFails)

Spec == Init /\ [][Next]_vars /\ Fairness

-----------------------------------------------------------------------------
(* The result is true although the readers, the deadline and the end of    *)
(* the run race: an exit code is one the client was seen to end with by    *)
(* itself and comes with all of the output; a run that exceeded a limit is *)
(* reported as that, and one that did not is not; what is reported as      *)
(* truncated holds exactly the limit of a stream that had more.  Readers   *)
(* that outlast _REAP_SECONDS void the part about the output (run and      *)
(* _capture of sandbox.py).                                                *)
ReportIsTrue ==
  (main = "done" /\ ~gaveUp) =>
    /\ (report.exit = NoCode) = (report.timed_out \/ report.output_truncated)
    /\ report.exit # NoCode =>
         /\ report.exit \in {"exited", "failed", "lost"}
         /\ report.exit = "exited" => container = "ended"
         /\ report.output = written
    /\ report.output_truncated = \E s \in Streams : written[s] > OutputBytes
    /\ \A s \in Streams : report.output[s] = Least(written[s], OutputBytes)

(* No container outlives the run that started it, however the end, the     *)
(* deadline and the output limit fall together, unless the kill command    *)
(* was without effect or the client was lost under it (_kill of            *)
(* sandbox.py: killing only the client would leave it running).            *)
NoOrphan ==
  (main = "done" /\ container \in {"starting", "running"}) => missed \/ client = "lost"

(* Every run ends, whatever the program does and though the kill command   *)
(* may fail: nothing waits for a silent or a flooding program for ever     *)
(* (_finished, _kill and the joins of sandbox.py).                         *)
RunEnds == <>Ended
=============================================================================
