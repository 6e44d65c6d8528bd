--------------------------- MODULE SandboxProofs ---------------------------
(***************************************************************************)
(* The report of a run of the sandbox is true and no container outlives    *)
(* its run, for any limit on the output, any size of a chunk and of a      *)
(* pipe, and any amount written.                                           *)
(*                                                                         *)
(* What a reader has taken is what was written less what is in the pipe    *)
(* and in its hands: the captured output is a prefix of that, and overflow *)
(* is set exactly when some reader took more than the limit.               *)
(***************************************************************************)
EXTENDS Sandbox, TLAPS

(* How the client ends by itself, and where run is once it has decided. *)
Ends  == {"exited", "failed", "lost"}
After == {"join", "close", "judge", "report", "done"}

Live == {"starting", "running"}

Types ==
  /\ main \in {"spawn", "unavailable", "send", "check", "wait", "decide", "kill", "reap"}
              \cup After
  /\ captured \in [Streams -> Nat] /\ written \in [Streams -> Nat] /\ pipe \in [Streams -> Nat]
  /\ reader \in [Streams -> [does : {"starts", "reads", "keeps", "ended"}, chunk : Nat]]
  /\ timedOut \in BOOLEAN /\ killed \in BOOLEAN /\ overflow \in BOOLEAN
  /\ gaveUp \in BOOLEAN /\ missed \in BOOLEAN
  /\ client \in {"none", "up", "dying", "killed"} \cup Ends
  /\ container \in {"none", "never", "ended", "killed"} \cup Live

(* The client and the container, and how far run can be. *)
ProcessOK ==
  /\ main \in {"spawn", "unavailable"} =>
       /\ client = "none" /\ container = "none"
       /\ \A s \in Streams : reader[s].does = "starts"
  /\ main \notin {"spawn", "unavailable"} => client # "none" /\ container # "none"
  /\ main \in {"send", "check", "wait", "decide", "kill"} => client \in {"up"} \cup Ends
  /\ client = "exited" => container \in {"ended", "killed"}
  /\ client = "failed" => container = "never"
  /\ container = "killed" => main \in {"reap"} \cup After /\ (timedOut \/ overflow)
  /\ container \in {"none", "starting"} =>
       \A s \in Streams : written[s] = 0 /\ pipe[s] = 0 /\ reader[s].chunk = 0

(* A run that is over its limits is killed; one that is not was seen to end. *)
KillOK ==
  /\ main \in {"kill", "reap"} => timedOut \/ overflow
  /\ main \in {"decide"} \cup After =>
       timedOut \/ overflow \/ (returncode = client /\ client \in Ends)
  /\ main = "reap" => missed \/ container \notin Live
  /\ main \in After => missed \/ container \notin Live \/ client = "lost"

(* What a reader has taken from its stream. *)
Taken(s) == written[s] - (pipe[s] + reader[s].chunk)

OutputOK ==
  /\ \A s \in Streams :
       /\ reader[s].does # "keeps" => reader[s].chunk = 0
       /\ pipe[s] + reader[s].chunk <= written[s]
       /\ captured[s] = Least(Taken(s), OutputBytes)
  /\ overflow <=> \E s \in Streams : Taken(s) > OutputBytes

(* The joins and the closing of the streams.  A reader that has ended in   *)
(* time has seen the end of its stream.                                    *)
JoinOK ==
  /\ closed # {} => main \in After \ {"join"}
  /\ main \notin After => todo = InOrder
  /\ main = "join" =>
       todo = InOrder \/ (todo = <<"stderr">> /\ (gaveUp \/ reader["stdout"].does = "ended"))
  /\ main = "close" => todo = InOrder \/ todo = <<"stderr">>
  /\ main \in After \ {"join"} => gaveUp \/ \A s \in Streams : reader[s].does = "ended"
  /\ gaveUp \/ \A s \in Streams : reader[s].does = "ended" =>
       pipe[s] = 0 /\ client \in {"killed"} \cup Ends

ReportOK ==
  /\ main \in {"report", "done"} => gaveUp \/ (killed <=> (timedOut \/ overflow))
  /\ main = "done" =>
       \/ gaveUp
       \/ report = [exit |-> IF killed THEN NoCode ELSE returncode, output |-> captured,
                    timed_out |-> timedOut, output_truncated |-> overflow]

IInv ==
  /\ Types
  /\ ProcessOK
  /\ KillOK
  /\ OutputOK
  /\ JoinOK
  /\ ReportOK

-----------------------------------------------------------------------------
(* What is left to join or to close, by how much is done. *)
LEMMA TodoFacts ==
  /\ Head(InOrder) = "stdout" /\ Tail(InOrder) = <<"stderr">> /\ <<"stderr">> # << >>
  /\ Head(<<"stderr">>) = "stderr" /\ Tail(<<"stderr">>) = << >>
BY DEF InOrder

(* A step that moves bytes on their way to a reader's result. *)
LEMMA TakenSame ==
  ASSUME OutputOK, UNCHANGED <<captured, overflow>>,
         \A s \in Streams : Taken(s)' = Taken(s),
         \A s \in Streams : pipe'[s] + reader'[s].chunk <= written'[s],
         \A s \in Streams : reader'[s].does # "keeps" => reader'[s].chunk = 0
  PROVE  OutputOK'
BY DEF OutputOK, Least

(* What a reader keeps of a chunk fills the limit and no more, and it      *)
(* raises the event exactly when it had to cut.                            *)
LEMMA KeptFacts ==
  ASSUME IInv, NEW s \in Streams, reader[s].does = "keeps"
  PROVE  LET kept == captured[s] + Least(reader[s].chunk, Room(s))
         IN  /\ kept \in Nat /\ kept = Least(Taken(s) + reader[s].chunk, OutputBytes)
             /\ (overflow \/ reader[s].chunk > Room(s))
                  <=> (overflow \/ Taken(s) + reader[s].chunk > OutputBytes)
             /\ Taken(s) \in Nat /\ reader[s].chunk \in Nat
             /\ pipe[s] \in Nat /\ written[s] \in Nat /\ pipe[s] + reader[s].chunk <= written[s]
<1> DEFINE c == reader[s].chunk
           t == Taken(s)
<1>1. c \in Nat /\ pipe[s] \in Nat /\ written[s] \in Nat /\ pipe[s] + c <= written[s]
  BY DEF IInv, Types, OutputOK
<1>2. t \in Nat
  BY <1>1 DEF Taken
<1>3. captured[s] = IF t <= OutputBytes THEN t ELSE OutputBytes
  BY DEF IInv, OutputOK, Least
<1>4. OutputBytes \in Nat
  BY SizesAssumption
<1>5. t > OutputBytes => overflow
  BY DEF IInv, OutputOK
<1> HIDE DEF c, t
<1>6. Room(s) = IF t <= OutputBytes THEN OutputBytes - t ELSE 0
  BY <1>2, <1>3, <1>4 DEF Room
<1>7. captured[s] + Least(c, Room(s)) = Least(t + c, OutputBytes)
  BY <1>1, <1>2, <1>3, <1>4, <1>6 DEF Least
<1>8. Least(t + c, OutputBytes) \in Nat
  BY <1>1, <1>2, <1>4 DEF Least
<1>9. (overflow \/ c > Room(s)) <=> (overflow \/ t + c > OutputBytes)
  BY <1>1, <1>2, <1>4, <1>5, <1>6
<1>10. QED BY <1>1, <1>2, <1>7, <1>8, <1>9 DEF c, t

(* The container runtime. *)
LEMMA StartedIInv == ASSUME IInv, Started PROVE IInv'
<1>1. Types'
  BY DEF Started, theCaller, theReaders, theHistory, IInv, Types, Ends, After, Live
<1>2. ProcessOK'
  BY DEF Started, theCaller, theReaders, theHistory, IInv, Types, ProcessOK, Ends, After,
     Live
<1>3. KillOK'
  BY DEF Started, theCaller, theReaders, theHistory, IInv, Types, KillOK, Ends, After,
     Live
<1>4. OutputOK'
  BY DEF Started, theCaller, theReaders, theHistory, IInv, Types, OutputOK, Taken, Least
<1>5. JoinOK'
  BY DEF Started, theCaller, theReaders, theHistory, IInv, Types, JoinOK, Ends, After
<1>6. ReportOK'
  BY DEF Started, theCaller, theReaders, theHistory, IInv, Types, ReportOK, After
<1>7. QED BY <1>1, <1>2, <1>3, <1>4, <1>5, <1>6 DEF IInv

LEMMA StartFailsIInv == ASSUME IInv, StartFails PROVE IInv'
<1>1. Types'
  BY DEF StartFails, theCaller, theReaders, theHistory, IInv, Types, Ends, After, Live
<1>2. ProcessOK'
  BY DEF StartFails, theCaller, theReaders, theHistory, IInv, Types, ProcessOK, Ends,
     After, Live
<1>3. KillOK'
  BY DEF StartFails, theCaller, theReaders, theHistory, IInv, Types, KillOK, Ends, After,
     Live
<1>4. OutputOK'
  <2>1. /\ container = "starting" /\ pipe' = [pipe EXCEPT !["stderr"] = 1]
        /\ written' = [written EXCEPT !["stderr"] = 1] /\ UNCHANGED <<reader, captured, overflow>>
    BY DEF StartFails, theReaders
  <2>2. \A s \in Streams : /\ Taken(s)' = Taken(s)
                           /\ pipe'[s] + reader'[s].chunk <= written'[s]
    BY <2>1 DEF IInv, Types, ProcessOK, Taken
  <2>3. QED BY <2>1, <2>2, TakenSame DEF IInv, OutputOK
<1>5. JoinOK'
  BY DEF StartFails, theCaller, theReaders, theHistory, IInv, Types, JoinOK, Ends, After
<1>6. ReportOK'
  BY DEF StartFails, theCaller, theReaders, theHistory, IInv, Types, ReportOK, After
<1>7. QED BY <1>1, <1>2, <1>3, <1>4, <1>5, <1>6 DEF IInv

LEMMA WriteIInv == ASSUME IInv, NEW s \in Streams, Write(s) PROVE IInv'
<1>1. Types'
  BY SizesAssumption DEF Write, theCaller, theReaders, theHistory, IInv, Types, Ends,
     After, Live
<1>2. ProcessOK'
  BY DEF Write, theCaller, theReaders, theHistory, IInv, Types, ProcessOK, Ends, After,
     Live
<1>3. KillOK'
  BY DEF Write, theCaller, theReaders, theHistory, IInv, Types, KillOK, Ends, After, Live
<1>4. OutputOK'
  <2>1. /\ pipe' = [pipe EXCEPT ![s] = @ + 1] /\ written' = [written EXCEPT ![s] = @ + 1]
        /\ UNCHANGED <<reader, captured, overflow>>
    BY DEF Write, theReaders
  <2>2. \A t \in Streams : /\ Taken(t)' = Taken(t)
                           /\ pipe'[t] + reader'[t].chunk <= written'[t]
    BY <2>1 DEF IInv, Types, OutputOK, Taken
  <2>3. QED BY <2>1, <2>2, TakenSame DEF IInv, OutputOK
<1>5. JoinOK'
  BY DEF Write, theCaller, theReaders, theHistory, IInv, Types, JoinOK, Ends, After
<1>6. ReportOK'
  BY DEF Write, theCaller, theReaders, theHistory, IInv, Types, ReportOK, After
<1>7. QED BY <1>1, <1>2, <1>3, <1>4, <1>5, <1>6 DEF IInv

LEMMA ProgramEndsIInv == ASSUME IInv, ProgramEnds PROVE IInv'
<1>1. Types'
  BY DEF ProgramEnds, theCaller, theReaders, theHistory, IInv, Types, Ends, After, Live
<1>2. ProcessOK'
  BY DEF ProgramEnds, theCaller, theReaders, theHistory, IInv, Types, ProcessOK, Ends,
     After, Live
<1>3. KillOK'
  BY DEF ProgramEnds, theCaller, theReaders, theHistory, IInv, Types, KillOK, Ends, After,
     Live
<1>4. OutputOK'
  BY DEF ProgramEnds, theCaller, theReaders, theHistory, IInv, Types, OutputOK, Taken,
     Least
<1>5. JoinOK'
  BY DEF ProgramEnds, theCaller, theReaders, theHistory, IInv, Types, JoinOK, Ends, After
<1>6. ReportOK'
  BY DEF ProgramEnds, theCaller, theReaders, theHistory, IInv, Types, ReportOK, After
<1>7. QED BY <1>1, <1>2, <1>3, <1>4, <1>5, <1>6 DEF IInv

LEMMA ClientEndsIInv == ASSUME IInv, ClientEnds PROVE IInv'
<1>1. Types'
  BY DEF ClientEnds, theCaller, theReaders, theHistory, IInv, Types, Ends, After, Live
<1>2. ProcessOK'
  BY DEF ClientEnds, theCaller, theReaders, theHistory, IInv, Types, ProcessOK, Ends,
     After, Live
<1>3. KillOK'
  BY DEF ClientEnds, theCaller, theReaders, theHistory, IInv, Types, KillOK, Ends, After,
     Live
<1>4. OutputOK'
  BY DEF ClientEnds, theCaller, theReaders, theHistory, IInv, Types, OutputOK, Taken,
     Least
<1>5. JoinOK'
  BY DEF ClientEnds, theCaller, theReaders, theHistory, IInv, Types, JoinOK, Ends, After
<1>6. ReportOK'
  BY DEF ClientEnds, theCaller, theReaders, theHistory, IInv, Types, ReportOK, After
<1>7. QED BY <1>1, <1>2, <1>3, <1>4, <1>5, <1>6 DEF IInv

LEMMA ClientLostIInv == ASSUME IInv, ClientLost PROVE IInv'
<1>1. Types'
  BY DEF ClientLost, theCaller, theReaders, theHistory, IInv, Types, Ends, After, Live
<1>2. ProcessOK'
  BY DEF ClientLost, theCaller, theReaders, theHistory, IInv, Types, ProcessOK, Ends,
     After, Live
<1>3. KillOK'
  BY DEF ClientLost, theCaller, theReaders, theHistory, IInv, Types, KillOK, Ends, After,
     Live
<1>4. OutputOK'
  BY DEF ClientLost, theCaller, theReaders, theHistory, IInv, Types, OutputOK, Taken,
     Least
<1>5. JoinOK'
  BY DEF ClientLost, theCaller, theReaders, theHistory, IInv, Types, JoinOK, Ends, After
<1>6. ReportOK'
  BY DEF ClientLost, theCaller, theReaders, theHistory, IInv, Types, ReportOK, After
<1>7. QED BY <1>1, <1>2, <1>3, <1>4, <1>5, <1>6 DEF IInv

LEMMA ClientDiesIInv == ASSUME IInv, ClientDies PROVE IInv'
<1>1. Types'
  BY DEF ClientDies, theCaller, theReaders, theHistory, IInv, Types, Ends, After, Live
<1>2. ProcessOK'
  BY DEF ClientDies, theCaller, theReaders, theHistory, IInv, Types, ProcessOK, Ends,
     After, Live
<1>3. KillOK'
  BY DEF ClientDies, theCaller, theReaders, theHistory, IInv, Types, KillOK, Ends, After,
     Live
<1>4. OutputOK'
  BY DEF ClientDies, theCaller, theReaders, theHistory, IInv, Types, OutputOK, Taken,
     Least
<1>5. JoinOK'
  BY DEF ClientDies, theCaller, theReaders, theHistory, IInv, Types, JoinOK, Ends, After
<1>6. ReportOK'
  BY DEF ClientDies, theCaller, theReaders, theHistory, IInv, Types, ReportOK, After
<1>7. QED BY <1>1, <1>2, <1>3, <1>4, <1>5, <1>6 DEF IInv

(* The readers. *)
LEMMA ReadIInv == ASSUME IInv, NEW s \in Streams, Read(s) PROVE IInv'
<1>1. Types'
  <2> DEFINE size == Least(pipe[s], ChunkBytes)
  <2>1. size \in Nat /\ size <= pipe[s] /\ pipe[s] \in Nat
    BY SizesAssumption DEF Least, IInv, Types
  <2>2. /\ reader' = [reader EXCEPT ![s] = [does |-> "keeps", chunk |-> size]]
        /\ pipe' = [pipe EXCEPT ![s] = pipe[s] - size]
        /\ UNCHANGED <<main, timedOut, killed, overflow, captured, client, container, written,
                       gaveUp, missed>>
    BY DEF Read, theCaller, theHistory, IInv, Types
  <2> HIDE DEF size
  <2>3. pipe[s] - size \in Nat
    BY <2>1
  <2>4. /\ reader' \in [Streams -> [does : {"starts", "reads", "keeps", "ended"}, chunk : Nat]]
        /\ pipe' \in [Streams -> Nat]
    BY <2>1, <2>2, <2>3 DEF IInv, Types
  <2>5. QED BY <2>2, <2>4 DEF IInv, Types
<1>2. ProcessOK'
  BY DEF Read, theCaller, theHistory, IInv, Types, ProcessOK, Ends, After, Live
<1>3. KillOK'
  BY DEF Read, theCaller, theHistory, IInv, Types, KillOK, Ends, After, Live
<1>4. OutputOK'
  <2> DEFINE size == Least(pipe[s], ChunkBytes)
  <2>1. size \in Nat /\ size <= pipe[s] /\ pipe[s] \in Nat
    BY SizesAssumption DEF Least, IInv, Types
  <2>2. /\ reader' = [reader EXCEPT ![s] = [does |-> "keeps", chunk |-> size]]
        /\ pipe' = [pipe EXCEPT ![s] = pipe[s] - size] /\ reader[s].does = "reads"
        /\ UNCHANGED <<overflow, captured, written>>
    BY DEF Read, IInv, Types
  <2> HIDE DEF size
  <2>3. /\ reader'[s].does = "keeps" /\ reader'[s].chunk = size /\ pipe'[s] = pipe[s] - size
        /\ \A t \in Streams : t # s => reader'[t] = reader[t] /\ pipe'[t] = pipe[t]
    BY <2>2 DEF IInv, Types
  <2>4. reader[s].chunk = 0 /\ written[s] \in Nat
    BY <2>2 DEF IInv, Types, OutputOK
  <2>5. \A t \in Streams : /\ Taken(t)' = Taken(t)
                           /\ pipe'[t] + reader'[t].chunk <= written'[t]
                           /\ reader'[t].does # "keeps" => reader'[t].chunk = 0
    <3>1. Taken(s)' = Taken(s) /\ pipe'[s] + reader'[s].chunk <= written'[s]
      BY <2>1, <2>2, <2>3, <2>4 DEF IInv, OutputOK, Taken
    <3>2. QED BY <2>2, <2>3, <3>1 DEF IInv, OutputOK, Taken
  <2>6. QED BY <2>2, <2>5, TakenSame DEF IInv
<1>5. JoinOK'
  BY DEF Read, theCaller, theHistory, IInv, Types, JoinOK, Ends, After
<1>6. ReportOK'
  BY DEF Read, theCaller, theHistory, IInv, Types, ReportOK, After
<1>7. QED BY <1>1, <1>2, <1>3, <1>4, <1>5, <1>6 DEF IInv

LEMMA KeepChunkIInv == ASSUME IInv, NEW s \in Streams, KeepChunk(s) PROVE IInv'
<1>1. Types'
  <2>1. overflow' \in BOOLEAN
    BY Zenon DEF KeepChunk
  <2>2. /\ captured' = [captured EXCEPT ![s] = @ + Least(reader[s].chunk, Room(s))]
        /\ reader' = [reader EXCEPT ![s] =
                        [does |-> IF s \in closed THEN "ended" ELSE "reads", chunk |-> 0]]
        /\ UNCHANGED <<main, timedOut, killed, pipe, client, container, written, gaveUp, missed>>
    BY DEF KeepChunk, theCaller, theRuntime, theHistory
  <2>3. captured[s] + Least(reader[s].chunk, Room(s)) \in Nat
    BY KeptFacts DEF KeepChunk
  <2> DEFINE kept == captured[s] + Least(reader[s].chunk, Room(s))
  <2>4. captured' = [captured EXCEPT ![s] = kept]
    BY <2>2 DEF IInv, Types
  <2> HIDE DEF kept
  <2>5. captured' \in [Streams -> Nat]
    BY <2>3, <2>4 DEF IInv, Types, kept
  <2>6. reader' \in [Streams -> [does : {"starts", "reads", "keeps", "ended"}, chunk : Nat]]
    BY <2>2 DEF IInv, Types
  <2>7. QED BY <2>1, <2>2, <2>5, <2>6 DEF IInv, Types
<1>2. ProcessOK'
  BY DEF KeepChunk, theCaller, theRuntime, theHistory, IInv, Types, ProcessOK, Ends,
     After, Live
<1>3. KillOK'
  BY DEF KeepChunk, theCaller, theRuntime, theHistory, IInv, Types, KillOK, Ends, After,
     Live
<1>4. OutputOK'
  <2> DEFINE kept == captured[s] + Least(reader[s].chunk, Room(s))
  <2>1. /\ captured' = [captured EXCEPT ![s] = kept]
        /\ overflow' <=> (overflow \/ reader[s].chunk > Room(s))
        /\ reader' = [reader EXCEPT ![s] =
                        [does |-> IF s \in closed THEN "ended" ELSE "reads", chunk |-> 0]]
        /\ UNCHANGED <<pipe, written>>
    BY DEF KeepChunk, theRuntime, IInv, Types
  <2>2. /\ kept = Least(Taken(s) + reader[s].chunk, OutputBytes)
        /\ (overflow \/ reader[s].chunk > Room(s))
             <=> (overflow \/ Taken(s) + reader[s].chunk > OutputBytes)
        /\ Taken(s) \in Nat /\ reader[s].chunk \in Nat
        /\ pipe[s] \in Nat /\ written[s] \in Nat /\ pipe[s] + reader[s].chunk <= written[s]
    BY KeptFacts DEF KeepChunk
  <2> HIDE DEF kept
  <2>3. /\ captured'[s] = kept /\ reader'[s].chunk = 0
        /\ \A t \in Streams : t # s => captured'[t] = captured[t] /\ reader'[t] = reader[t]
    BY <2>1 DEF IInv, Types
  <2>4. Taken(s)' = Taken(s) + reader[s].chunk
    BY <2>1, <2>2, <2>3 DEF Taken
  <2>5. \A t \in Streams : t # s => Taken(t)' = Taken(t)
    BY <2>1, <2>3 DEF Taken
  <2>6. ASSUME NEW t \in Streams
        PROVE  /\ reader'[t].does # "keeps" => reader'[t].chunk = 0
               /\ pipe'[t] + reader'[t].chunk <= written'[t]
               /\ captured'[t] = Least(Taken(t)', OutputBytes)
    <3>1. CASE t = s
      BY <2>1, <2>2, <2>3, <2>4, <3>1
    <3>2. CASE t # s
      BY <2>1, <2>3, <2>5, <3>2 DEF IInv, OutputOK
    <3>3. QED BY <3>1, <3>2
  <2>7. overflow' <=> \E t \in Streams : Taken(t)' > OutputBytes
    <3>1. overflow <=> \E t \in Streams : Taken(t) > OutputBytes
      BY DEF IInv, OutputOK
    <3>2. Taken(s) > OutputBytes => Taken(s)' > OutputBytes
      BY <2>2, <2>4, SizesAssumption
    <3>3. overflow' <=> (overflow \/ Taken(s)' > OutputBytes)
      BY <2>1, <2>2, <2>4
    <3>4. QED BY <2>5, <3>1, <3>2, <3>3
  <2>8. QED BY <2>6, <2>7 DEF OutputOK, Least
<1>5. JoinOK'
  BY DEF KeepChunk, theCaller, theRuntime, theHistory, IInv, Types, JoinOK, Ends, After,
     Streams, ProcessOK
<1>6. ReportOK'
  <2>1. reader[s].does = "keeps" /\ UNCHANGED <<main, gaveUp>>
    BY DEF KeepChunk, theCaller, theHistory
  <2>2. main \in {"report", "done"} => gaveUp
    BY <2>1 DEF IInv, JoinOK, After
  <2>3. QED BY <2>1, <2>2 DEF ReportOK
<1>7. QED BY <1>1, <1>2, <1>3, <1>4, <1>5, <1>6 DEF IInv

LEMMA ReadEndsIInv == ASSUME IInv, NEW s \in Streams, ReadEnds(s) PROVE IInv'
<1>1. Types'
  BY DEF ReadEnds, theCaller, theRuntime, theHistory, ClientUp, IInv, Types, Ends, After,
     Live
<1>2. ProcessOK'
  BY DEF ReadEnds, theCaller, theRuntime, theHistory, ClientUp, IInv, Types, ProcessOK,
     Ends, After, Live
<1>3. KillOK'
  BY DEF ReadEnds, theCaller, theRuntime, theHistory, ClientUp, IInv, Types, KillOK, Ends,
     After, Live
<1>4. OutputOK'
  BY DEF ReadEnds, theCaller, theRuntime, theHistory, ClientUp, IInv, Types, OutputOK,
     Taken, Least
<1>5. JoinOK'
  <2>1. /\ reader[s].does = "reads" /\ pipe[s] = 0 /\ ~ClientUp
        /\ reader' = [reader EXCEPT ![s].does = "ended"]
        /\ UNCHANGED <<main, todo, closed, gaveUp, pipe, client>>
    BY DEF ReadEnds, theCaller, theRuntime, theHistory
  <2>2. client \in {"killed"} \cup Ends
    BY <2>1 DEF IInv, Types, ProcessOK, ClientUp
  <2>3. /\ reader'[s].does = "ended"
        /\ \A t \in Streams : t # s => reader'[t] = reader[t]
    BY <2>1 DEF IInv, Types
  <2>4. "stdout" \in Streams /\ \A t \in Streams : reader[t].does = "ended" => reader'[t].does = "ended"
    BY <2>3 DEF Streams
  <2>5. QED BY <2>1, <2>2, <2>3, <2>4 DEF IInv, JoinOK
<1>6. ReportOK'
  BY DEF ReadEnds, theCaller, theRuntime, theHistory, ClientUp, IInv, Types, ReportOK,
     After
<1>7. QED BY <1>1, <1>2, <1>3, <1>4, <1>5, <1>6 DEF IInv

(* The calling thread. *)
LEMMA SpawnFailsIInv == ASSUME IInv, SpawnFails PROVE IInv'
<1>1. Types'
  BY DEF SpawnFails, theReaders, theRuntime, theHistory, theJudgement, IInv, Types, Ends,
     After, Live
<1>2. ProcessOK'
  BY DEF SpawnFails, theReaders, theRuntime, theHistory, theJudgement, IInv, Types,
     ProcessOK, Ends, After, Live
<1>3. KillOK'
  BY DEF SpawnFails, theReaders, theRuntime, theHistory, theJudgement, IInv, Types,
     KillOK, Ends, After, Live
<1>4. OutputOK'
  BY DEF SpawnFails, theReaders, theRuntime, theHistory, theJudgement, IInv, Types,
     OutputOK, Taken, Least
<1>5. JoinOK'
  BY DEF SpawnFails, theReaders, theRuntime, theHistory, theJudgement, IInv, Types,
     JoinOK, Ends, After
<1>6. ReportOK'
  BY DEF SpawnFails, theReaders, theRuntime, theHistory, theJudgement, IInv, Types,
     ReportOK, After
<1>7. QED BY <1>1, <1>2, <1>3, <1>4, <1>5, <1>6 DEF IInv

LEMMA SpawnIInv == ASSUME IInv, Spawn PROVE IInv'
<1>1. Types'
  BY DEF Spawn, theHistory, theJudgement, IInv, Types, Ends, After, Live
<1>2. ProcessOK'
  BY DEF Spawn, theHistory, theJudgement, IInv, Types, ProcessOK, Ends, After, Live
<1>3. KillOK'
  BY DEF Spawn, theHistory, theJudgement, IInv, Types, KillOK, Ends, After, Live
<1>4. OutputOK'
  <2>1. /\ container = "none" /\ UNCHANGED <<pipe, written, captured, overflow>>
        /\ reader' = [s \in Streams |-> [does |-> "reads", chunk |-> 0]]
    BY DEF Spawn, IInv, ProcessOK
  <2>2. \A s \in Streams : /\ Taken(s)' = Taken(s) /\ reader'[s].chunk = 0
                           /\ pipe'[s] + reader'[s].chunk <= written'[s]
    BY <2>1 DEF IInv, Types, ProcessOK, Taken
  <2>3. QED BY <2>1, <2>2, TakenSame DEF IInv, OutputOK
<1>5. JoinOK'
  BY DEF Spawn, theHistory, theJudgement, IInv, Types, JoinOK, Ends, After, Streams,
     ProcessOK
<1>6. ReportOK'
  BY DEF Spawn, theHistory, theJudgement, IInv, Types, ReportOK, After
<1>7. QED BY <1>1, <1>2, <1>3, <1>4, <1>5, <1>6 DEF IInv

LEMMA SendIInv == ASSUME IInv, Send PROVE IInv'
<1>1. Types'
  BY DEF Send, theReaders, theRuntime, theHistory, theJudgement, ClientUp, IInv, Types,
     Ends, After, Live
<1>2. ProcessOK'
  BY DEF Send, theReaders, theRuntime, theHistory, theJudgement, ClientUp, IInv, Types,
     ProcessOK, Ends, After, Live
<1>3. KillOK'
  BY DEF Send, theReaders, theRuntime, theHistory, theJudgement, ClientUp, IInv, Types,
     KillOK, Ends, After, Live
<1>4. OutputOK'
  BY DEF Send, theReaders, theRuntime, theHistory, theJudgement, ClientUp, IInv, Types,
     OutputOK, Taken, Least
<1>5. JoinOK'
  BY DEF Send, theReaders, theRuntime, theHistory, theJudgement, ClientUp, IInv, Types,
     JoinOK, Ends, After
<1>6. ReportOK'
  BY DEF Send, theReaders, theRuntime, theHistory, theJudgement, ClientUp, IInv, Types,
     ReportOK, After
<1>7. QED BY <1>1, <1>2, <1>3, <1>4, <1>5, <1>6 DEF IInv

LEMMA DeadlinePassesIInv == ASSUME IInv, DeadlinePasses PROVE IInv'
<1>1. Types'
  BY DEF DeadlinePasses, theReaders, theRuntime, theHistory, IInv, Types, Ends, After,
     Live
<1>2. ProcessOK'
  BY DEF DeadlinePasses, theReaders, theRuntime, theHistory, IInv, Types, ProcessOK, Ends,
     After, Live
<1>3. KillOK'
  BY DEF DeadlinePasses, theReaders, theRuntime, theHistory, IInv, Types, KillOK, Ends,
     After, Live
<1>4. OutputOK'
  BY DEF DeadlinePasses, theReaders, theRuntime, theHistory, IInv, Types, OutputOK, Taken,
     Least
<1>5. JoinOK'
  BY DEF DeadlinePasses, theReaders, theRuntime, theHistory, IInv, Types, JoinOK, Ends,
     After
<1>6. ReportOK'
  BY DEF DeadlinePasses, theReaders, theRuntime, theHistory, IInv, Types, ReportOK, After
<1>7. QED BY <1>1, <1>2, <1>3, <1>4, <1>5, <1>6 DEF IInv

LEMMA CheckIInv == ASSUME IInv, Check PROVE IInv'
<1>1. Types'
  BY DEF Check, theReaders, theRuntime, theHistory, theJudgement, IInv, Types, Ends,
     After, Live
<1>2. ProcessOK'
  BY DEF Check, theReaders, theRuntime, theHistory, theJudgement, IInv, Types, ProcessOK,
     Ends, After, Live
<1>3. KillOK'
  BY DEF Check, theReaders, theRuntime, theHistory, theJudgement, IInv, Types, KillOK,
     Ends, After, Live
<1>4. OutputOK'
  BY DEF Check, theReaders, theRuntime, theHistory, theJudgement, IInv, Types, OutputOK,
     Taken, Least
<1>5. JoinOK'
  BY DEF Check, theReaders, theRuntime, theHistory, theJudgement, IInv, Types, JoinOK,
     Ends, After
<1>6. ReportOK'
  BY DEF Check, theReaders, theRuntime, theHistory, theJudgement, IInv, Types, ReportOK,
     After
<1>7. QED BY <1>1, <1>2, <1>3, <1>4, <1>5, <1>6 DEF IInv

LEMMA PollIInv == ASSUME IInv, Poll PROVE IInv'
<1>1. Types'
  <2>1. timedOut' \in BOOLEAN
    <3>1. timedOut' = (client \in {"up", "dying"})
      BY DEF Poll, ClientUp
    <3>2. CASE client \in {"up", "dying"}
      BY <3>1, <3>2, Zenon
    <3>3. CASE client \notin {"up", "dying"}
      BY <3>1, <3>3, SMT
    <3>4. QED BY <3>2, <3>3
  <2>2. main' = "decide" /\ UNCHANGED <<captured, written, pipe, reader, killed, overflow, gaveUp,
                                        missed, client, container>>
    BY DEF Poll, theReaders, theRuntime, theHistory
  <2>3. QED BY <2>1, <2>2 DEF IInv, Types
<1>2. ProcessOK'
  BY DEF Poll, theReaders, theRuntime, theHistory, ClientUp, Seen, IInv, Types, ProcessOK,
     Ends, After, Live
<1>3. KillOK'
  <2>1. client \in {"up"} \cup Ends /\ main' = "decide" /\ client' = client
    BY DEF Poll, theRuntime, IInv, ProcessOK
  <2>2. CASE ClientUp
    <3>1. timedOut' = TRUE
      BY <2>2 DEF Poll
    <3>2. QED BY <2>1, <3>1 DEF KillOK, After
  <2>3. CASE ~ClientUp
    <3>1. returncode' = client /\ client \in Ends
      BY <2>1, <2>3 DEF Poll, Seen, ClientUp
    <3>2. QED BY <2>1, <3>1 DEF KillOK, After
  <2>4. QED BY <2>2, <2>3
<1>4. OutputOK'
  BY DEF Poll, theReaders, theRuntime, theHistory, ClientUp, Seen, IInv, Types, OutputOK,
     Taken, Least
<1>5. JoinOK'
  BY DEF Poll, theReaders, theRuntime, theHistory, ClientUp, Seen, IInv, Types, JoinOK,
     Ends, After
<1>6. ReportOK'
  BY DEF Poll, theReaders, theRuntime, theHistory, ClientUp, Seen, IInv, Types, ReportOK,
     After
<1>7. QED BY <1>1, <1>2, <1>3, <1>4, <1>5, <1>6 DEF IInv

LEMMA WaitIInv == ASSUME IInv, Wait PROVE IInv'
<1>1. Types'
  BY DEF Wait, theReaders, theRuntime, theHistory, ClientUp, Seen, IInv, Types, Ends,
     After, Live
<1>2. ProcessOK'
  BY DEF Wait, theReaders, theRuntime, theHistory, ClientUp, Seen, IInv, Types, ProcessOK,
     Ends, After, Live
<1>3. KillOK'
  <2>1. client \in {"up"} \cup Ends /\ client' = client
    BY DEF Wait, theRuntime, IInv, ProcessOK
  <2>2. CASE ClientUp
    BY <2>2 DEF Wait, KillOK, After
  <2>3. CASE ~ClientUp
    <3>1. returncode' = client /\ client \in Ends /\ main' = "decide"
      BY <2>1, <2>3 DEF Wait, Seen, ClientUp
    <3>2. QED BY <2>1, <3>1 DEF KillOK, After
  <2>4. QED BY <2>2, <2>3
<1>4. OutputOK'
  BY DEF Wait, theReaders, theRuntime, theHistory, ClientUp, Seen, IInv, Types, OutputOK,
     Taken, Least
<1>5. JoinOK'
  BY DEF Wait, theReaders, theRuntime, theHistory, ClientUp, Seen, IInv, Types, JoinOK,
     Ends, After
<1>6. ReportOK'
  BY DEF Wait, theReaders, theRuntime, theHistory, ClientUp, Seen, IInv, Types, ReportOK,
     After
<1>7. QED BY <1>1, <1>2, <1>3, <1>4, <1>5, <1>6 DEF IInv

LEMMA DecideIInv == ASSUME IInv, Decide PROVE IInv'
<1>1. Types'
  BY DEF Decide, theReaders, theRuntime, theHistory, theJudgement, Exceeded, IInv, Types,
     Ends, After, Live
<1>2. ProcessOK'
  BY DEF Decide, theReaders, theRuntime, theHistory, theJudgement, Exceeded, IInv, Types,
     ProcessOK, Ends, After, Live
<1>3. KillOK'
  <2>1. /\ UNCHANGED <<timedOut, overflow, returncode, client, missed, container>>
        /\ main' = IF timedOut \/ overflow THEN "kill" ELSE "join"
    BY DEF Decide, Exceeded, theJudgement, theReaders, theRuntime, theHistory
  <2>2. timedOut \/ overflow \/ (returncode = client /\ client \in Ends)
    BY DEF Decide, IInv, KillOK
  <2>3. CASE timedOut \/ overflow
    BY <2>1, <2>3 DEF KillOK, After
  <2>4. CASE ~(timedOut \/ overflow)
    <3>1. returncode = client /\ client \in Ends /\ main' = "join"
      BY <2>1, <2>2, <2>4
    <3>2. container \notin Live \/ client = "lost"
      BY <3>1 DEF IInv, ProcessOK, Ends, Live
    <3>3. QED BY <2>1, <3>1, <3>2 DEF KillOK, After
  <2>5. QED BY <2>3, <2>4
<1>4. OutputOK'
  BY DEF Decide, theReaders, theRuntime, theHistory, theJudgement, Exceeded, IInv, Types,
     OutputOK, Taken, Least
<1>5. JoinOK'
  BY DEF Decide, theReaders, theRuntime, theHistory, theJudgement, Exceeded, IInv, Types,
     JoinOK, Ends, After
<1>6. ReportOK'
  BY DEF Decide, theReaders, theRuntime, theHistory, theJudgement, Exceeded, IInv, Types,
     ReportOK, After
<1>7. QED BY <1>1, <1>2, <1>3, <1>4, <1>5, <1>6 DEF IInv

LEMMA KillIInv == ASSUME IInv, Kill PROVE IInv'
<1>1. Types'
  <2>1. missed' \in BOOLEAN /\ container' \in {"none", "never", "ended", "killed"} \cup Live
    <3>1. CASE container' = container /\ missed' = TRUE
      BY <3>1 DEF IInv, Types
    <3>2. CASE /\ container' = IF container = "running" THEN "killed" ELSE container
               /\ missed' = (container = "starting")
      <4>1. missed' \in BOOLEAN
        BY <3>2, Zenon
      <4>2. container' \in {"none", "never", "ended", "killed"} \cup Live
        BY <3>2 DEF IInv, Types
      <4>3. QED BY <4>1, <4>2
    <3>3. QED BY <3>1, <3>2 DEF Kill, KillCommand
  <2>2. client' \in {"none", "up", "dying", "killed"} \cup Ends
    BY DEF Kill, KillClient, IInv, Types
  <2>3. main' = "reap" /\ UNCHANGED <<captured, written, pipe, reader, timedOut, killed, overflow,
                                      gaveUp>>
    BY DEF Kill, theJudgement, theReaders
  <2>4. QED BY <2>1, <2>2, <2>3 DEF IInv, Types
<1>2. ProcessOK'
  <2>1. /\ main = "kill" /\ main' = "reap"
        /\ UNCHANGED <<written, pipe, reader, timedOut, overflow>>
        /\ timedOut \/ overflow
    BY DEF Kill, theReaders, theJudgement, IInv, KillOK
  <2>2. client' = KillClient
    BY DEF Kill
  <2>3. container' = container \/ (container = "running" /\ container' = "killed")
    BY DEF Kill, KillCommand
  <2>4. /\ client' # "none" /\ container' # "none"
        /\ client' = "exited" => container' \in {"ended", "killed"}
        /\ client' = "failed" => container' = "never"
    BY <2>1, <2>2, <2>3 DEF KillClient, IInv, ProcessOK
  <2>5. container' \in {"none", "starting"} =>
          \A s \in Streams : written'[s] = 0 /\ pipe'[s] = 0 /\ reader'[s].chunk = 0
    BY <2>1, <2>3 DEF IInv, ProcessOK
  <2>6. QED BY <2>1, <2>4, <2>5 DEF ProcessOK
<1>3. KillOK'
  <2>1. missed' \/ container' \notin Live
    BY DEF Kill, KillCommand, Live
  <2>2. (timedOut \/ overflow) /\ UNCHANGED <<timedOut, overflow>> /\ main' = "reap"
    BY DEF Kill, theJudgement, theReaders, IInv, KillOK
  <2>3. QED BY <2>1, <2>2 DEF KillOK, After
<1>4. OutputOK'
  BY DEF Kill, theReaders, theJudgement, KillCommand, KillClient, IInv, Types, OutputOK,
     Taken, Least
<1>5. JoinOK'
  BY DEF Kill, theReaders, theJudgement, KillCommand, KillClient, IInv, Types, JoinOK,
     Ends, After
<1>6. ReportOK'
  BY DEF Kill, theReaders, theJudgement, KillCommand, KillClient, IInv, Types, ReportOK,
     After
<1>7. QED BY <1>1, <1>2, <1>3, <1>4, <1>5, <1>6 DEF IInv

LEMMA ReapIInv == ASSUME IInv, Reap PROVE IInv'
<1>1. Types'
  BY DEF Reap, theReaders, theRuntime, theHistory, Seen, ClientUp, IInv, Types, Ends,
     After, Live
<1>2. ProcessOK'
  BY DEF Reap, theReaders, theRuntime, theHistory, Seen, ClientUp, IInv, Types, ProcessOK,
     Ends, After, Live
<1>3. KillOK'
  BY DEF Reap, theReaders, theRuntime, theHistory, Seen, ClientUp, IInv, Types, KillOK,
     Ends, After, Live
<1>4. OutputOK'
  BY DEF Reap, theReaders, theRuntime, theHistory, Seen, ClientUp, IInv, Types, OutputOK,
     Taken, Least
<1>5. JoinOK'
  BY DEF Reap, theReaders, theRuntime, theHistory, Seen, ClientUp, IInv, Types, JoinOK,
     Ends, After
<1>6. ReportOK'
  BY DEF Reap, theReaders, theRuntime, theHistory, Seen, ClientUp, IInv, Types, ReportOK,
     After
<1>7. QED BY <1>1, <1>2, <1>3, <1>4, <1>5, <1>6 DEF IInv

LEMMA JoinIInv == ASSUME IInv, Join PROVE IInv'
<1>1. Types'
  BY DEF Join, theReaders, theRuntime, theJudgement, IInv, Types, Ends, After, Live
<1>2. ProcessOK'
  BY DEF Join, theReaders, theRuntime, theJudgement, IInv, Types, ProcessOK, Ends, After,
     Live
<1>3. KillOK'
  BY DEF Join, theReaders, theRuntime, theJudgement, IInv, Types, KillOK, Ends, After,
     Live
<1>4. OutputOK'
  BY DEF Join, theReaders, theRuntime, theJudgement, IInv, Types, OutputOK, Taken, Least
<1>5. JoinOK'
  <2>1. /\ main = "join" /\ UNCHANGED <<reader, pipe, client, closed>>
        /\ gaveUp' <=> (gaveUp \/ reader[Head(todo)].does # "ended")
        /\ main' = IF Tail(todo) = << >> THEN "close" ELSE "join"
        /\ todo' = IF Tail(todo) = << >> THEN InOrder ELSE Tail(todo)
    BY DEF Join, theReaders, theRuntime
  <2>2. CASE todo = InOrder
    <3>1. /\ main' = "join" /\ todo' = <<"stderr">>
          /\ gaveUp' <=> (gaveUp \/ reader["stdout"].does # "ended")
      BY <2>1, <2>2, TodoFacts
    <3>2. closed = {}
      BY <2>1 DEF IInv, JoinOK, After
    <3>3. QED BY <2>1, <3>1, <3>2 DEF IInv, JoinOK, After
  <2>3. CASE todo = <<"stderr">> /\ (gaveUp \/ reader["stdout"].does = "ended")
    <3>1. /\ main' = "close" /\ todo' = InOrder
          /\ gaveUp' <=> (gaveUp \/ reader["stderr"].does # "ended")
      BY <2>1, <2>3, TodoFacts
    <3>2. gaveUp' \/ \A s \in Streams : reader'[s].does = "ended"
      BY <2>1, <2>3, <3>1 DEF Streams
    <3>3. QED BY <2>1, <3>1, <3>2 DEF IInv, JoinOK, After
  <2>4. QED BY <2>1, <2>2, <2>3 DEF IInv, JoinOK
<1>6. ReportOK'
  BY DEF Join, theReaders, theRuntime, theJudgement, IInv, Types, ReportOK, After
<1>7. QED BY <1>1, <1>2, <1>3, <1>4, <1>5, <1>6 DEF IInv

LEMMA CloseIInv == ASSUME IInv, Close PROVE IInv'
<1>1. Types'
  BY DEF Close, theReaders, theRuntime, theHistory, theJudgement, IInv, Types, Ends,
     After, Live
<1>2. ProcessOK'
  BY DEF Close, theReaders, theRuntime, theHistory, theJudgement, IInv, Types, ProcessOK,
     Ends, After, Live
<1>3. KillOK'
  BY DEF Close, theReaders, theRuntime, theHistory, theJudgement, IInv, Types, KillOK,
     Ends, After, Live
<1>4. OutputOK'
  BY DEF Close, theReaders, theRuntime, theHistory, theJudgement, IInv, Types, OutputOK,
     Taken, Least
<1>5. JoinOK'
  <2>1. /\ main = "close" /\ UNCHANGED <<reader, pipe, client, gaveUp>>
        /\ main' = IF Tail(todo) = << >> THEN "judge" ELSE "close"
        /\ todo' = Tail(todo)
    BY DEF Close, theReaders, theRuntime, theHistory
  <2>2. todo = InOrder \/ todo = <<"stderr">>
    BY <2>1 DEF IInv, JoinOK
  <2>3. main' = "judge" \/ (main' = "close" /\ todo' = <<"stderr">>)
    BY <2>1, <2>2, TodoFacts
  <2>4. QED BY <2>1, <2>3 DEF IInv, JoinOK, After
<1>6. ReportOK'
  BY DEF Close, theReaders, theRuntime, theHistory, theJudgement, IInv, Types, ReportOK,
     After
<1>7. QED BY <1>1, <1>2, <1>3, <1>4, <1>5, <1>6 DEF IInv

LEMMA JudgeIInv == ASSUME IInv, Judge PROVE IInv'
<1>1. Types'
  <2>1. killed' \in BOOLEAN
    BY Zenon DEF Judge, KilledBy, Exceeded
  <2>2. main' = "report" /\ UNCHANGED <<captured, written, pipe, reader, timedOut, overflow, gaveUp,
                                        missed, client, container>>
    BY DEF Judge, theReaders, theRuntime, theHistory
  <2>3. QED BY <2>1, <2>2 DEF IInv, Types, After
<1>2. ProcessOK'
  BY DEF Judge, theReaders, theRuntime, theHistory, KilledBy, Exceeded, IInv, Types,
     ProcessOK, Ends, After, Live
<1>3. KillOK'
  BY DEF Judge, theReaders, theRuntime, theHistory, KilledBy, Exceeded, IInv, Types,
     KillOK, Ends, After, Live
<1>4. OutputOK'
  BY DEF Judge, theReaders, theRuntime, theHistory, KilledBy, Exceeded, IInv, Types,
     OutputOK, Taken, Least
<1>5. JoinOK'
  BY DEF Judge, theReaders, theRuntime, theHistory, KilledBy, Exceeded, IInv, Types,
     JoinOK, Ends, After
<1>6. ReportOK'
  <2>1. main' = "report" /\ (killed' <=> (timedOut \/ overflow)) /\ UNCHANGED <<timedOut, overflow>>
    BY DEF Judge, KilledBy, Exceeded, theReaders
  <2>2. QED BY <2>1 DEF ReportOK
<1>7. QED BY <1>1, <1>2, <1>3, <1>4, <1>5, <1>6 DEF IInv

LEMMA ReportIInv == ASSUME IInv, Report PROVE IInv'
<1>1. Types'
  BY DEF Report, theReaders, theRuntime, theHistory, IInv, Types, Ends, After, Live
<1>2. ProcessOK'
  BY DEF Report, theReaders, theRuntime, theHistory, IInv, Types, ProcessOK, Ends, After,
     Live
<1>3. KillOK'
  BY DEF Report, theReaders, theRuntime, theHistory, IInv, Types, KillOK, Ends, After,
     Live
<1>4. OutputOK'
  BY DEF Report, theReaders, theRuntime, theHistory, IInv, Types, OutputOK, Taken, Least
<1>5. JoinOK'
  BY DEF Report, theReaders, theRuntime, theHistory, IInv, Types, JoinOK, Ends, After
<1>6. ReportOK'
  BY DEF Report, theReaders, theRuntime, theHistory, IInv, Types, ReportOK, After
<1>7. QED BY <1>1, <1>2, <1>3, <1>4, <1>5, <1>6 DEF IInv

-----------------------------------------------------------------------------
LEMMA InitIInv == Init => IInv
<1> SUFFICES ASSUME Init PROVE IInv
  OBVIOUS
<1>1. Types /\ ProcessOK
  BY DEF Init, Types, ProcessOK, After, Ends, Live, NoCode
<1>2. KillOK /\ JoinOK /\ ReportOK
  BY DEF Init, KillOK, JoinOK, ReportOK, After, Ends
<1>3. OutputOK
  BY SizesAssumption DEF Init, OutputOK, Taken, Least
<1>4. QED BY <1>1, <1>2, <1>3 DEF IInv

LEMMA NextIInv == IInv /\ [Next]_vars => IInv'
<1> SUFFICES ASSUME IInv, [Next]_vars PROVE IInv'
  OBVIOUS
<1>1. CASE Caller
  BY <1>1, SpawnFailsIInv, SpawnIInv, SendIInv, CheckIInv, PollIInv, WaitIInv, DecideIInv,
     KillIInv, ReapIInv, JoinIInv, CloseIInv, JudgeIInv, ReportIInv DEF Caller
<1>2. CASE DeadlinePasses
  BY <1>2, DeadlinePassesIInv
<1>3. CASE Runtime
  BY <1>3, StartedIInv, StartFailsIInv, ProgramEndsIInv, ClientEndsIInv, ClientLostIInv,
     ClientDiesIInv, WriteIInv DEF Runtime
<1>4. ASSUME NEW s \in Streams, Reader(s) PROVE IInv'
  BY <1>4, ReadIInv, KeepChunkIInv, ReadEndsIInv DEF Reader
<1>5. CASE UNCHANGED vars
  <2>1. Types' /\ ProcessOK' /\ KillOK' /\ JoinOK' /\ ReportOK'
    BY <1>5 DEF vars, IInv, Types, ProcessOK, KillOK, JoinOK, ReportOK
  <2>2. OutputOK'
    BY <1>5 DEF vars, IInv, OutputOK, Taken, Least
  <2>3. QED BY <2>1, <2>2 DEF IInv
<1>6. QED BY <1>1, <1>2, <1>3, <1>4, <1>5 DEF Next, Rest

LEMMA Invariance == Spec => []IInv
BY InitIInv, NextIInv, PTL DEF Spec

(* sandbox.ContainerSandbox._kill: no container outlives its run unless    *)
(* the kill command was without effect or the client was lost under it.    *)
THEOREM NoContainerLeft == Spec => []NoOrphan
<1>1. IInv => NoOrphan
  BY DEF IInv, KillOK, NoOrphan, After, Live
<1>2. QED BY <1>1, Invariance, PTL

(* sandbox.ContainerSandbox.run: the reported exit code, output and limits *)
(* are what happened, whenever the readers were joined in time.            *)
THEOREM ResultIsTrue == Spec => []ReportIsTrue
<1>1. IInv => ReportIsTrue
  <2> SUFFICES ASSUME IInv, main = "done", ~gaveUp
               PROVE  /\ (report.exit = NoCode) = (report.timed_out \/ report.output_truncated)
                      /\ report.exit # NoCode =>
                           /\ report.exit \in {"exited", "failed", "lost"}
                           /\ report.exit = "exited" => container = "ended"
                           /\ report.output = written
                      /\ report.output_truncated = \E s \in Streams : written[s] > OutputBytes
                      /\ \A s \in Streams : report.output[s] = Least(written[s], OutputBytes)
    BY DEF ReportIsTrue
  <2>1. /\ report.exit = IF killed THEN NoCode ELSE returncode
        /\ report.output = captured /\ report.timed_out = timedOut
        /\ report.output_truncated = overflow
    BY DEF IInv, ReportOK
  <2>2. killed <=> (timedOut \/ overflow)
    BY DEF IInv, ReportOK
  <2>3. \A s \in Streams : reader[s].does = "ended"
    BY DEF IInv, JoinOK, After
  <2>4. \A s \in Streams : reader[s].chunk = 0 /\ pipe[s] = 0
    BY <2>3 DEF IInv, JoinOK, OutputOK
  <2>5. \A s \in Streams : Taken(s) = written[s]
    BY <2>4 DEF Taken, IInv, Types
  <2>6. /\ \A s \in Streams : captured[s] = Least(written[s], OutputBytes)
        /\ overflow <=> \E s \in Streams : written[s] > OutputBytes
    BY <2>5 DEF IInv, OutputOK
  <2>7. ~killed => returncode = client /\ client \in Ends
    BY <2>2 DEF IInv, KillOK, After
  <2>8. (report.exit = NoCode) <=> (timedOut \/ overflow)
    BY <2>1, <2>2, <2>7 DEF Ends, NoCode
  <2>9. (report.exit = NoCode) = (report.timed_out \/ report.output_truncated)
    BY <2>1, <2>8, Zenon DEF IInv, Types
  <2>10. ASSUME report.exit # NoCode
         PROVE  /\ report.exit \in {"exited", "failed", "lost"}
                /\ report.exit = "exited" => container = "ended"
                /\ report.output = written
    <3>1. ~killed /\ report.exit = client /\ client \in Ends /\ ~timedOut /\ ~overflow
      BY <2>1, <2>2, <2>7, <2>10
    <3>2. report.exit = "exited" => container = "ended"
      BY <3>1 DEF IInv, ProcessOK
    <3>3. \A s \in Streams : captured[s] = written[s]
      BY <2>6, <3>1, SizesAssumption DEF Least, IInv, Types
    <3>4. captured = written
      BY <3>3 DEF IInv, Types
    <3>5. QED BY <2>1, <3>1, <3>2, <3>4 DEF Ends
  <2>11. report.output_truncated = \E s \in Streams : written[s] > OutputBytes
    <3> DEFINE more == \E s \in Streams : written[s] > OutputBytes
    <3>1. overflow \in BOOLEAN /\ more \in BOOLEAN /\ (overflow <=> more)
      BY <2>6 DEF IInv, Types
    <3> HIDE DEF more
    <3>2. overflow = more
      <4>1. CASE overflow = TRUE
        BY <3>1, <4>1
      <4>2. CASE overflow = FALSE
        BY <3>1, <4>2
      <4>3. QED BY <3>1, <4>1, <4>2
    <3>3. QED BY <2>1, <3>2 DEF more
  <2>12. QED BY <2>1, <2>6, <2>9, <2>10, <2>11
<1>2. QED BY <1>1, Invariance, PTL
=============================================================================
