--------------------------- MODULE System_proofs ---------------------------
(***************************************************************************)
(* Proofs about System, for any connections, streams, processes and users: *)
(* the composition implements each of its parts, so that what is proved of *)
(* a part holds of the whole; what an exit with 0 leaves behind; and the   *)
(* properties of the Unix socket.                                          *)
(***************************************************************************)
EXTENDS System, Lifecycle_proofs

(* Every step of the system is one of Lifecycle's or leaves it alone. *)
LEMMA StepLifecycle == [SystemNext]_systemVars => [Next]_vars
<1> SUFFICES ASSUME SystemNext PROVE Next \/ UNCHANGED vars
  BY DEF systemVars
<1>1. CASE SignalStep
  BY <1>1 DEF SignalStep, Next
<1>2. CASE KillStep
  BY <1>2 DEF KillStep, Next
<1>3. CASE MainStep
  BY <1>3 DEF MainStep, Main, Next
<1>4. CASE ServerStep
  BY <1>4 DEF ServerStep, Next, Server
<1>7. CASE AcceptFailsStep
  BY <1>7 DEF AcceptFailsStep, Next
<1>5. ASSUME NEW c \in Conns, Arrive(c) \/ Pass(c) PROVE Next
  BY <1>5 DEF Arrive, Pass, Next, Connection
<1>6. ASSUME NEW c \in Streaming, StartStream(c) \/ EndStream(c) PROVE Next
  BY <1>6, SystemAssumption DEF StartStream, EndStream, Next, Connection
<1> QED BY <1>1, <1>2, <1>3, <1>4, <1>5, <1>6, <1>7
        DEF SystemNext, InStream, Elsewhere

(* The process as a whole is a process as Lifecycle describes it: the      *)
(* streams and the socket add nothing to what main, its goroutine and the  *)
(* connections may do.                                                     *)
THEOREM ImplementsLifecycle == SystemSpec => Spec
<1>1. SystemInit => Init
  BY DEF SystemInit
<1> QED BY <1>1, StepLifecycle, PTL DEF SystemSpec, Spec

(* Every step of the system is one of Heffalump's or leaves it alone. *)
LEMMA StepHeffalump == [SystemNext]_systemVars => [H!Next]_(H!vars)
<1>0. UNCHANGED streamVars => UNCHANGED H!vars
  BY DEF streamVars, H!vars, H!writerVars, H!bufferVars, H!connVars
<1> SUFFICES ASSUME SystemNext PROVE H!Next \/ UNCHANGED streamVars
  BY <1>0 DEF systemVars
<1>1. CASE SignalStep \/ KillStep \/ MainStep \/ ServerStep \/ AcceptFailsStep
  BY <1>1 DEF SignalStep, KillStep, MainStep, ServerStep, AcceptFailsStep, streamVars
<1>2. ASSUME NEW c \in Conns, Arrive(c) \/ Pass(c) PROVE UNCHANGED streamVars
  BY <1>2 DEF Arrive, Pass, streamVars
<1>3. ASSUME NEW c \in Streaming, StartStream(c) PROVE H!Next
  BY <1>3 DEF StartStream, H!Next
<1>4. ASSUME NEW c \in Streaming, EndStream(c) PROVE H!Next
  BY <1>4 DEF EndStream, H!Next, H!Worker
<1>5. ASSUME NEW c \in Streaming,
             InStream(H!Writer(c)) \/ InStream(H!Panic(c))
               \/ InStream(H!Deliver(c)) \/ InStream(H!ClientMoves(c))
      PROVE  H!Next
  BY <1>5 DEF InStream, H!Next, H!Worker
<1>6. CASE InStream(H!CollectPool)
  BY <1>6 DEF InStream, H!Next
<1> QED BY <1>1, <1>2, <1>3, <1>4, <1>5, <1>6 DEF SystemNext, Elsewhere

(* The streams in the process are those of Heffalump: signals, the drain   *)
(* and the socket add nothing to what a response may do.                   *)
THEOREM ImplementsHeffalump == SystemSpec => H!Spec
<1>1. SystemInit => H!Init
  BY DEF SystemInit
<1> QED BY <1>1, StepHeffalump, PTL DEF SystemSpec, H!Spec

(* Every step of the system is one of UnixSocket's or leaves it alone. *)
LEMMA StepUnixSocket == [SystemNext]_systemVars => [U!Next]_(U!vars)
<1>0. UNCHANGED socketVars => UNCHANGED U!vars
  BY DEF socketVars, U!vars
<1> SUFFICES ASSUME SystemNext PROVE U!Next \/ UNCHANGED socketVars
  BY <1>0 DEF systemVars
<1>1. CASE SignalStep \/ AcceptFailsStep
  BY <1>1 DEF SignalStep, AcceptFailsStep, socketVars
<1>2. CASE KillStep
  BY <1>2, SystemAssumption DEF KillStep, U!Next, U!Proc
<1>3. CASE MainStep
  BY <1>3, SystemAssumption DEF MainStep, U!Next, U!Proc
<1>4. CASE ServerStep
  BY <1>4, SystemAssumption DEF ServerStep, U!Next, U!Proc
<1>5. ASSUME NEW c \in Conns, Arrive(c) \/ Pass(c) PROVE UNCHANGED socketVars
  BY <1>5 DEF Arrive, Pass, socketVars
<1>6. ASSUME NEW c \in Streaming, StartStream(c) \/ EndStream(c)
      PROVE  UNCHANGED socketVars
  BY <1>6 DEF StartStream, EndStream
<1>7. ASSUME NEW p \in Procs, Elsewhere(U!Proc(p)) PROVE U!Next
  BY <1>7 DEF Elsewhere, U!Next
<1>8. ASSUME NEW u \in Users, Elsewhere(U!Connect(u)) PROVE U!Next
  BY <1>8 DEF Elsewhere, U!Next
<1>9. CASE Elsewhere(U!Operator)
  BY <1>9 DEF Elsewhere, U!Next
<1> QED BY <1>1, <1>2, <1>3, <1>4, <1>5, <1>6, <1>7, <1>8, <1>9
        DEF SystemNext, InStream, socketVars

(* At the path the process behaves as UnixSocket says of any process. *)
THEOREM ImplementsUnixSocket == SystemSpec => U!Spec
<1>1. SystemInit => U!Init
  BY DEF SystemInit
<1> QED BY <1>1, StepUnixSocket, PTL DEF SystemSpec, U!Spec

-----------------------------------------------------------------------------
(* A process that listens finds its own socket at the path, and the mode   *)
(* of what is there never lets in more than it should.                     *)
SocketInv ==
  /\ sock \in [Procs -> {"off", "bound", "serving"}]
  /\ \A p \in Procs : sock[p] # "off" => at = p
  /\ allowed \subseteq Permitted \cup {Owner}
  /\ OnlyPermitted

LEMMA SocketInit == U!Init => SocketInv
BY DEF U!Init, SocketInv, OnlyPermitted, U!OnlyPermitted

LEMMA SocketStep == SocketInv /\ [U!Next]_(U!vars) => SocketInv'
<1> SUFFICES ASSUME SocketInv, [U!Next]_(U!vars) PROVE SocketInv'
  OBVIOUS
<1> USE DEF SocketInv, OnlyPermitted, U!OnlyPermitted
<1>1. ASSUME NEW p \in Procs, U!ListenUnix(p) PROVE SocketInv'
  BY <1>1, SystemAssumption DEF U!ListenUnix, U!Live, U!Nothing
<1>2. ASSUME NEW p \in Procs, U!Chmod(p) PROVE SocketInv'
  BY <1>2 DEF U!Chmod
<1>3. ASSUME NEW p \in Procs, U!CloseListener(p) PROVE SocketInv'
  BY <1>3 DEF U!CloseListener, U!Live
<1>4. ASSUME NEW p \in Procs, U!Dies(p) PROVE SocketInv'
  BY <1>4 DEF U!Dies
<1>5. ASSUME NEW u \in Users, U!Connect(u) PROVE SocketInv'
  BY <1>5 DEF U!Connect
<1>6. CASE U!Operator
  BY <1>6 DEF U!Operator, U!Live
<1>7. CASE UNCHANGED U!vars
  BY <1>7 DEF U!vars
<1> QED BY <1>1, <1>2, <1>3, <1>4, <1>5, <1>6, <1>7 DEF U!Next, U!Proc

LEMMA SocketCorrect == SystemSpec => []SocketInv
<1>1. SystemInit => SocketInv
  BY SocketInit DEF SystemInit
<1>2. SocketInv /\ [SystemNext]_systemVars => SocketInv'
  BY SocketStep, StepUnixSocket
<1> QED BY <1>1, <1>2, PTL DEF SystemSpec

(* Nobody ever connects whom the configured permissions keep out, for any  *)
(* number of processes and users, the time before the chmod included.      *)
THEOREM ConnectionsPermitted == SystemSpec => []OnlyPermitted
<1>1. SocketInv => OnlyPermitted
  BY DEF SocketInv
<1> QED BY <1>1, SocketCorrect, PTL

(* What a process finds at the path it leaves there. *)
THEOREM PathsRespected == SystemSpec => PathRespected
<1> DEFINE Own == at # U!Nothing /\ at' # at /\ sock' # sock
                    => at \in Procs /\ U!Live(at) /\ sock'[at] = "off"
<1>1. SocketInv /\ [U!Next]_(U!vars) => [Own]_(U!vars)
  <2> SUFFICES ASSUME SocketInv, U!Next, at # U!Nothing, at' # at, sock' # sock
               PROVE  at \in Procs /\ U!Live(at) /\ sock'[at] = "off"
    OBVIOUS
  <2>1. PICK p \in Procs : U!CloseListener(p)
    BY DEF U!Next, U!Proc, U!ListenUnix, U!Chmod, U!Dies, U!Connect, U!Operator
  <2> QED BY <2>1 DEF SocketInv, U!CloseListener, U!Live
<1>2. SocketInv /\ [SystemNext]_systemVars => [Own]_(U!vars)
  BY <1>1, StepUnixSocket
<1> QED BY <1>2, SocketCorrect, PTL DEF SystemSpec, PathRespected, U!PathRespected

-----------------------------------------------------------------------------
Stages == {"idle", "get", "header", "read", "write", "return", "finish"}

(* A connection that streams has a client and one that does not has none;  *)
(* a writer goes on without a client only at a pipe that is cut.           *)
StreamsLinked ==
  /\ pc \in [Streaming -> Stages]
  /\ cut \in [Streaming -> BOOLEAN]
  /\ client \in [Streaming -> {"none", "reading", "stalled", "gone"}]
  /\ \A c \in Streaming : client[c] = "none" => pc[c] = "idle" \/ cut[c]
  /\ Running => \A c \in Streaming : client[c] # "none" <=> conn[c] = "stream"
  /\ main = "exit0" => StoppedEarly \/ \A c \in Streaming : client[c] = "none"

SInv == LInv /\ StreamsLinked

LEMMA SInit == SystemInit => SInv
<1> SUFFICES ASSUME SystemInit PROVE SInv
  OBVIOUS
<1>1. LInv
  BY LInit DEF SystemInit
<1>2. StreamsLinked
  BY SystemAssumption DEF SystemInit, Init, H!Init, StreamsLinked, Stages
<1> QED BY <1>1, <1>2 DEF SInv

(* An exit keeps what StoppedEarly is about.                               *)
LEMMA ExitKeepsEarly ==
  ASSUME LInv, Next, main' = "exit0", StoppedEarly
  PROVE  StoppedEarly'
<1>1. TakeError \/ AwaitServe
  BY DEF Next, Main, Server, Connection, Signal, Kill, StartServing, TakeError,
         TakeSignal, TakeSignalCloseFails, Drained, AwaitServe, Exit, Bind,
         BindFails, ChmodFails, Register, ServeReturns, AcceptFails, ConnStep,
         Running, Exited, Accept, RequestStream, RequestShort, NewEnds, ShortEnds,
         StreamEnds
<1> QED BY <1>1 DEF TakeError, AwaitServe, StoppedEarly

(* The process exits, or main, the goroutine and the signals go on.  What  *)
(* becomes of the connections does not touch the streams.                  *)
LEMMA ProcessLinked ==
  ASSUME SInv, Next, UNCHANGED streamVars, conn' = conn \/ main' \in Exited
  PROVE  StreamsLinked'
<1>1. /\ pc' = pc /\ cut' = cut /\ client' = client
  BY DEF streamVars
<1>2. Running
  BY DEF Next, Signal, Kill, Main, Server, Connection, StartServing, TakeError,
         TakeSignal, TakeSignalCloseFails, Drained, AwaitServe, Bind, BindFails,
         ChmodFails, Register, ServeReturns, AcceptFails, ConnStep, Running, Exited,
         Accept, RequestStream, RequestShort, NewEnds, ShortEnds, StreamEnds
<1>3. CASE main' = "exit0"
  <2>1. Open = {} \/ StoppedEarly
    BY <1>3, ExitZeroStep DEF SInv
  <2>2. Open = {} => \A c \in Streaming : client[c] = "none"
    BY <1>2, SystemAssumption DEF Open, SInv, StreamsLinked
  <2>3. StoppedEarly => StoppedEarly'
    BY <1>3, ExitKeepsEarly DEF SInv
  <2> QED BY <1>1, <1>3, <2>1, <2>2, <2>3 DEF SInv, StreamsLinked, Running, Exited
<1>4. CASE main' # "exit0"
  BY <1>1, <1>2, <1>4 DEF SInv, StreamsLinked, Running
<1> QED BY <1>3, <1>4

LEMMA PassingLinked ==
  ASSUME SInv, NEW c \in Conns, Arrive(c) \/ Pass(c)
  PROVE  StreamsLinked'
<1>1. PICK from, to \in {"none", "new", "short"} : ConnStep(c, from, to)
  BY DEF Arrive, Pass, Accept, RequestShort, NewEnds, ShortEnds
<1>2. pc' = pc /\ cut' = cut /\ client' = client
  BY DEF Arrive, Pass, streamVars
<1>3. \A d \in Streaming : conn'[d] = "stream" <=> conn[d] = "stream"
  BY <1>1, SystemAssumption DEF ConnStep, SInv, LInv, TypeOK
<1> QED BY <1>1, <1>2, <1>3 DEF SInv, StreamsLinked, ConnStep, Running, Exited

LEMMA StartLinked ==
  ASSUME SInv, NEW c \in Streaming, StartStream(c)
  PROVE  StreamsLinked'
<1>1. ConnStep(c, "new", "stream") /\ H!Request(c)
  BY DEF StartStream, RequestStream
<1>2. \A d \in Streaming : conn'[d] = IF d = c THEN "stream" ELSE conn[d]
  BY <1>1, SystemAssumption DEF ConnStep, SInv, LInv, TypeOK
<1> QED BY <1>1, <1>2 DEF SInv, StreamsLinked, Stages, H!Request, ConnStep, Running, Exited

LEMMA EndLinked ==
  ASSUME SInv, NEW c \in Streaming, EndStream(c)
  PROVE  StreamsLinked'
<1>1. ConnStep(c, "stream", "none")
  BY DEF EndStream, StreamEnds
<1>2. \A d \in Streaming : conn'[d] = IF d = c THEN "none" ELSE conn[d]
  BY <1>1, SystemAssumption DEF ConnStep, SInv, LInv, TypeOK
<1>3. /\ pc' = pc
      /\ client' = [client EXCEPT ![c] = "none"]
      /\ (cut' = cut /\ pc[c] = "idle") \/ cut' = [cut EXCEPT ![c] = TRUE]
  BY DEF EndStream, H!DeliverFails, H!EndResponse, H!writerVars
<1>4. cut' \in [Streaming -> BOOLEAN] /\ \A d \in Streaming : cut[d] => cut'[d]
  BY <1>3 DEF SInv, StreamsLinked
<1>5. pc[c] = "idle" \/ cut'[c]
  BY <1>3 DEF SInv, StreamsLinked
<1>6. client' \in [Streaming -> {"none", "reading", "stalled", "gone"}]
  BY <1>3 DEF SInv, StreamsLinked
<1>7. \A d \in Streaming : d # c => client'[d] = client[d]
  BY <1>3 DEF SInv, StreamsLinked
<1>8. client'[c] = "none"
  BY <1>3 DEF SInv, StreamsLinked
<1>9. main' = main /\ Running
  BY <1>1 DEF ConnStep
<1>10. \A d \in Streaming : client'[d] # "none" <=> conn'[d] = "stream"
  BY <1>2, <1>7, <1>8, <1>9 DEF SInv, StreamsLinked
<1>11. \A d \in Streaming : client'[d] = "none" => pc'[d] = "idle" \/ cut'[d]
  BY <1>3, <1>4, <1>5, <1>7 DEF SInv, StreamsLinked
<1> QED BY <1>3, <1>4, <1>6, <1>9, <1>10, <1>11
        DEF SInv, StreamsLinked, Running, Exited

LEMMA InStreamLinked ==
  ASSUME SInv, NEW c \in Streaming,
         InStream(H!Writer(c)) \/ InStream(H!Panic(c))
           \/ InStream(H!Deliver(c)) \/ InStream(H!ClientMoves(c))
  PROVE  StreamsLinked'
<1>1. main' = main /\ conn' = conn /\ Running /\ Running'
  BY DEF InStream, vars, Running, Exited
<1>2. CASE H!Writer(c) \/ H!Panic(c)
  <2>1. cut' = cut /\ client' = client /\ pc[c] # "idle"
    BY <1>2 DEF H!Writer, H!Panic, H!GetBuffer, H!WriteHeader, H!ReadChunk,
                H!WriteChunk, H!ReturnHell, H!Finish, H!connVars
  <2>2. PICK to \in Stages : pc' = [pc EXCEPT ![c] = to]
    BY <1>2 DEF H!Writer, H!Panic, H!GetBuffer, H!WriteHeader, H!ReadChunk,
                H!WriteChunk, H!ReturnHell, H!Finish, H!Send, Stages
  <2> QED BY <1>1, <2>1, <2>2 DEF SInv, StreamsLinked, Running, Exited
<1>3. CASE H!Deliver(c) \/ H!ClientMoves(c)
  <2>1. pc' = pc /\ cut' = cut
    BY <1>3 DEF H!Deliver, H!ClientMoves, H!writerVars
  <2>2. /\ client' \in [Streaming -> {"none", "reading", "stalled", "gone"}]
        /\ \A d \in Streaming : client'[d] = "none" <=> client[d] = "none"
    BY <1>3 DEF H!Deliver, H!ClientMoves, SInv, StreamsLinked
  <2> QED BY <1>1, <2>1, <2>2 DEF SInv, StreamsLinked, Running, Exited
<1> QED BY <1>2, <1>3 DEF InStream

LEMMA SNext == SInv /\ [SystemNext]_systemVars => SInv'
<1> SUFFICES ASSUME SInv, [SystemNext]_systemVars PROVE StreamsLinked'
  BY LNext, StepLifecycle DEF SInv
<1>1. CASE SignalStep
  BY <1>1, ProcessLinked DEF SignalStep, Signal, Next, streamVars, Exited
<1>2. CASE KillStep
  BY <1>2, ProcessLinked DEF KillStep, Kill, Next, streamVars, Exited
<1>3. CASE MainStep
  <2>1. conn' = conn \/ main' \in Exited
    BY <1>3 DEF MainStep, Main, StartServing, TakeError, TakeSignal,
                TakeSignalCloseFails, Drained, AwaitServe, Exit, Exited
  <2> QED BY <1>3, <2>1, ProcessLinked DEF MainStep, Main, Next
<1>4. CASE ServerStep
  <2>1. Server /\ conn' = conn /\ UNCHANGED streamVars
    BY <1>4 DEF ServerStep, Server, Bind, BindFails, ChmodFails, Register, ServeReturns
  <2> QED BY <2>1, ProcessLinked DEF Next
<1>5. ASSUME UNCHANGED streamVars, UNCHANGED <<main, conn, failed, signalled>>
      PROVE  StreamsLinked'
  BY <1>5 DEF streamVars, SInv, StreamsLinked, StoppedEarly, Running
<1>7. CASE AcceptFailsStep
  BY <1>7, ProcessLinked DEF AcceptFailsStep, AcceptFails, Next
<1>6. CASE InStream(H!CollectPool)
  BY <1>6 DEF InStream, H!CollectPool, H!writerVars, H!connVars, vars, SInv,
              StreamsLinked, StoppedEarly, Running
<1> QED BY <1>1, <1>2, <1>3, <1>4, <1>5, <1>6, <1>7, PassingLinked, StartLinked, EndLinked,
           InStreamLinked
        DEF SystemNext, Elsewhere, systemVars, vars

LEMMA SCorrect == SystemSpec => []SInv
BY SInit, SNext, PTL DEF SystemSpec

(* An exit with 0 leaves no client behind that was still served, and of    *)
(* the writer goroutines none that had anybody to write to, unless a       *)
(* signal came before the listener and accepting failed after it.          *)
THEOREM ExitLeavesOrphansOnly == SystemSpec => []OnlyOrphansLeft
<1>1. SInv => OnlyOrphansLeft
  BY DEF SInv, StreamsLinked, OnlyOrphansLeft
<1> QED BY <1>1, SCorrect, PTL
-----------------------------------------------------------------------------
(* What is proved of Lifecycle holds of the whole: no stream and no socket *)
(* makes an exit code lie, or a shutdown that found the server up break    *)
(* off a response.                                                         *)
THEOREM ProcessExitsTruly == SystemSpec => [](TypeOK /\ ExitCodeTruthful) /\ NothingCutOff
BY ImplementsLifecycle, LifecycleTypes, ExitCodesTruthful, ExitZeroCutsNothing, PTL

(* So does what is proved of Heffalump, whose proofs are about the same    *)
(* streams.                                                                *)
HP == INSTANCE Heffalump_proofs WITH Streams <- Streaming

LEMMA StreamsAssumed ==
  None \notin Buffers /\ PipeCap \in Nat \ {0} /\ MaxReads \in Nat /\ MayPanic \subseteq Streaming
BY SystemAssumption DEF SystemAssumption

LEMMA SameStreams == H!Spec => HP!Spec
<1>1. H!Init => HP!Init
  BY DEF H!Init, HP!Init
<1>2. [H!Next]_(H!vars) => [HP!Next]_(HP!vars)
  <2>1. UNCHANGED H!vars => UNCHANGED HP!vars
    BY DEF H!vars, HP!vars, H!writerVars, HP!writerVars, H!bufferVars, HP!bufferVars,
           H!connVars, HP!connVars
  <2>2. ASSUME NEW s \in Streaming, H!Request(s) \/ H!Panic(s) \/ H!ClientMoves(s)
        PROVE  HP!Next
    BY <2>2 DEF HP!Next, H!Request, HP!Request, H!Panic, HP!Panic, H!ClientMoves,
                HP!ClientMoves, H!writerVars, HP!writerVars, H!bufferVars, HP!bufferVars,
                H!connVars, HP!connVars
  <2>3. ASSUME NEW s \in Streaming, H!Writer(s) PROVE HP!Writer(s)
    BY <2>3 DEF H!Writer, HP!Writer, H!GetBuffer, HP!GetBuffer, H!WriteHeader,
                HP!WriteHeader, H!ReadChunk, HP!ReadChunk, H!WriteChunk, HP!WriteChunk,
                H!ReturnHell, HP!ReturnHell, H!Finish, HP!Finish, H!Send, HP!Send,
                H!InUse, HP!InUse, H!connVars, HP!connVars, H!bufferVars, HP!bufferVars
  <2>4. ASSUME NEW s \in Streaming, H!Worker(s) PROVE HP!Worker(s)
    BY <2>4 DEF H!Worker, HP!Worker, H!Deliver, HP!Deliver, H!DeliverFails,
                HP!DeliverFails, H!EndResponse, HP!EndResponse, H!writerVars,
                HP!writerVars, H!bufferVars, HP!bufferVars
  <2>5. H!CollectPool => HP!CollectPool
    BY DEF H!CollectPool, HP!CollectPool, H!writerVars, HP!writerVars, H!connVars,
           HP!connVars
  <2> QED BY <2>1, <2>2, <2>3, <2>4, <2>5 DEF H!Next, HP!Next
<1> QED BY <1>1, <1>2, PTL DEF H!Spec, HP!Spec

(* Whatever signals, timeouts and the socket do: in the serving process no *)
(* two responses share a buffer, every client gets its own stream in       *)
(* order, the count in the log is what its pipe took, and only a panic     *)
(* ends the response of a client that stays.                               *)
THEOREM ProcessStreamsRight ==
  SystemSpec => /\ [](H!BufferExclusive /\ H!StreamInOrder /\ H!CountExact)
                /\ H!EndsOnlyByPanic
<1>1. HP!Spec => []HP!BufferExclusive
  BY HP!BuffersNeverShared, StreamsAssumed
<1>2. HP!Spec => []HP!StreamInOrder
  BY HP!PipesInOrder, StreamsAssumed
<1>3. HP!Spec => []HP!CountExact
  BY HP!CountsExact, StreamsAssumed
<1>4. HP!BufferExclusive /\ HP!StreamInOrder /\ HP!CountExact
        => H!BufferExclusive /\ H!StreamInOrder /\ H!CountExact
  BY DEF H!BufferExclusive, HP!BufferExclusive, H!StreamInOrder, HP!StreamInOrder,
         H!CountExact, HP!CountExact
<1>5. HP!Spec => HP!EndsOnlyByPanic
  BY HP!StayingClientServed, StreamsAssumed
<1>6. HP!EndsOnlyByPanic => H!EndsOnlyByPanic
  <2>1. UNCHANGED HP!vars => UNCHANGED H!vars
    BY DEF H!vars, HP!vars, H!writerVars, HP!writerVars, H!bufferVars, HP!bufferVars,
           H!connVars, HP!connVars
  <2> QED BY <2>1, PTL DEF H!EndsOnlyByPanic, HP!EndsOnlyByPanic
<1> QED BY <1>1, <1>2, <1>3, <1>4, <1>5, <1>6, SameStreams, ImplementsHeffalump, PTL
=============================================================================
