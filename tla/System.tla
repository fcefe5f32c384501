------------------------------- MODULE System -------------------------------
(***************************************************************************)
(* The serving process as a whole: Lifecycle's main, listener and          *)
(* connections, and in every connection whose request has reached hellPot  *)
(* the stream of Heffalump, with its writer goroutine, buffer and client.  *)
(* The two meet where a request starts a stream and where the worker       *)
(* closes the connection of one.                                           *)
(*                                                                         *)
(* The listener is a Unix socket: the steps of Lifecycle that open and     *)
(* close it are UnixSocket's of this process, and other processes may be   *)
(* told to listen on the same path.  Over TCP there is nothing of the      *)
(* latter.                                                                 *)
(***************************************************************************)
EXTENDS Lifecycle

CONSTANTS
  Streaming,  (* bound: the connections whose requests may reach hellPot *)
  Buffers, None, PipeCap, MaxReads, MayPanic,  (* as in Heffalump *)
  Self,                                        (* this process *)
  Procs, Users, Owner, Permitted               (* as in UnixSocket *)

ASSUME SystemAssumption ==
  /\ Streaming \subseteq Conns
  /\ None \notin Buffers
  /\ PipeCap \in Nat \ {0}
  /\ MaxReads \in Nat
  /\ MayPanic \subseteq Streaming
  /\ Self \in Procs
  /\ {"nothing", "foreign"} \cap Procs = {}
  /\ Owner \in Users
  /\ Permitted \subseteq Users

VARIABLES
  pc, held, drawn, n, err, pool, content, pipe, cut, client, rcvd,
  at, allowed, sock, connected

H == INSTANCE Heffalump WITH Streams <- Streaming
U == INSTANCE UnixSocket

streamVars ==
  <<pc, held, drawn, n, err, pool, content, pipe, cut, client, rcvd>>
socketVars == <<at, allowed, sock, connected>>
systemVars == <<vars, streamVars, socketVars>>

SystemInit == Init /\ H!Init /\ U!Init

-----------------------------------------------------------------------------
(* A step of main.  Shutdown closes the listener that it finds; the exit   *)
(* of a process that can no longer accept leaves the socket at its path.   *)
MainStep ==
  /\ \/ (StartServing \/ Drained) /\ UNCHANGED socketVars
     \/ /\ TakeSignal \/ TakeSignalCloseFails
        /\ IF listener = "registered"
           THEN U!CloseListener(Self) ELSE UNCHANGED socketVars
     \/ /\ TakeError \/ AwaitServe
        /\ IF listener = "registered" THEN U!Dies(Self) ELSE UNCHANGED socketVars
  /\ UNCHANGED streamVars

(* A step of the serving goroutine. *)
ServerStep ==
  /\ \/ Bind /\ U!ListenUnix(Self)
     \/ Register /\ U!Chmod(Self)
     \/ ChmodFails /\ U!CloseListener(Self)
     \/ (BindFails \/ ServeReturns) /\ UNCHANGED socketVars
  /\ UNCHANGED streamVars

(* Serve can no longer accept and returns. *)
AcceptFailsStep == AcceptFails /\ UNCHANGED <<streamVars, socketVars>>

(* SIGINT or SIGTERM, which kills a process that has no socket yet. *)
SignalStep == Signal /\ UNCHANGED <<streamVars, socketVars>>

(* SIGKILL leaves the socket where it is. *)
KillStep == Kill /\ U!Dies(Self) /\ UNCHANGED streamVars

(* A step at the path that is not this process's. *)
Elsewhere(step) == Running /\ step /\ UNCHANGED <<vars, streamVars>>

(* A step of a stream that leaves its connection open. *)
InStream(step) == Running /\ step /\ UNCHANGED <<vars, socketVars>>

(* hellPot hands the connection's worker a stream writer. *)
StartStream(c) == RequestStream(c) /\ H!Request(c) /\ UNCHANGED socketVars

(* Mutant: the worker waits for the end of the body, not for its client. *)
EndStreamByBodyOnly(c) ==
  StreamEnds(c) /\ H!EndResponse(c) /\ UNCHANGED socketVars

(* The worker closes the connection: the client is gone, or the generator  *)
(* panicked.  The writer goroutine may have some way to go.                *)
EndStream(c) ==
  /\ StreamEnds(c)
  /\ H!DeliverFails(c) \/ H!EndResponse(c)
  /\ UNCHANGED socketVars

(* The other ways of a connection: accepted, answered shortly, timed out.  *)
Arrive(c) == Accept(c) /\ UNCHANGED <<streamVars, socketVars>>
Pass(c) ==
  (RequestShort(c) \/ NewEnds(c) \/ ShortEnds(c)) /\ UNCHANGED <<streamVars, socketVars>>

SystemNext ==
  \/ SignalStep
  \/ KillStep
  \/ MainStep
  \/ ServerStep
  \/ AcceptFailsStep
  \/ \E c \in Conns : Arrive(c) \/ Pass(c)
  \/ \E c \in Streaming :
       \/ StartStream(c)
       \/ EndStream(c)
       \/ InStream(H!Writer(c))
       \/ InStream(H!Panic(c))
       \/ InStream(H!Deliver(c))
       \/ InStream(H!ClientMoves(c))
  \/ InStream(H!CollectPool)
  \/ \E p \in Procs \ {Self} : Elsewhere(U!Proc(p))
  \/ \E u \in Users : Elsewhere(U!Connect(u))
  \/ Elsewhere(U!Operator)

SystemSpec == SystemInit /\ [][SystemNext]_systemVars

(* The fairness of the parts: goroutines that can run do.  Signals,        *)
(* clients and panics are free.                                            *)
SystemFairSpec ==
  /\ SystemSpec
  /\ WF_systemVars(MainStep)
  /\ WF_systemVars(ServerStep)
  /\ \A c \in Conns : WF_systemVars(Pass(c))
  /\ \A c \in Streaming :
       /\ WF_systemVars(InStream(H!Writer(c)))
       /\ WF_systemVars(InStream(H!Deliver(c)) \/ EndStream(c))

-----------------------------------------------------------------------------
(* UnixSocket's properties hold of the process as a whole. *)
OnlyPermitted == U!OnlyPermitted
PathRespected == U!PathRespected

(* What an exit with code 0 leaves behind, StoppedEarly apart: no client   *)
(* that still gets its stream, and of the writer goroutines only those     *)
(* whose pipe their worker has cut, which had nobody left to write to.     *)
OnlyOrphansLeft ==
  main = "exit0" =>
    \/ StoppedEarly
    \/ \A c \in Streaming : client[c] = "none" /\ (pc[c] = "idle" \/ cut[c])

(* A signal ends the process once its listener is up, if every client that *)
(* is streaming goes away some day: pipes, pool, writers and panics        *)
(* never keep a connection open after its client, nor main after its       *)
(* connections.                                                            *)
StopsIfClientsGo ==
  (\A c \in Streaming : []<>(client[c] \in {"none", "gone"}))
    => (main = "select" /\ stopChan = 1 /\ listener = "registered"
          ~> main \in Exited)
=============================================================================
