-------------------------- MODULE Lifecycle_proofs --------------------------
(***************************************************************************)
(* Proofs about Lifecycle, for any number of connections: types, what the  *)
(* exit code tells, and that no response is cut off by an exit with 0.     *)
(***************************************************************************)
EXTENDS Lifecycle, TLAPS

(* How far the goroutine has come fixes the listener, its answer and       *)
(* whether there can be connections.                                       *)
ServePhase ==
  /\ serve = "none" <=> main = "boot"
  /\ serve \in {"none", "starting"} => listener = "closed"
  /\ serve = "bound" => listener = "bound"
  /\ serve \in {"none", "starting", "bound"} => Open = {} /\ errChan = "none"
  /\ serve = "accepting" => listener # "bound" /\ errChan = "none"
  /\ serve = "returned" =>
       errChan # "none" /\ (listener = "closed" \/ "accept" \in failed)
  /\ errChan = "error" => failed # {} /\ ("accept" \in failed \/ Open = {})
  /\ "accept" \in failed => serve = "returned"

(* A listener that was registered is closed by Shutdown only, and then for *)
(* good; while it stays, main has not shut down anything.                  *)
MainPhase ==
  /\ main = "select" =>
       /\ errChan # "nil"
       /\ serve = "accepting" => listener = "registered"
  /\ main = "draining" =>
       serve \in {"accepting", "returned"} /\ listener = "closed"
  /\ main \in {"select", "await"} /\ Open # {} => listener = "registered"
  /\ main = "await" /\ signalled # "early" =>
       serve \in {"accepting", "returned"} /\ listener = "closed"
  /\ main \in {"draining", "await"} => signalled # "no"

LInv ==
  /\ TypeOK
  /\ Running => ServePhase /\ MainPhase
  /\ ExitCodeTruthful

LEMMA LInit == Init => LInv
BY DEF Init, LInv, TypeOK, Running, Exited, Open, ServePhase, MainPhase,
       ExitCodeTruthful

(* One lemma per process. *)
LEMMA SignalInv == LInv /\ Signal => LInv'
<1> SUFFICES ASSUME LInv, Signal PROVE LInv'
  OBVIOUS
<1>1. CASE main = "boot"
  BY <1>1 DEF Signal, LInv, TypeOK, Running, Exited, ExitCodeTruthful
<1>2. CASE main # "boot"
  BY <1>2 DEF Signal, LInv, TypeOK, Running, Exited, Open, ServePhase, MainPhase,
              ExitCodeTruthful
<1> QED BY <1>1, <1>2

LEMMA KillInv == LInv /\ Kill => LInv'
BY DEF Kill, LInv, TypeOK, Running, Exited, ExitCodeTruthful

LEMMA ExitInv ==
  ASSUME LInv, NEW code \in {"exit0", "exit1"}, Exit(code),
         errChan' \in {"none", "nil", "error"}, stopChan' \in {0, 1},
         serve' = serve, failed' \subseteq Failures,
         signalled' \in {"no", "early", "listening"},
         code = "exit0" => signalled' # "no", code = "exit1" => failed' # {}
  PROVE  LInv'
BY DEF Exit, LInv, TypeOK, Running, Exited, ExitCodeTruthful

LEMMA MainInv == LInv /\ Main => LInv'
<1> SUFFICES ASSUME LInv, Main PROVE LInv'
  OBVIOUS
<1> USE DEF Running, Exited
<1>1. CASE StartServing
  BY <1>1 DEF StartServing, LInv, TypeOK, Open, ServePhase, MainPhase, ExitCodeTruthful
<1>2. CASE TakeError
  BY <1>2, ExitInv DEF TakeError, LInv, TypeOK, ServePhase, MainPhase
<1>3. CASE TakeSignal
  <2>1. CASE listener = "registered"
    BY <1>3, <2>1
    DEF TakeSignal, SignalTaken, LInv, TypeOK, Open, ServePhase, MainPhase, ExitCodeTruthful
  <2>2. CASE listener # "registered"
    BY <1>3, <2>2
    DEF TakeSignal, SignalTaken, LInv, TypeOK, Open, ServePhase, MainPhase, ExitCodeTruthful
  <2> QED BY <2>1, <2>2
<1>4. CASE TakeSignalCloseFails
  BY <1>4, ExitInv DEF TakeSignalCloseFails, SignalTaken, LInv, TypeOK, Failures
<1>5. CASE Drained
  BY <1>5 DEF Drained, LInv, TypeOK, Open, ServePhase, MainPhase, ExitCodeTruthful
<1>6. CASE AwaitServe
  BY <1>6, ExitInv DEF AwaitServe, LInv, TypeOK, MainPhase
<1> QED BY <1>1, <1>2, <1>3, <1>4, <1>5, <1>6 DEF Main

LEMMA ServerInv == LInv /\ Server => LInv'
<1> SUFFICES ASSUME LInv, Server PROVE LInv'
  OBVIOUS
<1> USE DEF Running, Exited, LInv, TypeOK, Open, ServePhase, MainPhase, ExitCodeTruthful
<1>1. CASE Bind
  BY <1>1 DEF Bind
<1>2. CASE BindFails
  BY <1>2 DEF BindFails, Failures
<1>3. CASE Register
  BY <1>3 DEF Register
<1>4. CASE ServeReturns
  BY <1>4 DEF ServeReturns
<1>5. CASE ChmodFails
  BY <1>5 DEF ChmodFails, Failures
<1> QED BY <1>1, <1>2, <1>3, <1>4, <1>5 DEF Server

LEMMA AcceptFailsInv == LInv /\ AcceptFails => LInv'
BY DEF AcceptFails, LInv, TypeOK, Running, Exited, Open, ServePhase, MainPhase,
       ExitCodeTruthful, Failures

LEMMA ConnectionInv == ASSUME LInv, NEW c \in Conns, Connection(c) PROVE LInv'
<1> USE DEF Running, Exited
<1>1. PICK to \in {"none", "new", "short", "stream"} :
        /\ Running
        /\ conn' = [conn EXCEPT ![c] = to]
        /\ conn[c] # "none" \/ (serve = "accepting" /\ listener = "registered")
        /\ UNCHANGED <<main, stopChan, serve, errChan, listener, failed, signalled>>
  BY DEF Connection, Accept, RequestStream, RequestShort, NewEnds, ShortEnds,
         StreamEnds, ConnStep
<1>2. TypeOK' /\ ExitCodeTruthful'
  BY <1>1 DEF LInv, TypeOK, ExitCodeTruthful
<1>3. Open = {} => serve = "accepting" /\ listener = "registered"
  BY <1>1 DEF Open
<1>4. errChan = "error" => "accept" \in failed
  BY <1>1, <1>3 DEF LInv, ServePhase
<1>5. ServePhase'
  BY <1>1, <1>3, <1>4 DEF LInv, ServePhase
<1>6. MainPhase'
  BY <1>1, <1>3 DEF LInv, MainPhase
<1> QED BY <1>2, <1>5, <1>6 DEF LInv

LEMMA LNext == LInv /\ [Next]_vars => LInv'
<1> SUFFICES ASSUME LInv, [Next]_vars PROVE LInv'
  OBVIOUS
<1>1. CASE UNCHANGED vars
  BY <1>1 DEF vars, LInv, TypeOK, Running, Exited, Open, ServePhase, MainPhase,
              ExitCodeTruthful
<1> QED BY <1>1, SignalInv, KillInv, MainInv, ServerInv, AcceptFailsInv,
           ConnectionInv DEF Next

LEMMA LCorrect == Spec => []LInv
BY LInit, LNext, PTL DEF Spec

(* The types hold in every state. *)
THEOREM LifecycleTypes == Spec => []TypeOK
<1>1. LInv => TypeOK
  BY DEF LInv
<1> QED BY <1>1, LCorrect, PTL

(* 0 means a signal, 1 an error, however signals and failures are ordered. *)
THEOREM ExitCodesTruthful == Spec => []ExitCodeTruthful
<1>1. LInv => ExitCodeTruthful
  BY DEF LInv
<1> QED BY <1>1, LCorrect, PTL

LEMMA ExitZeroStep ==
  ASSUME LInv, Next, main' = "exit0"
  PROVE  Open = {} \/ StoppedEarly
<1>1. (TakeError /\ errChan = "nil") \/ AwaitServe
  BY DEF Next, Main, Server, Connection, Signal, Kill, StartServing, TakeError,
         TakeSignal, TakeSignalCloseFails, Drained, AwaitServe, Exit, Bind,
         BindFails, ChmodFails, Register, ServeReturns, AcceptFails, ConnStep,
         Running, Exited, Accept, RequestStream, RequestShort, NewEnds, ShortEnds,
         StreamEnds, LInv, TypeOK
<1>2. CASE TakeError /\ errChan = "nil"
  BY <1>2 DEF TakeError, LInv, MainPhase, Running, Exited
<1>3. CASE AwaitServe
  BY <1>3 DEF AwaitServe, LInv, TypeOK, ServePhase, MainPhase, Running, Exited,
              StoppedEarly
<1> QED BY <1>1, <1>2, <1>3

(* An exit with 0 that finds a connection open has not shut down a server  *)
(* that was up: the signal came before it was, and it ended by itself.     *)
THEOREM ExitZeroCutsNothing == Spec => NothingCutOff
<1>1. LInv /\ [Next]_vars => [main' = "exit0" /\ Open # {} => StoppedEarly]_vars
  BY ExitZeroStep
<1> QED BY <1>1, LCorrect, PTL DEF Spec, NothingCutOff
=============================================================================
