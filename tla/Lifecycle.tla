----------------------------- MODULE Lifecycle -----------------------------
(***************************************************************************)
(* From signal.Notify to the exit code: serveUntilSignal                   *)
(* (cmd/HellPot/HellPot.go), the goroutine that runs Server.Serve and the  *)
(* call of Server.Shutdown (internal/http/router.go), with the signals of  *)
(* the operating system and the connections that are open meanwhile.       *)
(*                                                                         *)
(* fasthttp is modelled as those two calls use it.  Serve registers its    *)
(* listener some time after it has bound the address; Shutdown returns at  *)
(* once when no listener is registered, else it closes the listener and    *)
(* waits for every open connection; Serve returns nil when its listener is *)
(* closed, and an error when accepting fails for good (no more file        *)
(* descriptors, say): then its listener stays registered and the           *)
(* connections it has accepted go on.                                      *)
(***************************************************************************)
EXTENDS Integers

CONSTANTS
  Conns,      (* the connections that can be open at one time *)
  MayFail     (* what may fail: a subset of Failures *)

Failures == {"bind", "chmod", "close", "accept"}

ASSUME LifecycleAssumption == MayFail \subseteq Failures

VARIABLES
  main,      (* where serveUntilSignal stands, or how the process ended *)
  stopChan,  (* the signals waiting in stopChan, 0 or 1 *)
  serve,     (* where the goroutine with srv.Serve stands *)
  errChan,   (* what it has sent: "none", "nil" or "error" *)
  listener,  (* "closed", "bound" or "registered" with fasthttp *)
  conn,      (* "none", "new", "short" or "stream", for each connection *)
  failed,    (* history: the calls that have returned an error *)
  signalled  (* history: "no", or when serveUntilSignal took a signal: "early",
                no listener was registered yet, or "listening" *)

vars == <<main, stopChan, serve, errChan, listener, conn, failed, signalled>>

Exited == {"killed", "exit0", "exit1"}
Running == main \notin Exited
Open == {c \in Conns : conn[c] # "none"}

Init ==
  /\ main = "boot"
  /\ stopChan = 0
  /\ serve = "none"
  /\ errChan = "none"
  /\ listener = "closed"
  /\ conn = [c \in Conns |-> "none"]
  /\ failed = {}
  /\ signalled = "no"

-----------------------------------------------------------------------------
(* Mutant: stopChan has no bound. *)
SignalPilesUp ==
  /\ Running
  /\ main # "boot"
  /\ stopChan < 2
  /\ stopChan' = stopChan + 1
  /\ UNCHANGED <<main, serve, errChan, listener, conn, failed, signalled>>

(* SIGINT or SIGTERM.  Before signal.Notify it kills the process; after it *)
(* the runtime sends without blocking: a second signal finds the channel   *)
(* full, or waits in it unread.                                            *)
Signal ==
  /\ Running
  /\ IF main = "boot"
     THEN main' = "killed" /\ conn' = [c \in Conns |-> "none"] /\ UNCHANGED stopChan
     ELSE stopChan = 0 /\ stopChan' = 1 /\ UNCHANGED <<main, conn>>
  /\ UNCHANGED <<serve, errChan, listener, failed, signalled>>

(* SIGKILL, as after docker-compose.yml's stop_grace_period. *)
Kill ==
  /\ Running
  /\ main' = "killed"
  /\ conn' = [c \in Conns |-> "none"]
  /\ listener' = "closed"
  /\ UNCHANGED <<stopChan, serve, errChan, failed, signalled>>

(* signal.Notify, and the goroutine that serves. *)
StartServing ==
  /\ main = "boot"
  /\ main' = "select"
  /\ serve' = "starting"
  /\ UNCHANGED <<stopChan, errChan, listener, conn, failed, signalled>>

(* The process ends, and with it every goroutine and connection. *)
Exit(code) ==
  /\ main' = code
  /\ conn' = [c \in Conns |-> "none"]
  /\ listener' = "closed"

(* Mutant: an error of Serve is logged and the code is 0. *)
TakeErrorAsSuccess ==
  /\ main = "select"
  /\ errChan # "none"
  /\ Exit("exit0")
  /\ errChan' = "none"
  /\ UNCHANGED <<stopChan, serve, failed, signalled>>

(* case err := <-errChan *)
TakeError ==
  /\ main = "select"
  /\ errChan # "none"
  /\ Exit(IF errChan = "error" THEN "exit1" ELSE "exit0")
  /\ errChan' = "none"
  /\ UNCHANGED <<stopChan, serve, failed, signalled>>

SignalTaken == IF listener = "registered" THEN "listening" ELSE "early"

(* Mutant: the listener is closed and open connections are not awaited. *)
TakeSignalNoDrain ==
  /\ main = "select"
  /\ stopChan = 1
  /\ stopChan' = 0
  /\ signalled' = SignalTaken
  /\ main' = "await"
  /\ listener' = IF listener = "registered" THEN "closed" ELSE listener
  /\ UNCHANGED <<serve, errChan, conn, failed>>

(* case sig := <-stopChan, then srv.Shutdown: without a listener it has    *)
(* nothing to do, and main goes on to wait for errChan.                    *)
TakeSignal ==
  /\ main = "select"
  /\ stopChan = 1
  /\ stopChan' = 0
  /\ signalled' = SignalTaken
  /\ IF listener = "registered"
     THEN main' = "draining" /\ listener' = "closed"
     ELSE main' = "await" /\ UNCHANGED listener
  /\ UNCHANGED <<serve, errChan, conn, failed>>

(* As above, but closing the listener fails: Shutdown returns the error.   *)
TakeSignalCloseFails ==
  /\ main = "select"
  /\ stopChan = 1
  /\ listener = "registered"
  /\ "close" \in MayFail
  /\ stopChan' = 0
  /\ signalled' = SignalTaken
  /\ failed' = failed \cup {"close"}
  /\ Exit("exit1")
  /\ UNCHANGED <<serve, errChan>>

(* Mutant: responses that are streamed do not count as open. *)
DrainedButStreams ==
  /\ main = "draining"
  /\ \A c \in Open : conn[c] = "stream"
  /\ main' = "await"
  /\ UNCHANGED <<stopChan, serve, errChan, listener, conn, failed, signalled>>

(* Shutdown's loop ends when no connection is open. *)
Drained ==
  /\ main = "draining"
  /\ Open = {}
  /\ main' = "await"
  /\ UNCHANGED <<stopChan, serve, errChan, listener, conn, failed, signalled>>

(* err := <-errChan after the shutdown: logged at most, the code is 0. *)
AwaitServe ==
  /\ main = "await"
  /\ errChan # "none"
  /\ Exit("exit0")
  /\ errChan' = "none"
  /\ UNCHANGED <<stopChan, serve, failed, signalled>>

Main ==
  StartServing \/ TakeError \/ TakeSignal \/ TakeSignalCloseFails
    \/ Drained \/ AwaitServe

-----------------------------------------------------------------------------
(* net.Listen in ListenAndServe, or ListenUnix for a socket. *)
Bind ==
  /\ Running
  /\ serve = "starting"
  /\ serve' = "bound"
  /\ listener' = "bound"
  /\ UNCHANGED <<main, stopChan, errChan, conn, failed, signalled>>

(* Mutant: the error is sent only to a select that is waiting for it. *)
BindFailsUnheard ==
  /\ Running
  /\ serve = "starting"
  /\ "bind" \in MayFail
  /\ serve' = "returned"
  /\ errChan' = IF main = "select" THEN "error" ELSE "none"
  /\ failed' = failed \cup {"bind"}
  /\ UNCHANGED <<main, stopChan, listener, conn, signalled>>

BindFails ==
  /\ Running
  /\ serve = "starting"
  /\ "bind" \in MayFail
  /\ serve' = "returned"
  /\ errChan' = "error"
  /\ failed' = failed \cup {"bind"}
  /\ UNCHANGED <<main, stopChan, listener, conn, signalled>>

(* A socket's permissions cannot be set: its listener is closed again. *)
ChmodFails ==
  /\ Running
  /\ serve = "bound"
  /\ "chmod" \in MayFail
  /\ serve' = "returned"
  /\ errChan' = "error"
  /\ listener' = "closed"
  /\ failed' = failed \cup {"chmod"}
  /\ UNCHANGED <<main, stopChan, conn, signalled>>

(* A socket's permissions are set; fasthttp's Serve registers the listener *)
(* and starts to accept.                                                   *)
Register ==
  /\ Running
  /\ serve = "bound"
  /\ serve' = "accepting"
  /\ listener' = "registered"
  /\ UNCHANGED <<main, stopChan, errChan, conn, failed, signalled>>

(* Accept fails on the closed listener; errChan <- nil never blocks. *)
ServeReturns ==
  /\ Running
  /\ serve = "accepting"
  /\ listener = "closed"
  /\ serve' = "returned"
  /\ errChan' = "nil"
  /\ UNCHANGED <<main, stopChan, listener, conn, failed, signalled>>

(* Accepting fails for good while the listener is open. *)
AcceptFails ==
  /\ Running
  /\ serve = "accepting"
  /\ listener = "registered"
  /\ "accept" \in MayFail
  /\ serve' = "returned"
  /\ errChan' = "error"
  /\ failed' = failed \cup {"accept"}
  /\ UNCHANGED <<main, stopChan, listener, conn, signalled>>

(* Every step of the goroutine but AcceptFails, which need never come. *)
Server == Bind \/ BindFails \/ ChmodFails \/ Register \/ ServeReturns

-----------------------------------------------------------------------------
ConnStep(c, from, to) ==
  /\ Running
  /\ conn[c] = from
  /\ conn' = [conn EXCEPT ![c] = to]
  /\ UNCHANGED <<main, stopChan, serve, errChan, listener, failed, signalled>>

Accept(c) ==
  /\ serve = "accepting"
  /\ listener = "registered"
  /\ ConnStep(c, "none", "new")

(* The request reaches hellPot, or gets a short answer: robots.txt, the    *)
(* denied user agent's 404, an error of fasthttp.                          *)
RequestStream(c) == ConnStep(c, "new", "stream")
RequestShort(c)  == ConnStep(c, "new", "short")

(* ReadTimeout ends the wait for a request; DisableKeepalive ends the      *)
(* connection with its short answer.                                       *)
NewEnds(c)   == ConnStep(c, "new", "none")
ShortEnds(c) == ConnStep(c, "short", "none")

(* A stream ends when its client goes, and only then (Heffalump). *)
StreamEnds(c) == ConnStep(c, "stream", "none")

Connection(c) ==
  \/ Accept(c)
  \/ RequestStream(c)
  \/ RequestShort(c)
  \/ NewEnds(c)
  \/ ShortEnds(c)
  \/ StreamEnds(c)

Next ==
  \/ Signal
  \/ Kill
  \/ Main
  \/ Server
  \/ AcceptFails
  \/ \E c \in Conns : Connection(c)

Spec == Init /\ [][Next]_vars

(* Goroutines that can run do; timeouts and short answers end.  Signals,   *)
(* failures of Accept, clients that connect and clients that leave are     *)
(* free.                                                                   *)
FairSpec ==
  /\ Spec
  /\ WF_vars(Main)
  /\ WF_vars(Server)
  /\ \A c \in Conns :
       WF_vars(RequestStream(c) \/ RequestShort(c) \/ NewEnds(c) \/ ShortEnds(c))

-----------------------------------------------------------------------------
(* The types of the variables. *)
TypeOK ==
  /\ main \in {"boot", "select", "draining", "await"} \cup Exited
  /\ stopChan \in {0, 1}
  /\ serve \in {"none", "starting", "bound", "accepting", "returned"}
  /\ errChan \in {"none", "nil", "error"}
  /\ listener \in {"closed", "bound", "registered"}
  /\ conn \in [Conns -> {"none", "new", "short", "stream"}]
  /\ failed \subseteq Failures
  /\ signalled \in {"no", "early", "listening"}

(* The exit code tells what happened: 0 only after a signal, 1 only after  *)
(* an error of Serve or Shutdown.                                          *)
ExitCodeTruthful ==
  /\ main = "exit0" => signalled # "no"
  /\ main = "exit1" => failed # {}

(* The one way out with 0 that does not wait for connections: the signal   *)
(* was taken before there was a listener to shut down, and the server that *)
(* came up after it has ended by itself (HellPot.go:125-128).              *)
StoppedEarly == signalled = "early" /\ "accept" \in failed

(* No response is broken off by a shutdown that found the server up and    *)
(* reports success: the step that exits with 0 finds no connection open,   *)
(* StoppedEarly apart.                                                     *)
NothingCutOff == [][main' = "exit0" /\ Open # {} => StoppedEarly]_vars

(* An error of Serve is always heard: a listener that does not come up     *)
(* ends the process, whatever else it is told, and one that can no longer  *)
(* accept does so too, or a shutdown is already waiting for connections.   *)
ServeErrorEnds ==
  /\ failed \cap {"bind", "chmod"} # {} ~> main \in Exited
  /\ "accept" \in failed ~> main \in Exited \cup {"draining"}

(* router.go:194, "Shutdown gracefully stops the HTTP server", and         *)
(* docker-compose.yml:21-22, a SIGTERM and ten seconds to stop: a shutdown *)
(* that found the listener ends the process.                               *)
ShutdownStops == main = "draining" ~> main \in Exited

(* The same line of a signal at any time: after Shutdown has returned, no  *)
(* listener takes connections.                                             *)
StoppedListening == main = "await" => listener # "registered"
=============================================================================
