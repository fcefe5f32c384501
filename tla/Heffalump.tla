----------------------------- MODULE Heffalump -----------------------------
(***************************************************************************)
(* internal/heffalump/heffalump.go (WriteHell and its buffer pool) inside  *)
(* the stream writer of hellPot (internal/http/router.go), one process per *)
(* response: fasthttp runs the closure given to SetBodyStreamWriter on a   *)
(* goroutine of its own and connects it to the connection's worker by a    *)
(* pipe of PipeCap chunks.                                                 *)
(*                                                                         *)
(* A chunk is one bw.Write or bw.Flush that reaches the pipe: number 0 is  *)
(* the "<html>\n<body>\n" header, number k the k-th buffer the response's  *)
(* Reader filled.  Sizes are left out: a full buffer is larger than bw's,  *)
(* so each Write goes through to the pipe and the Flush after it has       *)
(* nothing left to write.  The pipe copies what it is given; a worker that *)
(* fails to write to its connection closes the pipe, and every write after *)
(* that fails.                                                             *)
(***************************************************************************)
EXTENDS Integers, Sequences

CONSTANTS
  Streams,   (* the responses that can be under way at one time *)
  Buffers,   (* the memory blocks the pool's New can return *)
  None,      (* no buffer, no chunk *)
  PipeCap,   (* the chunks the pipe between writer and worker holds *)
  MaxReads,  (* bound: the chunks one client accepts before it only stalls *)
  MayPanic   (* the responses whose Reader may panic *)

ASSUME HeffalumpAssumption ==
  /\ None \notin Buffers
  /\ PipeCap \in Nat \ {0}
  /\ MaxReads \in Nat
  /\ MayPanic \subseteq Streams

VARIABLES
  pc,      (* where the writer goroutine of a response stands *)
  held,    (* WriteHell's buf *)
  drawn,   (* the buffers its Reader has filled *)
  n,       (* hellPot's n: what FINISH will log as BYTES *)
  err,     (* what WriteHell returned: "nil", "closed" or "panic" *)
  pool,    (* the buffers in sync.Pool *)
  content, (* what a buffer holds: <<response, chunk number>> or None *)
  pipe,    (* the chunks written and not yet taken by the worker *)
  cut,     (* the worker has closed the pipe *)
  client,  (* "none", "reading", "stalled" or "gone" *)
  rcvd     (* the chunks written to the client's connection *)

writerVars == <<pc, held, drawn, n, err>>
bufferVars == <<pool, content>>
connVars   == <<pipe, cut, client, rcvd>>
vars == <<writerVars, bufferVars, connVars>>

Chunks == Streams \X Nat

Init ==
  /\ pc = [s \in Streams |-> "idle"]
  /\ held = [s \in Streams |-> None]
  /\ drawn = [s \in Streams |-> 0]
  /\ n = [s \in Streams |-> 0]
  /\ err = [s \in Streams |-> "nil"]
  /\ pool = {}
  /\ content = [b \in Buffers |-> None]
  /\ pipe = [s \in Streams |-> <<>>]
  /\ cut = [s \in Streams |-> FALSE]
  /\ client = [s \in Streams |-> "none"]
  /\ rcvd = [s \in Streams |-> 0]

-----------------------------------------------------------------------------
(* hellPot logs NEW and hands the response a stream writer with n = 0 and  *)
(* err = nil; fasthttp makes it a new pipe.                                *)
Request(s) ==
  /\ pc[s] = "idle"
  /\ client[s] = "none"
  /\ pc' = [pc EXCEPT ![s] = "get"]
  /\ drawn' = [drawn EXCEPT ![s] = 0]
  /\ n' = [n EXCEPT ![s] = 0]
  /\ err' = [err EXCEPT ![s] = "nil"]
  /\ pipe' = [pipe EXCEPT ![s] = <<>>]
  /\ cut' = [cut EXCEPT ![s] = FALSE]
  /\ client' = [client EXCEPT ![s] = "reading"]
  /\ rcvd' = [rcvd EXCEPT ![s] = 0]
  /\ UNCHANGED <<held, bufferVars>>

(* Mutant: New hands out one block of the package again and again. *)
InUseIgnored == {}

InUse == {held[s] : s \in Streams} \ {None}

(* buf := h.pool.Get().([]byte): a buffer of the pool, whoever put it      *)
(* there, or a new block, which nobody has; New may run although the pool  *)
(* holds buffers, they may be another CPU's.                               *)
GetBuffer(s) ==
  /\ pc[s] = "get"
  /\ \E b \in pool \cup (Buffers \ InUse) :
       /\ held' = [held EXCEPT ![s] = b]
       /\ pool' = pool \ {b}
       /\ content' = IF b \in pool THEN content
                     ELSE [content EXCEPT ![b] = None]
  /\ pc' = [pc EXCEPT ![s] = "header"]
  /\ UNCHANGED <<drawn, n, err, connVars>>

(* Mutant: a chunk is counted before its error is looked at. *)
SendCountsFirst(s, chunk, next) ==
  IF cut[s]
  THEN /\ err' = [err EXCEPT ![s] = "closed"]
       /\ pc' = [pc EXCEPT ![s] = "return"]
       /\ n' = [n EXCEPT ![s] = @ + 1]
       /\ UNCHANGED pipe
  ELSE /\ Len(pipe[s]) < PipeCap
       /\ pipe' = [pipe EXCEPT ![s] = Append(@, chunk)]
       /\ n' = [n EXCEPT ![s] = @ + 1]
       /\ pc' = [pc EXCEPT ![s] = next]
       /\ UNCHANGED err

(* Mutant: a full pipe is an error instead of a wait. *)
SendNeverWaits(s, chunk, next) ==
  IF cut[s] \/ Len(pipe[s]) = PipeCap
  THEN /\ err' = [err EXCEPT ![s] = "closed"]
       /\ pc' = [pc EXCEPT ![s] = "return"]
       /\ UNCHANGED <<n, pipe>>
  ELSE /\ pipe' = [pipe EXCEPT ![s] = Append(@, chunk)]
       /\ n' = [n EXCEPT ![s] = @ + 1]
       /\ pc' = [pc EXCEPT ![s] = next]
       /\ UNCHANGED err

(* One write that reaches the pipe: it waits for room, fails once the pipe *)
(* is cut, and counts the chunk in n only when it was accepted.            *)
Send(s, chunk, next) ==
  IF cut[s]
  THEN /\ err' = [err EXCEPT ![s] = "closed"]
       /\ pc' = [pc EXCEPT ![s] = "return"]
       /\ UNCHANGED <<n, pipe>>
  ELSE /\ Len(pipe[s]) < PipeCap
       /\ pipe' = [pipe EXCEPT ![s] = Append(@, chunk)]
       /\ n' = [n EXCEPT ![s] = @ + 1]
       /\ pc' = [pc EXCEPT ![s] = next]
       /\ UNCHANGED err

(* bw.WriteString of the header, and the Flush that sends it. *)
WriteHeader(s) ==
  /\ pc[s] = "header"
  /\ Send(s, <<s, 0>>, "read")
  /\ UNCHANGED <<held, drawn, bufferVars, cut, client, rcvd>>

(* Mutant: Read returns 0, nil and the loop goes round. *)
ReadChunkOfNothing(s) ==
  /\ pc[s] = "read"
  /\ UNCHANGED vars

(* r.Read(buf) fills the whole buffer and returns no error. *)
ReadChunk(s) ==
  /\ pc[s] = "read"
  /\ drawn' = [drawn EXCEPT ![s] = @ + 1]
  /\ content' = [content EXCEPT ![held[s]] = <<s, drawn[s] + 1>>]
  /\ pc' = [pc EXCEPT ![s] = "write"]
  /\ UNCHANGED <<held, n, err, pool, connVars>>

(* Mutant: the recovery lets go of buf before the deferred Put. *)
PanicDropsBuffer(s) ==
  /\ pc[s] = "read"
  /\ s \in MayPanic
  /\ err' = [err EXCEPT ![s] = "panic"]
  /\ pc' = [pc EXCEPT ![s] = "return"]
  /\ held' = [held EXCEPT ![s] = None]
  /\ UNCHANGED <<drawn, n, bufferVars, connVars>>

(* Mutant: the recovery puts buf back, and so does the deferred Put. *)
PanicPutsTwice(s) ==
  /\ pc[s] = "read"
  /\ s \in MayPanic
  /\ err' = [err EXCEPT ![s] = "panic"]
  /\ pc' = [pc EXCEPT ![s] = "return"]
  /\ pool' = pool \cup {held[s]}
  /\ UNCHANGED <<held, drawn, n, content, connVars>>

(* r.Read panics; the deferred functions of WriteHell take over. *)
Panic(s) ==
  /\ pc[s] = "read"
  /\ s \in MayPanic
  /\ err' = [err EXCEPT ![s] = "panic"]
  /\ pc' = [pc EXCEPT ![s] = "return"]
  /\ UNCHANGED <<held, drawn, n, bufferVars, connVars>>

(* bw.Write(buf[:read]), bw.Flush() and back to the head of the loop. *)
WriteChunk(s) ==
  /\ pc[s] = "write"
  /\ Send(s, content[held[s]], "read")
  /\ UNCHANGED <<held, drawn, bufferVars, cut, client, rcvd>>

(* The deferred Put and recover: WriteHell returns an error either way, so *)
(* hellPot's loop ends.                                                    *)
ReturnHell(s) ==
  /\ pc[s] = "return"
  /\ pool' = pool \cup {held[s]}
  /\ held' = [held EXCEPT ![s] = None]
  /\ pc' = [pc EXCEPT ![s] = "finish"]
  /\ UNCHANGED <<drawn, n, err, content, connVars>>

(* Mutant: only a panic ends hellPot's loop, a failed write calls WriteHell *)
(* once more.                                                              *)
FinishGoesOn(s) ==
  /\ pc[s] = "finish"
  /\ pc' = [pc EXCEPT ![s] = IF err[s] = "panic" THEN "idle" ELSE "get"]
  /\ UNCHANGED <<held, drawn, n, err, bufferVars, connVars>>

(* hellPot logs FINISH, the closure returns and the pipe gets its end. *)
Finish(s) ==
  /\ pc[s] = "finish"
  /\ pc' = [pc EXCEPT ![s] = "idle"]
  /\ UNCHANGED <<held, drawn, n, err, bufferVars, connVars>>

Writer(s) ==
  \/ GetBuffer(s)
  \/ WriteHeader(s)
  \/ ReadChunk(s)
  \/ WriteChunk(s)
  \/ ReturnHell(s)
  \/ Finish(s)

-----------------------------------------------------------------------------
(* fasthttp's worker writes the next chunk to a connection that takes it.  *)
Deliver(s) ==
  /\ client[s] = "reading"
  /\ pipe[s] # <<>>
  /\ rcvd[s] < MaxReads
  /\ pipe' = [pipe EXCEPT ![s] = Tail(@)]
  /\ rcvd' = [rcvd EXCEPT ![s] = @ + 1]
  /\ UNCHANGED <<writerVars, bufferVars, cut, client>>

(* The write fails: the client is gone.  The worker closes the pipe and    *)
(* drops the connection.                                                   *)
DeliverFails(s) ==
  /\ client[s] = "gone"
  /\ pipe[s] # <<>>
  /\ cut' = [cut EXCEPT ![s] = TRUE]
  /\ client' = [client EXCEPT ![s] = "none"]
  /\ UNCHANGED <<writerVars, bufferVars, pipe, rcvd>>

(* The pipe is drained and ended: the response is complete, and without    *)
(* keep-alive the worker closes the connection.                            *)
EndResponse(s) ==
  /\ client[s] # "none"
  /\ pc[s] = "idle"
  /\ pipe[s] = <<>>
  /\ client' = [client EXCEPT ![s] = "none"]
  /\ UNCHANGED <<writerVars, bufferVars, pipe, cut, rcvd>>

Worker(s) == Deliver(s) \/ DeliverFails(s) \/ EndResponse(s)

(* The client stops reading, reads on, or closes the connection. *)
ClientMoves(s) ==
  /\ \/ client[s] = "reading" /\ client' = [client EXCEPT ![s] = "stalled"]
     \/ client[s] = "stalled" /\ client' = [client EXCEPT ![s] = "reading"]
     \/ /\ client[s] \in {"reading", "stalled"}
        /\ client' = [client EXCEPT ![s] = "gone"]
  /\ UNCHANGED <<writerVars, bufferVars, pipe, cut, rcvd>>

(* The garbage collector empties the pool. *)
CollectPool ==
  /\ pool # {}
  /\ pool' = {}
  /\ UNCHANGED <<writerVars, content, connVars>>

Next ==
  \/ \E s \in Streams :
       Request(s) \/ Writer(s) \/ Panic(s) \/ Worker(s) \/ ClientMoves(s)
  \/ CollectPool

Spec == Init /\ [][Next]_vars

(* The Go scheduler runs every goroutine that can run.  Requests, clients, *)
(* panics and collections need not happen.                                 *)
FairSpec ==
  Spec /\ \A s \in Streams : WF_vars(Writer(s)) /\ WF_vars(Worker(s))

-----------------------------------------------------------------------------
(* The types of the variables. *)
TypeOK ==
  /\ pc \in [Streams -> {"idle", "get", "header", "read", "write", "return",
                         "finish"}]
  /\ held \in [Streams -> Buffers \cup {None}]
  /\ drawn \in [Streams -> Nat]
  /\ n \in [Streams -> Nat]
  /\ err \in [Streams -> {"nil", "closed", "panic"}]
  /\ pool \subseteq Buffers
  /\ content \in [Buffers -> Chunks \cup {None}]
  /\ pipe \in [Streams -> Seq(Chunks)]
  /\ cut \in [Streams -> BOOLEAN]
  /\ client \in [Streams -> {"none", "reading", "stalled", "gone"}]
  /\ rcvd \in [Streams -> Nat]

(* A buffer is filled and written by one response at a time, and none that *)
(* a response works on can be taken from the pool: WriteHell's Get and its *)
(* deferred Put pair up on every path, panics included.                    *)
BufferExclusive ==
  /\ \A s, t \in Streams : s # t /\ held[s] = held[t] => held[s] = None
  /\ \A s \in Streams : held[s] \notin pool

(* What waits in a response's pipe continues what its client has got: the  *)
(* header once, then every buffer its own Reader filled, none skipped,     *)
(* repeated or belonging to another response.                              *)
StreamInOrder ==
  \A s \in Streams : \A i \in 1 .. Len(pipe[s]) :
    pipe[s][i] = <<s, rcvd[s] + i - 1>>

(* The count hellPot logs is what the pipe accepted: ahead of what reached *)
(* the client by no more than the pipe's content, and never behind it.     *)
CountExact ==
  \A s \in Streams :
    /\ n[s] = rcvd[s] + Len(pipe[s])
    /\ Len(pipe[s]) <= PipeCap

(* A client that stays is served for ever: its response ends only when     *)
(* the generator itself panicked, and then with all that was generated.    *)
EndsOnlyByPanic ==
  [][\A s \in Streams :
       client[s] \in {"reading", "stalled"} /\ client'[s] = "none"
         => err[s] = "panic" /\ rcvd[s] = n[s]]_vars

(* When the client is gone, goroutine, buffer and connection are freed.    *)
Reclaimed ==
  \A s \in Streams :
    client[s] = "gone" ~> client[s] = "none" /\ pc[s] = "idle" /\ held[s] = None

(* A client that reads gets its next chunk, unless the generator panicked: *)
(* no stream starves another, nor does the pool or the pipe block it.      *)
Progress ==
  \A s \in Streams : \A k \in 0 .. MaxReads - 1 :
    client[s] = "reading" /\ rcvd[s] = k
      ~> rcvd[s] # k \/ client[s] # "reading" \/ err[s] = "panic"
=============================================================================
