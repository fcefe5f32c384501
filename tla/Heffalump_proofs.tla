-------------------------- MODULE Heffalump_proofs --------------------------
(***************************************************************************)
(* Proofs about Heffalump, for any number of responses, any pool and any   *)
(* pipe: the safety invariants of the run, that the response of a client   *)
(* that stays ends by a panic only, and that the response of one that is   *)
(* gone has a bounded number of steps before it.                           *)
(***************************************************************************)
EXTENDS Heffalump, SequenceTheorems, TLAPS

(* Where a response holds a buffer, and how far its Reader is ahead of the *)
(* pipe: by the buffer about to be written, no more.                       *)
HoldsBuffer(s) ==
  /\ pc[s] \in {"header", "read", "write", "return"} => held[s] \in Buffers
  /\ pc[s] \in {"idle", "get", "finish"} => held[s] = None

Drawn(s) ==
  /\ pc[s] \in {"get", "header"} => n[s] = 0 /\ drawn[s] = 0
  /\ pc[s] = "read" => n[s] = drawn[s] + 1
  /\ pc[s] = "write" => n[s] = drawn[s] /\ content[held[s]] = <<s, drawn[s]>>

(* Why a writer stops: a panic, or a pipe the worker cut after its client  *)
(* had gone.                                                               *)
StopReason(s) ==
  /\ pc[s] \in {"return", "finish"} => err[s] # "nil"
  /\ pc[s] = "idle" /\ client[s] # "none" => err[s] # "nil"
  /\ err[s] = "closed" => cut[s]
  /\ cut[s] => client[s] = "none"

InOrder(s) == \A i \in 1 .. Len(pipe[s]) : pipe[s][i] = <<s, rcvd[s] + i - 1>>
Counted(s) == n[s] = rcvd[s] + Len(pipe[s]) /\ Len(pipe[s]) <= PipeCap

StreamInv ==
  \A s \in Streams :
    HoldsBuffer(s) /\ Drawn(s) /\ StopReason(s) /\ InOrder(s) /\ Counted(s)

HInv == TypeOK /\ BufferExclusive /\ StreamInv

-----------------------------------------------------------------------------
(* Appending to a pipe, and taking its head. *)
LEMMA PipeAppend ==
  ASSUME NEW p \in Seq(Chunks), NEW c \in Chunks
  PROVE  /\ Append(p, c) \in Seq(Chunks)
         /\ Len(Append(p, c)) = Len(p) + 1
         /\ Len(p) \in Nat
         /\ \A i \in 1 .. Len(p) : Append(p, c)[i] = p[i]
         /\ Append(p, c)[Len(p) + 1] = c
BY AppendProperties, LenProperties

LEMMA PipeTail ==
  ASSUME NEW p \in Seq(Chunks), p # <<>>
  PROVE  /\ Tail(p) \in Seq(Chunks)
         /\ Len(p) \in Nat
         /\ Len(Tail(p)) = Len(p) - 1
         /\ \A i \in 1 .. Len(Tail(p)) : Tail(p)[i] = p[i + 1]
BY HeadTailProperties, LenProperties

(* A write changes nothing but the writer's own pc, n, err and pipe, keeps *)
(* the count exact and puts its chunk behind the others.                   *)
LEMMA SendInv ==
  ASSUME HInv, NEW s \in Streams, NEW chunk, NEW next,
         chunk = <<s, n[s]>>,
         next \in {"read"},
         Send(s, chunk, next),
         UNCHANGED <<cut, client, rcvd>>
  PROVE  /\ pc' \in [Streams -> {"idle", "get", "header", "read", "write",
                                 "return", "finish"}]
         /\ n' \in [Streams -> Nat]
         /\ err' \in [Streams -> {"nil", "closed", "panic"}]
         /\ pipe' \in [Streams -> Seq(Chunks)]
         /\ \A t \in Streams \ {s} :
              /\ pc'[t] = pc[t] /\ n'[t] = n[t]
              /\ err'[t] = err[t] /\ pipe'[t] = pipe[t]
         /\ \/ pc'[s] = next /\ n'[s] = n[s] + 1 /\ err'[s] = err[s]
            \/ pc'[s] = "return" /\ err'[s] = "closed" /\ cut[s]
         /\ InOrder(s)' /\ Counted(s)'
<1>1. /\ TypeOK /\ InOrder(s) /\ Counted(s)
      /\ pipe[s] \in Seq(Chunks) /\ n[s] \in Nat /\ rcvd[s] \in Nat
  BY DEF HInv, StreamInv, TypeOK
<1>2. CASE cut[s]
  BY <1>1, <1>2 DEF Send, TypeOK, InOrder, Counted
<1>3. CASE ~ cut[s]
  <2>1. chunk \in Chunks
    BY <1>1 DEF Chunks
  <2>2. /\ Append(pipe[s], chunk) \in Seq(Chunks)
        /\ Len(Append(pipe[s], chunk)) = Len(pipe[s]) + 1
        /\ Len(pipe[s]) \in Nat
        /\ \A i \in 1 .. Len(pipe[s]) : Append(pipe[s], chunk)[i] = pipe[s][i]
        /\ Append(pipe[s], chunk)[Len(pipe[s]) + 1] = chunk
    BY <1>1, <2>1, PipeAppend
  <2>3. /\ Len(pipe[s]) < PipeCap
        /\ pipe' = [pipe EXCEPT ![s] = Append(pipe[s], chunk)]
        /\ n' = [n EXCEPT ![s] = n[s] + 1]
        /\ pc' = [pc EXCEPT ![s] = next]
        /\ err' = err
    BY <1>3 DEF Send
  <2>4. pipe'[s] = Append(pipe[s], chunk) /\ n'[s] = n[s] + 1
    BY <1>1, <2>3 DEF TypeOK
  <2>5. Counted(s)'
    BY <1>1, <2>2, <2>3, <2>4, HeffalumpAssumption DEF Counted
  <2>6. InOrder(s)'
    <3>1. n[s] = rcvd[s] + (Len(pipe[s]) + 1) - 1
      BY <1>1, <2>2 DEF Counted
    <3>2. ASSUME NEW i \in 1 .. Len(pipe[s]) + 1
          PROVE  Append(pipe[s], chunk)[i] = <<s, rcvd[s] + i - 1>>
      <4>1. CASE i = Len(pipe[s]) + 1
        BY <2>2, <3>1, <4>1
      <4>2. CASE i \in 1 .. Len(pipe[s])
        BY <1>1, <2>2, <4>2 DEF InOrder
      <4> QED BY <2>2, <4>1, <4>2
    <3> QED BY <2>2, <2>4, <3>2 DEF InOrder
  <2> QED BY <1>1, <2>2, <2>3, <2>4, <2>5, <2>6 DEF TypeOK
<1> QED BY <1>2, <1>3

-----------------------------------------------------------------------------
LEMMA HInit == Init => HInv
<1> SUFFICES ASSUME Init PROVE HInv
  OBVIOUS
<1>1. Len(<<>>) = 0 /\ <<>> \in Seq(Chunks)
  OBVIOUS
<1>2. TypeOK
  BY <1>1 DEF Init, TypeOK
<1>3. BufferExclusive
  BY DEF Init, BufferExclusive
<1>4. ASSUME NEW s \in Streams
      PROVE  /\ HoldsBuffer(s) /\ Drawn(s) /\ StopReason(s)
             /\ InOrder(s) /\ Counted(s)
  <2>1. /\ pc[s] = "idle" /\ held[s] = None /\ n[s] = 0 /\ err[s] = "nil"
        /\ pipe[s] = <<>> /\ cut[s] = FALSE /\ client[s] = "none" /\ rcvd[s] = 0
    BY DEF Init
  <2> QED
    BY <1>1, <2>1, HeffalumpAssumption
    DEF HoldsBuffer, Drawn, StopReason, InOrder, Counted
<1> QED BY <1>2, <1>3, <1>4 DEF HInv, StreamInv

(* A response of which a step changes nothing, nor the buffer it is about  *)
(* to write, keeps its part of the invariant.                              *)
Kept(t) ==
  /\ pc'[t] = pc[t] /\ held'[t] = held[t] /\ drawn'[t] = drawn[t]
  /\ n'[t] = n[t] /\ err'[t] = err[t] /\ pipe'[t] = pipe[t]
  /\ cut'[t] = cut[t] /\ client'[t] = client[t] /\ rcvd'[t] = rcvd[t]
  /\ pc[t] = "write" => content'[held[t]] = content[held[t]]

Whole(t) ==
  HoldsBuffer(t) /\ Drawn(t) /\ StopReason(t) /\ InOrder(t) /\ Counted(t)

LEMMA Frame ==
  ASSUME HInv, NEW t \in Streams, Kept(t)
  PROVE  Whole(t)'
<1>1. HoldsBuffer(t) /\ Drawn(t) /\ StopReason(t) /\ InOrder(t) /\ Counted(t)
  BY DEF HInv, StreamInv
<1>2. HoldsBuffer(t)'
  BY <1>1 DEF Kept, HoldsBuffer
<1>3. Drawn(t)'
  BY <1>1 DEF Kept, Drawn
<1>4. StopReason(t)'
  BY <1>1 DEF Kept, StopReason
<1>5. InOrder(t)' /\ Counted(t)'
  BY <1>1 DEF Kept, InOrder, Counted
<1> QED BY <1>2, <1>3, <1>4, <1>5 DEF Whole

-----------------------------------------------------------------------------
(* One lemma per action: it keeps the invariant. *)
LEMMA RequestInv == ASSUME HInv, NEW s \in Streams, Request(s) PROVE HInv'
<1>1. TypeOK /\ BufferExclusive /\ Whole(s)
  BY DEF HInv, StreamInv, Whole
<1>2. Len(<<>>) = 0 /\ <<>> \in Seq(Chunks)
  OBVIOUS
<1>3. TypeOK'
  BY <1>1, <1>2 DEF TypeOK, Request, bufferVars
<1>4. BufferExclusive'
  BY <1>1 DEF BufferExclusive, Request, bufferVars
<1>5. \A t \in Streams \ {s} : Kept(t)
  BY <1>1 DEF TypeOK, Kept, Request, bufferVars
<1>6. Whole(s)'
  <2>1. /\ pc'[s] = "get" /\ held'[s] = held[s] /\ drawn'[s] = 0 /\ n'[s] = 0
        /\ err'[s] = "nil" /\ pipe'[s] = <<>> /\ cut'[s] = FALSE
        /\ client'[s] = "reading" /\ rcvd'[s] = 0 /\ pc[s] = "idle"
    BY <1>1 DEF TypeOK, Request
  <2> QED BY <1>1, <1>2, <2>1, HeffalumpAssumption
          DEF Whole, HoldsBuffer, Drawn, StopReason, InOrder, Counted
<1> QED BY <1>3, <1>4, <1>5, <1>6, Frame DEF HInv, StreamInv, Whole

LEMMA GetBufferInv == ASSUME HInv, NEW s \in Streams, GetBuffer(s) PROVE HInv'
<1>1. TypeOK /\ BufferExclusive /\ Whole(s) /\ StreamInv
  BY DEF HInv, StreamInv, Whole
<1>2. PICK b \in pool \cup (Buffers \ InUse) :
        /\ held' = [held EXCEPT ![s] = b]
        /\ pool' = pool \ {b}
        /\ content' = IF b \in pool THEN content
                      ELSE [content EXCEPT ![b] = None]
  BY DEF GetBuffer
<1>3. b \in Buffers /\ \A t \in Streams : held[t] # b
  BY <1>1, <1>2, HeffalumpAssumption DEF TypeOK, BufferExclusive, InUse
<1>4. TypeOK'
  BY <1>1, <1>2, <1>3 DEF TypeOK, GetBuffer, connVars
<1>5. BufferExclusive'
  BY <1>1, <1>2, <1>3, HeffalumpAssumption DEF BufferExclusive, TypeOK
<1>6. ASSUME NEW t \in Streams \ {s} PROVE Kept(t)
  <2>1. pc[t] = "write" => content'[held[t]] = content[held[t]]
    BY <1>1, <1>2, <1>3 DEF TypeOK
  <2> QED BY <1>1, <1>2, <2>1 DEF TypeOK, Kept, GetBuffer, connVars
<1>7. Whole(s)'
  <2>1. /\ pc'[s] = "header" /\ held'[s] = b /\ pc[s] = "get"
        /\ drawn' = drawn /\ n' = n /\ err' = err /\ pipe' = pipe
        /\ cut' = cut /\ client' = client /\ rcvd' = rcvd
    BY <1>1, <1>2 DEF TypeOK, GetBuffer, connVars
  <2> QED BY <1>1, <1>2, <1>3, <2>1
          DEF Whole, HoldsBuffer, Drawn, StopReason, InOrder, Counted
<1> QED BY <1>4, <1>5, <1>6, <1>7, Frame DEF HInv, StreamInv, Whole

(* A Send from either of its two places. *)
LEMMA SentInv ==
  ASSUME HInv, NEW s \in Streams, NEW chunk,
         \/ pc[s] = "header" /\ chunk = <<s, 0>>
         \/ pc[s] = "write" /\ chunk = content[held[s]],
         Send(s, chunk, "read"),
         UNCHANGED <<held, drawn, bufferVars, cut, client, rcvd>>
  PROVE  HInv'
<1>1. TypeOK /\ BufferExclusive /\ Whole(s)
  BY DEF HInv, StreamInv, Whole
<1>2. chunk = <<s, n[s]>>
  BY <1>1 DEF Whole, Drawn
<1>3. /\ pc' \in [Streams -> {"idle", "get", "header", "read", "write",
                              "return", "finish"}]
      /\ n' \in [Streams -> Nat]
      /\ err' \in [Streams -> {"nil", "closed", "panic"}]
      /\ pipe' \in [Streams -> Seq(Chunks)]
      /\ \A t \in Streams \ {s} :
           /\ pc'[t] = pc[t] /\ n'[t] = n[t]
           /\ err'[t] = err[t] /\ pipe'[t] = pipe[t]
      /\ \/ pc'[s] = "read" /\ n'[s] = n[s] + 1 /\ err'[s] = err[s]
         \/ pc'[s] = "return" /\ err'[s] = "closed" /\ cut[s]
      /\ InOrder(s)' /\ Counted(s)'
  BY <1>2, SendInv
<1>4. TypeOK'
  BY <1>1, <1>3 DEF TypeOK, bufferVars
<1>5. BufferExclusive'
  BY <1>1 DEF BufferExclusive, bufferVars
<1>6. \A t \in Streams \ {s} : Kept(t)
  BY <1>3 DEF Kept, bufferVars
<1>7. HoldsBuffer(s)' /\ Drawn(s)' /\ StopReason(s)'
  <2>1. n[s] = drawn[s]
    BY <1>1 DEF Whole, Drawn
  <2>2. held[s] \in Buffers
    BY <1>1 DEF Whole, HoldsBuffer
  <2> QED BY <1>1, <1>3, <2>1, <2>2
          DEF Whole, HoldsBuffer, Drawn, StopReason, bufferVars
<1> QED BY <1>3, <1>4, <1>5, <1>6, <1>7, Frame DEF HInv, StreamInv, Whole

LEMMA ReadChunkInv == ASSUME HInv, NEW s \in Streams, ReadChunk(s) PROVE HInv'
<1>1. TypeOK /\ BufferExclusive /\ Whole(s) /\ StreamInv
  BY DEF HInv, StreamInv, Whole
<1>2. /\ pc[s] = "read" /\ pc' = [pc EXCEPT ![s] = "write"]
      /\ drawn' = [drawn EXCEPT ![s] = drawn[s] + 1]
      /\ content' = [content EXCEPT ![held[s]] = <<s, drawn[s] + 1>>]
      /\ held' = held /\ n' = n /\ err' = err /\ pool' = pool /\ pipe' = pipe
      /\ cut' = cut /\ client' = client /\ rcvd' = rcvd
  BY DEF ReadChunk, connVars
<1>3. held[s] \in Buffers /\ n[s] = drawn[s] + 1 /\ drawn[s] \in Nat
  BY <1>1, <1>2 DEF Whole, HoldsBuffer, Drawn, TypeOK
<1>4. TypeOK'
  BY <1>1, <1>2, <1>3 DEF TypeOK, Chunks
<1>5. BufferExclusive'
  BY <1>1, <1>2 DEF BufferExclusive
<1>6. ASSUME NEW t \in Streams \ {s} PROVE Kept(t)
  <2>1. ASSUME pc[t] = "write" PROVE content'[held[t]] = content[held[t]]
    <3>1. held[t] \in Buffers
      BY <1>1, <2>1 DEF StreamInv, HoldsBuffer
    <3>2. held[t] # held[s]
      BY <1>1, <3>1, HeffalumpAssumption DEF BufferExclusive
    <3> QED BY <1>1, <1>2, <3>1, <3>2 DEF TypeOK
  <2> QED BY <1>1, <1>2, <2>1 DEF TypeOK, Kept
<1>7. Whole(s)'
  <2>1. /\ pc'[s] = "write" /\ drawn'[s] = drawn[s] + 1
        /\ content'[held[s]] = <<s, drawn[s] + 1>>
    BY <1>1, <1>2, <1>3 DEF TypeOK
  <2> QED BY <1>1, <1>2, <1>3, <2>1
          DEF Whole, HoldsBuffer, Drawn, StopReason, InOrder, Counted
<1> QED BY <1>4, <1>5, <1>6, <1>7, Frame DEF HInv, StreamInv, Whole

(* The steps that stop a writer. *)
LEMMA PanicInv == ASSUME HInv, NEW s \in Streams, Panic(s) PROVE HInv'
<1>1. TypeOK /\ BufferExclusive /\ Whole(s)
  BY DEF HInv, StreamInv, Whole
<1>2. TypeOK' /\ BufferExclusive'
  BY <1>1 DEF TypeOK, BufferExclusive, Panic, bufferVars, connVars
<1>3. \A t \in Streams \ {s} : Kept(t)
  BY <1>1 DEF TypeOK, Kept, Panic, bufferVars, connVars
<1>4. Whole(s)'
  <2>1. /\ pc[s] = "read" /\ pc'[s] = "return" /\ err'[s] = "panic"
        /\ held' = held /\ drawn' = drawn /\ n' = n /\ content' = content
        /\ pipe' = pipe /\ cut' = cut /\ client' = client /\ rcvd' = rcvd
    BY <1>1 DEF TypeOK, Panic, bufferVars, connVars
  <2> QED BY <1>1, <2>1
          DEF Whole, HoldsBuffer, Drawn, StopReason, InOrder, Counted
<1> QED BY <1>2, <1>3, <1>4, Frame DEF HInv, StreamInv, Whole

LEMMA ReturnHellInv == ASSUME HInv, NEW s \in Streams, ReturnHell(s) PROVE HInv'
<1>1. TypeOK /\ BufferExclusive /\ Whole(s)
  BY DEF HInv, StreamInv, Whole
<1>2. /\ pc[s] = "return" /\ pc' = [pc EXCEPT ![s] = "finish"]
      /\ held' = [held EXCEPT ![s] = None] /\ pool' = pool \cup {held[s]}
      /\ drawn' = drawn /\ n' = n /\ err' = err /\ content' = content
      /\ pipe' = pipe /\ cut' = cut /\ client' = client /\ rcvd' = rcvd
  BY DEF ReturnHell, connVars
<1>3. held[s] \in Buffers
  BY <1>1, <1>2 DEF Whole, HoldsBuffer
<1>4. TypeOK'
  BY <1>1, <1>2, <1>3 DEF TypeOK
<1>5. BufferExclusive'
  <2>1. /\ held'[s] = None
        /\ \A t \in Streams \ {s} : held'[t] = held[t] /\ held[t] # held[s]
    BY <1>1, <1>2, <1>3, HeffalumpAssumption DEF TypeOK, BufferExclusive
  <2>2. None \notin pool'
    BY <1>4, HeffalumpAssumption DEF TypeOK
  <2> QED BY <1>1, <1>2, <2>1, <2>2 DEF BufferExclusive
<1>6. \A t \in Streams \ {s} : Kept(t)
  BY <1>1, <1>2 DEF TypeOK, Kept
<1>7. Whole(s)'
  <2>1. pc'[s] = "finish" /\ held'[s] = None
    BY <1>1, <1>2 DEF TypeOK
  <2> QED BY <1>1, <1>2, <2>1
          DEF Whole, HoldsBuffer, Drawn, StopReason, InOrder, Counted
<1> QED BY <1>4, <1>5, <1>6, <1>7, Frame DEF HInv, StreamInv, Whole

LEMMA FinishInv == ASSUME HInv, NEW s \in Streams, Finish(s) PROVE HInv'
<1>1. TypeOK /\ BufferExclusive /\ Whole(s)
  BY DEF HInv, StreamInv, Whole
<1>2. TypeOK' /\ BufferExclusive'
  BY <1>1 DEF TypeOK, BufferExclusive, Finish, bufferVars, connVars
<1>3. \A t \in Streams \ {s} : Kept(t)
  BY <1>1 DEF TypeOK, Kept, Finish, bufferVars, connVars
<1>4. Whole(s)'
  <2>1. /\ pc[s] = "finish" /\ pc'[s] = "idle" /\ err' = err
        /\ held' = held /\ drawn' = drawn /\ n' = n /\ content' = content
        /\ pipe' = pipe /\ cut' = cut /\ client' = client /\ rcvd' = rcvd
    BY <1>1 DEF TypeOK, Finish, bufferVars, connVars
  <2> QED BY <1>1, <2>1
          DEF Whole, HoldsBuffer, Drawn, StopReason, InOrder, Counted
<1> QED BY <1>2, <1>3, <1>4, Frame DEF HInv, StreamInv, Whole

(* The steps of the worker and of the client. *)
LEMMA DeliverInv == ASSUME HInv, NEW s \in Streams, Deliver(s) PROVE HInv'
<1>1. TypeOK /\ BufferExclusive /\ Whole(s)
  BY DEF HInv, StreamInv, Whole
<1>2. /\ pipe[s] # <<>> /\ pipe' = [pipe EXCEPT ![s] = Tail(pipe[s])]
      /\ rcvd' = [rcvd EXCEPT ![s] = rcvd[s] + 1]
      /\ pc' = pc /\ held' = held /\ drawn' = drawn /\ n' = n /\ err' = err
      /\ pool' = pool /\ content' = content /\ cut' = cut /\ client' = client
  BY DEF Deliver, writerVars, bufferVars
<1>3. pipe[s] \in Seq(Chunks) /\ rcvd[s] \in Nat
  BY <1>1 DEF TypeOK
<1>4. /\ Tail(pipe[s]) \in Seq(Chunks)
      /\ Len(pipe[s]) \in Nat
      /\ Len(Tail(pipe[s])) = Len(pipe[s]) - 1
      /\ \A i \in 1 .. Len(Tail(pipe[s])) : Tail(pipe[s])[i] = pipe[s][i + 1]
  BY <1>2, <1>3, PipeTail
<1>5. TypeOK' /\ BufferExclusive'
  BY <1>1, <1>2, <1>3, <1>4 DEF TypeOK, BufferExclusive
<1>6. \A t \in Streams \ {s} : Kept(t)
  BY <1>1, <1>2 DEF TypeOK, Kept
<1>7. pipe'[s] = Tail(pipe[s]) /\ rcvd'[s] = rcvd[s] + 1
  BY <1>1, <1>2 DEF TypeOK
<1>8. Counted(s)'
  <2>1. n[s] = rcvd[s] + Len(pipe[s]) /\ Len(pipe[s]) <= PipeCap
    BY <1>1 DEF Whole, Counted
  <2>2. /\ n[s] = (rcvd[s] + 1) + Len(Tail(pipe[s]))
        /\ Len(Tail(pipe[s])) <= PipeCap
    BY <1>3, <1>4, <2>1, HeffalumpAssumption
  <2> QED BY <1>2, <1>7, <2>2 DEF Counted
<1>9. InOrder(s)'
  <2>1. ASSUME NEW i \in 1 .. Len(Tail(pipe[s]))
        PROVE  Tail(pipe[s])[i] = <<s, (rcvd[s] + 1) + i - 1>>
    <3>1. i + 1 \in 1 .. Len(pipe[s]) /\ (rcvd[s] + 1) + i - 1 = rcvd[s] + (i + 1) - 1
      BY <1>3, <1>4
    <3> QED BY <1>1, <1>4, <3>1 DEF Whole, InOrder
  <2> QED BY <1>7, <2>1 DEF InOrder
<1>10. HoldsBuffer(s)' /\ Drawn(s)' /\ StopReason(s)'
  BY <1>1, <1>2 DEF Whole, HoldsBuffer, Drawn, StopReason
<1> QED BY <1>5, <1>6, <1>8, <1>9, <1>10, Frame DEF HInv, StreamInv, Whole

LEMMA DeliverFailsInv == ASSUME HInv, NEW s \in Streams, DeliverFails(s) PROVE HInv'
<1>1. TypeOK /\ BufferExclusive /\ Whole(s)
  BY DEF HInv, StreamInv, Whole
<1>2. TypeOK' /\ BufferExclusive'
  BY <1>1 DEF TypeOK, BufferExclusive, DeliverFails, writerVars, bufferVars
<1>3. \A t \in Streams \ {s} : Kept(t)
  BY <1>1 DEF TypeOK, Kept, DeliverFails, writerVars, bufferVars
<1>4. Whole(s)'
  <2>1. /\ cut'[s] = TRUE /\ client'[s] = "none" /\ pc' = pc /\ err' = err
        /\ held' = held /\ drawn' = drawn /\ n' = n /\ content' = content
        /\ pipe' = pipe /\ rcvd' = rcvd
    BY <1>1 DEF TypeOK, DeliverFails, writerVars, bufferVars
  <2> QED BY <1>1, <2>1
          DEF Whole, HoldsBuffer, Drawn, StopReason, InOrder, Counted
<1> QED BY <1>2, <1>3, <1>4, Frame DEF HInv, StreamInv, Whole

LEMMA EndResponseInv == ASSUME HInv, NEW s \in Streams, EndResponse(s) PROVE HInv'
<1>1. TypeOK /\ BufferExclusive /\ Whole(s)
  BY DEF HInv, StreamInv, Whole
<1>2. TypeOK' /\ BufferExclusive'
  BY <1>1 DEF TypeOK, BufferExclusive, EndResponse, writerVars, bufferVars
<1>3. \A t \in Streams \ {s} : Kept(t)
  BY <1>1 DEF TypeOK, Kept, EndResponse, writerVars, bufferVars
<1>4. Whole(s)'
  <2>1. /\ client'[s] = "none" /\ pc' = pc /\ err' = err /\ cut' = cut
        /\ held' = held /\ drawn' = drawn /\ n' = n /\ content' = content
        /\ pipe' = pipe /\ rcvd' = rcvd
    BY <1>1 DEF TypeOK, EndResponse, writerVars, bufferVars
  <2> QED BY <1>1, <2>1
          DEF Whole, HoldsBuffer, Drawn, StopReason, InOrder, Counted
<1> QED BY <1>2, <1>3, <1>4, Frame DEF HInv, StreamInv, Whole

LEMMA ClientMovesInv == ASSUME HInv, NEW s \in Streams, ClientMoves(s) PROVE HInv'
<1>1. TypeOK /\ BufferExclusive /\ Whole(s)
  BY DEF HInv, StreamInv, Whole
<1>2. TypeOK' /\ BufferExclusive'
  BY <1>1 DEF TypeOK, BufferExclusive, ClientMoves, writerVars, bufferVars
<1>3. \A t \in Streams \ {s} : Kept(t)
  BY <1>1 DEF TypeOK, Kept, ClientMoves, writerVars, bufferVars
<1>4. Whole(s)'
  <2>1. /\ client[s] # "none" /\ pc' = pc /\ err' = err /\ cut' = cut
        /\ held' = held /\ drawn' = drawn /\ n' = n /\ content' = content
        /\ pipe' = pipe /\ rcvd' = rcvd
    BY <1>1 DEF TypeOK, ClientMoves, writerVars, bufferVars
  <2> QED BY <1>1, <2>1
          DEF Whole, HoldsBuffer, Drawn, StopReason, InOrder, Counted
<1> QED BY <1>2, <1>3, <1>4, Frame DEF HInv, StreamInv, Whole

-----------------------------------------------------------------------------
LEMMA HNext == HInv /\ [Next]_vars => HInv'
<1> SUFFICES ASSUME HInv, [Next]_vars PROVE HInv'
  OBVIOUS
<1>1. ASSUME NEW s \in Streams, Writer(s) PROVE HInv'
  <2>1. CASE GetBuffer(s)
    BY <2>1, GetBufferInv
  <2>2. CASE WriteHeader(s)
    BY <2>2, SentInv DEF WriteHeader
  <2>3. CASE ReadChunk(s)
    BY <2>3, ReadChunkInv
  <2>4. CASE WriteChunk(s)
    BY <2>4, SentInv DEF WriteChunk
  <2>5. CASE ReturnHell(s)
    BY <2>5, ReturnHellInv
  <2>6. CASE Finish(s)
    BY <2>6, FinishInv
  <2> QED BY <1>1, <2>1, <2>2, <2>3, <2>4, <2>5, <2>6 DEF Writer
<1>2. ASSUME NEW s \in Streams, Worker(s) PROVE HInv'
  BY <1>2, DeliverInv, DeliverFailsInv, EndResponseInv DEF Worker
<1>3. ASSUME NEW s \in Streams, Request(s) \/ Panic(s) \/ ClientMoves(s)
      PROVE  HInv'
  BY <1>3, RequestInv, PanicInv, ClientMovesInv
<1>4. ASSUME UNCHANGED <<writerVars, content, connVars>>, pool' \subseteq pool
      PROVE  HInv'
  <2>1. TypeOK /\ BufferExclusive
    BY DEF HInv
  <2>2. TypeOK' /\ BufferExclusive'
    BY <1>4, <2>1 DEF TypeOK, BufferExclusive, writerVars, connVars
  <2>3. \A t \in Streams : Kept(t)
    BY <1>4 DEF Kept, writerVars, connVars
  <2> QED BY <2>2, <2>3, Frame DEF HInv, StreamInv, Whole
<1>5. CASE CollectPool
  BY <1>4, <1>5 DEF CollectPool
<1>6. CASE UNCHANGED vars
  BY <1>4, <1>6 DEF vars, bufferVars
<1> QED BY <1>1, <1>2, <1>3, <1>5, <1>6 DEF Next

LEMMA HCorrect == Spec => []HInv
BY HInit, HNext, PTL DEF Spec

(* The types hold in every state. *)
THEOREM HeffalumpTypes == Spec => []TypeOK
<1>1. HInv => TypeOK
  BY DEF HInv
<1> QED BY <1>1, HCorrect, PTL

(* No two responses ever work on the same buffer of the pool. *)
THEOREM BuffersNeverShared == Spec => []BufferExclusive
<1>1. HInv => BufferExclusive
  BY DEF HInv
<1> QED BY <1>1, HCorrect, PTL

(* Each pipe carries its own response, from the header on, without a gap. *)
THEOREM PipesInOrder == Spec => []StreamInOrder
<1>1. HInv => StreamInOrder
  BY DEF HInv, StreamInv, InOrder, StreamInOrder
<1> QED BY <1>1, HCorrect, PTL

(* The logged count and the size of the pipe. *)
THEOREM CountsExact == Spec => []CountExact
<1>1. HInv => CountExact
  BY DEF HInv, StreamInv, Counted, CountExact
<1> QED BY <1>1, HCorrect, PTL

(* Only a panic of the generator ends the response of a client that stays. *)
THEOREM StayingClientServed == Spec => EndsOnlyByPanic
<1> DEFINE Ends(s) ==
      client[s] \in {"reading", "stalled"} /\ client'[s] = "none"
        => err[s] = "panic" /\ rcvd[s] = n[s]
<1>1. HInv /\ [Next]_vars => \A s \in Streams : Ends(s)
  <2> SUFFICES ASSUME HInv, [Next]_vars, NEW s \in Streams,
                      client[s] \in {"reading", "stalled"}, client'[s] = "none"
               PROVE  err[s] = "panic" /\ rcvd[s] = n[s]
    OBVIOUS
  <2>1. TypeOK /\ Whole(s)
    BY DEF HInv, StreamInv, Whole
  <2>2. EndResponse(s)
    BY <2>1
    DEF TypeOK, Next, Request, Writer, GetBuffer, WriteHeader, ReadChunk,
        WriteChunk, ReturnHell, Finish, Panic, Worker, Deliver, DeliverFails,
        EndResponse, ClientMoves, CollectPool, connVars, vars
  <2>3. err[s] = "panic"
    BY <2>1, <2>2 DEF EndResponse, Whole, StopReason, TypeOK
  <2>4. Len(pipe[s]) = 0 /\ rcvd[s] \in Nat
    BY <2>1, <2>2 DEF EndResponse, TypeOK
  <2> QED BY <2>1, <2>3, <2>4 DEF Whole, Counted
<1> QED BY <1>1, HCorrect, PTL DEF Spec, EndsOnlyByPanic

-----------------------------------------------------------------------------
(* What a response has before it once its client is gone: the room of a    *)
(* pipe that nobody empties, two steps for each chunk, the rest of         *)
(* WriteHell, and the worker's way out.                                    *)
Rest(s) ==
  CASE pc[s] = "get"    -> 6
    [] pc[s] = "header" -> 5
    [] pc[s] = "read"   -> 4
    [] pc[s] = "write"  -> 3
    [] pc[s] = "return" -> 2
    [] pc[s] = "finish" -> 1
    [] OTHER            -> 0

Room(s) == IF cut[s] THEN 0 ELSE PipeCap - Len(pipe[s])
WindDown(s) == 2 * Room(s) + Rest(s) + (IF client[s] = "gone" THEN 1 ELSE 0)

Response(s) == <<pc[s], held[s], pipe[s], cut[s], client[s], rcvd[s]>>

LEMMA WindDownBounded ==
  ASSUME HInv, NEW s \in Streams
  PROVE  WindDown(s) \in 0 .. 2 * PipeCap + 7
<1>1. TypeOK /\ Counted(s)
  BY DEF HInv, StreamInv
<1>2. Len(pipe[s]) \in Nat
  BY <1>1, LenProperties DEF TypeOK
<1>3. Room(s) \in 0 .. PipeCap
  BY <1>1, <1>2, HeffalumpAssumption DEF Room, Counted
<1>4. Rest(s) \in 0 .. 6
  BY DEF Rest
<1> QED BY <1>3, <1>4, HeffalumpAssumption DEF WindDown

(* A write of such a response goes into the room that is left, or fails. *)
LEMMA SendWindsDown ==
  ASSUME HInv, HInv', NEW s \in Streams, NEW chunk \in Chunks,
         pc[s] \in {"header", "write"}, Send(s, chunk, "read"),
         UNCHANGED <<cut, client>>
  PROVE  WindDown(s)' < WindDown(s)
<1>1. TypeOK /\ TypeOK' /\ Counted(s) /\ Counted(s)'
  BY DEF HInv, StreamInv
<1>2. Len(pipe[s]) \in Nat /\ pipe[s] \in Seq(Chunks)
  BY <1>1, LenProperties DEF TypeOK
<1>3. cut'[s] = cut[s] /\ client'[s] = client[s]
  OBVIOUS
<1>4. Rest(s) >= 3 /\ Rest(s) \in Nat
  BY DEF Rest
<1>5. CASE cut[s]
  <2>1. pc'[s] = "return"
    BY <1>1, <1>5 DEF Send, TypeOK
  <2>2. Rest(s)' = 2 /\ Room(s) = 0 /\ Room(s)' = 0
    BY <1>3, <1>5, <2>1 DEF Rest, Room
  <2> QED BY <1>3, <1>4, <2>2 DEF WindDown
<1>6. CASE ~ cut[s]
  <2>1. pc'[s] = "read" /\ pipe'[s] = Append(pipe[s], chunk)
    BY <1>1, <1>6 DEF Send, TypeOK
  <2>2. Len(pipe'[s]) = Len(pipe[s]) + 1
    BY <1>2, <2>1, PipeAppend
  <2>3. Rest(s)' = 4
    BY <2>1 DEF Rest
  <2>4. Room(s)' = Room(s) - 1 /\ Room(s) \in Int
    BY <1>2, <1>3, <1>6, <2>2, HeffalumpAssumption DEF Room
  <2> QED BY <1>3, <1>4, <2>3, <2>4 DEF WindDown
<1> QED BY <1>5, <1>6

(* The other steps of the writer. *)
LEMMA WriterWindsDown ==
  ASSUME HInv, HInv', NEW s \in Streams, Writer(s) \/ Panic(s)
  PROVE  WindDown(s)' < WindDown(s)
<1>1. TypeOK /\ TypeOK' /\ Whole(s)
  BY DEF HInv, StreamInv, Whole
<1>2. Room(s) \in Int
  BY <1>1, LenProperties, HeffalumpAssumption DEF Room, TypeOK
<1>3. CASE WriteHeader(s)
  <2>1. <<s, 0>> \in Chunks
    BY DEF Chunks
  <2> QED BY <1>3, <2>1, SendWindsDown DEF WriteHeader
<1>4. CASE WriteChunk(s)
  <2>1. content[held[s]] \in Chunks
    <3>1. content[held[s]] = <<s, drawn[s]>> /\ drawn[s] \in Nat
      BY <1>1, <1>4 DEF WriteChunk, Whole, Drawn, TypeOK
    <3> QED BY <3>1 DEF Chunks
  <2> QED BY <1>4, <2>1, SendWindsDown DEF WriteChunk
<1>5. ASSUME UNCHANGED <<pipe, cut, client>>, Rest(s)' < Rest(s)
      PROVE  WindDown(s)' < WindDown(s)
  <2>1. Rest(s) \in Int /\ Rest(s)' \in Int
    BY DEF Rest
  <2>2. Room(s)' = Room(s)
    BY <1>5 DEF Room
  <2> QED BY <1>2, <1>5, <2>1, <2>2 DEF WindDown
<1>6. CASE GetBuffer(s) \/ ReadChunk(s) \/ ReturnHell(s) \/ Finish(s) \/ Panic(s)
  <2>1. UNCHANGED <<pipe, cut, client>>
    BY <1>6
    DEF GetBuffer, ReadChunk, ReturnHell, Finish, Panic, connVars
  <2>2. \/ pc[s] = "get"    /\ pc'[s] = "header"
        \/ pc[s] = "read"   /\ pc'[s] = "write"
        \/ pc[s] = "return" /\ pc'[s] = "finish"
        \/ pc[s] = "finish" /\ pc'[s] = "idle"
        \/ pc[s] = "read"   /\ pc'[s] = "return"
    BY <1>1, <1>6
    DEF TypeOK, GetBuffer, ReadChunk, ReturnHell, Finish, Panic
  <2>3. Rest(s)' < Rest(s)
    BY <2>2 DEF Rest
  <2> QED BY <1>5, <2>1, <2>3
<1> QED BY <1>3, <1>4, <1>6 DEF Writer

(* What a step of one response leaves of another: everything. *)
LEMMA OthersUntouched ==
  ASSUME TypeOK, NEW s \in Streams, NEW k \in Streams \ {s},
         Request(k) \/ Writer(k) \/ Panic(k) \/ Worker(k) \/ ClientMoves(k)
  PROVE  Response(s)' = Response(s)
<1>1. CASE Request(k)
  BY <1>1 DEF Request, TypeOK, Response
<1>2. CASE Writer(k)
  BY <1>2
  DEF Writer, GetBuffer, WriteHeader, ReadChunk, WriteChunk, ReturnHell,
      Finish, Send, TypeOK, Response, connVars
<1>3. CASE Panic(k)
  BY <1>3 DEF Panic, TypeOK, Response, connVars
<1>4. CASE Worker(k) \/ ClientMoves(k)
  BY <1>4
  DEF Worker, Deliver, DeliverFails, EndResponse, ClientMoves, TypeOK,
      Response, writerVars
<1> QED BY <1>1, <1>2, <1>3, <1>4

(* The safety half of Reclaimed: once its client has gone or the worker    *)
(* has dropped it, every step that touches a response takes it nearer to   *)
(* its end, at most twice the pipe's size and seven of them, until the     *)
(* next request.  No step of WriteHell goes round for nothing, and no      *)
(* other response sets it back.                                            *)
THEOREM GoneClientsWindDown ==
  Spec => /\ [](\A s \in Streams : WindDown(s) \in 0 .. 2 * PipeCap + 7)
          /\ [][\A s \in Streams :
                  client[s] \in {"gone", "none"} /\ Response(s)' # Response(s)
                    => Request(s) \/ WindDown(s)' < WindDown(s)]_vars
<1> DEFINE Winds(s) ==
      client[s] \in {"gone", "none"} /\ Response(s)' # Response(s)
        => Request(s) \/ WindDown(s)' < WindDown(s)
<1>1. HInv => \A s \in Streams : WindDown(s) \in 0 .. 2 * PipeCap + 7
  BY WindDownBounded
<1>2. HInv /\ HInv' /\ [Next]_vars => \A s \in Streams : Winds(s)
  <2> SUFFICES ASSUME HInv, HInv', [Next]_vars, NEW s \in Streams,
                      client[s] \in {"gone", "none"},
                      Response(s)' # Response(s)
               PROVE  Request(s) \/ WindDown(s)' < WindDown(s)
    OBVIOUS
  <2>1. TypeOK /\ Whole(s)
    BY DEF HInv, StreamInv, Whole
  <2>2. ~ CollectPool /\ ~ UNCHANGED vars
    BY DEF CollectPool, vars, writerVars, connVars, Response
  <2>3. \/ Request(s) \/ Writer(s) \/ Panic(s) \/ Worker(s)
        \/ ClientMoves(s)
    BY <2>1, <2>2, OthersUntouched DEF Next
  <2>4. ~ ClientMoves(s) /\ ~ Deliver(s)
    BY DEF ClientMoves, Deliver
  <2>5. CASE DeliverFails(s) \/ EndResponse(s)
    <3>1. /\ client[s] = "gone" /\ client'[s] = "none" /\ pc' = pc
          /\ pipe' = pipe /\ (cut'[s] = cut[s] \/ cut'[s])
      BY <2>1, <2>5 DEF DeliverFails, EndResponse, TypeOK, writerVars
    <3>2. Room(s) \in Nat /\ Rest(s) \in Nat
      BY <2>1, LenProperties, HeffalumpAssumption
      DEF Room, Rest, TypeOK, Whole, Counted
    <3>3. Room(s)' \in Nat /\ Room(s)' <= Room(s) /\ Rest(s)' = Rest(s)
      BY <3>1, <3>2 DEF Room, Rest
    <3> QED BY <3>1, <3>2, <3>3 DEF WindDown
  <2> QED BY <2>3, <2>4, <2>5, WriterWindsDown DEF Worker
<1> QED BY <1>1, <1>2, HCorrect, PTL DEF Spec
=============================================================================
