# HellPot in TLA+

HellPot answers the requests of bad bots with an endless stream of generated
text. This directory models the program in TLA+, checks the models with TLC on
small instances and proves the main results with TLAPS for every value of the
constants. Source references are to the repository root (`src/...`).

## 1. Inventory

| Component | State it keeps | Operations | Interacts with |
|---|---|---|---|
| Markov chain and Reader (`internal/heffalump/markov.go`) | the `MarkovMap` (written once, in `init`), one `Reader` per response: two words and a remainder | `Fill`, `Add`, `Get`, `Reader.Read` | `WriteHell` calls `Read` |
| HTML tokeniser (`ScanHTML` in `markov.go`, bufio.Scanner) | the scanner's window of the text | `ScanHTML`, reads of any length | `Fill` takes its tokens |
| Heffalump (`internal/heffalump/heffalump.go`) | a `sync.Pool` of 100 KiB buffers | `WriteHell` | called in a loop by hellPot's stream closure; writes to fasthttp's pipe |
| HTTP admission and routing (`internal/http/router.go`, `robots.go`) | the routes, fasthttp's limits | `NewServer`, `hellPot`, `robotsTXT`, `getRealRemote` | reads the exported configuration |
| Process lifecycle (`cmd/HellPot/HellPot.go`, `Server` in `router.go`, `router_unix.go`) | `stopChan`, `errChan`, the listener, open connections | `serveUntilSignal`, `Serve`, `Shutdown`, signals | everything that is open when a signal comes |
| Startup and config files (`HellPot.go`, `internal/config/config.go`, `defaults.go`) | the config files of the host, shared by instances and their operator | `run`, the search in `Init`, `writeConfig`, `GenerateConfig`, the load | the next starts, other instances, the operator |
| Configuration layers (`config.go`, `arguments.go`) | the key store `snek`, exported package variables, zerolog's level | `resetState`, `setDefaults`, file and environment loads, `processOpts`, `associateExportedVariables` | every other component reads the result |
| Unix socket listener (`router_unix.go`) | the socket file and its mode, shared by name with other processes | umask, bind, chmod, close | `Server.Serve`, `Shutdown`, other processes, the operator |
| Logger (`logger.go`) | the log file | `StartLogger` | reads the configuration, may fail a start |
| Arguments, help, banner, version, embedded source text | - | - | - |

What is hard here, and what correctness means for each part:

- *Markov chain and Reader.* The lengths of buffers have nothing to do with the
  lengths of words; a word is cut at one call and continued in the next. Right
  is: the concatenation of all that was read is the text of one walk over the
  source's word relation, the map is exactly that relation, and `Read` always
  returns a full buffer.
- *Tokeniser.* The window `ScanHTML` sees ends wherever a read ended: in a word, in
  a tag, among spaces, between the bytes of one space. Right is: the tokens are
  those of the text however it arrives, nothing but a token that fills the
  scanner's buffer loses the rest, and the loop ends.
- *Heffalump.* Every response runs on a goroutine of its own, blocks on a pipe
  that a stalled client does not empty, and ends by the client's going or by a
  panic. Right is: buffers are never shared, streams never mixed, the count
  that is logged is exact, whatever is held is freed when the client goes, and
  a client that stays is served.
- *Admission.* robots.txt and the router read the same list of paths at two
  places, addresses come in several notations, and the peer of a request may be a
  proxy. Right is: a client that obeys robots.txt is never trapped, robots.txt names
  every trap, and the log names who it really was.
- *Lifecycle.* A signal can come before the listener exists, with the error of
  a failed bind, or twice; accepting can fail while streams are open, and those
  never end by themselves. Right is: the exit code tells what happened, a shutdown
  cuts nothing off, and it ends.
- *Unix socket.* Clients can connect before the mode is set; chmod and close go by
  the path's name; a kill leaves the file. Right is: nobody gets in whom the
  configured permissions keep out, at no time, and a process removes nothing
  from the path but its own socket.
- *The whole process.* The connection's worker, the writer goroutine, the
  serving goroutine and `main` end in any order. Right is: an exit that reports
  success leaves at most writers that nobody listens to, and clients are all that
  can delay it.
- *Startup.* Files are searched, truncated, written and loaded in separate steps;
  a process may be killed between any two, a second one may run beside it. Right
  is: an operator's file is never replaced and never ignored, every start ends.
- *Configuration.* Values come in layers of different kinds, the exported
  variables survive from one call to the next, and the defaults are written down
  twice. Right is: the outcome is a function of the inputs of this call, the
  documented order decides, and the written default changes nothing.

`PROJECT.json` lists the hazards at their lines, with the properties that
cover each and a note on those that none covers yet.

## 2. Modules

| Module | Models |
|---|---|
| `MarkovChain` | words, the tokens of the source, which word may follow which two (`Follows`), the line a word gives |
| `MarkovStream` | abstract: the endless text a Reader promises, without buffers or remainders |
| `Markov` | `Fill` and `Reader.Read`, one action per iteration of a loop; implements `MarkovStream` |
| `Tokenizer` | `ScanHTML` under the scanner's windows and limit, and a reference that names the places of the text where tokens begin and end |
| `Heffalump` | `WriteHell` and hellPot's closure per response, the pool, and as external actors fasthttp's pipe and worker, the client and the garbage collector |
| `Lifecycle` | `serveUntilSignal`, the serving goroutine, `Shutdown`, signals, kills and connections |
| `UnixSocket` | `listenOnUnixSocket` and the file at its path, for several processes, users who connect and an operator |
| `System` | the three above composed to the serving process; implements each of them |
| `Startup` | `run` up to the server and the config files, several instances and an operator |
| `Admission` | `NewServer`'s routes, dispatch, `robotsTXT`, the blacklist in `hellPot`, `getRealRemote` |
| `ConfigLayers` | `Init` and `GenerateConfig` on the key store and the exported variables, and what `StartLogger` and `getSrv` take from them |
| `*_proofs` | the TLAPS proofs of `Markov`, `Tokenizer`, `Heffalump`, `Lifecycle`, `System`, `Startup`, `Admission` and `ConfigLayers` |
| `MC*` | the constants of the instances TLC checks |

An operator whose comment starts with "Mutant:" is a definition of the code
with one plausible bug; putting it in place of the definition after it must
break the property that `PROJECT.json` pairs it with.

### How state and actions correspond to the code

**Markov.** `w1, w2, w3, mm, scanned` are Fill's locals, the map and the
scanner's position; `FillToken` is an iteration of its loop, `FillTail` the
`Add` after it. `r1, r2, pending` are the fields of a `Reader`; `filled` is
`p[:n]` and `want` is `len(p)` of the call in progress. `CopyPending` and
`CopyNextWord` are the iterations of Read's loop, without and with a draw from
the map. `given` is history: what finished calls returned. `rand.Intn` is a
choice among all stored suffixes. A Go string is a sequence of bytes; the bytes
are three names, because only where a word is cut matters.

**Tokenizer.** `text` is what the Reader given to `Fill` contains, of which the
scanner has read `read` bytes and passed `start`; the window between is
`data`. `Read` brings any number of bytes that fit, `io.EOF` with the last or
after it; `Split` is one call of `ScanHTML`; `GiveUp` is `ErrTooLong`, which `Fill`
does not look at. A byte is one of seven kinds: the brackets, a space of one byte,
the first, the middle and the last byte of a longer space, any other. A longer space
(`LongSpace`) has two bytes (U+00A0, U+0085) or three (U+2000 to U+200A, U+2028,
U+3000 and the others); its bytes in any other order are no space. `FirstText`, `IsTag`,
`Ends` and `EndedToken` are the two loops as the places they stop at. `Tokens` is
the reference: it says of the whole text which bytes are in a tag (`InTag`), which
belong to a token (`Solid`), where one begins (`Firsts`) and how far it goes
(`LastOf`), and knows nothing of windows, reads or scanning.

**Heffalump.** `pc` is the place of a response's goroutine: `get` the pool,
write the `header`, `read` a buffer, `write` it, `return` with the deferred Put,
`finish`. `held` is `buf`, `content` what each memory block holds, so a shared
block shows as a chunk of another stream. A chunk is one write that reaches
fasthttp's pipe, which holds `PipeCap` of them: `Send` waits on a full pipe,
fails on a cut one. `n` counts chunks as the code counts bytes. Left out:
sizes of chunks (a buffer is larger than `bw`, so `Write` passes it through and
`Flush` has nothing left), and the second half of a short write.

**Lifecycle.** `main` is the place of `serveUntilSignal` (`boot`, `select`,
`draining` in Shutdown's loop, `await` the second `<-errChan`) or the way the
process ended; `stopChan` and `errChan` are channels of capacity one, `serve`
the goroutine, `listener` what fasthttp knows of the socket. A connection is
`new` (no request yet), `short` (an answer that ends by itself) or `stream`.
fasthttp is external: a Shutdown without a registered listener returns at once,
one with a listener closes it and waits for the open connections. What `Serve`
returns goes to `errChan`: nil when its listener is closed (`ServeReturns`), an
error when it never came up (`BindFails`, `ChmodFails`) or when it can accept no more
(`AcceptFails`, out of file descriptors for instance), with connections open and the
listener still registered. `Signal` is SIGINT or SIGTERM, `Kill` a SIGKILL. `failed`
and `signalled` are history: the calls that failed, and whether main took a signal
while a listener was registered (`listening`) or before that (`early`).
`StoppedEarly` is the one exception that `NothingCutOff` and `OnlyOrphansLeft` make:
after an early signal `Shutdown` has nothing to wait for, and main waits at
HellPot.go:125 for a server that then comes up and streams. If that one can accept no
more, main takes its error and exits with 0, with streams open.

**UnixSocket.** `at` is what is at the path: nothing, a file that is not
HellPot's, or the socket of a process, which may be dead. `allowed` are the users its
mode lets connect, `sock[p]` how far process `p` is, `connected` is history.
`ListenUnix` stands for the two Umasks and the call between them, because
`Serve` runs on one goroutine and nothing else in the process creates files
then. `Chmod` and `CloseListener` work on whatever is at the path. The operator
removes, moves or puts files there, but never takes away the socket of a running
process, as README.md:340-341 asks. Left out: abstract addresses (`@...`), which have no
file, so that on them the chmod fails; Windows, where `NewServer` uses TCP.

**System.** `main`, `serve` and `listener` are Lifecycle's, the streams
Heffalump's over the connections in `Streaming`, the path UnixSocket's with
this process as `Self`. They are joined at: bind, chmod and the failed chmod;
`Shutdown`, which closes the listener that it finds; any other exit, which leaves the
socket of a listener that is still registered (after a failed accept) where it is; `StartStream`, where a
request reaches `hellPot`; and `EndStream`, where fasthttp's worker closes a
stream's connection, because its write failed or the body ended. The writer
goroutine may still have steps to go then, and a drain does not wait for it. After
an exit nothing moves any more: the history ends with this process.

**Startup.** `inst[i]` is one process: its place, whether `--genconfig` was
given, the file it chose, what that held when chosen and when loaded. `Exists`
is `os.Stat`; the several Stat calls of one search are one step. `Truncate` and
`WriteDefault` are the two halves of `os.WriteFile`. `Ends` is a kill at any
step, or the end of the server. `Edit` is the operator, who does not edit
while an instance is starting: the few system calls between `Stat` and `WriteFile`
are a window that the code does not protect and nothing documents as protected.

**Admission.** `phase` and `todo` are the place in `NewServer`, `routes` the
router's static routes, `cfg` the exported variables it reads. A path is a
sequence of symbols, so that `TrimSpace` and the missing slash of `RoutePath` can
be told apart; an agent is the set of substrings it contains; an address is a host
in one of the forms `v4`, `v6` and `mapped`. A request reads nothing that another one
writes, so it is one action; `last` and `told` are history. A client that connects
itself forges the header; `Proxy` sets it truly. Left out: fasthttp's limits,
path patterns (`{name}`) in the configured paths, and the router's redirects.

**ConfigLayers.** `snek` is the key store, `exported` the package variables,
`proxies`, `perms`, `level` what is parsed from them, `logs` and `workers` what
the logger and the server are made of (`logDir` is the one exported setting that
`resetState` leaves alone); `inputs` is history, the file, environment
and options of the call. The keys are all 21 of `defOpts`, by the last part of their
names, and the sections that hold them: a variable of the environment may name a
section, and koanf's `Load` then puts its text in the place of the section's keys.
`Convert` is what koanf's typed getters do: a value of the wrong kind gives the
zero value of its kind. `Defaults` is `defOpts`, `DefaultConfigTOML` the text of
the written file; they are two definitions because the code has two. `GetSrv` is
only the part of `NewServer` that changes settings; routes and failures of it
are in `Admission` and `Startup`.

## 3. Runs

| Run | Instance | Shows |
|---|---|---|
| `markov` | 6 tokens, buffers of 1, 2 and 5 bytes (0 is a call that changes nothing), 24 bytes given | `MapExact`, `DeadEndOnlyAtTail`, refinement of `MarkovStream` (`ImplementsStream`), `ReadReturns` |
| `tokenizer` | texts of up to 5 bytes of 7 kinds, a scanner's buffer of 3 | `TokensExact`, `LostOnlyByLongToken`, `ScanEnds` |
| `heffalump` | 2 responses, 2 blocks, a pipe of 1, clients that take 2 chunks | `BufferExclusive`, `StreamInOrder`, `CountExact`, `EndsOnlyByPanic`, `Reclaimed`, `Progress` |
| `system` | 2 connections, 1 may stream, 2 processes on one path, 3 users; bind, chmod, close and accept may fail, the generator may panic | `ExitCodeTruthful`, `NothingCutOff`, `ServeErrorEnds`, `OnlyOrphansLeft`, `OnlyPermitted`, `PathRespected`, `StopsIfClientsGo` |
| `shutdown_stream`, `shutdown_early` | `Lifecycle` with 3 connections | findings 1 and 2 |
| `startup` | 2 instances, 4 locations, every failure | `SettingsHonoured`, `EditsSurvive`, `StartEnds` |
| `startup_nohome` | no user config directory | finding 3 |
| `config` | 7 files, the written default among them, 5 environments, all options, any sequence of calls | `InputsDecide`, `WrittenDefaultNeutral` |
| `admission` | 216 configurations, 2 clients and a proxy, 6 paths, 2 agents | `PoliteNeverTrapped`, `RobotsExact`, `NamedTruly` |
| `denied_robots` | as `admission` | finding 5 |
| `env_override` | as `config` | finding 4 |

The bounds, and why they are enough:

- `MCSource` has a pair of words with two successors, a repeated word, a token
  with a newline in it (a tag over two lines), words shorter and longer than a
  buffer, and a last pair that does occur before. `MaxGiven` = 24 bytes reaches the end of the
  chain and its restart, cut at every place by buffers of 1, 2 and 5.
- Texts of up to five bytes through a buffer of three: all those of up to three bytes;
  of four and five those in which a middle or last byte of a space follows one that it
  can go on from. That has every pair of neighbouring kinds, stray bytes of
  spaces, tags and words longer than the buffer, two tokens and the spaces around
  them, each in every division into reads. A buffer of three is the smallest that the
  assumption admits; in it a token of one byte with two of a cut space is lost.
- `PipeCap` = 1, and `MaxReads` (the chunks a client takes before it only
  stalls) = 2 in `heffalump`, 1 in `system`: enough to fill the pipe, to block on it and
  to get free by a read or by a cut; the second chunk is what `Progress` needs beyond
  the header, and nothing that `system` checks looks at which chunk it is. A response
  that is over is replaced by a new one, so that buffers pass from response to
  response without a bound. fasthttp's own pipe is longer; the proofs hold for any.
- `system`: only one of the two connections may stream; the other one is short, new, or
  arrives during a shutdown. Streams meet each other in `heffalump`, and the
  theorems hold for any number. The second process on the path takes every step
  of `UnixSocket` at any time; of the users one is HellPot's own, one is let in by the
  permissions and one is not.
- Nothing in `Lifecycle` is counted, so its state space is complete.
- `Edited`, the locations the operator works on, leaves out `dotconfig` in
  `startup`, where the program never goes; `startup_nohome` has it instead.
  Histories are unbounded in both.
- `MCPaths` has entries with and without slash and spaces, empty, doubled, and the
  path of robots.txt itself; with every mode and listener, and a proxy that is
  trusted, trusted only in the other notation, or not. A request depends on the
  configuration alone, so two clients and the history of one request suffice.
- The files and environments of `MCConfigLayers` set every kind of key in every
  layer, with values of the wrong kind, whole sections, bad proxies and bad
  permissions; `Windows` is on, the platform whose default is the exception.

Deadlock is checked except in `markov` (nobody has to call `Read` again, and
`MaxGiven` ends the calls), in `tokenizer` (the loop ends), in the `Lifecycle` and
`System` runs (a process ends) and in the `Admission` runs (`NewServer` may fail
or panic).

**Fairness.** Only what the Go scheduler guarantees: a goroutine that can run
does, so each process has weak fairness on its own steps. In `Lifecycle` also
`ReadTimeout` (5 s) ends a connection without a request, and short answers end. In
`System`, main, the serving goroutine, each writer and each connection's worker are
fair by themselves: the worker's step is either a delivery or, once the client is gone
or the body over, the end. The scanner is one goroutine whose `Read` returns.
Clients, signals, panics, kills, failures to accept, operators, other processes and the garbage
collector are free, except in the premise of `StopsIfClientsGo`, which says of each
streaming client that it is not there for ever.

## 4. What is proved

TLAPS proves for every value of the constants (any source, any texts, any number of
responses, buffers, connections and instances, any pipe, any configuration):

| Theorem | Statement |
|---|---|
| `Markov_proofs!TypeCorrect`, `MapCorrect`, `DeadEndCorrect` | `Spec => []TypeOK`, `[]MapExact`, `[]DeadEndOnlyAtTail` |
| `Markov_proofs!ReadImplementsStream` | `Spec => ImplementsStream` |
| `Markov_proofs!ReadFillsBuffer` | every iteration of `Read` adds to the buffer, which never overflows, or the call returns it full |
| `Tokenizer_proofs!TokenizerTypes`, `TokensAreExact`, `OnlyLongTokensLose` | `Spec => []` of the three invariants |
| `Tokenizer_proofs!BoundNeverBinds`, `ScanBounded` | the model's bound on tokens stops no step; every step of the scan takes from a natural number that is left |
| `Heffalump_proofs!HeffalumpTypes`, `BuffersNeverShared`, `PipesInOrder`, `CountsExact` | `Spec => []` of the four invariants |
| `Heffalump_proofs!StayingClientServed` | `Spec => EndsOnlyByPanic` |
| `Heffalump_proofs!GoneClientsWindDown` | once its client is gone, a response has at most 2 * `PipeCap` + 7 steps before it |
| `Lifecycle_proofs!LifecycleTypes`, `ExitCodesTruthful`, `ExitZeroCutsNothing` | `Spec => []TypeOK`, `[]ExitCodeTruthful`, `NothingCutOff` |
| `System_proofs!ImplementsLifecycle`, `ImplementsHeffalump`, `ImplementsUnixSocket` | `SystemSpec => Spec`, `H!Spec`, `U!Spec` |
| `System_proofs!ConnectionsPermitted`, `PathsRespected`, `ExitLeavesOrphansOnly` | `SystemSpec => []OnlyPermitted`, `PathRespected`, `[]OnlyOrphansLeft` |
| `System_proofs!ProcessExitsTruly`, `ProcessStreamsRight` | what is proved of `Lifecycle` and `Heffalump`, of `SystemSpec`: `TypeOK`, `ExitCodeTruthful`, `NothingCutOff`; `BufferExclusive`, `StreamInOrder`, `CountExact`, `EndsOnlyByPanic` |
| `Startup_proofs!StartupTypes` | `Spec => []TypeOK` |
| `Startup_proofs!StartsGoForward` | a start that was launched makes at most six steps |
| `Startup_proofs!FoundSettingsHonoured`, `OperatorsFilesSurvive` | `Spec => []SettingsHonoured`, `Spec => EditsSurvive`, where `UserDirKnown` |
| `Admission_proofs!AdmissionTypes`, `RobotsAgree`, `PoliteClientsSafe`, `ClientsNamedTruly` | `Spec => []` of the four invariants |
| `ConfigLayers_proofs!InputsDecideAll`, `WrittenDefaultsNeutral`, `ConfigTypes` | `Spec => []InputsDecide`, `[]WrittenDefaultNeutral`, `[]TypeOK` |

The assumptions are the named ASSUMEs of the modules: tokens are not empty and
the newline is a byte; texts are sequences of the seven kinds of bytes, and the
scanner's buffer (64 KiB in bufio) has room for a space of three of them; the pipe holds at least one chunk and `None` is no
buffer; streaming connections are connections, and this process is one of those at
the path; the layers name keys and sections, no layer names a section and a
key in it, and no variable of the environment is a list; the proxy is no client,
and configured paths are sequences. The two
theorems with `UserDirKnown` assume it in their statement, and finding 3 shows
that they need it. TLC evaluates the ASSUMEs on every run.

The arguments:

- *Markov.* `ChainInv` says during Fill that the map is the relation of the
  first `scanned` tokens and that `w1, w2, w3` are the tokens just before; after it
  that the Reader's two words are two neighbours of the source, or the start of
  it, or a place after a restart. Without the second part nothing says that a
  word just drawn leads to a pair with a key, which `DeadEndOnlyAtTail` and the
  refinement's `Restart` step need. In the refinement, the step that draws a
  word is `Continue` or `Restart`, and every other step stutters, because
  copying moves bytes from the front of `pending` to the end of `filled`.
- *Tokenizer.* `TInv` says that `start` is a place where the scan could begin
  afresh: everything before it is in `tokens` or between tokens, what follows is
  not in the middle of anything, and `tokens` are the first of the text's tokens.
  Three facts about `ScanHTML` carry it over a `Split`. What it finds in a window is
  the next token of the whole text (`ScanFinds`): bytes that arrive later change
  neither where the token begins nor where it ends. What it skips is no token
  (`ScanSkips`). And a full window in which it finds nothing is the beginning of one
  token, but for one or two bytes of a cut space at its end (`WindowInToken`), which is
  why only a long token loses the rest. That a buffer has room for three bytes is needed
  there: in one of two a cut space alone would fill it. Wherever one would go through the bytes one by one, the
  proofs take the least place at which something happens (`Least`, the order on the
  naturals is well founded) and so need no induction. `ScanBounded` counts the bytes
  not yet read, those not yet passed, and the io.EOF still to come.
- *Heffalump.* `HInv` ties a response's place to what it holds: a buffer exactly
  from `header` to `return`; in `write` its content is the chunk that is due;
  `n` is what was received plus what the pipe holds, and equals `drawn` + 1
  after the header. The abstract content of buffers makes exclusivity
  necessary for order: in a shared block the last writer's chunk would go out on
  another's pipe. `WindDown` counts what a response without a client has before it: each
  chunk that still fits the pipe costs it two steps, and then it waits for the cut, which
  is the worker's next step.
- *Lifecycle.* `LInv` says that an `await` with a value in `errChan` has no open
  connection: either the listener was never registered, so nothing was ever accepted,
  or `Drained` has seen none and nothing can be accepted after. The exception is an
  early signal with a failed accept: that the listener is closed in an `await` after
  any other signal, and no connection open there (`MainPhase`), makes it the only one.
- *System.* Each step of the whole is a step of each part or leaves the part's
  variables alone, so what is proved of a part holds of the whole: `HP` is Heffalump's
  proofs over the connections in `Streaming`, and `SameStreams` takes its theorems over.
  `SocketInv` adds to `UnixSocket` that a live process's socket is the one at the path:
  an operator does not take it away, and a second bind fails on it. That is why
  chmod and close by name hit the right file, which `PathRespected` and
  `OnlyPermitted` rest on. `StreamsLinked` ties a connection to its stream: one that
  streams has a client, one that does not has none, and its writer, if it still
  goes on, is at a cut pipe; with `LInv`'s "no open connection" at the exit this
  gives `OnlyOrphansLeft`.
- *Startup.* `SInv` says of every instance that a file it is about to write is none of
  the operator's, unless `--genconfig` asked for it, and that settings it found
  are there until it has loaded them. The step that matters is `Search`: where a
  user directory is known, the place the default goes to is one that was just
  found absent. Then a write by one instance disturbs no other one's part.
- *Admission.* `AInv` says that what robots.txt would list is, at every point of
  `NewServer`, the routes registered plus those still to come, so that the two
  agree once it returns; and that nobody has read robots.txt in catch-all mode.
  What `RoutePath` does to an entry is not used there: that both sides use the same one
  is. The types need it: a route has a slash in front, whatever spaces the entry has
  around it (`RouteHasSlash`).
- *ConfigLayers.* `CInv` says at each place of `Init` which of the settings are
  already what the inputs say, and that the others are as `resetState` left them:
  the store is the overlay of the layers so far, the options are forced key by
  key. `OverlayOnce` is the lemma about a key under one layer.

Every safety invariant and action property that a run checks is a theorem. Only
model-checked are the liveness properties (`ReadReturns`, `ScanEnds`, `Reclaimed`,
`Progress`, `ServeErrorEnds`, `StopsIfClientsGo`, `StartEnds`): they need fairness and
ENABLED, which are out of the prover's reach. `ReadFillsBuffer`, `ScanBounded`,
`GoneClientsWindDown` and `StartsGoForward` are the safety halves of four of them: there is
a number that every step of the loop takes from, so nothing goes round for ever. What stays
with TLC is the other half, that a step is possible and taken until the end is reached.

## 5. Findings

1. *A shutdown need not end* (`shutdown_stream`). `Shutdown` waits for every
   open connection and a stream ends only when its client goes, so one client that
   reads keeps the process alive; a second signal is never read. The comment on
   `Server.Shutdown` and `docker-compose.yml` (SIGTERM, ten seconds) promise a stop.
   `StopsIfClientsGo` shows that clients are all it hangs on.
2. *A signal too early stops nothing* (`shutdown_early`). Taken before fasthttp has
   registered the listener, `Shutdown` returns at once; `main` then waits for a
   server that has just begun to serve. If accepting fails then, `main` takes that error
   for the end of the shutdown and exits with 0, streams open (`StoppedEarly`).
3. *Edits are lost without a home* (`startup_nohome`). With neither HOME nor
   XDG_CONFIG_HOME each start writes the default to `./.config/HellPot/config.toml`, where
   it never looks first, over whatever is there. A failed write or a kill
   between truncation and write (in any environment) also leaves an
   empty or partial file, which the next start finds and may load.
4. *Lists cannot be overridden* (`env_override`). The README says that every key
   can be set by the environment; a list key set so becomes the empty list.
5. *Denied clients get robots.txt* (`denied_robots`). The configuration's comment says
   that a denied client receives "Not found" for every request; the list is
   checked in `hellPot` only, so `robotsTXT` answers a denied client in full.

## 6. Plan

What is left, in this order:

1. A specification of `Admission` that knows paths and traps only, and the proof that
   `NewServer`, `robotsTXT` and the dispatch implement it.
2. The same counting argument for a shutdown whose clients have gone
   (`StopsIfClientsGo`), over all the processes of `System`.
3. Refinement of `Startup`'s search by the single Stat calls, if the window
   between `Stat` and `WriteFile` is ever closed in the code.

## 7. Not modelled

- Formatting: banner, version, help, the text of log lines and names of log files;
  and the use of the flag package, whose results are inputs of `Startup` and
  `ConfigLayers`. No state depends on them.
- The gzip of the embedded source, a generated constant that `init` decodes.
- The internals of fasthttp, koanf and zerolog, which are external: modelled as
  far as the code's use of them needs. That includes fasthttp's limits
  (`MaxConnsPerIP`, `Concurrency`, `MaxRequestsPerConn`): the code sets numbers,
  and the counting and its races are the library's.
- Patterns (`{name}`) in configured paths, which the router reads as parameters
  and robots.txt prints as they are.
- The redirects that fasthttp/router answers with when a path differs from a route only
  in case or by a slash at its end: they are short answers and name an existing route.
- `MarkovMap.Read` and the package function `Serve`, which nothing calls.
