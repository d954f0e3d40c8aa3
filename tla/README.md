# HashOrb in TLA+

HashOrb is a Python program that mines, in a deliberately careful way, against a
Stratum pool or a Bitcoin Core node. Its value is in its control: no nonce
skipped or repeated, no stale share sent, no connection or device left behind, a
stop that is noticed everywhere, counters that add up. This directory models
that control, checks it with TLC and proves most of it with TLAPS.

Paths below are relative to the repository's `src/hashorb/` unless they start with `docs/`.

## The system

| part | state it keeps | operations | how it is reached |
|---|---|---|---|
| search strategies, `mining/strategy.py`, `fibonacci.py` | a cursor over the parent ranges of a nonce domain | `create_cursor`, `next_assignment`, `exhausted` | called by every mining loop |
| work progression, `mining/progression.py` | extra nonce, network time and counters of one pool job | `start`, `advance` | called when a variant's nonces are used up |
| session recovery, `mining/recovery.py` | the one client, its session, attempt counters | `establish_initial_session`, `recover_session`, `close` | called by the continuous loop, calls the client, sleeps |
| continuous mining, `mining/continuous.py`, `liveness.py`, `job.py` | current job, cursors, callables of the session, stop token, result counters | `run_continuous_mining` | calls everything above; a signal handler changes the token under it |
| Stratum transport, `network/stratum/transport.py` | socket, its timeout, receive buffer | `connect`, `send_message`, `receive_message`, `close` | called by the client |
| Stratum client, `network/stratum/client.py` | protocol state, request ids, queued notifications | `handshake`, `submit_share`, `poll_notification`, `receive_notification`, `close` | called by recovery and the loops |
| solo session, `bitcoin/solo.py`, `block.py` | template, variant, candidate, counters | `run_solo_mining`, candidate policies | calls the node by RPC |
| parallel backends, `compute/parallel.py`, `cuda_multi.py` | thread pool, device contexts, closed and broken flags | `search_nonce_range`, `close` | called by every loop; workers run beside the caller |
| chunked mining, `mining/chunks.py` and its command in `__main__.py` | hash budget, cursor, current job; client and backend | `run_chunked_mining`, `_run_stratum_mine_chunks` | composes client, strategy and backend |
| commands, `__main__.py`, `bitcoin/command.py` | client, signal handlers, backend, pending failure, exit status | one function per command: settings, profile, backend, session, `except`, `finally` | one process each, started by the user, killed by anybody |
| event log, `observability/events.py` | two append-only streams, the next sequence number | `emit`, `close` | called by every observer of a session |
| summary, `observability/summary.py` | per-run integrity, totals | `summarize_jsonl` | reads the log, at any moment |
| dashboard, `dashboard.py` | position in the log, projection of the newest run | `read_available`, `apply`, `run_dashboard` | follows the log beside the command that writes it |
| compute profiles, `config/profile.py`, `compute/profile.py`, `registry.py` | layers of controls, the machine probed | `merged_over`, `resolve_compute_profile`, `select` | called by the continuous command |
| RPC client, `bitcoin/rpc.py` | request ids, closed flag | `_exchange`, `propose_block`, `submit_block`, `close` | called by the solo commands, talks to the node |

What is hard about it:

* **stops**: SIGINT, SIGTERM and the runtime limit can become visible between any
  two statements, and each loop, wait and backoff has to look for itself;
* **staleness**: jobs, difficulties, sessions and templates are replaced while a
  range is searched or a candidate handled;
* **the network**: lines arrive in pieces, answers late, twice or never, and
  connections fail in the middle of a handshake;
* **the log**: it is the only trace of what was sent; writes fail or tear, processes
  are killed between two of them, and its readers look at any moment;
* **workers**: they finish, fail, get cancelled and interrupted in any order;
* **cleanup**: every path, failing ones included, has to release what was opened;
* **boundaries**: the last range, the last extra nonce, the last second, the last hash.

`PROJECT.json` lists these hazards one by one with their lines.

## The modules

| module | stands for | main properties |
|---|---|---|
| `NonceCover` | *abstract*: what any strategy promises | (a specification) |
| `ParentRanges`, `SequentialCursor`, `OrbitingBitCursor`, `FibonacciCursor`, `SearchStrategies` | the three cursors, and a run with one of them | `CoverSpec`, `NeverRaises` |
| `WorkProgression` | `MiningWorkCursor` | `PreparedPrefix`; proved: `ExhaustedMeansAll`, `CountersAgree`, `NeverPreparedTwice` |
| `WorkSearch` | a cursor per variant inside the progression of one job, as the loops drive them | `HashesAccounted` |
| `SessionLifecycle` | *abstract*: what recovery promises the loop | (a specification) |
| `SessionRecovery` | `StratumSessionRecovery` | `LifecycleSpec`, `InstalledSessionSound`, `ConnectionsAccounted`, `StopReturns` |
| `ContinuousMining` | `run_continuous_mining`, stop token, liveness limits, job assembler | `JobsAccounted`, `ResultAccepted`, `SharesGoThroughOwnSession`, `NewestJobMined`, `VariantLeftOnlyWhenCovered`, `StopBoundsWork`, `StopReportedTruthfully`, `StopTerminates` |
| `MessageChannel` | *abstract*: what the transport promises | (a specification) |
| `StratumTransport` | framing and bounded receives | `ChannelSpec`, `TimeoutsHonoured` |
| `StratumClient` | the client and a pool that may send anything | `SessionConsistent`, `NotificationsInOrder`, `ShareGetsOwnVerdict` |
| `SoloMining` | `run_solo_mining`, its progression and policies, and the node | `SubmitsFreshest`, `VariantsValid`, `CandidatesAccounted`, `StopBoundsSession` |
| `NoncePartition` | `partition_nonce_range` | `ContiguousAndBalanced`, `EachNonceOnce` |
| `WorkerPool` | `NativeParallelBackend` and `CudaMultiBackend` | `NoWorkAfterReturn`, `ContextsReleasedAfterJoin` |
| `ChunkedMining` | the `mine-chunks` command around `WorkerPool` | `BackendReleased`, `RangesRight`, `LowestMatchReported` |
| `EventLog` | `JsonlEventSink`, the files it appends to, kills and failing writes | see `Reporting` |
| `LogSummary` | `summarize_jsonl`, as operators on a file | see `Reporting` |
| `LogDashboard` | `DashboardLogReader`, `DashboardState`, rotation of the file under them | see `Reporting` |
| `ComputeProfiles` | layers of controls, `resolve_compute_profile`, what the registry builds | see `Reporting` |
| `CommandFrame` | what the commands share: settings, profile, backend, handlers, `except`, `finally`, exit status | see `Reporting` |
| `SessionEvents` | the Stratum commands between `try` and `except`, as the order of their events | see `Reporting` |
| `RpcClient`, `SoloEvents` | the client of the node; the three commands that use it | see `Reporting` |
| `Reporting` | a shell running the commands, the log, the summary and the dashboard together | `SoundLogAccepted`, `OneTerminalPerRun`, `ExitMatchesLog`, `ResourcesReleased`, `ShareRecordedFirst`, `BlockReportedTruly`, `ProfileHonoured`, `DashboardFollowsLog`, `ReadersAgree`, `LogShown` |
| `MC*` | constants for TLC, nothing else | |
| `*_proofs` | theorems | |

A model's variables carry the code's names where they exist; a `pc`, `phase` or
`step` is the statement the code is at. One action is the code between two
places where something outside may interfere: a call to the network or the node,
a search, a sleep, or a read of the stop token. Environment actions (a signal, a
pool, a node, a socket, a worker thread) are separate disjuncts. Variables marked
`history` are read by properties only, `environment` ones by environment
actions. Operators whose comment describes a mistake (`SelectedFirst`,
`BreakReleasingFirst`, ...) are not part of the specification; put in place of
the definition next to them they show that a property notices that mistake.

Modules fit together in two ways. Where a component depends on another only
through a promise, the promise is an abstract module and the detailed one is
shown to implement it: the cursors implement `NonceCover` (ranges are numbered in
`ContinuousMining` and `SoloMining` because of it), `SessionRecovery` implements
`SessionLifecycle`, `StratumTransport` implements `MessageChannel`, which is the
channel `StratumClient` reads from. Where their steps interleave they are one
state machine: `ChunkedMining` extends `WorkerPool` and interleaves the command,
the backend it calls, the workers and the pool; `WorkSearch` steps a cursor and the
progression it belongs to; `Reporting` interleaves the commands of `SessionEvents`
and `SoloEvents` (both inside `CommandFrame`), the file of `EventLog`, a
`LogDashboard` that polls it, and evaluates `LogSummary` on every state of it.

`SessionEvents` does not repeat what the loops decide: a range has a match or not, a
session is stale or not, by choice. It keeps the order in which a session's
statements write events, open and close the client, and may fail; that the choices
are the right ones is the subject of `ContinuousMining`, `ChunkedMining` and
`SessionRecovery`. Likewise `SoloEvents` and `SoloMining`.

How `Reporting` stands for files: a record is written as two halves, of which the
second carries the newline, so that a torn line is a first half alone; what a stream
holds in its buffer after a failed flush (`held`) is written by the next flush or the
close, or lost when the process is killed. A poll of the dashboard is two steps, the
look at the file and the read, with anything in between. The log may be emptied in
place or replaced by another file.

Abstractions worth knowing: time is ticks, only where the code waits; hashes are
small integers, or just "a match somewhere in the range"; jobs are known by
identity; JSON, hexadecimal and byte layouts do not appear. A variant is known by its
template or job, extra nonce and time, as the code's own identities have it: that two
templates may give the same header is not seen. A `KeyboardInterrupt` is modelled in
`Reporting` wherever no stop handlers are installed (`InterruptFrame`, `Interrupted`,
`InterruptSoloCleanup`), the cleanup included, and in `ChunkedMining` only while the
command is inside the backend, which is where it has an effect worth telling apart.
What a cleanup step fails to close or put back is `"left"`, never released. One thread calls a backend, as in
the program, so its `_operation_lock` is never contended and left out; the
executor and its futures are modelled from how the backends use them.
`ChunkedMining` uses the default, sequential strategy.

## The runs

| run | asks | bounds, and why they are enough | distinct states |
|---|---|---|---|
| `work` | does every cursor cover its domain once, for every variant of a job? | all domains within 17 nonces: up to 17 ranges, so the orbiting permutation has 32 slots with a long invalid suffix, and Fibonacci strides need adjusting; extra-nonce spaces of one and two values, one roll | 370,098 |
| `reporting` | commands, log, summary and dashboard | one plan per question: a failure at every step, two failures, a log shared by two commands, a watched log, a rotated one, two ranges, a lost or stale session, and for the profiles every pair of eleven layers, five profiles and thirty machines. A kill may come at any step. What multiplies without meeting (watching and lost sessions, say) is kept in separate plans | 586,660 |
| `recovery` | connections, counters, freshness, stops | policies with none, two and three retries, a capped delay, a silence limit; two losses, three notifications per client | 124,560 |
| `continuous` | the whole loop, safety | two messages, two sessions, three searches, three contexts (one reachable by rolling the time), two difficulties; one-range, two-range and two-variant plans | 3.2 million |
| `continuous_stops` | does a stop end the loop? | one message, two searches | 245,235 |
| `transport` | framing, bounded receives | two-byte lines, three-byte reads: lines cut and joined; three lines, two connections | 3,973 |
| `client` | who gets which answer | two connections, two unsolicited messages, four requests: a share per connection after a handshake | 2.9 million |
| `solo` | template changes and failures at every call | two templates, two changes (away and back), two ranges, two extra nonces; a plan that stops rolling the time at its own limit, and one whose limit is beyond the last time a header can hold, as the clock may be | 3.7 million |
| `chunks` | backend and command together | two workers, ranges of up to three nonces (unequal halves), three hash values with one matching, two failures, two interrupts, four notifications | 950,968 |
| `client_poll`, `continuous_mislabel`, `chunks_interrupted` | see *Findings* | as `client`, `continuous_stops`, `chunks`, with one interrupt | counterexamples |

The bounds of `reporting` are fields of a plan: `faults` (failed writes, failed
releases, kills, unexpected errors), `rotations`, `ranges`, `losses` (of a session or
of a reply), `turns` (stale sessions, variants used up, ignored duplicates, stops seen
around a candidate), `watched` (is there a dashboard) and `inputs` (plain or all
requests). `MaxNotices` and `MaxAttempts` bound what a session hears and how often
it reconnects.

Interchangeable difficulties (they are compared for equality only) are declared
symmetric in `continuous` and `chunks`, which check invariants and one action
property that does not distinguish them; the run with a liveness property uses no
symmetry. Deadlock is checked except where the modelled object really comes to
rest: a closed recovery owner, an exhausted progression, a transport or client that
has used up its connections. The loops and commands that end on their own have an
explicit last step (`Finished`, `Ended`) instead, so that being stuck anywhere else
is an error.

Each module has a `TypeOK` for the reader; it is proved for `WorkProgression` and
`ContinuousMining`, and as part of their invariants for the other modules with proofs. The runs spend their time on
the properties above. `InstalledSessionSound`, `ConnectionsAccounted`,
`TimeoutsHonoured`, `VariantsValid`, `LowestMatchReported` and `RangesRight` are each
the conjunction of two named parts, stated and explained one by one in their modules.

### Fairness

Safety needs none. `StopTerminates` and `StopReturns` are about loops that call the
pool, and such a call need not return: each message a poll ignores, and each one that
is not the answer waited for, starts its timeout over (`client.py:236-249`, `275-282`),
so a pool can hold the thread for as long as it likes without the stop being read.
`PollBounded` shows it. So nothing is assumed of the calls where the loop waits for the
pool (`PoolCalls`: a handshake, a poll, a submission, a recovery). Weak fairness is
assumed of all other steps (`Loop`, `OwnStep`): one thread executes them, and they are
bounded by a finite range, a pacing quantum or a sleep quantum. The properties are
conditional: if the calls keep returning (`CallsReturn`: again and again the loop is
outside of them), a stop ends the loop. That a stop is looked at after every return,
on every path, is what they say. Nothing else is assumed of the pool, the user, the
clock or failures; a stop need not arrive at all. `LogShown` assumes weak fairness of the dashboard's
poll alone, which `run_dashboard` repeats every interval for as long as it runs; the
commands may stop anywhere, which is as good as a kill.

### Findings

Three runs check what a document or docstring says and end in a counterexample.

* `continuous_mislabel`: `docs/04-observability.md` says a runtime expiry "is not
  mislabeled as a user request". After a candidate, `continuous.py:937-945` calls
  `observe_stop()` for any stop, so a runtime limit that expires during that range
  emits `mining_stop_requested`, a request of the user's. The run then ends as
  `share_accepted` or `share_rejected` (`:981-988`), or with the error the submission
  raised, and nothing says that the limit expired.
* `client_poll`: `poll_notification` promises a bounded wait; each ignored
  informational message starts the whole timeout again (`client.py:236-249`).
* `chunks_interrupted`: `docs/11-multi-gpu.md:130-131` says a failed multi-GPU
  search waits for running CUDA calls and then closes the devices. The wait is
  inside `except BaseException` (`cuda_multi.py:238-242`), so a Ctrl-C during it
  is swallowed and the contexts are closed under running calls. `stratum mine`
  installs handlers that only request a stop; `mine-chunks` does not.

One more path is written into the chunked model rather than reported as a run: an
event-log error in `_select_live_mining_components` (`__main__.py:1963`) or in the
`finally` block (`:1599`) leaves the command before `close_compute_backend`.
`BackendReleased` holds of all other paths (`logEscaped` marks these two).
`ResourcesReleased` speaks of every command, and not of success alone: one that exits
with success has released everything; any other has tried, and what it could not
release is `"left"`. It may not even have tried to close its client and backend when a
`KeyboardInterrupt` escaped (`leaving = "cut"`), nor its backend when the log failed
after a session that ended well.

What the model of the log does, because the code does it, and a reader may not expect:

* A warning record whose second copy fails keeps its sequence number
  (`events.py:193-203`), and the failure reported next takes it again: the strict
  summary rejects such a log. `SoundLogAccepted` therefore speaks of runs in which
  processes are killed and nothing else fails.
* When the event of a success fails on the warning stream only, the command exits 1
  with `command_completed` in its main log; `ExitMatchesLog` is an implication from
  the exit status for that reason, and an equivalence only without failures.
* A torn last line becomes one malformed line with the first record of the next
  command; from then on both readers refuse the file.
* A file emptied in place that outgrows the dashboard's offset before the next poll is
  not noticed (`dashboard.py:546-555`); `overtaken` marks it, and the properties of the
  dashboard except it.
* A signal handler that cannot be put back stays: the error is swallowed or reported,
  but the handler that was there before is forgotten (`__main__.py:192-206`,
  `command.py:131-140`).
* Once the handler of SIGINT is restored, a `KeyboardInterrupt` escapes the `finally`
  block: the backend, and in a solo command the RPC client, may stay open
  (`__main__.py:1820-1822`, `command.py:525-534`).
* `submitblock` may answer `duplicate`, `duplicate-inconclusive` or `inconclusive`
  (`rpc.py:30-35`, `628-632`) while the node holds the block or may hold it. The session
  reports all of them as `BLOCK_REJECTED`, with the text's own category in the record.
  `BlockReportedTruly` therefore does not say that a block reported as rejected was
  refused, but that the node answered it with a text; a block reported as accepted is
  one the node took.
* A poll whose timeout cannot be restored raises after it took a line off the buffer
  (`transport.py:196-203`), and that notification is lost; `NotificationsInOrder` counts
  it among the `polled`.
* A reply to `submitblock` that is lost is an RPC failure (`solo.py:344-351`): the
  session reports no submission although the node may hold the block.
  `BlockReportedTruly` says that what *is* reported is true.
* `solo-mine` ends with `command_completed` and exit status 1 when its block was
  refused or the node lost; `UnsuccessfulOutcomes` are those outcomes.
* Without a selected profile, compute controls on the command line of continuous
  mining are dropped without a word (`__main__.py:2448-2452`), although the resolver
  would refuse them (`:2304`). `ProfileHonoured` then asks for the environment's backend.
* The dashboard shows "mining" as soon as a reconnection is authorized, also when the
  attempt then fails for want of work.
* The dashboard counts an extra-nonce advance for the reason `extra_nonce_2` only
  (`dashboard.py:204`), the summary also for `network_time` (`summary.py:518`); the
  reasons are not part of the model.

## The proofs

TLC decides small instances; these hold for every value of the constants that
satisfies the named assumptions next to their declarations. None of the properties is
inductive as it stands. The invariants that are say, for each place the code can be at
(`pc`, `phase`, `step`, `call`), what the statements before it have established; each
was first checked by TLC, and each has one lemma per action or per variable group.

* **`WorkSearch_proofs`**, for all space sizes, roll limits, nonce limits and strategies.
  The progression: `TypeOK /\ PreparedPrefix /\ CountersAgree` is inductive. "No variant
  twice" is not, since it says nothing about which variants are still to come;
  `PreparedPrefix` does, by writing the prepared set as an initial piece of the documented
  order, wrap-around included. From it follow `NeverPreparedTwice` and
  `ExhaustedMeansAll`. The cursors: powers of two and bit lengths; bit reversal is
  a permutation, by halving; a stride prime to the number of ranges reaches every range
  (Euclid's lemma, from the least common multiple), and the code's search for one ends;
  ranges of equal size are apart and cover the domain. `WorkInv` then relates the
  positions issued to the positions counted, for each cursor, and gives
  `NeverRaises`, `HashesAccounted` and `CoverSpec`: every step of a cursor is a step or a
  stutter of `NonceCover`. The recursive definitions (`PowerOfTwo`, bit reversal, the
  Fibonacci numbers) are reasoned about through the least number that would be a
  counterexample.
* **`SessionRecovery_proofs`**, for all reconnect policies, losses and announcements:
  `InstalledSessionSound`, `ConnectionsAccounted`, and `LifecycleSpec`: every step of
  recovery is a step or a stutter of `SessionLifecycle`. The invariant ties the attempts
  counted to those a loss allows (an attempt passed on to the next loop turn is
  subtracted), and says that a client being established is newer than all installed work.
* **`ContinuousMining_proofs`**, for all plans, jobs, message, session and search
  bounds. `IInv` adds to `TypeOK`, per value of `pc`: whether the
  current job was searched and whether a range is issued but not counted
  (`CountInv`), how far issued and hashed ranges may differ (`CoverInv`), that all
  callables and drained jobs belong to the current session (`SessionInv`), what a
  stop may still let complete (`StopInv`), what was drained and which of it is newest,
  and which stop has been observed. Proved from it: every safety property of the
  module that a run checks, and the action property `VariantLeftOnlyWhenCovered`.
* **`StratumTransport_proofs`**, for all line lengths, chunk sizes and timeouts:
  `TimeoutsHonoured`, and `ChannelSpec`: the transport implements `MessageChannel`. The
  refinement rests on one fact: buffered bytes and bytes on the wire, in this order, are
  whole messages up to the last one sent, so the buffer begins where a message does.
* **`StratumClient_proofs`**, for any number of connections, requests and messages of a
  pool that sends what it likes: `SessionConsistent`, `ShareGetsOwnVerdict`,
  `NotificationsInOrder`. Request identifiers never come back within a connection, so
  whatever can still be heard with the pending identifier (`AnswersInv`) is the pool's
  answer to that very request; what polls took, returned or lost to a timeout that
  could not be restored, then what is queued, then what is on the wire is what the pool
  announced.
* **`SoloMining_proofs`**, for any templates, changes, ranges and extra nonces:
  `SubmitsFreshest`, `VariantsValid`, `CandidatesAccounted`, `StopBoundsSession`. Where
  the session stands says what became of each match (`MatchesAccounted`); the candidate
  held is of the current work (`CandidateCurrent`); what was searched on the current
  template is behind the variant in time and extra nonce, unless the template was left
  and came back (`VariantsBehind`). A variant is one of a template, known by its
  fingerprint.
* **`ChunkedMining_proofs`**, for any number of workers, failures and interrupts. The
  partition, for all ranges and worker counts: the assignments are nonempty, adjacent,
  balanced to one nonce, and each nonce is in exactly one. The lemmas on minima and
  sums need an induction over a bounded segment; it is argued by the least
  counterexample (`UpTo`), because the library's induction theorems cannot be
  instantiated. The backend: `NoWorkAfterReturn`, `ContextsReleasedAfterJoin`, from `PoolInv` (results
  already awaited are done, a pool being joined has nothing queued, contexts exist only
  for the multi-device backend and stay closed). The command: `BackendReleased`. The
  search: the reduction over the workers' results reports what one sequential search
  would, `LowestMatchReported`. The loop: `RangesRight`, from `LoopInv`: what was
  assigned, what the cursor has left and the budget add up (`BudgetKept`), ranges of one
  job are apart (`RangesApart`), and the job under search is the newest one heard under
  the difficulty then in force (`JobIsNewest`, `DifficultyInForce`).
* **`Reporting_proofs`**, for any schedule of commands and any number of failing or torn
  writes, kills, interrupts, rotations and readers: `ResourcesReleased`,
  `OneTerminalPerRun`, `ShareRecordedFirst`, `ExitMatchesLog`. First each step of a
  command is shown to be one of four as far as its report goes (`Effect`): it writes
  nothing, an ordinary event, the report of a failure or the one of a completion. The
  rest of the argument is about these four and about what happens to the file. `BaseInv`
  says where the command can be, what it holds there and what failed; `FilesInv` looks at
  a file followed by what is still buffered for it, in which nothing of a run follows its
  terminal record (`Sealed`) and no terminal record is there while the command may still
  report (`MayReport`); `WholeInv` that all lines are whole while nothing failed;
  `SharesInv` that the candidates in the log bound the shares sent; `ExitInv` and `PastInv`
  carry the exit status beyond the end of the run, through later commands that append to
  the same file. `ExitMatchesLog` is not inductive for just that reason. The dashboard,
  for any file and any polls: `DashboardFollowsLog`. What it shows of a file is
  the same read at once or in pieces cut at the end of a line (`ProjectJoin`), and an
  unfinished line adds nothing (`ProjectUnfinished`), so a poll that carries the unfinished
  part over to the next one continues as if it had read everything (`ReadOn`). `FollowInv`
  adds what the reader knows of the file between its look and its read, when the file may
  grow, be emptied or be replaced. The summary, for any log: `SoundLogAccepted`. Both
  readers go through a file half line by half line in the same way (`ReadAt`, `Shows`), so
  one argument (`ShowsJoin`) serves both: whole lines that follow whole lines are read on
  from what those came to, and the summary of a longer log is one `ConsumeRecord` further
  (`SummaryJoin`). `SummaryInv` ties what it has read to the command that is running: the
  number it expects next is the sink's, and the run is open in it exactly while the
  command may still report. That holds while nothing fails but that processes are killed
  (`OnlyKills`); each kill is counted (`KilledEnds`), so any other fault shows for good.
  The profiles, for any layers of controls and any machine: `ProfileHonoured`. What the
  layers say together is what each of them says (`LayersSay`), each profile resolves to
  a backend that does so (`AutomaticHonours`, `LiteHonours`, `CustomHonours`), and
  `SetupInv` carries what the profile resolved from the environment to the backend. It
  rests on `InputsAssumption`: a profile is one the parsers let through, a device list is
  finite, and the number of processors is a number.
  The block, for any replies and any log: `BlockReportedTruly`. An answer that is not
  the node's own to this very request ends in an error and never in a verdict
  (`RepliesTrue`, `VerdictTrue`), so a step of a command leaves the node alone, gives it
  the block, or reports what became of it (`BlockMoves`). The node takes the block and
  answers null, holds it or has not decided and answers one of the texts for that, or
  refuses it and answers another (`AnswerOf`); a verdict fits what the node did
  (`VerdictFits`). `BlockControl` follows the verdict from the submission to the outcome,
  `BlockTold` says that no record of the
  run, buffered or in the file, tells anything else, and the count of blocks in a
  summary is traced back to such a record (`AllBacked`).
  The two readers: `ReadersAgree`. Followed line by line with one reading each
  (`LineAgreed`), a record adds the same to what both count (`SummaryAdds`, `ViewAdds`),
  unless the dashboard finds its value out of place and gives up. So the log must be
  `Lawful`: each run's best hashes get better and a share has one of two verdicts.
  `BestTold` says so of all that was written, buffered or in the file: a session reports
  only a hash below its best (`Progress`), and none any more once such a report was lost
  (`Hashing`), and a run begins with no best. That the summary accepts the log
  is left to `SoundLogAlways`; a file that is cut or torn stays lawful
  (`StretchImproves`).

With that, every property of the passing runs is proved but liveness, which is out of
the prover's reach and stays with TLC: `StopTerminates`, `StopReturns`, `LogShown`.

## The plan

Done, in this order: cursors and cover; progression and its proof; recovery and
lifecycle; the continuous loop and its proof; transport, channel and client; the solo
session; partition, worker pool and chunked mining with their proofs; cursor and
progression together; the event log, its readers, all commands that keep state, the
RPC client and the compute profiles; the proofs of recovery, transport, client, solo
session and the rest of the loops, with the two refinements; the proofs about the log.

Next:

1. The single CUDA backend's context lifecycle and launch geometry.
2. A dashboard over a log with lost sessions, once its projection is smaller.

## Not modelled, and why

Hashing kernels and SHA-256, targets, coinbase and merkle construction, block
templates and assembly: arithmetic on 256-bit values and byte layouts; their results
enter as "a match or not", "accepted or refused", and the code re-verifies them.
Parsing of Stratum messages, RPC results, settings and command lines, and the types of
event fields: functions without state, whose outcomes (accepted, refused, raising) are
the branches of the models that call them. Benchmarks, diagnostics and the offline
commands: printed once, nothing kept. Dashboard rates, times and rendering: layout.

One hazard has no property. The dashboard finds the newest run by wall-clock time
(`dashboard.py:144`); the model numbers runs as they begin, since no behaviour is promised
for a clock set back.
