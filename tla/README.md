# Verification of remote-ssh-mcp

TLA+ models of remote-ssh-mcp (`src/src/remote_ssh_mcp/`), TLC runs that check them on small
instances, and TLAPS proofs of the most important properties for every value of the constants.

remote-ssh-mcp is an MCP server: an agent calls tools such as `remote_run` or `remote_write`; the
server opens `ssh` in a tmux window that a person can watch, types commands into the window's pane
and reads their output back from the pane's history. Everything interesting follows from that: the
pane is one shared terminal, tool calls are asyncio tasks that can be cancelled at every `await`,
every tmux command can fail or be executed without anybody getting the reply, and the remote file
system changes under the server's hands.

Contents: [inventory](#inventory), [modules](#modules), [how models and code
correspond](#how-the-models-correspond-to-the-code), [runs](#runs), [findings](#findings),
[fairness](#fairness), [proofs](#proofs), [not modelled](#what-is-not-modelled), [plan](#plan).

## Inventory

| component | state | operations | interacts with |
|---|---|---|---|
| **Connection lifecycle** (`session.py`: `SessionManager.operation`, `run_command`, `disconnect`, `get`) | per connection: `lock`, `state` (ready, busy, unresponsive, closing), `current_operation`, `last_error`, `cwd`; the dictionary `_connections` | enter and leave a pane operation, recover after failure or cancellation, disconnect | calls `run_in_pane`, `recover_pane`, `kill_window`; called by every tool handler |
| **Connection setup** (`session.py`: `connect`, `_session_target`, `_new_session`, `_new_window`, `_wait_for_shell`) | `_connect_lock`; tmux sessions and windows; ids known to the call | find or create the host's session, create the window, log in, register, clean up | tmux server (shared with other windows), `disconnect`, preflight |
| **Command framing** (`runner.py`: `run_in_pane`, `_wrap_command`, `_extract_output`, `_extract_partial_output`) | the pane's history; `last_screen`; the deadline | type a command between markers, poll, cut out its output | tmux history limit, other programs that print in the pane |
| **Recovery** (`runner.py`: `recover_pane`) | a deadline; what the shell still has to run | two C-c, then a probe command | the lifecycle and the file writer, each with its own shielding |
| **Verified write** (`files.py`: `write_remote_file`; `_write_receiver.py`: `WriteReceiver`) | client: `stage`, the outcome; receiver: tty mode, snapshot of the destination, `replace_started`, `committed`; the destination | start the receiver, paste the payload, verify, copy, link or rename, report; repair and probe after failures | the pane's terminal, the remote file system, other programs that change it, a person typing C-c |
| **Payload transfer** (`tmux.py`: `_load_and_paste`; `files.py`: the transfer loop; `_write_receiver.py`: `receive_payload`) | paste buffers of the tmux server, what the terminal holds, `pending` and the spooled file | paste the chunks and a delimiter, read, find the delimiter, drop buffers | the write, a person who types into the pane |
| **Remote read and edit** (`files.py`: `read_remote_file`, `read_entire_remote_file`, `edit_remote_file`) | offset, chunks so far | size and chunk by chunk; decode, count, replace, write back | `run_command`, the write, programs that change the file |
| **Search** (`server.py`, `search.py`, `_search_runner.py`) | lines so far, the search process | rg, grep or a walk, stopped one match behind the limit | `run_command`, the search process |
| **tmux client** (`tmux.py`) | a paste buffer per paste | commands with timeouts, kill of the client on cancellation | everything above |
| **Preflight** (`preflight.py`) | warnings, `forwarded_agent_present` | `ssh-add`, a test login, `ssh-add -l` on the host | `connect`, local child processes |
| **Tool handlers** (`server.py`, `contracts.py`, `_mcp_compat.py`) | none | validation, truncation of output, exceptions to responses | `SessionManager`, `files`, `search` |

What makes each of them correct, and what is hard about it:

* *Lifecycle.* One call uses the pane at a time; `remote_status` tells the truth; a pane offered as
  ready has a shell at its prompt, or else is unresponsive for good; a recovery's C-c never hits
  another call's command; a disconnected window is never typed into; every call is answered. Hard: a
  cancellation at every `await`, cancellations of the cancellation's handler, a check made before
  the lock is granted.
* *Setup.* Connections to one host share a session, a window belongs to its host's session and has
  the raised history limit, no window stays behind a connect that failed. Hard: `disconnect` kills
  windows (and with the last one the session) without `_connect_lock`; half-executed tmux commands;
  clean-up that is itself cancelled.
* *Framing.* A completed command comes with all of its output or with an error, a timed-out one with
  a beginning of its own output. Hard: bounded windows onto a history that moves.
* *Write.* No torn file, no false success, no false "unchanged", no overwriting of a file that
  appeared meanwhile, a clean terminal afterwards. Hard: two processes that talk through a terminal
  and fail independently.
* *Payload.* The receiver accepts exactly what precedes the delimiter, rejects nothing that arrived
  undisturbed, and no piece of the content stays in a paste buffer. Hard: a delimiter that falls
  over two reads, bytes held back for it that are nearly surplus, typed bytes in the middle, a
  cancellation of the clean-up.
* *Read and edit.* What is returned was in the file; an edit replaces what it found, or says truly
  why not. Hard: a file that changes between the size and the chunk and between two chunks, a size
  line that is missing, characters and matches over a chunk boundary.
* *Search.* Complete, or marked as truncated; and no process goes on. Hard: the process ends, hangs,
  fails or is interrupted around the moment in which it is stopped for the limit.
* *Preflight.* It passes only after a login, and its warnings tell what happened. Hard: a child that
  ends in the moment of its timeout or of a cancellation.
* *Tool outputs.* An output that is cut says so, at no more than its limit, with no character
  broken. Hard: cuts within a character, and a tail of length zero.

`PROJECT.json` lists the hazards line by line, with the properties that would catch each of them.

## Modules

| module | models | role |
|---|---|---|
| `ConnectionLifecycle` | one registered connection: `asyncio.Lock` with its queue, state, all cancellation points, recoveries with and without `asyncio.shield`, disconnect, the shell's command queue | core |
| `PaneLease` | what the lifecycle promises, in two variables: a pane is leased, returned and closed. `Leftovers` says whether calls may leave something behind | abstract specification |
| `MCConnectionLifecycle` | sets of call kinds, sentences of the documentation | model checking |
| `ConnectionSetup`, `MCConnectionSetup` | concurrent connects to shared sessions, a tmux server that exits and is replaced | core, model checking |
| `WriteFile`, `MCWriteFile` | one `remote_write`: client, receiver, terminal, file system | core, model checking |
| `AtomicWrite` | what a write promises: one name gets the whole content at one moment, before any ok | abstract specification |
| `PaneRun` | one `run_in_pane` over a pane of lines | core (checked directly) |
| `PayloadStream` | the transfer of a payload, symbol by symbol | component of `ToolCalls` |
| `RemoteEdit` | one read or edit of a file that others change | component of `ToolCalls` |
| `SearchTool` | one search: handler, helper, process | component of `ToolCalls` |
| `Preflight` | one preflight and its three children | component of `ToolCalls` |
| `ToolOutput` | `_truncate_output` | component of `ToolCalls` |
| `ToolCalls`, `MCToolCalls` | the choice of the tool and the sum of the five machines above; their properties under one specification | composition, model checking |
| `ConnectionLifecycleProofs`, `ConnectionSetupProofs`, `PaneRunProofs`, `WriteFileProofs`, `PayloadStreamProofs`, `RemoteEditProofs`, `SearchToolProofs`, `ToolCallsProofs` | theorems about the module they are named after | proofs |

How they fit together: `ConnectionLifecycle` is what several calls do to one connection, and treats
what a call does in the pane as one command that ends, hangs or fails; `PaneRun` is such a command.
`ToolCalls` is what one call does with the world outside of the pane, while `PaneLease` (which the
lifecycle implements) gives it the pane for itself. `WriteFile` counts the pieces of a payload and
has all of the protocol around it, with signals; `PayloadStream` has its symbols and none of the
protocol. `RemoteEdit` ends in `WriteFile`'s snapshot, comparison and rename. `Preflight` runs before
a connect takes `_connect_lock` and shares nothing with other connects, so it is a module of its own
and no step of `ConnectionSetup`, which begins where the preflight has passed.

## How the models correspond to the code

The `map` of `PROJECT.json` names the lines behind every definition. Between two `await`s asyncio
runs nothing else, so **an action is the code from one suspension point to the next**, and `pc`
names the suspension point.

**ConnectionLifecycle.** `Enter`, `Queue` and `Refuse` are `get()` (or `disconnect`'s lookup) up to
the lock: `asyncio.Lock` grants at once only if it is free and nobody waits. `ahead[c]` is the FIFO
queue. `Acquire`/`AcquireRefused` are the grant and the second `_ensure_usable`. `Submit`,
`Succeed`, `Fail`, `FailWrite` are the body; `Interrupt`, `Outcome` and the `*Done` actions are
`recover_pane`, in two layers because `write_remote_file` recovers the pane itself before
`operation()` may do so again. `Cancel*` is one action per suspension point. `pane` is the queue of
commands that the shell still has to execute: it outlives the calls that typed them, C-c may drop
its head, all of it or nothing (a program may ignore SIGINT), and a probe can succeed only when it
is empty. A call with several commands (chunked read, edit) is one command; what commands print is
`PaneRun`'s matter. The refinement mapping to `PaneLease` is at the end of the module: the lease's
user is the holder of the lock, its shell is what the state and `pane` tell, and `Leftovers` is true
where calls may be cancelled or write files, the two ways in which something stays behind in a pane
that is ready.

**ConnectionSetup.** The tmux server is a map from windows to sessions; a session lives while it has
a window. A command that times out or is cancelled may have been executed (`Unseen`). `Cleanup` is a
kill that may fail silently. Login, the project directory and `pwd` are one step that succeeds or
raises. `Renamed` are hosts with characters that tmux does not keep in session names. tmux numbers
windows in the order in which it creates them (`number`, `next`: a new session's placeholder `@0`,
its ssh window `@1`, and so on). The server exits with its last window (`ServerExits`), and its
successor counts from zero again. A kill closes the live window that has the number
(`Named`), be it the one that was meant, another one, or none. The model's tmux server serves this
program alone: windows that other programs open would shift the numbers, and keep the server alive.
`missed` is a history variable, the windows that a kill was sent to and did not reach.

**WriteFile.** The payload is `Chunks` pieces and a delimiter, the terminal a number of unread
pieces and the bit `intact`; the receiver is a program counter over `run` and `commit_payload`, one
action per system call that matters. A name of the file system leads to old, foreign, our own or
garbled content; the path can be a link. A signal is noticed at the receiver's next step, before the
next statement takes effect, so it can fall between `os.link` and `self.replace_started = True`. Two
sources of C-c are kept apart: `recover_pane` (`TypeControlC`) and a person (`typed`). `ReceiveFails`
is a failure of `receive_payload` while the client still pastes. `probing` says that the command of
`_probe_destination` runs in the pane although nobody waits for it: a probe that is given up, by its
timeout or a cancellation, is not interrupted and ends when it does (`ProbeEnds`). Two history
variables serve the properties: `landed` (a name was given the new content) and `seen` (the path
itself led to it). Together with the files, the link and the answer, `landed` is all that
`AtomicWrite` has: the refinement mapping is the identity on them.

**PaneRun.** The pane is a sequence of lines; the poll, the timeout capture and the final capture
see windows of 3, 4 and 6 lines instead of 200, 20 000 and 1 100 000 (a window counts the visible
screen in). The echo of the command is an "other" line, because the wrapper splits its marker.

**PayloadStream.** `sender` is the suspension point of the transfer loop: `load-buffer`,
`paste-buffer -d`, and the `delete-buffer` that follows a paste that failed (`delete`) or was
cancelled (`shielded`, behind `asyncio.shield`). A paste may lose a symbol, and a command that
failed may have been executed. A symbol stands for a byte; the delimiter is a dot, a letter and a
dot, so that it begins as it ends and a stray dot can precede it. One `Read` is one turn of
`receive_payload`'s loop: any number of symbols up to `ReadLen`, the search in `pending` and what
came, then the verdict or `flush_bytes`. The `stream` of all that was read is a history variable,
the reference that the properties compare with.

**RemoteEdit.** `Stat` and `Chunk` are the two system calls of the remote read command, `Answer` is
what the handler makes of its output, with or without the size line. A foreign change is in place
(same `inode`) or a rename. `Hits` is what `str.count` and `str.replace` find, from the left and
without overlaps. "lead" and "cont" are the halves of a character of two bytes, so that
`data.decode` can fail for a character that really is broken and must not fail for one that only
fell over two chunks. `past` is a history variable: all that the file was during the call.

**SearchTool.** The helper's stages are `readline`, `poll`, `wait` with its timeout, and the `except
BaseException` that kills and reaps; the process prints, exits well or badly, dies of a signal or
hangs in its own time, and the C-c of a recovery reaches both. `printed` counts matches, `splits`
what `str.splitlines` adds to their number when a name contains a line break. A C-c before the `try`
or in the handler before its kill ends the helper without either (`aborted`). `_glob` is the walk
without a process.

**Preflight.** One action per suspension point for each child: start, `communicate`, its timeout,
`wait` after the kill, and a cancellation of each. `ran` is a history variable: what really became
of each child.

**ToolOutput.** A character is a number and a width, its bytes are numbered; `Decode` drops the
bytes of characters that are not whole, as `errors="ignore"` does.

**ToolCalls.** `Start` chooses the tool, after which the machine of that tool works and the others
rest.

## Runs

| run | question | size |
|---|---|---|
| `lifecycle` | two calls of any kinds (run, read, write, disconnect), each cancelled up to twice anywhere: status, exclusion, recoveries, disconnects, answers | 37 127 states |
| `lease` | three runs, reads and disconnects without cancellation implement `PaneLease` with nothing left behind, liveness included; nothing is used after it was closed | 13 513 states |
| `setup` | three connects, two to one host, one cancellation each, one fault, windows closing at any time, the tmux server exiting with the last | 871 578 states |
| `write` | one write; path missing, file or link; two faults, one cancellation, one typed C-c, one foreign change | 1 460 323 states |
| `pane_run` | one command of up to four lines, three foreign lines, a clear, a fault | 179 504 states |
| `tool_calls` | one call of any tool: a payload of three symbols, typed into, lost, cancelled; a read or an edit with two foreign changes; a search around its limit; a preflight; an output cut anywhere | 219 506 states |
| `cancelled_recovery`, `failed_write_probe`, `cancelled_disconnect`, `dotted_host`, `reused_window`, `interrupted_link` | one sentence of the documentation each, which the code does not keep: see Findings | counterexamples of 4 to 18 states |

Properties by run:

* `lifecycle`: `TypeOK`; `StatusMatchesLock` (busy exactly while a call is in the critical section,
  and that call holds the lock); `RecoveryHoldsLock` (a recovery runs inside its call's critical
  section; exception: a call that was cancelled **twice**, whose shielded recovery goes on alone);
  `ReadyMeansIdleShell` (exceptions: leftovers of a cancelled call, and the probe of a failed
  write); `ClosedMeansKilled`; `NeverResurrected`; `LiveCommandUndisturbed` (a command its call
  waits for is not interrupted by anyone else; exception: a call that was cancelled twice);
  `LeaseKept` (every step is one of `PaneLease` or changes nothing of it, with cancellations and
  failed writes); `Answered`.
* `lease`: `NoUseAfterClose`, `ImplementsLease` (with nothing left behind, all of `PaneLease`, its
  fairness included: every lease and every close ends), `Answered`.
* `setup`: `TypeOK`, `WindowInOwnSession`, `NoDuplicateSession`, `KnownWindowsAccounted`,
  `ConnectsEnd` (at last every connect has ended and no background kill is left).
* `write`: `TypeOK`, `NeverTorn`, `SuccessMeansWritten`, `UnchangedMeansUnchanged` (exception: C-c
  typed by a person), `CleanPaneAtEnd`, `CreationKept`, `ImplementsAtomicWrite` (the write is a
  refinement of `AtomicWrite`), `WriteEnds`.
* `pane_run`: `TypeOK`, `CompleteOrError`, `PartialIsPrefix`, `NoSpuriousError`, `RunEnds`.
* `tool_calls`: `TypeOK`; `DelimiterEndsPayload` (what is spooled and held back is all that was
  read, a delimiter in it is never missed, what is accepted precedes the first one);
  `CleanTransferAccepted`; `ReadReflectsFile` (each byte was in its place at some moment of the
  call, the end was the end of the file at some moment); `EditIsExact` (an edit writes what it read
  with the one match replaced or all of those that do not overlap, place by place: each other byte
  is there, shifted by what the replacements before it add, and nothing else is; when nobody changed
  the file it decided on all of it, and its reason for not replacing is true); `SearchIsExact`
  (count and truncated mark are those of the matches there are; see Exceptions);
  `AgentWarned`; `OutputHonest` (an output that is cut is marked, is a beginning and an end with
  whole characters only, and is within its limit by no more than the rest of the two characters that
  the cuts went through); `NothingLeftBehind` (no paste buffer; no search process that has not ended
  or got a SIGKILL before its helper exits; no running preflight child; see Exceptions); `CallsEnd`.

**Exceptions.** Some properties except what the code does and no reader would want; without the
exception TLC refutes each of them (but for the two marked *, which need more cancellations or
foreign changes than the run has).

| property | holds except for |
|---|---|
| `RecoveryHoldsLock`, `LiveCommandUndisturbed` | calls cancelled twice |
| `ReadyMeansIdleShell` | what a cancelled call left, and the commands of writes (the probe of a failed one; findings 1 and 2) |
| `KnownWindowsAccounted` | a window that a kill was sent to and did not reach, and the placeholder of a connect cancelled again in its error path *. A failure of any other command is no exception |
| `UnchangedMeansUnchanged` | C-c typed by a person (finding 6) |
| `CleanPaneAtEnd` | the prompt, after a failed or cancelled write whose destination probe still runs (finding 2); receiver, terminal and input are clean all the same |
| `SuccessMeansWritten` | three foreign changes in their places * (below) |
| `SearchIsExact` | the truncated mark of an answer with a match that `str.splitlines` takes for several (below) |
| `AgentWarned` | an ssh-add that succeeds in the moment of its timeout may be warned about |
| `NothingLeftBehind` | a buffer whose `load-buffer` was interrupted, or whose clean-up failed too; the process of a search helper that a C-c struck outside of its `try` or before its handler's kill, and which has that C-c only |

**Bounds and why they suffice.** Two calls show every race of two neighbours in the lock's queue,
three (in `lease`) the order of the queue; two cancellations of one call reach every handler of a
cancellation and the cancellation of that handler, a third finds no further `await` that the second
does not. In `setup` two connects share a host and a third has a host whose name extends theirs, so
that a prefix match would show. In `write` one chunk and the delimiter suffice to lose or delay the
first, the last or both pieces (the proofs hold for any number); two faults give a failure and a
failure of what repairs it; two link targets let a link be retargeted. In `pane_run` the windows are
ordered and each smaller than the next, and the output can exceed each. Every module names its
bounds `Max...`.

In `tool_calls` two chunks, one of them short, are pasted, and a read can return anything from one
symbol to more than a chunk, so that the delimiter is cut in every way; `Slack` is the least that
the code's own delimiter needs; two typed symbols can spoil or forge a part of it. Files are up to
five bytes with chunks of two: empty, with the searched string missing, once, twice, overlapping
itself and over two chunks, with a character over two chunks or cut off. Searches have up to four
matches for a limit of two, one more than what the handler asks for. Outputs are up to six
characters of one to three bytes, with limits of the marker alone, of a byte more and of several.

`SuccessMeansWritten` has an exception in its statement: three changes by other programs, each in
its place, deceive the write through a symbolic link (the link turned away before the rename, the
new file removed behind it, the link turned back before the second comparison). The theorem has the
same exception for any number of changes. The run allows one foreign change, where the exception
cannot be reached.

`CHECK_DEADLOCK FALSE` is in every configuration because the modelled systems end: all calls are
answered, the connects, the write, the command or the tool call are over.

## Findings

Six statements of the documentation that the code does not keep, each with a run that shows it:

1. `cancelled_recovery`: a call cancelled while it recovers from a **timeout** abandons the recovery
   (no `asyncio.shield` at `session.py:422`, `454`, `462`), and the connection is ready with the
   command still running.
2. `failed_write_probe`: after a recovery that succeeded, `write_remote_file` probes the destination
   in the same pane; if the probe times out it keeps running, and the answer still says that the
   pane recovered (`files.py:433-450`).
3. `cancelled_disconnect`: a cancelled `disconnect` whose kill then fails leaves the connection in
   state closing with nobody closing it (`session.py:504-507`).
4. `dotted_host`: tmux replaces dots in session names, so the second connect to such a host does not
   find the session of the first (`session.py:249`).
5. `reused_window`: when the last window of a tmux server closes, the server exits and the next one
   gives the same window ids again; the connection whose ssh ended is still registered, and its
   disconnect closes the window of another connection (`session.py:501`).
6. `interrupted_link`: SIGINT between `os.link` and `replace_started = True` makes the receiver
   report a destination as unchanged that it has just created (`_write_receiver.py:245-246`).

A seventh has no run of its own; `SearchIsExact` excepts it. README.md:271-272 of the repository
promises exact truncation, CHANGELOG.md:29 to "distinguish exact result limits from truncated"
results. The handlers count what `str.splitlines` makes of the output (`server.py:387`,
`435`), but the helper counts matches, and a file name with a newline or a matching line with a form
feed is several lines to `splitlines`. With just `max_results` matches, one of them such, the answer
is marked as truncated although there are no more matches, and what exceeds `max_results` pieces is
dropped. Without the condition `answer.splits = 0` TLC shows it in a few steps.

Three more disagreements show as exceptions of checked properties rather than as findings, since no
document denies them: a call cancelled twice leaves its recovery typing C-c without the lock
(`session.py:408`, `448`), a `new-window` whose client is killed can leave a window whose id nobody
has (`session.py:291`), and a `load-buffer` whose client is killed can leave a paste buffer with
content of the file (`tmux.py:90`).

## Fairness

Only what the code's own timeouts and asyncio guarantee is fair; faults, cancellations, foreign
programs, the end of a command and the loss of a window never are.

* `ConnectionLifecycle`: weak fairness of each call's `Progress`. Every await in it ends:
  `run_in_pane` and `recover_pane` have deadlines, `tmux()` a mandatory timeout, and the lock is
  FIFO, so a waiter at its head stays enabled once the lock is free and a grant to another call
  cannot come in between.
* `ConnectionSetup`: weak fairness of `Progress` per connect and of each background kill. Each
  connect takes the lock once, so those ahead of it are finitely many and waiting needs no stronger
  assumption.
* `WriteFile`: weak fairness of `ClientStep`. All of its waits have deadlines (`GiveUp`,
  `RecoveryFails`); of the receiver, which may be killed or stopped, nothing is assumed.
* `PaneRun`: weak fairness of typing, of the final capture and of the deadline; of the shell and of
  polling nothing is assumed.
* `ToolCalls`: weak fairness of `Own`: the steps of the server and of its helper, the timeouts they
  set, and the death of a process that got a SIGKILL. A search process that prints, ends or ignores
  a SIGTERM, a preflight's child, a person and other programs owe nothing, so `CallsEnd` speaks of a
  search only once it has what it was asked for; the timeout of a search that has not is
  `run_in_pane`'s.

## Proofs

All proofs are checked by TLAPS (SMT, Zenon and, for the temporal steps, LS4). They assume only the
named `ASSUME`s of the modules, which TLC evaluates in every run: typing of the bounds, and that the
model values are different. The machines of `ToolCalls` state theirs as an operator `Parameters`,
and `ToolCalls` assumes them in `ParametersAssumption`: chunks are not empty, surplus that is no
error leaves room for the delimiter, edits read from the beginning in chunks of `MAX_READ_BYTES` and
search for something (`edit_remote_file` refuses an empty `old`), the limit of an output leaves room
for its marker (`MAX_RUN_OUTPUT_BYTES` by far does), characters have bytes, bounds are numbers.

`ConnectionLifecycleProofs`, for any set of calls, any kinds and any number of cancellations, from
the invariant `IInv == TypeOK /\ LockInv /\ OwnerInv /\ CloseInv /\ PaneInv`:

| theorem | property |
|---|---|
| `TypeCorrect` | `TypeOK` |
| `StatusIsTrue` | `StatusMatchesLock` (mutual exclusion) |
| `RecoveryIsExclusive` | `RecoveryHoldsLock` |
| `ClosingIsSafe` | `NoUseAfterClose` |
| `NoWindowLeftOpen` | `ClosedMeansKilled` |
| `UnusableForGood` | `NeverResurrected` |
| `ReadyIsIdle` | `ReadyMeansIdleShell` |
| `CommandsAreUndisturbed` | `LiveCommandUndisturbed` |
| `ConnectionIsLease` | `LeaseKept` (the refinement of `PaneLease`, without its fairness) |
| `LockAlwaysServed` | whenever the lock is free and calls wait for it, exactly one of them may take it (`LockIsServed`, in the proof module) |

None of the properties is inductive by itself. `LockInv` adds to mutual exclusion that a call which
closes has published "closing". `OwnerInv` says of every recovery which suspension point awaits it,
and that one that is not awaited belongs to a call that was cancelled twice: only so can a `*Done`
step be excluded from releasing somebody else's lock. `CloseInv` relates the killed window and the
forgotten connection to a state that nobody is admitted in. `PaneInv` says of each command in the
pane's queue that its call holds the lock, or was cancelled, or is a failed write, or that the
connection is not usable any more. `CommandsAreUndisturbed` follows from `OwnerInv` and mutual
exclusion: while a call is in its body, a recovery that still runs belongs to a call cancelled
twice.

`ConnectionIsLease` has one lemma for each kind of step that `PaneLease` sees (a grant, a return, the
end of a close, a command that goes from an idle pane); all others change neither user nor shell.
`ReadyIdle` turns `PaneInv` into the lease's idle shell, and `LeftInv` says who leaves something
behind: only a cancelled disconnect abandons a close, so that a lease without `Leftovers` never sees
one.

`LockAlwaysServed` is what `Answered` needs of the lock and what the prover can say of it.
`QueueInv`: the waiters are finitely many, each waits for waiters only, one waits for all that those
before it wait for, and of two one is before the other. A waiter with the fewest before it then has
nobody before it, and there is only one such. A waiter that is cancelled is taken out of everybody's
`ahead`, without which the queue would be stuck behind it.

`ConnectionSetupProofs`, for any connects, hosts, faults and cancellations:

| theorem | property |
|---|---|
| `TypeCorrect` | `TypeOK` |
| `OwnSession` | `WindowInOwnSession` |
| `Exclusive` | `NoDuplicateSession` |
| `NoWindowForgotten` | `KnownWindowsAccounted` |

`Guarded` is the mutual exclusion of `_connect_lock`. `Targeted` carries what a connect knows of the
session it chose to the moment of use, which other connects' disconnects may have emptied meanwhile:
the session is of its own host and had its history raised. `Fresh` says that no window is known
before the command that creates it. A kill closes at least the window it is meant for, if that still
lives, or the window is in `missed`; that an old number can close other windows too disturbs no
invariant. `Undone` says which windows the error paths may still find, whichever command failed.

`WriteFileProofs`, for any number of chunks, link targets, faults, cancellations, typed C-c and
foreign changes:

| theorem | property |
|---|---|
| `TypeCorrect` | `TypeOK` |
| `Atomic` | `NeverTorn` |
| `UnchangedIsTrue` | `UnchangedMeansUnchanged` |
| `PaneIsClean` | `CleanPaneAtEnd` |
| `CreationIsExclusive` | `CreationKept` |
| `OkIsDeserved` | `SuccessMeansWritten` |
| `WriteIsAtomic` | `ImplementsAtomicWrite` |

The strengthening of the first five has five parts. `Accounted`: the receiver cannot have read more
than was typed, which is why a receiver that has everything has nothing more to come. `Fed`: only a
receiver that got and verified the whole payload comes to the commit. `Honest`: `error` and
`replace_started` tell what the receiver did, but for the moment after `os.link`. `Marked`: markers
on the screen are true, and a receiver that errs about itself was interrupted by a client that does
not read it any more. `Clean`: the terminal is sane and empty behind a commit and behind a recovery
that succeeded; a probe that runs on changes none of that.

The last two need a second invariant, `Traced`. `Landing` ties `landed` and `seen` to where the
receiver is. `Turned` counts what it costs to turn a link away from the receiver and back, one
foreign change for each stretch. `Answered` says that a receiver that leaves with code zero has
deserved it. With them every step of `WriteFile` is one of `AtomicWrite`: `Link` and `Rename` are
`Land`, foreign changes are `Foreign`, the client's last step is `Answer`, and everything else is a
stutter.

`PaneRunProofs`, for any window sizes (the poll's no larger than the timeout's, that no larger than
the history) and any number of lines:

| theorem | property |
|---|---|
| `TypeCorrect` | `TypeOK` |
| `OutputIsComplete` | `CompleteOrError` |
| `PartialOutputIsPrefix` | `PartialIsPrefix` |
| `ErrorsHaveACause` | `NoSpuriousError` |

The argument is that each screen is a window onto one growing log. `Single`: a marker occurs once.
`InOrder`: the wrapper's lines follow one another, and where the shell is says which are there.
`Faithful`: a screen that shows the BEGIN marker shows everything that was printed behind it. What
the final capture cuts out is then all there is, and what a timeout finds is a beginning.

`ToolCallsProofs`, for any contents, chunks, limits, numbers of matches, foreign changes, faults and
cancellations:

| theorem | property | rests on |
|---|---|---|
| `DelimiterAlwaysFound` | `DelimiterEndsPayload` | `PayloadStreamProofs!DelimiterFound` |
| `CleanTransfersArrive` | `CleanTransferAccepted` | `PayloadStreamProofs!CleanTransferArrives` |
| `ReadsAreReal` | `ReadReflectsFile` | `RemoteEditProofs!ReadsAreReal` |
| `SearchesAreExact` | `SearchIsExact` | `SearchToolProofs!SearchesAreExact` |
| `WarningsAreTrue` | `AgentWarned` | in the module itself |
| `EditsAreExact` | `EditIsExact` | `RemoteEditProofs!EditsAreExact` |
| `OutputIsHonest` | `OutputHonest` | in the module itself |
| `CallsCleanUp` | `NothingLeftBehind` | `NoBufferLeft`, `NoProcessLeft`, and the module itself |
| `CallsTyped` | `TypeOK` | `TransferTyped`, `EditTyped`, `SearchTyped`, and the module itself |

A behaviour of `ToolCalls` is one of each machine with stutters, so what is proved of a machine
holds of it there. The invariants of the machines:

* `PayloadStreamProofs`: `Holding` (what was read is spooled or pending, contains no delimiter, and
  two symbols are held back once something is spooled) and `Accepting`; a delimiter in pending and
  the new part is one in the stream and the other way round, because two symbols are too few for it.
  `Clean`: without disturbance, what was read and what waits in the terminal are a beginning of
  payload and delimiter, and a beginning contains the delimiter only if it is the whole. `Dropped`:
  the only buffer is that of the piece in hand, or two things went wrong.
* `RemoteEditProofs`: `Known` (what the file was is in `past`), `Asked` (offset and limit of the
  request) and `Reading`: each byte that was assembled was held at its place by some file in `past`,
  and the size and the chunk are those of such files. `Verdict` ties what the edit concluded to what
  it had read. What it writes is `FlattenSeq` of one piece for each byte. `FlattenLayout` says for
  any sequence of sequences where each element of each piece comes to lie (`Offsets`); `HitsAre`
  that taking places from the left gives matches that do not overlap and leave none out; `ReplaceIs`
  puts the two together, with a count of the hits before each place. None of the four is proved by
  the library's induction theorems, which take an operator: `UpTo` is induction on a **set** of
  numbers, from the well-foundedness of the order on them (`WFMin`).
* `SearchToolProofs`: `Counted`, `Staged` (which process belongs to which stage of the helper, up to
  its exit, where the process has ended or was killed),
  `Blamed` (a process that was signalled was stopped for the limit or there is trouble) and `Enough`
  (a helper that stopped reading has all there is, or what it was asked for).
* In `ToolCallsProofs`, of the output, which has one step and needs no invariant: `DecodeSlice` says
  which characters come out of a part of the encoded text (those that begin and end in it, `Holds`),
  from `FlattenLayout` once for the encoding and once for the decoding; `TruncateHonest` applies it
  to the head and the tail and counts what is missing.
* In `ToolCallsProofs`, of the preflight: `Attended` (a child runs only while something waits for
  it) and `Noted` (what became of each child is what was noted about it).

**Only model-checked.** Liveness (`Answered` in both runs, `ConnectsEnd`, `WriteEnds`, `RunEnds`,
`CallsEnd`) and the fairness in `ImplementsLease`, whose step part is `LeaseKept`: fairness and
ENABLED are beyond the prover. Every other property of the passing runs is a theorem.

## What is not modelled

* A second server process at the same tmux server: `_connect_lock` does not reach it.
* The way from `connect` to the first call: a `pwd` that times out there keeps running in a
  connection that is registered as ready; `ConnectionSetup` ends before and `ConnectionLifecycle`
  begins after it.
* Programs that read the terminal and answer the recovery's probe in place of the shell.
* In `WriteFile`: changes of a file in place (others rename files and links), inode numbers, file
  modes, parent directories, the names of temporary files; base64 and SHA-256 are the bit `intact`.
* Updates lost between an edit's read and its write: the model has them (`RemoteEdit`), nothing in
  the code could notice them and no document promises it, so no property speaks of them.
* `last_error`, `cwd` and timestamps of a connection; `current_operation` follows from state and
  holder.
* Argument checks, command lines for ssh, tmux, rg and grep, the wording of errors and warnings, the
  parsing of base64 output (an error outcome of `RemoteEdit`): functions on strings without state.
* `contracts.py` and `_mcp_compat.py`: type declarations and glue for the MCP library.
* Packaging, plugin manifests, skills and documentation: they have no behaviour.

## Plan

The components that have behaviour are modelled, and every safety property of the runs is proved.
What is left, in order of use:

1. Setup and lifecycle composed: the first commands of a connection, with a leftover of the `pwd`
   that timed out.
2. Two server processes in `ConnectionSetup`: which of its properties survive that.
