# Formal models of terva

terva is a coding agent: a Go program that keeps conversations with a model,
runs the tools the model asks for under a permission gate, stores each
conversation in a session file, and shows one session to many clients at once
(a terminal, a browser, chat connectors, an RPC peer, a supervising process).
This directory holds TLA+ models of the parts where those clients, the agent's
own goroutines, several terva processes and failures meet, with TLC
configurations that check them on small instances and proofs that TLAPS checks
for every instance.

All paths below are under `src/packages/`.

## 1. The system

Each part is listed with the state it keeps, its operations, whom it talks to,
what is hard about it, and what makes it correct.

**Turn slot and pending queue** (`agent/workspace/workspace_session.go`). State:
`turnCancel` and `turnCtx` (the slot), `compacting`, the agent's `pendingQueue`
and single-flight guard, the persistence latch. Operations: `Prompt`,
`SubmitOrQueue`, `Queue`, `SetQueue`, `interruptTurn`/`cancelTurn`, `Compact`,
and the turn goroutine, which ends by starting the next queued text. Callers
are client connections, the chat host, the talkoot router and the turn goroutine
itself. Hard: claims race, a refused claim owns a text nobody else can see,
cancels and failed writes come at any point. Correct when at most one turn or
compaction runs, each text meets exactly one fate, nothing stale fires after an
interrupt, and a waiting text leaves the queue.

**Agent run loop and durable commit** (`core/agent.go`, `core/persistence.go`).
State: the live transcript and its revision, the session file, the latch, the
step, attempt and image counters. Operations: prompt, retry, advance, continue,
a directed line; inside a run the drain, condensing, the request, retry with
backoff, image recovery, commit, tool batch, close, withdrawal. Talks to the
provider, tools, the permission gate and the session store. Hard: an attempt is
in memory before anybody knows whether it will be abandoned, memory and file are
written at different moments, cancels and late approvals arrive in between.
Correct when memory and file agree between runs, no abandoned attempt is durable,
no tool acts without its reply on record or after a cancel, a cancel ends the run.

**Session lock** (`sessionlock/`, `filelock/`, `session/session_lock.go`, and
its callers in `session/`). State: a kernel lock on the transcript, a claim record
beside it, the transcript's directory entry. Operations: open, create, close,
lock and unlock by hand, archive, prune, delete. Several processes, no shared
memory, any of them may be killed. Correct when one actor writes, the record
names the holder or nobody living, deliberate claims hold until they lapse, and
the kernel lock is never kept by accident.

**Session store and revisions** (`session/session_walk.go`, `session/session.go`,
the verbs in `agent/workspace/`). State: rows of a file that only grows, the fold
that replays them, the live transcript, and on both sides two kinds of
alternatives: takes of the response that ends the transcript (the tail) and takes
of single messages (marks). Operations: prompt, regenerate, advance, continue,
post, edit, delete, swipe, prune, condense, clear, open. Hard: a verb computes the
live change and writes rows, and a load computes the same change a second time,
by other code, from positions counted in another transcript when the session is
windowed. Correct when live and replayed agree after any sequence of verbs, and
a cut between rows loses nothing that was shown.

**Compaction** (`core/compact.go`): summarises the transcript and keeps a tail.
Correct when no tool result loses its call and the durable row says what memory holds.

**Park table** (`core/park.go`): waiters for approvals and questions, by id. Used
by the RPC carrier, which mints its ids, and by the workspace's confirmation cards.
Correct when each waiter gets one answer and a release forgets only its own waiter.

**RPC carrier** (`agent/rpc.go`, `agent/rpc_questions.go`). One
agent behind a pipe. State: the line of turns, the cancel function of the turn that
is up, the parked questions and approvals, whether stdin has ended. Operations:
prompt, compact, abort, answer and dismiss a question, approve a call, the end of
stdin and of the process; inside a turn and beside it, asking. Talks to a client,
to tools and to calls of extensions that belong to no turn. Hard: an answer, an
abort, a dismissal and the end of the pipe meet at one wait; whom a question would
cancel is read before it is shown. Correct when turns run in their order and stay
in reach of an abort, an answer and a cancellation agree on who owns a question,
a dismissal cancels no later turn, and the process ends after its stdin.

**Permissions gate** (`core/permission`, `agent/permissions`): folds rules of
several scopes into allow, ask or deny. Correct when no narrower scope loosens a denial.

**Swarm** (`agent/swarm/`): background agents, each an entry in a table, a state
directory, a worktree on lease, an inbox socket, a child process and the goroutine
that runs it. Operations: spawn, stop with a grace period, stop all, finish,
remove, archive, resume, reload. Hard: the status is written by the runner and by
stoppers, callers judge by it, and the host may die between any two steps.
Its children outlive it. Correct when one process runs an agent's session, a lease
lasts as long as its runner and comes back, a record is never lost, a stop ends.

**Worktrees** (`agent/worktree/`): git's list of checkouts, their branches, and
a registry of who claims which and what it was branched from. Operations: create,
claim, release, remove, reclaim at an agent's end, bulk removal. Hard: git, the
registry and the people who edit are three writers; git may refuse or be unable to
count, the registry may not be writable. Correct when nothing unforced destroys work,
a live claim is not taken, and a failed create leaves nothing.

**Talkoot rooms** (`agent/talkoot/`, `agent/workspace/workspace_talkoot*.go`).
State: held deliveries, notes, pauses, chains with their hops, budgets, who is at
work; all of it again as lines in the room. Operations: post, send, dispatch with
the router unlocked, the session's reads and turn ends, pause, resume, caps,
replay, stop, roster update. Hard: a turn may end before the driver that started
it returns; lines may not be recordable; a restart owes what no line settles.
Correct when deliveries and notes are neither lost nor doubled, a working slot is
taken by a turn and only by one, and pauses survive.

**Chat loop and connectors** (`agent/chat/`), **control protocol**
(`agent/ctrlproto/`), **fleet, attach, tenants** (`agent/fleet`, `agent/attach`,
`agent/tenant`): other hosts of sessions and the wire between them. Correct when they preserve the order and the single turn
of the session behind them.

**Credentials** (`auth/`, `agent/authrefresh`, `secretstore/`): tokens refreshed by
several processes. **Council** (`vote/`, `agent/raati`): a tally of votes.
**Workers, workflows, extensions, MCP**, **tools**, **provider
clients**, **relaunch**, **user interfaces**: child processes, files, HTTP,
rendering; their state of interest to the core is what the models above take
from them.

## 2. Modules

| module | what it is |
|---|---|
| `PromptFate` | abstract: what a session promises about each text it is sent |
| `SessionTurns` | turn slot, pending queue, turn goroutine; implements `PromptFate` |
| `Lists` | what a slice of texts or deliveries holds, and the loop that keeps part of it |
| `SessionTurnsProofs` | `SlotSafety`, `TurnTypes`, `LatchKept`, `StaleNeverStarts`, `FateRefined` |
| `SessionLock` | kernel lock, claim record and the session operations around them |
| `SessionLockProofs` | `LockTypes`, `WriterExclusion`, `HolderNamed`, `NoneLeft`, `ClaimsKept` |
| `AgentRun` | one agent's runs, its live transcript and its session file |
| `AgentRunProofs` | `RunTypes`, `EffectsRecorded`, `CancelHonoured`, `AgreesWithFile`, `RepliesStandAlone`, `TakesItsOwnBack` |
| `Swarm` | an agent's instances, their runners, stoppers, leases, records |
| `SwarmProofs` | `RecordsKept`, `LeaseKept`, `OneAtATime` |
| `Worktrees` | checkouts, branches, registry and the people around them |
| `WorktreesProofs` | `TreeTypes`, `NoneStranded`, `WorkSurvives`, `ClaimsStand` |
| `TalkootRouter` | a room's router with its dispatch loops and its members' sessions |
| `TalkootRouterProofs` | `OnlyChainsRead`, `PausesOutlast`, `OwedOnce`, `SlotsGivenBack`, `NotesBothWays` |
| `Revisions` | the revision verbs on the live transcript and on the folded file |
| `RevisionsProofs` | `FileAgrees`, `LiveReplayed`, `SwipesOnFile`, `ShownSurvives`, `EditsKept`, `AuthoredStays` |
| `RpcCarrier` | the line of turns of a piped agent, its questions and approvals |
| `RpcCarrierProofs` | `TurnsInOrder`, `AbortReaches`, `AnswersAgreed`, `CancelStopsTurn`, `CancelsOwnTurn` |
| `MC*` | constants and symmetry for TLC |

The models meet at small interfaces. `SessionTurns` sees a run by what it
leaves behind (recorded texts, kept output, an error); `AgentRun` looks inside
one run and sees the queue as a number of texts and the file as a sequence of
messages; `SessionLock` says who may write that file. A turn of `SessionTurns`
between `record` and `release` is a run of `AgentRun`; a row that `AgentRun` saves
is an `Append` of `SessionLock`. `Revisions` takes a turn as one step with its
possible ends, because a verb excludes turns, and looks at what many verbs leave
behind. `TalkootRouter` has a session reduced to its slot, its queue and its
turn ends, as `SessionTurns` has them; `Swarm`'s leases are `Worktrees`' claims.
`RpcCarrier` hosts an agent without a session's slot: its line takes the slot's place,
and its turn is a run of `AgentRun` reduced to where it looks at its context.

### SessionTurns

A goroutine is a member of `Threads`, with a place (`pc`) and what it carries
(`th`). One step is what runs under one hold of `wsSession.mu`, or of the agent's
mutex; every point where the code lets go of a lock is a place where others get in.

| model | code |
|---|---|
| `turn`, `compacting`, `running` | `turnCancel # nil`, `compacting`, the agent's single-flight |
| `queued`, `perr`, `log` | `pendingQueue`, the persistence latch, user messages of the transcript |
| `Prompt`, `SubmitOrQueue`, `Queue` | how each client's claim begins, and its fallback |
| `EnqueueOrStart` | `queue()` under `s.mu`: append behind a busy session, or start the head |
| `BeginTurn`, `Refused`, `Requeue`, `ChatQueue` | `beginTurn`, and the three ways a refusal is handled |
| `PreTurn`, `RecordPrompt` | `PromptWithPolicyExtra` up to the recorded prompt |
| `Boundary`, `taken`, `Inject` | a safe boundary of `runLoop`: the latch, the drained queue, then its texts one by one (`appendQueuedAsUser`), without another look at the latch |
| `Step`, `Close`, `Release` | a request with its tools, the end of the loop, withdrawal |
| `EndCheck`, `EndTurn` | `endTurn` before and under its lock, with the restart |
| `Rest` | a turn that came back clean and starts no other may condense |
| `CompactAfterTurn`, `Summarize`, `EndCompacting` | compaction around the slot |

`gone` and `stale` are history: how a text left other than by being recorded, and
which texts were waiting when a turn was interrupted. `Faults` names what
the environment may do: a failing request, a guard that rejects, a failing write,
a compaction before the turn, a request that is too large, a closing workspace.
Not modelled: routed turns and the revision verbs (retry, clear, edit), which
claim the slot in the same way; titling and broadcasting; the branch of
`promptBlocks` for a busy agent, which `OneAtATime` shows is not reached. The text
a terminal shows as queued (`MirrorQueue`) is a copy; an edit (`SetQueue`) writes
the copy back.

### SessionLock

An actor is one door of one process: it runs one operation after another, one
file operation per step. `guard` is the kernel lock (dropped by the kernel when
its process dies), `rec` the record with its kind, its writer and its age,
`file` the directory entry. `Begin` starts an operation (`New`, `Replay`,
`ClaimSession`, `UnlockSession`, `Prune`, `ArchiveSession`, `DeleteSession`);
`Probe`, `Flock`, `Judge`, `Stamp`, `OpenHandle` are `Acquire` step by step;
`CloseWriter` to `Tidy` are `Handle.Release` and `Session.Close`; `Unprobe` to
`Abandon` are the probing and sweeping callers. A row or a claim may fail to be
written ("disk": a creator whose first row fails lets go like one that closes), and a
file may fail to be removed ("unlink"), which most callers do not look at. `Age` lets three heartbeats pass
and then the time to live. Not modelled: Windows, filesystems that ignore locks,
other hosts, reuse of process ids, restoring an archive, retention, listing.

### AgentRun

`live` and `disk` are sequences of messages (an id, a role, a number of calls);
`disk` is what a reload folds the file to, so an amend that retracts or
replaces a row is what it does to that fold. `Save` is a durable write: it lands,
or fails, latches and may have landed in part, or is skipped after the latch. `Note`
is one that adds no message (the rows of usage and of retries) and may latch all the same.
`ran` is the set of tool calls that had their effect. The run thread goes
`top` (`Drain`), `condense`, `ask` (`Attempt`), `judge` (`Recover`, `Retry`,
`Commit`), then the batch (`Dispatch`, `Allow`/`Refuse`/`Unpark`, `Execute`,
`Results`) or the `Close`, and always leaves through `Finish`. Persons queue,
edit the queue, cancel, answer approvals at any moment; `Crash` reloads from
`disk`. Messages carry no text: a reply is new, merged onto the last one, or
absent. Not modelled: the repair of unmatched tool pairs when a request is built
(it changes no state kept here), the resume window, extension guards, image
mirrors; edit, delete and swipe are in `Revisions`. The retry of an oversize
request is in `SessionTurns`.

### Swarm

An instance is an agent with a number: a spawn, a revival or a reload gives the
table's entry (`listed`) a new one. Each instance has a status, a run goroutine
(`run`), a context, a child, a lease and at most one stopping goroutine.

| model | code |
|---|---|
| `made`, `listed`, `files`, `archive` | `Swarm.agents`, the state directory, the archived record |
| `SpawnReq`, `SpawnFails` | a spawn; one that fails after it has its lease |
| `Begin`, `Return`, `Finish` | `Swarm.runAgent`: running, the runner's return (with no end logged when the start failed), the lease back |
| `child`, `Listen`, `Ends` | `runner.go` and the child: it boots, listens on the inbox, ends in order or not; or it never started |
| the stopping goroutine: send, wait, cancel, finish | `Swarm.Stop`: shutdown on the inbox, the grace period, the context, the lease |
| `toStop`, `closing` | `StopAllAndWait` |
| `Remove`; `Archive` and `DropSource` (`dropping`) | `Remove`, `archive.go` with `retention.go`: by status alone, nothing waited for, no lock between the record and its source |
| `ResumeCheck` and `ResumeStart` (`resuming`) | `ResumeIn`: the status, then a new instance |
| `HostRestarts`, `Orphan` | the host's death: its goroutines and contexts go, the children that work stay as nobody's; and `Reload`, which lists what is on disk as ended |

`sock` says whose process listens on the agent's inbox: a shutdown may be read by
another instance's, and a process that ends in order unlinks the socket whoever has it
by then, an orphan too. `AwaitExit` is the caller's habit: the talkoot waits, under a
member's lock, for the entry's `done` before it revives an agent; a person at the terminal
need not. In an entry that `Reload` made, `done` is closed from the start. The lease of
an orphan reads as a stale claim to the worktrees, so its tree can be handed out or
reclaimed under it. Not modelled: input to a running agent and the reuse of inbox
connections, budgets, hooks, transcripts, retention by age (each of its steps is an
archive or a removal), the wait for a child's pipes to end (`runner.go:445`, one
step with its exit), a status file that cannot be written.

### Worktrees

Every operation holds the repository's lock, so it is one step, and what matters
is what happens between two. `tree` is git's list ("gone": only the directory is
missing), `branch` and `pushed` count commits past the repository's head on the
branch and on its upstream, `head` says whether the checkout is on its branch or on an
older commit, `broken` where git cannot count commits, `base` is what the registry
recorded, `claim` its claim with whether it still counts. `Create` reuses, adds, fails to
write the registry and undoes, which git may refuse, or dies; `Release` writes only
when there is a claim; `Remove`, `Reclaim`, `SweepList` and `SweepOne` go through one
`RemoveEntry`. What a removal asks is measured at HEAD (`Unmerged`), what it deletes is the
entry's branch. `Edit`, `Commit`, `Push`, `Checkout`, `Break`, `Vanish` and `Prune`
are the people, agents and git around, and are external. Not modelled: listing, detail and
diff, paths and names, the lock file itself, entries of old registries without a base.

### TalkootRouter

The room's lines and the router's memory are two books of one shape: `room` is what
a replay would rebuild, `live` what the router holds. An envelope is a member, a
chain (its root), hops, and whether it wakes. A dispatch loop (`loop`) goes claim,
drive with the router unlocked, settle; a member's session has a slot, a queue, open
turns and a turn on its way to report. `told`, `unsaid`, `unlined`, `late`, `leaked`
are history. Both drivers of the code read at boundaries, so the branch for drivers
that do not is dead and left out; the worker driver is left out too. One
ordering is left out and named here: the report of a turn overtaken by the
whole of the next. `Report` is one step although the member stops counting as busy
(`nativeTurn`) one lock hold before the router hears of it. Not modelled: proposals, roster edits, threads, citations,
money caps, mentions.

### Revisions

The file is kept as what `walkSession` folds it to (`disk`): the message list, the
tail span with its takes, the marks. A row is an operator on that record, one for
each branch of the walk: `MessageRow` (`MessageRows` for a run of them), `CompactionRow`, `ReplaceRow`,
`ReplaceVariantRow`, `MsgSelectRow`, `SealRow`, `DropTakeRow`, `DeleteRow`,
`RetractRow`, `SelectRow`. A verb is an action that computes the live side as the
verb does (`live`, `tail`, `marks`), and appends its rows with `Write`: all of them,
or, where "write" is allowed, a part, which latches the session. A prompt, a reply, a merge,
a compaction and what a regenerate cuts are in memory before their rows, and stay there when
these fail; a posted line, an edit, a deletion, a swipe write first (`Then`). `Open` is a load
with its window (`TrimMessagesForResume`), its seeding of tail and marks, and the
card's greeting that stays off the file until the first row (`pending`).

Abstractions: a message is a number and who spoke; a verb with its turn is one
step (`revisionGuard` and `beginTurn` exclude each other); a turn yields one
reply or none; a compaction inside a turn comes before its prompt; after a latch
the session refuses every verb until it is loaded again. Not modelled: tool messages and the repair of
their pairs, which make a window's mapping inexact and the verbs refuse (`reviseInexact`,
so `diskIndex` always answers); truncate
amends, which nothing writes; forks.

`Mixes` says what may be done to one session: a set of verbs and circumstances,
chosen at the start. `RevAgree` has six mixes. Verbs are apart only where the code
disagrees with itself when they meet (section 5): compaction and clear are not
with a card's openings or a long window across a reload, a turn's own compaction not
with edits, a directed line not with a regenerate or an edit across a reload, and the
deletion of the author's own message not with a regenerate. Two mixes have no
failing writes: a condensing prompt that is cut has rightly removed messages, and a
cut flush of openings leaves takes that a later load takes up.

### RpcCarrier

| model | code |
|---|---|
| `line`, `join`, `leave` | `rpcTurnQueue`; the place is taken on the read loop, the wait is on the turn's goroutine |
| `at` | where a turn's goroutine, or an extension's call, is |
| `extReady`, `awaitExtensions` | a turn waits for the background start of the extensions, or for its own context; the end of the pipe does not cut the wait |
| `active`, `cancelled` | `activeCancel` (the turn whose function it is), functions that were called |
| `asks` | `pendingQuestions` and the park table's channels: owner, answer, frames out, result |
| `reader` | the read loop inside a command: calling what an abort took, between the claim of an answer and its frames, cancelling claimed questions one by one, closing, draining |
| `closed`, `over` | the connection's closed signal, the process's context |

A question's wait (`Hear`, `GiveUp`) picks whichever is ready of its answer, its own
cancellation, its caller's context, the process and the connection, in any order, as
the `select` does; an approval's (`Hear`, `Deny`) has no owner to consult. Steps that
hold `questionMu` are one step, except an answer, which keeps the lock while it
writes frames (`Unlocked`). A wait that claims its own cancellation and calls the
function is one step, and so are the parking of a question and its frame. Not
modelled: the handshake and who may answer, the shape of answers, switching models
and clearing, the approvals of an MCP client, which resolve in the carrier's stead.

## 3. What TLC checks

Passing runs. Sizes are distinct states.

| run | question | states |
|---|---|---|
| `TurnsRace` | `OneAtATime`, `NoStaleStart`, that every step is a step of `PromptFate` (`FateSpec`), and that after a failed write the queue is left alone (`LatchStops`), with every fault | 288,170 |
| `TurnsLive` | `QueuedLeaves`: a text behind a turn or compaction leaves the queue, also while a client edits it | 18,220 |
| `LockRace` | `OneWriter`, `NamesHolder`, `ClaimHonoured`, `NothingLeft`; `GuardFreed`: the kernel lock is let go of | 1,467,003 |
| `RunDurable` | `LiveIsDurable`, `OneReplyEach`; `CancelEnds`: a cancelled run ends, even before an unanswered approval | 1,599,543 |
| `RunEffects` | `EffectOnRecord`, `NoLateEffect`, `WithdrawsItsOwn`, all five verbs | 4,488,538 |
| `SwarmLife` | `OneRunner`: a host runs one process of an agent, beside those a dead host left; `LeaseLasts`, `RecordKept`; `StopEnds`: a stop ends and the lease comes back | 452,593 |
| `TreesWork` | `OwnWorkKept`: what a checkout on the disk has, no unforced operation takes; `ClaimStands`, `NothingStranded`; deadlock is checked | 5,604 |
| `RouterRace` | `NotesCounted`, `ChainWasRead`, `SlotsAgree`: a working slot has a turn and is used, two exceptions apart | about 1,470,000 |
| `RouterLines` | `OwedIsPending`, `PausesSurvive` | about 1,460,000 |
| `RevAgree` | `LiveIsReplayed`, `SwipesAgree`, `ShownIsOnFile`, `EditKeepsOriginal`, `AuthoredKept` | 2,135,342 |
| `RpcTurns` | `InOrder`: turns run one at a time in the order of their commands; `InReach`, `AnswersAgree`, `NotIntoLiveTurn`, `OwnTurnOnly`; `ReleasedEnds`: a cancelled turn ends, and the process after its stdin | 927,334 |

`RunDurable` checks its module's `TypeOK` as well; that of every other module holds on an
instance of its runs when it is added there.

Bounds. `SessionTurns` has two goroutines (one that holds the slot, one
that races it; a restart is the first going on) and three texts, one of them a
delivery: enough for a queue with an order while a third text is carried. The
step limit `MaxSteps` is 2 so that a boundary after the first step is
reached, and the one after the last. `MaxPops` bounds how often a client edits
the queue. `SessionLock` has two doors in one process and one in another:
the two cases `refuseByRecord` tells apart; `MaxRows` is 1 because a
transcript matters to the lock only as empty or not (2 where staleness is
asked). `AgentRun` has two runs (`MaxRuns`), so that a run finds what an
earlier one left, two steps, one retry, one image, one call per reply,
a text queued while there is at most one message (`MaxTexts`), and a
compaction tail of one message (`KeepTail`), which makes every transcript of two
messages a candidate for condensing.

`SwarmLife` has one agent (agents share only the list of `StopAllAndWait`), two
instances of it, and one death of the host. `TreesWork` has one name and two owners: no operation
relates two names, and the theorems hold for any number. It has two commits, so that a branch
can be resumed past the repository's head, or its checkout go back, and work be added.
`RouterRace` has two members, two loops and three envelopes, one working
slot to fight over, one turn that a person starts; `RouterLines` two envelopes,
one line that fails, one restart and one person's pause, with stop, update, caps
and a new day. `RevAgree` has seven messages, a transcript of up to four, three
takes of a position, a window of three, two openings: enough for an edit of an
edit, a drop of the middle take, a delete below both kinds of alternatives, and
a reload in between each. `RpcTurns` has up to three turns, each of them a compaction or not, so that two can
wait and who comes next is a choice, and a late cancellation could meet the wrong one; one
extension's call; and up to two asks, each a question or an approval, so that two questions
are cancelled one after the other, or one waits on while the turn that shared it ends.
`MaxCalls` is 4: three turns with one ask, or two turns with two. Names, owners, members and loops are symmetric.

The deadlock check is on where the system may always go on (the worktrees); elsewhere
every process may have been killed, a latched session stops, or a bound is used up.

What the passing runs leave out on purpose, because the code does not keep the
property there (section 5): in `TurnsRace`, edits of the queue and the oversize
retry; deliveries, where a compaction before the turn is cancelled (`DeliveryKept`);
`LockRace`, files that cannot be removed (`"unlink"`), since a record that stays is what
`NothingLeft` denies: with that fault too, `OneWriter`, `NamesHolder` and `ClaimHonoured` are
theorems, and hold on the run's instance (2,900,802 states);
`RunDurable` has prompts and retries only and a queue nobody empties;
`SwarmLife` has revivals that wait (`AwaitExit`), and `OneRunner` sets apart what
an earlier host left; `OwnWorkKept` sets apart checkouts that are gone, branches HEAD is not
on, and commits git cannot count or that lie before the base; `RevAgree` has the mixes above.
`TurnsLive` has no client that asks for a compaction again and again, which could
starve the queue for ever.

Fairness. `SessionTurns`: weak fairness of each goroutine's own steps (`Work(t)`):
a runnable goroutine runs, requests end because they carry a context and a
timeout; no client is required to do anything. `SessionLock`: weak fairness of
each actor's next file operation while its process lives, closing included.
`AgentRun`: weak fairness of the run thread; timers fire, requests end; nobody
owes an answer to an approval, so `CancelEnds` rests on the wait watching the
context. `Swarm`: weak fairness, per instance, of the run goroutine, of the
stopping goroutine, and of a killed child's exit; the grace period is a timer. A
child owes nothing to a polite request, and no caller has to act. `RpcCarrier`: weak
fairness of the commands the read loop has begun, and of each turn's goroutine with
the waits it is in, and of the extensions' start, whose handshakes have a timeout; a
model call ends; no client owes a command or an answer, so
`ReleasedEnds` rests on what cuts the waits. `Worktrees`,
`TalkootRouter` and `Revisions` claim safety only.

Every property of a passing run has a mutant: a plausible slip in one definition
(written beside it under the word Mutant) under which TLC finds the property
violated in the same configuration.

## 4. What is proved

Theorems hold for every value of the constants under the modules' named assumptions
(`TurnAssumption`, `LockAssumption`, `RunAssumption`, `SwarmAssumption`,
`TreesAssumption`, `RouterAssumption`, `RpcAssumption`): bounds are natural numbers,
`None` is nobody. They hold for any number of goroutines, texts, processes, runs, calls,
instances, checkouts, members, loops, turns and questions. One assumption limits
more than a bound: a room's `Members` and the calls it has in flight (`Loops`) are
finite, because its slots and the notes its calls carry are counted.

A theorem with a further hypothesis names it: `NoEdits`, `NoRetries`, `PromptsOnly`,
`AwaitExit`, `Apart`, no "unlink" fault. Each is there because the code does not keep the property without
it, and section 5 has the run that shows so; where a hypothesis excludes more than
those runs need, the text below says it. Of the 34 safety, action and refinement
properties that passing runs check (each module's `TypeOK` apart), all are theorems.

**SessionTurns.**

* `SlotSafety` (`OneAtATime`). The claim needs that a goroutine in the
  agent's run or summary, and only it, holds the agent's guard; `SlotInv` adds
  that to the slot's own bookkeeping.
* `TurnTypes` (`TypeOK`) and `LatchKept` (`LatchStops`), from `DataInv`: who is
  past its claim carries a text. A boundary and `endTurn` look at the latch before they
  touch the queue. The texts of one boundary are recorded without another look: what it had
  taken when a write failed still enters the transcript, in memory, and `LatchStops` says
  that nothing else does.
* `StaleNeverStarts` (`NoStaleStart`, under `NoEdits`). `HeldInv` says a text is
  unsent, queued once, taken once by the turn at a boundary (`TakenInv`), or one
  goroutine's. `StaleInv` says what keeps an
  interrupted text from starting: it waits behind a turn that will end as failed,
  or the session is latched. An edit writes back a copy of the queue, which
  may hold a text that has started since, and then `HeldInv` is false.
* `FateRefined` (`FateSpec`, under `NoEdits` and `NoRetries`): every step is a
  step of `PromptFate` or a stutter under the mapping of `Pending`. `FateInv`
  says that unsent, pending, recorded and gone texts are apart, and `AloneInv`
  that a prompt withdrawn as alone is the last of the transcript. The second
  recording of an oversize request (`TurnsOversize`) and the text an edit puts
  back (`TurnsEdit`) are not steps of `PromptFate`.

**SessionLock.**

* `LockTypes`, `WriterExclusion`, `HolderNamed`, `ClaimsKept`. `LockInv` says
  which places hold the kernel lock, that the holder is unique, what the record can
  say while somebody is past `Judge`. `ClaimHonoured` follows because the record
  cannot change between `Judge` and `Stamp` except by `Age` or a removal.
* `NoneLeft` (`NothingLeft`). `LeftInv` adds that a deliberate claim being made
  lets go of the kernel lock only when the record is no longer automatic. It assumes that
  no removal fails; the other four do not.

**AgentRun.**

* `RunTypes`, `EffectsRecorded`, `CancelHonoured`. `RunInv` adds to the types that
  a kept attempt is the last live message and carries the counted calls (`KeptInv`),
  that during a batch the reply that asked for it ends the live transcript and
  is on disk (`BatchInv`), and that a wait or a gate is inside its bound.
  `EffectOnRecord` alone is not inductive: it needs `BatchInv`, which needs `KeptInv`
  at the commit.
* `AgreesWithFile` (`LiveIsDurable`, under `PromptsOnly`). `DurInv` says that
  without a latched failure the file is the live transcript short of the
  attempt in doubt, and that a request always goes out on a message that is not
  the agent's own (`TurnInv`), so that what a retry drops is the attempt.
  `PromptsOnly` (prompts and retries, a queue nobody edits) is needed: see
  `RunAbandoned`, `RunUnqueued`, `RunContinued`.
* `RepliesStandAlone` (`OneReplyEach`, under `PromptsOnly`): `DurInv`, and that no
  step puts a reply behind a reply in the file, failed and partial writes included.
* `TakesItsOwnBack` (`WithdrawsItsOwn`, for every verb). `OwnInv`: as long as nothing
  touched the transcript, the prompt that began the run is its last message.

**Swarm.** `SwarmInv` is types, that an instance no stop marked is called unfinished
while it is queued or runs, what process each place of a run goroutine can have
(`ChildInv`), that the table has the latest instance or none, and who
can have given a lease back. It gives `RecordsKept` (`RecordKept`) and `LeaseKept`
(`LeaseLasts`). `OneAtATime` (`OneRunner`, under `AwaitExit`) needs `LastOnly`: only
an agent's latest instance has work of this host, and none while a revival that waited
is between its check and its start. Processes of an earlier host are outside it: `SwarmOrphan` has two of them at once.

**Worktrees.** `TreeInv`: types, `NothingStranded`, and that only a checkout that is
there is dirty, since a removal looks for changes only there. From it `TreeTypes`,
`NoneStranded`, `WorkSurvives` (`OwnWorkKept`) and `ClaimsStand` (`ClaimStands`). `WorkSurvives`
is about what the code measures, a checkout's HEAD against its base and upstream, and not
about every commit: the rows of `TreesReclaim` in section 5 show commits a removal does lose.

**RpcCarrier.** `RpcInv` has five parts. `LineInv`: who waits in line is what has joined
and has not begun, in the order of joining. `ReachInv`: the active cancel function
is that of a turn that is up. `WaitInv` and `OwnerInv`: a caller waits for one ask, and
what its state says of its answer, its frames and its turn's context. `ReaderInv`:
what the read loop's current command has claimed. They give `TurnsInOrder` (`InOrder`),
`AbortReaches` (`InReach`), `AnswersAgreed` (`AnswersAgree`), `CancelStopsTurn`
(`NotIntoLiveTurn`) and `CancelsOwnTurn` (`OwnTurnOnly`). An extension's question belongs to
the turn that was active when it was asked: dismissing it cancels that turn, and no
other.

**TalkootRouter.** `Base` types both books, loops and sessions, and `OpenInv` says that
the driver counts the turn that runs and the one that has not reported. With them
every action is reduced to what it does to the parts an invariant speaks of, and five
invariants are proved beside them.

* `OnlyChainsRead` (`ChainWasRead`). `ChainInv` has it for both books: an envelope
  enters a chain only by a read, a line for it, or a replay of that line.
* `PausesOutlast` (`PausesSurvive`). A cap trips again in a replay only if its count
  of turns is not behind the router's, so `PausesInv` adds that to the property.
* `OwedOnce` (`OwedIsPending`). `DueInv` says that an owed envelope is in one place
  only, in the room's book, and once in each list; `Route` and `Without` keep that.
* `SlotsGivenBack` (`SlotsAgree`). `TurnInv` names who gives back a slot that
  counts as taken: a session that is not idle, a turn to be run again, a report to
  come. `UsedSlots` is that nothing waits while a slot is free, except between a
  step that frees one and its release (`due`), and after a pause that came late.
  The theorem has two exceptions: a member whose last turn never ran keeps its slot
  until its next one ends (`leaked`), and after a late pause a free slot may go unused
  (`late`, until the next release): `RouterIdle` shows that it does.
* `NotesBothWays` (`NotesCounted`). `CountInv` is the property over a sum that can be
  reasoned about: `Balanced` says, for the one call whose notes a step moves, what the
  two books and that call gain and lose, and `OneLoad` that the other calls carry the
  same. It shows too that a delivery line never asks the room for more notes than it
  has, so the clamp in `Settled` is never met while `unsaid` is empty.

**Revisions.** The prover's view of a session is two records, what is shown (`live`,
`tail`, `marks`, `base`) and what the file folds to (`disk`). All six theorems assume
`Apart(verbs)`, what may be done to the session:

| `Apart` | why |
|---|---|
| no card | openings that wait for the first row share the tail with it; `ClearedMixes` breaks. The mix `Cards` agrees and is not proved |
| a long window without compaction, clear or condensing prompts | `RebaseMixes`, `RevHead`: the window's offset outlives the file it was counted in |
| no deletion of the author's own message with an edit, nor with a regenerate | `MarkMixes`: with edits it breaks, regenerates or not. With regenerates and no edits no disagreement is known |
| no condensing prompts with edits | `CondensedMixes` |
| no authored lines across a reload with an edit, nor with a regenerate | `LineMixes`: with edits the two sides disagree, with a regenerate `AuthoredKept` fails, the others are not known to |

The other five mixes of `RevAgree` satisfy it, and so does any part of one.

* `FileAgrees` is the inductive invariant `IInv`. `Goods` is the set of files their own rows
  can leave: the tail's takes hold nothing the author wrote; a mark has at least two
  takes, the chosen one stands at its place, and something authored follows it.
  Without a latch, `Synced` says that live and file agree: the live messages are the
  file's from the window on (`Shows`), each mark in the window is the file's, as many
  takes and the same choice (`MarksSync`), and a tail that is up is the file's moved by
  the window, its takes those a seal would leave (`TailSync`). `LiveIsReplayed`
  alone is not inductive, because a swipe, a drop or a delete reads takes and marks
  that nothing on screen shows. Each row is proved to keep a good file good
  (`MessageRowGood` and its kind), and each verb's live side to be what its rows fold to.
* `LiveReplayed` (`LiveIsReplayed`) and `SwipesOnFile` (`SwipesAgree`) follow from `Synced`.
* `ShownSurvives` (`ShownIsOnFile`): a write that fails leaves what was shown when its verb
  began in the file's list, in a take, or in a mark (`Saved`). It cuts a verb's rows
  anywhere, so each prefix of them is shown to keep that. What the verb itself had just put
  on the screen, a prompt or a reply whose row failed, is in memory only and not
  claimed (section 5). The theorem assumes that writes fail only if no prompt condenses
  first: a condensing prompt replaces messages by their summary, on file too, so a
  write that fails behind it has rightly lost them. No mix has both.
* `EditsKept` (`EditKeepsOriginal`): the step's own takes, read through `Synced`.
* `AuthoredStays` (`AuthoredKept`): what a swipe or a regenerate cuts is the model's,
  because a tail's span and takes hold nothing authored. `LineMixes` is where it fails.

**Recursion.** What `split` leaves in the queue (`Filter`) and what `routeLocked` sends
out (`Route`) are recursive functions on a count. The library's induction is out of the
prover's reach (it takes an operator), so `SessionTurnsProofs` and `TalkootRouterProofs`
begin with `CountUp` (a set that has 0 and with each number the next has all up to a
bound), proved from the least element of a set of naturals, and with the lemmas on
`Lists` each needs: that such a function exists (`Continued`) and what `Filter` keeps
(`FilterFacts`). The sum over the calls is `FoldSet`, recursive on a
finite set: counting up to its size shows that the function it chooses exists
(`SumTable`) and that any addend can be the last (`SumPart`, `TotalFacts`).

**Only model-checked.** Liveness (`QueuedLeaves`, `GuardFreed`, `CancelEnds`, `StopEnds`,
`ReleasedEnds`): out of the prover's reach. `TypeOK` of
`TalkootRouter` (`Base` has its types, not all its other conjuncts) and of `Revisions`
(`IInv` types transcript and file, not the bounds). And the mix of `RevAgree` with
a card's openings (`Cards`): `Apart` excludes it, so its agreement is known for the sizes
of the run only.

## 5. Where the code does not keep its word

One listed run ends in a counterexample to what a comment of the code says.
`LockStaleReplay` (`InSync`): a session is replayed before its lock is taken; rows
another process writes in between are missing from memory, and later amends count
against the wrong transcript.

Further counterexamples are kept to be run by hand
(`tlc -config <name>.cfg <MC module>`). A row without a configuration of its own
names the one to take and what to change in it.

| configuration, property | what it shows |
|---|---|
| `TurnsDelivery`, `DeliveryKept` | a cancel during the compaction before a turn loses the talkoot delivery that started it: it is neither in the transcript nor in the queue |
| `TurnsStranded`, `NothingStranded` | a refused restart requeues its text after the turn that beat it has ended; the text waits in an idle session |
| `TurnsLateInterrupt`, `NoStaleStartEver` | an interrupt between `endTurn`'s verdict and its lock is accepted and the follow-up fires |
| `TurnsOrder`, `InOrder` | a text that lost the slot is appended behind later ones |
| `TurnsUnsent`, `UnsentInputKept` | a latch set between claim and record loses the text |
| `TurnsEdit`, `RecordedOnce` | an edit from an old copy of the queue puts back a text a boundary has read |
| `TurnsOversize`, `FateSpec` | the retry of an oversize request records its text a second time |
| `LockUnlinked`, `WritesAreReachable` | archiving probes the lock and removes the file later; a process that opens it in between writes to an unlinked file |
| `LockUnlinked` with `BusyMeansOpen` | an opener that meets a probe is told of a holder there is not |
| `LockUnlinked` with `Ops = {"open", "lock"}`, `ClaimOutlives` | a release removes the record it read before a deliberate claim replaced it |
| `LockRace` with `Faults = {"unlink"}`, `NothingLeft` alone | a record that cannot be removed names a living process that has let go, and refuses others until its heartbeat is stale |
| `LockUnlinked` with `Ops = {"open"}`, `NeverUnflocked` | between a release's two steps an opener is told its filesystem ignores locks |
| `RunAbandoned`, `AbandonsOnlyAttempts` | an advance asks on the agent's own recorded reply; if the attempt fails before it kept anything, the retry drops that reply |
| `RunUnqueued`, `AbandonsOnlyAttempts` | a queue emptied between close and drain sends a request on a recorded reply, and a retry drops it |
| `RunContinued`, `LiveIsDurable` | a continue run retries over a reply with calls and neither drops nor commits it |
| `RunShifted`, `LiveIsDurable` | a compaction inside a continue run moves the index its merged message is stored at |
| `SwarmRevive`, `OneRunner` | a caller that revives a stopped agent by its status runs a second process while the first drains |
| `SwarmOrphan`, `LastEnded` | a child outlives its host, `Reload` lists its agent with a closed `done`, and the wait before a revival ends at once ("waits for the last process of member's seated worker to end", `workspace_talkoot_worker.go:424`): two processes have one inbox, which the second takes over, and one conversation, whose lock the first holds, an error `swarm_agent.go:70` drops |
| `SwarmLateStop` with `LeaseHasAgent` as an invariant | a spawn that fails after it has its worktree gives it back to nobody ("Release is called exactly once when the agent reaches a terminal state") |
| `SwarmLateStop`, `StopSticks` | an agent stopped before its goroutine was scheduled is shown as running again |
| `TreesReclaim`, `ReclaimLosesNothing` | a resumed branch's own tip becomes its base, so an earlier owner's commits count as merged and a reclaim deletes the branch |
| `TreesReclaim` with `NeverCommitted` | a reclaim counts commits at HEAD and deletes the entry's branch: a checkout that went back to its base has none to count, and its branch goes with the commits on it ("deleted only when this worktree positively never committed anything", `worktree.go:713`) |
| `TreesReclaim` with `GoneRefuses` | an unforced removal of a checkout whose directory is gone asks nothing and deletes its branch with unpushed commits |
| `TreesReclaim` with `Faults = {"count"}`, `MeasuresFirst` | a reclaim takes an error of `git rev-list` for no commits and deletes the branch ("Every path that cannot measure leaves it alone") |
| `TreesReclaim` with `SweepSparesLive` | a bulk removal takes a worktree claimed since it was listed |
| `TreesReclaim` with `HandedOutIsThere` | a checkout whose directory was deleted is handed out again |
| `TreesReclaim` with `Faults = {"refuse"}`, `ForgottenIsGone` | the registry forgets a checkout git refused to remove |
| `RouterNotes`, `NoNoteLost` | two loops deliver to one member; the line of the first to settle takes notes off by number, and those may be the other's, which a crash then loses |
| `RouterIdle`, `NoIdleHold` | a delivery a late pause stops gives up its slot and nothing is released: another waits with nobody at work |
| `RouterIdle` with `MaxEnv = 3`, `MaxPaused = 0`, `SlotsBounded` | the report of a member's first turn counts as the end of the one a second loop is just starting; the slot is given to another member, and both work |
| `RouterCaps`, `CapsComeBack` | a cap's pause whose guard line could not be recorded is gone after a restart on the next day |
| `RouterCaps` with `Inputs = {"stop"}`, `MaxFails = 0`, `NothingLostAtStop` | a shutdown loses a delivery that was queued behind a running turn |
| `RevHead`, `WindowMapped` | a long session resumed behind its compaction summary has the summary at index 0 and the window's first message, on file at `start`, at index 1, while `Base` is `start` (`agent/build/wiring.go`): `diskIndex` answers one too many, so edits, deletes, regenerates and swipes are replayed on the message after the one meant |
| `RevHead` with `RebaseMixes`, `LiveIsReplayed` | the window's offset outlives the clear or compaction that rewrote the file it was counted in ("Set in buildSession, then immutable") |
| `RevHead` with `MarkMixes`, `LiveIsReplayed` | a regenerate drops the live marks behind it and the fold keeps them; a later mark at that place differs ("so the two halves cannot answer differently again") |
| `RevHead` with `CondensedMixes`, `LiveIsReplayed` | a compaction inside a turn leaves the live marks; a swipe at one replaces the summary in memory only |
| `RevHead` with `LineMixes`, `AuthoredKept` | after a reload the tail spans a line the author posted ("a fresh, non-swipeable tail"), and a swipe discards it |
| `RevHead` with `ClearedMixes`, `Openings = 2`, `LiveIsReplayed` | a checkpoint in the file does not end the tail's takes ("variant history (tail and message-scoped) collapses"); openings seeded after a clear and a reload fall into the old ones |
| `RevAgree` with `NewIsOnFile` as an invariant | a prompt or a reply is in memory and on screen before its row is written (`agent.go:1306`, `2648`), and stays when the write fails |
| `RpcTurns` with `NeverIntoLiveTurn` as a property | at the end of stdin questions are claimed before their turns are cancelled; a tool the closed signal wakes in between returns its cancelled question into a live turn (the order the comment at `rpc_questions.go:259` rules out) |
| `RpcTurns` with `ApprovalHeard` as an invariant | an approval acknowledged as taken can still come back refused, when the wait sees its context or the connection end first |

## 6. Plan

Written so far, in this order: turn slot and its promise, session lock, agent
run with its file, the proofs about each; swarm, worktrees, talkoot router,
revisions, RPC carrier; the proofs about all of these. Next, by weight:

1. `Revisions` with a card's openings (`Cards`): its tail before the first row as a part of
   `Synced`.
2. `AbandonsOnlyAttempts` as a theorem under `PromptsOnly`, from the invariant of
   `AgreesWithFile`; the remaining conjuncts of `TalkootRouter`'s `TypeOK`.
3. The park table with ids its callers choose: a deferred release under a reused id,
   the workspace's confirmation cards (`agent/workspace/workspace_confirm.go`).
4. Pure rules: permission folding and the vote tally against reference definitions.
5. Refresh of credentials by several processes.

## 7. Not modelled

Provider clients, wire encodings, rendering, child processes and operating-system
replacement of the program have no state whose order matters to the parts above
beyond the choices the models make for them. The chat loop, fleet, credentials, permissions and council are
within reach and wait for their turn in the plan; of the park table the models take
what an approval in a run and the RPC carrier's asks need. The models cover the coordination core, a small share of
the repository's lines: most of the program is rendering, configuration, adapters
and text.
