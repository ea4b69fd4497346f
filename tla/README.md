# rooset / LiquidFeedback: verification project

rooset builds on LiquidFeedback: proposals ("initiatives") compete inside an *issue*,
which passes through admission, discussion, verification and voting by the clock of its
*policy*. The database functions of `src/lfcore` drive the issue, the Lua application of
`src/lffrontend` lets members act on it, and small processes around them (a C loop, two
ordering programs, a web server, a document service) do the rest.

This directory holds TLA+ models of the program's core logic, the TLC configurations that
check them on small instances, and proofs checked by TLAPS.

## Inventory

| Part | State it keeps | Operations | How it interacts | What makes it hard |
|---|---|---|---|---|
| `check_issue` (`lfcore/automatic_state_changes.sql`) and `lf_update.c` | rows of `issue`, `initiative`, the snapshot tables, `battle`; the `persist` record in the memory of `lf_update` | the sections of `check_issue`, one per transaction; the loop that hands `persist` on | REPEATABLE READ transactions, `FOR UPDATE` locks | a chain of five transactions per phase, each reading a snapshot older than the locks it waited for; crashes and serialization errors between them |
| Frontend actions (`lffrontend/app/main/*/_action`) | rows of `initiative`, `supporter`, `interest`, `direct_voter`, `vote`, ... | create, revoke, support, interest, vote, admin cancel, ... | `FOR SHARE` locks on the issue; triggers | checks read before the lock, phases that end while a session is open |
| Snapshots and delegations (`core.sql` 3503-4068) | snapshot tables, weights | `create_*_snapshot`, `weight_of_added_delegations_for_*`, `set_snapshot_event` | called by `check_issue` | delegation cycles and levels, weights counted once, repeated creation |
| Closing and ranking (`core.sql` 4070-4792) | `direct_voter`, `delegating_voter`, `battle`, ranks | `close_voting`, `calculate_ranks` | two calls of `check_issue` | votes delegated, ties in the Schulze method |
| Section exclusion (`initiative/_action/create.lua` 166-176, `open_sections_by_area`) | sections claimed by an issue | claim at creation, conflict check in `check_issue` | several issues of an area | checked long before it is stored |
| Integrity triggers (`core.sql` 1400-1800) | drafts, suggestions, initiators | deferred constraint triggers | every frontend transaction | write skew under READ COMMITTED |
| Proportional ordering (`lf_update_issue_order.c`, `lf_update_suggestion_order.c`) | ranks of issues and suggestions | one counting run per area or initiative | its own transactions, next to `lf_update` | a counting loop with fractions of ballots; concurrent writers |
| Notifications, newsletters (`core.sql` 2460-3100) | counters, `notification_initiative_sent` | `get_initiatives_for_notification`, `featured_initiative` | mail loop of the frontend | what was sent must not be sent twice |
| Registration, login, sessions (`index/_action/*.lua`, `check_everything`) | `member`, `session`, secrets | register, login, reset | expiry by `lf_update` | secrets used once, expired by another process |
| Moonbridge's worker pool (`moonbridge.c`) | lists of workers, idle workers and listeners; counts, timers, a descriptor array for `poll()` | fork, assign a connection, time out, reap, shut down | control sockets, stderr pipes, signals | a worker's end is learnt on three channels in any order; counters that decide when to fork |
| Moonbridge's I/O handles (`moonbridge_io.c`) | a read buffer, a write buffer, a queue of strings, error and mode flags | read, write, flush, drain, finish, close, reset, each blocking, non-blocking or through a waiting function | a kernel socket and the peer at its other end | a call interrupted and continued; both sides waiting for each other; data lost by `close()` |
| Moonbridge's HTTP server (`moonbridge_http.lua`) | state of one request | parse, answer, drain and time out | I/O handles | pipelining, partial requests, waiting to write while the client writes |
| extos `pfilter` (`extos.c`) | four pipes, three buffers, a child process | run a program with an input, collect two outputs | the programs that send mail and scale images | full pipes in both directions; each call of the system may fail; the child must be waited for |
| core-services loop (`etc/core-services`) | - | runs `lf_update` and the ordering programs over and over | - | `set -e` |
| WebMCP framework, mondelefant, json, multirand, docsvc, initiativeclient | - | - | HTTP, RPC, SQL | I/O and presentation |

What makes each part correct: an issue never skips or repeats a step of its procedure and
never loses the data a decision rests on; the result of a vote is that of the ballots in
the box; every delegated vote counts once; a section is under discussion in one issue at
most; the last draft, opinion or initiator cannot go; every issue and suggestion gets its proportional
place; the pool keeps its bounds and serves who connects; a stream arrives as it was sent; a
program that is run ends and leaves nothing behind; a secret works once.

`PROJECT.json` lists the components with their status, and under `hazards` what is hard to
test in this code, at its line, with the properties that guard it.

## Modules

| Module | What it is |
|---|---|
| `IssueLifecycle` | one issue, `lf_update`, frontend sessions, an administrator, the clock and the sections other issues hold |
| `IssueProcedure` | what the program promises about an issue, in four variables: abstract specification |
| `IssueRefinement` | the mapping under which `IssueLifecycle` implements `IssueProcedure` |
| `MCIssueLifecycle` | definitions for TLC: the sets of frontend operations |
| `MCIssueScenarios` | the three scenarios of the run `lifecycle`, and its symmetry |
| `IssueLifecycle_proofs` | three inductive invariants, the theorems and the proof of the refinement |
| `SchulzeRanking` | the result of one vote: `close_voting` and `calculate_ranks`, loop by loop |
| `MCSchulzeRanking` | definitions for TLC: ballots and policies |
| `SchulzeRanking_proofs` | the inductive invariant of the ranking and the theorems |
| `VoteDelegation` | the delegations of one issue and the weights that snapshots and `close_voting` compute from them |
| `MCVoteDelegation` | definitions for TLC: the delegations at the beginning |
| `VoteDelegation_proofs` | the inductive invariant of the recursion and of the sums, and the theorems |
| `ProportionalRunoff` | the algorithm both ordering programs share: seats from the worst to the best |
| `SuggestionOrder`, `IssueOrder` | the two ordering programs, each with what members and `lf_update` change beside it |
| `ProportionalOrder` | the two as one system, its fairness and properties |
| `MCProportionalOrder` | definitions for TLC: ratings, supporters, areas |
| `ProportionalOrder_proofs` | the inductive invariants of the ordering programs and of the runoff, and the theorems |
| `WorkerPool` | the Moonbridge server: the main loop, one pool, its children and the world outside |
| `MCWorkerPool` | definitions for TLC: pools, and what may happen to each |
| `WorkerPool_proofs` | the inductive invariant of the server and the theorems |
| `IoHandle` | an I/O handle between a process and a connection, with the peer, and how the HTTP server waits on it |
| `Pfilter` | `extos.pfilter`: pipes, a child, and any program made of reads and writes |
| `WorkerIO` | a worker process that uses either, its fairness and properties |
| `MCWorkerIO` | definitions for TLC: limits of reads, programs |
| `IoHandle_proofs` | the inductive invariant of a handle and its connection |
| `WorkerIO_proofs` | the inductive invariant of `pfilter`, and the theorems about both |
| `SequenceLemmas` | what the proofs share about sequences and about lists of distinct elements |

### IssueLifecycle and the code

State. `issue` is the row of the table, with its `CHECK` constraints as `Checks`;
`initiative`, `interest`, `supporter` and `voter` are the tables of that name; `snapshots`
holds which members the snapshot tables contain under each `snapshot_event`; `counted` is the
set of voters that `close_voting` wrote the table `battle` for. `fe[s]` is the open transaction of
a frontend session; one that revokes an initiative keeps the time its `now()` returns, as no other
writes it (`Now`). `call`, `persist` and `snap` are
`lf_update`: whether a call of `check_issue` is running, the value the last one returned, and
what the running transaction sees.

Actions. Each section of `check_issue` is one action (`Start`, `CreateSnapshot`,
`SetHarmonicWeights`, `CancelIssue`, `AdmitIssue`, `HalfFreeze`, `FullFreeze`, `CloseVoting`,
`CalculateRanks`), with every function it calls. A call is two steps: `BeginCall` takes the
database snapshot, and the section's action happens when its locks are granted. Between the
two others commit: that is where the hazards are. Rows they changed are in `snap.dirty`;
a section that writes one of those is `SerializationFailure` instead. `UpdateIssue` fails with
`check_violation` when the new row breaks a constraint, and `CreateSnapshot` with
`unique_violation` when `set_snapshot_event` would produce a row twice. Any failure, like
`Crash`, loses `persist` and keeps what was committed.

A frontend transaction is `FrontendBegin` (share lock and tests, as each Lua action makes
them) and `FrontendCommit` or `FrontendRollback`. Section writes that lock the issue row
wait until no session holds its share lock.

Abstractions: drafts, suggestions, ratings and events are left out; which supporters are
satisfied, and whether an initiative wins, are nondeterministic choices; delegated weights
are one per member; time is a counter up to `MaxClock`. An initiative with the flag `polling` needs no
quorum and no support; an issue with a polling policy starts in discussion with one. A member
without polling right who asks for the flag gets an ordinary initiative without support
(`create.lua:62,198,221`), which the model reaches by creating one and withdrawing support.

### IssueProcedure

`phase`, `paper` (who is proposed and not revoked), `box` (the ballots) and `result`. The
phases follow each other, an administrator may end any of them, ballots go into the box in
the voting phase only, and the result is the box as it is at the end. `IssueRefinement`
maps the row's timestamps to `phase` and the counted ballots to `result`; the many steps of
`check_issue` that prepare a transition are stuttering.

### SchulzeRanking and the code

`IssueLifecycle` knows when ballots are counted and that a count becomes a result, not what
the result is: whether an initiative wins is a choice there. `SchulzeRanking` is what happens
inside its two actions `CloseVoting` and `CalculateRanks`, for a set of ballots that no longer
changes (`NoBallotAfterCount`).

State. `ballot` is the tables `direct_voter` and `vote`, `battle` the table of that name,
`matrix_t`, `matrix_p`, `rank_ary` and `rank_v` the local variables of `calculate_ranks`;
`matrix_d` is the operator `Link`, because it never changes; `beats` holds the pairs for which
`matrix_b` is `TRUE`, and a pair is `NULL` there when neither order is in it; `forbidden` is
`matrix_f`. `result` is the result columns of `initiative`, each as a set of initiatives.

Actions. `CloseVoting` counts. `FindDirectLinks`, then `FindBestPaths` once per candidate, then
`CreatePartialOrder`; for each tie in row order `NextTie`, and `ForbidLink`, `FindBestPaths` and
`ExtendPartialOrder` until it is broken; `NoMoreTies` and `AssignRank` once per candidate;
`Preliminary`, `ExtendIndirectMajority` until it finds nothing, and `SelectWinner` with every
`UPDATE` from "multistage_majority" on. The two exceptions that the code calls impossible are
`NoSharedLink` and `RankingDoesNotCompute`; `RaiseException` ends the behaviour, as the
transaction is lost and `lf_update` fails.

Abstractions: a delegated vote is one more voter with the same ballot; the pairs of numbers
that the code packs into 64 bits with the factor 2^31 are packed with a factor larger than
every number of the instance; the exceptions for a wrong number of rows cannot occur in
arrays that have the size of the set of candidates, and are left out. `Dim >= 2`: at least one
initiative is admitted (`VotingIsPrepared` of `IssueLifecycle`); otherwise the loops over pairs
would have no exit. `result.rank` counts from 1 in the order of the code's `ORDER BY`, whose last
key, the id, is never needed because Schulze ranks differ (`RanksDiffer`).

### VoteDelegation and the code

`IssueLifecycle` knows when a snapshot is taken and when votes are counted, `VoteDelegation` who is
counted then and with which weight.

State. `delegation` is the table of that name, `membership` and `interest` the members with a row for the area
and the issue, and `privileged` the members who are active and have voting right. `direct`, `delegating` and
`weight` are the tables `direct_population_snapshot`, `direct_interest_snapshot`, `direct_voter` and
their `delegating_...` counterparts, by `Kind`. `job`, `todo` and `stack` are a running count:
which one, the rows the outer loop has still to visit, and the nested calls of
`weight_of_added_...`, each with its argument, the rows of its loop and `weight_v`.

Actions. `CreatePopulationSnapshot`, `CreateInterestSnapshot` and `CloseVoting` delete former rows and
insert or keep those of direct members; `NextDirect` is the outer loop; `PassOver`, `AddDelegation` and
`Return` are the loop over `issue_delegation`, the recursive call and its return. `SetSnapshotEvent` and
`VotingClosed` end the transaction. In between, members change delegations, membership, interest
and votes as the frontend's actions let them, administrators grant and withdraw voting rights, and
`delete_member` removes a member's rows and keeps the delegations to the member.

Abstractions: the three pairs of functions have the same text but for the names of the tables, and one
set of actions stands for them. A count reads the tables as they were when its transaction began (REPEATABLE READ),
so members change them before or after. No query has an `ORDER BY`: a loop meets its rows in any order.
A voting right, an active member and the two together are one flag; the other units, areas and
issues a member delegates for are left out, as the view `issue_delegation` does. `close_voting` sets a
weight to 1 and adds to it, the snapshots store the sum: here the sum is stored. The supporters of initiatives and
the sums of weights that quorums are compared with are not modelled.

### ProportionalOrder and the code

`lf_update_issue_order.c` and `lf_update_suggestion_order.c` share their algorithm, so it is a module of its own.

`ProportionalRunoff`. `ballots` and `seat` are the arrays of that name; `score[c] / one` is the double
`score` of a candidate. `Turn` is one pass of the innermost loop, in which all scores grow until the first
is full; `GiveSeat` is what follows when one candidate remains. `FirstFull` and `Share` compute what the
code computes in doubles, but as exact fractions: a tie that doubles would round is a tie here. The reports of an illegal weight or preference are
left out, because the constraints of the tables exclude both.

`SuggestionOrder`. `opinion` holds the preference from 1 to 4 that the view
`individual_suggestion_ranking` derives from an opinion; `snapshot` the weights of `direct_interest_snapshot`;
`order` the column `proportional_order` and `calculated` the flag `final_suggestion_order_calculated`.
`SelectInitiatives`, `ProcessInitiative`, `RankSuggestions`, `BeginWrite`, `CommitRanks` and `ExitSuggestionOrder`
are the program from query to query; `SelectFails`, `BeginFails`, `WriteFails` are statements that fail, with
what the code does then (`aborted` where it does not roll back), and `SuggestionCrash` is a kill. Beside it
members rate (and so make and delete) suggestions, `lf_update` takes snapshots, freezes issues and cleans them. `Freeze` stands for "fully
frozen or closed", which is all the view asks.

`IssueOrder`. `entry` is the table `issue_order_in_admission_state`, `supporters` and `weight` the
views `issue_supporter_in_admission_state` and the snapshot below it. The weight of a ballot is that of
one of the member's rows, in whatever order the query returns them: the member may bring different
delegations to different issues. `InsertEntries` comes first, then areas, then
units, and `DeleteEntries` keeps the table to issues in admission state.

In both, nothing happens beside the calculation itself, which reads and writes nothing that others see;
`stored`, `ordered` and `counted` are history, for the properties. The two programs run one after the other
and share no table: a behaviour of `ProportionalOrder` follows one of them. Command line options
and logging are left out.

### WorkerPool and the code

State. `pool` is the pool's structure as `listen` leaves it; `workers`, `idle`, `idle_listeners` and
`connected_listeners` are the linked lists, `count` the three counters; `assigned`, `main`, `control`, `error`
and `restart` are fields of `struct moonbr_worker` (a worker is in `control` while its `controlfd` is not -1);
`poll_workers` is the array behind `moonbr_poll_fds`. A point in time is kept only as it compares with `now`,
which is read once per iteration: `Top` lets some of those in the future come. `proc`, `commands` and
`statuses` are the children and what is under way on their control sockets.

Actions. `pc` is the block of `moonbr_run` that is next: signals and dead children (`Top`), idle workers that
have expired (`ExpireIdle`), what `poll()` found (`MarkListeners`, `ProcessInput`, `CollectDead`), connections, forks and
excessive workers (`Connect`, `CreateWorker`, `ForkFails`, `TerminateExcessive`, `EndServe`), the end of a shutdown
and `poll()` itself, with the window between the last look at the signal flags and the call (`BeginPoll`, `SkipPoll`,
`EnterPoll`, `PollReturns`). A child is `moonbr_child_run`, one action per message. A process ends in two
steps, because its parent may find the socket closed before it can wait for it. `exit` says why the master
ended: "badfd", "data" and "past" are the errors of the code that should not happen.

Abstractions: one pool, as pools share nothing but the loop and the shutdown; passing a descriptor is the
command "connect"; a timer is always set to a point in the future, although with a delay of zero the code
forks again in the same iteration, a case left out that no property asks about; logging, statistics, the PID file, the change of user and the Lua errors of `prepare`
and `finish` (which are crashes) are left out. So are system calls other than `fork` that fail, and
processes that a worker starts and that outlive it: its stderr closes when it ends. A connection that is
aborted before it is accepted is one that leaves the backlog.

### WorkerIO and the code

`IoHandle`. The variables from `open` to `writebufout` are the fields of `moonbr_io_handle_t`; `writeq` is the
queue of strings as one sequence of bytes, and the read buffer is what lies between its two positions, where
nothing more is ever seen of it. `call` and `pc` are the C function that is running: a step ends with each
system call, so the peer moves in between. `Queue`, `Fill`, `PutBytes`, `PutBlocked`, `PutFails` and `WriteDone`
are `moonbr_io_write_impl`; `Serve`, `Fetch`, `FetchNothing` and `FetchFails` `moonbr_io_read_impl`; then `Finish`,
`Close` and `Reset`. `call.flush` says
whether the call flushes, `call.found` whether it then found anything to send. `*_call` wait with the function of the HTTP server: while it waits to write it drains its
input (`Drain`), and it gives up a connection that makes no progress (`Timeout`). The kernel is two bounded
sequences; closing a TCP socket resets the connection if there is unread input or `SO_LINGER` is zero.
Left out: TLS, failures of `setsockopt` and `fcntl`, the counts that drains return, which the HTTP server
does not use. What `*_nb` do on a descriptor that is still blocking cannot occur: each call sets the mode.

`Pfilter`. `fds` is the set of pipe ends this process has open, `buf` and `buflen` the two output buffers, `report` what
the child writes to the status pipe when it cannot execute the program. `fpc` follows the function from
pipe to pipe, through the fork, the loop around `poll()`, `waitpid()` and the status. Every call that may fail does
in some behaviour (`OpenFails`, `FilterFails`, `ExecFails`), and the program may be killed (`ChildKilled`). Left out:
how `SIGPIPE` is ignored meanwhile, a `waitpid()` or a `close()` that fails, and programs that leave
children with the pipes.

A worker does one thing at a time: a behaviour of `WorkerIO` follows a connection or a program.

## Runs

Every passing run is exhaustive within its bounds.

| Run | Bounds | Question |
|---|---|---|
| `lifecycle` | 2 members, 1 of them in the area, 2 initiatives, 2 sessions, with and without the polling flag, clock 3, 1 crash; three scenarios, see below | the rows are what the tables allow, and only an administrator can make an UPDATE of `check_issue` break a constraint; every call has a section; voting starts prepared; no phase is cut short; a vote is prepared from a snapshot that describes the members; frozen data and old snapshots stay; the result is that of the ballots in the box; refinement of `IssueProcedure` |
| `lifecycle_progress` | 1 member, 2 initiatives, 1 session that creates and votes, sections taken and freed at any time, clock 4, 2 crashes, fairness | every phase that is over is left unless `lf_update` is killed; the voting phase ends even then |
| `schulze_ties` | 4 initiatives, 2 voters, grades 0 to 2, both variants, both defeat strengths, fairness | every vote has a ranking, without shared ranks, which does not reverse the best paths; breaking ties ends |
| `schulze_winner` | 3 initiatives, 3 voters, approvals, rejections and strict orders, seven policies | best paths are the strongest simple paths; indirect majorities are chains; the rows satisfy the constraints of the table; dominant candidates come first; with `no_reverse_beat_path` a winner beats the status quo by the votes |
| `delegations` | 3 members, every graph of delegations for the area, every set of privileged, subscribed and interested members and of voters, one change of anything but votes, any number of counts | every vote counts once with the first direct member of its chain; chains and intermediate weights are what the comments on the columns say; those interested are part of the population; cycles do not recurse |
| `worker_pool` | pools of up to 2 workers for a TCP socket, 1 for a local socket and a timer or for a timer only, and a main thread; each meets some of: 1 or 2 connections, a crash, a failing fork, a signal of the operator; fairness | counts, queues, descriptors and processes agree; no process stays a zombie; a shutdown ends; who connects is accepted |
| `proportional_order` | 3 members, 3 suggestions for one of 2 initiatives; 3 issues in 2 areas of a unit; 2 changes and 1 failure or crash, or many ballots and none; fairness | no shared places; a final order rests on every opinion; minorities get their share of the seats; success means stored; orders are made |
| `worker_io` | buffers and pipes of 1 or 2 bytes, 3 bytes each way, 3 calls, 1 fault of the peer; programs of up to 4 reads and writes, 1 failing call; fairness | nothing of a stream is lost, repeated or displaced; a flush is a flush; reads end where asked; nobody waits for ever; `pfilter` returns all of the output and leaves nothing behind |
| `stuck_after_crash`, `stale_revocation`, `ranking_does_not_compute`, `flush_stays_corked` | the smallest that show it | what a document or comment says and the code does not do: a violation each |

Why the bounds are enough: all durations are 1, so a clock of 3 reaches the end of every phase
when an issue is accepted at once, and a clock of 4, in the run about progress, has slack for the
time an issue waits for its quorum; one member makes or breaks a quorum, two allow
those interested to differ from those counted; two initiatives are needed for one to be revoked or
created while the other stands, and two sessions for one to overtake another between test and
write; one crash separates any two calls of the chain, two let a repetition be repeated.

`lifecycle` follows one of three scenarios from beginning to end, because their product is out of
TLC's reach (`InScenario` of `MCIssueScenarios`). In a debate one session at a time, of the member of the area,
creates and revokes initiatives, polls among them. Around the sections other issues take and free those of the
issue while it awaits its admission, and one session may revoke. Among members two sessions of two members
support, lose interest, vote and discard votes. Crashes, failures and administrators are in all of
them. What is left out is one session that revokes beside another that votes or supports: the proofs, which have no
scenarios, cover it.

For the ranking, three voters are enough for a Condorcet cycle of three initiatives, and a cycle
of all four candidates; with three voters, majorities of a third, a half and two thirds differ.
Forbidding a second link for one tie happens with five candidates and not with four, hence the
five in `schulze_ties`, where two voters who may be indifferent leave the most ties.
`AllBallots`, in the run with three candidates, holds every weak order once; more grades only repeat them.

For the delegations, three members have chains of two trustees, two trusters of one trustee, and
cycles of two and of three, with and without a direct member next to them. The one change
(`MaxChanges`) may fall between a count and its repetition, so a count meets the rows of
one with other delegations, or a member who has a delegation for the area gets one for the unit
or the issue, to another member or to nobody. Ballots change without a bound. The members are symmetric.

For the pool, two workers are the least for which one may serve while another idles, is forked or
dies, and for which `min_fork` and `max_fork` differ; with one worker a listener that hangs on a dead
worker is missed at once. What may happen to a pool is bounded per pool (`bounds` in its options) because
crashes, connections and signals together multiply: the pools of `MCWorkerPool` pair them. An
illegal table for `listen` is among them.

For the orders, three candidates make two rounds with a choice left, and three members, one of
whom may have weight two or three, make majorities, minorities and ties. `Start` has one set of ratings
with changes and a failure in between; `Calm` and `CalmSupport` have many sets, without changes, because
what the runoff computes does not depend on them. Two initiatives, or two areas, are needed for a failure
in one to be overlooked or to spoil the other.

For the handle, a buffer of two bytes that takes three is filled, flushed and filled again; the kernel takes
two, so a write is blocked twice; one terminator lies in the middle of the bytes the peer sends. Three
calls are a read, a write and a close, or a blocked write and what follows it. For `pfilter`, pipes
of one byte are full after one write, so every order of reads and writes of up to four
operations makes each side wait for each pipe; a buffer of one byte has to grow; with no input the pipe is
closed at once, and three bytes may be more than the program reads.

`CHECK_DEADLOCK FALSE`: an issue that is closed, with the clock at its bound, may do
nothing, and a vote that has its result is done; a server nobody connects to waits in `poll()`; a connection
that is over, or a program that has ended, is left alone. (`delegations` and `proportional_order` do check for deadlock.)

### Fairness

The clock ticks; `lf_update` is started again and again (`lfcore/README`, `etc/core-services`);
frontend transactions end. A section of `check_issue` that waits for a row lock is granted it at
last, because PostgreSQL queues lock requests: hence strong fairness for `CheckIssue`, which
sessions can disable and enable again. `calculate_ranks` is sequential: weak fairness of its next
step (`FairSpec` of `SchulzeRanking`) says that a running function goes on. Nothing is assumed about members: they need not act.

The ordering programs go on with whatever they can do, and are run again (`etc/core-services`): weak
fairness; failures and crashes are bounded and never assumed.

The Moonbridge master runs when it can, and a child gets on: weak fairness, which for a child includes that
the Lua function `connect` returns. `TopLate` is the iteration at whose beginning every point in time that was
in the future has come: it is enabled again and again, not always, hence strong fairness, and it is true
because time passes and `poll()` has a timeout. Nothing is assumed about crashes, forks or connections.

A process goes on with a call it has begun, a peer that is alive sends and reads when it can and
ends the connection when all is done, and both processes of `pfilter` do what they can. A peer that stalls,
for which nothing is assumed, is given up by the timeout, which in the model comes only when
nobody else can move: the HTTP server's timeouts are long compared with a peer that answers.

### Findings

* A crash of `lf_update`, or a failed call, after the snapshot at the end of a phase was
  committed leaves the issue in that phase for ever (`stuck_after_crash`). The voting phase is
  not affected (`VotingEnds` in `lifecycle_progress`).
* `check_issue` decides that all initiatives are revoked from a snapshot that is older than
  its lock (`stale_revocation`).
* A write that exactly fills the buffer corks the socket and hands everything to the kernel; a flush
  after it finds nothing to send, skips the loop that would uncork (`moonbridge_io.c:528`, `591`, `614`) and reports that it is
  done, although TCP may still hold back the last segment (`flush_stays_corked`). `reference.txt:119-120` says
  that a flush passes all pending data to the operating system, and `254-256` that it is what actually sends the data;
  `request:flush()` of the HTTP server relies on it (`moonbridge_http.lua:946-950`).
  `FlushedIsSent` excepts such a flush by name (`call.found`), and nothing else.
* With `tie_breaking` set to 'simple', two voters and two initiatives are enough for the order by
  id to contradict the order by votes in a cycle: `calculate_ranks` raises its "should not happen"
  and the issue is never closed (`ranking_does_not_compute`). Both variants, the default among
  them, are free of it: within the bounds in `schulze_ties`, and for any vote by `VariantsCompute`.

No run is made of what follows; it was met while modelling.

* A `phase_finished` that was recorded for a section conflict survives a crash and becomes the time of
  closing, or, by the same line, of acceptance (`automatic_state_changes.sql:198`), which the comment on
  `issue.closed` (`core.sql:653`) does not provide for.
* In the discussion phase frontends do change an issue whose `phase_finished` is set, as their tests allow;
  in the phases where a decision hangs on it they do not.
* When a worker dies while it is idle and the master finds its control socket closed before it has waited for
  the process, the worker stays in the idle queue with a descriptor of -1; if it is given a connection or told to
  terminate then, `write()` fails with an error other than `EPIPE` and the whole server ends
  (`moonbridge.c:629`, `632`; `exit = "badfd"` in `WorkerPool`). Every property of `WorkerPool` allows this end.
* A statement that fails after `BEGIN` in `lf_update_suggestion_order.c:191-205` leaves the transaction aborted, and
  the orders of all other initiatives fail in this run; `SuccessMeansStored` shows that the run reports it.
* The continuation of `drain_yield` counts from zero again, so the number of bytes it returns is that of the
  last part (`moonbridge_io.c:419-452`).
* The child of `pfilter` closes the reading ends of the status and output pipes, but not that of its standard error
  (`extos.c:253-255`): when `pfilter` gives up after an error, and waits for the program, a program that goes on writing there
  waits for itself, and the worker hangs (`StuckOnItself`, the one exception in `WaitingEnds`).
* The half_freeze snapshot can mix two times. After a crash between that snapshot and the freeze, `phase_finished`
  is set but interest may still change in the discussion (`interest/update.lua:18-20` tests only `half_frozen` and
  `accepted`); the repeated call takes a new periodic snapshot, and `set_snapshot_event` (`core.sql:4053-4065`)
  renames its rows to half_freeze beside those already there. If the two share a member of the population, a primary key
  objects (`stuck_after_crash`). If they are disjoint, which takes an area without members and interest that
  was replaced altogether, both stay, contrary to `core.sql:555` (''half_freeze'' = saved state at end of discussion
  period). Hence the assumption of `PastSnapshotsAreKept` below.
* The read end of the status pipe of `pfilter` is not closed when an error is raised after the fork
  (`extos.c`, label `error_B`): the one exception in `NothingLeft`.

`reverse_beat_path` is modelled as the code computes it, from the status quo to the initiative,
although the comment on the column (`core.sql:781`) has it the other way round: the code is what the
option `no_reverse_beat_path` needs (`WinnerBeatsStatusQuo`).

## Proofs

TLC checks the instances above; the theorems below hold for every value of the constants, under the assumptions the
modules name (`...Assumption`). Each rests on an inductive invariant, named `IInv`, `PoolInv`, `WorkerInv` or
`OrderInv`. Facts about sequences that several proofs need are in
`SequenceLemmas`: numbered bytes that move from buffer to buffer, lists without repetition, and the least
element of a set of numbers, which stands in for induction.

### IssueLifecycle_proofs

For any number of members, initiatives, sessions, crashes and any policy:

* `RowsAreAllowed`: `Spec => []RowsAllowed`;
* `BallotsAreCounted`: `Spec => []NoBallotAfterCount`;
* `SectionsSuffice`: `Spec => []EveryCallHasASection`;
* `FrozenStaysFrozen`: `Spec => FreezeRules`;
* `VotesArePrepared`: `Spec => []VotingIsPrepared`, and `PhasesAreComplete`: `Spec => []NoPhaseCutShort`;
* `VotesReflectInterest`: `Spec => []VoteReflectsInterest`;
* `PastSnapshotsAreKept`: `AreaMember # {}` implies `Spec => PastSnapshotsStay`;
* `ProcedureIsConducted`: `Spec => ImplementsProcedure`, the refinement: every step of the detailed system is one of
  `IssueProcedure` or changes nothing in it.

The assumptions are those of `IssueLifecycle`: `Null` is none of the other values, durations
are numbers, and the members of the area are members. That the area has a member is needed for the snapshots only: without
one, interest may be replaced altogether, and then two half_freeze snapshots are stored beside each other (see
Findings).

The inductive invariant `IInv` has five parts. `RowValid` repeats the constraints of the row
that matter: an open issue is in an open state. `HandedOver` is the heart of the matter: as
long as `persist` says that a phase ends, `phase_finished` is set and the issue is in the state
`persist` names. It is inductive because of a `CHECK` constraint: `phase_finished` and `closed`
exclude each other, so nobody can cancel an issue whose phase is being ended. `CountIsFinal`
adds that the box is sealed from then on, so what `close_voting` counts, and a repetition
after a crash counts again, is what `calculate_ranks` publishes. `SessionsOpen` says that the
test a session made still holds, because the issue row changes under no share lock.
`FreezeRules` needs one more invariant, `Fresh`: a session that creates an initiative does not
overwrite another.

A second invariant, `Settled`, builds on it for what a phase leaves behind. A transaction of `check_issue` acts on tables it has
seen earlier, so the question is what may have changed since. `SameIssue`: of the row's state, nothing that
a call relies on, unless an administrator has closed the issue. `Sealed` says when no session may begin to debate, because a
phase is being ended, and `Fixed` when neither initiatives nor interest nor support will change any more; `Seen`, that a
transaction sees these tables as they are as far as it matters: admissions and the existence of initiatives always, interest and
support when the debate is sealed; `Tested`, what else an open session has tested. `FullSnapshot`, `EndSnapshot` and
`HalfSnapshot` then follow one snapshot each from `create_snapshot` to the event it is renamed to, `Admissions`
and `Decided` follow `admitted` from the quorum to the vote, `PhaseIsOver` and `ValidTimestamps` the durations.

A third, `RowSound`, is about what the tables refuse. Each UPDATE of `check_issue` is shown to satisfy the constraints
of the row unless the row is no longer the one the call was begun for, and then an administrator has
cancelled the issue (`SoundStep`, one lemma per section). That needs the order of the timestamps, which comes from the times at which the phases
ended (`Settled`), and that voting never ends because everything is revoked: an initiative that a
call sees as admitted or rejected has not been revoked.

### SchulzeRanking_proofs

For any finite set of voters, any number of candidates, any set of ballots and any policies the table accepts:

* `TypeCorrect`: `Spec => []TypeOK`;
* `RanksAreAnOrder`: `Spec => []RanksDiffer`, and `BestPathsAreFollowed`: `Spec => []RankFollowsBestPaths`;
  together `RankingIsBySchulze`: `Spec => []RankingIsSchulze`;
* `DominantSetsAreFirst`: `Spec => []DominantSetFirst`, the Smith criterion;
* `WinnersBeatStatusQuo`: `Spec => []WinnerBeatsStatusQuo`;
* `PathsAreBest`: `Spec => []PathsAreFound`: the matrix holds the strengths of the strongest paths, and the set of indirect
  majorities is all that majorities reach;
* `ResultRowsAreAllowed`: `Spec => []ResultRowsAllowed`: no constraint of table `initiative` rejects a result;
* `VariantsCompute`: `Spec => [](policy.tie_breaking # "simple" => RankingComputes)`: with either variant of tie-breaking
  neither exception marked "should not happen" is raised. The condition is needed: for 'simple' it is a finding that
  one is.

Its inductive invariant has three arguments in it. `RanksAssigned` and `BeatersFirst` follow the loop
over ranks: `rank_v` counts them, and a candidate gets the next one only when all that beat it have
theirs. `PathsDecide` says that tie-breaking adds to the order of the best paths and takes nothing
away. `PathsBounded` follows `find_best_paths` without knowing what it computes: no entry of the
matrix is ever weaker than the direct link, and no entry that leads from outside a dominant set into
it is a victory, because a path would have to enter the set somewhere, and every pass keeps that.
So a dominant candidate beats the others by the paths, hence by rank. With `PathFlags`, the flag of
every winner is what the paths say, the same bound gives the promise of `no_reverse_beat_path`.

The paths themselves need more: `BestSoFar` is the invariant of the triple loop, an entry is the strength of the best path without
repetitions whose inner candidates have been pivots. Two lemmas carry it: a path through the new pivot falls into two parts
(`PathSplits`), and two such parts that meet earlier join at their first common candidate, where leaving out what lies
between loses no strength (`PathsJoin`). `IndirectSoFar` says that every pair of the set has a chain of
majorities, and that the set is closed under one more when the loop ends. For the rows, the final ranks are
unique because `RanksBefore` orders the eligible initiatives totally (`RowsAreOrdered`), so different initiatives have different
sets before them, and a first one exists (`BestIsOne`).

That ranks are always found is the least obvious of them: every tie is broken on its own, by forbidding one link after another, and nothing in
the code makes the answers fit together. `TieInv` says what the program keeps, on top of `IInv`. The matrix
tells, for every link, whether the stronger links that are not forbidden lead from one candidate to another (`WaysUpTo`,
`EntrySays`). As the secondary strength is different for every link (`LinksAreDifferent`), the link two tied paths share is
unique, is not forbidden yet and is never the direct link of the tie (`TieHasLink`, `TieGoesOn`), so there is always one to forbid: this
is the first exception. What has been forbidden for a tie are exactly the links, by strength, that connected its
candidates in both directions at once (`Skips`), and the tie is decided by the first link that connects them in one direction
only (`Wins`). The second exception needs that no candidates beat each other in a circle. For three candidates (`NoCycle`) look at the
strongest link at which the three histories differ: two of the pairs are still alike there, what decides one of
them would decide another the other way round, or connect the third (`WinsAt`, `FollowUp`). Where every pair is decided, an order
without such triangles has somebody nobody beats: the one with the fewest that do (`SomeoneIsUnbeaten`).

### VoteDelegation_proofs

For any finite set of members and any delegations the table accepts:

* `TypeCorrect`: `Spec => []TypeOK`, with the constraints of table `delegation`;
* `NoEndlessRecursion`: `Spec => []RecursionIsBounded`, and `InterestedAreCounted`:
  `Spec => []InterestWithinPopulation`; together `CountingIsBounded`: `Spec => []CountsAreBounded`;
* `VotesAreCountedOnce`: `Spec => []VotesFollowDelegations`: every member counts exactly once, with the first direct
  member of the chain of trustees, and the stored chains and weights say so.

Its inductive invariant describes the recursion. `VisitedHaveRows`: whoever has a call on the stack has
a row, so a member without one, who gets the next call, is not on the stack. `LoopsAreComplete`,
`LoopsAreSound` and `EveryRowIsFollowed`: a delegation to a member with a row is still ahead of a loop, or
its truster has a row as well. When the loops end, the rows are closed under delegation
(`PopulationComplete`), and as the same delegations lead from member to member when those interested
are counted, nobody is reached who is not in the population.

`Tally` adds the rows and the sums. `RowsAreChains`: a row leads from trustee to trustee to a direct member the outer loop has
visited, and everybody on the way has the rest of it as a row. `StackIsChain`: the calls, from the top down, are the chain of the member on
top. `WeightsAdd`: a call that has returned has stored one for the member and one for each *behind* it, that is, whose row names
it; a call on the stack has collected those behind its member, without the members on the stack and without those behind the next call. `Return` adds
to the caller exactly what is missing, because being behind is transitive and nobody is behind
oneself (`BehindBehind`). In the end the recursive definition of the property, `Carrier`, is the last member of the row
(`WhoCarries`); that the function exists, and what its value is, is shown for the least number that would break it.

### IoHandle_proofs and WorkerIO_proofs

For buffers, pipes and limits of any size, any number of bytes, calls and faults, and any set of programs:

* `WorkerTyped`: `Spec => []TypeOK`;
* `StreamsStayIntact`: `Spec => []StreamsIntact`: no byte is lost, repeated or displaced in either direction;
* `FlushIsDone`: `Spec => []FlushedIsSent`: after a flush that is done nothing is left in the process and, unless it found nothing to
  send, the socket is not corked; the exception is a finding; `ReadsEnd`: `Spec => []ReadsEndWhereAsked`;
* `NobodyWaitsForEachOther`: `Spec => []NoMutualWaiting`;
* `ProgramsAreClean`: `Spec => []FilterIsClean`.

`IoInv` describes a handle in the middle of a call. `IoFlags`, `IoControl`, `IoStreams`, `IoCounts` and
`IoBounds` are its types and bounds; `IoWriting` and `IoReading` say what the buffers hold at each place of a call, for instance that
a flush has still to send all there is, and that a read has taken less than it may and no terminator; `IoEnds` what a closed end
means. `IoOutput` and
`IoInput` are the two streams, cut into the buffers they pass: their concatenation is always what was handed in, byte by byte
(`SequenceLemmas` for each way a byte can move).

`FInv` is about `pfilter`. `FilterFlows`: every byte of the three streams has been read or is in its pipe, in order. `FilterDrained`: the
loop closes the reading end of a pipe only when the pipe is empty and the program has ended, so nobody can fill it any more. `FilterStage`: which descriptors are open,
and whether there is a child, follows from where the parent is; hence what an error leaves behind.

### WorkerPool_proofs

For any options of the pool, any number of workers and listeners, and whatever happens to them:

* `PoolTypes`: `Spec => []TypeOK`;
* `PoolStaysConsistent`: `Spec => []PoolIsConsistent`, and the same under `FairSpec`.

`PoolInv` describes the server between two blocks of its main loop. `Watching`: what `poll()` watches is open, at the place the
loop will look for it, although descriptors are closed between. `Lists` and `Counts`: the two lists
of workers and the four counters agree with the processes. `Protocol`: of the messages between the master and a child at most
one word is under way, and which one follows from what both have done (`Talk`). `Ownership`: a listener is in one queue, or with one worker the master will read from, so no
connection is handed out twice. `Times`: idle workers expire in the order of their queue, and a timer that has passed leaves it. Two of the ends that the program has a
message for are never reached (`exit` is neither "past" nor "data"); the end for which there is a finding, "badfd", is.

### ProportionalOrder_proofs

For any finite sets of members, supporters, suggestions and issues, any ballots, changes and failures:

* `OrdersAreTyped`: `Spec => []OrderTypeOK`;
* `SeatsAreProportional`: `Spec => []MinoritiesAreRepresented`;
* `StoredOrdersAreSound`: `Spec => []OrdersAreSound`;
* `SuccessIsNoAccident`: `Spec => []SuccessMeansStored`.

`OrderInv`: the seats given so far differ and belong to candidates (`SeatsDiffer`, `SeatsBelong`). Of the
suggestions: the rows of the query name an initiative once, call an order final only if the initiative is frozen, and
touch no order that is final already (`RowsAreTimely`); unless a
failure is remembered, an initiative that is not frozen is stored, waits for its turn or has it (`NoneForgotten`); and the ballots of
a final order are those of everybody (`BallotsCount`). Of the issues, `InTurn` says which areas and units are done, and that a
failure is remembered until the program exits with it.

The seats are proportional because of `FairInv`. `ScoresOK` is the state of a runoff. `SeatsAreFair` says of any group of candidates:
as long as one of them is left in a round the group keeps up (`KeepsUp`), that is, its share of all scores is at least its advocates' share of
the weight, unless the group is not entitled to the seat anyhow; and no seat was given to a group that was `Entitled` to a better one.
A turn keeps that: the advocates of a group pour all their weight over candidates of the group as long as one is
left (`GroupsGain`, which exchanges the sum over candidates and the sum over ballots), and scores are only
scaled otherwise (`GrownKeepsUp`). The one exception is a turn in which all that are left fill their scores together, and the loop keeps the last
of them although it is full: its group may lose score, but then it had no right to more (`FullIsFair`). Who is left at the end of
a round is alone, all others are full, and so its group is not entitled to the seat it gets (`LastIsNotEntitled`). Sums
over finite sets (`Total`, with its lemmas) are shown to be what `MapThenSumSet` of the community modules computes (`SumOfShares`,
`SumOfWeights`); what would be an induction over a set is `SetGrows`, the least number of elements that are missing.

### What is only model-checked

* Of safety, nothing: every invariant and action property of the runs that pass is stated by a theorem above.
* Liveness, which is out of the prover's reach, with `ENABLED`: `PhasesEndUnlessKilled`, `VotingEnds`, `TiesAreBroken`,
  `DeadAreReaped`, `ShutdownCompletes`, `PendingIsServed`, `OrdersAreMade`, `AnswerArrives`, `WaitingEnds`.
* The four findings that are runs: a counterexample is all there is to show.

None of the modules declares a `RECURSIVE` operator.

## Plan

1. Done: the lifecycle of an issue, its abstract specification; the counting and ranking of a
   vote; the first proofs of both.
2. Done: `VoteDelegation`, with its first proofs.
3. Done: `ProportionalOrder`, `WorkerPool`, `IoHandle` and `Pfilter`, model-checked and proved.
4. Done: proofs of the safety of every component that is modelled.
5. `SectionAdmission`: several issues of an area that claim sections. `HarmonicWeights`: the loop that
   `IssueLifecycle` has as a single step.
6. `IntegrityTriggers`, `Notifications`, `Accounts`: the remaining transactions of the core.

Not modelled of Moonbridge: TLS, `connect`, `listen`, `accept` and child processes of `moonbridge_io`, `poll()` on
several handles, the parsing of requests and the building of responses in `moonbridge_http.lua`, statistics, logging,
the PID file. Not modelled of `extos`: files, directories, clocks and random numbers, which keep no state.

Not planned: HTML and CSS, translations, the browser client and the document service, which
keep no state the core depends on; mondelefant, json and multirand, which convert data and are called by one thread
at a time; image scaling; LDAP.
