----------------------------- MODULE WorkerPool -----------------------------
(***************************************************************************)
(* The Moonbridge server: a master process that keeps a pool of worker     *)
(* processes, gives them connections and timer events, and replaces them   *)
(* when they end or die.                                                   *)
(*                                                                         *)
(* The master is one loop (moonbr_run) whose blocks are the actions below, *)
(* in the order of "pc".  It talks to each child over a control socket,    *)
(* learns of its end from that socket, from its stderr, and from SIGCHLD,  *)
(* and the three may arrive in any order.  One pool is modelled.           *)
(*                                                                         *)
(* Time: "now" is read once in each iteration.  A point in time is kept    *)
(* only as it compares with it: "future", "now", "past", or "unset".       *)
(***************************************************************************)
EXTENDS Naturals, Sequences, FiniteSets

CONSTANTS
    MaxWorkers,      \* the structures moonbr_worker there is memory for
    Options,         \* the tables that listen{...} may be called with; each with
                     \* "bounds" on what happens to the pool: connections that
                     \* arrive, children that crash, calls of fork that fail, and
                     \* signals of the operator
    Nil              \* an option that is not given; no listener

Worker == 1..MaxWorkers
Time   == {"unset", "past", "now", "future"}
Proto  == {"tcp", "local", "interval", "main"}

Bounds == [connections : Nat, crashes : Nat, forkErrors : Nat, signals : Nat]

ASSUME WorkerAssumption == MaxWorkers \in Nat \ {0}
ASSUME OptionAssumption ==
    /\ Nil \notin Nat
    /\ \A o \in Options :
        /\ o.listen \in Seq([proto : Proto \cup {"unknown"}, at : {"given", Nil},
                             strict : BOOLEAN])
        /\ o.listen # <<>>
        /\ {o.pre_fork, o.min_fork, o.max_fork} \subseteq Nat \cup {Nil}
        /\ o.idle_timeout \in BOOLEAN
        /\ o.bounds \in Bounds

VARIABLES
    pc,              \* the block of moonbr_run that is next
    exit,            \* "no", or why the master called moonbr_terminate
    pool,            \* the options of the pool; NoPool before "listen"
    shutdown,        \* moonbr_shutdown_in_progress
    cond,            \* the moonbr_cond_... flags that are set
    signalfd,        \* TRUE: a byte waits in moonbr_poll_signalfd_read
    poll_workers,    \* moonbr_poll_workers: pairs of a worker and a channel
    refresh_needed,  \* moonbr_poll_refresh_needed
    revents,         \* the pairs and the listeners that poll() found ready
    wait,            \* point in time when poll() has to return
    workers,         \* the list from first_worker
    idle,            \* the queue from first_idle_worker
    count,           \* idle_worker_count, unassigned_..., total_worker_count
    assigned,        \* workers with "assigned" set
    main,            \* workers with "main" set
    control,         \* workers whose controlfd is not -1
    error,           \* workers whose errorfd is not -1
    restart,         \* worker -> restart_interval_listener
    expiration,      \* worker -> idle_expiration, while it is idle
    idle_listeners, connected_listeners,  \* queues of listeners
    wakeup,          \* interval listener -> wakeup
    timer,           \* fork_wakeup, fork_error_wakeup, exit_wakeup
    use_fork_error,  \* use_fork_error_wakeup
    terminated,      \* terminated_worker_count of this iteration
    proc,            \* what the child does; "none": no such process
    sigterm,         \* children whose moonbr_io_sigterm_flag is set
    commands,        \* worker -> bytes on the way to the child
    statuses,        \* worker -> bytes on the way to the master
    pending,         \* listener -> connections in the backlog
    budget           \* what is left of the bounds

signals   == <<cond, signalfd>>
polling   == <<poll_workers, refresh_needed, revents>>
queues    == <<workers, idle, count, assigned, main, expiration>>
channels  == <<control, error>>
timers    == <<wakeup, timer, use_fork_error, terminated>>
listeners == <<idle_listeners, connected_listeners, restart>>
children  == <<proc, sigterm, commands, statuses>>
vars == <<pc, exit, pool, shutdown, wait, signals, polling, queues, channels,
          timers, listeners, children, pending, budget>>

-----------------------------------------------------------------------------
(* Pools                                                                   *)

Larger(a, b) == IF a > b THEN a ELSE b
Default(option, value) == IF option = Nil THEN value ELSE option

\* "at" is the delay of a timer, the path or port of a socket.  What listen{...}
\* rejects is Nil.
ParseTimer(e) == IF e.proto = "interval" /\ e.at = Nil
                 THEN Nil ELSE [proto |-> e.proto, strict |-> e.strict]

ParseSocket(e) == IF e.at = Nil THEN Nil ELSE [proto |-> e.proto, strict |-> FALSE]

ParseListener(e) == IF e.proto \in {"interval", "main"} THEN ParseTimer(e)
                    ELSE IF e.proto \in {"tcp", "local"} THEN ParseSocket(e) ELSE Nil

\* A pool with nothing but main threads has a worker for each.
ForkOptions(o) ==
    LET dynamic == \E i \in DOMAIN o.listen : o.listen[i].proto # "main"
        n   == Len(o.listen)
        pre == Default(o.pre_fork, 1)
        min == Default(o.min_fork, Larger(pre, 2))
    IN  [listen |-> [i \in DOMAIN o.listen |-> ParseListener(o.listen[i])],
         pre_fork |-> IF dynamic THEN pre ELSE 0,
         min_fork |-> IF dynamic THEN min ELSE n,
         max_fork |-> IF dynamic THEN Default(o.max_fork, Larger(min, 16)) ELSE n,
         idle_timeout |-> dynamic /\ o.idle_timeout]

NoPool == [listen |-> <<>>, pre_fork |-> 0, min_fork |-> 0, max_fork |-> 0,
           idle_timeout |-> FALSE]

Listener    == DOMAIN pool.listen
IsMain(l)   == pool.listen[l].proto = "main"
IsTimer(l)  == pool.listen[l].proto \in {"interval", "main"}
IsSocket(l) == pool.listen[l].proto \in {"tcp", "local"}

-----------------------------------------------------------------------------
(* Processes and channels                                                  *)

Alive(w)        == proc[w] \notin {"none", "exiting", "zombie"}
HoldsControl(w) == proc[w] \in {"prepare", "waiting", "taken", "connect"}
Channel(w)      == {c \in {"control", "error"} :
                      w \in (IF c = "control" THEN control ELSE error)}

\* What the master may have in its list for poll().
Entry == Worker \X {"control", "error"}

\* Readable: data or the end of the file.
Readable(e) ==
    LET w == e[1] IN
    IF e[2] = "control" THEN statuses[w] # <<>> \/ ~HoldsControl(w) ELSE ~Alive(w)

\* Variant: nothing wakes a poll() that is about to begin.
SignalWithoutByte(c) == cond' = cond \cup {c} /\ UNCHANGED signalfd

\* moonbr_signal in the master.
Signal(c) == /\ cond' = cond \cup {c}
             /\ signalfd' = (signalfd \/ "poll" \in cond)

Init ==
    /\ pc = "main" /\ exit = "no" /\ pool = NoPool /\ shutdown = FALSE
    /\ cond = {} /\ signalfd = FALSE
    /\ poll_workers = <<>> /\ refresh_needed = FALSE /\ revents = {} /\ wait = "unset"
    /\ workers = <<>> /\ idle = <<>>
    /\ count = [idle |-> 0, unassigned |-> 0, total |-> 0]
    /\ assigned = {} /\ main = {} /\ control = {} /\ error = {}
    /\ restart = [w \in Worker |-> Nil]
    /\ expiration = [w \in Worker |-> "unset"]
    /\ idle_listeners = <<>> /\ connected_listeners = <<>>
    /\ wakeup = <<>>
    /\ timer = [fork |-> "past", fork_error |-> "past", exit |-> "unset"]
    /\ use_fork_error = FALSE /\ terminated = 0
    /\ proc = [w \in Worker |-> "none"] /\ sigterm = {}
    /\ commands = [w \in Worker |-> <<>>] /\ statuses = [w \in Worker |-> <<>>]
    /\ pending = <<>>
    /\ budget = [b \in {"connections", "crashes", "forkErrors", "signals"} |-> 0]

-----------------------------------------------------------------------------
(* The children, and what happens outside (moonbr_child_run)               *)

Moves(w, from, to) == proc[w] = from /\ proc' = [proc EXCEPT ![w] = to]
Says(w, s) == statuses' = [statuses EXCEPT ![w] = Append(@, s)]

\* What no step of a child or of the world outside touches.
MasterUnchanged == UNCHANGED <<pc, exit, pool, shutdown, wait, polling, queues,
                               channels, timers, listeners>>
ChildStep == MasterUnchanged /\ UNCHANGED <<signals, pending, budget>>

\* "prepare" has returned; moonbr_io_catch_sigterm; ready.  A SIGTERM that came
\* before went to moonbr_signal, which ignores it.
ChildPrepared(w) ==
    /\ Moves(w, "prepare", "waiting")
    /\ Says(w, "idle")
    /\ ChildStep /\ UNCHANGED <<sigterm, commands>>

\* Goodbye, and the control socket is closed.
Goodbye(w, from) == Moves(w, from, "finish") /\ Says(w, "goodbye")

Receive(w) ==
    /\ commands[w] # <<>>
    /\ \/ Head(commands[w]) = "terminate" /\ Goodbye(w, "waiting")
       \/ Head(commands[w]) = "connect" /\ Moves(w, "waiting", "taken") /\ UNCHANGED statuses
    /\ commands' = [commands EXCEPT ![w] = Tail(@)]
    /\ ChildStep /\ UNCHANGED sigterm

\* moonbr_io_sigterm_flag = 0: a SIGTERM that came since the command did is
\* forgotten.
BeginConnect(w) ==
    /\ Moves(w, "taken", "connect")
    /\ sigterm' = sigterm \ {w}
    /\ ChildStep /\ UNCHANGED <<commands, statuses>>

\* "connect" has returned: "again" if the value is true.
EndConnect(w, again) ==
    /\ IF again /\ w \notin sigterm
       THEN Moves(w, "connect", "waiting") /\ Says(w, "idle")
       ELSE Goodbye(w, "connect")
    /\ ChildStep /\ UNCHANGED <<sigterm, commands>>

\* A process ends in two steps: its descriptors are closed, then its parent is
\* told and can wait for it.
ChildFinished(w) ==
    /\ Moves(w, "finish", "exiting")
    /\ ChildStep /\ UNCHANGED <<sigterm, commands, statuses>>

\* An error in a Lua function, a timeout (SIGALRM), or SIGKILL.
Crash(w) ==
    /\ Alive(w) /\ budget.crashes > 0
    /\ proc' = [proc EXCEPT ![w] = "exiting"]
    /\ commands' = [commands EXCEPT ![w] = <<>>]
    /\ budget' = [budget EXCEPT !.crashes = @ - 1]
    /\ MasterUnchanged /\ UNCHANGED <<signals, pending, sigterm, statuses>>

BecomeZombie(w) ==
    /\ Moves(w, "exiting", "zombie")
    /\ Signal("child")
    /\ MasterUnchanged /\ UNCHANGED <<pending, budget, sigterm, commands, statuses>>

Arrive(l) ==
    /\ IsSocket(l) /\ ~shutdown /\ budget.connections > 0
    /\ pending' = [pending EXCEPT ![l] = @ + 1]
    /\ budget' = [budget EXCEPT !.connections = @ - 1]
    /\ MasterUnchanged /\ UNCHANGED <<signals, children>>

\* The operator sends SIGTERM (terminate), or SIGHUP or SIGINT (interrupt).
OperatorSignal(c) ==
    /\ pc # "start" /\ budget.signals > 0
    /\ Signal(c)
    /\ budget' = [budget EXCEPT !.signals = @ - 1]
    /\ MasterUnchanged /\ UNCHANGED <<children, pending>>

Child(w) == \/ ChildPrepared(w) \/ Receive(w) \/ BeginConnect(w)
            \/ \E again \in BOOLEAN : EndConnect(w, again)
            \/ ChildFinished(w) \/ BecomeZombie(w)

Environment == \/ \E w \in Worker : Crash(w)
               \/ \E l \in Listener : Arrive(l)
               \/ \E c \in {"terminate", "interrupt"} : OperatorSignal(c)

-----------------------------------------------------------------------------
(* The master: what its blocks are made of                                 *)

Goto(block) == pc' = block /\ UNCHANGED exit

\* moonbr_terminate: every child is killed, and nothing happens any more.
Terminate(reason) ==
    /\ exit' = reason /\ pc' = "done"
    /\ UNCHANGED <<pool, shutdown, wait, signals, polling, queues, channels, timers,
                   listeners, children, pending, budget>>

\* The elements of a list that are in S, in their order: SelectSeq, in a form that
\* can be proved about.
Keep(list, S) ==
    LET kept == {i \in DOMAIN list : list[i] \in S}
        Place(k) == CHOOSE i \in kept : Cardinality({j \in kept : j <= i}) = k
    IN  [k \in 1..Cardinality(kept) |-> list[Place(k)]]

\* moonbr_send_control_message to each of ws; what is sent to a child that has
\* closed its end is dropped (EPIPE).
Send(ws, c) ==
    commands' = [w \in Worker |-> IF w \in ws /\ HoldsControl(w)
                                  THEN Append(commands[w], c) ELSE commands[w]]

\* To send on a descriptor of -1 is no EPIPE: moonbr_terminate_error.
SendFails(ws) == ~(ws \subseteq control)

Listed == {workers[i] : i \in DOMAIN workers}
Idling == {idle[i] : i \in DOMAIN idle}

\* moonbr_pop_idle_worker, n times.
FirstIdle(n) == {idle[i] : i \in DOMAIN idle \cap 1..n}
PopIdle(n) ==
    /\ idle' = SubSeq(idle, n + 1, Len(idle))
    /\ assigned' = assigned \cup FirstIdle(n)
    /\ count' = [count EXCEPT !.idle = @ - n, !.unassigned = @ - n]
    /\ expiration' = [w \in Worker |-> IF w \in FirstIdle(n) THEN "unset" ELSE expiration[w]]

\* moonbr_terminate_idle_worker(moonbr_pop_idle_worker(pool)).
TerminateIdle ==
    /\ PopIdle(1)
    /\ Send(FirstIdle(1), "terminate")
    /\ UNCHANGED <<workers, main, proc, sigterm, statuses>>

\* moonbr_add_idle_worker.
AddIdle(w) ==
    /\ idle' = Append(idle, w)
    /\ assigned' = assigned \ {w}
    /\ count' = [count EXCEPT !.idle = @ + 1,
                              !.unassigned = IF w \in assigned THEN @ + 1 ELSE @]
    /\ expiration' = IF pool.idle_timeout THEN [expiration EXCEPT ![w] = "future"]
                                          ELSE expiration

\* moonbr_initiate_shutdown sends SIGTERM; its handler sets a flag, once the
\* child has got past "prepare".
Signalled(w) == proc[w] \in {"waiting", "taken", "connect"}
InitiateShutdown ==
    /\ shutdown' = TRUE
    /\ sigterm' = IF shutdown THEN sigterm
                  ELSE sigterm \cup {w \in Worker : Signalled(w)}

\* The order of points in time; moonbr_calc_wait takes the earliest.
Rank == [past |-> 0, now |-> 1, future |-> 2, unset |-> 3]

-----------------------------------------------------------------------------
(* The master: starting                                                    *)

\* The command line, the lock of the PID file and of the log file, the Lua state.
StartServer ==
    /\ pc = "main"
    /\ \/ Goto("script")
       \/ exit' = "running" /\ pc' = "done"
    /\ UNCHANGED <<pool, shutdown, wait, signals, polling, queues, channels, timers,
                   listeners, children, pending, budget>>

ScriptFails == exit' = "startup" /\ pc' = "done" /\ UNCHANGED <<pool, pending, budget>>

\* Opens the sockets; on failure it closes those it has opened.
StartPool(o) ==
    \/ /\ pool' = ForkOptions(o) /\ Goto("start")
       /\ pending' = [i \in DOMAIN o.listen |-> 0] /\ budget' = o.bounds
    \/ /\ \E i \in DOMAIN o.listen : o.listen[i].proto \in {"tcp", "local"}
       /\ ScriptFails

\* The script calls listen{...}, and fails if that does.
Listen(o) ==
    /\ pc = "script" /\ pool = NoPool
    /\ IF \E i \in DOMAIN o.listen : ParseListener(o.listen[i]) = Nil
       THEN ScriptFails ELSE StartPool(o)
    /\ UNCHANGED <<shutdown, wait, signals, polling, queues, channels, timers,
                   listeners, children>>

\* The script fails, or it has not called listen{...}.
NoListener ==
    /\ pc = "script" /\ ScriptFails
    /\ UNCHANGED <<shutdown, wait, signals, polling, queues, channels, timers,
                   listeners, children>>

PollInit == idle_listeners' = [l \in Listener |-> l]

\* The delay of a main thread is zero.
IntervalInitialize ==
    wakeup' = [l \in Listener |-> IF IsMain(l) THEN "now"
                                  ELSE IF IsSocket(l) THEN "unset" ELSE "future"]

StartRun ==
    /\ pc = "start" /\ Goto("top")
    /\ PollInit /\ IntervalInitialize
    /\ UNCHANGED <<pool, shutdown, wait, signals, polling, queues, channels, timer,
                   use_fork_error, terminated, connected_listeners, restart, children,
                   pending, budget>>

-----------------------------------------------------------------------------
(* The master: the loop                                                    *)

\* moonbr_now: points in time have come.  Idle workers expire in the order of
\* their queue, since all wait equally long, and fork_error_delay is not less
\* than fork_delay.
Expired(t) == IF t = "unset" THEN t ELSE "past"
TimePasses(ts, ls, n) ==
    /\ "fork_error" \in ts => "fork" \in ts \/ timer.fork = "past"
    /\ timer' = [t \in DOMAIN timer |-> IF t \in ts THEN Expired(timer[t]) ELSE timer[t]]
    /\ wakeup' = [l \in Listener |-> IF l \in ls \/ wakeup[l] = "now"
                                     THEN Expired(wakeup[l]) ELSE wakeup[l]]
    /\ expiration' = [w \in Worker |-> IF w \in FirstIdle(n)
                                       THEN Expired(expiration[w]) ELSE expiration[w]]

\* moonbr_poll_reset_signal, as the last iteration ended.
ResetSignal == signalfd' = FALSE

Top(ts, ls, n) ==
    /\ pc = "top"
    /\ \/ "interrupt" \in cond /\ Terminate("graceful")
       \/ /\ "interrupt" \notin cond
          /\ IF "terminate" \in cond THEN InitiateShutdown
                                     ELSE UNCHANGED <<shutdown, sigterm>>
          /\ cond' = {} /\ ResetSignal
          /\ TimePasses(ts, ls, n)
          /\ wait' = "unset"
          /\ Goto("expire")
          /\ UNCHANGED <<pool, polling, workers, idle, count, assigned, main, channels,
                         use_fork_error, terminated, listeners, proc, commands, statuses, pending,
                         budget>>

IdleExpired == /\ pool.idle_timeout /\ idle # <<>>
               /\ expiration[Head(idle)] # "future"

ExpireIdle ==
    /\ pc = "expire" /\ IdleExpired
    /\ \/ SendFails(FirstIdle(1)) /\ Terminate("badfd")
       \/ /\ ~SendFails(FirstIdle(1))
          /\ TerminateIdle
          /\ UNCHANGED <<pc, exit, pool, shutdown, wait, signals, polling, channels,
                         timers, listeners, pending, budget>>

Due(l) == IF IsSocket(l) THEN <<l, "listener">> \in revents ELSE wakeup[l] # "future"

MarkListeners ==
    /\ pc = "expire" /\ ~IdleExpired /\ Goto("input")
    /\ idle_listeners' = Keep(idle_listeners, {l \in Listener : ~Due(l)})
    /\ connected_listeners' =
           connected_listeners \o Keep(idle_listeners, {l \in Listener : Due(l)})
    /\ revents' = {e \in revents : e[2] # "listener"}
    /\ UNCHANGED <<pool, shutdown, wait, signals, poll_workers, refresh_needed, queues,
                   channels, timers, restart, children, pending, budget>>

AddIdleListener(l) == idle_listeners' = Append(idle_listeners, l)

\* A strict timer counts from when it was due, but from now at the earliest.
RestartTimes(l) == IF pool.listen[l].strict THEN {"now", "future"} ELSE {"future"}

\* Variant: the worker is not parted from the listener.
RestartTwice(w) ==
    IF restart[w] = Nil
    THEN UNCHANGED <<listeners, wakeup>>
    ELSE /\ AddIdleListener(restart[w])
         /\ \E t \in RestartTimes(restart[w]) : wakeup' = [wakeup EXCEPT ![restart[w]] = t]
         /\ UNCHANGED <<restart, connected_listeners>>

\* moonbr_interval_restart, after a message of the worker or the end of it.
IntervalRestart(w) ==
    IF restart[w] = Nil
    THEN UNCHANGED <<listeners, wakeup>>
    ELSE /\ AddIdleListener(restart[w])
         /\ restart' = [restart EXCEPT ![w] = Nil]
         /\ \E t \in RestartTimes(restart[w]) : wakeup' = [wakeup EXCEPT ![restart[w]] = t]
         /\ UNCHANGED connected_listeners

CloseControl(w) == control' = control \ {w} /\ refresh_needed' = TRUE

\* moonbr_read_controlchannel.
ReadControl(w) ==
    \/ statuses[w] # <<>> /\ w \in Idling /\ Terminate("data")
    \/ /\ statuses[w] = <<>> \/ w \notin Idling
       /\ \/ /\ statuses[w] = <<>>
             /\ CloseControl(w) /\ UNCHANGED <<idle, assigned, count, expiration>>
          \/ /\ statuses[w] # <<>> /\ Head(statuses[w]) = "goodbye"
             /\ CloseControl(w) /\ UNCHANGED <<idle, assigned, count, expiration>>
          \/ /\ statuses[w] # <<>> /\ Head(statuses[w]) = "idle"
             /\ AddIdle(w) /\ UNCHANGED <<control, refresh_needed>>
       /\ statuses' = [statuses EXCEPT ![w] = IF @ = <<>> THEN @ ELSE Tail(@)]
       /\ IntervalRestart(w)
       /\ revents' = revents \ {<<w, "control">>}
       /\ UNCHANGED <<pc, exit, pool, shutdown, wait, signals, poll_workers, workers,
                      main, error, timer, use_fork_error, terminated, proc, sigterm,
                      commands, pending, budget>>

\* moonbr_read_errorchannel: the text only goes to the log.
ReadError(w) ==
    /\ error' = error \ {w} /\ refresh_needed' = TRUE
    /\ revents' = revents \ {<<w, "error">>}
    /\ UNCHANGED <<pc, exit, pool, shutdown, wait, signals, poll_workers, queues,
                   control, timers, listeners, children, pending, budget>>

\* The entries with events, in the order of the array.
ProcessInput ==
    /\ pc = "input"
    /\ \E i \in DOMAIN poll_workers :
        LET e == poll_workers[i] IN
        /\ e \in revents
        /\ \A j \in 1..(i - 1) : poll_workers[j] \notin revents
        /\ IF e[2] = "control" THEN ReadControl(e[1]) ELSE ReadError(e[1])

\* moonbr_try_destroy_worker of every worker.
Dead(w) == w \notin control /\ w \notin error /\ proc[w] = "zombie"

CollectDead ==
    LET dead == {w \in Listed : Dead(w)}
        idling == dead \cap Idling
    IN
    /\ pc = "input" /\ \A i \in DOMAIN poll_workers : poll_workers[i] \notin revents
    /\ IF dead \cap main # {} THEN InitiateShutdown ELSE UNCHANGED <<shutdown, sigterm>>
    /\ workers' = Keep(workers, Worker \ dead)
    /\ idle' = Keep(idle, Worker \ dead)
    /\ assigned' = assigned \ dead
    /\ main' = main \ dead
    /\ count' = [idle |-> count.idle - Cardinality(idling),
                 unassigned |-> count.unassigned - Cardinality(dead \ assigned),
                 total |-> count.total - Cardinality(dead)]
    /\ restart' = [w \in Worker |-> IF w \in dead THEN Nil ELSE restart[w]]
    /\ proc' = [w \in Worker |-> IF w \in dead THEN "none" ELSE proc[w]]
    /\ terminated' = Cardinality(dead \cap (assigned \cup idling))
    /\ use_fork_error' = (use_fork_error \/ dead \ (assigned \cup idling) # {})
    /\ expiration' = [w \in Worker |-> IF w \in dead THEN "unset" ELSE expiration[w]]
    /\ Goto("serve")
    /\ UNCHANGED <<pool, wait, signals, polling, channels, wakeup, timer, idle_listeners,
                   connected_listeners, commands, statuses, pending, budget>>

-----------------------------------------------------------------------------
(* The master: giving work, and the number of workers                      *)

\* moonbr_connect for a timer event: the listener stays with the worker.
ConnectTimer(l) ==
    /\ IsTimer(l)
    /\ PopIdle(1)
    /\ IF IsMain(l)
       THEN main' = main \cup FirstIdle(1) /\ UNCHANGED restart
       ELSE restart' = [restart EXCEPT ![Head(idle)] = l] /\ UNCHANGED main
    /\ Send(FirstIdle(1), "connect")
    /\ UNCHANGED <<idle_listeners, pending>>

\* moonbr_connect for a socket: connections are accepted while workers are idle,
\* until there are no more or one was aborted by the client.
ConnectSocket(l, n, aborted) ==
    /\ IsSocket(l)
    /\ n <= Len(idle)
    /\ IF aborted THEN n < Len(idle) /\ n < pending[l]
                  ELSE n = pending[l] \/ (n < pending[l] /\ n = Len(idle))
    /\ PopIdle(n)
    /\ Send(FirstIdle(n), "connect")
    /\ pending' = [pending EXCEPT ![l] = IF aborted THEN @ - n - 1 ELSE @ - n]
    /\ AddIdleListener(l)
    /\ UNCHANGED <<main, restart>>

PopConnectedListener == connected_listeners' = Tail(connected_listeners)

CanConnect == ~shutdown /\ connected_listeners # <<>> /\ idle # <<>>

Connect ==
    /\ pc = "serve" /\ CanConnect
    /\ LET l == Head(connected_listeners) IN
       \E n \in 0..Len(idle), aborted \in BOOLEAN :
          /\ IF IsTimer(l) THEN n = 1 /\ ~aborted /\ ConnectTimer(l)
                           ELSE ConnectSocket(l, n, aborted)
          /\ IF SendFails(FirstIdle(n))
             THEN exit' = "badfd" /\ pc' = "done" ELSE UNCHANGED <<pc, exit>>
    /\ PopConnectedListener
    /\ UNCHANGED <<pool, shutdown, wait, signals, polling, workers, channels, timers,
                   proc, sigterm, statuses, budget>>

WorkerNeeded == /\ count.total < pool.max_fork
                /\ \/ count.unassigned < pool.pre_fork
                   \/ count.total < pool.min_fork

\* Variant: after an error there is no more fork.
NoForkAfterError == IF use_fork_error THEN "future"
               ELSE IF terminated > 0 THEN "now" ELSE timer.fork

\* The point in time that has to come before the next fork; a worker that ended
\* after it had been ready is replaced at once.
ForkWakeup == IF use_fork_error THEN timer.fork_error
              ELSE IF terminated > 0 THEN "now" ELSE timer.fork

\* Variant: the shortcut is counted down for any fork.
SpendAlways == terminated' = terminated - 1

SpendTerminated ==
    terminated' = IF use_fork_error \/ terminated = 0 THEN terminated ELSE terminated - 1

MayFork == ~shutdown /\ ~CanConnect /\ WorkerNeeded /\ ForkWakeup # "future"

\* moonbr_create_worker: fork.
CreateWorker(w) ==
    /\ pc = "serve" /\ MayFork
    /\ w \notin Listed /\ \A v \in 1..(w - 1) : v \in Listed
    /\ workers' = Append(workers, w)
    /\ count' = [count EXCEPT !.unassigned = @ + 1, !.total = @ + 1]
    /\ control' = control \cup {w} /\ error' = error \cup {w}
    /\ proc' = [proc EXCEPT ![w] = "prepare"]
    /\ sigterm' = sigterm \ {w}
    /\ commands' = [commands EXCEPT ![w] = <<>>]
    /\ statuses' = [statuses EXCEPT ![w] = <<>>]
    /\ refresh_needed' = TRUE
    /\ timer' = [timer EXCEPT !.fork = "future", !.fork_error = "future"]
    /\ use_fork_error' = FALSE
    /\ SpendTerminated
    /\ UNCHANGED <<pc, exit, pool, shutdown, wait, signals, poll_workers, revents, idle,
                   assigned, main, expiration, wakeup, listeners, pending, budget>>

\* moonbr_create_worker returns an error; in this iteration it is not called again.
ForkFails ==
    /\ pc = "serve" /\ MayFork /\ budget.forkErrors > 0
    /\ budget' = [budget EXCEPT !.forkErrors = @ - 1]
    /\ timer' = [timer EXCEPT !.fork_error = "future"]
    /\ use_fork_error' = TRUE
    /\ SpendTerminated
    /\ UNCHANGED <<pc, exit, pool, shutdown, wait, signals, polling, queues, channels,
                   wakeup, listeners, children, pending>>

\* Too many idle workers: the first is told to terminate when exit_wakeup is
\* past, and the next has to wait again.
Excessive == ~shutdown /\ count.total > pool.min_fork /\ count.idle > pool.pre_fork
MayTerminate == Excessive /\ timer.exit \notin {"unset", "future"}

TerminateExcessive ==
    /\ pc = "serve" /\ ~CanConnect /\ ~MayFork /\ MayTerminate
    /\ \/ SendFails(FirstIdle(1)) /\ Terminate("badfd")
       \/ /\ ~SendFails(FirstIdle(1))
          /\ TerminateIdle
          /\ timer' = [timer EXCEPT !.exit = "future"]
          /\ UNCHANGED <<pc, exit, pool, shutdown, wait, signals, polling, channels,
                         wakeup, use_fork_error, terminated, listeners, pending, budget>>

\* What poll() has to return for: the next fork, the next end of an excessive
\* worker (unless the timer is only started now), the timers of idle listeners,
\* and the expiration of the first idle worker.
Wakeups ==
    LET For(condition, t) == IF condition THEN {t} ELSE {}
        Queued(l) == \E i \in DOMAIN idle_listeners : idle_listeners[i] = l
    IN  For(~shutdown /\ WorkerNeeded, ForkWakeup)
        \cup For(Excessive, timer.exit)
        \cup {wakeup[l] : l \in {k \in Listener : IsTimer(k) /\ Queued(k)}}
        \cup {expiration[w] : w \in IF pool.idle_timeout THEN FirstIdle(1) ELSE {}}

\* moonbr_calc_wait, and the timer for excessive workers is started or cleared.
EndServe ==
    /\ pc = "serve" /\ ~CanConnect /\ ~MayFork /\ ~MayTerminate
    /\ wait' \in Wakeups \cup {"unset"}
    /\ \A t \in Wakeups : Rank[wait'] <= Rank[t]
    /\ timer' = IF shutdown THEN timer
                ELSE [timer EXCEPT !.exit = IF Excessive THEN "future" ELSE "unset"]
    /\ terminated' = 0
    /\ Goto("finish")
    /\ UNCHANGED <<pool, shutdown, signals, polling, queues, channels, wakeup,
                   use_fork_error, listeners, children, pending, budget>>

-----------------------------------------------------------------------------
(* The master: shutdown and poll                                           *)

\* Variant: the workers are taken from the queue and not told.
ForgetIdle ==
    /\ pc = "finish" /\ shutdown /\ idle # <<>>
    /\ PopIdle(1)
    /\ UNCHANGED <<pc, exit, pool, shutdown, wait, signals, polling, workers, main,
                   channels, timers, listeners, children, pending, budget>>

ShutdownIdle ==
    /\ pc = "finish" /\ shutdown /\ idle # <<>>
    /\ \/ SendFails(FirstIdle(1)) /\ Terminate("badfd")
       \/ /\ ~SendFails(FirstIdle(1))
          /\ TerminateIdle
          /\ UNCHANGED <<pc, exit, pool, shutdown, wait, signals, polling, channels,
                         timers, listeners, pending, budget>>

ShutdownComplete ==
    /\ pc = "finish" /\ shutdown /\ workers = <<>>
    /\ Terminate("graceful")

\* moonbr_poll_refresh: the open descriptors, in the order of the workers.
PollWorkers ==
    LET entry == [i \in 1..(2 * Len(workers)) |->
                    <<workers[(i + 1) \div 2], IF i % 2 = 1 THEN "control" ELSE "error">>]
    IN  Keep(entry, {e \in Entry : e[2] \in Channel(e[1])})

BeginPoll ==
    /\ pc = "finish" /\ (shutdown => idle = <<>> /\ workers # <<>>)
    /\ poll_workers' = IF refresh_needed THEN PollWorkers ELSE poll_workers
    /\ refresh_needed' = FALSE
    /\ cond' = cond \cup {"poll"}
    /\ Goto("check")
    /\ UNCHANGED <<pool, shutdown, wait, signalfd, revents, queues, channels, timers,
                   listeners, children, pending, budget>>

\* A signal has come already: no poll.
SkipPoll == /\ pc = "check" /\ cond # {"poll"} /\ Goto("top")
            /\ UNCHANGED <<pool, shutdown, wait, signals, polling, queues, channels,
                           timers, listeners, children, pending, budget>>

EnterPoll == /\ pc = "check" /\ cond = {"poll"}
             /\ \/ wait = "past" /\ Terminate("past")
                \/ /\ wait # "past" /\ Goto("polling")
                   /\ UNCHANGED <<pool, shutdown, wait, signals, polling, queues,
                                  channels, timers, listeners, children, pending, budget>>

\* A socket is polled while its listener is idle, and not after shutdown.
Polled(l) == IsSocket(l) /\ ~shutdown /\ \E i \in DOMAIN idle_listeners : idle_listeners[i] = l

ReadyEntries ==
    {e \in {poll_workers[i] : i \in DOMAIN poll_workers} : Readable(e)}
    \cup {<<l, "listener">> : l \in {k \in Listener : Polled(k) /\ pending[k] > 0}}

\* poll() returns: something is ready, a byte from the signal handler, or the
\* timeout, which is rounded down and may come early.
PollReturns ==
    /\ pc = "polling"
    /\ ReadyEntries # {} \/ signalfd \/ wait # "unset"
    /\ revents' = ReadyEntries
    /\ Goto("top")
    /\ UNCHANGED <<pool, shutdown, wait, signals, poll_workers, refresh_needed, queues,
                   channels, timers, listeners, children, pending, budget>>

Master ==
    \/ StartServer \/ (\E o \in Options : Listen(o)) \/ NoListener \/ StartRun
    \/ \E ts \in SUBSET DOMAIN timer, ls \in SUBSET Listener, n \in 0..Len(idle) :
            Top(ts, ls, n)
    \/ ExpireIdle \/ MarkListeners \/ ProcessInput \/ CollectDead
    \/ Connect \/ (\E w \in Worker : CreateWorker(w)) \/ ForkFails
    \/ TerminateExcessive \/ EndServe
    \/ ShutdownIdle \/ ShutdownComplete
    \/ BeginPoll \/ SkipPoll \/ EnterPoll \/ PollReturns

Running == exit = "no" /\ pool # NoPool

Next == \/ exit = "no" /\ Master
        \/ Running /\ ((\E w \in Worker : Child(w)) \/ Environment)
        \/ exit # "no" /\ UNCHANGED vars

\* The master runs when it can; a child gets on, and "connect" returns; no point
\* in time stays in the future forever.
TopLate == exit = "no" /\ Top(DOMAIN timer, Listener, Len(idle))

Fairness == /\ WF_vars(exit = "no" /\ Master)
            /\ SF_vars(TopLate)
            /\ \A w \in Worker : WF_vars(Running /\ Child(w))

Spec     == Init /\ [][Next]_vars
FairSpec == Spec /\ Fairness

-----------------------------------------------------------------------------
(* Properties                                                              *)

Block == {"main", "script", "start", "top", "expire", "input", "serve", "finish", "check",
          "polling", "done"}
Reason == {"no", "running", "startup", "graceful", "badfd", "data", "past"}

\* The state has the declared form.
TypeOK ==
    /\ pc \in Block /\ exit \in Reason
    /\ shutdown \in BOOLEAN /\ signalfd \in BOOLEAN /\ refresh_needed \in BOOLEAN
    /\ cond \subseteq {"interrupt", "terminate", "child", "poll"}
    /\ poll_workers \in Seq(Entry) /\ wait \in Time
    /\ workers \in Seq(Worker) /\ idle \in Seq(Worker)
    /\ count \in [idle : Nat, unassigned : Nat, total : Nat]
    /\ assigned \subseteq Worker /\ main \subseteq Worker
    /\ control \subseteq Worker /\ error \subseteq Worker
    /\ expiration \in [Worker -> Time]
    /\ timer \in [fork : Time, fork_error : Time, exit : Time]
    /\ use_fork_error \in BOOLEAN /\ terminated \in Nat
    /\ proc \in [Worker -> {"none", "prepare", "waiting", "taken", "connect", "finish",
                            "exiting", "zombie"}]
    /\ sigterm \subseteq Worker
    /\ commands \in [Worker -> Seq({"connect", "terminate"})]
    /\ statuses \in [Worker -> Seq({"idle", "goodbye"})]

\* The three counters that decide when to fork and whom to stop are what the
\* lists and flags say, and the pool stays within max_fork.
CountsAgree ==
    pool # NoPool /\ exit = "no" =>
        /\ count.total = Len(workers) /\ count.total = Cardinality(Listed)
        /\ count.idle = Len(idle) /\ count.idle = Cardinality(Idling)
        /\ count.unassigned = Cardinality(Listed \ assigned)
        /\ Idling \subseteq Listed \ assigned
        /\ count.total <= pool.max_fork

\* No interval timer or socket is lost or queued twice: whatever becomes of the
\* worker that had it, a listener is in one queue or with one living structure.
ListenerInOnePlace ==
    pool # NoPool /\ exit = "no" /\ pc # "start" =>
        \A l \in Listener :
            LET places == Cardinality({i \in DOMAIN idle_listeners : idle_listeners[i] = l})
                        + Cardinality({i \in DOMAIN connected_listeners :
                                            connected_listeners[i] = l})
                        + Cardinality({w \in Listed : restart[w] = l})
            IN  IF IsMain(l) THEN places <= 1 ELSE places = 1

\* A worker in the idle queue is waiting for a command and has not been given
\* one, or it is dead: no worker is given two connections.
IdleAreWaiting ==
    exit = "no" =>
    \A w \in Idling : Alive(w) => proc[w] = "waiting" /\ commands[w] = <<>>

\* When the master sleeps it watches every open descriptor of every worker, and
\* what poll() reported is handled before the descriptor or worker is gone.
PollsOpenChannels ==
    LET open == {e \in Entry : e[1] \in Listed /\ e[2] \in Channel(e[1])} IN
    /\ pc = "polling" => {poll_workers[i] : i \in DOMAIN poll_workers} = open
    /\ {e \in revents : e[2] # "listener"} \subseteq open

\* "Internal error (should not happen): Future is in the past", and "Unexpected
\* data from supposedly idle child": neither happens.
NeverShouldHappen == exit \notin {"past", "data"}

\* What the master has written down of its workers and listeners in several places
\* agrees, whatever the order in which messages, closed sockets, deaths and timers
\* are dealt with.
PoolIsConsistent ==
    CountsAgree /\ ListenerInOnePlace /\ IdleAreWaiting /\ PollsOpenChannels /\ NeverShouldHappen

\* A child that has died is waited for, though SIGCHLD may come before or after
\* its sockets are closed and at any point of the loop.
DeadAreReaped == \A w \in Worker : proc[w] = "zombie" ~> proc[w] # "zombie" \/ exit # "no"

\* A shutdown ends: no worker is left waiting for a command that never comes.
ShutdownCompletes == shutdown ~> exit # "no"

\* A connection that waits is accepted, however workers die and forks fail, as
\* long as "connect" returns.
Waiting(i) == i \in DOMAIN pending /\ pending[i] > 0
PendingIsServed ==
    \A i \in UNION {DOMAIN o.listen : o \in Options} :
        Waiting(i) ~> ~Waiting(i) \/ shutdown \/ exit # "no"

=============================================================================
