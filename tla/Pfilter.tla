------------------------------ MODULE Pfilter ------------------------------
(***************************************************************************)
(* extos.pfilter (extos.c): runs a program, feeds it a string and collects *)
(* what it writes to its standard output and error, through pipes that     *)
(* hold only so much.  WebMCP and LiquidFeedback use it for mails, curl    *)
(* and images.                                                             *)
(*                                                                         *)
(* The program may be any sequence of reads and writes, each of which      *)
(* waits as long as its pipe is empty or full.  Bytes are numbered.        *)
(***************************************************************************)
EXTENDS Integers, Sequences, SequencesExt, FiniteSets

CONSTANTS
    Programs,       \* sequences of "in" (read a byte), "out" and "err" (write one)
    InLens,         \* lengths of the input
    PipeLen,        \* the bytes a pipe holds
    BufLen,         \* the bytes out_buf and err_buf hold at first
    MaxFailures     \* bound: calls of the system that fail

ASSUME PfilterAssumption ==
    /\ Programs \subseteq Seq({"in", "out", "err"}) /\ InLens \subseteq Nat
    /\ PipeLen \in Nat \ {0} /\ BufLen \in Nat \ {0} /\ MaxFailures \in Nat

VARIABLES
    fpc,            \* where pfilter is
    fds,            \* the descriptors of pipes this process has open
    in_len, in_pos, \* the input, and how much of it has been written
    buf, buflen,    \* out_buf and err_buf up to out_pos and err_pos, and their size
    child,          \* "none", "forked", "running", "ended" or "reaped"
    program,        \* what it still does
    pipe,           \* what the pipes hold
    report,         \* what the status pipe holds: "nothing", or why there was no exec
    eaten,          \* the input that the child has read
    written,        \* the number of bytes it has written
    exitstatus,
    outcome,        \* what pfilter returns, or raises
    failures

childvars == <<child, program, report, eaten, written, exitstatus>>
filtervars == <<fpc, fds, in_len, in_pos, buf, buflen, childvars, pipe, outcome, failures>>

Output == {"out", "err"}

\* The ends of the pipes: [0] is read, [1] is written.
Pair(p) == {<<p, 0>>, <<p, 1>>}
InEnd == <<"in", 1>>
OutEnd(p) == <<p, 0>>

Fails == failures < MaxFailures /\ failures' = failures + 1

-----------------------------------------------------------------------------
(* Before the fork                                                         *)

\* The pipes, in the order they are made, and what follows.
Order == <<"status", "in", "out", "err">>
Opening == <<"open status", "open in", "open out", "open err", "fork">>

\* A pipe is made; the end for the input is closed at once if there is none.
OpenPipe(k) ==
    /\ fpc = Opening[k] /\ fpc' = Opening[k + 1]
    /\ fds' = (fds \cup Pair(Order[k]))
                 \ (IF Order[k] = "in" /\ in_len = 0 THEN {InEnd} ELSE {})
    /\ UNCHANGED <<in_len, in_pos, buf, buflen, childvars, pipe, outcome, failures>>

\* The labels A4 to A1 close the pipes that have been made, the last ones first.
Cleanup(k) == UNION {Pair(Order[j]) : j \in 1 .. k - 1}

\* pipe() or fork() fails, or the fcntl() that follows a pipe.
OpenFails(k) ==
    /\ fpc = Opening[k] /\ Fails
    /\ fds' = fds \ Cleanup(k)
    /\ outcome' = "raised" /\ fpc' = "done"
    /\ UNCHANGED <<in_len, in_pos, buf, buflen, childvars, pipe>>

\* The parent closes the ends of the child.
Fork ==
    /\ fpc = "fork"
    /\ child' = "forked" /\ fpc' = "alloc"
    /\ fds' = fds \ {<<"status", 1>>, <<"in", 0>>, <<"out", 1>>, <<"err", 1>>}
    /\ UNCHANGED <<in_len, in_pos, buf, buflen, program, pipe, report, eaten, written,
                   exitstatus, outcome, failures>>

-----------------------------------------------------------------------------
(* The child                                                               *)

\* The ends of the child stay open until it ends: a program closes duplicates.
Running == child = "running"

End(status) == child' = "ended" /\ exitstatus' = status

Exec ==
    /\ child = "forked" /\ child' = "running"
    /\ UNCHANGED <<fpc, fds, in_len, in_pos, buf, buflen, program, pipe, report, eaten, written,
                   exitstatus, outcome, failures>>

\* dup() or execvp() fails: the child says so, and ends.
ExecFails ==
    /\ child = "forked" /\ Fails
    /\ report' \in {"remapping", "errno"}
    /\ End(0)
    /\ UNCHANGED <<fpc, fds, in_len, in_pos, buf, buflen, program, pipe, eaten, written, outcome>>

\* A read takes a byte, or finds the end of the input.
ChildReads ==
    /\ Running /\ program # <<>> /\ Head(program) = "in"
    /\ pipe.in # <<>> \/ InEnd \notin fds
    /\ program' = Tail(program)
    /\ IF pipe.in # <<>>
         THEN /\ eaten' = Append(eaten, Head(pipe.in))
              /\ pipe' = [pipe EXCEPT !.in = Tail(@)]
         ELSE UNCHANGED <<eaten, pipe>>
    /\ UNCHANGED <<fpc, fds, in_len, in_pos, buf, buflen, child, report, written, exitstatus,
                   outcome, failures>>

\* The ends the parent reads that the child has inherited and keeps open.
Inherited == {OutEnd("err")}

\* A write waits for room; to a pipe nobody reads it ends the program.
ChildWrites ==
    /\ Running /\ program # <<>>
    /\ \E p \in Output :
        /\ Head(program) = p
        /\ IF OutEnd(p) \in fds \cup Inherited
             THEN /\ Len(pipe[p]) < PipeLen
                  /\ pipe' = [pipe EXCEPT ![p] = Append(@, written[p] + 1)]
                  /\ written' = [written EXCEPT ![p] = @ + 1]
                  /\ program' = Tail(program) /\ UNCHANGED <<child, exitstatus>>
             ELSE End(-1) /\ UNCHANGED <<pipe, written, program>>
    /\ UNCHANGED <<fpc, fds, in_len, in_pos, buf, buflen, report, eaten, outcome, failures>>

ChildExits ==
    /\ Running /\ program = <<>>
    /\ End(1)
    /\ UNCHANGED <<fpc, fds, in_len, in_pos, buf, buflen, program, pipe, report, eaten, written,
                   outcome, failures>>

ChildKilled ==
    /\ Running /\ Fails
    /\ End(-1)
    /\ UNCHANGED <<fpc, fds, in_len, in_pos, buf, buflen, program, pipe, report, eaten, written,
                   outcome>>

-----------------------------------------------------------------------------
(* The parent                                                              *)

Holding == child \in {"forked", "running"}

\* The label B: what the pipes hold is given up, the buffers are freed, and the
\* child is waited for.  The read end of the status pipe stays open.
ErrorB ==
    /\ fds' = fds \ ({InEnd} \cup {OutEnd(p) : p \in Output})
    /\ fpc' = "reap" /\ outcome' = "raised"

\* out_buf or err_buf cannot be had, or a call fails for no good reason.
FilterFails ==
    /\ fpc \in {"alloc", "poll", "write", "out", "err"} /\ Fails
    /\ ErrorB
    /\ UNCHANGED <<in_len, in_pos, buf, buflen, childvars, pipe>>

Alloc ==
    /\ fpc = "alloc" /\ fpc' = "poll"
    /\ UNCHANGED <<fds, in_len, in_pos, buf, buflen, childvars, pipe, outcome, failures>>

Using == fds \cap ({InEnd} \cup {OutEnd(p) : p \in Output})

\* poll() waits until one of the ends that are open can be used, or is broken.
Ready ==
    \/ InEnd \in fds /\ (Len(pipe.in) < PipeLen \/ ~Holding)
    \/ \E p \in Output : OutEnd(p) \in fds /\ (pipe[p] # <<>> \/ ~Holding)

PollPipes ==
    /\ fpc = "poll"
    /\ IF Using = {} THEN fpc' = "wait" ELSE Ready /\ fpc' = "write"
    /\ UNCHANGED <<fds, in_len, in_pos, buf, buflen, childvars, pipe, outcome, failures>>

\* Variant: the whole input is written before anything is read (O_NONBLOCK is
\* missing).
NoRoomWaits == Len(pipe.in) < PipeLen \/ ~Holding

\* write() returns at once.
NoRoom == TRUE

\* The end for the input is closed when all is written, or nobody reads it.
WriteInput ==
    LET room == PipeLen - Len(pipe.in)
        left == in_len - in_pos
        k    == IF ~Holding THEN 0 ELSE IF left < room THEN left ELSE room
    IN  /\ fpc = "write" /\ fpc' = "out"
        /\ IF InEnd \notin fds THEN UNCHANGED <<fds, in_pos, pipe>>
           ELSE /\ NoRoom
                /\ pipe' = [pipe EXCEPT !.in = @ \o [j \in 1 .. k |-> in_pos + j]]
                /\ in_pos' = in_pos + k
                /\ fds' = IF ~Holding \/ k = left THEN fds \ {InEnd} ELSE fds
        /\ UNCHANGED <<in_len, buf, buflen, childvars, outcome, failures>>

\* Variant: the buffer grows when it is overfull.
FullLate(p, n) == Len(buf[p]) + n > buflen[p]

Full(p, n) == Len(buf[p]) + n = buflen[p]

\* read() fills what is left of the buffer, which doubles when it is full; nothing
\* is the end, as is a read into no space.
ReadOutput(p) ==
    LET n == IF Len(pipe[p]) < buflen[p] - Len(buf[p]) THEN Len(pipe[p]) ELSE buflen[p] - Len(buf[p])
    IN  /\ fpc = p /\ fpc' = IF p = "out" THEN "err" ELSE "poll"
        /\ IF OutEnd(p) \notin fds \/ (pipe[p] = <<>> /\ Holding)
             THEN UNCHANGED <<fds, buf, buflen, pipe>>
             ELSE /\ buf' = [buf EXCEPT ![p] = @ \o SubSeq(pipe[p], 1, n)]
                  /\ pipe' = [pipe EXCEPT ![p] = SubSeq(@, n + 1, Len(@))]
                  /\ buflen' = IF n > 0 /\ Full(p, n) THEN [buflen EXCEPT ![p] = 2 * @] ELSE buflen
                  /\ fds' = IF n = 0 THEN fds \ {OutEnd(p)} ELSE fds
        /\ UNCHANGED <<in_len, in_pos, childvars, outcome, failures>>

\* waitpid(), then the status pipe, whose other end has gone with the child.
Reap ==
    /\ fpc \in {"wait", "reap"} /\ child = "ended"
    /\ child' = "reaped"
    /\ fpc' = IF fpc = "wait" THEN "status" ELSE "done"
    /\ UNCHANGED <<fds, in_len, in_pos, buf, buflen, program, pipe, report, eaten, written,
                   exitstatus, outcome, failures>>

\* Variant: the status pipe is not asked.
NoReport == "returned"

Verdict ==
    IF report = "nothing" THEN "returned" ELSE IF report = "remapping" THEN "raised" ELSE "not executed"

ReadStatus ==
    /\ fpc = "status" /\ fpc' = "done"
    /\ fds' = fds \ {<<"status", 0>>}
    /\ outcome' = Verdict
    /\ UNCHANGED <<in_len, in_pos, buf, buflen, childvars, pipe, failures>>

-----------------------------------------------------------------------------
PfilterStart(n, p, f) ==
    /\ in_len = n /\ program = p /\ failures = f
    /\ fpc = Opening[1] /\ fds = {} /\ in_pos = 0
    /\ buf = [o \in Output |-> <<>>] /\ buflen = [o \in Output |-> BufLen]
    /\ child = "none" /\ pipe = [q \in {"in", "out", "err"} |-> <<>>] /\ report = "nothing"
    /\ eaten = <<>> /\ written = [o \in Output |-> 0] /\ exitstatus = 0 /\ outcome = "none"

PfilterInit == \E n \in InLens, p \in Programs : PfilterStart(n, p, 0)

Parent ==
    \/ \E k \in 1 .. 4 : OpenPipe(k)
    \/ Fork \/ Alloc \/ PollPipes \/ WriteInput \/ \E p \in Output : ReadOutput(p)
    \/ Reap \/ ReadStatus

Child == Exec \/ ChildReads \/ ChildWrites \/ ChildExits

PfilterNext ==
    \/ Parent \/ Child
    \/ \E k \in 1 .. 5 : OpenFails(k)
    \/ FilterFails \/ ExecFails \/ ChildKilled

\* Both processes go on with what they can do.
PfilterFairness == WF_filtervars(Parent) /\ WF_filtervars(Child)

PfilterSpec == PfilterInit /\ [][PfilterNext]_filtervars /\ PfilterFairness

-----------------------------------------------------------------------------
(* Properties                                                              *)

\* The state has the declared form, and reads and writes stay within the buffers.
PfilterTypeOK ==
    /\ fds \subseteq UNION {Pair(p) : p \in {"status", "in", "out", "err"}}
    /\ in_pos \in 0 .. in_len
    /\ \A p \in Output : Len(buf[p]) < buflen[p] /\ Len(pipe[p]) <= PipeLen
    /\ Len(pipe.in) <= PipeLen
    /\ child \in {"none", "forked", "running", "ended", "reaped"}
    /\ report \in {"nothing", "errno", "remapping"}
    /\ outcome \in {"none", "returned", "not executed", "raised"}

\* pfilter returns as the output what the program has written to either pipe, all
\* of it and in order, and only if there was a program; and while that one runs, it
\* has read the input from its beginning.
OutputComplete ==
    /\ outcome = "returned" =>
        /\ report = "nothing"
        /\ \A p \in Output : buf[p] = [k \in 1 .. written[p] |-> k]
    /\ eaten \o pipe.in = [k \in 1 .. in_pos |-> k]

\* Nothing is left behind: no process to be waited for, and no descriptor but, when
\* an error is raised after the fork, that of the status pipe.
NothingLeft ==
    fpc = "done" =>
        /\ child \in {"none", "reaped"}
        /\ fds \subseteq (IF outcome = "raised" /\ child = "reaped" THEN {<<"status", 0>>} ELSE {})

\* However pfilter ends, it has told what happened and left nothing behind.
FilterIsClean == OutputComplete /\ NothingLeft

\* After an error the program may wait for ever to write to its standard error,
\* the reading end of which it holds itself.
StuckOnItself ==
    /\ fpc = "reap" /\ child = "running"
    /\ program # <<>> /\ Head(program) = "err" /\ Len(pipe.err) = PipeLen
=============================================================================
