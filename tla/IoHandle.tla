------------------------------ MODULE IoHandle ------------------------------
(***************************************************************************)
(* An I/O handle of moonbridge_io.c: the buffers between a process that    *)
(* reads and writes, blocking or not, and a socket; and the peer at the    *)
(* other end, which may be stubborn, stall or reset the connection.        *)
(*                                                                         *)
(* The bytes the process writes, and those the peer sends, are numbered,   *)
(* so that a lost, repeated or displaced one shows.  The strings in        *)
(* "writequeue" are one sequence: where one ends and the next begins makes *)
(* no difference to what is copied into the buffer.                        *)
(*                                                                         *)
(* A call runs from one system call to the next.  What waits is a state,   *)
(* pc: "fill", "full" and "flush" are the loops of write_impl, "read" that *)
(* of read_impl, "poll" the function that *_call are given to wait with.   *)
(***************************************************************************)
EXTENDS Integers, Sequences, SequencesExt

CONSTANTS
    WriteBufLen, ReadBufLen,    \* MOONBR_IO_WRITEBUFLEN, MOONBR_IO_READBUFLEN
    Kernel,         \* the bytes the connection holds in each direction
    MaxOut, MaxIn,  \* bound: bytes the process writes, and the peer sends
    Terminators,    \* those of the peer's bytes that are the terminator
    MaxLens,        \* the limits reads are given, -1 for none
    MaxCalls,       \* bound: calls by the process
    MaxFaults       \* bound: a peer that stalls or resets the connection

ASSUME IoAssumption ==
    /\ WriteBufLen \in Nat \ {0} /\ ReadBufLen \in Nat \ {0} /\ Kernel \in Nat \ {0}
    /\ MaxOut \in Nat /\ MaxIn \in Nat /\ MaxCalls \in Nat /\ MaxFaults \in Nat
    /\ Terminators \subseteq 1 .. MaxIn /\ MaxLens \subseteq Nat \cup {-1}

VARIABLES
    \* the connection and the peer
    inet,           \* addrfam is AF_INET or AF_INET6
    reset,          \* the connection has been reset
    sendq, recvq,   \* the bytes under way
    outfin, infin,  \* the process, the peer sends no more
    got,            \* the bytes the peer has read
    sent,           \* the number of bytes it has sent
    peer,           \* "eager", "stubborn" (reads when it has sent all), "stalled" or "gone"
    \* moonbr_io_handle_t
    open,           \* fd >= 0
    finished, closed, nonblocking, nopush,
    readerr,
    readbuf,        \* what is between readbufout and readbufin
    writeerr, writeleft, flushedleft,
    writeq,         \* what is in the queue and not yet in the buffer
    writebuf,       \* the buffer up to writebufin
    writebufout,
    \* the process
    pc,
    call,           \* the call in progress, or the last one
    result,         \* what it returned
    luabuf,         \* what a read has so far
    returned,       \* all bytes that reads have returned
    accepted,       \* the number of bytes that have been written to the handle
    consume,        \* the HTTP server reads, to drain, while it waits to write
    sawEof,         \* a read has met the end
    calls, faults

connection == <<inet, reset, sendq, recvq, outfin, infin, got, sent, peer, faults>>
kernel     == <<reset, sendq, recvq, outfin>>
reading    == <<readerr, readbuf, luabuf, returned, consume, sawEof>>
buffers    == <<writeleft, flushedleft, writeq, writebuf, writebufout>>
writing    == <<writeerr, buffers, nopush, accepted>>
handle     == <<open, finished, closed>>
control    == <<pc, call, result, calls>>
iovars     == <<connection, reading, writing, handle, nonblocking, control>>

Smaller(a, b) == IF a <= b THEN a ELSE b
Prefix(s, n) == SubSeq(s, 1, n)
Rest(s, n) == SubSeq(s, n + 1, Len(s))

-----------------------------------------------------------------------------
(* Closing the descriptor                                                  *)

\* close(fd): with unread input, or SO_LINGER with a timeout of zero, the
\* connection is reset and what is under way is lost.
CloseFd(linger) ==
    /\ open' = FALSE
    /\ IF (inet /\ linger = 0) \/ recvq # <<>> \/ reset
         THEN reset' = TRUE /\ sendq' = <<>> /\ recvq' = <<>> /\ UNCHANGED outfin
         ELSE outfin' = TRUE /\ UNCHANGED <<reset, sendq, recvq>>

-----------------------------------------------------------------------------
(* Writing                                                                 *)

Plain(op) ==
    [op |-> op, mode |-> "wait", flush |-> FALSE, found |-> FALSE, max |-> -1, term |-> FALSE]

Begin(c) ==
    /\ pc = "idle" /\ calls < MaxCalls
    /\ calls' = calls + 1 /\ call' = c

\* Variant: only the new strings are flushed.
ToFlushNew(n) == n

\* The bytes that are to leave before a flush is done.
ToFlush(n) == writeleft + n

\* The strings are queued.
Queue(n, flush) ==
    /\ writeq' = writeq \o [k \in 1 .. n |-> accepted + k]
    /\ accepted' = accepted + n /\ writeleft' = writeleft + n
    /\ flushedleft' = IF flush THEN ToFlush(n) ELSE flushedleft
    /\ writeerr' = TRUE /\ pc' = "fill"
    /\ UNCHANGED <<writebuf, writebufout, nopush>>

\* write, write_nb, write_call, and flush, flush_nb, flush_call, which take
\* strings too.  "found", for the properties, is whether there is anything to send.
Write(n, mode, flush) ==
    /\ Begin([op |-> "write", mode |-> mode, flush |-> flush, found |-> writeleft + n > 0,
              max |-> -1, term |-> FALSE])
    /\ ~closed /\ ~finished /\ ~writeerr
    /\ n > 0 \/ flush
    /\ accepted + n <= MaxOut
    /\ Queue(n, flush)
    /\ nonblocking' = (mode # "wait") /\ result' = "none"
    /\ UNCHANGED <<connection, reading, handle>>

\* A call returns 0, a number of bytes ("block"), or nil.  With bytes left,
\* *_call go on to wait.  finish and close go on when what they flush is out.
WriteReturn(r) ==
    /\ result' = r
    /\ pc' = IF call.op = "write"
               THEN IF r = "block" /\ call.mode = "call" THEN "poll" ELSE "idle"
               ELSE IF r = "done" THEN call.op ELSE "fail"
    /\ writeerr' = (r = "error")

\* The queue is copied into the buffer as far as it goes.
Fill ==
    LET free == WriteBufLen - Len(writebuf)
    IN  /\ pc = "fill"
        /\ writebuf' = writebuf \o Prefix(writeq, Smaller(free, Len(writeq)))
        /\ writeq' = Rest(writeq, Smaller(free, Len(writeq)))
        /\ pc' = IF writeq # <<>> /\ Len(writeq) >= free THEN "full" ELSE "flush"
        /\ UNCHANGED <<connection, reading, handle, nonblocking, call, result, calls, writeerr,
                       writeleft, flushedleft, writebufout, nopush, accepted>>

StillFlushed(k) == IF k >= flushedleft THEN 0 ELSE flushedleft - k

\* Variant: the buffer is started anew, whatever is left of it.
OutOrAll(k) == WriteBufLen

Out(k) == writebufout + k

\* write() takes what there is room for.  A buffer that is full is emptied;
\* after that the rest is written as long as bytes to flush are left.
WriteOut(k) ==
    /\ k \in 1 .. Smaller(Kernel - Len(sendq), Len(writebuf) - writebufout)
    /\ ~reset
    /\ sendq' = sendq \o SubSeq(writebuf, writebufout + 1, writebufout + k)
    /\ writeleft' = writeleft - k
    /\ flushedleft' = StillFlushed(k)
    /\ nopush' = IF ~inet THEN nopush ELSE IF flushedleft > 0 /\ flushedleft' = 0 THEN 0 ELSE 1
    /\ IF pc = "full" /\ Out(k) = WriteBufLen
         THEN writebuf' = <<>> /\ writebufout' = 0 /\ pc' = "fill"
         ELSE writebufout' = Out(k) /\ UNCHANGED <<writebuf, pc>>
    /\ UNCHANGED <<inet, reset, recvq, outfin, infin, got, sent, peer, faults, reading, handle,
                   nonblocking, call, result, calls, writeerr, writeq, accepted>>

Emptying == pc = "full" \/ (pc = "flush" /\ flushedleft > 0)

PutBytes == Emptying /\ \E k \in 1 .. WriteBufLen : WriteOut(k)

\* No room: a blocking write() waits, the other fails with EAGAIN, which is an
\* error to a call that is not to block.
PutBlocked ==
    /\ Emptying /\ ~reset /\ Len(sendq) = Kernel /\ nonblocking
    /\ nopush' = IF inet THEN 1 ELSE nopush
    /\ WriteReturn(IF call.mode = "wait" THEN "error" ELSE "block")
    /\ UNCHANGED <<connection, reading, handle, nonblocking, call, calls, buffers, accepted>>

PutFails ==
    /\ Emptying /\ reset
    /\ WriteReturn("error")
    /\ UNCHANGED <<connection, reading, handle, nonblocking, call, calls, buffers, nopush, accepted>>

WriteDone ==
    /\ pc = "flush" /\ flushedleft = 0
    /\ IF writebufout = Len(writebuf)
         THEN writebuf' = <<>> /\ writebufout' = 0
         ELSE UNCHANGED <<writebuf, writebufout>>
    /\ WriteReturn("done")
    /\ UNCHANGED <<connection, reading, handle, nonblocking, call, calls,
                   writeq, writeleft, flushedleft, nopush, accepted>>

-----------------------------------------------------------------------------
(* Reading                                                                 *)

\* read, read_nb, read_call; drain, drain_nb and drain_call forget what they
\* read.
Read(max, term, mode) ==
    /\ Begin([op |-> "read", mode |-> mode, flush |-> FALSE, found |-> FALSE,
              max |-> max, term |-> term])
    /\ ~closed /\ ~readerr
    /\ open
    /\ readerr' = TRUE /\ luabuf' = <<>> /\ pc' = "read"
    /\ nonblocking' = (mode # "wait") /\ result' = "none"
    /\ UNCHANGED <<connection, writing, handle, readbuf, returned, consume, sawEof>>

\* Variant: the limit of each part of a read that waits is that of the whole.
WantAll == IF call.max < 0 THEN -1 ELSE Smaller(call.max, Len(luabuf) + call.max)

\* How much a read may still take: read_call asks for less after each part.
Want == IF call.max < 0 THEN -1 ELSE call.max - Len(luabuf)

\* The bytes of the buffer a read would take, and those up to the terminator.
InSight == IF Want >= 0 /\ Len(readbuf) >= Want THEN Prefix(readbuf, Want) ELSE readbuf
Ends == {k \in 1 .. Len(InSight) : call.term /\ InSight[k] \in Terminators}
Whole == Want >= 0 /\ Len(readbuf) >= Want

\* Of a read that is over nothing needs to be known.
ReadReturn(status, data) ==
    /\ result' = status /\ pc' = "idle" /\ call' = Plain("read")
    /\ returned' = returned \o data /\ luabuf' = <<>>
    /\ readerr' = FALSE

\* What is left in the buffer after a read of n bytes.
Kept(n) == Rest(readbuf, n)

\* The read is answered from the buffer.
Serve ==
    /\ pc = "read"
    /\ Ends # {} \/ Whole
    /\ LET n == IF Ends # {} THEN CHOOSE k \in Ends : \A j \in Ends : k <= j ELSE Want
       IN  /\ ReadReturn(IF Ends # {} THEN "term" ELSE "maxlen", luabuf \o Prefix(readbuf, n))
           /\ readbuf' = Kept(n)
    /\ UNCHANGED <<connection, writing, handle, nonblocking, calls, consume, sawEof>>

\* The buffer is not enough: read() fills it again.
Fetch ==
    /\ pc = "read" /\ Ends = {} /\ ~Whole
    /\ recvq # <<>>
    /\ LET n == Smaller(ReadBufLen, Len(recvq))
       IN  readbuf' = Prefix(recvq, n) /\ recvq' = Rest(recvq, n)
    /\ luabuf' = luabuf \o readbuf
    /\ UNCHANGED <<inet, reset, sendq, outfin, infin, got, sent, peer, faults, writing, handle,
                   nonblocking, control, readerr, returned, consume, sawEof>>

\* read() meets the end, or nothing, for which read_call waits.
FetchNothing ==
    /\ pc = "read" /\ Ends = {} /\ ~Whole
    /\ recvq = <<>> /\ ~reset
    /\ readbuf' = <<>>
    /\ \/ /\ infin
          /\ ReadReturn("eof", luabuf \o readbuf) /\ sawEof' = TRUE
       \/ /\ ~infin /\ nonblocking /\ call.mode = "nb"
          /\ ReadReturn("block", luabuf \o readbuf) /\ UNCHANGED sawEof
       \/ /\ ~infin /\ nonblocking /\ call.mode = "call"
          /\ luabuf' = luabuf \o readbuf /\ readerr' = FALSE /\ pc' = "poll"
          /\ UNCHANGED <<call, result, returned, sawEof>>
    /\ UNCHANGED <<connection, writing, handle, nonblocking, calls, consume>>

\* read() fails, and readerr remains set.
FetchFails ==
    /\ pc = "read" /\ Ends = {} /\ ~Whole
    /\ recvq = <<>> /\ (reset \/ (~infin /\ nonblocking /\ call.mode = "wait"))
    /\ result' = "error" /\ pc' = "idle" /\ luabuf' = <<>>
    /\ UNCHANGED <<connection, writing, handle, nonblocking, call, calls,
                   readerr, readbuf, returned, consume, sawEof>>

-----------------------------------------------------------------------------
(* finish, close, reset                                                    *)

\* What is left is flushed first, which fails after a write error, and raises an
\* error when the output has been finished before.
FlushOr(op) ==
    IF writeleft = 0 THEN pc' = op /\ UNCHANGED <<writing, nonblocking>>
    ELSE IF writeerr \/ finished THEN pc' = "fail" /\ UNCHANGED <<writing, nonblocking>>
    ELSE Queue(0, TRUE) /\ nonblocking' = FALSE

Finish ==
    /\ Begin(Plain("finish")) /\ ~closed /\ ~finished
    /\ FlushOr("finish") /\ result' = "none"
    /\ UNCHANGED <<connection, reading, handle>>

\* The output ends: shutdown(SHUT_WR), or the descriptor is closed and reads
\* from now on find the end.
FinishEnd ==
    /\ pc = "finish" /\ pc' = "idle"
    /\ finished' = TRUE
    /\ IF inet
         THEN /\ result' = IF reset THEN "error" ELSE "done"
              /\ outfin' = TRUE /\ UNCHANGED <<reset, sendq, recvq, open>>
         ELSE CloseFd(-1) /\ result' = "done"
    /\ UNCHANGED <<inet, infin, got, sent, peer, faults, reading, writing, closed, nonblocking,
                   call, calls>>

Close ==
    /\ Begin(Plain("close")) /\ ~closed
    /\ IF open
         THEN FlushOr("close") /\ result' = "none" /\ UNCHANGED closed
         ELSE closed' = TRUE /\ pc' = "idle" /\ result' = "done" /\ UNCHANGED <<writing, nonblocking>>
    /\ UNCHANGED <<connection, reading, open, finished>>

\* Variant: SO_LINGER stays as the handle was made.
LingerZero == 0

\* The socket was made to reset the connection; close() lets it end orderly.
Linger == -1

CloseEnd ==
    /\ pc = "close" /\ pc' = "idle"
    /\ closed' = TRUE /\ CloseFd(Linger) /\ result' = "done"
    /\ UNCHANGED <<inet, infin, got, sent, peer, faults, reading, writing, finished, nonblocking,
                   call, calls>>

\* What finish and close were to flush could not be sent.
FlushFails ==
    /\ pc = "fail" /\ pc' = "idle" /\ result' = "error"
    /\ IF call.op = "finish"
         THEN finished' = TRUE /\ UNCHANGED <<closed, open, kernel>>
         ELSE closed' = TRUE /\ CloseFd(0) /\ UNCHANGED finished
    /\ UNCHANGED <<inet, infin, got, sent, peer, faults, reading, writing, nonblocking, call, calls>>

\* reset, which the garbage collector calls too.
Reset ==
    /\ Begin(Plain("reset")) /\ ~closed
    /\ closed' = TRUE /\ result' = "done"
    /\ IF open THEN CloseFd(0) ELSE UNCHANGED <<kernel, open>>
    /\ UNCHANGED <<inet, infin, got, sent, peer, faults, reading, writing, finished, nonblocking, pc>>

-----------------------------------------------------------------------------
(* Waiting, as the HTTP server does                                        *)

Writable == Len(sendq) < Kernel \/ reset

\* Data in the buffer wakes up poll() as well.
Readable == readbuf # <<>> \/ recvq # <<>> \/ infin \/ reset

EnableDrain ==
    /\ pc = "idle" /\ open /\ ~consume /\ ~sawEof /\ calls < MaxCalls
    /\ consume' = TRUE
    /\ UNCHANGED <<connection, writing, handle, nonblocking, control,
                   readerr, readbuf, luabuf, returned, sawEof>>

\* drain_nb with a limit that is larger than what is there.
Drain ==
    IF readerr \/ reset
      THEN consume' = FALSE /\ readerr' = TRUE /\ UNCHANGED <<readbuf, recvq, returned, sawEof>>
      ELSE /\ returned' = returned \o readbuf \o recvq
           /\ readbuf' = <<>> /\ recvq' = <<>>
           /\ consume' = ~infin /\ sawEof' = (sawEof \/ infin) /\ UNCHANGED readerr

\* Variant: it waits to write only.
WakesToWrite == Writable

WakesUp == Writable \/ (consume /\ Readable)

AwaitsWrite == pc = "poll" /\ call.op = "write"
AwaitsRead == pc = "poll" /\ call.op = "read"

\* write_call goes on with a write_nb of nothing.
Unblock ==
    /\ AwaitsWrite /\ WakesUp
    /\ IF consume THEN Drain ELSE UNCHANGED <<readerr, readbuf, recvq, returned, consume, sawEof>>
    /\ writeerr' = TRUE /\ nonblocking' = TRUE /\ pc' = "fill"
    /\ UNCHANGED <<inet, reset, sendq, outfin, infin, got, sent, peer, faults, handle, luabuf,
                   call, result, calls, buffers, nopush, accepted>>

ReadAgain ==
    /\ AwaitsRead /\ Readable
    /\ readerr' = TRUE /\ nonblocking' = TRUE /\ pc' = "read"
    /\ UNCHANGED <<connection, writing, handle, call, result, calls,
                   readbuf, luabuf, returned, consume, sawEof>>

-----------------------------------------------------------------------------
(* The peer                                                                *)

Alive == peer \in {"eager", "stubborn"} /\ ~reset

MaySend == Alive /\ ~infin /\ sent < MaxIn /\ Len(recvq) < Kernel
MayRead == Alive /\ sendq # <<>> /\ (peer = "eager" \/ sent = MaxIn)

\* Having sent everything and read everything to the end, it ends the
\* connection.
MayEnd == Alive /\ ~infin /\ sent = MaxIn /\ outfin /\ sendq = <<>>

\* What it sends to a descriptor that is closed resets the connection.
PeerSend ==
    /\ MaySend
    /\ sent' = sent + 1
    /\ IF open
         THEN recvq' = Append(recvq, sent + 1) /\ UNCHANGED <<reset, sendq>>
         ELSE reset' = TRUE /\ sendq' = <<>> /\ recvq' = <<>>
    /\ UNCHANGED <<inet, outfin, infin, got, peer, faults, reading, writing, handle, nonblocking, control>>

PeerRead ==
    /\ MayRead
    /\ got' = Append(got, Head(sendq)) /\ sendq' = Tail(sendq)
    /\ UNCHANGED <<inet, reset, recvq, outfin, infin, sent, peer, faults, reading, writing, handle,
                   nonblocking, control>>

\* It may end its output before, as soon as it has sent everything.
PeerEnds ==
    /\ Alive /\ ~infin /\ sent = MaxIn
    /\ infin' = TRUE
    /\ UNCHANGED <<inet, reset, sendq, recvq, outfin, got, sent, peer, faults, reading, writing, handle,
                   nonblocking, control>>

PeerFails ==
    /\ Alive /\ faults < MaxFaults /\ faults' = faults + 1
    /\ \/ peer' = "stalled" /\ UNCHANGED <<reset, sendq, recvq>>
       \/ peer' = "gone" /\ reset' = TRUE /\ sendq' = <<>> /\ recvq' = <<>>
    /\ UNCHANGED <<inet, outfin, infin, got, sent, reading, writing, handle, nonblocking, control>>

\* When poll() has waited for long and nobody can do anything, its timeout ends
\* the wait: a connection to be written to is reset.  What consume_all has drained
\* until then is gone.
Timeout ==
    /\ ~(MaySend \/ MayRead \/ MayEnd)
    /\ \/ /\ AwaitsWrite /\ ~WakesUp
          /\ closed' = TRUE /\ CloseFd(0) /\ result' = "stalled" /\ UNCHANGED <<luabuf, returned>>
       \/ /\ AwaitsRead /\ ~Readable
          /\ returned' = returned \o luabuf /\ luabuf' = <<>>
          /\ result' = "timeout" /\ UNCHANGED <<closed, open, kernel>>
    /\ pc' = "idle"
    /\ UNCHANGED <<inet, infin, got, sent, peer, faults, readerr, readbuf, consume, sawEof,
                   writing, finished, nonblocking, call, calls>>

-----------------------------------------------------------------------------
IoStart(family, mood, drains) ==
    /\ inet = family /\ peer = mood /\ consume = drains
    /\ reset = FALSE /\ sendq = <<>> /\ recvq = <<>> /\ outfin = FALSE /\ infin = FALSE
    /\ got = <<>> /\ sent = 0 /\ faults = 0
    \* moonbr_io_pushhandle_impl
    /\ open = TRUE /\ finished = FALSE /\ closed = FALSE /\ nonblocking = FALSE /\ nopush = -1
    /\ readerr = FALSE /\ readbuf = <<>>
    /\ writeerr = FALSE /\ writeleft = 0 /\ flushedleft = 0
    /\ writeq = <<>> /\ writebuf = <<>> /\ writebufout = 0
    /\ pc = "idle" /\ call = Plain("reset") /\ result = "none" /\ calls = 0
    /\ luabuf = <<>> /\ returned = <<>> /\ accepted = 0 /\ sawEof = FALSE

IoInit ==
    \E family \in BOOLEAN, mood \in {"eager", "stubborn"}, drains \in BOOLEAN :
        IoStart(family, mood, drains)

Modes == {"wait", "nb", "call"}

NewCall ==
    \/ \E n \in 0 .. MaxOut, mode \in Modes, flush \in BOOLEAN : Write(n, mode, flush)
    \/ \E max \in MaxLens, term \in BOOLEAN, mode \in Modes : Read(max, term, mode)
    \/ Finish \/ Close \/ Reset \/ EnableDrain

\* A call that has begun goes on.
Going ==
    \/ Fill \/ PutBytes \/ PutBlocked \/ PutFails \/ WriteDone
    \/ Serve \/ Fetch \/ FetchNothing \/ FetchFails
    \/ FinishEnd \/ CloseEnd \/ FlushFails
    \/ Unblock \/ ReadAgain \/ Timeout

IoNext == NewCall \/ Going \/ PeerSend \/ PeerRead \/ PeerEnds \/ PeerFails

\* The process goes on with a call it has begun, and a peer that is alive sends
\* what it has to send, reads what it may, and ends.
IoFairness ==
    /\ WF_iovars(Going) /\ WF_iovars(PeerSend) /\ WF_iovars(PeerRead)
    /\ WF_iovars(MayEnd /\ PeerEnds)

IoSpec == IoInit /\ [][IoNext]_iovars /\ IoFairness

-----------------------------------------------------------------------------
(* Properties                                                              *)

Bytes(n) == [k \in 1 .. n |-> k]

\* The state has the declared form, the counters of the buffer hold what they
\* count, and a handle that is closed holds no descriptor that could be closed
\* again.
IoTypeOK ==
    /\ {inet, reset, outfin, infin, open, finished, closed, nonblocking,
        readerr, writeerr, consume, sawEof} \subseteq BOOLEAN
    /\ nopush \in {-1, 0, 1} /\ sent \in 0 .. MaxIn /\ accepted \in 0 .. MaxOut
    /\ Len(sendq) <= Kernel /\ Len(recvq) <= Kernel
    /\ Len(writebuf) <= WriteBufLen /\ Len(readbuf) <= ReadBufLen
    /\ writebufout \in 0 .. Len(writebuf)
    /\ writeleft = Len(writebuf) - writebufout + Len(writeq)
    /\ flushedleft \in 0 .. writeleft
    /\ closed => ~open

\* What has been written to the handle is with the peer, under way, in the buffer
\* or in the queue: once, and in this order, however often writing was blocked and
\* flushed in between.
OutputIntact ==
    /\ ~reset => got \o sendq \o Rest(writebuf, writebufout) \o writeq = Bytes(accepted)
    /\ got = Bytes(Len(got))

\* What the peer has sent is returned by reads, or can still be, once and in this
\* order, whichever limits and terminators the reads had and however often they
\* had to wait.
InputIntact ==
    /\ open /\ ~reset => returned \o luabuf \o readbuf \o recvq = Bytes(sent)
    /\ returned = Bytes(Len(returned))

\* What a read that ends has returned.
ReadEnds ==
    pc = "read" /\ pc' = "idle" =>
        LET data == Rest(returned', Len(returned))
            hits == {k \in 1 .. Len(data) : call.term /\ data[k] \in Terminators}
        IN  /\ call.max >= 0 => Len(data) <= call.max
            /\ result' = "maxlen" => Len(data) = call.max /\ hits = {}
            /\ result' = "term" => hits = {Len(data)}
            /\ result' \in {"eof", "block"} => hits = {}
            /\ result' = "eof" => infin /\ (~reset => returned' = Bytes(sent))

\* A read returns what its status says: "maxlen" is all it may take, "term" ends
\* with the only terminator, "eof" is all there will ever be.
ReadsEndWhereAsked == [][ReadEnds]_iovars

WriteIsDone == pc = "idle" /\ call.op = "write" /\ result = "done"

\* When a flush reports that it is done no byte is left in the process, and, if it
\* found any, a TCP socket has been told not to hold them back, though other calls
\* may have been blocked, or may have added to the buffer, before; a write that is
\* done leaves at most a buffer.  A flush that finds nothing to send is excepted:
\* see EveryFlushPushes.
FlushedIsSent ==
    WriteIsDone =>
        /\ writeq = <<>> /\ writeleft <= WriteBufLen
        /\ call.flush => writeleft = 0 /\ (inet /\ call.found => nopush = 0)

\* The peer sees the end of the output only after all of it.
EndAfterOutput == outfin /\ inet /\ ~reset => Len(got) + Len(sendq) = accepted

\* Nothing of either stream is lost, repeated or displaced.
StreamsIntact == OutputIntact /\ InputIntact /\ EndAfterOutput

\* A server that drains its input while it waits to write never waits for a peer
\* that waits for it: only one that stalls is given up.
NoMutualWaiting ==
    result = "stalled" => peer \in {"stalled", "gone"} \/ (~consume /\ ~sawEof)

\* Who has read to the end before closing may trust that the peer gets all that
\* was written.
Answered == pc = "idle" /\ call.op = "close" /\ result = "done" /\ sawEof
AnswerArrives == Answered ~> Len(got) = accepted \/ peer \in {"stalled", "gone"}

\* Waiting ends, whatever the peer does.
WaitsEnd == pc = "poll" ~> pc = "idle"

\* What the documentation says, and the code does not do.

\* "all pending data is passed to the operating system", "to actually send out the
\* data, it is necessary to eventually call socket:flush()": no flush that reports
\* that it is done leaves a TCP socket that has been told to hold data back.
EveryFlushPushes == WriteIsDone /\ call.flush => (inet => nopush # 1)
=============================================================================
