--------------------------- MODULE IoHandle_proofs ---------------------------
(***************************************************************************)
(* Proofs about IoHandle, for buffers, limits and connections of any size, *)
(* any number of calls and any peer.                                       *)
(*                                                                         *)
(* The inductive invariant IoInv says what the buffers hold when the       *)
(* process is at each place (IoWriting, IoReading), and what both streams  *)
(* are as long as the connection is up, and after (IoOutput, IoInput).     *)
(***************************************************************************)
EXTENDS IoHandle, SequenceLemmas

Calls == [op : {"write", "read", "finish", "close", "reset"}, mode : Modes, flush : BOOLEAN,
          found : BOOLEAN, max : Nat \cup {-1}, term : BOOLEAN]

IoFlags ==
    /\ inet \in BOOLEAN /\ reset \in BOOLEAN /\ outfin \in BOOLEAN /\ infin \in BOOLEAN
    /\ open \in BOOLEAN /\ finished \in BOOLEAN /\ closed \in BOOLEAN /\ nonblocking \in BOOLEAN
    /\ readerr \in BOOLEAN /\ writeerr \in BOOLEAN /\ consume \in BOOLEAN /\ sawEof \in BOOLEAN

IoControl ==
    /\ nopush \in {-1, 0, 1}
    /\ peer \in {"eager", "stubborn", "stalled", "gone"}
    /\ pc \in {"idle", "fill", "full", "flush", "read", "poll", "finish", "close", "fail"}
    /\ call \in Calls
    /\ result \in {"none", "done", "block", "error", "term", "maxlen", "eof", "stalled", "timeout"}

IoStreams ==
    /\ sendq \in Seq(Nat) /\ recvq \in Seq(Nat) /\ got \in Seq(Nat)
    /\ luabuf \in Seq(Nat) /\ returned \in Seq(Nat) /\ readbuf \in Seq(Nat)
    /\ writeq \in Seq(Nat) /\ writebuf \in Seq(Nat)

IoCounts ==
    /\ sent \in 0 .. MaxIn /\ accepted \in 0 .. MaxOut
    /\ writebufout \in Nat /\ writeleft \in Nat /\ flushedleft \in Nat
    /\ calls \in Nat /\ faults \in Nat

IoBounds ==
    /\ Len(sendq) <= Kernel /\ Len(recvq) <= Kernel /\ Len(readbuf) <= ReadBufLen
    /\ Len(writebuf) <= WriteBufLen /\ writebufout <= Len(writebuf)
    /\ writeleft = Len(writebuf) - writebufout + Len(writeq)
    /\ flushedleft <= writeleft

-----------------------------------------------------------------------------
(* Where the process is                                                    *)

Writing == pc \in {"fill", "full", "flush"} \/ AwaitsWrite
Reading == pc = "read" \/ AwaitsRead

\* What a flush has to send is all there is, from its beginning to its end; the
\* last of it, if there is any, lets go of what TCP holds back.
IoWriting ==
    /\ Writing => call.op \in {"write", "finish", "close"}
    /\ Writing /\ (call.flush \/ call.op # "write") => flushedleft = writeleft
    /\ Writing /\ call.flush /\ call.found => flushedleft > 0 \/ (inet => nopush = 0)
    /\ pc # "flush" => writebufout < WriteBufLen
    /\ pc = "full" => Len(writebuf) = WriteBufLen
    /\ pc = "flush" => writeq = <<>>
    /\ pc \in {"finish", "close"} => call.op = pc /\ writeleft = 0
    /\ FlushedIsSent

\* What a read has taken so far is less than it may take, and ends nowhere.
IoReading ==
    /\ pc = "read" => call.op = "read" /\ readerr
    /\ pc = "poll" => call.op \in {"read", "write"}
    /\ Reading => open
    /\ ~Reading => luabuf = <<>>
    /\ Reading /\ call.max >= 0 => Len(luabuf) <= call.max
    /\ Reading /\ call.term => \A k \in 1 .. Len(luabuf) : luabuf[k] \notin Terminators
    /\ pc = "read" /\ call.mode = "wait" => ~nonblocking
    /\ AwaitsRead => call.mode = "call" /\ ~readerr

\* What is open, and who has come to an end.
IoEnds ==
    /\ closed => ~open
    /\ ~open \/ reset => recvq = <<>>
    /\ infin => sent = MaxIn
    /\ sawEof => infin
    /\ outfin /\ inet /\ ~reset => writeleft = 0 /\ (finished \/ closed)
    /\ result = "stalled" => pc = "idle" /\ closed
    /\ NoMutualWaiting

-----------------------------------------------------------------------------
(* The streams                                                             *)

FromFirst(s) == s = Numbered(0, Len(s))

IoOutput ==
    /\ ~reset => got \o sendq \o Rest(writebuf, writebufout) \o writeq = Numbered(0, accepted)
    /\ FromFirst(got)

\* A read that fails forgets what it has read, but then no other one follows.
IoInput ==
    /\ open /\ ~reset => returned \o luabuf \o readbuf \o recvq = Numbered(0, sent)
    /\ ~readerr \/ pc = "read" => FromFirst(returned \o luabuf \o readbuf)
    /\ FromFirst(returned)

IoInv ==
    /\ IoFlags /\ IoControl /\ IoStreams /\ IoCounts /\ IoBounds
    /\ IoWriting /\ IoReading /\ IoEnds /\ IoOutput /\ IoInput

-----------------------------------------------------------------------------
(* What the actions that move bytes do to the streams                      *)

LEMMA StreamsTyped ==
  ASSUME IoInv
  PROVE  /\ got \o sendq \in Seq(Nat) /\ returned \o luabuf \in Seq(Nat)
         /\ returned \o luabuf \o readbuf \in Seq(Nat)
         /\ writebufout \in 0 .. Len(writebuf)
         /\ Rest(writebuf, writebufout) \in Seq(Nat)
         /\ got \o sendq \o Rest(writebuf, writebufout) \in Seq(Nat)
         /\ Len(writebuf) \in Nat /\ Len(writeq) \in Nat /\ Len(sendq) \in Nat /\ Len(recvq) \in Nat
         /\ Len(readbuf) \in Nat /\ Len(luabuf) \in Nat
<1>1. /\ Len(writebuf) \in Nat /\ Len(writeq) \in Nat /\ Len(sendq) \in Nat /\ Len(recvq) \in Nat
      /\ Len(readbuf) \in Nat /\ Len(luabuf) \in Nat
  BY LenProperties DEF IoInv, IoStreams
<1>2. writebufout \in 0 .. Len(writebuf)
  BY <1>1 DEF IoInv, IoCounts, IoBounds
<1>3. Rest(writebuf, writebufout) \in Seq(Nat)
  BY <1>2, TwoParts DEF IoInv, IoStreams, Rest
<1>4. got \o sendq \in Seq(Nat) /\ returned \o luabuf \in Seq(Nat)
  BY ConcatProperties DEF IoInv, IoStreams
<1>5. got \o sendq \o Rest(writebuf, writebufout) \in Seq(Nat) /\ returned \o luabuf \o readbuf \in Seq(Nat)
  BY <1>3, <1>4, ConcatProperties DEF IoInv, IoStreams
<1> QED BY <1>1, <1>2, <1>3, <1>4, <1>5

LEMMA QueueKeeps ==
  ASSUME IoInv, NEW n \in Nat, accepted + n <= MaxOut, NEW flush, Queue(n, flush)
  PROVE  /\ writeq' \in Seq(Nat) /\ Len(writeq') = Len(writeq) + n
         /\ accepted' \in 0 .. MaxOut
         /\ got \o sendq \o Rest(writebuf, writebufout) \o writeq = Numbered(0, accepted) =>
               got \o sendq \o Rest(writebuf, writebufout) \o writeq' = Numbered(0, accepted')
<1> DEFINE pre == got \o sendq \o Rest(writebuf, writebufout)
           new == Numbered(accepted, n)
<1>1. accepted \in Nat /\ writeq \in Seq(Nat) /\ pre \in Seq(Nat)
  BY StreamsTyped, IoAssumption DEF IoInv, IoCounts, IoStreams
<1>2. new \in Seq(Nat) /\ Len(new) = n
  BY <1>1, NumberedIsSeq
<1>3. writeq' = writeq \o new /\ accepted' = accepted + n
  BY DEF Queue, Numbered
<1>4. accepted' \in 0 .. MaxOut
  BY <1>1, <1>3, IoAssumption
<1> HIDE DEF pre, new
<1>5. writeq' \in Seq(Nat) /\ Len(writeq') = Len(writeq) + n
  BY <1>1, <1>2, <1>3, ConcatProperties
<1>6. (pre \o writeq) \o new = pre \o (writeq \o new)
  BY <1>1, <1>2, StreamBrackets
<1>7. Numbered(0, accepted) \o Numbered(0 + accepted, n) = Numbered(0, accepted + n)
  BY <1>1, NumberedConcat
<1>8. 0 + accepted = accepted
  BY <1>1
<1>9. pre \o writeq = Numbered(0, accepted) => pre \o writeq' = Numbered(0, accepted')
  BY <1>3, <1>6, <1>7, <1>8 DEF new
<1> QED BY <1>4, <1>5, <1>9 DEF pre

LEMMA FillKeeps ==
  ASSUME IoInv, Fill
  PROVE  /\ writeq' \in Seq(Nat) /\ writebuf' \in Seq(Nat)
         /\ Len(writebuf) <= Len(writebuf') /\ Len(writebuf') <= WriteBufLen
         /\ Len(writebuf') + Len(writeq') = Len(writebuf) + Len(writeq)
         /\ pc' = "full" => Len(writebuf') = WriteBufLen
         /\ pc' = "flush" => writeq' = <<>>
         /\ got \o sendq \o Rest(writebuf', writebufout) \o writeq'
               = got \o sendq \o Rest(writebuf, writebufout) \o writeq
<1> DEFINE free == WriteBufLen - Len(writebuf)
           m == Smaller(free, Len(writeq))
           p == SubSeq(writeq, 1, m)
           q == SubSeq(writeq, m + 1, Len(writeq))
           r == Rest(writebuf, writebufout)
           g == got \o sendq
<1>1. /\ writeq \in Seq(Nat) /\ writebuf \in Seq(Nat) /\ r \in Seq(Nat) /\ g \in Seq(Nat)
      /\ Len(writebuf) \in Nat /\ Len(writeq) \in Nat /\ writebufout \in 0 .. Len(writebuf)
  BY StreamsTyped DEF IoInv, IoStreams
<1>2. free \in Nat /\ Len(writebuf) + free = WriteBufLen
  BY <1>1, IoAssumption DEF IoInv, IoBounds
<1>3. writebuf' = writebuf \o p /\ writeq' = q
  BY DEF Fill, Prefix, Rest
<1>4. \/ pc' = "full" /\ writeq # <<>> /\ Len(writeq) >= free
      \/ pc' = "flush" /\ (writeq = <<>> \/ ~(Len(writeq) >= free))
  BY DEF Fill
<1> HIDE DEF free, r, g
<1>5. m \in 0 .. Len(writeq) /\ m <= free /\ (m = free \/ m = Len(writeq)) /\ (Len(writeq) >= free => m = free)
  BY <1>1, <1>2 DEF Smaller
<1> HIDE DEF m
<1>6. p \in Seq(Nat) /\ Len(p) = m /\ q \in Seq(Nat) /\ Len(q) = Len(writeq) - m /\ p \o q = writeq
  BY <1>1, <1>5, TwoParts
<1> HIDE DEF p, q
<1>7. /\ writebuf' \in Seq(Nat) /\ writeq' \in Seq(Nat)
      /\ Len(writebuf') = Len(writebuf) + m /\ Len(writeq') = Len(writeq) - m
  BY <1>1, <1>3, <1>6, ConcatProperties
<1>8. pc' = "full" => Len(writebuf') = WriteBufLen
  BY <1>1, <1>2, <1>4, <1>5, <1>7
<1>9. pc' = "flush" => writeq' = <<>>
  <2>1. ASSUME pc' = "flush" PROVE Len(writeq) - m = 0
    <3>1. CASE writeq = <<>>
      BY <1>1, <1>5, <3>1, EmptySeq
    <3>2. CASE ~(Len(writeq) >= free)
      BY <1>1, <1>2, <1>5, <3>2
    <3> QED BY <1>4, <2>1, <3>1, <3>2
  <2> QED BY <1>7, <2>1, EmptySeq
<1>10. Rest(writebuf', writebufout) = r \o p
  BY <1>1, <1>3, <1>6, RestConcat DEF r, Rest
<1>11. g \o (r \o p) = (g \o r) \o p
  BY <1>1, <1>6, StreamBrackets
<1>12. ((g \o r) \o p) \o q = (g \o r) \o (p \o q)
  <2>1. g \o r \in Seq(Nat)
    BY <1>1, ConcatProperties
  <2>2. p \in Seq(Nat) /\ q \in Seq(Nat)
    BY <1>6
  <2> QED BY <2>1, <2>2, StreamBrackets
<1>13. (g \o Rest(writebuf', writebufout)) \o writeq' = (g \o r) \o writeq
  BY <1>3, <1>6, <1>10, <1>11, <1>12
<1>14. Len(writebuf) <= Len(writebuf') /\ Len(writebuf') <= WriteBufLen
       /\ Len(writebuf') + Len(writeq') = Len(writebuf) + Len(writeq)
  BY <1>1, <1>2, <1>5, <1>7
<1> QED BY <1>7, <1>8, <1>9, <1>13, <1>14 DEF g, r

LEMMA WriteOutKeeps ==
  ASSUME IoInv, NEW k \in Nat, WriteOut(k)
  PROVE  /\ k \in 1 .. Len(writebuf) - writebufout
         /\ sendq' \in Seq(Nat) /\ Len(sendq') = Len(sendq) + k /\ Len(sendq') <= Kernel
         /\ writebuf' \in Seq(Nat) /\ writebufout' \in 0 .. Len(writebuf')
         /\ Len(writebuf') <= WriteBufLen
         /\ Len(writebuf') - writebufout' = Len(writebuf) - writebufout - k
         /\ got \o sendq' \o Rest(writebuf', writebufout') \o writeq
               = got \o sendq \o Rest(writebuf, writebufout) \o writeq
<1> DEFINE n == writebufout + k
           p == SubSeq(writebuf, writebufout + 1, n)
           q == SubSeq(writebuf, n + 1, Len(writebuf))
           r == Rest(writebuf, writebufout)
           g == got \o sendq
<1>1. /\ writeq \in Seq(Nat) /\ writebuf \in Seq(Nat) /\ r \in Seq(Nat) /\ g \in Seq(Nat)
      /\ got \in Seq(Nat) /\ sendq \in Seq(Nat) /\ Len(sendq) \in Nat /\ Len(sendq) <= Kernel
      /\ Len(writebuf) \in Nat /\ writebufout \in 0 .. Len(writebuf) /\ Len(writebuf) <= WriteBufLen
  BY StreamsTyped DEF IoInv, IoStreams, IoBounds
<1>2. k \in 1 .. Smaller(Kernel - Len(sendq), Len(writebuf) - writebufout)
  BY DEF WriteOut
<1>3. k \in 1 .. Len(writebuf) - writebufout /\ Len(sendq) + k <= Kernel
  BY <1>1, <1>2, IoAssumption DEF Smaller
<1>4. sendq' = sendq \o p
  BY DEF WriteOut
<1>5. \/ n = WriteBufLen /\ writebuf' = <<>> /\ writebufout' = 0
      \/ writebuf' = writebuf /\ writebufout' = n
  BY DEF WriteOut, Out
<1> HIDE DEF r, g
<1>6. n \in writebufout .. Len(writebuf) /\ n - writebufout = k
  BY <1>1, <1>3
<1> HIDE DEF n
<1>7. p \in Seq(Nat) /\ Len(p) = k /\ q \in Seq(Nat) /\ p \o q = r
  BY <1>1, <1>6, RestSplits DEF r, Rest
<1> HIDE DEF p
<1>8. sendq' \in Seq(Nat) /\ Len(sendq') = Len(sendq) + k
  BY <1>1, <1>4, <1>7, ConcatProperties
<1>9. /\ writebuf' \in Seq(Nat) /\ writebufout' \in 0 .. Len(writebuf')
      /\ Len(writebuf') <= WriteBufLen
      /\ Len(writebuf') - writebufout' = Len(writebuf) - writebufout - k
      /\ Rest(writebuf', writebufout') = q
  <2>1. CASE n = WriteBufLen /\ writebuf' = <<>> /\ writebufout' = 0
    <3>1. Len(writebuf) = n
      BY <1>1, <1>6, <2>1, IoAssumption
    <3>2. Len(q) = 0
      BY <1>1, <1>6, <3>1, TwoParts
    <3>3. q = <<>>
      BY <1>7, <3>2, EmptySeq
    <3>4. Rest(<<>>, 0) = <<>> /\ <<>> \in Seq(Nat) /\ Len(<<>>) = 0
      BY EmptySeq DEF Rest
    <3>5. Rest(writebuf', writebufout') = q
      BY <2>1, <3>3, <3>4
    <3>6. Len(writebuf') = 0 /\ Len(writebuf) - writebufout - k = 0
      BY <1>1, <1>3, <2>1, <3>1, <3>4 DEF n
    <3> QED BY <2>1, <3>4, <3>5, <3>6, IoAssumption
  <2>2. CASE writebuf' = writebuf /\ writebufout' = n
    BY <1>1, <1>3, <1>6, <2>2 DEF Rest
  <2> QED BY <1>5, <2>1, <2>2
<1> HIDE DEF q
<1>10. got \o (sendq \o p) = g \o p
  <2>1. (got \o sendq) \o p = got \o (sendq \o p)
    <3>1. p \in Seq(Nat)
      BY <1>7
    <3> QED BY <1>1, <3>1, StreamBrackets
  <2> QED BY <2>1 DEF g
<1>11. (g \o p) \o q = g \o (p \o q)
  <2>1. p \in Seq(Nat) /\ q \in Seq(Nat)
    BY <1>7
  <2> QED BY <1>1, <2>1, StreamBrackets
<1>12. (got \o sendq') \o Rest(writebuf', writebufout') = g \o r
  BY <1>4, <1>7, <1>9, <1>10, <1>11
<1> QED BY <1>1, <1>3, <1>8, <1>9, <1>12 DEF g, r

LEMMA InSightIsPrefix ==
  ASSUME IoInv
  PROVE  /\ InSight \in Seq(Nat) /\ Len(InSight) \in 0 .. Len(readbuf)
         /\ \A k \in 1 .. Len(InSight) : InSight[k] = readbuf[k]
         /\ Want \in Int
         /\ ~Whole => InSight = readbuf
         /\ Want >= 0 => Len(InSight) <= Want
         /\ Whole => Want \in 0 .. Len(readbuf) /\ Len(InSight) = Want
<1>1. readbuf \in Seq(Nat) /\ Len(readbuf) \in Nat /\ Len(luabuf) \in Nat
  BY StreamsTyped DEF IoInv, IoStreams
<1>2. Want \in Int
  BY <1>1 DEF Want, IoInv, IoControl, Calls
<1>3. CASE Whole
  <2>1. Want \in 0 .. Len(readbuf) /\ InSight = SubSeq(readbuf, 1, Want)
    BY <1>1, <1>2, <1>3 DEF Whole, InSight, Prefix
  <2> DEFINE w == Want
  <2> HIDE DEF w
  <2>2. w \in 0 .. Len(readbuf)
    BY <2>1 DEF w
  <2>3. SubSeq(readbuf, 1, w) \in Seq(Nat) /\ Len(SubSeq(readbuf, 1, w)) = w
    BY <1>1, <2>2, TwoParts
  <2>4. \A k \in 1 .. w : SubSeq(readbuf, 1, w)[k] = readbuf[k]
    <3>1. \A k \in 1 .. Len(readbuf) : readbuf[k] \in Nat
      BY <1>1, ElementOfSeq
    <3> QED BY <1>1, <2>2, <3>1, SubSeqProperties
  <2> QED BY <1>2, <1>3, <2>1, <2>3, <2>4 DEF w
<1>4. CASE ~Whole
  <2>1. InSight = readbuf
    BY <1>4 DEF Whole, InSight
  <2> QED BY <1>1, <1>2, <1>4, <2>1 DEF Whole
<1> QED BY <1>3, <1>4

\* A read that is answered takes up to the first terminator, or all it may take.
LEMMA ServeTakes ==
  ASSUME IoInv, Serve
  PROVE  \E n \in 0 .. Len(InSight) :
            /\ n <= Len(readbuf)
            /\ returned' = returned \o (luabuf \o SubSeq(readbuf, 1, n))
            /\ readbuf' = SubSeq(readbuf, n + 1, Len(readbuf))
            /\ Ends # {} => n \in Ends /\ (\A j \in Ends : n <= j) /\ result' = "term"
            /\ Ends = {} => n = Want /\ result' = "maxlen"
<1> DEFINE n == IF Ends # {} THEN CHOOSE k \in Ends : \A j \in Ends : k <= j ELSE Want
<1>1. Len(InSight) \in 0 .. Len(readbuf) /\ Len(readbuf) \in Nat
      /\ (Whole => Want \in 0 .. Len(readbuf) /\ Len(InSight) = Want)
  BY InSightIsPrefix, StreamsTyped
<1>2. /\ Ends # {} \/ Whole
      /\ returned' = returned \o (luabuf \o SubSeq(readbuf, 1, n))
      /\ readbuf' = SubSeq(readbuf, n + 1, Len(readbuf))
      /\ result' = IF Ends # {} THEN "term" ELSE "maxlen"
  BY DEF Serve, ReadReturn, Prefix, Kept, Rest
<1>3. Ends # {} => n \in Ends /\ \A j \in Ends : n <= j
  <2>1. Ends \subseteq Nat /\ Ends \subseteq 1 .. Len(InSight)
    BY <1>1 DEF Ends
  <2>2. ASSUME Ends # {} PROVE \E k \in Ends : \A j \in Ends : k <= j
    BY <2>1, <2>2, FirstOf
  <2> QED BY <2>2
<1>4. Ends = {} => n = Want
  OBVIOUS
<1> HIDE DEF n
<1>5. n \in 0 .. Len(InSight)
  <2>1. CASE Ends # {}
    BY <1>1, <1>3, <2>1 DEF Ends
  <2>2. CASE Ends = {}
    BY <1>1, <1>2, <1>4, <2>2
  <2> QED BY <2>1, <2>2
<1>6. n <= Len(readbuf)
  BY <1>1, <1>5
<1> QED BY <1>2, <1>3, <1>4, <1>5, <1>6

LEMMA ServeKeeps ==
  ASSUME IoInv, Serve
  PROVE  /\ luabuf' = <<>> /\ returned' \in Seq(Nat) /\ readbuf' \in Seq(Nat)
         /\ Len(readbuf') <= Len(readbuf)
         /\ returned' \o luabuf' \o readbuf' = returned \o luabuf \o readbuf
<1>1. PICK n \in 0 .. Len(readbuf) :
         /\ returned' = returned \o (luabuf \o SubSeq(readbuf, 1, n))
         /\ readbuf' = SubSeq(readbuf, n + 1, Len(readbuf))
  <2>1. PICK n \in 0 .. Len(InSight) :
          /\ n <= Len(readbuf)
          /\ returned' = returned \o (luabuf \o SubSeq(readbuf, 1, n))
          /\ readbuf' = SubSeq(readbuf, n + 1, Len(readbuf))
    BY ServeTakes
  <2>2. n \in 0 .. Len(readbuf)
    BY <2>1, InSightIsPrefix, StreamsTyped
  <2> QED BY <2>1, <2>2
<1> DEFINE p == SubSeq(readbuf, 1, n)
           q == SubSeq(readbuf, n + 1, Len(readbuf))
           s == returned \o luabuf
<1>2. /\ returned \in Seq(Nat) /\ luabuf \in Seq(Nat) /\ readbuf \in Seq(Nat) /\ Len(readbuf) \in Nat
      /\ s \in Seq(Nat)
  BY StreamsTyped DEF IoInv, IoStreams
<1>3. p \in Seq(Nat) /\ q \in Seq(Nat) /\ Len(q) = Len(readbuf) - n
  BY <1>2, TwoParts
<1>4. p \o q = readbuf
  BY <1>2, TwoParts
<1>5. luabuf' = <<>> /\ returned' = returned \o (luabuf \o p) /\ readbuf' = q
  BY <1>1 DEF Serve, ReadReturn
<1> HIDE DEF p, q
<1>6. (returned \o luabuf) \o p = returned \o (luabuf \o p)
  BY <1>2, <1>3, StreamBrackets
<1> HIDE DEF s
<1>7. (s \o p) \o q = s \o (p \o q)
  BY <1>2, <1>3, StreamBrackets
<1>8. s \o p \in Seq(Nat)
  BY <1>2, <1>3, ConcatProperties
<1>9. returned' = s \o p
  BY <1>5, <1>6 DEF s
<1>10. returned' \o <<>> = returned'
  BY <1>8, <1>9, ConcatEmptySeq
<1>11. returned' \o luabuf' \o readbuf' = s \o readbuf
  BY <1>4, <1>5, <1>7, <1>9, <1>10
<1>12. returned' \in Seq(Nat) /\ readbuf' \in Seq(Nat) /\ luabuf' = <<>>
  BY <1>3, <1>5, <1>8, <1>9
<1>13. Len(readbuf') <= Len(readbuf)
  BY <1>2, <1>3, <1>5
<1> QED BY <1>11, <1>12, <1>13 DEF s

LEMMA FetchKeeps ==
  ASSUME IoInv, Fetch
  PROVE  /\ luabuf' \in Seq(Nat) /\ readbuf' \in Seq(Nat) /\ recvq' \in Seq(Nat)
         /\ Len(luabuf') = Len(luabuf) + Len(readbuf)
         /\ \A k \in 1 .. Len(luabuf') :
               luabuf'[k] = IF k <= Len(luabuf) THEN luabuf[k] ELSE readbuf[k - Len(luabuf)]
         /\ Len(readbuf') <= ReadBufLen /\ Len(recvq') <= Len(recvq)
         /\ returned \o luabuf' \o readbuf' \o recvq' = returned \o luabuf \o readbuf \o recvq
<1> DEFINE n == Smaller(ReadBufLen, Len(recvq))
           p == SubSeq(recvq, 1, n)
           q == SubSeq(recvq, n + 1, Len(recvq))
           s == returned \o luabuf \o readbuf
<1>1. /\ returned \in Seq(Nat) /\ luabuf \in Seq(Nat) /\ readbuf \in Seq(Nat) /\ recvq \in Seq(Nat)
      /\ Len(recvq) \in Nat /\ s \in Seq(Nat)
  BY StreamsTyped DEF IoInv, IoStreams
<1>2. luabuf' = luabuf \o readbuf /\ readbuf' = p /\ recvq' = q
  BY DEF Fetch, Prefix, Rest
<1>3. n \in 0 .. Len(recvq) /\ n <= ReadBufLen
  BY <1>1, IoAssumption DEF Smaller
<1> HIDE DEF n
<1>4. p \in Seq(Nat) /\ Len(p) = n /\ q \in Seq(Nat) /\ Len(q) = Len(recvq) - n
  BY <1>1, <1>3, TwoParts
<1>5. p \o q = recvq
  BY <1>1, <1>3, TwoParts
<1> HIDE DEF p, q
<1>6. (returned \o luabuf) \o readbuf = returned \o (luabuf \o readbuf)
  BY <1>1, StreamBrackets
<1>7. luabuf' \in Seq(Nat) /\ Len(luabuf') = Len(luabuf) + Len(readbuf)
      /\ \A k \in 1 .. Len(luabuf') :
            luabuf'[k] = IF k <= Len(luabuf) THEN luabuf[k] ELSE readbuf[k - Len(luabuf)]
  BY <1>1, <1>2, ConcatProperties
<1>8. returned \o luabuf' = s
  BY <1>2, <1>6
<1> HIDE DEF s
<1>9. (s \o p) \o q = s \o (p \o q)
  BY <1>1, <1>4, StreamBrackets
<1>10. returned \o luabuf' \o readbuf' \o recvq' = s \o recvq
  BY <1>2, <1>5, <1>8, <1>9
<1>11. Len(p) <= ReadBufLen /\ Len(q) <= Len(recvq)
  BY <1>1, <1>3, <1>4
<1> QED BY <1>2, <1>4, <1>7, <1>10, <1>11 DEF s

\* All that a read has, and the buffer, is returned.
LEMMA AllReturned ==
  ASSUME IoInv
  PROVE  /\ luabuf \o readbuf \in Seq(Nat)
         /\ returned \o (luabuf \o readbuf) = returned \o luabuf \o readbuf
         /\ returned \o luabuf \o readbuf \o <<>> = returned \o luabuf \o readbuf
         /\ returned \o luabuf \o <<>> = returned \o luabuf
         /\ returned \o <<>> = returned
         /\ returned \o luabuf \o readbuf \o recvq \in Seq(Nat)
         /\ returned \o luabuf \o readbuf \o recvq \o <<>> = returned \o luabuf \o readbuf \o recvq
<1> DEFINE s == returned \o luabuf
           t == returned \o luabuf \o readbuf
           u == t \o recvq
<1>1. /\ returned \in Seq(Nat) /\ luabuf \in Seq(Nat) /\ readbuf \in Seq(Nat) /\ recvq \in Seq(Nat)
      /\ s \in Seq(Nat) /\ t \in Seq(Nat)
  BY StreamsTyped DEF IoInv, IoStreams
<1>2. (returned \o luabuf) \o readbuf = returned \o (luabuf \o readbuf)
  BY <1>1, StreamBrackets
<1> HIDE DEF s, t
<1>3. luabuf \o readbuf \in Seq(Nat) /\ u \in Seq(Nat)
  BY <1>1, ConcatProperties
<1> HIDE DEF u
<1>4. t \o <<>> = t /\ s \o <<>> = s /\ returned \o <<>> = returned /\ u \o <<>> = u
  BY <1>1, <1>3, ConcatEmptySeq
<1> QED BY <1>2, <1>3, <1>4 DEF s, t, u

\* Of a stream that is complete so far, what has been returned is complete so far.
LEMMA ReturnedFromFirst ==
  ASSUME IoInv
  PROVE  /\ FromFirst(returned \o luabuf \o readbuf) => FromFirst(returned \o luabuf)
         /\ open /\ ~reset => FromFirst(returned \o luabuf \o readbuf)
<1>1. /\ returned \in Seq(Nat) /\ luabuf \in Seq(Nat) /\ readbuf \in Seq(Nat) /\ recvq \in Seq(Nat)
      /\ returned \o luabuf \in Seq(Nat) /\ returned \o luabuf \o readbuf \in Seq(Nat) /\ sent \in Nat
  BY StreamsTyped, IoAssumption DEF IoInv, IoStreams, IoCounts
<1>2. Len(returned \o luabuf \o readbuf) \in Nat
  BY <1>1, LenProperties
<1>3. FromFirst(returned \o luabuf \o readbuf) => FromFirst(returned \o luabuf)
  BY <1>1, <1>2, NumberedPrefix DEF FromFirst
<1>4. open /\ ~reset => FromFirst(returned \o luabuf \o readbuf)
  BY <1>1, NumberedPrefix DEF FromFirst, IoInv, IoInput
<1> QED BY <1>3, <1>4

\* What a stream that is complete so far begins with is complete so far.
LEMMA PartFromFirst ==
  ASSUME NEW a \in Seq(Nat), NEW b \in Seq(Nat), FromFirst(a \o <<>> \o b)
  PROVE  FromFirst(a)
<1>1. a \o <<>> = a
  BY ConcatEmptySeq
<1>2. Len(a \o b) \in Nat
  BY ConcatProperties, LenProperties
<1> QED BY <1>1, <1>2, NumberedPrefix DEF FromFirst

\* A read that needs more has taken less than it may, and found no end.
LEMMA NothingEnds ==
  ASSUME IoInv, pc = "read", Ends = {}, ~Whole
  PROVE  /\ call.max >= 0 => Len(luabuf) + Len(readbuf) <= call.max
         /\ call.term => \A k \in 1 .. Len(readbuf) : readbuf[k] \notin Terminators
<1>1. Len(luabuf) \in Nat /\ Len(readbuf) \in Nat
  BY StreamsTyped
<1>2. call.max \in Int /\ (call.max >= 0 => Len(luabuf) <= call.max)
  BY DEF IoInv, IoControl, Calls, IoReading, Reading
<1>3. call.max >= 0 => Len(luabuf) + Len(readbuf) <= call.max
  BY <1>1, <1>2 DEF Whole, Want
<1>4. InSight = readbuf
  BY InSightIsPrefix
<1> QED BY <1>3, <1>4 DEF Ends

-----------------------------------------------------------------------------
LEMMA IoStep == ASSUME IoInv, [IoNext]_iovars PROVE IoInv'
<1> USE IoAssumption DEF IoInv, connection, kernel, reading, buffers, writing, handle, control
<1>1. ASSUME NEW n \in 0 .. MaxOut, NEW mode \in Modes, NEW flush \in BOOLEAN, Write(n, mode, flush) PROVE IoInv'
  <2>0. /\ writeq' \in Seq(Nat) /\ Len(writeq') = Len(writeq) + n /\ accepted' \in 0 .. MaxOut
        /\ got \o sendq \o Rest(writebuf, writebufout) \o writeq = Numbered(0, accepted) =>
              got \o sendq \o Rest(writebuf, writebufout) \o writeq' = Numbered(0, accepted')
    <3>1. n \in Nat /\ accepted + n <= MaxOut /\ Queue(n, flush)
      BY <1>1 DEF Write
    <3> QED BY <3>1, QueueKeeps
  <2>1. IoFlags'
    BY <1>1 DEF Write, Begin, Queue, ToFlush, IoFlags
  <2>2. IoControl'
    BY <1>1 DEF Write, Begin, Queue, ToFlush, IoControl, Calls, Modes
  <2>3. IoStreams'
    BY <1>1, <2>0 DEF Write, Begin, Queue, IoStreams
  <2>4. IoCounts'
    BY <1>1 DEF Write, Begin, Queue, ToFlush, IoCounts
  <2>5. IoBounds'
    <3>1. /\ n \in Nat /\ Queue(n, flush)
          /\ UNCHANGED <<sendq, recvq, readbuf>>
      BY <1>1 DEF Write
    <3>2. /\ writeleft' = writeleft + n /\ UNCHANGED <<writebuf, writebufout>>
          /\ flushedleft' = flushedleft \/ flushedleft' = writeleft + n
      BY <3>1 DEF Queue, ToFlush
    <3>3. Len(writebuf) \in Nat /\ Len(writeq) \in Nat
      BY StreamsTyped
    <3> QED BY <2>0, <3>1, <3>2, <3>3 DEF IoCounts, IoBounds
  <2>6. IoWriting'
    BY <1>1 DEF Write, Begin, Queue, ToFlush, IoFlags, IoControl, IoStreams, IoCounts, IoBounds, IoWriting, Writing, AwaitsWrite, FlushedIsSent, WriteIsDone
  <2>7. IoReading'
    BY <1>1 DEF Write, Begin, Queue, ToFlush, IoFlags, IoControl, IoReading, Reading, AwaitsRead
  <2>8. IoEnds'
    BY <1>1 DEF Write, Begin, Queue, ToFlush, IoFlags, IoControl, IoReading, Reading, AwaitsRead, AwaitsWrite, IoEnds, NoMutualWaiting
  <2>9. IoOutput'
    BY <1>1, <2>0 DEF Write, Begin, Queue, IoOutput, FromFirst
  <2>10. IoInput'
    BY <1>1 DEF Write, Begin, Queue, ToFlush, IoInput, FromFirst
  <2> QED BY <2>1, <2>2, <2>3, <2>4, <2>5, <2>6, <2>7, <2>8, <2>9, <2>10
<1>2. ASSUME NEW max \in MaxLens, NEW term \in BOOLEAN, NEW mode \in Modes, Read(max, term, mode) PROVE IoInv'
  <2>1. IoFlags'
    BY <1>2 DEF Read, Begin, IoFlags
  <2>2. IoControl'
    BY <1>2 DEF Read, Begin, IoControl, Calls, Modes
  <2>3. IoStreams'
    BY <1>2, EmptySeq DEF Read, Begin, IoStreams
  <2>4. IoCounts'
    BY <1>2 DEF Read, Begin, IoCounts
  <2>5. IoBounds'
    BY <1>2 DEF Read, Begin, IoStreams, IoCounts, IoBounds
  <2>6. IoWriting'
    BY <1>2 DEF Read, Begin, IoFlags, IoControl, IoStreams, IoCounts, IoBounds, IoWriting, Writing, AwaitsWrite, FlushedIsSent, WriteIsDone
  <2>7. IoReading'
    BY <1>2 DEF Read, Begin, IoFlags, IoControl, IoReading, Reading, AwaitsRead
  <2>8. IoEnds'
    BY <1>2 DEF Read, Begin, IoFlags, IoControl, IoReading, Reading, AwaitsRead, AwaitsWrite, IoEnds, NoMutualWaiting
  <2>9. IoOutput'
    BY <1>2 DEF Read, Begin, IoOutput, FromFirst
  <2>10. IoInput'
    <3>1. luabuf = <<>> /\ luabuf' = <<>> /\ ~readerr
      BY <1>2 DEF Read, Begin, IoReading, Reading, AwaitsRead
    <3> QED BY <1>2, <3>1 DEF Read, Begin, IoInput, FromFirst
  <2> QED BY <2>1, <2>2, <2>3, <2>4, <2>5, <2>6, <2>7, <2>8, <2>9, <2>10
<1>3. ASSUME Finish PROVE IoInv'
  <2>0. \/ UNCHANGED writing
        \/ /\ Queue(0, TRUE)
           /\ writeq' \in Seq(Nat) /\ Len(writeq') = Len(writeq)
           /\ got \o sendq \o Rest(writebuf, writebufout) \o writeq = Numbered(0, accepted) =>
                 got \o sendq \o Rest(writebuf, writebufout) \o writeq' = Numbered(0, accepted')
    <3>1. UNCHANGED writing \/ Queue(0, TRUE)
      BY <1>3 DEF Finish, FlushOr
    <3>2. accepted \in Nat /\ accepted + 0 <= MaxOut /\ Len(writeq) \in Nat
      BY StreamsTyped DEF IoCounts
    <3>3. ASSUME NEW n \in Nat, n = 0, NEW flush, flush = TRUE, Queue(n, flush)
          PROVE  /\ writeq' \in Seq(Nat) /\ Len(writeq') = Len(writeq)
                 /\ got \o sendq \o Rest(writebuf, writebufout) \o writeq = Numbered(0, accepted) =>
                       got \o sendq \o Rest(writebuf, writebufout) \o writeq' = Numbered(0, accepted')
      <4>1. accepted + n <= MaxOut
        BY <3>2, <3>3
      <4>2. Len(writeq) + n = Len(writeq)
        BY <3>2, <3>3
      <4> QED BY <3>3, <4>1, <4>2, QueueKeeps
    <3> QED BY <3>1, <3>3
  <2>1. IoFlags'
    BY <1>3 DEF Finish, Begin, FlushOr, Queue, ToFlush, Plain, IoFlags
  <2>2. IoControl'
    BY <1>3 DEF Finish, Begin, FlushOr, Queue, ToFlush, Plain, IoControl, Calls, Modes
  <2>3. IoStreams'
    BY <1>3, <2>0 DEF Finish, Begin, Queue, IoStreams
  <2>4. IoCounts'
    BY <1>3 DEF Finish, Begin, FlushOr, Queue, ToFlush, Plain, IoCounts
  <2>5. IoBounds'
    <3>1. Len(writeq) \in Nat
      BY StreamsTyped
    <3>2. UNCHANGED <<sendq, recvq, readbuf, writebuf, writebufout>> /\ Len(writeq') = Len(writeq)
      BY <1>3, <2>0 DEF Finish, Begin, Queue
    <3>3. writeleft' = writeleft /\ (flushedleft' = flushedleft \/ flushedleft' = writeleft)
      BY <2>0 DEF Queue, ToFlush, IoCounts
    <3> QED BY <3>1, <3>2, <3>3 DEF IoCounts, IoBounds
  <2>6. IoWriting'
    BY <1>3 DEF Finish, Begin, FlushOr, Queue, ToFlush, Plain, IoFlags, IoControl, IoStreams, IoCounts, IoBounds, IoWriting, Writing, AwaitsWrite, FlushedIsSent, WriteIsDone
  <2>7. IoReading'
    BY <1>3 DEF Finish, Begin, FlushOr, Queue, ToFlush, Plain, IoFlags, IoControl, IoReading, Reading, AwaitsRead
  <2>8. IoEnds'
    BY <1>3 DEF Finish, Begin, FlushOr, Queue, ToFlush, Plain, IoFlags, IoControl, IoReading, Reading, AwaitsRead, AwaitsWrite, IoEnds, NoMutualWaiting
  <2>9. IoOutput'
    BY <1>3, <2>0 DEF Finish, Begin, Queue, IoOutput, FromFirst
  <2>10. IoInput'
    BY <1>3 DEF Finish, Begin, FlushOr, Queue, ToFlush, Plain, IoInput, FromFirst
  <2> QED BY <2>1, <2>2, <2>3, <2>4, <2>5, <2>6, <2>7, <2>8, <2>9, <2>10
<1>4. ASSUME Close PROVE IoInv'
  <2>0. \/ UNCHANGED writing
        \/ /\ Queue(0, TRUE)
           /\ writeq' \in Seq(Nat) /\ Len(writeq') = Len(writeq)
           /\ got \o sendq \o Rest(writebuf, writebufout) \o writeq = Numbered(0, accepted) =>
                 got \o sendq \o Rest(writebuf, writebufout) \o writeq' = Numbered(0, accepted')
    <3>1. UNCHANGED writing \/ Queue(0, TRUE)
      BY <1>4 DEF Close, FlushOr
    <3>2. accepted \in Nat /\ accepted + 0 <= MaxOut /\ Len(writeq) \in Nat
      BY StreamsTyped DEF IoCounts
    <3>3. ASSUME NEW n \in Nat, n = 0, NEW flush, flush = TRUE, Queue(n, flush)
          PROVE  /\ writeq' \in Seq(Nat) /\ Len(writeq') = Len(writeq)
                 /\ got \o sendq \o Rest(writebuf, writebufout) \o writeq = Numbered(0, accepted) =>
                       got \o sendq \o Rest(writebuf, writebufout) \o writeq' = Numbered(0, accepted')
      <4>1. accepted + n <= MaxOut
        BY <3>2, <3>3
      <4>2. Len(writeq) + n = Len(writeq)
        BY <3>2, <3>3
      <4> QED BY <3>3, <4>1, <4>2, QueueKeeps
    <3> QED BY <3>1, <3>3
  <2>1. IoFlags'
    BY <1>4 DEF Close, Begin, FlushOr, Queue, ToFlush, Plain, IoFlags
  <2>2. IoControl'
    BY <1>4 DEF Close, Begin, FlushOr, Queue, ToFlush, Plain, IoControl, Calls, Modes
  <2>3. IoStreams'
    BY <1>4, <2>0 DEF Close, Begin, Queue, IoStreams
  <2>4. IoCounts'
    BY <1>4 DEF Close, Begin, FlushOr, Queue, ToFlush, Plain, IoCounts
  <2>5. IoBounds'
    <3>1. Len(writeq) \in Nat
      BY StreamsTyped
    <3>2. UNCHANGED <<sendq, recvq, readbuf, writebuf, writebufout>> /\ Len(writeq') = Len(writeq)
      BY <1>4, <2>0 DEF Close, Begin, Queue
    <3>3. writeleft' = writeleft /\ (flushedleft' = flushedleft \/ flushedleft' = writeleft)
      BY <2>0 DEF Queue, ToFlush, IoCounts
    <3> QED BY <3>1, <3>2, <3>3 DEF IoCounts, IoBounds
  <2>6. IoWriting'
    BY <1>4 DEF Close, Begin, FlushOr, Queue, ToFlush, Plain, IoFlags, IoControl, IoStreams, IoCounts, IoBounds, IoWriting, Writing, AwaitsWrite, FlushedIsSent, WriteIsDone
  <2>7. IoReading'
    BY <1>4 DEF Close, Begin, FlushOr, Queue, ToFlush, Plain, IoFlags, IoControl, IoReading, Reading, AwaitsRead
  <2>8. IoEnds'
    BY <1>4 DEF Close, Begin, FlushOr, Queue, ToFlush, Plain, IoFlags, IoControl, IoReading, Reading, AwaitsRead, AwaitsWrite, IoEnds, NoMutualWaiting
  <2>9. IoOutput'
    BY <1>4, <2>0 DEF Close, Begin, Queue, IoOutput, FromFirst
  <2>10. IoInput'
    BY <1>4 DEF Close, Begin, FlushOr, Queue, ToFlush, Plain, IoInput, FromFirst
  <2> QED BY <2>1, <2>2, <2>3, <2>4, <2>5, <2>6, <2>7, <2>8, <2>9, <2>10
<1>5. ASSUME Reset PROVE IoInv'
  <2>1. IoFlags'
    BY <1>5 DEF Reset, Begin, CloseFd, Plain, IoFlags
  <2>2. IoControl'
    BY <1>5 DEF Reset, Begin, CloseFd, Plain, IoControl, Calls, Modes
  <2>3. IoStreams'
    BY <1>5, EmptySeq DEF Reset, Begin, CloseFd, Plain, IoStreams
  <2>4. IoCounts'
    BY <1>5 DEF Reset, Begin, CloseFd, Plain, IoCounts
  <2>5. IoBounds'
    BY <1>5 DEF Reset, Begin, CloseFd, Plain, IoStreams, IoCounts, IoBounds
  <2>6. IoWriting'
    BY <1>5 DEF Reset, Begin, CloseFd, Plain, IoFlags, IoControl, IoStreams, IoCounts, IoBounds, IoWriting, Writing, AwaitsWrite, FlushedIsSent, WriteIsDone
  <2>7. IoReading'
    BY <1>5 DEF Reset, Begin, CloseFd, Plain, IoFlags, IoControl, IoReading, Reading, AwaitsRead
  <2>8. IoEnds'
    BY <1>5 DEF Reset, Begin, CloseFd, Plain, IoFlags, IoControl, IoReading, Reading, AwaitsRead, AwaitsWrite, IoEnds, NoMutualWaiting
  <2>9. IoOutput'
    BY <1>5 DEF Reset, Begin, CloseFd, Plain, IoOutput, FromFirst
  <2>10. IoInput'
    BY <1>5 DEF Reset, Begin, CloseFd, Plain, IoInput, FromFirst
  <2> QED BY <2>1, <2>2, <2>3, <2>4, <2>5, <2>6, <2>7, <2>8, <2>9, <2>10
<1>6. ASSUME EnableDrain PROVE IoInv'
  <2>1. IoFlags'
    BY <1>6 DEF EnableDrain, IoFlags
  <2>2. IoControl'
    BY <1>6 DEF EnableDrain, IoControl, Calls, Modes
  <2>3. IoStreams'
    BY <1>6, EmptySeq DEF EnableDrain, IoStreams
  <2>4. IoCounts'
    BY <1>6 DEF EnableDrain, IoCounts
  <2>5. IoBounds'
    BY <1>6 DEF EnableDrain, IoStreams, IoCounts, IoBounds
  <2>6. IoWriting'
    BY <1>6 DEF EnableDrain, IoFlags, IoControl, IoStreams, IoCounts, IoBounds, IoWriting, Writing, AwaitsWrite, FlushedIsSent, WriteIsDone
  <2>7. IoReading'
    BY <1>6 DEF EnableDrain, IoFlags, IoControl, IoReading, Reading, AwaitsRead
  <2>8. IoEnds'
    BY <1>6 DEF EnableDrain, IoFlags, IoControl, IoReading, Reading, AwaitsRead, AwaitsWrite, IoEnds, NoMutualWaiting
  <2>9. IoOutput'
    BY <1>6 DEF EnableDrain, IoOutput, FromFirst
  <2>10. IoInput'
    BY <1>6 DEF EnableDrain, IoInput, FromFirst
  <2> QED BY <2>1, <2>2, <2>3, <2>4, <2>5, <2>6, <2>7, <2>8, <2>9, <2>10
<1>7. ASSUME Fill PROVE IoInv'
  <2>0. /\ writeq' \in Seq(Nat) /\ writebuf' \in Seq(Nat)
        /\ Len(writebuf) <= Len(writebuf') /\ Len(writebuf') <= WriteBufLen
        /\ Len(writebuf') + Len(writeq') = Len(writebuf) + Len(writeq)
        /\ pc' = "full" => Len(writebuf') = WriteBufLen
        /\ pc' = "flush" => writeq' = <<>>
    BY <1>7, FillKeeps
  <2>11. got \o sendq \o Rest(writebuf', writebufout) \o writeq'
            = got \o sendq \o Rest(writebuf, writebufout) \o writeq
    BY <1>7, FillKeeps
  <2>12. pc = "fill" /\ pc' \in {"full", "flush"}
    BY <1>7 DEF Fill
  <2>1. IoFlags'
    BY <1>7 DEF Fill, IoFlags
  <2>2. IoControl'
    BY <1>7 DEF Fill, IoControl, Calls, Modes
  <2>3. IoStreams'
    BY <1>7, <2>0 DEF Fill, IoStreams
  <2>4. IoCounts'
    BY <1>7 DEF Fill, IoCounts
  <2>5. IoBounds'
    <3>1. /\ Len(writebuf) \in Nat /\ Len(writeq) \in Nat /\ writebufout \in 0 .. Len(writebuf)
          /\ Len(writebuf') \in Nat /\ Len(writeq') \in Nat
      BY <2>0, StreamsTyped, LenProperties
    <3>2. writebufout <= Len(writebuf') /\ writeleft = Len(writebuf') - writebufout + Len(writeq')
      BY <2>0, <3>1 DEF IoBounds
    <3> QED BY <1>7, <2>0, <3>2 DEF Fill, IoBounds
  <2>6. IoWriting'
    BY <1>7, <2>0, <2>12 DEF Fill, IoWriting, Writing, AwaitsWrite, FlushedIsSent, WriteIsDone
  <2>7. IoReading'
    BY <1>7 DEF Fill, IoFlags, IoControl, IoReading, Reading, AwaitsRead
  <2>8. IoEnds'
    BY <1>7 DEF Fill, IoFlags, IoControl, IoReading, Reading, AwaitsRead, AwaitsWrite, IoEnds, NoMutualWaiting
  <2>9. IoOutput'
    BY <1>7, <2>11 DEF Fill, IoOutput, FromFirst
  <2>10. IoInput'
    BY <1>7 DEF Fill, IoInput, FromFirst
  <2> QED BY <2>1, <2>2, <2>3, <2>4, <2>5, <2>6, <2>7, <2>8, <2>9, <2>10
<1>8. ASSUME NEW k \in 1 .. WriteBufLen, Emptying, WriteOut(k) PROVE IoInv'
  <2>15. k \in Nat
    BY <1>8
  <2>0. /\ k \in 1 .. Len(writebuf) - writebufout
        /\ sendq' \in Seq(Nat) /\ Len(sendq') = Len(sendq) + k /\ Len(sendq') <= Kernel
        /\ writebuf' \in Seq(Nat) /\ writebufout' \in 0 .. Len(writebuf')
        /\ Len(writebuf') <= WriteBufLen
        /\ Len(writebuf') - writebufout' = Len(writebuf) - writebufout - k
    BY <1>8, <2>15, WriteOutKeeps
  <2>11. got \o sendq' \o Rest(writebuf', writebufout') \o writeq
            = got \o sendq \o Rest(writebuf, writebufout) \o writeq
    BY <1>8, <2>15, WriteOutKeeps
  <2>12. /\ Len(writebuf) \in Nat /\ Len(writeq) \in Nat /\ Len(writebuf') \in Nat
         /\ writebufout \in 0 .. Len(writebuf)
    BY <2>0, StreamsTyped, LenProperties
  <2>13. /\ writeleft' = writeleft - k /\ k <= writeleft /\ writeleft' \in Nat
         /\ writeleft' = Len(writebuf') - writebufout' + Len(writeq)
    <3>1. writeleft' = writeleft - k
      BY <1>8 DEF WriteOut
    <3>2. writeleft = Len(writebuf) - writebufout + Len(writeq)
      BY DEF IoBounds
    <3> QED BY <2>0, <2>12, <3>1, <3>2
  <2>14. /\ flushedleft' \in Nat /\ flushedleft' <= writeleft'
         /\ flushedleft = writeleft => flushedleft' = writeleft'
    <3>1. flushedleft' = IF k >= flushedleft THEN 0 ELSE flushedleft - k
      BY <1>8 DEF WriteOut, StillFlushed
    <3>2. flushedleft \in Nat /\ writeleft \in Nat /\ flushedleft <= writeleft
      BY DEF IoBounds, IoCounts
    <3> QED BY <2>13, <2>15, <3>1, <3>2
  <2>1. IoFlags'
    BY <1>8 DEF WriteOut, Emptying, StillFlushed, Out, IoFlags
  <2>2. IoControl'
    BY <1>8 DEF WriteOut, Emptying, StillFlushed, Out, IoControl, Calls, Modes
  <2>3. IoStreams'
    BY <1>8, <2>0 DEF WriteOut, IoStreams
  <2>4. IoCounts'
    BY <1>8, <2>0, <2>12, <2>13, <2>14 DEF WriteOut, IoCounts
  <2>5. IoBounds'
    BY <1>8, <2>0, <2>12, <2>13, <2>14 DEF WriteOut, IoBounds
  <2>6. IoWriting'
    <3>1. /\ UNCHANGED <<call, result, inet, writeq>> /\ pc \in {"full", "flush"}
          /\ \/ pc = "full" /\ pc' = "fill" /\ writebufout' = 0
             \/ /\ pc' = pc /\ writebufout' = writebufout + k /\ writebuf' = writebuf
                /\ pc = "full" => writebufout' # WriteBufLen
      BY <1>8 DEF WriteOut, Emptying, Out
    <3>2. call.op \in {"write", "finish", "close"}
      BY <3>1 DEF IoWriting, Writing
    <3>3. call.flush \/ call.op # "write" => flushedleft' = writeleft'
      BY <2>14, <3>1 DEF IoWriting, Writing
    <3>4. call.flush /\ call.found => flushedleft' > 0 \/ (inet => nopush' = 0)
      <4>1. flushedleft > 0 /\ flushedleft' = 0 /\ inet => nopush' = 0
        BY <1>8 DEF WriteOut
      <4>2. call.flush => flushedleft > 0
        BY <2>13, <3>1 DEF IoWriting, Writing, IoCounts
      <4> QED BY <2>14, <4>1, <4>2
    <3>5. pc' # "flush" => writebufout' < WriteBufLen
      BY <2>0, <2>12, <3>1, IoAssumption
    <3>6. pc' = "full" => Len(writebuf') = WriteBufLen
      BY <3>1 DEF IoWriting
    <3>7. pc' = "flush" => writeq' = <<>>
      BY <3>1 DEF IoWriting
    <3> QED BY <3>1, <3>2, <3>3, <3>4, <3>5, <3>6, <3>7 DEF IoWriting, Writing, AwaitsWrite, FlushedIsSent, WriteIsDone
  <2>7. IoReading'
    BY <1>8 DEF WriteOut, Emptying, StillFlushed, Out, IoFlags, IoControl, IoReading, Reading, AwaitsRead
  <2>8. IoEnds'
    <3>1. ~(outfin /\ inet /\ ~reset)
      BY <2>0, <2>12, <2>13 DEF IoEnds
    <3> QED BY <1>8, <3>1 DEF WriteOut, Emptying, IoEnds, NoMutualWaiting
  <2>9. IoOutput'
    BY <1>8, <2>11 DEF WriteOut, IoOutput, FromFirst
  <2>10. IoInput'
    BY <1>8 DEF WriteOut, Emptying, StillFlushed, Out, IoInput, FromFirst
  <2> QED BY <2>1, <2>2, <2>3, <2>4, <2>5, <2>6, <2>7, <2>8, <2>9, <2>10
<1>9. ASSUME PutBlocked PROVE IoInv'
  <2>1. IoFlags'
    BY <1>9 DEF PutBlocked, Emptying, WriteReturn, IoFlags
  <2>2. IoControl'
    BY <1>9 DEF PutBlocked, Emptying, WriteReturn, IoControl, Calls, Modes
  <2>3. IoStreams'
    BY <1>9, EmptySeq DEF PutBlocked, Emptying, WriteReturn, IoStreams
  <2>4. IoCounts'
    BY <1>9 DEF PutBlocked, Emptying, WriteReturn, IoCounts
  <2>5. IoBounds'
    BY <1>9 DEF PutBlocked, Emptying, WriteReturn, IoStreams, IoCounts, IoBounds
  <2>6. IoWriting'
    BY <1>9 DEF PutBlocked, Emptying, WriteReturn, IoFlags, IoControl, IoStreams, IoCounts, IoBounds, IoWriting, Writing, AwaitsWrite, FlushedIsSent, WriteIsDone
  <2>7. IoReading'
    BY <1>9 DEF PutBlocked, Emptying, WriteReturn, IoFlags, IoControl, IoReading, Reading, AwaitsRead
  <2>8. IoEnds'
    BY <1>9 DEF PutBlocked, Emptying, WriteReturn, IoFlags, IoControl, IoReading, Reading, AwaitsRead, AwaitsWrite, IoEnds, NoMutualWaiting
  <2>9. IoOutput'
    BY <1>9 DEF PutBlocked, Emptying, WriteReturn, IoOutput, FromFirst
  <2>10. IoInput'
    BY <1>9 DEF PutBlocked, Emptying, WriteReturn, IoInput, FromFirst
  <2> QED BY <2>1, <2>2, <2>3, <2>4, <2>5, <2>6, <2>7, <2>8, <2>9, <2>10
<1>10. ASSUME PutFails PROVE IoInv'
  <2>1. IoFlags'
    BY <1>10 DEF PutFails, Emptying, WriteReturn, IoFlags
  <2>2. IoControl'
    BY <1>10 DEF PutFails, Emptying, WriteReturn, IoControl, Calls, Modes
  <2>3. IoStreams'
    BY <1>10, EmptySeq DEF PutFails, Emptying, WriteReturn, IoStreams
  <2>4. IoCounts'
    BY <1>10 DEF PutFails, Emptying, WriteReturn, IoCounts
  <2>5. IoBounds'
    BY <1>10 DEF PutFails, Emptying, WriteReturn, IoStreams, IoCounts, IoBounds
  <2>6. IoWriting'
    BY <1>10 DEF PutFails, Emptying, WriteReturn, IoFlags, IoControl, IoStreams, IoCounts, IoBounds, IoWriting, Writing, AwaitsWrite, FlushedIsSent, WriteIsDone
  <2>7. IoReading'
    BY <1>10 DEF PutFails, Emptying, WriteReturn, IoFlags, IoControl, IoReading, Reading, AwaitsRead
  <2>8. IoEnds'
    BY <1>10 DEF PutFails, Emptying, WriteReturn, IoFlags, IoControl, IoReading, Reading, AwaitsRead, AwaitsWrite, IoEnds, NoMutualWaiting
  <2>9. IoOutput'
    BY <1>10 DEF PutFails, Emptying, WriteReturn, IoOutput, FromFirst
  <2>10. IoInput'
    BY <1>10 DEF PutFails, Emptying, WriteReturn, IoInput, FromFirst
  <2> QED BY <2>1, <2>2, <2>3, <2>4, <2>5, <2>6, <2>7, <2>8, <2>9, <2>10
<1>11. ASSUME WriteDone PROVE IoInv'
  <2>0. pc = "flush" /\ pc' \in {"idle", "finish", "close"} /\ (pc' = "idle" \/ pc' = call.op)
    BY <1>11 DEF WriteDone, WriteReturn, IoWriting, Writing
  <2>1. IoFlags'
    BY <1>11 DEF WriteDone, WriteReturn, IoFlags
  <2>2. IoControl'
    BY <1>11, <2>0 DEF WriteDone, WriteReturn, IoControl
  <2>3. IoStreams'
    BY <1>11, EmptySeq DEF WriteDone, WriteReturn, IoStreams
  <2>4. IoCounts'
    BY <1>11 DEF WriteDone, WriteReturn, IoCounts
  <2>5. IoBounds'
    BY <1>11 DEF WriteDone, WriteReturn, IoStreams, IoCounts, IoBounds
  <2>6. IoWriting'
    BY <1>11 DEF WriteDone, WriteReturn, IoFlags, IoControl, IoStreams, IoCounts, IoBounds, IoWriting, Writing, AwaitsWrite, FlushedIsSent, WriteIsDone
  <2>7. IoReading'
    BY <1>11, <2>0 DEF WriteDone, WriteReturn, IoReading, Reading, AwaitsRead
  <2>8. IoEnds'
    BY <1>11 DEF WriteDone, WriteReturn, IoFlags, IoControl, IoReading, Reading, AwaitsRead, AwaitsWrite, IoEnds, NoMutualWaiting
  <2>9. IoOutput'
    <3>1. Rest(writebuf', writebufout') = Rest(writebuf, writebufout)
      <4>1. CASE writebufout = Len(writebuf)
        <5>1. writebuf' = <<>> /\ writebufout' = 0
          BY <1>11, <4>1 DEF WriteDone
        <5>2. Len(Rest(writebuf, writebufout)) = 0 /\ Rest(writebuf, writebufout) \in Seq(Nat)
          BY <4>1, StreamsTyped, TwoParts DEF Rest, IoStreams
        <5>3. Rest(<<>>, 0) = <<>>
          BY EmptySeq DEF Rest
        <5> QED BY <5>1, <5>2, <5>3, EmptySeq
      <4>2. CASE writebufout # Len(writebuf)
        BY <1>11, <4>2 DEF WriteDone
      <4> QED BY <4>1, <4>2
    <3> QED BY <1>11, <3>1 DEF WriteDone, IoOutput, FromFirst
  <2>10. IoInput'
    BY <1>11, <2>0 DEF WriteDone, IoInput, FromFirst
  <2> QED BY <2>1, <2>2, <2>3, <2>4, <2>5, <2>6, <2>7, <2>8, <2>9, <2>10
<1>12. ASSUME Serve PROVE IoInv'
  <2>0. /\ luabuf' = <<>> /\ returned' \in Seq(Nat) /\ readbuf' \in Seq(Nat)
        /\ Len(readbuf') <= Len(readbuf)
    BY <1>12, ServeKeeps
  <2>11. returned' \o luabuf' \o readbuf' = returned \o luabuf \o readbuf
    BY <1>12, ServeKeeps
  <2>1. IoFlags'
    BY <1>12 DEF Serve, ReadReturn, Plain, IoFlags
  <2>2. IoControl'
    BY <1>12 DEF Serve, ReadReturn, Plain, IoControl, Calls, Modes
  <2>3. IoStreams'
    BY <1>12, <2>0, EmptySeq DEF Serve, IoStreams
  <2>4. IoCounts'
    BY <1>12 DEF Serve, ReadReturn, Plain, IoCounts
  <2>5. IoBounds'
    <3>1. Len(readbuf) \in Nat /\ Len(readbuf') \in Nat
      BY <2>0, StreamsTyped, LenProperties
    <3>2. Len(readbuf') <= ReadBufLen
      BY <2>0, <3>1 DEF IoBounds
    <3> QED BY <1>12, <3>2 DEF Serve, IoBounds
  <2>6. IoWriting'
    BY <1>12 DEF Serve, ReadReturn, Plain, IoFlags, IoControl, IoStreams, IoCounts, IoBounds, IoWriting, Writing, AwaitsWrite, FlushedIsSent, WriteIsDone
  <2>7. IoReading'
    BY <1>12 DEF Serve, ReadReturn, Plain, IoFlags, IoControl, IoReading, Reading, AwaitsRead
  <2>8. IoEnds'
    BY <1>12 DEF Serve, ReadReturn, Plain, IoFlags, IoControl, IoReading, Reading, AwaitsRead, AwaitsWrite, IoEnds, NoMutualWaiting
  <2>9. IoOutput'
    BY <1>12 DEF Serve, ReadReturn, Plain, IoOutput, FromFirst
  <2>10. IoInput'
    <3>1. pc = "read" /\ pc' = "idle" /\ UNCHANGED <<open, reset, recvq, sent>>
      BY <1>12 DEF Serve, ReadReturn
    <3>2. FromFirst(returned' \o luabuf' \o readbuf')
      BY <2>11, <3>1 DEF IoInput
    <3>3. FromFirst(returned')
      BY <2>0, <3>2, PartFromFirst
    <3> QED BY <2>11, <3>1, <3>2, <3>3 DEF IoInput, FromFirst
  <2> QED BY <2>1, <2>2, <2>3, <2>4, <2>5, <2>6, <2>7, <2>8, <2>9, <2>10
<1>13. ASSUME Fetch PROVE IoInv'
  <2>0. /\ luabuf' \in Seq(Nat) /\ readbuf' \in Seq(Nat) /\ recvq' \in Seq(Nat)
        /\ Len(luabuf') = Len(luabuf) + Len(readbuf)
        /\ \A k \in 1 .. Len(luabuf') :
              luabuf'[k] = IF k <= Len(luabuf) THEN luabuf[k] ELSE readbuf[k - Len(luabuf)]
        /\ Len(readbuf') <= ReadBufLen /\ Len(recvq') <= Len(recvq)
    BY <1>13, FetchKeeps
  <2>11. returned \o luabuf' \o readbuf' \o recvq' = returned \o luabuf \o readbuf \o recvq
    BY <1>13, FetchKeeps
  <2>12. Len(luabuf) \in Nat /\ Len(readbuf) \in Nat /\ Len(recvq) \in Nat /\ Len(recvq') \in Nat
    BY <2>0, StreamsTyped, LenProperties
  <2>1. IoFlags'
    BY <1>13 DEF Fetch, IoFlags
  <2>2. IoControl'
    BY <1>13 DEF Fetch, IoControl, Calls, Modes
  <2>3. IoStreams'
    BY <1>13, <2>0 DEF Fetch, IoStreams
  <2>4. IoCounts'
    BY <1>13 DEF Fetch, IoCounts
  <2>5. IoBounds'
    <3>1. Len(recvq') <= Kernel
      BY <2>0, <2>12, IoAssumption DEF IoBounds
    <3> QED BY <1>13, <2>0, <3>1 DEF Fetch, IoBounds
  <2>6. IoWriting'
    BY <1>13 DEF Fetch, IoFlags, IoControl, IoStreams, IoCounts, IoBounds, IoWriting, Writing, AwaitsWrite, FlushedIsSent, WriteIsDone
  <2>7. IoReading'
    <3>1. /\ pc = "read" /\ UNCHANGED <<pc, call, open, readerr, nonblocking>>
      BY <1>13 DEF Fetch
    <3>2. /\ call.max >= 0 => Len(luabuf') <= call.max
          /\ call.term => \A k \in 1 .. Len(luabuf') : luabuf'[k] \notin Terminators
      <4>1. /\ call.max >= 0 => Len(luabuf) + Len(readbuf) <= call.max
            /\ call.term => \A k \in 1 .. Len(readbuf) : readbuf[k] \notin Terminators
        BY <1>13, NothingEnds DEF Fetch
      <4>2. call.term => \A k \in 1 .. Len(luabuf) : luabuf[k] \notin Terminators
        BY <3>1 DEF IoReading, Reading
      <4>3. ASSUME call.term, NEW k \in 1 .. Len(luabuf') PROVE luabuf'[k] \notin Terminators
        <5>1. CASE k <= Len(luabuf)
          <6>1. k \in 1 .. Len(luabuf)
            BY <2>0, <2>12, <5>1
          <6> QED BY <2>0, <4>2, <4>3, <5>1, <6>1
        <5>2. CASE k > Len(luabuf)
          <6>1. k - Len(luabuf) \in 1 .. Len(readbuf)
            BY <2>0, <2>12, <5>2
          <6> QED BY <2>0, <2>12, <4>1, <4>3, <5>2, <6>1
        <5> QED BY <2>12, <5>1, <5>2
      <4> QED BY <2>0, <4>1, <4>3
    <3> QED BY <3>1, <3>2 DEF IoReading, Reading, AwaitsRead
  <2>8. IoEnds'
    BY <1>13 DEF Fetch, IoFlags, IoControl, IoReading, Reading, AwaitsRead, AwaitsWrite, IoEnds, NoMutualWaiting
  <2>9. IoOutput'
    BY <1>13 DEF Fetch, IoOutput, FromFirst
  <2>10. IoInput'
    <3>1. pc = "read" /\ UNCHANGED <<pc, open, reset, sent, returned, readerr>> /\ open /\ ~reset
      BY <1>13 DEF Fetch, IoEnds, IoFlags
    <3>2. returned \o luabuf' \o readbuf' \o recvq' = Numbered(0, sent)
      BY <2>11, <3>1 DEF IoInput
    <3>3. FromFirst(returned \o luabuf' \o readbuf')
      <4>1. returned \o luabuf' \o readbuf' \in Seq(Nat)
        BY <2>0, ConcatProperties DEF IoStreams
      <4>2. sent \in Nat
        BY DEF IoCounts
      <4> QED BY <2>0, <3>2, <4>1, <4>2, NumberedPrefix DEF FromFirst
    <3> QED BY <3>1, <3>2, <3>3 DEF IoInput, FromFirst
  <2> QED BY <2>1, <2>2, <2>3, <2>4, <2>5, <2>6, <2>7, <2>8, <2>9, <2>10
<1>14. ASSUME FetchNothing PROVE IoInv'
  <2>0. /\ pc = "read" /\ recvq = <<>> /\ readbuf' = <<>> /\ readerr' = FALSE
        /\ UNCHANGED <<connection, writing, handle, nonblocking, calls, consume>>
        /\ \/ /\ result' \in {"eof", "block"} /\ pc' = "idle" /\ call' = Plain("read")
              /\ returned' = returned \o (luabuf \o readbuf) /\ luabuf' = <<>>
           \/ /\ call.mode = "call" /\ luabuf' = luabuf \o readbuf /\ pc' = "poll"
              /\ UNCHANGED <<call, result, returned>>
    BY <1>14 DEF FetchNothing, ReadReturn
  <2>12. /\ luabuf \o readbuf \in Seq(Nat)
         /\ Len(luabuf \o readbuf) = Len(luabuf) + Len(readbuf)
         /\ \A k \in 1 .. Len(luabuf) + Len(readbuf) :
               (luabuf \o readbuf)[k] = IF k <= Len(luabuf) THEN luabuf[k] ELSE readbuf[k - Len(luabuf)]
         /\ Len(luabuf) \in Nat /\ Len(readbuf) \in Nat
    BY ConcatProperties, LenProperties DEF IoStreams
  <2>13. returned \o (luabuf \o readbuf) \in Seq(Nat)
    BY <2>12, ConcatProperties DEF IoStreams
  <2>1. IoFlags'
    BY <1>14 DEF FetchNothing, ReadReturn, Plain, IoFlags
  <2>2. IoControl'
    <3>1. Plain("read") \in Calls
      BY DEF Plain, Calls, Modes
    <3> QED BY <2>0, <3>1 DEF IoControl
  <2>3. IoStreams'
    <3>1. luabuf' \in Seq(Nat) /\ returned' \in Seq(Nat) /\ readbuf' \in Seq(Nat)
      BY <2>0, <2>12, <2>13, EmptySeq DEF IoStreams
    <3> QED BY <2>0, <3>1 DEF IoStreams
  <2>4. IoCounts'
    BY <1>14 DEF FetchNothing, ReadReturn, Plain, IoCounts
  <2>5. IoBounds'
    BY <1>14 DEF FetchNothing, ReadReturn, Plain, IoStreams, IoCounts, IoBounds
  <2>6. IoWriting'
    BY <2>0 DEF Plain, IoWriting, IoReading, Writing, AwaitsWrite, FlushedIsSent, WriteIsDone
  <2>7. IoReading'
    <3>1. CASE pc' = "idle"
      BY <2>0, <3>1 DEF IoReading, Reading, AwaitsRead, Plain
    <3>2. CASE pc' = "poll"
      <4>1. /\ call.max >= 0 => Len(luabuf) + Len(readbuf) <= call.max
            /\ call.term => \A k \in 1 .. Len(readbuf) : readbuf[k] \notin Terminators
        BY <1>14, NothingEnds DEF FetchNothing
      <4>2. call.term => \A k \in 1 .. Len(luabuf) : luabuf[k] \notin Terminators
        BY <2>0 DEF IoReading, Reading
      <4>3. /\ UNCHANGED <<call, open>> /\ luabuf' = luabuf \o readbuf /\ call.mode = "call"
        BY <2>0, <3>2
      <4>4. /\ call.max >= 0 => Len(luabuf') <= call.max
            /\ call.term => \A k \in 1 .. Len(luabuf') : luabuf'[k] \notin Terminators
        BY <2>12, <4>1, <4>2, <4>3
      <4> QED BY <2>0, <3>2, <4>3, <4>4 DEF IoReading, Reading, AwaitsRead
    <3> QED BY <2>0, <3>1, <3>2
  <2>8. IoEnds'
    BY <1>14 DEF FetchNothing, ReadReturn, Plain, IoFlags, IoControl, IoReading, Reading, AwaitsRead, AwaitsWrite, IoEnds, NoMutualWaiting
  <2>9. IoOutput'
    BY <1>14 DEF FetchNothing, ReadReturn, Plain, IoOutput, FromFirst
  <2>10. IoInput'
    <3>1. FromFirst(returned \o luabuf \o readbuf) /\ FromFirst(returned)
      BY <2>0 DEF IoInput
    <3>2. returned' \o luabuf' \o readbuf' = returned \o luabuf \o readbuf
      <4>1. CASE pc' = "idle"
        <5>1. returned' = returned \o luabuf \o readbuf /\ luabuf' = <<>> /\ readbuf' = <<>>
          BY <2>0, <4>1, AllReturned
        <5> QED BY <5>1, AllReturned
      <4>2. CASE pc' = "poll"
        <5>1. returned' \o luabuf' = returned \o luabuf \o readbuf /\ readbuf' = <<>>
          BY <2>0, <4>2, AllReturned
        <5> QED BY <5>1, AllReturned
      <4> QED BY <2>0, <4>1, <4>2
    <3>3. FromFirst(returned')
      BY <2>0, <3>1, AllReturned
    <3> QED BY <2>0, <3>1, <3>2, <3>3 DEF IoInput, FromFirst
  <2> QED BY <2>1, <2>2, <2>3, <2>4, <2>5, <2>6, <2>7, <2>8, <2>9, <2>10
<1>15. ASSUME FetchFails PROVE IoInv'
  <2>1. IoFlags'
    BY <1>15 DEF FetchFails, IoFlags
  <2>2. IoControl'
    BY <1>15 DEF FetchFails, IoControl, Calls, Modes
  <2>3. IoStreams'
    BY <1>15, EmptySeq DEF FetchFails, IoStreams
  <2>4. IoCounts'
    BY <1>15 DEF FetchFails, IoCounts
  <2>5. IoBounds'
    BY <1>15 DEF FetchFails, IoStreams, IoCounts, IoBounds
  <2>6. IoWriting'
    BY <1>15 DEF FetchFails, IoFlags, IoControl, IoStreams, IoCounts, IoBounds, IoWriting, Writing, AwaitsWrite, FlushedIsSent, WriteIsDone
  <2>7. IoReading'
    BY <1>15 DEF FetchFails, IoFlags, IoControl, IoReading, Reading, AwaitsRead
  <2>8. IoEnds'
    BY <1>15 DEF FetchFails, IoFlags, IoControl, IoReading, Reading, AwaitsRead, AwaitsWrite, IoEnds, NoMutualWaiting
  <2>9. IoOutput'
    BY <1>15 DEF FetchFails, IoOutput, FromFirst
  <2>10. IoInput'
    BY <1>15 DEF FetchFails, IoInput, IoReading, Reading, FromFirst
  <2> QED BY <2>1, <2>2, <2>3, <2>4, <2>5, <2>6, <2>7, <2>8, <2>9, <2>10
<1>16. ASSUME FinishEnd PROVE IoInv'
  <2>1. IoFlags'
    BY <1>16 DEF FinishEnd, CloseFd, IoFlags
  <2>2. IoControl'
    BY <1>16 DEF FinishEnd, CloseFd, IoControl, Calls, Modes
  <2>3. IoStreams'
    BY <1>16, EmptySeq DEF FinishEnd, CloseFd, IoStreams
  <2>4. IoCounts'
    BY <1>16 DEF FinishEnd, CloseFd, IoCounts
  <2>5. IoBounds'
    BY <1>16 DEF FinishEnd, CloseFd, IoStreams, IoCounts, IoBounds
  <2>6. IoWriting'
    BY <1>16 DEF FinishEnd, CloseFd, IoFlags, IoControl, IoStreams, IoCounts, IoBounds, IoWriting, Writing, AwaitsWrite, FlushedIsSent, WriteIsDone
  <2>7. IoReading'
    BY <1>16 DEF FinishEnd, CloseFd, IoFlags, IoControl, IoReading, Reading, AwaitsRead
  <2>8. IoEnds'
    BY <1>16 DEF FinishEnd, CloseFd, IoFlags, IoWriting, IoEnds, NoMutualWaiting
  <2>9. IoOutput'
    BY <1>16 DEF FinishEnd, CloseFd, IoOutput, FromFirst
  <2>10. IoInput'
    BY <1>16 DEF FinishEnd, CloseFd, IoInput, FromFirst
  <2> QED BY <2>1, <2>2, <2>3, <2>4, <2>5, <2>6, <2>7, <2>8, <2>9, <2>10
<1>17. ASSUME CloseEnd PROVE IoInv'
  <2>1. IoFlags'
    BY <1>17 DEF CloseEnd, CloseFd, IoFlags
  <2>2. IoControl'
    BY <1>17 DEF CloseEnd, CloseFd, IoControl, Calls, Modes
  <2>3. IoStreams'
    BY <1>17, EmptySeq DEF CloseEnd, CloseFd, IoStreams
  <2>4. IoCounts'
    BY <1>17 DEF CloseEnd, CloseFd, IoCounts
  <2>5. IoBounds'
    BY <1>17 DEF CloseEnd, CloseFd, IoStreams, IoCounts, IoBounds
  <2>6. IoWriting'
    BY <1>17 DEF CloseEnd, CloseFd, IoFlags, IoControl, IoStreams, IoCounts, IoBounds, IoWriting, Writing, AwaitsWrite, FlushedIsSent, WriteIsDone
  <2>7. IoReading'
    BY <1>17 DEF CloseEnd, CloseFd, IoFlags, IoControl, IoReading, Reading, AwaitsRead
  <2>8. IoEnds'
    BY <1>17 DEF CloseEnd, CloseFd, IoFlags, IoWriting, IoEnds, NoMutualWaiting
  <2>9. IoOutput'
    BY <1>17 DEF CloseEnd, CloseFd, IoOutput, FromFirst
  <2>10. IoInput'
    BY <1>17 DEF CloseEnd, CloseFd, IoInput, FromFirst
  <2> QED BY <2>1, <2>2, <2>3, <2>4, <2>5, <2>6, <2>7, <2>8, <2>9, <2>10
<1>18. ASSUME FlushFails PROVE IoInv'
  <2>1. IoFlags'
    BY <1>18 DEF FlushFails, CloseFd, IoFlags
  <2>2. IoControl'
    BY <1>18 DEF FlushFails, CloseFd, IoControl, Calls, Modes
  <2>3. IoStreams'
    BY <1>18, EmptySeq DEF FlushFails, CloseFd, IoStreams
  <2>4. IoCounts'
    BY <1>18 DEF FlushFails, CloseFd, IoCounts
  <2>5. IoBounds'
    BY <1>18 DEF FlushFails, CloseFd, IoStreams, IoCounts, IoBounds
  <2>6. IoWriting'
    BY <1>18 DEF FlushFails, CloseFd, IoFlags, IoControl, IoStreams, IoCounts, IoBounds, IoWriting, Writing, AwaitsWrite, FlushedIsSent, WriteIsDone
  <2>7. IoReading'
    BY <1>18 DEF FlushFails, CloseFd, IoFlags, IoControl, IoReading, Reading, AwaitsRead
  <2>8. IoEnds'
    BY <1>18 DEF FlushFails, CloseFd, IoFlags, IoControl, IoReading, Reading, AwaitsRead, AwaitsWrite, IoEnds, NoMutualWaiting
  <2>9. IoOutput'
    BY <1>18 DEF FlushFails, CloseFd, IoOutput, FromFirst
  <2>10. IoInput'
    BY <1>18 DEF FlushFails, CloseFd, IoInput, FromFirst
  <2> QED BY <2>1, <2>2, <2>3, <2>4, <2>5, <2>6, <2>7, <2>8, <2>9, <2>10
<1>19. ASSUME Unblock PROVE IoInv'
  <2>0. /\ pc = "poll" /\ pc' = "fill" /\ luabuf = <<>> /\ luabuf' = <<>>
        /\ UNCHANGED <<open, reset, sent, call>>
        /\ \/ UNCHANGED <<readerr, readbuf, recvq, returned>>
           \/ readerr' /\ UNCHANGED <<readbuf, recvq, returned>>
           \/ /\ ~readerr /\ ~reset /\ returned' = returned \o readbuf \o recvq
              /\ readbuf' = <<>> /\ recvq' = <<>> /\ UNCHANGED readerr
    BY <1>19 DEF Unblock, Drain, AwaitsWrite, IoReading, Reading, AwaitsRead
  <2>11. returned \o luabuf = returned
    BY <2>0, AllReturned
  <2>1. IoFlags'
    BY <1>19 DEF Unblock, Drain, IoFlags
  <2>2. IoControl'
    BY <1>19 DEF Unblock, Drain, IoControl, Calls, Modes
  <2>3. IoStreams'
    <3>1. returned \o luabuf \o readbuf \o recvq \in Seq(Nat)
      BY AllReturned
    <3>2. returned' \in Seq(Nat) /\ readbuf' \in Seq(Nat) /\ recvq' \in Seq(Nat) /\ luabuf' \in Seq(Nat)
      BY <2>0, <2>11, <3>1, EmptySeq DEF IoStreams
    <3> QED BY <1>19, <3>2 DEF Unblock, IoStreams
  <2>4. IoCounts'
    BY <1>19 DEF Unblock, Drain, IoCounts
  <2>5. IoBounds'
    BY <1>19 DEF Unblock, Drain, IoStreams, IoCounts, IoBounds
  <2>6. IoWriting'
    BY <1>19 DEF Unblock, Drain, IoFlags, IoControl, IoStreams, IoCounts, IoBounds, IoWriting, Writing, AwaitsWrite, FlushedIsSent, WriteIsDone
  <2>7. IoReading'
    BY <2>0 DEF IoReading, Reading, AwaitsRead
  <2>8. IoEnds'
    BY <1>19 DEF Unblock, Drain, IoFlags, IoControl, IoReading, Reading, AwaitsRead, AwaitsWrite, IoEnds, NoMutualWaiting
  <2>9. IoOutput'
    BY <1>19 DEF Unblock, Drain, IoOutput, FromFirst
  <2>10. IoInput'
    <3>1. CASE UNCHANGED <<readerr, readbuf, recvq, returned>>
      BY <2>0, <3>1 DEF IoInput, FromFirst
    <3>2. CASE readerr' /\ UNCHANGED <<readbuf, recvq, returned>>
      BY <2>0, <3>2 DEF IoInput, FromFirst
    <3>3. CASE /\ ~readerr /\ ~reset /\ returned' = returned \o readbuf \o recvq
               /\ readbuf' = <<>> /\ recvq' = <<>> /\ UNCHANGED readerr
      <4>1. returned' = returned \o luabuf \o readbuf \o recvq
        BY <2>11, <3>3
      <4>2. returned' \o luabuf' \o readbuf' = returned'
        BY <2>0, <3>3, <4>1, AllReturned
      <4>3. FromFirst(returned')
        <5>1. CASE open
          <6>1. returned' = Numbered(0, sent) /\ sent \in Nat
            BY <3>3, <4>1, <5>1 DEF IoInput, IoCounts
          <6> QED BY <6>1, NumberedIsSeq DEF FromFirst
        <5>2. CASE ~open
          <6>1. recvq = <<>>
            BY <5>2 DEF IoEnds
          <6>2. returned' = returned \o luabuf \o readbuf
            BY <4>1, <6>1, AllReturned
          <6> QED BY <3>3, <6>2 DEF IoInput
        <5> QED BY <5>1, <5>2
      <4>4. open => returned' \o luabuf' \o readbuf' \o recvq' = Numbered(0, sent)
        <5>1. returned' \o <<>> = returned'
          BY <4>1, AllReturned
        <5>2. open => returned' = Numbered(0, sent)
          BY <3>3, <4>1 DEF IoInput
        <5> QED BY <3>3, <4>2, <5>1, <5>2
      <4> QED BY <2>0, <4>2, <4>3, <4>4 DEF IoInput, FromFirst
    <3> QED BY <2>0, <3>1, <3>2, <3>3
  <2> QED BY <2>1, <2>2, <2>3, <2>4, <2>5, <2>6, <2>7, <2>8, <2>9, <2>10
<1>20. ASSUME ReadAgain PROVE IoInv'
  <2>1. IoFlags'
    BY <1>20 DEF ReadAgain, IoFlags
  <2>2. IoControl'
    BY <1>20 DEF ReadAgain, IoControl, Calls, Modes
  <2>3. IoStreams'
    BY <1>20, EmptySeq DEF ReadAgain, IoStreams
  <2>4. IoCounts'
    BY <1>20 DEF ReadAgain, IoCounts
  <2>5. IoBounds'
    BY <1>20 DEF ReadAgain, IoStreams, IoCounts, IoBounds
  <2>6. IoWriting'
    BY <1>20 DEF ReadAgain, AwaitsRead, IoWriting, Writing, AwaitsWrite, FlushedIsSent, WriteIsDone
  <2>7. IoReading'
    BY <1>20 DEF ReadAgain, IoFlags, IoControl, IoReading, Reading, AwaitsRead
  <2>8. IoEnds'
    BY <1>20 DEF ReadAgain, IoFlags, IoControl, IoReading, Reading, AwaitsRead, AwaitsWrite, IoEnds, NoMutualWaiting
  <2>9. IoOutput'
    BY <1>20 DEF ReadAgain, IoOutput, FromFirst
  <2>10. IoInput'
    BY <1>20 DEF ReadAgain, IoInput, IoReading, FromFirst
  <2> QED BY <2>1, <2>2, <2>3, <2>4, <2>5, <2>6, <2>7, <2>8, <2>9, <2>10
<1>21. ASSUME Timeout PROVE IoInv'
  <2>0. /\ pc = "poll" /\ pc' = "idle" /\ UNCHANGED <<inet, sent, got, readerr, readbuf, writing, call, consume, sawEof, peer, infin>>
        /\ \/ /\ call.op = "write" /\ result' = "stalled" /\ closed' /\ ~open'
              /\ UNCHANGED <<luabuf, returned>> /\ (reset' \/ UNCHANGED <<reset, sendq, recvq>>)
              /\ (reset' => sendq' = <<>> /\ recvq' = <<>>) /\ (~reset' => ~inet /\ recvq = <<>>)
           \/ /\ call.op = "read" /\ result' = "timeout" /\ UNCHANGED <<closed, open, kernel>>
              /\ returned' = returned \o luabuf /\ luabuf' = <<>>
    BY <1>21 DEF Timeout, CloseFd, AwaitsWrite, AwaitsRead, IoFlags
  <2>11. call.op = "write" => luabuf = <<>>
    BY <2>0 DEF IoReading, Reading, AwaitsRead
  <2>1. IoFlags'
    BY <1>21 DEF Timeout, CloseFd, IoFlags
  <2>2. IoControl'
    BY <1>21 DEF Timeout, CloseFd, IoControl, Calls, Modes
  <2>3. IoStreams'
    <3>1. returned \o luabuf \in Seq(Nat)
      BY StreamsTyped
    <3>2. /\ sendq' \in Seq(Nat) /\ recvq' \in Seq(Nat)
          /\ luabuf' \in Seq(Nat) /\ returned' \in Seq(Nat)
      BY <2>0, <3>1, EmptySeq DEF IoStreams
    <3> QED BY <2>0, <3>2 DEF IoStreams
  <2>4. IoCounts'
    BY <1>21 DEF Timeout, CloseFd, IoCounts
  <2>5. IoBounds'
    BY <1>21 DEF Timeout, CloseFd, IoStreams, IoCounts, IoBounds
  <2>6. IoWriting'
    BY <2>0 DEF IoWriting, Writing, AwaitsWrite, FlushedIsSent, WriteIsDone
  <2>7. IoReading'
    BY <2>0, <2>11 DEF IoReading, Reading, AwaitsRead
  <2>8. IoEnds'
    <3>1. CASE call.op = "read"
      BY <2>0, <3>1, <1>21 DEF Timeout, AwaitsWrite, IoEnds, NoMutualWaiting
    <3>2. CASE call.op = "write"
      <4>1. ~(MaySend \/ MayRead \/ MayEnd) /\ ~WakesUp
        BY <1>21, <3>2 DEF Timeout, AwaitsRead
      <4>2. peer \in {"eager", "stubborn"} => ~consume /\ ~sawEof
        <5>1. ~reset /\ Len(sendq) = Kernel /\ sendq # <<>>
          <6>1. ~reset /\ ~(Len(sendq) < Kernel)
            BY <4>1 DEF WakesUp, Writable
          <6>2. Len(sendq) \in Nat /\ Len(sendq) <= Kernel
            BY StreamsTyped DEF IoBounds
          <6> QED BY <6>1, <6>2, IoAssumption, EmptySeq
        <5>2. ASSUME peer \in {"eager", "stubborn"} PROVE sent # MaxIn /\ ~infin /\ Len(recvq) >= Kernel
          <6>1. Alive /\ sent # MaxIn
            BY <4>1, <5>1, <5>2 DEF MayRead, Alive
          <6>2. ~infin
            BY <6>1 DEF IoEnds
          <6>3. sent < MaxIn /\ Len(recvq) \in Nat
            BY <6>1, StreamsTyped, IoAssumption DEF IoCounts
          <6> QED BY <4>1, <6>1, <6>2, <6>3, IoAssumption DEF MaySend
        <5>3. Len(recvq) >= Kernel => recvq # <<>>
          BY IoAssumption, EmptySeq
        <5> QED BY <4>1, <5>2, <5>3 DEF WakesUp, Readable, IoEnds
      <4>3. NoMutualWaiting'
        BY <2>0, <4>2 DEF NoMutualWaiting, IoControl
      <4>4. outfin' /\ inet' /\ ~reset' => writeleft' = 0 /\ (finished' \/ closed')
        BY <2>0, <3>2
      <4> QED BY <2>0, <3>2, <4>3, <4>4 DEF IoEnds
    <3> QED BY <2>0, <3>1, <3>2
  <2>9. IoOutput'
    <3>1. reset' \/ UNCHANGED <<reset, sendq>>
      BY <2>0
    <3> QED BY <2>0, <3>1 DEF IoOutput, FromFirst
  <2>10. IoInput'
    <3>1. CASE call.op = "read"
      <4>1. FromFirst(returned \o luabuf \o readbuf)
        BY <2>0, <3>1 DEF IoReading, AwaitsRead, IoInput
      <4>2. FromFirst(returned')
        BY <2>0, <3>1, <4>1, ReturnedFromFirst
      <4>3. returned' \o luabuf' = returned \o luabuf
        BY <2>0, <3>1, AllReturned
      <4> QED BY <2>0, <3>1, <4>1, <4>2, <4>3 DEF IoInput, FromFirst
    <3>2. CASE call.op = "write"
      BY <2>0, <3>2 DEF IoInput, FromFirst
    <3> QED BY <2>0, <3>1, <3>2
  <2> QED BY <2>1, <2>2, <2>3, <2>4, <2>5, <2>6, <2>7, <2>8, <2>9, <2>10
<1>22. ASSUME PeerSend PROVE IoInv'
  <2>1. IoFlags'
    BY <1>22 DEF PeerSend, MaySend, Alive, IoFlags
  <2>2. IoControl'
    BY <1>22 DEF PeerSend, MaySend, Alive, IoControl, Calls, Modes
  <2>3. IoStreams'
    <3>1. Append(recvq, sent + 1) \in Seq(Nat)
      BY AppendProperties DEF IoStreams, IoCounts
    <3> QED BY <1>22, <3>1, EmptySeq DEF PeerSend, IoStreams
  <2>4. IoCounts'
    BY <1>22 DEF PeerSend, MaySend, Alive, IoCounts
  <2>5. IoBounds'
    BY <1>22 DEF PeerSend, MaySend, Alive, IoStreams, IoCounts, IoBounds
  <2>6. IoWriting'
    BY <1>22 DEF PeerSend, MaySend, Alive, IoFlags, IoControl, IoStreams, IoCounts, IoBounds, IoWriting, Writing, AwaitsWrite, FlushedIsSent, WriteIsDone
  <2>7. IoReading'
    BY <1>22 DEF PeerSend, MaySend, Alive, IoFlags, IoControl, IoReading, Reading, AwaitsRead
  <2>8. IoEnds'
    BY <1>22 DEF PeerSend, MaySend, Alive, IoFlags, IoControl, IoReading, Reading, AwaitsRead, AwaitsWrite, IoEnds, NoMutualWaiting
  <2>9. IoOutput'
    BY <1>22 DEF PeerSend, MaySend, Alive, IoOutput, FromFirst
  <2>10. IoInput'
    <3>1. /\ ~reset /\ UNCHANGED <<open, pc, readerr, returned, luabuf, readbuf>> /\ sent' = sent + 1
          /\ open => recvq' = Append(recvq, sent + 1)
          /\ ~open => reset'
      BY <1>22 DEF PeerSend, MaySend, Alive
    <3>2. ASSUME open
          PROVE  returned \o luabuf \o readbuf \o Append(recvq, sent + 1) = Numbered(0, sent + 1)
      <4> DEFINE s == returned \o luabuf \o readbuf
                 w == sent + 1
      <4>1. s \in Seq(Nat) /\ recvq \in Seq(Nat) /\ sent \in Nat /\ w \in Nat
        BY StreamsTyped DEF IoStreams, IoCounts
      <4> HIDE DEF s, w
      <4>2. s \o Append(recvq, w) = Append(s \o recvq, w)
        <5>1. \A a, b \in Seq(Nat), x \in Nat : a \o Append(b, x) = Append(a \o b, x)
          BY ConcatAppend
        <5> QED BY <4>1, <5>1
      <4>3. s \o recvq = Numbered(0, sent)
        BY <3>1, <3>2 DEF s, IoInput
      <4>4. Append(Numbered(0, sent), 0 + sent + 1) = Numbered(0, sent + 1)
        BY <4>1, NumberedGrows
      <4>5. 0 + sent + 1 = sent + 1
        BY <4>1
      <4> QED BY <4>2, <4>3, <4>4, <4>5 DEF s, w
    <3> QED BY <3>1, <3>2 DEF IoInput, FromFirst
  <2> QED BY <2>1, <2>2, <2>3, <2>4, <2>5, <2>6, <2>7, <2>8, <2>9, <2>10
<1>23. ASSUME PeerRead PROVE IoInv'
  <2>1. IoFlags'
    BY <1>23 DEF PeerRead, MayRead, Alive, IoFlags
  <2>2. IoControl'
    BY <1>23 DEF PeerRead, MayRead, Alive, IoControl, Calls, Modes
  <2>3. IoStreams'
    BY <1>23, EmptySeq DEF PeerRead, MayRead, Alive, IoStreams
  <2>4. IoCounts'
    BY <1>23 DEF PeerRead, MayRead, Alive, IoCounts
  <2>5. IoBounds'
    BY <1>23 DEF PeerRead, MayRead, Alive, IoStreams, IoCounts, IoBounds
  <2>6. IoWriting'
    BY <1>23 DEF PeerRead, MayRead, Alive, IoFlags, IoControl, IoStreams, IoCounts, IoBounds, IoWriting, Writing, AwaitsWrite, FlushedIsSent, WriteIsDone
  <2>7. IoReading'
    BY <1>23 DEF PeerRead, MayRead, Alive, IoFlags, IoControl, IoReading, Reading, AwaitsRead
  <2>8. IoEnds'
    BY <1>23 DEF PeerRead, MayRead, Alive, IoFlags, IoControl, IoReading, Reading, AwaitsRead, AwaitsWrite, IoEnds, NoMutualWaiting
  <2>9. IoOutput'
    <3> DEFINE g == Append(got, Head(sendq))
               t == Tail(sendq)
               r == Rest(writebuf, writebufout)
    <3>1. ~reset /\ sendq # <<>> /\ got' = g /\ sendq' = t
          /\ UNCHANGED <<reset, writebuf, writebufout, writeq, accepted>>
      BY <1>23 DEF PeerRead, MayRead, Alive
    <3>2. /\ got \in Seq(Nat) /\ sendq \in Seq(Nat) /\ r \in Seq(Nat) /\ writeq \in Seq(Nat)
          /\ accepted \in Nat
      BY StreamsTyped DEF IoStreams, IoCounts
    <3>3. g \in Seq(Nat) /\ t \in Seq(Nat)
      BY <3>1, <3>2, HeadMoves
    <3>4. g \o t = got \o sendq
      BY <3>1, <3>2, HeadMoves
    <3> HIDE DEF g, t, r
    <3>5. g \o t \o r \o writeq = Numbered(0, accepted)
      BY <3>1, <3>4 DEF IoOutput, r
    <3>6. FromFirst(g)
      <4>1. (g \o t) \o r = g \o (t \o r) /\ t \o r \in Seq(Nat)
        BY <3>2, <3>3, StreamBrackets, ConcatProperties
      <4>2. (g \o (t \o r)) \o writeq = g \o ((t \o r) \o writeq) /\ (t \o r) \o writeq \in Seq(Nat)
        <5>1. t \o r \in Seq(Nat)
          BY <4>1
        <5>2. (g \o (t \o r)) \o writeq = g \o ((t \o r) \o writeq)
          <6> DEFINE u == t \o r
          <6>1. u \in Seq(Nat) /\ g \in Seq(Nat) /\ writeq \in Seq(Nat)
            BY <3>2, <3>3, <5>1
          <6> HIDE DEF u
          <6>2. (g \o u) \o writeq = g \o (u \o writeq)
            BY <6>1, StreamBrackets
          <6> QED BY <6>2 DEF u
        <5>3. (t \o r) \o writeq \in Seq(Nat)
          BY <3>2, <5>1, ConcatProperties
        <5> QED BY <5>2, <5>3
      <4>3. g \o ((t \o r) \o writeq) = Numbered(0, accepted)
        BY <3>5, <4>1, <4>2
      <4> QED BY <3>2, <3>3, <4>2, <4>3, NumberedPrefix DEF FromFirst
    <3> QED BY <3>1, <3>5, <3>6 DEF IoOutput, FromFirst, r
  <2>10. IoInput'
    BY <1>23 DEF PeerRead, MayRead, Alive, IoInput, FromFirst
  <2> QED BY <2>1, <2>2, <2>3, <2>4, <2>5, <2>6, <2>7, <2>8, <2>9, <2>10
<1>24. ASSUME PeerEnds PROVE IoInv'
  <2>1. IoFlags'
    BY <1>24 DEF PeerEnds, Alive, IoFlags
  <2>2. IoControl'
    BY <1>24 DEF PeerEnds, Alive, IoControl, Calls, Modes
  <2>3. IoStreams'
    BY <1>24, EmptySeq DEF PeerEnds, Alive, IoStreams
  <2>4. IoCounts'
    BY <1>24 DEF PeerEnds, Alive, IoCounts
  <2>5. IoBounds'
    BY <1>24 DEF PeerEnds, Alive, IoStreams, IoCounts, IoBounds
  <2>6. IoWriting'
    BY <1>24 DEF PeerEnds, Alive, IoFlags, IoControl, IoStreams, IoCounts, IoBounds, IoWriting, Writing, AwaitsWrite, FlushedIsSent, WriteIsDone
  <2>7. IoReading'
    BY <1>24 DEF PeerEnds, Alive, IoFlags, IoControl, IoReading, Reading, AwaitsRead
  <2>8. IoEnds'
    BY <1>24 DEF PeerEnds, Alive, IoFlags, IoControl, IoReading, Reading, AwaitsRead, AwaitsWrite, IoEnds, NoMutualWaiting
  <2>9. IoOutput'
    BY <1>24 DEF PeerEnds, Alive, IoOutput, FromFirst
  <2>10. IoInput'
    BY <1>24 DEF PeerEnds, Alive, IoInput, FromFirst
  <2> QED BY <2>1, <2>2, <2>3, <2>4, <2>5, <2>6, <2>7, <2>8, <2>9, <2>10
<1>25. ASSUME PeerFails PROVE IoInv'
  <2>1. IoFlags'
    BY <1>25 DEF PeerFails, Alive, IoFlags
  <2>2. IoControl'
    BY <1>25 DEF PeerFails, Alive, IoControl, Calls, Modes
  <2>3. IoStreams'
    BY <1>25, EmptySeq DEF PeerFails, Alive, IoStreams
  <2>4. IoCounts'
    BY <1>25 DEF PeerFails, Alive, IoCounts
  <2>5. IoBounds'
    BY <1>25 DEF PeerFails, Alive, IoStreams, IoCounts, IoBounds
  <2>6. IoWriting'
    BY <1>25 DEF PeerFails, Alive, IoFlags, IoControl, IoStreams, IoCounts, IoBounds, IoWriting, Writing, AwaitsWrite, FlushedIsSent, WriteIsDone
  <2>7. IoReading'
    BY <1>25 DEF PeerFails, Alive, IoFlags, IoControl, IoReading, Reading, AwaitsRead
  <2>8. IoEnds'
    BY <1>25 DEF PeerFails, Alive, IoFlags, IoControl, IoReading, Reading, AwaitsRead, AwaitsWrite, IoEnds, NoMutualWaiting
  <2>9. IoOutput'
    BY <1>25 DEF PeerFails, Alive, IoOutput, FromFirst
  <2>10. IoInput'
    BY <1>25 DEF PeerFails, Alive, IoInput, FromFirst
  <2> QED BY <2>1, <2>2, <2>3, <2>4, <2>5, <2>6, <2>7, <2>8, <2>9, <2>10
<1>26. ASSUME UNCHANGED iovars PROVE IoInv'
  <2>1. IoFlags'
    BY <1>26 DEF iovars, IoFlags
  <2>2. IoControl'
    BY <1>26 DEF iovars, IoControl, Calls, Modes
  <2>3. IoStreams'
    BY <1>26 DEF iovars, IoStreams
  <2>4. IoCounts'
    BY <1>26 DEF iovars, IoCounts
  <2>5. IoBounds'
    BY <1>26 DEF iovars, IoStreams, IoCounts, IoBounds
  <2>6. IoWriting'
    BY <1>26 DEF iovars, IoFlags, IoControl, IoStreams, IoCounts, IoBounds, IoWriting, Writing, AwaitsWrite, FlushedIsSent, WriteIsDone
  <2>7. IoReading'
    BY <1>26 DEF iovars, IoFlags, IoControl, IoReading, Reading, AwaitsRead
  <2>8. IoEnds'
    BY <1>26 DEF iovars, IoFlags, IoControl, IoReading, Reading, AwaitsRead, AwaitsWrite, IoEnds, NoMutualWaiting
  <2>9. IoOutput'
    BY <1>26 DEF iovars, IoOutput, FromFirst, Rest
  <2>10. IoInput'
    BY <1>26 DEF iovars, IoInput, FromFirst
  <2> QED BY <2>1, <2>2, <2>3, <2>4, <2>5, <2>6, <2>7, <2>8, <2>9, <2>10
<1> QED
  BY <1>1, <1>2, <1>3, <1>4, <1>5, <1>6, <1>7, <1>8, <1>9, <1>10, <1>11, <1>12, <1>13, <1>14, <1>15, <1>16, <1>17, <1>18, <1>19, <1>20, <1>21, <1>22, <1>23, <1>24, <1>25, <1>26 DEF IoNext, NewCall, Going, PutBytes

-----------------------------------------------------------------------------
LEMMA IoStarts ==
  ASSUME NEW family \in BOOLEAN, NEW mood \in {"eager", "stubborn"}, NEW drains \in BOOLEAN,
         IoStart(family, mood, drains)
  PROVE  IoInv
<1> USE IoAssumption DEF IoStart
<1>0. Rest(<<>>, 0) = <<>> /\ <<>> \in Seq(Nat) /\ Len(<<>>) = 0
  BY EmptySeq DEF Rest
<1>1. IoFlags
  BY DEF IoFlags
<1>2. IoControl
  BY DEF IoControl, Calls, Modes, Plain
<1>3. IoStreams
  BY <1>0 DEF IoStreams
<1>4. IoCounts
  BY DEF IoCounts
<1>5. IoBounds
  BY <1>0 DEF IoBounds
<1>6. IoWriting
  BY DEF IoWriting, Writing, AwaitsWrite, FlushedIsSent, WriteIsDone, Plain
<1>7. IoReading
  BY DEF IoReading, Reading, AwaitsRead
<1>8. IoEnds
  BY DEF IoEnds, NoMutualWaiting
<1>9. Numbered(0, 0) = <<>> /\ <<>> \o <<>> = <<>>
  <2>1. Numbered(0, 0) \in Seq(Nat) /\ Len(Numbered(0, 0)) = 0
    BY NumberedIsSeq
  <2> QED BY <1>0, <2>1, EmptySeq, ConcatEmptySeq
<1>10. IoOutput
  BY <1>0, <1>9 DEF IoOutput, FromFirst
<1>11. IoInput
  BY <1>0, <1>9 DEF IoInput, FromFirst
<1> QED BY <1>1, <1>2, <1>3, <1>4, <1>5, <1>6, <1>7, <1>8, <1>10, <1>11 DEF IoInv

LEMMA IoPromises ==
  ASSUME IoInv
  PROVE  IoTypeOK /\ StreamsIntact /\ FlushedIsSent /\ NoMutualWaiting
<1> USE DEF IoInv
<1>1. writebufout \in 0 .. Len(writebuf) /\ flushedleft \in 0 .. writeleft
  BY StreamsTyped DEF IoBounds, IoCounts
<1>2. IoTypeOK
  BY <1>1 DEF IoTypeOK, IoFlags, IoControl, IoCounts, IoBounds, IoEnds
<1>3. OutputIntact
  <2>1. accepted \in Nat /\ Len(got) \in Nat
    BY LenProperties, IoAssumption DEF IoCounts, IoStreams
  <2>2. Numbered(0, accepted) = Bytes(accepted) /\ Numbered(0, Len(got)) = Bytes(Len(got))
    BY <2>1, NumberedFromFirst DEF Bytes
  <2> QED BY <2>2 DEF OutputIntact, IoOutput, FromFirst
<1>4. InputIntact
  <2>1. sent \in Nat /\ Len(returned) \in Nat
    BY LenProperties, IoAssumption DEF IoCounts, IoStreams
  <2>2. Numbered(0, sent) = Bytes(sent) /\ Numbered(0, Len(returned)) = Bytes(Len(returned))
    BY <2>1, NumberedFromFirst DEF Bytes
  <2> QED BY <2>2 DEF InputIntact, IoInput, FromFirst
<1>5. EndAfterOutput
  <2>1. ASSUME outfin, inet, ~reset PROVE Len(got) + Len(sendq) = accepted
    <3>1. writeleft = 0
      BY <2>1 DEF IoEnds
    <3>2. Len(writeq) = 0 /\ writebufout = Len(writebuf)
      BY <3>1, StreamsTyped DEF IoBounds
    <3>3. writeq = <<>> /\ Len(Rest(writebuf, writebufout)) = 0
      BY <3>2, StreamsTyped, EmptySeq, TwoParts DEF IoStreams, Rest
    <3>4. Len(got \o sendq \o Rest(writebuf, writebufout) \o writeq) = Len(got) + Len(sendq)
      <4> DEFINE g == got \o sendq
                 r == Rest(writebuf, writebufout)
      <4>1. g \in Seq(Nat) /\ r \in Seq(Nat) /\ writeq \in Seq(Nat) /\ Len(g) = Len(got) + Len(sendq)
        BY StreamsTyped, ConcatProperties DEF IoStreams
      <4>2. Len(r) = 0 /\ Len(writeq) = 0
        BY <3>2, <3>3
      <4>3. Len(g) \in Nat
        BY <4>1, LenProperties
      <4> HIDE DEF g, r
      <4>4. g \o r \in Seq(Nat) /\ Len(g \o r) = Len(g) + Len(r)
        BY <4>1, ConcatProperties
      <4>5. Len(g \o r \o writeq) = Len(g \o r) + Len(writeq)
        BY <4>1, <4>4, ConcatProperties
      <4>6. Len(g \o r \o writeq) = Len(got) + Len(sendq)
        BY <4>1, <4>2, <4>3, <4>4, <4>5
      <4> QED BY <4>6 DEF g, r
    <3>5. accepted \in Nat /\ got \o sendq \o Rest(writebuf, writebufout) \o writeq = Numbered(0, accepted)
      BY <2>1, IoAssumption DEF IoCounts, IoOutput
    <3>6. Len(Numbered(0, accepted)) = accepted
      BY <3>5, NumberedIsSeq
    <3> QED BY <3>4, <3>5, <3>6
  <2> QED BY <2>1 DEF EndAfterOutput
<1>6. StreamsIntact
  BY <1>3, <1>4, <1>5 DEF StreamsIntact
<1> QED BY <1>2, <1>6 DEF IoWriting, IoEnds

-----------------------------------------------------------------------------
(* What a read returns                                                     *)

\* What has been added at the end of what has been returned.
LEMMA Added ==
  ASSUME NEW r \in Seq(Nat), NEW d \in Seq(Nat)
  PROVE  Rest(r \o d, Len(r)) = d
<1>1. Len(r) \in Nat /\ Len(r) \in 0 .. Len(r)
  BY LenProperties
<1>2. SubSeq(r \o d, Len(r) + 1, Len(r \o d)) = SubSeq(r, Len(r) + 1, Len(r)) \o d
  BY <1>1, RestConcat
<1>3. SubSeq(r, Len(r) + 1, Len(r)) = <<>>
  <2>1. SubSeq(r, Len(r) + 1, Len(r)) \in Seq(Nat) /\ Len(SubSeq(r, Len(r) + 1, Len(r))) = 0
    BY <1>1, TwoParts
  <2> QED BY <2>1, EmptySeq
<1>4. <<>> \o d = d
  BY ConcatEmptySeq
<1> QED BY <1>2, <1>3, <1>4 DEF Rest

LEMMA ReadEndsWell == ASSUME IoInv, [IoNext]_iovars PROVE ReadEnds
<1> SUFFICES ASSUME pc = "read", pc' = "idle" PROVE ReadEnds
  BY DEF ReadEnds
<1> DEFINE data == Rest(returned', Len(returned))
           hits == {k \in 1 .. Len(data) : call.term /\ data[k] \in Terminators}
<1>0. /\ Len(luabuf) \in Nat /\ Len(readbuf) \in Nat /\ luabuf \in Seq(Nat) /\ readbuf \in Seq(Nat)
      /\ returned \in Seq(Nat)
      /\ call.max >= 0 => Len(luabuf) <= call.max
      /\ call.term => \A k \in 1 .. Len(luabuf) : luabuf[k] \notin Terminators
      /\ call.max \in Int
  BY StreamsTyped DEF IoInv, IoStreams, IoReading, Reading, IoControl, Calls
<1>1. Serve \/ FetchNothing \/ FetchFails
  BY DEF IoNext, iovars, control, NewCall, Going, Begin, Write, Read, Finish, Close, Reset, EnableDrain,
         Fill, PutBytes, WriteOut, Emptying, PutBlocked, PutFails, WriteDone, Fetch, FinishEnd, CloseEnd,
         FlushFails, Unblock, ReadAgain, Timeout, AwaitsWrite, AwaitsRead,
         PeerSend, PeerRead, PeerEnds, PeerFails
<1>2. CASE Serve
  <2>1. PICK n \in 0 .. Len(InSight) :
          /\ n <= Len(readbuf)
          /\ returned' = returned \o (luabuf \o SubSeq(readbuf, 1, n))
          /\ Ends # {} => n \in Ends /\ (\A j \in Ends : n <= j) /\ result' = "term"
          /\ Ends = {} => n = Want /\ result' = "maxlen"
    BY <1>2, ServeTakes
  <2> DEFINE p == SubSeq(readbuf, 1, n)
  <2>2. /\ Len(InSight) \in 0 .. Len(readbuf) /\ \A k \in 1 .. Len(InSight) : InSight[k] = readbuf[k]
        /\ Want >= 0 => Len(InSight) <= Want
        /\ Want \in Int
    BY InSightIsPrefix
  <2>3. /\ n \in 0 .. Len(readbuf) /\ n \in Nat
        /\ p \in Seq(Nat) /\ Len(p) = n /\ \A k \in 1 .. n : p[k] = readbuf[k]
    <3>1. \A k \in 1 .. Len(readbuf) : readbuf[k] \in Nat
      BY <1>0, ElementOfSeq
    <3>2. n \in 0 .. Len(readbuf)
      BY <1>0, <2>1, <2>2
    <3> QED BY <1>0, <3>1, <3>2, SubSeqProperties
  <2> HIDE DEF p
  <2>4. /\ luabuf \o p \in Seq(Nat) /\ Len(luabuf \o p) = Len(luabuf) + n
        /\ \A k \in 1 .. Len(luabuf) + n : (luabuf \o p)[k] = IF k <= Len(luabuf) THEN luabuf[k] ELSE p[k - Len(luabuf)]
    BY <1>0, <2>3, ConcatProperties
  <2>5. data = luabuf \o p
    <3>1. returned' = returned \o (luabuf \o p)
      BY <2>1 DEF p
    <3> QED BY <1>0, <2>4, <3>1, Added
  <2> HIDE DEF data
  <2>6. /\ Len(data) = Len(luabuf) + n
        /\ \A k \in 1 .. Len(luabuf) : data[k] = luabuf[k]
        /\ \A k \in 1 .. n : data[Len(luabuf) + k] = readbuf[k]
    <3>1. Len(data) = Len(luabuf) + n
      BY <2>4, <2>5
    <3>2. ASSUME NEW k \in 1 .. Len(luabuf) PROVE data[k] = luabuf[k]
      <4>1. k \in 1 .. Len(luabuf) + n /\ k <= Len(luabuf)
        BY <1>0, <2>3
      <4> QED BY <2>4, <2>5, <4>1
    <3>3. ASSUME NEW k \in 1 .. n PROVE data[Len(luabuf) + k] = readbuf[k]
      <4> DEFINE j == Len(luabuf) + k
      <4>1. j \in 1 .. Len(luabuf) + n /\ ~(j <= Len(luabuf)) /\ j - Len(luabuf) = k
        BY <1>0, <2>3
      <4> HIDE DEF j
      <4>2. data[j] = p[j - Len(luabuf)]
        BY <2>4, <2>5, <4>1
      <4>3. data[j] = readbuf[k]
        BY <2>3, <4>1, <4>2
      <4> QED BY <4>3 DEF j
    <3> QED BY <3>1, <3>2, <3>3
  <2>7. call.max >= 0 => Want = call.max - Len(luabuf) /\ Len(data) <= call.max
    <3>1. ASSUME call.max >= 0 PROVE Want = call.max - Len(luabuf) /\ Want >= 0
      BY <1>0, <3>1 DEF Want
    <3> QED BY <1>0, <2>1, <2>2, <2>3, <2>6, <3>1
  <2>8. \A k \in 1 .. Len(data) : call.term /\ data[k] \in Terminators => k > Len(luabuf) /\ k - Len(luabuf) \in Ends
    <3>1. ASSUME NEW k \in 1 .. Len(data), call.term, data[k] \in Terminators
          PROVE  k > Len(luabuf) /\ k - Len(luabuf) \in Ends
      <4>0. k \in Nat /\ 1 <= k /\ k <= Len(luabuf) + n
        BY <1>0, <2>3, <2>6
      <4>1. k > Len(luabuf)
        <5>1. ASSUME k <= Len(luabuf) PROVE FALSE
          <6>1. k \in 1 .. Len(luabuf)
            BY <1>0, <4>0, <5>1
          <6>2. data[k] = luabuf[k]
            BY <2>6, <6>1
          <6> QED BY <1>0, <3>1, <6>1, <6>2
        <5> QED BY <1>0, <4>0, <5>1
      <4>2. k - Len(luabuf) \in 1 .. n /\ Len(luabuf) + (k - Len(luabuf)) = k
        BY <1>0, <2>3, <4>0, <4>1
      <4>3. readbuf[k - Len(luabuf)] \in Terminators
        BY <2>6, <3>1, <4>2
      <4>4. k - Len(luabuf) \in 1 .. Len(InSight) /\ InSight[k - Len(luabuf)] \in Terminators
        BY <2>1, <2>2, <4>2, <4>3
      <4> QED BY <3>1, <4>1, <4>4 DEF Ends
    <3> QED BY <3>1
  <2>9. CASE Ends # {}
    <3>1. n \in Ends /\ (\A j \in Ends : n <= j) /\ result' = "term"
      BY <2>1, <2>9
    <3>2. Len(data) \in hits
      <4>1. n \in 1 .. Len(InSight) /\ call.term /\ readbuf[n] \in Terminators
        BY <2>2, <3>1 DEF Ends
      <4>2. Len(data) \in 1 .. Len(data) /\ data[Len(data)] = readbuf[n]
        BY <1>0, <2>3, <2>6, <4>1
      <4> QED BY <4>1, <4>2
    <3>3. ASSUME NEW k \in hits PROVE k = Len(data)
      <4>1. k \in 1 .. Len(data) /\ k - Len(luabuf) \in Ends
        BY <2>8, <3>3
      <4>2. n <= k - Len(luabuf)
        BY <3>1, <4>1
      <4>3. k \in Int /\ k <= Len(luabuf) + n /\ Len(data) = Len(luabuf) + n
        BY <1>0, <2>3, <2>6, <4>1
      <4>4. \A a, b, c \in Int : a <= b - c /\ b <= c + a => b = c + a
        OBVIOUS
      <4>5. n \in Int /\ Len(luabuf) \in Int
        BY <1>0, <2>3
      <4>6. k = Len(luabuf) + n
        BY <4>2, <4>3, <4>4, <4>5
      <4> QED BY <4>3, <4>6
    <3>4. hits = {Len(data)}
      BY <3>2, <3>3
    <3> QED BY <2>7, <3>1, <3>4 DEF ReadEnds, data
  <2>10. CASE Ends = {}
    <3>1. n = Want /\ result' = "maxlen" /\ Whole
      BY <1>2, <2>1, <2>10 DEF Serve
    <3>2. call.max >= 0 /\ Len(data) = call.max
      BY <1>0, <2>6, <3>1 DEF Whole, Want
    <3>3. hits = {}
      BY <2>8, <2>10
    <3> QED BY <2>7, <3>1, <3>2, <3>3 DEF ReadEnds, data
  <2> QED BY <2>9, <2>10
<1>3. CASE FetchNothing
  <2>1. /\ result' \in {"eof", "block"} /\ returned' = returned \o (luabuf \o readbuf)
        /\ Ends = {} /\ ~Whole /\ recvq = <<>> /\ ~reset /\ (result' = "eof" => infin)
    BY <1>3 DEF FetchNothing, ReadReturn
  <2>2. /\ luabuf \o readbuf \in Seq(Nat) /\ Len(luabuf \o readbuf) = Len(luabuf) + Len(readbuf)
        /\ \A k \in 1 .. Len(luabuf) + Len(readbuf) :
              (luabuf \o readbuf)[k] = IF k <= Len(luabuf) THEN luabuf[k] ELSE readbuf[k - Len(luabuf)]
    BY <1>0, ConcatProperties
  <2>3. data = luabuf \o readbuf
    BY <1>0, <2>1, <2>2, Added
  <2> HIDE DEF data
  <2>4. /\ call.max >= 0 => Len(luabuf) + Len(readbuf) <= call.max
        /\ call.term => \A k \in 1 .. Len(readbuf) : readbuf[k] \notin Terminators
    BY <2>1, NothingEnds
  <2>5. ASSUME call.term, NEW k \in 1 .. Len(data) PROVE data[k] \notin Terminators
    <3>1. CASE k <= Len(luabuf)
      BY <1>0, <2>2, <2>3, <2>5, <3>1
    <3>2. CASE k > Len(luabuf)
      <4>1. k - Len(luabuf) \in 1 .. Len(readbuf) /\ data[k] = readbuf[k - Len(luabuf)]
        BY <1>0, <2>2, <2>3, <3>2
      <4> QED BY <2>4, <2>5, <4>1
    <3> QED BY <1>0, <2>2, <2>3, <3>1, <3>2
  <2>6. hits = {} /\ (call.max >= 0 => Len(data) <= call.max)
    BY <2>2, <2>3, <2>4, <2>5
  <2>7. returned' = Bytes(sent)
    <3>1. open /\ ~reset
      BY <2>1 DEF IoInv, IoReading, Reading
    <3>2. returned \o luabuf \o readbuf \o <<>> = Numbered(0, sent) /\ sent \in Nat
      BY <2>1, <3>1, IoAssumption DEF IoInv, IoInput, IoCounts
    <3>3. returned' = Numbered(0, sent)
      BY <2>1, <3>2, AllReturned
    <3> QED BY <3>2, <3>3, NumberedFromFirst DEF Bytes
  <2> QED BY <2>1, <2>6, <2>7 DEF ReadEnds, data
<1>4. CASE FetchFails
  <2>1. result' = "error" /\ returned' = returned
    BY <1>4 DEF FetchFails, reading
  <2>2. data = <<>>
    <3>1. Rest(returned \o <<>>, Len(returned)) = <<>> /\ returned \o <<>> = returned
      BY <1>0, EmptySeq, ConcatEmptySeq, Added
    <3> QED BY <2>1, <3>1
  <2>3. Len(data) = 0
    BY <2>2, EmptySeq
  <2> QED BY <2>1, <2>3 DEF ReadEnds
<1> QED BY <1>1, <1>2, <1>3, <1>4
==============================================================================
