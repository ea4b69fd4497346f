---------------------------- MODULE WorkerIO_proofs ----------------------------
(***************************************************************************)
(* Proofs about WorkerIO, and of pfilter: for programs, inputs, pipes and  *)
(* buffers of any length and any number of calls and failures.             *)
(*                                                                         *)
(* Nothing of what a program reads or writes is lost because a byte is     *)
(* always in one place: FilterFlows.  Nothing is returned too early        *)
(* because an end is only closed by the loop when its pipe is empty and    *)
(* nobody is left to fill it: FilterDrained.  And what is open follows     *)
(* from where the parent is: FilterStage.  IoHandle_proofs has the         *)
(* invariant of the connection; that of the worker is their conjunction.   *)
(***************************************************************************)
EXTENDS WorkerIO, IoHandle_proofs

Pipes == {"in", "out", "err"}
Looping == {"poll", "write", "out", "err"}
Before == {"open status", "open in", "open out", "open err", "fork"}
After == {"alloc", "wait", "status", "reap", "done"} \cup Looping

FilterPlaces ==
    /\ fpc \in Before \cup After
    /\ fds \subseteq ({"status"} \cup Pipes) \X {0, 1}
    /\ child \in {"none", "forked", "running", "ended", "reaped"}
    /\ report \in {"nothing", "errno", "remapping"}
    /\ outcome \in {"none", "returned", "not executed", "raised"}

FilterData ==
    /\ in_len \in Nat /\ in_pos \in 0 .. in_len
    /\ buf \in [Output -> Seq(Nat)] /\ buflen \in [Output -> Nat]
    /\ program \in Seq(Pipes)
    /\ pipe \in [Pipes -> Seq(Nat)]
    /\ eaten \in Seq(Nat) /\ written \in [Output -> Nat]
    /\ failures \in Nat

FilterTyped == FilterPlaces /\ FilterData

\* There is always room for another read, and pipes do not hold too much.
FilterBounds ==
    /\ \A p \in Output : Len(buf[p]) < buflen[p]
    /\ \A q \in Pipes : Len(pipe[q]) <= PipeLen

\* Every byte is in the pipe, or has been read, in order.
FilterFlows ==
    /\ eaten \o pipe["in"] = Numbered(0, in_pos)
    /\ \A p \in Output : buf[p] \o pipe[p] = Numbered(0, written[p])

\* What is closed while the parent is in its loop, or has left it for good reason,
\* has nothing more to say.
FilterDrained ==
    /\ fpc \in Looping \cup {"alloc", "wait", "status"} =>
          \A p \in Output : OutEnd(p) \notin fds =>
              pipe[p] = <<>> /\ child \in {"ended", "reaped"}
    /\ outcome = "returned" => report = "nothing" /\ \A p \in Output : pipe[p] = <<>>

\* The pipes that are made before the fork, one by one.
Made ==
    IF fpc = "open status" THEN {}
    ELSE IF fpc = "open in" THEN Pair("status")
    ELSE IF fpc = "open out" THEN Pair("status") \cup Pair("in")
    ELSE IF fpc = "open err" THEN Pair("status") \cup Pair("in") \cup Pair("out")
    ELSE Pair("status") \cup Pair("in") \cup Pair("out") \cup Pair("err")

FilterStage ==
    /\ fpc \in Before => child = "none" /\ fds \subseteq Made /\ outcome = "none"
    /\ fpc = "open err" => OutEnd("out") \in fds
    /\ fpc = "fork" => OutEnd("out") \in fds /\ OutEnd("err") \in fds
    /\ fpc \in After \ {"done"} =>
          child # "none" /\ fds \subseteq {<<"status", 0>>, InEnd, OutEnd("out"), OutEnd("err")}
    /\ fpc \in After \ {"done", "reap"} => outcome = "none"
    /\ fpc \in {"wait", "status", "reap"} => fds \subseteq {<<"status", 0>>}
    /\ fpc = "reap" => outcome = "raised"
    /\ fpc = "status" => child = "reaped"
    /\ NothingLeft

FInv == FilterTyped /\ FilterBounds /\ FilterFlows /\ FilterDrained /\ FilterStage

-----------------------------------------------------------------------------
USE DEF Output, Pipes, Looping, Before, After

LEMMA FilterStarts ==
  ASSUME NEW n \in Nat, NEW p \in Seq(Pipes), NEW f \in Nat, PfilterStart(n, p, f)
  PROVE  FInv
<1> USE DEF PfilterStart
<1>0. fpc = "open status"
  BY DEF Opening
<1>1. FilterPlaces
  BY <1>0 DEF FilterPlaces
<1>6. FilterData
  <2>1. buf \in [Output -> Seq(Nat)] /\ pipe \in [Pipes -> Seq(Nat)] /\ eaten \in Seq(Nat)
    BY EmptySeq
  <2>2. buflen \in [Output -> Nat] /\ written \in [Output -> Nat]
    BY PfilterAssumption
  <2> QED BY <2>1, <2>2 DEF FilterData
<1>2. FilterBounds
  BY PfilterAssumption DEF FilterBounds
<1>3. FilterFlows
  <2>1. Numbered(0, 0) = <<>>
    BY NumberedIsSeq, EmptySeq
  <2>2. <<>> \o <<>> = <<>>
    BY EmptySeq, ConcatEmptySeq
  <2> QED BY <2>1, <2>2 DEF FilterFlows
<1>4. FilterDrained
  BY <1>0 DEF FilterDrained
<1>5. FilterStage
  BY <1>0 DEF FilterStage, NothingLeft, Made
<1> QED BY <1>1, <1>2, <1>3, <1>4, <1>5, <1>6 DEF FInv, FilterTyped

LEMMA FilterStep == ASSUME FInv, [PfilterNext]_filtervars PROVE FInv'
<1> USE PfilterAssumption DEF FInv, childvars, Pair, InEnd, OutEnd
<1>1. ASSUME NEW k \in 1 .. 4, OpenPipe(k) PROVE FInv'
  <2>0. \/ k = 1 /\ Opening[k] = "open status" /\ Opening[k + 1] = "open in" /\ Order[k] = "status"
        \/ k = 2 /\ Opening[k] = "open in" /\ Opening[k + 1] = "open out" /\ Order[k] = "in"
        \/ k = 3 /\ Opening[k] = "open out" /\ Opening[k + 1] = "open err" /\ Order[k] = "out"
        \/ k = 4 /\ Opening[k] = "open err" /\ Opening[k + 1] = "fork" /\ Order[k] = "err"
    <3>1. CASE k = 1
      BY <3>1 DEF Opening, Order
    <3>2. CASE k = 2
      BY <3>2 DEF Opening, Order
    <3>3. CASE k = 3
      BY <3>3 DEF Opening, Order
    <3>4. CASE k = 4
      BY <3>4 DEF Opening, Order
    <3>5. k = 1 \/ k = 2 \/ k = 3 \/ k = 4
      OBVIOUS
    <3> QED BY <3>1, <3>2, <3>3, <3>4, <3>5
  <2>7. fds' \subseteq fds \cup Pair(Order[k]) /\ fpc \in Before /\ fpc' \in Before
    BY <1>1, <2>0 DEF OpenPipe
  <2>1. FilterPlaces'
    <3>1. Pair(Order[k]) \subseteq ({"status"} \cup Pipes) \X {0, 1}
      <4>1. Order[k] \in {"status"} \cup Pipes
        BY <2>0
      <4> QED BY <4>1
    <3>2. fds' \subseteq ({"status"} \cup Pipes) \X {0, 1}
      BY <2>7, <3>1 DEF FilterTyped, FilterPlaces
    <3> QED BY <1>1, <2>7, <3>2 DEF OpenPipe, FilterTyped, FilterPlaces
  <2>6. FilterData'
    BY <1>1, <2>0 DEF OpenPipe, FilterTyped, FilterData
  <2>2. FilterBounds'
    BY <1>1, <2>0 DEF OpenPipe, FilterTyped, FilterPlaces, FilterData, FilterBounds
  <2>3. FilterFlows'
    BY <1>1, <2>0 DEF OpenPipe, FilterTyped, FilterData, FilterFlows
  <2>4. FilterDrained'
    BY <1>1, <2>0 DEF OpenPipe, FilterTyped, FilterPlaces, FilterData, FilterStage, FilterDrained
  <2>5. FilterStage'
    <3>1. child = "none" /\ outcome = "none" /\ fds \subseteq Made
      BY <2>7 DEF FilterStage
    <3>2. fds' \subseteq Made'
      <4>1. CASE k = 1
        BY <1>1, <2>0, <2>7, <3>1, <4>1 DEF OpenPipe, Made
      <4>2. CASE k = 2
        BY <1>1, <2>0, <2>7, <3>1, <4>2 DEF OpenPipe, Made
      <4>3. CASE k = 3
        BY <1>1, <2>0, <2>7, <3>1, <4>3 DEF OpenPipe, Made
      <4>4. CASE k = 4
        BY <1>1, <2>0, <2>7, <3>1, <4>4 DEF OpenPipe, Made
      <4> QED BY <4>1, <4>2, <4>3, <4>4
    <3>3. fpc' = "open err" => OutEnd("out") \in fds'
      BY <1>1, <2>0 DEF OpenPipe
    <3>4. fpc' = "fork" => OutEnd("out") \in fds' /\ OutEnd("err") \in fds'
      BY <1>1, <2>0 DEF OpenPipe, FilterStage
    <3> QED BY <1>1, <2>7, <3>1, <3>2, <3>3, <3>4 DEF OpenPipe, FilterStage, NothingLeft
  <2> QED BY <2>1, <2>2, <2>3, <2>4, <2>5, <2>6 DEF FilterTyped
<1>2. ASSUME NEW k \in 1 .. 5, OpenFails(k) PROVE FInv'
  <2>0. /\ Opening[k] \in Before
        /\ fpc = Opening[k] => Made = Cleanup(k)
    <3>1. \/ k = 1 /\ Opening[k] = "open status" /\ Cleanup(k) = {}
          \/ k = 2 /\ Opening[k] = "open in" /\ Cleanup(k) = Pair("status")
          \/ k = 3 /\ Opening[k] = "open out" /\ Cleanup(k) = Pair("status") \cup Pair("in")
          \/ k = 4 /\ Opening[k] = "open err" /\ Cleanup(k) = Pair("status") \cup Pair("in") \cup Pair("out")
          \/ k = 5 /\ Opening[k] = "fork"
                   /\ Cleanup(k) = Pair("status") \cup Pair("in") \cup Pair("out") \cup Pair("err")
      <4>1. /\ Order[1] = "status" /\ Order[2] = "in" /\ Order[3] = "out" /\ Order[4] = "err"
            /\ Opening[1] = "open status" /\ Opening[2] = "open in" /\ Opening[3] = "open out"
            /\ Opening[4] = "open err" /\ Opening[5] = "fork"
        BY DEF Order, Opening
      <4>2. 1 .. 1 - 1 = {} /\ 1 .. 2 - 1 = {1} /\ 1 .. 3 - 1 = {1, 2}
            /\ 1 .. 4 - 1 = {1, 2, 3} /\ 1 .. 5 - 1 = {1, 2, 3, 4}
        OBVIOUS
      <4> DEFINE of(i) == Pair(Order[i])
      <4> HIDE DEF of
      <4>9. \A i : Cleanup(i) = UNION {of(j) : j \in 1 .. i - 1}
        BY DEF Cleanup, of
      <4>10. of(1) = Pair("status") /\ of(2) = Pair("in") /\ of(3) = Pair("out") /\ of(4) = Pair("err")
        BY <4>1 DEF of
      <4> HIDE DEF Pair
      <4>3. Cleanup(1) = {}
        BY <4>2, <4>9
      <4>4. Cleanup(2) = Pair("status")
        BY <4>2, <4>9, <4>10
      <4>5. Cleanup(3) = Pair("status") \cup Pair("in")
        BY <4>2, <4>9, <4>10
      <4>6. Cleanup(4) = Pair("status") \cup Pair("in") \cup Pair("out")
        BY <4>2, <4>9, <4>10
      <4>7. Cleanup(5) = Pair("status") \cup Pair("in") \cup Pair("out") \cup Pair("err")
        BY <4>2, <4>9, <4>10
      <4>8. k = 1 \/ k = 2 \/ k = 3 \/ k = 4 \/ k = 5
        OBVIOUS
      <4> QED BY <4>1, <4>3, <4>4, <4>5, <4>6, <4>7, <4>8
    <3> QED BY <3>1 DEF Made
  <2>1. FilterPlaces'
    BY <1>2, <2>0 DEF OpenFails, Fails, FilterTyped, FilterPlaces
  <2>6. FilterData'
    BY <1>2 DEF OpenFails, Fails, FilterTyped, FilterData
  <2>2. FilterBounds'
    BY <1>2, <2>0 DEF OpenFails, Fails, FilterTyped, FilterPlaces, FilterData, FilterBounds
  <2>3. FilterFlows'
    BY <1>2, <2>0 DEF OpenFails, Fails, FilterTyped, FilterData, FilterFlows
  <2>4. FilterDrained'
    BY <1>2, <2>0 DEF OpenFails, Fails, FilterTyped, FilterPlaces, FilterData, FilterStage, FilterDrained
  <2>5. FilterStage'
    BY <1>2, <2>0 DEF OpenFails, Fails, FilterTyped, FilterPlaces, FilterData, FilterStage, NothingLeft, Made
  <2> QED BY <2>1, <2>2, <2>3, <2>4, <2>5, <2>6 DEF FilterTyped
<1>3. ASSUME Fork PROVE FInv'
  <2>1. FilterPlaces'
    BY <1>3 DEF Fork, FilterTyped, FilterPlaces
  <2>6. FilterData'
    BY <1>3 DEF Fork, FilterTyped, FilterData
  <2>2. FilterBounds'
    BY <1>3 DEF Fork, FilterTyped, FilterPlaces, FilterData, FilterBounds
  <2>3. FilterFlows'
    BY <1>3 DEF Fork, FilterTyped, FilterData, FilterFlows
  <2>4. FilterDrained'
    BY <1>3 DEF Fork, FilterTyped, FilterPlaces, FilterData, FilterStage, FilterDrained
  <2>5. FilterStage'
    BY <1>3 DEF Fork, FilterTyped, FilterPlaces, FilterData, FilterStage, NothingLeft, Made
  <2> QED BY <2>1, <2>2, <2>3, <2>4, <2>5, <2>6 DEF FilterTyped
<1>4. ASSUME Exec PROVE FInv'
  <2>1. FilterPlaces'
    BY <1>4 DEF Exec, FilterTyped, FilterPlaces
  <2>6. FilterData'
    BY <1>4 DEF Exec, FilterTyped, FilterData
  <2>2. FilterBounds'
    BY <1>4 DEF Exec, FilterTyped, FilterPlaces, FilterData, FilterBounds
  <2>3. FilterFlows'
    BY <1>4 DEF Exec, FilterTyped, FilterData, FilterFlows
  <2>4. FilterDrained'
    BY <1>4 DEF Exec, FilterTyped, FilterPlaces, FilterData, FilterStage, FilterDrained
  <2>5. FilterStage'
    BY <1>4 DEF Exec, FilterTyped, FilterPlaces, FilterData, FilterStage, NothingLeft, Made
  <2> QED BY <2>1, <2>2, <2>3, <2>4, <2>5, <2>6 DEF FilterTyped
<1>5. ASSUME ExecFails PROVE FInv'
  <2>1. FilterPlaces'
    BY <1>5 DEF ExecFails, End, Fails, FilterTyped, FilterPlaces
  <2>6. FilterData'
    BY <1>5 DEF ExecFails, End, Fails, FilterTyped, FilterData
  <2>2. FilterBounds'
    BY <1>5 DEF ExecFails, End, Fails, FilterTyped, FilterPlaces, FilterData, FilterBounds
  <2>3. FilterFlows'
    BY <1>5 DEF ExecFails, End, Fails, FilterTyped, FilterData, FilterFlows
  <2>4. FilterDrained'
    <3>1. outcome # "returned"
      BY <1>5 DEF ExecFails, FilterTyped, FilterPlaces, FilterStage, NothingLeft
    <3> QED BY <1>5, <3>1 DEF ExecFails, End, FilterDrained
  <2>5. FilterStage'
    BY <1>5 DEF ExecFails, End, Fails, FilterTyped, FilterPlaces, FilterData, FilterStage, NothingLeft, Made
  <2> QED BY <2>1, <2>2, <2>3, <2>4, <2>5, <2>6 DEF FilterTyped
<1>6. ASSUME ChildReads PROVE FInv'
  <2>7. program' \in Seq(Pipes)
    <3>1. program \in Seq(Pipes) /\ program # <<>> /\ program' = Tail(program)
      BY <1>6 DEF ChildReads, FilterTyped, FilterData
    <3> QED BY <3>1, HeadTailProperties
  <2>8. pipe \in [Pipes -> Seq(Nat)] /\ pipe["in"] \in Seq(Nat) /\ eaten \in Seq(Nat)
    BY DEF FilterTyped, FilterData
  <2>9. /\ eaten' \in Seq(Nat) /\ pipe' \in [Pipes -> Seq(Nat)]
        /\ eaten' \o pipe'["in"] = eaten \o pipe["in"]
        /\ Len(pipe'["in"]) <= Len(pipe["in"])
        /\ \A p \in Output : pipe'[p] = pipe[p]
    <3>1. CASE pipe["in"] # <<>>
      <4>1. eaten' = Append(eaten, Head(pipe["in"])) /\ pipe' = [pipe EXCEPT !["in"] = Tail(@)]
        BY <1>6, <3>1 DEF ChildReads
      <4>2. /\ eaten' \in Seq(Nat) /\ Tail(pipe["in"]) \in Seq(Nat)
            /\ eaten' \o Tail(pipe["in"]) = eaten \o pipe["in"]
        BY <2>8, <3>1, <4>1, HeadMoves
      <4>3. Len(Tail(pipe["in"])) <= Len(pipe["in"])
        BY <2>8, <3>1, HeadTailProperties, LenProperties
      <4> QED BY <2>8, <4>1, <4>2, <4>3
    <3>2. CASE pipe["in"] = <<>>
      <4>1. eaten' = eaten /\ pipe' = pipe
        BY <1>6, <3>2 DEF ChildReads
      <4>2. Len(pipe["in"]) \in Nat
        BY <2>8, LenProperties
      <4> QED BY <2>8, <4>1, <4>2
    <3> QED BY <3>1, <3>2
  <2>1. FilterPlaces'
    BY <1>6 DEF ChildReads, FilterTyped, FilterPlaces
  <2>6. FilterData'
    BY <1>6, <2>7, <2>9 DEF ChildReads, FilterTyped, FilterData
  <2>2. FilterBounds'
    <3>1. Len(pipe["in"]) \in Nat /\ Len(pipe'["in"]) \in Nat /\ Len(pipe["in"]) <= PipeLen
      BY <2>8, <2>9, LenProperties DEF FilterBounds
    <3>2. Len(pipe'["in"]) <= PipeLen
      BY <2>9, <3>1
    <3> QED BY <1>6, <2>9, <3>2 DEF ChildReads, FilterBounds
  <2>3. FilterFlows'
    BY <1>6, <2>9 DEF ChildReads, FilterFlows
  <2>4. FilterDrained'
    BY <1>6, <2>9 DEF ChildReads, FilterDrained
  <2>5. FilterStage'
    BY <1>6 DEF ChildReads, Running, FilterStage, NothingLeft, Made
  <2> QED BY <2>1, <2>2, <2>3, <2>4, <2>5, <2>6 DEF FilterTyped
<1>7. ASSUME ChildWrites PROVE FInv'
  <2>7. child = "running" /\ program # <<>>
    BY <1>7 DEF ChildWrites, Running
  <2>8. /\ pipe \in [Pipes -> Seq(Nat)] /\ written \in [Output -> Nat]
        /\ program \in Seq(Pipes) /\ buf \in [Output -> Seq(Nat)]
    BY DEF FilterTyped, FilterData
  <2>9. outcome # "returned"
    BY <2>7 DEF FilterTyped, FilterPlaces, FilterStage, NothingLeft
  <2>10. CASE UNCHANGED <<pipe, written, program>>
    <3>1. child' \in {"running", "ended"}
      BY <1>7, <2>7 DEF ChildWrites, End
    <3>2. FilterTyped'
      BY <1>7, <2>10, <3>1 DEF ChildWrites, FilterTyped, FilterPlaces, FilterData
    <3>3. FilterBounds' /\ FilterFlows'
      BY <1>7, <2>10 DEF ChildWrites, FilterBounds, FilterFlows
    <3>4. FilterDrained'
      BY <1>7, <2>7, <2>9, <2>10, <3>1 DEF ChildWrites, FilterDrained
    <3>5. FilterStage'
      BY <1>7, <2>7, <2>10, <3>1 DEF ChildWrites, FilterStage, NothingLeft, Made
    <3> QED BY <3>2, <3>3, <3>4, <3>5
  <2>11. ASSUME NEW p \in Output,
                Len(pipe[p]) < PipeLen,
                pipe' = [pipe EXCEPT ![p] = Append(@, written[p] + 1)],
                written' = [written EXCEPT ![p] = @ + 1],
                program' = Tail(program), UNCHANGED <<child, exitstatus>>
         PROVE  FInv'
    <3>1. /\ buf[p] \in Seq(Nat) /\ pipe[p] \in Seq(Nat) /\ written[p] \in Nat
          /\ written[p] + 1 \in Nat
      BY <2>8
    <3>2. Append(pipe[p], written[p] + 1) \in Seq(Nat) /\ Len(Append(pipe[p], written[p] + 1)) <= PipeLen
      BY <2>11, <3>1, AppendProperties, LenProperties
    <3>3. buf[p] \o Append(pipe[p], written[p] + 1) = Numbered(0, written[p] + 1)
      <4>1. buf[p] \o Append(pipe[p], written[p] + 1) = Append(buf[p] \o pipe[p], written[p] + 1)
        <5> DEFINE w == written[p] + 1
        <5>1. w \in Nat
          BY <3>1
        <5> HIDE DEF w
        <5>2. buf[p] \o Append(pipe[p], w) = Append(buf[p] \o pipe[p], w)
          <6>1. buf[p] \in Seq(Nat) /\ pipe[p] \in Seq(Nat)
            BY <3>1
          <6>2. \A a, b \in Seq(Nat), x \in Nat : a \o Append(b, x) = Append(a \o b, x)
            BY ConcatAppend
          <6> QED BY <5>1, <6>1, <6>2
        <5> QED BY <5>2 DEF w
      <4>2. Append(Numbered(0, written[p]), 0 + written[p] + 1) = Numbered(0, written[p] + 1)
        BY <3>1, NumberedGrows
      <4>3. 0 + written[p] + 1 = written[p] + 1
        BY <3>1
      <4>4. buf[p] \o pipe[p] = Numbered(0, written[p])
        BY DEF FilterFlows
      <4> QED BY <4>1, <4>2, <4>3, <4>4
    <3>4. FilterPlaces'
      BY <1>7, <2>11 DEF ChildWrites, FilterTyped, FilterPlaces
    <3>5. FilterData'
      <4>1. program' \in Seq(Pipes)
        BY <2>7, <2>8, <2>11, HeadTailProperties
      <4>2. pipe' \in [Pipes -> Seq(Nat)] /\ written' \in [Output -> Nat]
        BY <2>8, <2>11, <3>1, <3>2
      <4> QED BY <1>7, <4>1, <4>2 DEF ChildWrites, FilterTyped, FilterData
    <3>6. FilterBounds'
      BY <1>7, <2>8, <2>11, <3>2 DEF ChildWrites, FilterBounds
    <3>7. FilterFlows'
      BY <1>7, <2>8, <2>11, <3>3 DEF ChildWrites, FilterFlows
    <3>8. FilterDrained'
      BY <1>7, <2>7, <2>9, <2>11 DEF ChildWrites, FilterDrained
    <3>9. FilterStage'
      BY <1>7, <2>11 DEF ChildWrites, FilterStage, NothingLeft, Made
    <3> QED BY <3>4, <3>5, <3>6, <3>7, <3>8, <3>9 DEF FilterTyped
  <2> QED BY <1>7, <2>10, <2>11 DEF ChildWrites
<1>8. ASSUME ChildExits PROVE FInv'
  <2>1. FilterPlaces'
    BY <1>8 DEF ChildExits, Running, End, FilterTyped, FilterPlaces
  <2>6. FilterData'
    BY <1>8 DEF ChildExits, Running, End, FilterTyped, FilterData
  <2>2. FilterBounds'
    BY <1>8 DEF ChildExits, Running, End, FilterTyped, FilterPlaces, FilterData, FilterBounds
  <2>3. FilterFlows'
    BY <1>8 DEF ChildExits, Running, End, FilterTyped, FilterData, FilterFlows
  <2>4. FilterDrained'
    BY <1>8 DEF ChildExits, Running, End, FilterTyped, FilterPlaces, FilterData, FilterStage, FilterDrained
  <2>5. FilterStage'
    BY <1>8 DEF ChildExits, Running, End, FilterTyped, FilterPlaces, FilterData, FilterStage, NothingLeft, Made
  <2> QED BY <2>1, <2>2, <2>3, <2>4, <2>5, <2>6 DEF FilterTyped
<1>9. ASSUME ChildKilled PROVE FInv'
  <2>1. FilterPlaces'
    BY <1>9 DEF ChildKilled, Running, End, Fails, FilterTyped, FilterPlaces
  <2>6. FilterData'
    BY <1>9 DEF ChildKilled, Running, End, Fails, FilterTyped, FilterData
  <2>2. FilterBounds'
    BY <1>9 DEF ChildKilled, Running, End, Fails, FilterTyped, FilterPlaces, FilterData, FilterBounds
  <2>3. FilterFlows'
    BY <1>9 DEF ChildKilled, Running, End, Fails, FilterTyped, FilterData, FilterFlows
  <2>4. FilterDrained'
    BY <1>9 DEF ChildKilled, Running, End, Fails, FilterTyped, FilterPlaces, FilterData, FilterStage, FilterDrained
  <2>5. FilterStage'
    BY <1>9 DEF ChildKilled, Running, End, Fails, FilterTyped, FilterPlaces, FilterData, FilterStage, NothingLeft, Made
  <2> QED BY <2>1, <2>2, <2>3, <2>4, <2>5, <2>6 DEF FilterTyped
<1>10. ASSUME FilterFails PROVE FInv'
  <2>1. FilterPlaces'
    BY <1>10 DEF FilterFails, ErrorB, Fails, FilterTyped, FilterPlaces
  <2>6. FilterData'
    BY <1>10 DEF FilterFails, ErrorB, Fails, FilterTyped, FilterData
  <2>2. FilterBounds'
    BY <1>10 DEF FilterFails, ErrorB, Fails, FilterTyped, FilterPlaces, FilterData, FilterBounds
  <2>3. FilterFlows'
    BY <1>10 DEF FilterFails, ErrorB, Fails, FilterTyped, FilterData, FilterFlows
  <2>4. FilterDrained'
    BY <1>10 DEF FilterFails, ErrorB, Fails, FilterTyped, FilterPlaces, FilterData, FilterStage, FilterDrained
  <2>5. FilterStage'
    BY <1>10 DEF FilterFails, ErrorB, Fails, FilterTyped, FilterPlaces, FilterData, FilterStage, NothingLeft, Made
  <2> QED BY <2>1, <2>2, <2>3, <2>4, <2>5, <2>6 DEF FilterTyped
<1>11. ASSUME Alloc PROVE FInv'
  <2>1. FilterPlaces'
    BY <1>11 DEF Alloc, FilterTyped, FilterPlaces
  <2>6. FilterData'
    BY <1>11 DEF Alloc, FilterTyped, FilterData
  <2>2. FilterBounds'
    BY <1>11 DEF Alloc, FilterTyped, FilterPlaces, FilterData, FilterBounds
  <2>3. FilterFlows'
    BY <1>11 DEF Alloc, FilterTyped, FilterData, FilterFlows
  <2>4. FilterDrained'
    BY <1>11 DEF Alloc, FilterTyped, FilterPlaces, FilterData, FilterStage, FilterDrained
  <2>5. FilterStage'
    BY <1>11 DEF Alloc, FilterTyped, FilterPlaces, FilterData, FilterStage, NothingLeft, Made
  <2> QED BY <2>1, <2>2, <2>3, <2>4, <2>5, <2>6 DEF FilterTyped
<1>12. ASSUME PollPipes PROVE FInv'
  <2>1. FilterPlaces'
    BY <1>12 DEF PollPipes, Using, FilterTyped, FilterPlaces
  <2>6. FilterData'
    BY <1>12 DEF PollPipes, Using, FilterTyped, FilterData
  <2>2. FilterBounds'
    BY <1>12 DEF PollPipes, Using, FilterTyped, FilterPlaces, FilterData, FilterBounds
  <2>3. FilterFlows'
    BY <1>12 DEF PollPipes, Using, FilterTyped, FilterData, FilterFlows
  <2>4. FilterDrained'
    BY <1>12 DEF PollPipes, Using, FilterTyped, FilterPlaces, FilterData, FilterStage, FilterDrained
  <2>5. FilterStage'
    <3>1. fds \subseteq {<<"status", 0>>, InEnd, OutEnd("out"), OutEnd("err")}
      BY <1>12 DEF PollPipes, FilterStage
    <3>2. Using = {} => fds \subseteq {<<"status", 0>>}
      BY <3>1 DEF Using
    <3> QED BY <1>12, <3>1, <3>2 DEF PollPipes, FilterStage, NothingLeft
  <2> QED BY <2>1, <2>2, <2>3, <2>4, <2>5, <2>6 DEF FilterTyped
<1>13. ASSUME WriteInput PROVE FInv'
  <2>7. /\ pipe \in [Pipes -> Seq(Nat)] /\ pipe["in"] \in Seq(Nat) /\ eaten \in Seq(Nat)
        /\ in_len \in Nat /\ in_pos \in 0 .. in_len /\ Len(pipe["in"]) \in 0 .. PipeLen
    <3>1. Len(pipe["in"]) <= PipeLen
      BY DEF FilterBounds
    <3> QED BY <3>1, LenProperties DEF FilterTyped, FilterData
  <2>8. /\ fpc = "write" /\ fpc' = "out"
        /\ UNCHANGED <<in_len, buf, buflen, childvars, outcome, failures>>
        /\ fds' \subseteq fds /\ fds \ fds' \subseteq {InEnd}
    BY <1>13 DEF WriteInput
  <2>9. PICK k \in Nat :
          /\ in_pos + k <= in_len /\ Len(pipe["in"]) + k <= PipeLen
          /\ \/ in_pos' = in_pos /\ pipe' = pipe
             \/ /\ pipe' = [pipe EXCEPT !["in"] = @ \o [j \in 1 .. k |-> in_pos + j]]
                /\ in_pos' = in_pos + k
    <3> DEFINE room == PipeLen - Len(pipe["in"])
               left == in_len - in_pos
               k    == IF ~Holding THEN 0 ELSE IF left < room THEN left ELSE room
    <3>1. k \in Nat /\ in_pos + k <= in_len /\ Len(pipe["in"]) + k <= PipeLen
      BY <2>7
    <3>2. \/ in_pos' = in_pos /\ pipe' = pipe
          \/ /\ pipe' = [pipe EXCEPT !["in"] = @ \o [j \in 1 .. k |-> in_pos + j]]
             /\ in_pos' = in_pos + k
      BY <1>13 DEF WriteInput
    <3> HIDE DEF k
    <3> QED BY <3>1, <3>2
  <2>10. /\ pipe' \in [Pipes -> Seq(Nat)] /\ in_pos' \in 0 .. in_len
         /\ Len(pipe'["in"]) <= PipeLen
         /\ eaten \o pipe'["in"] = Numbered(0, in_pos')
         /\ \A p \in Output : pipe'[p] = pipe[p]
    <3>1. CASE in_pos' = in_pos /\ pipe' = pipe
      BY <2>7, <3>1 DEF FilterFlows
    <3>2. CASE /\ pipe' = [pipe EXCEPT !["in"] = @ \o [j \in 1 .. k |-> in_pos + j]]
               /\ in_pos' = in_pos + k
      <4>1. in_pos \in Nat /\ in_pos + k \in 0 .. in_len
        BY <2>7, <2>9
      <4>2. /\ Numbered(in_pos, k) \in Seq(Nat) /\ Len(Numbered(in_pos, k)) = k
            /\ Numbered(in_pos, k) = [j \in 1 .. k |-> in_pos + j]
        BY <4>1, NumberedIsSeq DEF Numbered
      <4>3. pipe' = [pipe EXCEPT !["in"] = @ \o Numbered(in_pos, k)]
        BY <3>2, <4>2
      <4>4. /\ pipe["in"] \o Numbered(in_pos, k) \in Seq(Nat)
            /\ Len(pipe["in"] \o Numbered(in_pos, k)) <= PipeLen
        BY <2>7, <2>9, <4>2, ConcatProperties
      <4>5. (eaten \o pipe["in"]) \o Numbered(in_pos, k) = eaten \o (pipe["in"] \o Numbered(in_pos, k))
        <5>1. Numbered(in_pos, k) \in Seq(Nat)
          BY <4>2
        <5>2. pipe["in"] \in Seq(Nat) /\ eaten \in Seq(Nat)
          BY <2>7
        <5> QED BY <5>1, <5>2, StreamBrackets
      <4>6. Numbered(0, in_pos) \o Numbered(0 + in_pos, k) = Numbered(0, in_pos + k)
        BY <4>1, NumberedConcat
      <4>7. 0 + in_pos = in_pos
        BY <4>1
      <4>8. eaten \o (pipe["in"] \o Numbered(in_pos, k)) = Numbered(0, in_pos')
        BY <3>2, <4>5, <4>6, <4>7 DEF FilterFlows
      <4> QED BY <2>7, <3>2, <4>1, <4>3, <4>4, <4>8
    <3> QED BY <2>9, <3>1, <3>2
  <2>1. FilterPlaces'
    BY <2>8 DEF FilterTyped, FilterPlaces
  <2>6. FilterData'
    BY <2>8, <2>10 DEF FilterTyped, FilterData
  <2>2. FilterBounds'
    BY <2>8, <2>10 DEF FilterBounds
  <2>3. FilterFlows'
    BY <2>8, <2>10 DEF FilterFlows
  <2>4. FilterDrained'
    <3>1. \A p \in Output : OutEnd(p) \in fds => OutEnd(p) \in fds'
      BY <2>8
    <3> QED BY <2>8, <2>10, <3>1 DEF FilterDrained
  <2>5. FilterStage'
    BY <2>8 DEF FilterStage, NothingLeft
  <2> QED BY <2>1, <2>2, <2>3, <2>4, <2>5, <2>6 DEF FilterTyped
<1>14. ASSUME NEW p \in Output, ReadOutput(p) PROVE FInv'
  <2>7. /\ pipe \in [Pipes -> Seq(Nat)] /\ pipe[p] \in Seq(Nat) /\ Len(pipe[p]) \in Nat
        /\ buf \in [Output -> Seq(Nat)] /\ buf[p] \in Seq(Nat) /\ Len(buf[p]) \in Nat
        /\ buflen \in [Output -> Nat] /\ buflen[p] \in Nat /\ Len(buf[p]) < buflen[p]
    BY LenProperties DEF FilterTyped, FilterData, FilterBounds
  <2>8. /\ fpc = p /\ fpc' \in {"err", "poll"}
        /\ UNCHANGED <<in_len, in_pos, childvars, outcome, failures>>
    BY <1>14 DEF ReadOutput
  <2> DEFINE n == IF Len(pipe[p]) < buflen[p] - Len(buf[p])
                    THEN Len(pipe[p]) ELSE buflen[p] - Len(buf[p])
  <2>11. \/ UNCHANGED <<fds, buf, buflen, pipe>>
         \/ /\ OutEnd(p) \in fds /\ ~(pipe[p] = <<>> /\ Holding)
            /\ buf' = [buf EXCEPT ![p] = @ \o SubSeq(pipe[p], 1, n)]
            /\ pipe' = [pipe EXCEPT ![p] = SubSeq(@, n + 1, Len(@))]
            /\ buflen' = IF n > 0 /\ Full(p, n) THEN [buflen EXCEPT ![p] = 2 * @] ELSE buflen
            /\ fds' = IF n = 0 THEN fds \ {OutEnd(p)} ELSE fds
    BY <1>14 DEF ReadOutput
  <2> HIDE DEF n
  <2>9. CASE UNCHANGED <<fds, buf, buflen, pipe>>
    <3>1. FilterTyped'
      BY <2>8, <2>9 DEF FilterTyped, FilterPlaces, FilterData
    <3>2. FilterBounds' /\ FilterFlows'
      BY <2>8, <2>9 DEF FilterBounds, FilterFlows
    <3>3. FilterDrained'
      BY <2>8, <2>9 DEF FilterDrained
    <3>4. FilterStage'
      BY <2>8, <2>9 DEF FilterStage, NothingLeft
    <3> QED BY <3>1, <3>2, <3>3, <3>4
  <2>10. ASSUME OutEnd(p) \in fds, ~(pipe[p] = <<>> /\ Holding),
                buf' = [buf EXCEPT ![p] = @ \o SubSeq(pipe[p], 1, n)],
                pipe' = [pipe EXCEPT ![p] = SubSeq(@, n + 1, Len(@))],
                buflen' = IF n > 0 /\ Full(p, n) THEN [buflen EXCEPT ![p] = 2 * @] ELSE buflen,
                fds' = IF n = 0 THEN fds \ {OutEnd(p)} ELSE fds
         PROVE  FInv'
    <3>1. n \in 0 .. Len(pipe[p]) /\ Len(buf[p]) + n <= buflen[p] /\ (n = 0 => Len(pipe[p]) = 0)
      <4>1. n = IF Len(pipe[p]) < buflen[p] - Len(buf[p]) THEN Len(pipe[p]) ELSE buflen[p] - Len(buf[p])
        BY DEF n
      <4>2. Len(pipe[p]) \in Nat /\ Len(buf[p]) \in Nat /\ buflen[p] \in Nat /\ Len(buf[p]) < buflen[p]
        BY <2>7
      <4> QED BY <4>1, <4>2
    <3>2. /\ buf[p] \o SubSeq(pipe[p], 1, n) \in Seq(Nat)
          /\ Len(buf[p] \o SubSeq(pipe[p], 1, n)) = Len(buf[p]) + n
          /\ (buf[p] \o SubSeq(pipe[p], 1, n)) \o SubSeq(pipe[p], n + 1, Len(pipe[p]))
                = buf[p] \o pipe[p]
      <4>1. buf[p] \in Seq(Nat) /\ pipe[p] \in Seq(Nat) /\ n \in 0 .. Len(pipe[p])
        BY <2>7, <3>1
      <4>2. \A a, b \in Seq(Nat) : \A m \in 0 .. Len(b) :
               /\ a \o SubSeq(b, 1, m) \in Seq(Nat)
               /\ Len(a \o SubSeq(b, 1, m)) = Len(a) + m
               /\ (a \o SubSeq(b, 1, m)) \o SubSeq(b, m + 1, Len(b)) = a \o b
        BY PrefixMoves
      <4> QED BY <4>1, <4>2
    <3>3. /\ SubSeq(pipe[p], n + 1, Len(pipe[p])) \in Seq(Nat)
          /\ Len(SubSeq(pipe[p], n + 1, Len(pipe[p]))) = Len(pipe[p]) - n
      BY <2>7, <3>1, TwoParts
    <3>4. /\ buf' \in [Output -> Seq(Nat)] /\ pipe' \in [Pipes -> Seq(Nat)]
          /\ buf'[p] = buf[p] \o SubSeq(pipe[p], 1, n)
          /\ pipe'[p] = SubSeq(pipe[p], n + 1, Len(pipe[p]))
          /\ \A q \in Output \ {p} : buf'[q] = buf[q]
          /\ \A q \in Pipes \ {p} : pipe'[q] = pipe[q]
      BY <2>7, <2>10, <3>2, <3>3
    <3>5. buflen' \in [Output -> Nat] /\ Len(buf'[p]) < buflen'[p]
          /\ \A q \in Output \ {p} : buflen'[q] = buflen[q]
      <4>1. CASE n > 0 /\ Full(p, n)
        <5>1. buflen' = [buflen EXCEPT ![p] = 2 * @] /\ Len(buf[p]) + n = buflen[p]
          BY <2>10, <4>1 DEF Full
        <5>2. buflen' \in [Output -> Nat] /\ buflen'[p] = 2 * buflen[p]
              /\ \A q \in Output \ {p} : buflen'[q] = buflen[q]
          BY <2>7, <5>1
        <5>3. Len(buf'[p]) = buflen[p] /\ buflen[p] \in Nat /\ Len(buf[p]) \in Nat /\ Len(buf[p]) < buflen[p]
          BY <2>7, <3>2, <3>4, <5>1
        <5> QED BY <5>2, <5>3
      <4>2. CASE ~(n > 0 /\ Full(p, n))
        <5>1. buflen' = buflen
          BY <2>10, <4>2
        <5>2. n = 0 \/ Len(buf[p]) + n # buflen[p]
          BY <3>1, <2>7, <4>2 DEF Full
        <5>3. Len(buf[p]) + n < buflen[p]
          <6>1. Len(buf[p]) \in Nat /\ buflen[p] \in Nat /\ Len(buf[p]) < buflen[p]
            BY <2>7
          <6>2. n \in Int /\ Len(buf[p]) + n <= buflen[p]
            BY <2>7, <3>1
          <6> QED BY <5>2, <6>1, <6>2
        <5> QED BY <2>7, <3>2, <3>4, <5>1, <5>3
      <4> QED BY <4>1, <4>2
    <3>6. fds' \subseteq fds
      BY <2>10
    <3>7. FilterPlaces'
      BY <2>8, <3>6 DEF FilterTyped, FilterPlaces
    <3>8. FilterData'
      BY <2>8, <3>4, <3>5 DEF FilterTyped, FilterData
    <3>9. FilterBounds'
      <4>1. Len(pipe[p]) <= PipeLen /\ PipeLen \in Nat
        BY DEF FilterBounds
      <4>2. Len(pipe'[p]) <= PipeLen
        BY <2>7, <3>1, <3>3, <3>4, <4>1
      <4> QED BY <3>4, <3>5, <4>2 DEF FilterBounds
    <3>10. FilterFlows'
      BY <2>8, <3>2, <3>4 DEF FilterFlows
    <3>11. FilterDrained'
      <4>1. n = 0 => pipe[p] = <<>> /\ child \in {"ended", "reaped"}
        <5>1. ASSUME n = 0 PROVE pipe[p] = <<>>
          BY <2>7, <3>1, <5>1, EmptySeq
        <5>2. child # "none"
          BY <2>8 DEF FilterStage
        <5> QED BY <2>10, <5>1, <5>2 DEF Holding, FilterTyped, FilterPlaces
      <4>2. n = 0 => pipe' = pipe
        <5>1. ASSUME n = 0 PROVE pipe'[p] = pipe[p]
          BY <2>7, <3>1, <3>3, <3>4, <4>1, <5>1, EmptySeq
        <5>2. pipe \in [Pipes -> Seq(Nat)] /\ pipe' \in [Pipes -> Seq(Nat)]
          BY <2>7, <3>4
        <5>3. ASSUME n = 0, NEW q \in Pipes PROVE pipe'[q] = pipe[q]
          BY <3>4, <5>1, <5>3
        <5> QED BY <5>2, <5>3
      <4>3. outcome' # "returned"
        BY <2>8 DEF FilterStage
      <4>4. ASSUME NEW q \in Output, OutEnd(q) \notin fds'
            PROVE  pipe'[q] = <<>> /\ child' \in {"ended", "reaped"}
        <5>1. CASE n = 0
          BY <2>8, <2>10, <4>1, <4>2, <4>4, <5>1 DEF FilterDrained
        <5>2. CASE n # 0
          BY <2>8, <2>10, <3>4, <4>4, <5>2 DEF FilterDrained
        <5> QED BY <5>1, <5>2
      <4> QED BY <4>3, <4>4 DEF FilterDrained
    <3>12. FilterStage'
      BY <2>8, <3>6 DEF FilterStage, NothingLeft
    <3> QED BY <3>7, <3>8, <3>9, <3>10, <3>11, <3>12 DEF FilterTyped
  <2> QED BY <2>9, <2>10, <2>11
<1>15. ASSUME Reap PROVE FInv'
  <2>1. FilterPlaces'
    BY <1>15 DEF Reap, FilterTyped, FilterPlaces
  <2>6. FilterData'
    BY <1>15 DEF Reap, FilterTyped, FilterData
  <2>2. FilterBounds'
    BY <1>15 DEF Reap, FilterTyped, FilterPlaces, FilterData, FilterBounds
  <2>3. FilterFlows'
    BY <1>15 DEF Reap, FilterTyped, FilterData, FilterFlows
  <2>4. FilterDrained'
    BY <1>15 DEF Reap, FilterTyped, FilterPlaces, FilterData, FilterStage, FilterDrained
  <2>5. FilterStage'
    BY <1>15 DEF Reap, FilterTyped, FilterPlaces, FilterData, FilterStage, NothingLeft, Made
  <2> QED BY <2>1, <2>2, <2>3, <2>4, <2>5, <2>6 DEF FilterTyped
<1>16. ASSUME ReadStatus PROVE FInv'
  <2>1. FilterPlaces'
    BY <1>16 DEF ReadStatus, Verdict, FilterTyped, FilterPlaces
  <2>6. FilterData'
    BY <1>16 DEF ReadStatus, Verdict, FilterTyped, FilterData
  <2>2. FilterBounds'
    BY <1>16 DEF ReadStatus, Verdict, FilterTyped, FilterPlaces, FilterData, FilterBounds
  <2>3. FilterFlows'
    BY <1>16 DEF ReadStatus, Verdict, FilterTyped, FilterData, FilterFlows
  <2>4. FilterDrained'
    BY <1>16 DEF ReadStatus, Verdict, FilterTyped, FilterPlaces, FilterData, FilterStage, FilterDrained
  <2>5. FilterStage'
    BY <1>16 DEF ReadStatus, Verdict, FilterTyped, FilterPlaces, FilterData, FilterStage, NothingLeft, Made
  <2> QED BY <2>1, <2>2, <2>3, <2>4, <2>5, <2>6 DEF FilterTyped
<1>17. ASSUME UNCHANGED filtervars PROVE FInv'
  BY <1>17 DEF filtervars, FilterTyped, FilterPlaces, FilterData, FilterBounds, FilterFlows, FilterDrained, FilterStage, NothingLeft, Made
<1> QED
  BY <1>1, <1>2, <1>3, <1>4, <1>5, <1>6, <1>7, <1>8, <1>9, <1>10, <1>11, <1>12, <1>13, <1>14, <1>15, <1>16, <1>17 DEF PfilterNext, Parent, Child

LEMMA FilterPromises == ASSUME FInv PROVE FilterIsClean /\ PfilterTypeOK
<1> USE DEF FInv, FilterTyped
<1>1. OutputComplete
  <2>1. eaten \o pipe.in = [k \in 1 .. in_pos |-> k]
    <3>1. in_pos \in Nat
      BY DEF FilterData
    <3>2. Numbered(0, in_pos) = [k \in 1 .. in_pos |-> k]
      BY <3>1, NumberedFromFirst
    <3> QED BY <3>2 DEF FilterFlows
  <2>2. ASSUME outcome = "returned", NEW p \in Output
        PROVE  buf[p] = [k \in 1 .. written[p] |-> k]
    <3>1. buf[p] \in Seq(Nat) /\ written[p] \in Nat /\ pipe[p] = <<>>
      BY <2>2 DEF FilterData, FilterDrained
    <3>2. buf[p] \o <<>> = Numbered(0, written[p])
      BY <3>1 DEF FilterFlows
    <3>3. buf[p] \o <<>> = buf[p]
      BY <3>1, ConcatEmptySeq
    <3>4. Numbered(0, written[p]) = [k \in 1 .. written[p] |-> k]
      BY <3>1, NumberedFromFirst
    <3> QED BY <3>2, <3>3, <3>4
  <2> QED BY <2>1, <2>2 DEF OutputComplete, FilterDrained
<1>2. FilterIsClean
  BY <1>1 DEF FilterIsClean, FilterStage
<1>3. fds \subseteq UNION {Pair(p) : p \in {"status", "in", "out", "err"}}
  <2>1. ASSUME NEW e \in fds PROVE \E p \in {"status", "in", "out", "err"} : e \in Pair(p)
    <3>0. e \in ({"status"} \cup Pipes) \X {0, 1}
      BY <2>1 DEF FilterPlaces
    <3>1. PICK x \in {"status"} \cup Pipes, i \in {0, 1} : e = <<x, i>>
      BY <3>0
    <3>2. e \in Pair(x)
      BY <3>1 DEF Pair
    <3> QED BY <3>2
  <2> QED BY <2>1
<1>4. PfilterTypeOK
  BY <1>3 DEF PfilterTypeOK, FilterPlaces, FilterData, FilterBounds
<1> QED BY <1>2, <1>4

-----------------------------------------------------------------------------
(* The worker                                                              *)

WorkerInv == IoInv /\ FInv /\ use \in {"connection", "program"}

LEMMA WorkerStarts == Init => WorkerInv
<1> SUFFICES ASSUME Init PROVE WorkerInv
  OBVIOUS
<1>1. CASE use = "connection" /\ IoInit /\ PfilterStart(0, <<>>, 0)
  <2>1. PICK family \in BOOLEAN, mood \in {"eager", "stubborn"}, drains \in BOOLEAN :
          IoStart(family, mood, drains)
    BY <1>1 DEF IoInit
  <2>2. IoInv
    BY <2>1, IoStarts
  <2>3. <<>> \in Seq(Pipes) /\ 0 \in Nat
    BY EmptySeq
  <2>4. FInv
    BY <1>1, <2>3, FilterStarts
  <2> QED BY <1>1, <2>2, <2>4 DEF WorkerInv
<1>2. CASE use = "program" /\ PfilterInit /\ IoStart(TRUE, "eager", FALSE)
  <2>1. IoInv
    BY <1>2, IoStarts
  <2>2. PICK n \in InLens, p \in Programs : PfilterStart(n, p, 0)
    BY <1>2 DEF PfilterInit
  <2>3. n \in Nat /\ p \in Seq(Pipes) /\ 0 \in Nat
    BY PfilterAssumption
  <2>4. FInv
    BY <2>2, <2>3, FilterStarts
  <2> QED BY <1>2, <2>1, <2>4 DEF WorkerInv
<1> QED BY <1>1, <1>2 DEF Init

\* What happens is a step of one of the parts, and none of the other.
LEMMA WorkerSteps ==
  ASSUME [Next]_workervars
  PROVE  [IoNext]_iovars /\ [PfilterNext]_filtervars /\ (use' = use)
<1>1. CASE Connection(IoNext)
  BY <1>1 DEF Connection
<1>2. CASE Program(PfilterNext)
  BY <1>2 DEF Program
<1>3. CASE UNCHANGED workervars
  BY <1>3 DEF workervars
<1> QED BY <1>1, <1>2, <1>3 DEF Next

LEMMA WorkerKeeps == WorkerInv /\ [Next]_workervars => WorkerInv'
<1> SUFFICES ASSUME WorkerInv, [Next]_workervars PROVE WorkerInv'
  OBVIOUS
<1>1. [IoNext]_iovars /\ [PfilterNext]_filtervars /\ use' = use
  BY WorkerSteps
<1>2. IoInv'
  BY <1>1, IoStep DEF WorkerInv
<1>3. FInv'
  BY <1>1, FilterStep DEF WorkerInv
<1> QED BY <1>1, <1>2, <1>3 DEF WorkerInv

THEOREM WorkerInvariant == Spec => []WorkerInv
BY WorkerStarts, WorkerKeeps, PTL DEF Spec

\* moonbr_io_handle_t and pfilter: the state keeps its form, the counters of the
\* buffers hold what they count, and a handle that is closed holds no descriptor.
THEOREM WorkerTyped == Spec => []TypeOK
<1>1. WorkerInv => TypeOK
  BY IoPromises, FilterPromises DEF WorkerInv, TypeOK
<1> QED BY <1>1, WorkerInvariant, PTL

\* moonbr_io_write_impl, moonbr_io_read_impl: nothing of either stream is lost,
\* repeated or displaced, whichever calls are made and however they are blocked,
\* and the peer sees the end of the output after all of it.
THEOREM StreamsStayIntact == Spec => []StreamsIntact
<1>1. WorkerInv => StreamsIntact
  BY IoPromises DEF WorkerInv
<1> QED BY <1>1, WorkerInvariant, PTL

\* moonbr_io_write_impl: when a flush reports that it is done no byte is left in
\* the process, and, if it found any, TCP holds none of them back.
THEOREM FlushIsDone == Spec => []FlushedIsSent
<1>1. WorkerInv => FlushedIsSent
  BY IoPromises DEF WorkerInv
<1> QED BY <1>1, WorkerInvariant, PTL

\* moonbridge_http.lua: a server that drains its input while it waits to write
\* gives up only a peer that has stalled.
THEOREM NobodyWaitsForEachOther == Spec => []NoMutualWaiting
<1>1. WorkerInv => NoMutualWaiting
  BY IoPromises DEF WorkerInv
<1> QED BY <1>1, WorkerInvariant, PTL

\* moonbr_io_read_impl and read_call: what a read that ends has returned is what
\* its status says, though it may have waited and asked for less after each part.
THEOREM ReadsEnd == Spec => ReadsEndWhereAsked
<1>1. WorkerInv /\ [Next]_workervars => [ReadEnds]_iovars
  BY WorkerSteps, ReadEndsWell DEF WorkerInv
<1> QED BY <1>1, WorkerInvariant, PTL DEF Spec, ReadsEndWhereAsked

\* extos_pfilter: what it returns is all that the program wrote, the program has
\* read what was meant for it in order, and no descriptor or child is left behind,
\* wherever a call of the system fails.
THEOREM ProgramsAreClean == Spec => []FilterIsClean
<1>1. WorkerInv => FilterIsClean
  BY FilterPromises DEF WorkerInv
<1> QED BY <1>1, WorkerInvariant, PTL
=============================================================================
