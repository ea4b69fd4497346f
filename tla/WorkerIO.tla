------------------------------ MODULE WorkerIO ------------------------------
(***************************************************************************)
(* What a worker process of moonbridge does with descriptors: it talks to  *)
(* a client through an I/O handle, and it runs programs with pfilter,      *)
(* during which it does nothing else.  The two share nothing but the       *)
(* process, so that each behaviour follows one of them.                    *)
(***************************************************************************)
EXTENDS IoHandle, Pfilter

VARIABLE use    \* "connection" or "program"

workervars == <<iovars, filtervars, use>>

Init ==
    \/ use = "connection" /\ IoInit /\ PfilterStart(0, <<>>, 0)
    \/ use = "program" /\ PfilterInit /\ IoStart(TRUE, "eager", FALSE)

Connection(A) == use = "connection" /\ A /\ UNCHANGED <<filtervars, use>>
Program(A) == use = "program" /\ A /\ UNCHANGED <<iovars, use>>

Next == Connection(IoNext) \/ Program(PfilterNext)

\* The fairness of the parts.
Fairness ==
    /\ WF_workervars(Connection(Going))
    /\ WF_workervars(Connection(PeerSend)) /\ WF_workervars(Connection(PeerRead))
    /\ WF_workervars(Connection(MayEnd /\ PeerEnds))
    /\ WF_workervars(Program(Parent)) /\ WF_workervars(Program(Child))

Spec == Init /\ [][Next]_workervars /\ Fairness

-----------------------------------------------------------------------------
\* The state has the declared form, and counters and buffers fit together.
TypeOK ==
    /\ IoTypeOK /\ PfilterTypeOK
    /\ use \in {"connection", "program"}

\* pfilter comes to an end: it never waits for a program that waits for it,
\* whichever of the three pipes are full or empty, but in the case of StuckOnItself.
ProgramsEnd == use = "program" ~> fpc = "done" \/ StuckOnItself

\* A worker does not wait for ever, for its client or for a program.
WaitingEnds == WaitsEnd /\ ProgramsEnd
=============================================================================
