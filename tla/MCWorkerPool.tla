----------------------------- MODULE MCWorkerPool -----------------------------
(***************************************************************************)
(* Model checking of WorkerPool.                                           *)
(***************************************************************************)
EXTENDS WorkerPool, TLC

Of(p) == [proto |-> p, strict |-> FALSE]

Entries(ps) == [i \in DOMAIN ps |-> [proto |-> ps[i], at |-> "given", strict |-> TRUE]]

Pool(ps, max, timeout, conn, crash, fork, sig) ==
    [listen |-> Entries(ps), pre_fork |-> Nil, min_fork |-> 1, max_fork |-> max,
     idle_timeout |-> timeout,
     bounds |-> [connections |-> conn, crashes |-> crash, forkErrors |-> fork,
                 signals |-> sig]]

\* A timer without a delay.
Illegal == [Pool(<<"interval">>, 1, FALSE, 0, 0, 0, 0) EXCEPT !.listen[1].at = Nil]

\* Up to two workers for a socket, one for a socket and a timer or for a timer
\* only, and a main thread; each pool meets some of what may happen.
Pools == {Illegal,
          Pool(<<"tcp">>, 2, FALSE, 1, 1, 0, 0),
          Pool(<<"tcp">>, 2, FALSE, 1, 0, 1, 0),
          Pool(<<"tcp">>, 2, FALSE, 2, 0, 0, 0),
          Pool(<<"tcp">>, 2, FALSE, 1, 0, 0, 1),
          Pool(<<"tcp">>, 2, FALSE, 0, 1, 0, 1),
          Pool(<<"local", "interval">>, 1, TRUE, 1, 1, 0, 0),
          Pool(<<"interval">>, 1, TRUE, 0, 1, 0, 1),
          Pool(<<"main">>, Nil, FALSE, 0, 1, 1, 1)}

=============================================================================
