-------------------------- MODULE WorkerPool_proofs --------------------------
(***************************************************************************)
(* Proofs about WorkerPool, for any options of the pool, any number of     *)
(* workers and listeners and any number of connections, crashes, failures  *)
(* of fork and signals.                                                    *)
(*                                                                         *)
(* The inductive invariant PoolInv adds to what is to be shown: what each  *)
(* child and the master have told each other (Protocol), who has control   *)
(* of a listener (Ownership), and which points in time have passed at each *)
(* block of the loop (Times).                                              *)
(***************************************************************************)
EXTENDS WorkerPool, SequenceLemmas

TypeControl ==
    /\ pc \in Block /\ exit \in Reason
    /\ shutdown \in BOOLEAN /\ signalfd \in BOOLEAN /\ refresh_needed \in BOOLEAN
    /\ cond \subseteq {"interrupt", "terminate", "child", "poll"}
    /\ wait \in {"unset", "now", "future"}
    /\ timer \in [fork : Time, fork_error : Time, exit : Time]
    /\ use_fork_error \in BOOLEAN /\ terminated \in Nat

TypeLists ==
    /\ workers \in Seq(Worker) /\ idle \in Seq(Worker)
    /\ assigned \subseteq Worker /\ main \subseteq Worker
    /\ control \subseteq Worker /\ error \subseteq Worker
    /\ expiration \in [Worker -> Time]
    /\ poll_workers \in Seq(Entry)

TypeCounts == count \in [idle : Nat, unassigned : Nat, total : Nat]

TypeChildren ==
    /\ proc \in [Worker -> {"none", "prepare", "waiting", "taken", "connect", "finish",
                            "exiting", "zombie"}]
    /\ sigterm \subseteq Worker
    /\ commands \in [Worker -> Seq({"connect", "terminate"})]
    /\ statuses \in [Worker -> Seq({"idle", "goodbye"})]

Early == {"main", "script", "start"}

TypePool ==
    /\ pool.listen \in Seq([proto : Proto, strict : BOOLEAN])
    /\ pool.pre_fork \in Nat /\ pool.max_fork \in Nat /\ pool.idle_timeout \in BOOLEAN
    /\ idle_listeners \in Seq(Listener) /\ connected_listeners \in Seq(Listener)
    /\ restart \in [Worker -> Listener \cup {Nil}]
    /\ exit = "no" /\ pc \notin Early => wakeup \in [Listener -> Time]

\* Before the loop begins there is nothing.
Beginning ==
    /\ pc \in Early =>
          /\ workers = <<>> /\ idle = <<>> /\ poll_workers = <<>> /\ revents = {}
          /\ idle_listeners = <<>> /\ connected_listeners = <<>>
    /\ pc \in {"main", "script"} => pool = NoPool
    /\ exit = "no" => pc # "done"

-----------------------------------------------------------------------------
(* The workers                                                             *)

\* The lists name no worker twice; who is in no list does not exist.
Lists ==
    /\ Distinct(workers) /\ Distinct(idle)
    /\ Idling \subseteq Listed \ assigned /\ assigned \subseteq Listed
    /\ \A w \in Worker : proc[w] = "none" <=> w \notin Listed

Counts ==
    /\ count.total = Len(workers) /\ count.idle = Len(idle)
    /\ count.unassigned = Cardinality(Listed \ assigned)
    /\ count.total <= pool.max_fork

\* What is under way between the master and a child: never more than one word.
Talk(w) ==
    /\ w \in Idling => /\ statuses[w] = <<>>
                       /\ proc[w] \in {"waiting", "exiting", "zombie"}
                       /\ proc[w] = "waiting" => commands[w] = <<>>
    /\ proc[w] \in {"prepare", "taken", "connect"} => statuses[w] = <<>> /\ commands[w] = <<>>
    /\ proc[w] = "waiting" /\ w \notin Idling =>
          \/ statuses[w] = <<"idle">> /\ commands[w] = <<>>
          \/ statuses[w] = <<>> /\ commands[w] \in {<<"connect">>, <<"terminate">>}
    /\ proc[w] = "finish" => statuses[w] \in {<<>>, <<"goodbye">>}
    /\ w \in Listed => statuses[w] \in {<<>>, <<"idle">>, <<"goodbye">>}

Protocol == \A w \in Worker : Talk(w)

\* What poll() watches, and what it has found, is still open.
Watched == (control \X {"control"}) \cup (error \X {"error"})

Watching ==
    /\ control \subseteq Listed /\ error \subseteq Listed
    /\ \A e \in revents : e[2] # "listener" => e \in Watched
    /\ ~refresh_needed => Elements(poll_workers) = Watched
    /\ pc \in {"check", "polling"} => ~refresh_needed

-----------------------------------------------------------------------------
(* The listeners                                                           *)

\* A listener is in one of the queues, or with a worker that will be read from.
Ownership ==
    /\ Distinct(idle_listeners) /\ Distinct(connected_listeners)
    /\ Elements(idle_listeners) \cap Elements(connected_listeners) = {}
    /\ \A w \in Worker : restart[w] # Nil =>
          /\ w \in control /\ w \notin Idling
          /\ restart[w] \notin Elements(idle_listeners) \cup Elements(connected_listeners)
          /\ \A v \in Worker : restart[v] = restart[w] => v = w
    /\ pc \notin Early =>
          \A l \in Listener : ~IsMain(l) =>
              \/ l \in Elements(idle_listeners) \cup Elements(connected_listeners)
              \/ \E w \in Worker : restart[w] = l

-----------------------------------------------------------------------------
(* Time                                                                    *)

\* Idle workers expire in their order, and are told to end before anything else is
\* done.  A timer that has passed leaves the queue of idle listeners.
Times ==
    /\ pool.idle_timeout /\ pc # "expire" => \A w \in Idling : expiration[w] = "future"
    /\ pool.idle_timeout /\ pc = "expire" =>
          \A i, j \in DOMAIN idle : i <= j /\ expiration[idle[i]] = "future"
                                        => expiration[idle[j]] = "future"
    /\ pc \notin Early \cup {"expire"} =>
          \A l \in Elements(idle_listeners) : IsTimer(l) => wakeup[l] # "past"

Going == Lists /\ Counts /\ Protocol /\ Ownership /\ Times

PoolInv ==
    /\ TypeControl /\ TypeLists /\ TypeCounts /\ TypeChildren /\ TypePool
    /\ Beginning /\ Watching
    /\ exit \notin {"past", "data"}
    /\ exit = "no" => Going

-----------------------------------------------------------------------------
(* What is kept of a list                                                  *)

\* The places of a finite set of numbers are numbered from 1 on.
LEMMA Places ==
  ASSUME NEW n \in Nat, NEW K \in SUBSET (1 .. n)
  PROVE  /\ IsFiniteSet(K) /\ Cardinality(K) \in Nat
         /\ \A k \in 1 .. Cardinality(K) : \E i \in K : Cardinality({j \in K : j <= i}) = k
         /\ \A i \in K : Cardinality({j \in K : j <= i}) \in 1 .. Cardinality(K)
         /\ \A i, m \in K : Cardinality({j \in K : j <= i}) = Cardinality({j \in K : j <= m}) => i = m
<1> DEFINE Below(i) == {j \in K : j <= i}
           place == [i \in K |-> Cardinality(Below(i))]
           N == Cardinality(K)
<1>1. IsFiniteSet(K) /\ N \in Nat
  <2>1. IsFiniteSet(1 .. n)
    BY FS_Interval
  <2>2. IsFiniteSet(K)
    BY <2>1, FS_Subset
  <2> QED BY <2>2, FS_CardinalityType
<1>2. ASSUME NEW i \in K PROVE IsFiniteSet(Below(i)) /\ Cardinality(Below(i)) \in 1 .. N /\ i \in Below(i)
  <2>1. Below(i) \in SUBSET K /\ i \in Below(i)
    OBVIOUS
  <2>2. IsFiniteSet(Below(i)) /\ Cardinality(Below(i)) <= N
    BY <1>1, <2>1, FS_Subset
  <2>3. Cardinality(Below(i)) \in Nat /\ Cardinality(Below(i)) # 0
    BY <2>1, <2>2, FS_CardinalityType, FS_EmptySet
  <2> QED BY <1>1, <2>1, <2>2, <2>3
<1>3. ASSUME NEW i \in K, NEW m \in K, i < m PROVE Cardinality(Below(i)) # Cardinality(Below(m))
  <2>0. \A j \in K : j \in Int
    OBVIOUS
  <2>1. Below(i) \in SUBSET Below(m) /\ m \in Below(m) /\ m \notin Below(i)
    <3>1. ASSUME NEW j \in Below(i) PROVE j \in K /\ j <= m
      <4>1. j \in K /\ j <= i /\ j \in Int /\ i \in Int /\ m \in Int
        BY <2>0
      <4> QED BY <1>3, <4>1
    <3>2. m \in Int /\ i \in Int /\ m <= m /\ ~(m <= i)
      BY <1>3, <2>0
    <3> QED BY <3>1, <3>2
  <2>2. Below(i) # Below(m)
    BY <2>1
  <2> HIDE DEF Below
  <2> QED BY <1>2, <2>1, <2>2, FS_Subset
<1>4. \A i, m \in K : Cardinality(Below(i)) = Cardinality(Below(m)) => i = m
  <2>1. \A i, m \in K : i < m \/ m < i \/ i = m
    OBVIOUS
  <2> HIDE DEF Below
  <2> QED BY <1>3, <2>1
<1> HIDE DEF Below
<1>5. place \in [K -> 1 .. N] /\ \A i \in K : place[i] = Cardinality(Below(i))
  BY <1>2
<1>6. place \in Injection(K, 1 .. N)
  <2>1. \A a, b \in K : place[a] = place[b] => a = b
    BY <1>4, <1>5
  <2> HIDE DEF place, N
  <2> QED BY <1>5, <2>1, Fun_IsInj
<1>7. IsFiniteSet(1 .. N) /\ Cardinality(1 .. N) = Cardinality(K)
  <2>1. 1 \in Int /\ N \in Int /\ (1 > N => N = 0) /\ N - 1 + 1 = N
    BY <1>1
  <2>2. /\ IsFiniteSet(1 .. N)
        /\ Cardinality(1 .. N) = IF 1 > N THEN 0 ELSE N - 1 + 1
    BY <2>1, FS_Interval
  <2> QED BY <2>1, <2>2
<1>8. place \in Surjection(K, 1 .. N)
  <2> HIDE DEF place
  <2> QED BY <1>6, <1>7, FS_Injection
<1>9. ASSUME NEW k \in 1 .. N PROVE \E i \in K : Cardinality(Below(i)) = k
  <2>1. \E i \in K : place[i] = k
    BY <1>8 DEF Surjection
  <2> QED BY <1>5, <2>1
<1> QED BY <1>1, <1>2, <1>4, <1>9 DEF Below

LEMMA KeepProperties ==
  ASSUME NEW S, NEW s \in Seq(S), NEW T
  PROVE  /\ Keep(s, T) \in Seq(S)
         /\ Elements(Keep(s, T)) = Elements(s) \cap T
         /\ Distinct(s) => Distinct(Keep(s, T))
<1> DEFINE kept == {i \in DOMAIN s : s[i] \in T}
           Place(k) == CHOOSE i \in kept : Cardinality({j \in kept : j <= i}) = k
           t == [k \in 1 .. Cardinality(kept) |-> s[Place(k)]]
<1>1. Len(s) \in Nat /\ DOMAIN s = 1 .. Len(s)
  BY LenProperties
<1>2. kept \in SUBSET (1 .. Len(s))
  BY <1>1
<1>3. t = Keep(s, T)
  BY DEF Keep
<1> HIDE DEF kept
<1> DEFINE Number(i) == Cardinality({j \in kept : j <= i})
<1>14. /\ Cardinality(kept) \in Nat
       /\ \A k \in 1 .. Cardinality(kept) : \E i \in kept : Number(i) = k
       /\ \A i \in kept : Number(i) \in 1 .. Cardinality(kept)
       /\ \A i, m \in kept : Number(i) = Number(m) => i = m
  BY <1>1, <1>2, Places
<1>4. ASSUME NEW k \in 1 .. Cardinality(kept)
      PROVE  Place(k) \in kept /\ Number(Place(k)) = k
  <2>1. \E i \in kept : Number(i) = k
    BY <1>14
  <2> QED BY <2>1
<1>5. ASSUME NEW i \in kept
      PROVE  \E k \in 1 .. Cardinality(kept) : Place(k) = i
  <2> DEFINE k == Number(i)
             m == Place(k)
  <2>1. k \in 1 .. Cardinality(kept)
    BY <1>14
  <2>2. m \in kept /\ Number(m) = Number(i)
    BY <1>4, <2>1
  <2> HIDE DEF Number, m
  <2>3. m = i
    BY <1>14, <2>2
  <2> QED BY <2>1, <2>3 DEF m
<1> HIDE DEF Place
<1>6. Cardinality(kept) \in Nat
  BY <1>14
<1>7. \A i \in 1 .. Len(s) : s[i] \in S
  BY <1>1, ElementOfSeq
<1>8. t \in Seq(S)
  <2>1. t \in [1 .. Cardinality(kept) -> S]
    BY <1>2, <1>4, <1>7
  <2> QED BY <1>6, <2>1
<1>9. DOMAIN t = 1 .. Cardinality(kept) /\ \A k \in 1 .. Cardinality(kept) : t[k] = s[Place(k)]
  OBVIOUS
<1> HIDE DEF t
<1>10. ASSUME NEW x \in Elements(t) PROVE x \in Elements(s) \cap T
  <2>1. PICK k \in 1 .. Cardinality(kept) : x = t[k]
    BY <1>9, <1>10 DEF Elements
  <2>2. Place(k) \in kept /\ x = s[Place(k)]
    BY <1>4, <1>9, <2>1
  <2> QED BY <2>2 DEF Elements, kept
<1>11. ASSUME NEW x \in Elements(s) \cap T PROVE x \in Elements(t)
  <2>1. PICK i \in DOMAIN s : x = s[i]
    BY <1>11 DEF Elements
  <2>2. i \in kept
    BY <1>11, <2>1 DEF kept
  <2>3. PICK k \in 1 .. Cardinality(kept) : Place(k) = i
    BY <1>5, <2>2
  <2> QED BY <1>9, <2>1, <2>3 DEF Elements
<1>12. ASSUME Distinct(s), NEW k \in 1 .. Cardinality(kept), NEW m \in 1 .. Cardinality(kept), t[k] = t[m]
       PROVE  k = m
  <2>1. Place(k) \in DOMAIN s /\ Place(m) \in DOMAIN s /\ s[Place(k)] = s[Place(m)]
    BY <1>4, <1>9, <1>12 DEF kept
  <2>2. Place(k) = Place(m)
    BY <1>12, <2>1 DEF Distinct
  <2> QED BY <1>4, <2>2
<1>13. Distinct(s) => Distinct(t)
  BY <1>9, <1>12 DEF Distinct
<1> QED BY <1>3, <1>8, <1>10, <1>11, <1>13

-----------------------------------------------------------------------------
(* What steps are made of                                                  *)

LEMMA Words ==
  \A x : /\ Append(<<>>, x) = <<x>> /\ Head(<<x>>) = x /\ Tail(<<x>>) = <<>>
         /\ <<x>> # <<>> /\ \A y : <<x>> = <<y>> => x = y
<1> SUFFICES ASSUME NEW x
    PROVE  /\ Append(<<>>, x) = <<x>> /\ Head(<<x>>) = x /\ Tail(<<x>>) = <<>>
           /\ <<x>> # <<>> /\ \A y : <<x>> = <<y>> => x = y
  OBVIOUS
<1>1. <<>> \in Seq({x}) /\ <<x>> \in Seq({x}) /\ Len(<<>>) = 0 /\ Len(<<x>>) = 1
  BY EmptySeq
<1>2. Append(<<>>, x) = <<x>>
  <2>1. Append(<<>>, x) \in Seq({x}) /\ Len(Append(<<>>, x)) = 1 /\ Append(<<>>, x)[1] = x
    BY <1>1, AppendProperties
  <2>2. <<x>>[1] = x /\ \A i \in 1 .. 1 : i = 1
    OBVIOUS
  <2> QED BY <1>1, <2>1, <2>2, SeqEqual
<1>3. Tail(<<x>>) = <<>>
  <2>1. Tail(<<x>>) \in Seq({x}) /\ Len(Tail(<<x>>)) = 0
    BY <1>1, HeadTailProperties
  <2> QED BY <2>1, EmptySeq
<1> QED BY <1>1, <1>2, <1>3

\* All descriptors of the workers are in the list that PollWorkers makes.
LEMMA PollWorkersWatch ==
  ASSUME PoolInv
  PROVE  PollWorkers \in Seq(Entry) /\ Elements(PollWorkers) = Watched
<1>0. /\ workers \in Seq(Worker) /\ control \subseteq Listed /\ error \subseteq Listed
      /\ control \subseteq Worker /\ error \subseteq Worker
  BY DEF PoolInv, TypeLists, Watching
<1> DEFINE N == 2 * Len(workers)
           entry == [i \in 1 .. N |->
                        <<workers[(i + 1) \div 2], IF i % 2 = 1 THEN "control" ELSE "error">>]
           open == {e \in Entry : e[2] \in Channel(e[1])}
<1>1. Len(workers) \in Nat /\ DOMAIN workers = 1 .. Len(workers) /\ N \in Nat
  BY <1>0, LenProperties
<1>2. \A i \in 1 .. N : (i + 1) \div 2 \in 1 .. Len(workers)
  BY <1>1
<1>3. \A k \in 1 .. Len(workers) :
        /\ 2 * k \in 1 .. N /\ (2 * k + 1) \div 2 = k /\ (2 * k) % 2 = 0
        /\ 2 * k - 1 \in 1 .. N /\ (2 * k - 1 + 1) \div 2 = k /\ (2 * k - 1) % 2 = 1
  BY <1>1
<1>4. \A k \in 1 .. Len(workers) : workers[k] \in Worker
  BY <1>0, ElementOfSeq
<1>5. entry \in Seq(Entry)
  <2>1. \A i \in 1 .. N : entry[i] \in Entry
    BY <1>2, <1>4 DEF Entry
  <2>2. entry \in [1 .. N -> Entry]
    BY <2>1
  <2> HIDE DEF entry, N
  <2> QED BY <1>1, <2>2
<1>6. PollWorkers = Keep(entry, open)
  BY DEF PollWorkers
<1>7. DOMAIN entry = 1 .. N
  OBVIOUS
<1>8. ASSUME NEW w \in Listed, NEW c \in {"control", "error"} PROVE <<w, c>> \in Elements(entry)
  <2>1. PICK k \in 1 .. Len(workers) : w = workers[k]
    BY <1>1, <1>8 DEF Listed
  <2>2. CASE c = "control"
    <3>1. entry[2 * k - 1] = <<w, "control">> /\ 2 * k - 1 \in 1 .. N
      BY <1>3, <2>1
    <3> QED BY <1>7, <2>2, <3>1 DEF Elements
  <2>3. CASE c = "error"
    <3>1. entry[2 * k] = <<w, "error">> /\ 2 * k \in 1 .. N
      BY <1>3, <2>1
    <3> QED BY <1>7, <2>3, <3>1 DEF Elements
  <2> QED BY <2>2, <2>3
<1> HIDE DEF entry, open
<1>9. /\ PollWorkers \in Seq(Entry)
      /\ Elements(PollWorkers) = Elements(entry) \cap open
  BY <1>5, <1>6, KeepProperties
<1>10. open = Watched
  BY <1>0 DEF open, Watched, Entry, Channel
<1>11. ASSUME NEW e \in Watched PROVE e \in Elements(entry)
  <2>1. CASE e \in control \X {"control"}
    <3>1. PICK w \in control : e = <<w, "control">>
      BY <2>1
    <3> QED BY <1>0, <1>8, <3>1
  <2>2. CASE e \in error \X {"error"}
    <3>1. PICK w \in error : e = <<w, "error">>
      BY <2>2
    <3> QED BY <1>0, <1>8, <3>1
  <2> QED BY <1>11, <2>1, <2>2 DEF Watched
<1> QED BY <1>9, <1>10, <1>11

\* The first n idle workers.
LEMMA FirstAreIdle ==
  ASSUME PoolInv, exit = "no", NEW n \in 0 .. Len(idle)
  PROVE  /\ FirstIdle(n) \subseteq Idling /\ FirstIdle(n) \subseteq Worker
         /\ IsFiniteSet(FirstIdle(n)) /\ Cardinality(FirstIdle(n)) = n
         /\ SubSeq(idle, n + 1, Len(idle)) \in Seq(Worker)
         /\ Len(SubSeq(idle, n + 1, Len(idle))) = Len(idle) - n
         /\ Distinct(SubSeq(idle, n + 1, Len(idle)))
         /\ Elements(SubSeq(idle, n + 1, Len(idle))) = Idling \ FirstIdle(n)
         /\ \A k \in 1 .. Len(idle) - n : SubSeq(idle, n + 1, Len(idle))[k] = idle[n + k]
<1>0. idle \in Seq(Worker) /\ Distinct(idle)
  BY DEF PoolInv, Going, TypeLists, Lists
<1>1. Len(idle) \in Nat /\ n \in Nat /\ n <= Len(idle) /\ DOMAIN idle = 1 .. Len(idle)
  BY <1>0, LenProperties
<1> DEFINE t == SubSeq(idle, n + 1, Len(idle))
           first == {idle[i] : i \in DOMAIN idle \cap 1 .. n}
<1>2. FirstIdle(n) = first /\ Idling = Elements(idle)
  BY DEF FirstIdle, Idling, Elements
<1>11. /\ t \in Seq(Worker) /\ Len(t) = Len(idle) - n
       /\ \A k \in 1 .. Len(idle) - n : t[k] = idle[n + k]
       /\ Elements(t) \subseteq Elements(idle) /\ first \subseteq Elements(idle)
       /\ Elements(idle) = Elements(t) \cup first
       /\ Distinct(idle) => Distinct(t) /\ Elements(t) = Elements(idle) \ first
  BY <1>0, ElementsRest
<1> HIDE DEF first
<1>3. /\ t \in Seq(Worker) /\ Len(t) = Len(idle) - n /\ Distinct(t)
      /\ \A k \in 1 .. Len(idle) - n : t[k] = idle[n + k]
      /\ FirstIdle(n) \subseteq Idling /\ Elements(t) = Idling \ FirstIdle(n)
      /\ Idling = Elements(t) \cup FirstIdle(n)
  BY <1>0, <1>2, <1>11
<1> HIDE DEF t
<1>4. Idling \subseteq Worker
  BY <1>0, <1>2, ElementsIn
<1>5. IsFiniteSet(Idling) /\ Cardinality(Idling) = Len(idle)
  BY <1>0, <1>2, ElementsCount
<1>6. IsFiniteSet(Elements(t)) /\ Cardinality(Elements(t)) = Len(idle) - n
  BY <1>3, ElementsCount
<1>7. Elements(t) \cap FirstIdle(n) = {} /\ Idling \cap FirstIdle(n) = FirstIdle(n)
  BY <1>3
<1>8. IsFiniteSet(FirstIdle(n)) /\ Cardinality(FirstIdle(n)) \in Nat
  BY <1>3, <1>5, FS_Subset, FS_CardinalityType
<1>9. Cardinality(Elements(t)) = Cardinality(Idling) - Cardinality(FirstIdle(n))
  <2>1. Cardinality(Idling \ FirstIdle(n)) = Cardinality(Idling) - Cardinality(Idling \cap FirstIdle(n))
    BY <1>5, FS_Difference
  <2> QED BY <1>3, <1>7, <2>1
<1>10. Cardinality(FirstIdle(n)) = n
  BY <1>1, <1>5, <1>6, <1>8, <1>9
<1> QED BY <1>3, <1>4, <1>8, <1>10 DEF t

\* The three counters are small enough for what is taken from them.
LEMMA CountsAreTrue ==
  ASSUME PoolInv, exit = "no"
  PROVE  /\ IsFiniteSet(Listed) /\ IsFiniteSet(Idling) /\ IsFiniteSet(Listed \ assigned)
         /\ Listed \subseteq Worker /\ Idling \subseteq Worker
         /\ count.total = Cardinality(Listed) /\ count.idle = Cardinality(Idling)
         /\ count.unassigned = Cardinality(Listed \ assigned)
         /\ count = [idle |-> count.idle, unassigned |-> count.unassigned, total |-> count.total]
<1>0. /\ workers \in Seq(Worker) /\ Distinct(workers) /\ idle \in Seq(Worker) /\ Distinct(idle)
      /\ Counts /\ TypeCounts
  BY DEF PoolInv, Going, TypeLists, Lists
<1>1. Listed = Elements(workers) /\ Idling = Elements(idle)
  BY DEF Listed, Idling, Elements
<1>2. /\ IsFiniteSet(Listed) /\ Cardinality(Listed) = Len(workers) /\ Listed \subseteq Worker
      /\ IsFiniteSet(Idling) /\ Cardinality(Idling) = Len(idle) /\ Idling \subseteq Worker
  BY <1>0, <1>1, ElementsCount, ElementsIn
<1>3. IsFiniteSet(Listed \ assigned)
  BY <1>2, FS_Difference
<1>4. count = [idle |-> count.idle, unassigned |-> count.unassigned, total |-> count.total]
  BY <1>0 DEF TypeCounts
<1> QED BY <1>0, <1>2, <1>3, <1>4 DEF Counts

\* moonbr_pop_idle_worker keeps the lists and counters in agreement.
LEMMA PopKeeps ==
  ASSUME PoolInv, exit = "no", NEW n \in 0 .. Len(idle), PopIdle(n),
         UNCHANGED <<workers, control, error, poll_workers, proc, pool>>, main' \subseteq Worker
  PROVE  /\ TypeLists' /\ TypeCounts' /\ Lists' /\ Counts'
         /\ Idling' = Idling \ FirstIdle(n) /\ Listed' = Listed
         /\ assigned' = assigned \cup FirstIdle(n)
<1>0. TypeLists /\ Lists /\ Counts /\ TypeCounts /\ Len(idle) \in Nat
  BY LenProperties DEF PoolInv, Going, TypeLists
<1>1. /\ FirstIdle(n) \subseteq Idling /\ FirstIdle(n) \subseteq Worker
      /\ IsFiniteSet(FirstIdle(n)) /\ Cardinality(FirstIdle(n)) = n
      /\ idle' \in Seq(Worker) /\ Len(idle') = Len(idle) - n /\ Distinct(idle')
      /\ Elements(idle') = Idling \ FirstIdle(n)
  BY FirstAreIdle DEF PopIdle
<1>2. Idling' = Elements(idle') /\ Listed' = Listed
  BY DEF Idling, Listed, Elements
<1>3. assigned' = assigned \cup FirstIdle(n)
  BY DEF PopIdle
<1>4. /\ count' = [idle |-> count.idle - n, unassigned |-> count.unassigned - n, total |-> count.total]
      /\ count.idle = Len(idle) /\ count.idle \in Nat /\ count.unassigned \in Nat /\ count.total \in Nat
  BY <1>0 DEF PopIdle, Counts, TypeCounts
<1>5. Cardinality(Listed' \ assigned') = count.unassigned - n /\ count.unassigned - n \in Nat
  <2>1. /\ Listed' \ assigned' = (Listed \ assigned) \ FirstIdle(n)
        /\ (Listed \ assigned) \cap FirstIdle(n) = FirstIdle(n)
    BY <1>0, <1>1, <1>2, <1>3 DEF Lists
  <2>2. IsFiniteSet(Listed \ assigned) /\ Cardinality(Listed \ assigned) = count.unassigned
    BY CountsAreTrue
  <2> DEFINE U == Listed \ assigned
  <2> HIDE DEF U
  <2>3. Cardinality(U \ FirstIdle(n)) = Cardinality(U) - Cardinality(U \cap FirstIdle(n)) /\ IsFiniteSet(U \ FirstIdle(n))
    BY <2>2, FS_Difference DEF U
  <2>4. Cardinality(U \ FirstIdle(n)) \in Nat
    BY <2>3, FS_CardinalityType
  <2> QED BY <1>1, <2>1, <2>2, <2>3, <2>4 DEF U
<1>6. expiration' \in [Worker -> Time]
  BY <1>0 DEF PopIdle, TypeLists, Time
<1>7. TypeLists'
  BY <1>0, <1>1, <1>3, <1>6 DEF TypeLists
<1>8. Lists'
  BY <1>0, <1>1, <1>2, <1>3 DEF Lists
<1>9. Len(idle) - n \in Nat
  BY <1>0
<1>10. TypeCounts'
  BY <1>4, <1>5, <1>9 DEF TypeCounts
<1>11. Counts'
  BY <1>0, <1>1, <1>4, <1>5 DEF Counts
<1> QED BY <1>1, <1>2, <1>3, <1>7, <1>8, <1>10, <1>11

\* A worker that is taken from the queue is told something.
LEMMA SendKeeps ==
  ASSUME PoolInv, exit = "no", NEW n \in 0 .. Len(idle), PopIdle(n),
         NEW c \in {"connect", "terminate"}, Send(FirstIdle(n), c),
         UNCHANGED <<workers, proc, sigterm, statuses>>
  PROVE  TypeChildren' /\ Protocol'
<1>0. TypeChildren /\ Protocol /\ Lists
  BY DEF PoolInv, Going
<1>1. Idling' = Idling \ FirstIdle(n) /\ Listed' = Listed /\ FirstIdle(n) \subseteq Idling
  <2>1. Idling' = Elements(idle') /\ Listed' = Listed
    BY DEF Idling, Listed, Elements
  <2> QED BY <2>1, FirstAreIdle DEF PopIdle
<1>2. \A w \in Worker : Append(commands[w], c) \in Seq({"connect", "terminate"})
  BY <1>0, AppendProperties DEF TypeChildren
<1>3. TypeChildren'
  BY <1>0, <1>2 DEF TypeChildren, Send
<1>4. ASSUME NEW w \in Worker PROVE Talk(w)'
  <2>0. Talk(w) /\ proc' = proc /\ statuses' = statuses
    BY <1>0 DEF Protocol
  <2>1. CASE w \in FirstIdle(n) /\ HoldsControl(w)
    <3>1. commands'[w] = Append(commands[w], c)
      BY <2>1 DEF Send
    <3>2. w \in Idling /\ proc[w] = "waiting" /\ commands[w] = <<>> /\ statuses[w] = <<>>
      BY <1>1, <2>0, <2>1 DEF Talk, HoldsControl
    <3>3. commands'[w] \in {<<"connect">>, <<"terminate">>}
      BY <3>1, <3>2, Words
    <3> QED BY <1>1, <2>0, <2>1, <3>2, <3>3 DEF Talk
  <2>2. CASE w \in FirstIdle(n) /\ ~HoldsControl(w)
    <3>1. w \in Idling /\ proc[w] \in {"exiting", "zombie"} /\ statuses[w] = <<>>
      BY <1>1, <2>0, <2>2 DEF Talk, HoldsControl
    <3> QED BY <1>1, <2>0, <2>2, <3>1 DEF Talk
  <2>3. CASE w \notin FirstIdle(n)
    <3>1. commands'[w] = commands[w]
      BY <2>3 DEF Send
    <3> QED BY <1>1, <2>0, <2>3, <3>1 DEF Talk
  <2> QED BY <2>1, <2>2, <2>3
<1> QED BY <1>3, <1>4 DEF Protocol

-----------------------------------------------------------------------------
(* The steps                                                               *)

LEMMA StartServerKeeps ==
  ASSUME PoolInv, exit = "no", StartServer
  PROVE  PoolInv'
<1>0. /\ TypeControl /\ TypeLists /\ TypeCounts /\ TypeChildren /\ TypePool
      /\ Beginning /\ Watching /\ Lists /\ Counts /\ Protocol /\ Ownership /\ Times
  BY DEF PoolInv, Going
<1>1. TypeControl'
  BY <1>0 DEF StartServer, Goto, signals, polling, queues, channels, timers, listeners, children,
     TypeControl, Block, Reason, Time
<1>2. TypeLists'
  BY <1>0 DEF StartServer, Goto, signals, polling, queues, channels, timers, listeners, children,
     TypeLists
<1>3. TypeCounts'
  BY <1>0 DEF StartServer, Goto, signals, polling, queues, channels, timers, listeners, children,
     TypeCounts
<1>4. TypeChildren'
  BY <1>0 DEF StartServer, Goto, signals, polling, queues, channels, timers, listeners, children,
     TypeChildren
<1>5. TypePool'
  BY <1>0 DEF StartServer, Goto, signals, polling, queues, channels, timers, listeners, children,
     TypePool, Listener, Early
<1>6. Beginning'
  BY <1>0 DEF StartServer, Goto, signals, polling, queues, channels, timers, listeners, children,
     Beginning, Early
<1>7. Watching'
  BY <1>0 DEF StartServer, Goto, signals, polling, queues, channels, timers, listeners, children,
     Watching, Watched, Listed
<1>8. exit' = "no" => Lists'
  BY <1>0 DEF StartServer, Goto, signals, polling, queues, channels, timers, listeners, children,
     Lists, Listed, Idling
<1>9. exit' = "no" => Counts'
  BY <1>0 DEF StartServer, Goto, signals, polling, queues, channels, timers, listeners, children,
     Counts, Listed
<1>10. exit' = "no" => Protocol'
  BY <1>0 DEF StartServer, Goto, signals, polling, queues, channels, timers, listeners, children,
     Protocol, Talk, Listed, Idling
<1>11. exit' = "no" => Ownership'
  BY <1>0 DEF StartServer, Goto, signals, polling, queues, channels, timers, listeners, children,
     Ownership, Listener, Idling, IsMain, Early
<1>12. exit' = "no" => Times'
  BY <1>0 DEF StartServer, Goto, signals, polling, queues, channels, timers, listeners, children,
     Times, Idling, IsTimer, Early
<1>13. exit' \notin {"past", "data"}
  BY DEF StartServer, Goto
<1> QED BY <1>1, <1>2, <1>3, <1>4, <1>5, <1>6, <1>7, <1>8, <1>9, <1>10, <1>11, <1>12, <1>13 DEF PoolInv, Going

LEMMA NoListenerKeeps ==
  ASSUME PoolInv, exit = "no", NoListener
  PROVE  PoolInv'
<1>0. /\ TypeControl /\ TypeLists /\ TypeCounts /\ TypeChildren /\ TypePool
      /\ Beginning /\ Watching /\ Lists /\ Counts /\ Protocol /\ Ownership /\ Times
  BY DEF PoolInv, Going
<1>1. TypeControl'
  BY <1>0 DEF NoListener, ScriptFails, signals, polling, queues, channels, timers, listeners, children,
     TypeControl, Block, Reason, Time
<1>2. TypeLists'
  BY <1>0 DEF NoListener, ScriptFails, signals, polling, queues, channels, timers, listeners, children,
     TypeLists
<1>3. TypeCounts'
  BY <1>0 DEF NoListener, ScriptFails, signals, polling, queues, channels, timers, listeners, children,
     TypeCounts
<1>4. TypeChildren'
  BY <1>0 DEF NoListener, ScriptFails, signals, polling, queues, channels, timers, listeners, children,
     TypeChildren
<1>5. TypePool'
  BY <1>0 DEF NoListener, ScriptFails, signals, polling, queues, channels, timers, listeners, children,
     TypePool, Listener, Early
<1>6. Beginning'
  BY <1>0 DEF NoListener, ScriptFails, signals, polling, queues, channels, timers, listeners, children,
     Beginning, Early
<1>7. Watching'
  BY <1>0 DEF NoListener, ScriptFails, signals, polling, queues, channels, timers, listeners, children,
     Watching, Watched, Listed
<1>8. exit' = "no" => Lists'
  BY <1>0 DEF NoListener, ScriptFails, signals, polling, queues, channels, timers, listeners, children,
     Lists, Listed, Idling
<1>9. exit' = "no" => Counts'
  BY <1>0 DEF NoListener, ScriptFails, signals, polling, queues, channels, timers, listeners, children,
     Counts, Listed
<1>10. exit' = "no" => Protocol'
  BY <1>0 DEF NoListener, ScriptFails, signals, polling, queues, channels, timers, listeners, children,
     Protocol, Talk, Listed, Idling
<1>11. exit' = "no" => Ownership'
  BY <1>0 DEF NoListener, ScriptFails, signals, polling, queues, channels, timers, listeners, children,
     Ownership, Listener, Idling, IsMain, Early
<1>12. exit' = "no" => Times'
  BY <1>0 DEF NoListener, ScriptFails, signals, polling, queues, channels, timers, listeners, children,
     Times, Idling, IsTimer, Early
<1>13. exit' \notin {"past", "data"}
  BY DEF NoListener, ScriptFails
<1> QED BY <1>1, <1>2, <1>3, <1>4, <1>5, <1>6, <1>7, <1>8, <1>9, <1>10, <1>11, <1>12, <1>13 DEF PoolInv, Going

LEMMA StartRunKeeps ==
  ASSUME PoolInv, exit = "no", StartRun
  PROVE  PoolInv'
<1>0. /\ TypeControl /\ TypeLists /\ TypeCounts /\ TypeChildren /\ TypePool
      /\ Beginning /\ Watching /\ Lists /\ Counts /\ Protocol /\ Ownership /\ Times
  BY DEF PoolInv, Going
<1>20. /\ idle_listeners' = [l \in Listener |-> l] /\ connected_listeners' = connected_listeners
       /\ connected_listeners = <<>> /\ restart' = restart /\ pool' = pool /\ control' = control
       /\ workers = <<>> /\ control \subseteq Listed /\ idle' = idle /\ idle = <<>>
       /\ pc' = "top" /\ expiration' = expiration
  BY <1>0 DEF StartRun, Goto, PollInit, listeners, queues, channels, Beginning, Early, Watching
<1>21. Listener = 1 .. Len(pool.listen) /\ Len(pool.listen) \in Nat /\ Listener' = Listener
  BY <1>0, <1>20, LenProperties DEF TypePool, Listener
<1>22. idle_listeners' \in Seq(Listener) /\ DOMAIN idle_listeners' = Listener
  BY <1>20, <1>21
<1>23. Elements(idle_listeners') = Listener /\ Distinct(idle_listeners')
  BY <1>20, <1>22 DEF Elements, Distinct
<1>24. Elements(connected_listeners') = {} /\ Distinct(connected_listeners') /\ Listed = {} /\ Idling' = {}
  <2>1. DOMAIN <<>> = {}
    BY EmptySeq
  <2> QED BY <1>20, <2>1 DEF Elements, Distinct, Listed, Idling
<1>25. \A l \in Listener : wakeup'[l] \in {"now", "unset", "future"}
  BY <1>20, <1>21 DEF StartRun, IntervalInitialize
<1>26. wakeup' \in [Listener' -> Time]
  BY <1>20, <1>21 DEF StartRun, IntervalInitialize, Time, Listener
<1>1. TypeControl'
  BY <1>0 DEF StartRun, Goto, PollInit, IntervalInitialize, signals, polling, queues, channels, timers, listeners, children,
     TypeControl, Block, Reason, Time
<1>2. TypeLists'
  BY <1>0 DEF StartRun, Goto, PollInit, IntervalInitialize, signals, polling, queues, channels, timers, listeners, children,
     TypeLists
<1>3. TypeCounts'
  BY <1>0 DEF StartRun, Goto, PollInit, IntervalInitialize, signals, polling, queues, channels, timers, listeners, children,
     TypeCounts
<1>4. TypeChildren'
  BY <1>0 DEF StartRun, Goto, PollInit, IntervalInitialize, signals, polling, queues, channels, timers, listeners, children,
     TypeChildren
<1>5. TypePool'
  <2>1. connected_listeners' \in Seq(Listener') /\ idle_listeners' \in Seq(Listener')
    BY <1>0, <1>20, <1>21, <1>22 DEF TypePool
  <2> QED BY <1>0, <1>20, <1>21, <1>26, <2>1 DEF TypePool
<1>6. Beginning'
  BY <1>0 DEF StartRun, Goto, PollInit, IntervalInitialize, signals, polling, queues, channels, timers, listeners, children,
     Beginning, Early
<1>7. Watching'
  BY <1>0 DEF StartRun, Goto, PollInit, IntervalInitialize, signals, polling, queues, channels, timers, listeners, children,
     Watching, Watched, Listed
<1>8. exit' = "no" => Lists'
  BY <1>0 DEF StartRun, Goto, PollInit, IntervalInitialize, signals, polling, queues, channels, timers, listeners, children,
     Lists, Listed, Idling
<1>9. exit' = "no" => Counts'
  BY <1>0 DEF StartRun, Goto, PollInit, IntervalInitialize, signals, polling, queues, channels, timers, listeners, children,
     Counts, Listed
<1>10. exit' = "no" => Protocol'
  BY <1>0 DEF StartRun, Goto, PollInit, IntervalInitialize, signals, polling, queues, channels, timers, listeners, children,
     Protocol, Talk, Listed, Idling
<1>11. exit' = "no" => Ownership'
  BY <1>0, <1>20, <1>21, <1>23, <1>24 DEF Ownership
<1>12. exit' = "no" => Times'
  BY <1>0, <1>20, <1>21, <1>23, <1>24, <1>25 DEF Times, Early
<1>13. exit' \notin {"past", "data"}
  BY DEF StartRun, Goto, PollInit, IntervalInitialize
<1> QED BY <1>1, <1>2, <1>3, <1>4, <1>5, <1>6, <1>7, <1>8, <1>9, <1>10, <1>11, <1>12, <1>13 DEF PoolInv, Going

LEMMA MarkListenersKeeps ==
  ASSUME PoolInv, exit = "no", MarkListeners
  PROVE  PoolInv'
<1>0. /\ TypeControl /\ TypeLists /\ TypeCounts /\ TypeChildren /\ TypePool
      /\ Beginning /\ Watching /\ Lists /\ Counts /\ Protocol /\ Ownership /\ Times
  BY DEF PoolInv, Going
<1> DEFINE stay == {l \in Listener : ~Due(l)}
           come == {l \in Listener : Due(l)}
<1>20. /\ idle_listeners' = Keep(idle_listeners, stay)
       /\ connected_listeners' = connected_listeners \o Keep(idle_listeners, come)
       /\ restart' = restart /\ pool' = pool /\ wakeup' = wakeup /\ control' = control /\ idle' = idle
       /\ expiration' = expiration /\ pc = "expire" /\ pc' = "input" /\ ~IdleExpired
  BY DEF MarkListeners, Goto, listeners, timers, channels, queues
<1>21. /\ idle_listeners \in Seq(Listener) /\ connected_listeners \in Seq(Listener)
       /\ Distinct(idle_listeners) /\ Distinct(connected_listeners)
       /\ Elements(idle_listeners) \cap Elements(connected_listeners) = {} /\ Listener' = Listener
  BY <1>0, <1>20 DEF TypePool, Ownership, Listener
<1>27. \A l \in stay : ~Due(l)
  OBVIOUS
<1>28. stay \cap come = {} /\ \A l \in Listener : l \in stay \/ l \in come
  OBVIOUS
<1> HIDE DEF stay, come
<1>22. /\ idle_listeners' \in Seq(Listener) /\ Distinct(idle_listeners')
       /\ Elements(idle_listeners') = Elements(idle_listeners) \cap stay
  BY <1>20, <1>21, KeepProperties
<1>23. /\ Keep(idle_listeners, come) \in Seq(Listener) /\ Distinct(Keep(idle_listeners, come))
       /\ Elements(Keep(idle_listeners, come)) = Elements(idle_listeners) \cap come
  BY <1>21, KeepProperties
<1>24. Elements(idle_listeners) \subseteq Listener
  BY <1>21, ElementsIn
<1>25. /\ connected_listeners' \in Seq(Listener)
       /\ Elements(connected_listeners') = Elements(connected_listeners) \cup (Elements(idle_listeners) \cap come)
       /\ Distinct(connected_listeners')
  <2>1. Elements(connected_listeners) \cap Elements(Keep(idle_listeners, come)) = {}
    BY <1>21, <1>23
  <2> QED BY <1>20, <1>21, <1>23, <2>1, ElementsConcat
<1>26. /\ Elements(idle_listeners') \cap Elements(connected_listeners') = {}
       /\ Elements(idle_listeners') \cup Elements(connected_listeners')
             = Elements(idle_listeners) \cup Elements(connected_listeners)
  BY <1>21, <1>22, <1>24, <1>25, <1>28
<1>1. TypeControl'
  BY <1>0 DEF MarkListeners, Goto, signals, polling, queues, channels, timers, listeners, children,
     TypeControl, Block, Reason, Time
<1>2. TypeLists'
  BY <1>0 DEF MarkListeners, Goto, signals, polling, queues, channels, timers, listeners, children,
     TypeLists
<1>3. TypeCounts'
  BY <1>0 DEF MarkListeners, Goto, signals, polling, queues, channels, timers, listeners, children,
     TypeCounts
<1>4. TypeChildren'
  BY <1>0 DEF MarkListeners, Goto, signals, polling, queues, channels, timers, listeners, children,
     TypeChildren
<1>5. TypePool'
  BY <1>0, <1>20, <1>21, <1>22, <1>25 DEF TypePool, Early
<1>6. Beginning'
  BY <1>0 DEF MarkListeners, Goto, signals, polling, queues, channels, timers, listeners, children,
     Beginning, Early
<1>7. Watching'
  BY <1>0 DEF MarkListeners, Goto, signals, polling, queues, channels, timers, listeners, children,
     Watching, Watched, Listed
<1>8. exit' = "no" => Lists'
  BY <1>0 DEF MarkListeners, Goto, signals, polling, queues, channels, timers, listeners, children,
     Lists, Listed, Idling
<1>9. exit' = "no" => Counts'
  BY <1>0 DEF MarkListeners, Goto, signals, polling, queues, channels, timers, listeners, children,
     Counts, Listed
<1>10. exit' = "no" => Protocol'
  BY <1>0 DEF MarkListeners, Goto, signals, polling, queues, channels, timers, listeners, children,
     Protocol, Talk, Listed, Idling
<1>11. exit' = "no" => Ownership'
  <2>1. Idling' = Idling /\ \A l \in Listener : IsMain(l)' <=> IsMain(l)
    BY <1>20 DEF Idling, IsMain
  <2> QED BY <1>0, <1>20, <1>21, <1>22, <1>25, <1>26, <2>1 DEF Ownership, Early
<1>12. exit' = "no" => Times'
  <2>1. \A l \in Elements(idle_listeners') : IsTimer(l) => wakeup[l] # "past"
    <3>1. ASSUME NEW l \in stay, IsTimer(l) PROVE wakeup[l] # "past"
      BY <1>27, <3>1 DEF Due, IsTimer, IsSocket
    <3> QED BY <1>22, <3>1
  <2>2. ASSUME pool.idle_timeout, NEW w \in Idling PROVE expiration[w] = "future"
    <3>1. idle \in Seq(Worker) /\ Len(idle) \in Nat /\ DOMAIN idle = 1 .. Len(idle)
      BY <1>0, LenProperties DEF TypeLists
    <3>2. PICK j \in 1 .. Len(idle) : w = idle[j]
      BY <2>2, <3>1 DEF Idling
    <3>3. 1 \in 1 .. Len(idle) /\ 1 <= j
      BY <3>1, <3>2
    <3>4. idle # <<>> /\ Head(idle) = idle[1]
      BY <3>1, <3>3, EmptySeq, HeadTailProperties
    <3>5. expiration[idle[1]] = "future"
      BY <1>20, <2>2, <3>4 DEF IdleExpired
    <3> QED BY <1>0, <1>20, <2>2, <3>1, <3>2, <3>3, <3>5 DEF Times
  <2>3. Idling' = Idling /\ \A l : IsTimer(l)' <=> IsTimer(l)
    BY <1>20 DEF Idling, IsTimer
  <2> QED BY <1>20, <2>1, <2>2, <2>3 DEF Times, Early
<1>13. exit' \notin {"past", "data"}
  BY DEF MarkListeners, Goto
<1> QED BY <1>1, <1>2, <1>3, <1>4, <1>5, <1>6, <1>7, <1>8, <1>9, <1>10, <1>11, <1>12, <1>13 DEF PoolInv, Going

LEMMA ForkFailsKeeps ==
  ASSUME PoolInv, exit = "no", ForkFails
  PROVE  PoolInv'
<1>0. /\ TypeControl /\ TypeLists /\ TypeCounts /\ TypeChildren /\ TypePool
      /\ Beginning /\ Watching /\ Lists /\ Counts /\ Protocol /\ Ownership /\ Times
  BY DEF PoolInv, Going
<1>1. TypeControl'
  BY <1>0 DEF ForkFails, SpendTerminated, MayFork, signals, polling, queues, channels, timers, listeners, children,
     TypeControl, Block, Reason, Time
<1>2. TypeLists'
  BY <1>0 DEF ForkFails, SpendTerminated, MayFork, signals, polling, queues, channels, timers, listeners, children,
     TypeLists
<1>3. TypeCounts'
  BY <1>0 DEF ForkFails, SpendTerminated, MayFork, signals, polling, queues, channels, timers, listeners, children,
     TypeCounts
<1>4. TypeChildren'
  BY <1>0 DEF ForkFails, SpendTerminated, MayFork, signals, polling, queues, channels, timers, listeners, children,
     TypeChildren
<1>5. TypePool'
  BY <1>0 DEF ForkFails, SpendTerminated, MayFork, signals, polling, queues, channels, timers, listeners, children,
     TypePool, Listener, Early
<1>6. Beginning'
  BY <1>0 DEF ForkFails, SpendTerminated, MayFork, signals, polling, queues, channels, timers, listeners, children,
     Beginning, Early
<1>7. Watching'
  BY <1>0 DEF ForkFails, SpendTerminated, MayFork, signals, polling, queues, channels, timers, listeners, children,
     Watching, Watched, Listed
<1>8. exit' = "no" => Lists'
  BY <1>0 DEF ForkFails, SpendTerminated, MayFork, signals, polling, queues, channels, timers, listeners, children,
     Lists, Listed, Idling
<1>9. exit' = "no" => Counts'
  BY <1>0 DEF ForkFails, SpendTerminated, MayFork, signals, polling, queues, channels, timers, listeners, children,
     Counts, Listed
<1>10. exit' = "no" => Protocol'
  BY <1>0 DEF ForkFails, SpendTerminated, MayFork, signals, polling, queues, channels, timers, listeners, children,
     Protocol, Talk, Listed, Idling
<1>11. exit' = "no" => Ownership'
  BY <1>0 DEF ForkFails, SpendTerminated, MayFork, signals, polling, queues, channels, timers, listeners, children,
     Ownership, Listener, Idling, IsMain, Early
<1>12. exit' = "no" => Times'
  BY <1>0 DEF ForkFails, SpendTerminated, MayFork, signals, polling, queues, channels, timers, listeners, children,
     Times, Idling, IsTimer, Early
<1>13. exit' \notin {"past", "data"}
  BY DEF ForkFails, SpendTerminated, MayFork
<1> QED BY <1>1, <1>2, <1>3, <1>4, <1>5, <1>6, <1>7, <1>8, <1>9, <1>10, <1>11, <1>12, <1>13 DEF PoolInv, Going

LEMMA EndServeKeeps ==
  ASSUME PoolInv, exit = "no", EndServe
  PROVE  PoolInv'
<1>0. /\ TypeControl /\ TypeLists /\ TypeCounts /\ TypeChildren /\ TypePool
      /\ Beginning /\ Watching /\ Lists /\ Counts /\ Protocol /\ Ownership /\ Times
  BY DEF PoolInv, Going
<1>1. TypeControl'
  <2>1. wait' \in {"unset", "now", "future"}
    <3>1. wait' \in Wakeups \cup {"unset"} /\ pc = "serve" /\ ~CanConnect /\ ~MayFork /\ ~MayTerminate
      BY DEF EndServe
    <3>2. ~shutdown /\ WorkerNeeded => ForkWakeup = "future"
      BY <3>1 DEF MayFork
    <3>3. Excessive => timer.exit \in {"unset", "future"}
      BY <3>1 DEF MayTerminate
    <3>4. ASSUME NEW l \in Listener, IsTimer(l), \E i \in DOMAIN idle_listeners : idle_listeners[i] = l
          PROVE  wakeup[l] \in {"unset", "now", "future"}
      <4>1. l \in Elements(idle_listeners)
        BY <3>4 DEF Elements
      <4>2. wakeup \in [Listener -> Time]
        BY <1>0, <3>1 DEF TypePool, Early
      <4> QED BY <1>0, <3>1, <3>4, <4>1, <4>2 DEF Times, Time, Early
    <3>5. ASSUME NEW w \in FirstIdle(1), pool.idle_timeout PROVE expiration[w] = "future"
      <4>1. w \in Idling
        BY DEF FirstIdle, Idling
      <4> QED BY <1>0, <3>1, <3>5, <4>1 DEF Times
    <3> QED BY <3>1, <3>2, <3>3, <3>4, <3>5 DEF Wakeups
  <2>2. timer' \in [fork : Time, fork_error : Time, exit : Time]
    BY <1>0 DEF EndServe, TypeControl, Time
  <2> QED BY <1>0, <2>1, <2>2 DEF EndServe, Goto, TypeControl, Block, Reason, signals, polling
<1>2. TypeLists'
  BY <1>0 DEF EndServe, Goto, signals, polling, queues, channels, timers, listeners, children,
     TypeLists
<1>3. TypeCounts'
  BY <1>0 DEF EndServe, Goto, signals, polling, queues, channels, timers, listeners, children,
     TypeCounts
<1>4. TypeChildren'
  BY <1>0 DEF EndServe, Goto, signals, polling, queues, channels, timers, listeners, children,
     TypeChildren
<1>5. TypePool'
  BY <1>0 DEF EndServe, Goto, signals, polling, queues, channels, timers, listeners, children,
     TypePool, Listener, Early
<1>6. Beginning'
  BY <1>0 DEF EndServe, Goto, signals, polling, queues, channels, timers, listeners, children,
     Beginning, Early
<1>7. Watching'
  BY <1>0 DEF EndServe, Goto, signals, polling, queues, channels, timers, listeners, children,
     Watching, Watched, Listed
<1>8. exit' = "no" => Lists'
  BY <1>0 DEF EndServe, Goto, signals, polling, queues, channels, timers, listeners, children,
     Lists, Listed, Idling
<1>9. exit' = "no" => Counts'
  BY <1>0 DEF EndServe, Goto, signals, polling, queues, channels, timers, listeners, children,
     Counts, Listed
<1>10. exit' = "no" => Protocol'
  BY <1>0 DEF EndServe, Goto, signals, polling, queues, channels, timers, listeners, children,
     Protocol, Talk, Listed, Idling
<1>11. exit' = "no" => Ownership'
  BY <1>0 DEF EndServe, Goto, signals, polling, queues, channels, timers, listeners, children,
     Ownership, Listener, Idling, IsMain, Early
<1>12. exit' = "no" => Times'
  BY <1>0 DEF EndServe, Goto, signals, polling, queues, channels, timers, listeners, children,
     Times, Idling, IsTimer, Early
<1>13. exit' \notin {"past", "data"}
  BY DEF EndServe, Goto
<1> QED BY <1>1, <1>2, <1>3, <1>4, <1>5, <1>6, <1>7, <1>8, <1>9, <1>10, <1>11, <1>12, <1>13 DEF PoolInv, Going

LEMMA BeginPollKeeps ==
  ASSUME PoolInv, exit = "no", BeginPoll
  PROVE  PoolInv'
<1>0. /\ TypeControl /\ TypeLists /\ TypeCounts /\ TypeChildren /\ TypePool
      /\ Beginning /\ Watching /\ Lists /\ Counts /\ Protocol /\ Ownership /\ Times
  BY DEF PoolInv, Going
<1>20. /\ PollWorkers \in Seq(Entry) /\ Elements(PollWorkers) = Watched
       /\ poll_workers' \in {PollWorkers, poll_workers}
       /\ refresh_needed' = FALSE /\ (refresh_needed => poll_workers' = PollWorkers)
       /\ (~refresh_needed => poll_workers' = poll_workers) /\ revents' = revents
       /\ control' = control /\ error' = error /\ workers' = workers
  BY PollWorkersWatch DEF BeginPoll, queues, channels
<1>1. TypeControl'
  BY <1>0 DEF BeginPoll, Goto, signals, polling, queues, channels, timers, listeners, children,
     TypeControl, Block, Reason, Time
<1>2. TypeLists'
  BY <1>0, <1>20 DEF BeginPoll, queues, channels, TypeLists
<1>3. TypeCounts'
  BY <1>0 DEF BeginPoll, Goto, signals, polling, queues, channels, timers, listeners, children,
     TypeCounts
<1>4. TypeChildren'
  BY <1>0 DEF BeginPoll, Goto, signals, polling, queues, channels, timers, listeners, children,
     TypeChildren
<1>5. TypePool'
  BY <1>0 DEF BeginPoll, Goto, signals, polling, queues, channels, timers, listeners, children,
     TypePool, Listener, Early
<1>6. Beginning'
  BY <1>0 DEF BeginPoll, Goto, signals, polling, queues, channels, timers, listeners, children,
     Beginning, Early
<1>7. Watching'
  <2>1. Listed' = Listed /\ Watched' = Watched
    BY <1>20 DEF Listed, Watched
  <2>2. refresh_needed \in BOOLEAN
    BY <1>0 DEF TypeControl
  <2> QED BY <1>0, <1>20, <2>1, <2>2 DEF Watching
<1>8. exit' = "no" => Lists'
  BY <1>0 DEF BeginPoll, Goto, signals, polling, queues, channels, timers, listeners, children,
     Lists, Listed, Idling
<1>9. exit' = "no" => Counts'
  BY <1>0 DEF BeginPoll, Goto, signals, polling, queues, channels, timers, listeners, children,
     Counts, Listed
<1>10. exit' = "no" => Protocol'
  BY <1>0 DEF BeginPoll, Goto, signals, polling, queues, channels, timers, listeners, children,
     Protocol, Talk, Listed, Idling
<1>11. exit' = "no" => Ownership'
  BY <1>0 DEF BeginPoll, Goto, signals, polling, queues, channels, timers, listeners, children,
     Ownership, Listener, Idling, IsMain, Early
<1>12. exit' = "no" => Times'
  BY <1>0 DEF BeginPoll, Goto, signals, polling, queues, channels, timers, listeners, children,
     Times, Idling, IsTimer, Early
<1>13. exit' \notin {"past", "data"}
  BY DEF BeginPoll, Goto
<1> QED BY <1>1, <1>2, <1>3, <1>4, <1>5, <1>6, <1>7, <1>8, <1>9, <1>10, <1>11, <1>12, <1>13 DEF PoolInv, Going

LEMMA SkipPollKeeps ==
  ASSUME PoolInv, exit = "no", SkipPoll
  PROVE  PoolInv'
<1>0. /\ TypeControl /\ TypeLists /\ TypeCounts /\ TypeChildren /\ TypePool
      /\ Beginning /\ Watching /\ Lists /\ Counts /\ Protocol /\ Ownership /\ Times
  BY DEF PoolInv, Going
<1>1. TypeControl'
  BY <1>0 DEF SkipPoll, Goto, signals, polling, queues, channels, timers, listeners, children,
     TypeControl, Block, Reason, Time
<1>2. TypeLists'
  BY <1>0 DEF SkipPoll, Goto, signals, polling, queues, channels, timers, listeners, children,
     TypeLists
<1>3. TypeCounts'
  BY <1>0 DEF SkipPoll, Goto, signals, polling, queues, channels, timers, listeners, children,
     TypeCounts
<1>4. TypeChildren'
  BY <1>0 DEF SkipPoll, Goto, signals, polling, queues, channels, timers, listeners, children,
     TypeChildren
<1>5. TypePool'
  BY <1>0 DEF SkipPoll, Goto, signals, polling, queues, channels, timers, listeners, children,
     TypePool, Listener, Early
<1>6. Beginning'
  BY <1>0 DEF SkipPoll, Goto, signals, polling, queues, channels, timers, listeners, children,
     Beginning, Early
<1>7. Watching'
  BY <1>0 DEF SkipPoll, Goto, signals, polling, queues, channels, timers, listeners, children,
     Watching, Watched, Listed
<1>8. exit' = "no" => Lists'
  BY <1>0 DEF SkipPoll, Goto, signals, polling, queues, channels, timers, listeners, children,
     Lists, Listed, Idling
<1>9. exit' = "no" => Counts'
  BY <1>0 DEF SkipPoll, Goto, signals, polling, queues, channels, timers, listeners, children,
     Counts, Listed
<1>10. exit' = "no" => Protocol'
  BY <1>0 DEF SkipPoll, Goto, signals, polling, queues, channels, timers, listeners, children,
     Protocol, Talk, Listed, Idling
<1>11. exit' = "no" => Ownership'
  BY <1>0 DEF SkipPoll, Goto, signals, polling, queues, channels, timers, listeners, children,
     Ownership, Listener, Idling, IsMain, Early
<1>12. exit' = "no" => Times'
  BY <1>0 DEF SkipPoll, Goto, signals, polling, queues, channels, timers, listeners, children,
     Times, Idling, IsTimer, Early
<1>13. exit' \notin {"past", "data"}
  BY DEF SkipPoll, Goto
<1> QED BY <1>1, <1>2, <1>3, <1>4, <1>5, <1>6, <1>7, <1>8, <1>9, <1>10, <1>11, <1>12, <1>13 DEF PoolInv, Going

LEMMA PollReturnsKeeps ==
  ASSUME PoolInv, exit = "no", PollReturns
  PROVE  PoolInv'
<1>0. /\ TypeControl /\ TypeLists /\ TypeCounts /\ TypeChildren /\ TypePool
      /\ Beginning /\ Watching /\ Lists /\ Counts /\ Protocol /\ Ownership /\ Times
  BY DEF PoolInv, Going
<1>1. TypeControl'
  BY <1>0 DEF PollReturns, Goto, signals, polling, queues, channels, timers, listeners, children,
     TypeControl, Block, Reason, Time
<1>2. TypeLists'
  BY <1>0 DEF PollReturns, Goto, signals, polling, queues, channels, timers, listeners, children,
     TypeLists
<1>3. TypeCounts'
  BY <1>0 DEF PollReturns, Goto, signals, polling, queues, channels, timers, listeners, children,
     TypeCounts
<1>4. TypeChildren'
  BY <1>0 DEF PollReturns, Goto, signals, polling, queues, channels, timers, listeners, children,
     TypeChildren
<1>5. TypePool'
  BY <1>0 DEF PollReturns, Goto, signals, polling, queues, channels, timers, listeners, children,
     TypePool, Listener, Early
<1>6. Beginning'
  BY <1>0 DEF PollReturns, Goto, signals, polling, queues, channels, timers, listeners, children,
     Beginning, Early
<1>7. Watching'
  <2>1. /\ pc = "polling" /\ revents' = ReadyEntries /\ pc' = "top" /\ control' = control /\ error' = error
        /\ workers' = workers /\ poll_workers' = poll_workers /\ refresh_needed' = refresh_needed
    BY DEF PollReturns, Goto, queues, channels
  <2>2. Listed' = Listed /\ Watched' = Watched
    BY <2>1 DEF Listed, Watched
  <2>3. ASSUME NEW e \in ReadyEntries, e[2] # "listener" PROVE e \in Watched
    <3>1. e \in Elements(poll_workers)
      BY <2>3 DEF ReadyEntries, Elements
    <3> QED BY <1>0, <2>1, <3>1 DEF Watching
  <2> QED BY <1>0, <2>1, <2>2, <2>3 DEF Watching
<1>8. exit' = "no" => Lists'
  BY <1>0 DEF PollReturns, Goto, signals, polling, queues, channels, timers, listeners, children,
     Lists, Listed, Idling
<1>9. exit' = "no" => Counts'
  BY <1>0 DEF PollReturns, Goto, signals, polling, queues, channels, timers, listeners, children,
     Counts, Listed
<1>10. exit' = "no" => Protocol'
  BY <1>0 DEF PollReturns, Goto, signals, polling, queues, channels, timers, listeners, children,
     Protocol, Talk, Listed, Idling
<1>11. exit' = "no" => Ownership'
  BY <1>0 DEF PollReturns, Goto, signals, polling, queues, channels, timers, listeners, children,
     Ownership, Listener, Idling, IsMain, Early
<1>12. exit' = "no" => Times'
  BY <1>0 DEF PollReturns, Goto, signals, polling, queues, channels, timers, listeners, children,
     Times, Idling, IsTimer, Early
<1>13. exit' \notin {"past", "data"}
  BY DEF PollReturns, Goto
<1> QED BY <1>1, <1>2, <1>3, <1>4, <1>5, <1>6, <1>7, <1>8, <1>9, <1>10, <1>11, <1>12, <1>13 DEF PoolInv, Going

LEMMA CollectDeadKeeps ==
  ASSUME PoolInv, exit = "no", CollectDead
  PROVE  PoolInv'
<1>0. /\ TypeControl /\ TypeLists /\ TypeCounts /\ TypeChildren /\ TypePool
      /\ Beginning /\ Watching /\ Lists /\ Counts /\ Protocol /\ Ownership /\ Times
  BY DEF PoolInv, Going
<1> DEFINE dead == {w \in Listed : Dead(w)}
           idling == dead \cap Idling
<1>20. /\ workers' = Keep(workers, Worker \ dead) /\ idle' = Keep(idle, Worker \ dead)
       /\ assigned' = assigned \ dead /\ main' = main \ dead
       /\ count' = [idle |-> count.idle - Cardinality(idling),
                    unassigned |-> count.unassigned - Cardinality(dead \ assigned),
                    total |-> count.total - Cardinality(dead)]
       /\ restart' = [w \in Worker |-> IF w \in dead THEN Nil ELSE restart[w]]
       /\ proc' = [w \in Worker |-> IF w \in dead THEN "none" ELSE proc[w]]
       /\ expiration' = [w \in Worker |-> IF w \in dead THEN "unset" ELSE expiration[w]]
       /\ terminated' = Cardinality(dead \cap (assigned \cup idling))
       /\ pc = "input" /\ pc' = "serve" /\ exit' = exit
  BY DEF CollectDead, Goto
<1>21. /\ pool' = pool /\ control' = control /\ error' = error /\ poll_workers' = poll_workers
       /\ refresh_needed' = refresh_needed /\ revents' = revents /\ wakeup' = wakeup
       /\ idle_listeners' = idle_listeners /\ connected_listeners' = connected_listeners
       /\ commands' = commands /\ statuses' = statuses /\ shutdown' \in {shutdown, TRUE}
  BY DEF CollectDead, InitiateShutdown, polling, channels
<1>22. dead \subseteq Listed /\ \A w \in dead : w \notin control /\ w \notin error /\ proc[w] = "zombie"
  BY DEF Dead
<1>23. IsFiniteSet(dead) /\ IsFiniteSet(idling) /\ IsFiniteSet(dead \ assigned)
       /\ IsFiniteSet(dead \cap (assigned \cup idling))
  <2>1. IsFiniteSet(dead)
    BY <1>22, CountsAreTrue, FS_Subset
  <2> HIDE DEF dead
  <2> QED BY <2>1, FS_Intersection, FS_Difference
<1> HIDE DEF dead, idling
<1>24. /\ workers' \in Seq(Worker) /\ Distinct(workers') /\ Listed' = Listed \ dead
       /\ idle' \in Seq(Worker) /\ Distinct(idle') /\ Idling' = Idling \ dead
  <2>1. /\ Listed = Elements(workers) /\ Listed' = Elements(workers')
        /\ Idling = Elements(idle) /\ Idling' = Elements(idle')
    BY DEF Listed, Idling, Elements
  <2>2. /\ workers \in Seq(Worker) /\ idle \in Seq(Worker) /\ Distinct(workers) /\ Distinct(idle)
        /\ Listed \subseteq Worker /\ Idling \subseteq Worker
    BY <1>0, CountsAreTrue DEF TypeLists, Lists
  <2>3. /\ workers' \in Seq(Worker) /\ Distinct(workers') /\ Elements(workers') = Elements(workers) \cap (Worker \ dead)
    BY <1>20, <2>2, KeepProperties
  <2>4. /\ idle' \in Seq(Worker) /\ Distinct(idle') /\ Elements(idle') = Elements(idle) \cap (Worker \ dead)
    BY <1>20, <2>2, KeepProperties
  <2> QED BY <2>1, <2>2, <2>3, <2>4
<1>25. /\ Cardinality(Listed') = count.total - Cardinality(dead)
       /\ Cardinality(Idling') = count.idle - Cardinality(idling)
       /\ Cardinality(Listed' \ assigned') = count.unassigned - Cardinality(dead \ assigned)
       /\ Cardinality(Listed') \in Nat /\ Cardinality(Idling') \in Nat /\ Cardinality(Listed' \ assigned') \in Nat
       /\ Cardinality(dead) \in Nat
  <2>1. /\ IsFiniteSet(Listed) /\ IsFiniteSet(Idling) /\ IsFiniteSet(Listed \ assigned)
        /\ count.total = Cardinality(Listed) /\ count.idle = Cardinality(Idling)
        /\ count.unassigned = Cardinality(Listed \ assigned)
    BY CountsAreTrue
  <2>2. /\ Listed \cap dead = dead /\ Idling \cap dead = idling
        /\ (Listed \ assigned) \cap (dead \ assigned) = dead \ assigned
        /\ Listed' \ assigned' = (Listed \ assigned) \ (dead \ assigned)
    BY <1>20, <1>22, <1>24 DEF idling
  <2>9. Cardinality(Listed \ dead) = Cardinality(Listed) - Cardinality(Listed \cap dead) /\ IsFiniteSet(Listed \ dead)
    BY <2>1, FS_Difference
  <2>3. Cardinality(Listed \ dead) = Cardinality(Listed) - Cardinality(dead) /\ IsFiniteSet(Listed \ dead)
    BY <2>2, <2>9
  <2>8. Cardinality(Idling \ dead) = Cardinality(Idling) - Cardinality(Idling \cap dead) /\ IsFiniteSet(Idling \ dead)
    BY <2>1, FS_Difference
  <2>4. Cardinality(Idling \ dead) = Cardinality(Idling) - Cardinality(idling) /\ IsFiniteSet(Idling \ dead)
    BY <2>2, <2>8
  <2> DEFINE U == Listed \ assigned
             d == dead \ assigned
  <2>6. IsFiniteSet(U) /\ U \cap d = d
    BY <2>1, <2>2
  <2> HIDE DEF U, d
  <2>10. Cardinality(U \ d) = Cardinality(U) - Cardinality(U \cap d) /\ IsFiniteSet(U \ d)
    BY <2>6, FS_Difference
  <2>5. Cardinality(U \ d) = Cardinality(U) - Cardinality(d) /\ IsFiniteSet(U \ d)
    BY <2>6, <2>10
  <2>7. Cardinality(U \ d) \in Nat /\ Cardinality(Listed \ dead) \in Nat /\ Cardinality(Idling \ dead) \in Nat
        /\ Cardinality(dead) \in Nat
    BY <1>23, <2>3, <2>4, <2>5, FS_CardinalityType
  <2> QED BY <1>24, <2>1, <2>2, <2>3, <2>4, <2>5, <2>7 DEF U, d
<1>1. TypeControl'
  <2>1. terminated' \in Nat /\ shutdown' \in BOOLEAN
    BY <1>0, <1>20, <1>21, <1>23, FS_CardinalityType DEF TypeControl
  <2>2. use_fork_error' \in BOOLEAN
    BY DEF CollectDead
  <2> QED BY <1>0, <1>20, <1>21, <2>1, <2>2 DEF CollectDead, TypeControl, Block, signals
<1>2. TypeLists'
  <2>1. expiration' \in [Worker -> Time]
    BY <1>0, <1>20 DEF TypeLists, Time
  <2> QED BY <1>0, <1>20, <1>21, <1>24, <2>1 DEF TypeLists
<1>3. TypeCounts'
  BY <1>20, <1>25 DEF TypeCounts
<1>4. TypeChildren'
  <2>1. sigterm' \subseteq Worker
    BY <1>0 DEF CollectDead, InitiateShutdown, TypeChildren
  <2> QED BY <1>0, <1>20, <1>21, <2>1 DEF TypeChildren
<1>5. TypePool'
  <2>1. restart' \in [Worker -> Listener \cup {Nil}]
    BY <1>0, <1>20 DEF TypePool
  <2> QED BY <1>0, <1>20, <1>21, <2>1 DEF TypePool, Listener, Early
<1>6. Beginning'
  BY <1>0 DEF CollectDead, Goto, InitiateShutdown, signals, polling, queues, channels, timers, listeners, children,
     Beginning, Early
<1>7. Watching'
  <2>1. Watched' = Watched /\ control' \subseteq Listed' /\ error' \subseteq Listed'
    BY <1>0, <1>21, <1>22, <1>24 DEF Watched, Watching
  <2> QED BY <1>0, <1>20, <1>21, <2>1 DEF Watching
<1>8. exit' = "no" => Lists'
  BY <1>0, <1>20, <1>22, <1>24 DEF Lists
<1>9. exit' = "no" => Counts'
  <2>1. Listed' = Elements(workers') /\ Idling' = Elements(idle')
    BY DEF Listed, Idling, Elements
  <2>2. Len(workers') = Cardinality(Listed') /\ Len(idle') = Cardinality(Idling')
    BY <1>24, <2>1, ElementsCount
  <2>3. count.total <= pool.max_fork /\ pool.max_fork \in Nat /\ count.total \in Nat
    BY <1>0 DEF Counts, TypePool, TypeCounts
  <2>4. count.total - Cardinality(dead) <= pool.max_fork
    BY <1>25, <2>3
  <2> QED BY <1>20, <1>21, <1>25, <2>2, <2>4 DEF Counts
<1>10. exit' = "no" => Protocol'
  <2>1. ASSUME NEW w \in Worker PROVE Talk(w)'
    <3>1. Talk(w) /\ (proc'[w] = proc[w] \/ proc'[w] = "none") /\ (w \in dead <=> proc'[w] = "none" /\ proc[w] # "none")
      BY <1>0, <1>20, <1>22 DEF Protocol
    <3>2. (w \in Idling' <=> w \in Idling /\ w \notin dead) /\ (w \in Listed' <=> w \in Listed /\ w \notin dead)
      BY <1>24
    <3>3. w \notin Listed => proc[w] = "none"
      BY <1>0 DEF Lists
    <3> QED BY <1>21, <3>1, <3>2, <3>3 DEF Talk
  <2> QED BY <2>1 DEF Protocol
<1>11. exit' = "no" => Ownership'
  <2>1. \A w \in Worker : restart'[w] = restart[w]
    BY <1>0, <1>20, <1>22 DEF Ownership, TypePool
  <2>2. Listener' = Listener /\ \A l : IsMain(l)' <=> IsMain(l)
    BY <1>21 DEF Listener, IsMain
  <2> QED BY <1>0, <1>20, <1>21, <1>24, <2>1, <2>2 DEF Ownership, Early
<1>12. exit' = "no" => Times'
  <2>1. \A w \in Idling' : w \in Idling /\ w \notin dead /\ w \in Worker
    BY <1>24, CountsAreTrue
  <2>2. \A l : IsTimer(l)' <=> IsTimer(l)
    BY <1>21 DEF IsTimer
  <2> QED BY <1>0, <1>20, <1>21, <2>1, <2>2 DEF Times, Early
<1>13. exit' \notin {"past", "data"}
  BY DEF CollectDead, Goto, InitiateShutdown
<1> QED BY <1>1, <1>2, <1>3, <1>4, <1>5, <1>6, <1>7, <1>8, <1>9, <1>10, <1>11, <1>12, <1>13 DEF PoolInv, Going

LEMMA ReadErrorKeeps ==
  ASSUME PoolInv, exit = "no", NEW w \in Worker, ReadError(w), pc = "input"
  PROVE  PoolInv'
<1>0. /\ TypeControl /\ TypeLists /\ TypeCounts /\ TypeChildren /\ TypePool
      /\ Beginning /\ Watching /\ Lists /\ Counts /\ Protocol /\ Ownership /\ Times
  BY DEF PoolInv, Going
<1>1. TypeControl'
  BY <1>0 DEF ReadError, signals, polling, queues, channels, timers, listeners, children,
     TypeControl, Block, Reason, Time
<1>2. TypeLists'
  BY <1>0 DEF ReadError, signals, polling, queues, channels, timers, listeners, children,
     TypeLists
<1>3. TypeCounts'
  BY <1>0 DEF ReadError, signals, polling, queues, channels, timers, listeners, children,
     TypeCounts
<1>4. TypeChildren'
  BY <1>0 DEF ReadError, signals, polling, queues, channels, timers, listeners, children,
     TypeChildren
<1>5. TypePool'
  BY <1>0 DEF ReadError, signals, polling, queues, channels, timers, listeners, children,
     TypePool, Listener, Early
<1>6. Beginning'
  BY <1>0 DEF ReadError, signals, polling, queues, channels, timers, listeners, children,
     Beginning, Early
<1>7. Watching'
  <2>1. /\ error' = error \ {w} /\ refresh_needed' = TRUE /\ revents' = revents \ {<<w, "error">>}
        /\ workers' = workers /\ control' = control
    BY DEF ReadError, queues
  <2>2. Listed' = Listed
    BY <2>1 DEF Listed
  <2>3. ASSUME NEW e \in Watched, e # <<w, "error">> PROVE e \in Watched'
    <3>1. CASE e \in control \X {"control"}
      BY <2>1, <3>1 DEF Watched
    <3>2. CASE e \in error \X {"error"}
      <4>1. PICK v \in error : e = <<v, "error">>
        BY <3>2
      <4>2. v \in error' 
        BY <2>1, <2>3, <4>1
      <4> QED BY <4>1, <4>2 DEF Watched
    <3> QED BY <2>3, <3>1, <3>2 DEF Watched
  <2>4. pc' = pc /\ pc = "input"
    BY DEF ReadError
  <2> QED BY <1>0, <2>1, <2>2, <2>3, <2>4 DEF Watching
<1>8. exit' = "no" => Lists'
  BY <1>0 DEF ReadError, signals, polling, queues, channels, timers, listeners, children,
     Lists, Listed, Idling
<1>9. exit' = "no" => Counts'
  BY <1>0 DEF ReadError, signals, polling, queues, channels, timers, listeners, children,
     Counts, Listed
<1>10. exit' = "no" => Protocol'
  BY <1>0 DEF ReadError, signals, polling, queues, channels, timers, listeners, children,
     Protocol, Talk, Listed, Idling
<1>11. exit' = "no" => Ownership'
  BY <1>0 DEF ReadError, signals, polling, queues, channels, timers, listeners, children,
     Ownership, Listener, Idling, IsMain, Early
<1>12. exit' = "no" => Times'
  BY <1>0 DEF ReadError, signals, polling, queues, channels, timers, listeners, children,
     Times, Idling, IsTimer, Early
<1>13. exit' \notin {"past", "data"}
  BY DEF ReadError
<1> QED BY <1>1, <1>2, <1>3, <1>4, <1>5, <1>6, <1>7, <1>8, <1>9, <1>10, <1>11, <1>12, <1>13 DEF PoolInv, Going

LEMMA CreateWorkerKeeps ==
  ASSUME PoolInv, exit = "no", NEW w \in Worker, CreateWorker(w)
  PROVE  PoolInv'
<1>0. /\ TypeControl /\ TypeLists /\ TypeCounts /\ TypeChildren /\ TypePool
      /\ Beginning /\ Watching /\ Lists /\ Counts /\ Protocol /\ Ownership /\ Times
  BY DEF PoolInv, Going
<1>20. /\ w \notin Listed /\ workers' = Append(workers, w) /\ idle' = idle /\ assigned' = assigned
       /\ count' = [count EXCEPT !.unassigned = @ + 1, !.total = @ + 1] /\ pool' = pool
       /\ proc' = [proc EXCEPT ![w] = "prepare"] /\ MayFork
       /\ commands' = [commands EXCEPT ![w] = <<>>] /\ statuses' = [statuses EXCEPT ![w] = <<>>]
  BY DEF CreateWorker
<1>21. /\ workers' \in Seq(Worker) /\ Listed' = Listed \cup {w} /\ Distinct(workers')
       /\ Len(workers') = Len(workers) + 1 /\ Idling' = Idling
  <2>1. Listed = Elements(workers) /\ Listed' = Elements(workers') /\ Idling' = Idling
    BY <1>20 DEF Listed, Idling, Elements
  <2>2. workers \in Seq(Worker) /\ Distinct(workers)
    BY <1>0 DEF TypeLists, Lists
  <2> QED BY <1>20, <2>1, <2>2, ElementsAppend, AppendProperties
<1>22. count.total \in Nat /\ count.unassigned \in Nat /\ count.idle \in Nat /\ count.total < pool.max_fork
       /\ pool.max_fork \in Nat
  BY <1>0, <1>20 DEF TypeCounts, MayFork, WorkerNeeded, TypePool
<1>23. /\ count'.total = count.total + 1 /\ count'.unassigned = count.unassigned + 1 /\ count'.idle = count.idle
  BY <1>0, <1>20 DEF TypeCounts
<1>1. TypeControl'
  <2>1. terminated' \in Nat
    BY <1>0 DEF CreateWorker, SpendTerminated, TypeControl
  <2>2. timer' \in [fork : Time, fork_error : Time, exit : Time]
    BY <1>0 DEF CreateWorker, TypeControl, Time
  <2> QED BY <1>0, <2>1, <2>2 DEF CreateWorker, TypeControl, signals
<1>2. TypeLists'
  BY <1>0 DEF CreateWorker, SpendTerminated, MayFork, WorkerNeeded, signals, polling, queues, channels, timers, listeners, children,
     TypeLists
<1>3. TypeCounts'
  <2>1. count' = [idle |-> count.idle, unassigned |-> count.unassigned + 1, total |-> count.total + 1]
    BY <1>0, <1>20 DEF TypeCounts
  <2>2. count.total + 1 \in Nat /\ count.unassigned + 1 \in Nat
    BY <1>22
  <2> QED BY <1>22, <2>1, <2>2 DEF TypeCounts
<1>4. TypeChildren'
  BY <1>0 DEF CreateWorker, SpendTerminated, MayFork, WorkerNeeded, signals, polling, queues, channels, timers, listeners, children,
     TypeChildren
<1>5. TypePool'
  BY <1>0 DEF CreateWorker, SpendTerminated, MayFork, WorkerNeeded, signals, polling, queues, channels, timers, listeners, children,
     TypePool, Listener, Early
<1>6. Beginning'
  BY <1>0 DEF CreateWorker, SpendTerminated, MayFork, WorkerNeeded, signals, polling, queues, channels, timers, listeners, children,
     Beginning, Early
<1>7. Watching'
  BY <1>0 DEF CreateWorker, SpendTerminated, MayFork, WorkerNeeded, signals, polling, queues, channels, timers, listeners, children,
     Watching, Watched, Listed
<1>8. exit' = "no" => Lists'
  BY <1>0, <1>20, <1>21 DEF Lists, TypeChildren
<1>9. exit' = "no" => Counts'
  <2>1. w \notin assigned /\ IsFiniteSet(Listed \ assigned) /\ count.unassigned = Cardinality(Listed \ assigned)
    BY <1>0, <1>20, CountsAreTrue DEF Lists
  <2>2. Listed' \ assigned' = (Listed \ assigned) \cup {w} /\ w \notin Listed \ assigned
    BY <1>20, <1>21, <2>1
  <2>3. Cardinality((Listed \ assigned) \cup {w}) = Cardinality(Listed \ assigned) + 1
    BY <2>1, <2>2, FS_AddElement
  <2>4. count.total = Len(workers) /\ count.idle = Len(idle)
    BY <1>0 DEF Counts
  <2>5. count.total + 1 <= pool.max_fork
    BY <1>22
  <2>6. count'.total = Len(workers') /\ count'.idle = Len(idle') /\ count'.total <= pool'.max_fork
    BY <1>20, <1>21, <1>23, <2>4, <2>5
  <2>7. count'.unassigned = Cardinality(Listed' \ assigned')
    BY <1>23, <2>1, <2>2, <2>3
  <2> QED BY <2>6, <2>7 DEF Counts
<1>10. exit' = "no" => Protocol'
  <2>0. w \notin Idling
    BY <1>0, <1>20 DEF Lists
  <2>1. ASSUME NEW v \in Worker PROVE Talk(v)'
    <3>1. CASE v = w
      <4>1. proc'[v] = "prepare" /\ statuses'[v] = <<>> /\ commands'[v] = <<>>
        BY <1>0, <1>20, <3>1 DEF TypeChildren
      <4> QED BY <1>21, <2>0, <3>1, <4>1 DEF Talk
    <3>2. CASE v # w
      <4>1. proc'[v] = proc[v] /\ statuses'[v] = statuses[v] /\ commands'[v] = commands[v] /\ Talk(v)
        BY <1>0, <1>20, <3>2 DEF TypeChildren, Protocol
      <4> QED BY <1>21, <3>2, <4>1 DEF Talk
    <3> QED BY <3>1, <3>2
  <2> QED BY <2>1 DEF Protocol
<1>11. exit' = "no" => Ownership'
  BY <1>0 DEF CreateWorker, SpendTerminated, MayFork, WorkerNeeded, signals, polling, queues, channels, timers, listeners, children,
     Ownership, Listener, Idling, IsMain, Early
<1>12. exit' = "no" => Times'
  BY <1>0 DEF CreateWorker, SpendTerminated, MayFork, WorkerNeeded, signals, polling, queues, channels, timers, listeners, children,
     Times, Idling, IsTimer, Early
<1>13. exit' \notin {"past", "data"}
  BY DEF CreateWorker, SpendTerminated, MayFork, WorkerNeeded
<1> QED BY <1>1, <1>2, <1>3, <1>4, <1>5, <1>6, <1>7, <1>8, <1>9, <1>10, <1>11, <1>12, <1>13 DEF PoolInv, Going

LEMMA ChildPreparedKeeps ==
  ASSUME PoolInv, exit = "no", NEW w \in Worker, ChildPrepared(w)
  PROVE  PoolInv'
<1>0. /\ TypeControl /\ TypeLists /\ TypeCounts /\ TypeChildren /\ TypePool
      /\ Beginning /\ Watching /\ Lists /\ Counts /\ Protocol /\ Ownership /\ Times
  BY DEF PoolInv, Going
<1>1. TypeControl'
  BY <1>0 DEF ChildPrepared, MasterUnchanged, ChildStep, Moves, Says, signals, polling, queues, channels, timers, listeners, children,
     TypeControl, Block, Reason, Time
<1>2. TypeLists'
  BY <1>0 DEF ChildPrepared, MasterUnchanged, ChildStep, Moves, Says, signals, polling, queues, channels, timers, listeners, children,
     TypeLists
<1>3. TypeCounts'
  BY <1>0 DEF ChildPrepared, MasterUnchanged, ChildStep, Moves, Says, signals, polling, queues, channels, timers, listeners, children,
     TypeCounts
<1>4. TypeChildren'
  BY <1>0 DEF ChildPrepared, MasterUnchanged, ChildStep, Moves, Says, signals, polling, queues, channels, timers, listeners, children,
     TypeChildren
<1>5. TypePool'
  BY <1>0 DEF ChildPrepared, MasterUnchanged, ChildStep, Moves, Says, signals, polling, queues, channels, timers, listeners, children,
     TypePool, Listener, Early
<1>6. Beginning'
  BY <1>0 DEF ChildPrepared, MasterUnchanged, ChildStep, Moves, Says, signals, polling, queues, channels, timers, listeners, children,
     Beginning, Early
<1>7. Watching'
  BY <1>0 DEF ChildPrepared, MasterUnchanged, ChildStep, Moves, Says, signals, polling, queues, channels, timers, listeners, children,
     Watching, Watched, Listed
<1>8. exit' = "no" => Lists'
  BY <1>0 DEF ChildPrepared, MasterUnchanged, ChildStep, Moves, Says, signals, polling, queues, channels, timers, listeners, children,
     Lists, Listed, Idling
<1>9. exit' = "no" => Counts'
  BY <1>0 DEF ChildPrepared, MasterUnchanged, ChildStep, Moves, Says, signals, polling, queues, channels, timers, listeners, children,
     Counts, Listed
<1>10. exit' = "no" => Protocol'
  <2>0. Listed' = Listed /\ Idling' = Idling
    BY DEF ChildPrepared, ChildStep, Moves, Says, MasterUnchanged, queues, Listed, Idling
  <2>1. ASSUME NEW v \in Worker PROVE Talk(v)'
    <3>1. CASE v = w
      <4>1. /\ Talk(w) /\ proc[w] = "prepare" /\ proc'[w] = "waiting" /\ commands'[w] = commands[w]
            /\ statuses'[w] = Append(statuses[w], "idle")
        BY <1>0 DEF ChildPrepared, ChildStep, Moves, Says, TypeChildren, Protocol
      <4>2. w \notin Idling /\ statuses[w] = <<>> /\ commands[w] = <<>>
        BY <4>1 DEF Talk
      <4>3. statuses'[w] = <<"idle">>
        BY <4>1, <4>2, Words
      <4> QED BY <2>0, <3>1, <4>1, <4>2, <4>3 DEF Talk
    <3>2. CASE v # w
      <4>1. proc'[v] = proc[v] /\ statuses'[v] = statuses[v] /\ commands'[v] = commands[v] /\ Talk(v)
        BY <1>0, <3>2 DEF ChildPrepared, ChildStep, Moves, Says, TypeChildren, Protocol
      <4> QED BY <2>0, <3>2, <4>1 DEF Talk
    <3> QED BY <3>1, <3>2
  <2> QED BY <2>1 DEF Protocol
<1>11. exit' = "no" => Ownership'
  BY <1>0 DEF ChildPrepared, MasterUnchanged, ChildStep, Moves, Says, signals, polling, queues, channels, timers, listeners, children,
     Ownership, Listener, Idling, IsMain, Early
<1>12. exit' = "no" => Times'
  BY <1>0 DEF ChildPrepared, MasterUnchanged, ChildStep, Moves, Says, signals, polling, queues, channels, timers, listeners, children,
     Times, Idling, IsTimer, Early
<1>13. exit' \notin {"past", "data"}
  BY DEF ChildPrepared, MasterUnchanged, ChildStep, Moves, Says
<1> QED BY <1>1, <1>2, <1>3, <1>4, <1>5, <1>6, <1>7, <1>8, <1>9, <1>10, <1>11, <1>12, <1>13 DEF PoolInv, Going

LEMMA ReceiveKeeps ==
  ASSUME PoolInv, exit = "no", NEW w \in Worker, Receive(w)
  PROVE  PoolInv'
<1>0. /\ TypeControl /\ TypeLists /\ TypeCounts /\ TypeChildren /\ TypePool
      /\ Beginning /\ Watching /\ Lists /\ Counts /\ Protocol /\ Ownership /\ Times
  BY DEF PoolInv, Going
<1>20. /\ TypeChildren /\ proc[w] = "waiting" /\ commands[w] # <<>> /\ Talk(w) /\ w \notin Idling
  BY <1>0 DEF Receive, Goodbye, Moves, Protocol, Talk
<1>21. /\ statuses[w] = <<>> /\ Append(statuses[w], "goodbye") = <<"goodbye">> /\ commands[w] \in {<<"connect">>, <<"terminate">>}
       /\ Tail(commands[w]) = <<>>
  BY <1>20, Words DEF Talk
<1>22. /\ commands' = [commands EXCEPT ![w] = <<>>]
       /\ \/ proc' = [proc EXCEPT ![w] = "finish"] /\ statuses' = [statuses EXCEPT ![w] = <<"goodbye">>]
          \/ proc' = [proc EXCEPT ![w] = "taken"] /\ statuses' = statuses
  BY <1>20, <1>21 DEF Receive, Goodbye, Moves, Says
<1>23. <<>> \in Seq({"connect", "terminate"}) /\ <<"goodbye">> \in Seq({"idle", "goodbye"})
  BY EmptySeq
<1>1. TypeControl'
  BY <1>0 DEF Receive, MasterUnchanged, ChildStep, Moves, Says, Goodbye, signals, polling, queues, channels, timers, listeners, children,
     TypeControl, Block, Reason, Time
<1>2. TypeLists'
  BY <1>0 DEF Receive, MasterUnchanged, ChildStep, Moves, Says, Goodbye, signals, polling, queues, channels, timers, listeners, children,
     TypeLists
<1>3. TypeCounts'
  BY <1>0 DEF Receive, MasterUnchanged, ChildStep, Moves, Says, Goodbye, signals, polling, queues, channels, timers, listeners, children,
     TypeCounts
<1>4. TypeChildren'
  BY <1>20, <1>22, <1>23 DEF Receive, TypeChildren
<1>5. TypePool'
  BY <1>0 DEF Receive, MasterUnchanged, ChildStep, Moves, Says, Goodbye, signals, polling, queues, channels, timers, listeners, children,
     TypePool, Listener, Early
<1>6. Beginning'
  BY <1>0 DEF Receive, MasterUnchanged, ChildStep, Moves, Says, Goodbye, signals, polling, queues, channels, timers, listeners, children,
     Beginning, Early
<1>7. Watching'
  BY <1>0 DEF Receive, MasterUnchanged, ChildStep, Moves, Says, Goodbye, signals, polling, queues, channels, timers, listeners, children,
     Watching, Watched, Listed
<1>8. exit' = "no" => Lists'
  <2>1. workers' = workers /\ idle' = idle /\ assigned' = assigned
    BY DEF Receive, ChildStep, MasterUnchanged, queues
  <2>2. Listed' = Listed /\ Idling' = Idling
    BY <2>1 DEF Listed, Idling
  <2>3. \A v \in Worker : proc'[v] = "none" <=> proc[v] = "none"
    BY <1>20, <1>22 DEF TypeChildren
  <2> QED BY <1>0, <2>1, <2>2, <2>3 DEF Lists
<1>9. exit' = "no" => Counts'
  BY <1>0 DEF Receive, MasterUnchanged, ChildStep, Moves, Says, Goodbye, signals, polling, queues, channels, timers, listeners, children,
     Counts, Listed
<1>10. exit' = "no" => Protocol'
  <2>0. Listed' = Listed /\ Idling' = Idling
    BY DEF Receive, ChildStep, MasterUnchanged, queues, Listed, Idling
  <2>1. ASSUME NEW v \in Worker PROVE Talk(v)'
    <3>1. CASE v = w
      <4>0. commands'[w] = <<>>
        BY <1>20, <1>22 DEF TypeChildren
      <4>1. \/ proc'[w] = "finish" /\ statuses'[w] = <<"goodbye">>
            \/ proc'[w] = "taken" /\ statuses'[w] = <<>>
        <5>1. CASE proc' = [proc EXCEPT ![w] = "finish"] /\ statuses' = [statuses EXCEPT ![w] = <<"goodbye">>]
          BY <1>20, <1>22, <5>1 DEF TypeChildren
        <5>2. CASE proc' = [proc EXCEPT ![w] = "taken"] /\ statuses' = statuses
          BY <1>20, <1>21, <1>22, <5>2 DEF TypeChildren
        <5> QED BY <1>22, <5>1, <5>2
      <4>2. CASE proc'[w] = "finish" /\ statuses'[w] = <<"goodbye">>
        BY <1>20, <2>0, <3>1, <4>2 DEF Talk
      <4>3. CASE proc'[w] = "taken" /\ statuses'[w] = <<>>
        BY <1>20, <2>0, <3>1, <4>0, <4>3 DEF Talk
      <4> QED BY <4>1, <4>2, <4>3
    <3>2. CASE v # w
      <4>1. proc'[v] = proc[v] /\ statuses'[v] = statuses[v] /\ commands'[v] = commands[v] /\ Talk(v)
        BY <1>0, <1>22, <3>2 DEF TypeChildren, Protocol
      <4> QED BY <2>0, <3>2, <4>1 DEF Talk
    <3> QED BY <3>1, <3>2
  <2> QED BY <2>1 DEF Protocol
<1>11. exit' = "no" => Ownership'
  BY <1>0 DEF Receive, MasterUnchanged, ChildStep, Moves, Says, Goodbye, signals, polling, queues, channels, timers, listeners, children,
     Ownership, Listener, Idling, IsMain, Early
<1>12. exit' = "no" => Times'
  BY <1>0 DEF Receive, MasterUnchanged, ChildStep, Moves, Says, Goodbye, signals, polling, queues, channels, timers, listeners, children,
     Times, Idling, IsTimer, Early
<1>13. exit' \notin {"past", "data"}
  BY DEF Receive, MasterUnchanged, ChildStep, Moves, Says, Goodbye
<1> QED BY <1>1, <1>2, <1>3, <1>4, <1>5, <1>6, <1>7, <1>8, <1>9, <1>10, <1>11, <1>12, <1>13 DEF PoolInv, Going

LEMMA BeginConnectKeeps ==
  ASSUME PoolInv, exit = "no", NEW w \in Worker, BeginConnect(w)
  PROVE  PoolInv'
<1>0. /\ TypeControl /\ TypeLists /\ TypeCounts /\ TypeChildren /\ TypePool
      /\ Beginning /\ Watching /\ Lists /\ Counts /\ Protocol /\ Ownership /\ Times
  BY DEF PoolInv, Going
<1>1. TypeControl'
  BY <1>0 DEF BeginConnect, MasterUnchanged, ChildStep, Moves, signals, polling, queues, channels, timers, listeners, children,
     TypeControl, Block, Reason, Time
<1>2. TypeLists'
  BY <1>0 DEF BeginConnect, MasterUnchanged, ChildStep, Moves, signals, polling, queues, channels, timers, listeners, children,
     TypeLists
<1>3. TypeCounts'
  BY <1>0 DEF BeginConnect, MasterUnchanged, ChildStep, Moves, signals, polling, queues, channels, timers, listeners, children,
     TypeCounts
<1>4. TypeChildren'
  BY <1>0 DEF BeginConnect, MasterUnchanged, ChildStep, Moves, signals, polling, queues, channels, timers, listeners, children,
     TypeChildren
<1>5. TypePool'
  BY <1>0 DEF BeginConnect, MasterUnchanged, ChildStep, Moves, signals, polling, queues, channels, timers, listeners, children,
     TypePool, Listener, Early
<1>6. Beginning'
  BY <1>0 DEF BeginConnect, MasterUnchanged, ChildStep, Moves, signals, polling, queues, channels, timers, listeners, children,
     Beginning, Early
<1>7. Watching'
  BY <1>0 DEF BeginConnect, MasterUnchanged, ChildStep, Moves, signals, polling, queues, channels, timers, listeners, children,
     Watching, Watched, Listed
<1>8. exit' = "no" => Lists'
  BY <1>0 DEF BeginConnect, MasterUnchanged, ChildStep, Moves, signals, polling, queues, channels, timers, listeners, children,
     Lists, Listed, Idling
<1>9. exit' = "no" => Counts'
  BY <1>0 DEF BeginConnect, MasterUnchanged, ChildStep, Moves, signals, polling, queues, channels, timers, listeners, children,
     Counts, Listed
<1>10. exit' = "no" => Protocol'
  BY <1>0 DEF BeginConnect, MasterUnchanged, ChildStep, Moves, signals, polling, queues, channels, timers, listeners, children,
     Protocol, Talk, Listed, Idling
<1>11. exit' = "no" => Ownership'
  BY <1>0 DEF BeginConnect, MasterUnchanged, ChildStep, Moves, signals, polling, queues, channels, timers, listeners, children,
     Ownership, Listener, Idling, IsMain, Early
<1>12. exit' = "no" => Times'
  BY <1>0 DEF BeginConnect, MasterUnchanged, ChildStep, Moves, signals, polling, queues, channels, timers, listeners, children,
     Times, Idling, IsTimer, Early
<1>13. exit' \notin {"past", "data"}
  BY DEF BeginConnect, MasterUnchanged, ChildStep, Moves
<1> QED BY <1>1, <1>2, <1>3, <1>4, <1>5, <1>6, <1>7, <1>8, <1>9, <1>10, <1>11, <1>12, <1>13 DEF PoolInv, Going

LEMMA EndConnectKeeps ==
  ASSUME PoolInv, exit = "no", NEW w \in Worker, NEW again \in BOOLEAN, EndConnect(w, again)
  PROVE  PoolInv'
<1>0. /\ TypeControl /\ TypeLists /\ TypeCounts /\ TypeChildren /\ TypePool
      /\ Beginning /\ Watching /\ Lists /\ Counts /\ Protocol /\ Ownership /\ Times
  BY DEF PoolInv, Going
<1>20. /\ TypeChildren /\ proc[w] = "connect" /\ Talk(w) /\ commands' = commands
  BY <1>0 DEF EndConnect, Goodbye, Moves, Protocol
<1>21. /\ statuses[w] = <<>> /\ commands[w] = <<>> /\ w \notin Idling
       /\ Append(statuses[w], "goodbye") = <<"goodbye">> /\ Append(statuses[w], "idle") = <<"idle">>
  BY <1>20, Words DEF Talk
<1>22. \/ proc' = [proc EXCEPT ![w] = "finish"] /\ statuses' = [statuses EXCEPT ![w] = <<"goodbye">>]
       \/ proc' = [proc EXCEPT ![w] = "waiting"] /\ statuses' = [statuses EXCEPT ![w] = <<"idle">>]
  BY <1>20, <1>21 DEF EndConnect, Goodbye, Moves, Says
<1>23. <<"idle">> \in Seq({"idle", "goodbye"}) /\ <<"goodbye">> \in Seq({"idle", "goodbye"})
  OBVIOUS
<1>1. TypeControl'
  BY <1>0 DEF EndConnect, MasterUnchanged, ChildStep, Moves, Says, Goodbye, signals, polling, queues, channels, timers, listeners, children,
     TypeControl, Block, Reason, Time
<1>2. TypeLists'
  BY <1>0 DEF EndConnect, MasterUnchanged, ChildStep, Moves, Says, Goodbye, signals, polling, queues, channels, timers, listeners, children,
     TypeLists
<1>3. TypeCounts'
  BY <1>0 DEF EndConnect, MasterUnchanged, ChildStep, Moves, Says, Goodbye, signals, polling, queues, channels, timers, listeners, children,
     TypeCounts
<1>4. TypeChildren'
  BY <1>20, <1>22, <1>23 DEF EndConnect, TypeChildren
<1>5. TypePool'
  BY <1>0 DEF EndConnect, MasterUnchanged, ChildStep, Moves, Says, Goodbye, signals, polling, queues, channels, timers, listeners, children,
     TypePool, Listener, Early
<1>6. Beginning'
  BY <1>0 DEF EndConnect, MasterUnchanged, ChildStep, Moves, Says, Goodbye, signals, polling, queues, channels, timers, listeners, children,
     Beginning, Early
<1>7. Watching'
  BY <1>0 DEF EndConnect, MasterUnchanged, ChildStep, Moves, Says, Goodbye, signals, polling, queues, channels, timers, listeners, children,
     Watching, Watched, Listed
<1>8. exit' = "no" => Lists'
  <2>1. workers' = workers /\ idle' = idle /\ assigned' = assigned
    BY DEF EndConnect, ChildStep, MasterUnchanged, queues
  <2>2. Listed' = Listed /\ Idling' = Idling
    BY <2>1 DEF Listed, Idling
  <2>3. \A v \in Worker : proc'[v] = "none" <=> proc[v] = "none"
    BY <1>20, <1>22 DEF TypeChildren
  <2> QED BY <1>0, <2>1, <2>2, <2>3 DEF Lists
<1>9. exit' = "no" => Counts'
  BY <1>0 DEF EndConnect, MasterUnchanged, ChildStep, Moves, Says, Goodbye, signals, polling, queues, channels, timers, listeners, children,
     Counts, Listed
<1>10. exit' = "no" => Protocol'
  <2>0. Listed' = Listed /\ Idling' = Idling
    BY DEF EndConnect, ChildStep, MasterUnchanged, queues, Listed, Idling
  <2>1. ASSUME NEW v \in Worker PROVE Talk(v)'
    <3>1. CASE v = w
      <4>1. \/ proc'[w] = "finish" /\ statuses'[w] = <<"goodbye">>
            \/ proc'[w] = "waiting" /\ statuses'[w] = <<"idle">>
        BY <1>20, <1>21, <1>22 DEF TypeChildren
      <4> QED BY <1>20, <1>21, <2>0, <3>1, <4>1 DEF Talk
    <3>2. CASE v # w
      <4>1. proc'[v] = proc[v] /\ statuses'[v] = statuses[v] /\ commands'[v] = commands[v] /\ Talk(v)
        BY <1>0, <1>20, <1>22, <3>2 DEF TypeChildren, Protocol
      <4> QED BY <2>0, <3>2, <4>1 DEF Talk
    <3> QED BY <3>1, <3>2
  <2> QED BY <2>1 DEF Protocol
<1>11. exit' = "no" => Ownership'
  BY <1>0 DEF EndConnect, MasterUnchanged, ChildStep, Moves, Says, Goodbye, signals, polling, queues, channels, timers, listeners, children,
     Ownership, Listener, Idling, IsMain, Early
<1>12. exit' = "no" => Times'
  BY <1>0 DEF EndConnect, MasterUnchanged, ChildStep, Moves, Says, Goodbye, signals, polling, queues, channels, timers, listeners, children,
     Times, Idling, IsTimer, Early
<1>13. exit' \notin {"past", "data"}
  BY DEF EndConnect, MasterUnchanged, ChildStep, Moves, Says, Goodbye
<1> QED BY <1>1, <1>2, <1>3, <1>4, <1>5, <1>6, <1>7, <1>8, <1>9, <1>10, <1>11, <1>12, <1>13 DEF PoolInv, Going

LEMMA ChildFinishedKeeps ==
  ASSUME PoolInv, exit = "no", NEW w \in Worker, ChildFinished(w)
  PROVE  PoolInv'
<1>0. /\ TypeControl /\ TypeLists /\ TypeCounts /\ TypeChildren /\ TypePool
      /\ Beginning /\ Watching /\ Lists /\ Counts /\ Protocol /\ Ownership /\ Times
  BY DEF PoolInv, Going
<1>1. TypeControl'
  BY <1>0 DEF ChildFinished, MasterUnchanged, ChildStep, Moves, signals, polling, queues, channels, timers, listeners, children,
     TypeControl, Block, Reason, Time
<1>2. TypeLists'
  BY <1>0 DEF ChildFinished, MasterUnchanged, ChildStep, Moves, signals, polling, queues, channels, timers, listeners, children,
     TypeLists
<1>3. TypeCounts'
  BY <1>0 DEF ChildFinished, MasterUnchanged, ChildStep, Moves, signals, polling, queues, channels, timers, listeners, children,
     TypeCounts
<1>4. TypeChildren'
  BY <1>0 DEF ChildFinished, MasterUnchanged, ChildStep, Moves, signals, polling, queues, channels, timers, listeners, children,
     TypeChildren
<1>5. TypePool'
  BY <1>0 DEF ChildFinished, MasterUnchanged, ChildStep, Moves, signals, polling, queues, channels, timers, listeners, children,
     TypePool, Listener, Early
<1>6. Beginning'
  BY <1>0 DEF ChildFinished, MasterUnchanged, ChildStep, Moves, signals, polling, queues, channels, timers, listeners, children,
     Beginning, Early
<1>7. Watching'
  BY <1>0 DEF ChildFinished, MasterUnchanged, ChildStep, Moves, signals, polling, queues, channels, timers, listeners, children,
     Watching, Watched, Listed
<1>8. exit' = "no" => Lists'
  BY <1>0 DEF ChildFinished, MasterUnchanged, ChildStep, Moves, signals, polling, queues, channels, timers, listeners, children,
     Lists, Listed, Idling
<1>9. exit' = "no" => Counts'
  BY <1>0 DEF ChildFinished, MasterUnchanged, ChildStep, Moves, signals, polling, queues, channels, timers, listeners, children,
     Counts, Listed
<1>10. exit' = "no" => Protocol'
  BY <1>0 DEF ChildFinished, MasterUnchanged, ChildStep, Moves, signals, polling, queues, channels, timers, listeners, children,
     Protocol, Talk, Listed, Idling
<1>11. exit' = "no" => Ownership'
  BY <1>0 DEF ChildFinished, MasterUnchanged, ChildStep, Moves, signals, polling, queues, channels, timers, listeners, children,
     Ownership, Listener, Idling, IsMain, Early
<1>12. exit' = "no" => Times'
  BY <1>0 DEF ChildFinished, MasterUnchanged, ChildStep, Moves, signals, polling, queues, channels, timers, listeners, children,
     Times, Idling, IsTimer, Early
<1>13. exit' \notin {"past", "data"}
  BY DEF ChildFinished, MasterUnchanged, ChildStep, Moves
<1> QED BY <1>1, <1>2, <1>3, <1>4, <1>5, <1>6, <1>7, <1>8, <1>9, <1>10, <1>11, <1>12, <1>13 DEF PoolInv, Going

LEMMA CrashKeeps ==
  ASSUME PoolInv, exit = "no", NEW w \in Worker, Crash(w)
  PROVE  PoolInv'
<1>0. /\ TypeControl /\ TypeLists /\ TypeCounts /\ TypeChildren /\ TypePool
      /\ Beginning /\ Watching /\ Lists /\ Counts /\ Protocol /\ Ownership /\ Times
  BY DEF PoolInv, Going
<1>1. TypeControl'
  BY <1>0 DEF Crash, MasterUnchanged, Alive, signals, polling, queues, channels, timers, listeners, children,
     TypeControl, Block, Reason, Time
<1>2. TypeLists'
  BY <1>0 DEF Crash, MasterUnchanged, Alive, signals, polling, queues, channels, timers, listeners, children,
     TypeLists
<1>3. TypeCounts'
  BY <1>0 DEF Crash, MasterUnchanged, Alive, signals, polling, queues, channels, timers, listeners, children,
     TypeCounts
<1>4. TypeChildren'
  BY <1>0 DEF Crash, MasterUnchanged, Alive, signals, polling, queues, channels, timers, listeners, children,
     TypeChildren
<1>5. TypePool'
  BY <1>0 DEF Crash, MasterUnchanged, Alive, signals, polling, queues, channels, timers, listeners, children,
     TypePool, Listener, Early
<1>6. Beginning'
  BY <1>0 DEF Crash, MasterUnchanged, Alive, signals, polling, queues, channels, timers, listeners, children,
     Beginning, Early
<1>7. Watching'
  BY <1>0 DEF Crash, MasterUnchanged, Alive, signals, polling, queues, channels, timers, listeners, children,
     Watching, Watched, Listed
<1>8. exit' = "no" => Lists'
  BY <1>0 DEF Crash, MasterUnchanged, Alive, signals, polling, queues, channels, timers, listeners, children,
     Lists, Listed, Idling
<1>9. exit' = "no" => Counts'
  BY <1>0 DEF Crash, MasterUnchanged, Alive, signals, polling, queues, channels, timers, listeners, children,
     Counts, Listed
<1>10. exit' = "no" => Protocol'
  <2>0. Listed' = Listed /\ Idling' = Idling
    BY DEF Crash, MasterUnchanged, queues, Listed, Idling
  <2>1. ASSUME NEW v \in Worker PROVE Talk(v)'
    <3>1. CASE v = w
      <4>1. /\ Talk(w) /\ proc'[w] = "exiting" /\ commands'[w] = <<>> /\ statuses'[w] = statuses[w]
        BY <1>0 DEF Crash, TypeChildren, Protocol
      <4> QED BY <2>0, <3>1, <4>1 DEF Talk
    <3>2. CASE v # w
      <4>1. proc'[v] = proc[v] /\ statuses'[v] = statuses[v] /\ commands'[v] = commands[v] /\ Talk(v)
        BY <1>0, <3>2 DEF Crash, TypeChildren, Protocol
      <4> QED BY <2>0, <3>2, <4>1 DEF Talk
    <3> QED BY <3>1, <3>2
  <2> QED BY <2>1 DEF Protocol
<1>11. exit' = "no" => Ownership'
  BY <1>0 DEF Crash, MasterUnchanged, Alive, signals, polling, queues, channels, timers, listeners, children,
     Ownership, Listener, Idling, IsMain, Early
<1>12. exit' = "no" => Times'
  BY <1>0 DEF Crash, MasterUnchanged, Alive, signals, polling, queues, channels, timers, listeners, children,
     Times, Idling, IsTimer, Early
<1>13. exit' \notin {"past", "data"}
  BY DEF Crash, MasterUnchanged, Alive
<1> QED BY <1>1, <1>2, <1>3, <1>4, <1>5, <1>6, <1>7, <1>8, <1>9, <1>10, <1>11, <1>12, <1>13 DEF PoolInv, Going

LEMMA BecomeZombieKeeps ==
  ASSUME PoolInv, exit = "no", NEW w \in Worker, BecomeZombie(w)
  PROVE  PoolInv'
<1>0. /\ TypeControl /\ TypeLists /\ TypeCounts /\ TypeChildren /\ TypePool
      /\ Beginning /\ Watching /\ Lists /\ Counts /\ Protocol /\ Ownership /\ Times
  BY DEF PoolInv, Going
<1>1. TypeControl'
  BY <1>0 DEF BecomeZombie, MasterUnchanged, Moves, Signal, signals, polling, queues, channels, timers, listeners, children,
     TypeControl, Block, Reason, Time
<1>2. TypeLists'
  BY <1>0 DEF BecomeZombie, MasterUnchanged, Moves, Signal, signals, polling, queues, channels, timers, listeners, children,
     TypeLists
<1>3. TypeCounts'
  BY <1>0 DEF BecomeZombie, MasterUnchanged, Moves, Signal, signals, polling, queues, channels, timers, listeners, children,
     TypeCounts
<1>4. TypeChildren'
  BY <1>0 DEF BecomeZombie, MasterUnchanged, Moves, Signal, signals, polling, queues, channels, timers, listeners, children,
     TypeChildren
<1>5. TypePool'
  BY <1>0 DEF BecomeZombie, MasterUnchanged, Moves, Signal, signals, polling, queues, channels, timers, listeners, children,
     TypePool, Listener, Early
<1>6. Beginning'
  BY <1>0 DEF BecomeZombie, MasterUnchanged, Moves, Signal, signals, polling, queues, channels, timers, listeners, children,
     Beginning, Early
<1>7. Watching'
  BY <1>0 DEF BecomeZombie, MasterUnchanged, Moves, Signal, signals, polling, queues, channels, timers, listeners, children,
     Watching, Watched, Listed
<1>8. exit' = "no" => Lists'
  BY <1>0 DEF BecomeZombie, MasterUnchanged, Moves, Signal, signals, polling, queues, channels, timers, listeners, children,
     Lists, Listed, Idling
<1>9. exit' = "no" => Counts'
  BY <1>0 DEF BecomeZombie, MasterUnchanged, Moves, Signal, signals, polling, queues, channels, timers, listeners, children,
     Counts, Listed
<1>10. exit' = "no" => Protocol'
  BY <1>0 DEF BecomeZombie, MasterUnchanged, Moves, Signal, signals, polling, queues, channels, timers, listeners, children,
     Protocol, Talk, Listed, Idling
<1>11. exit' = "no" => Ownership'
  BY <1>0 DEF BecomeZombie, MasterUnchanged, Moves, Signal, signals, polling, queues, channels, timers, listeners, children,
     Ownership, Listener, Idling, IsMain, Early
<1>12. exit' = "no" => Times'
  BY <1>0 DEF BecomeZombie, MasterUnchanged, Moves, Signal, signals, polling, queues, channels, timers, listeners, children,
     Times, Idling, IsTimer, Early
<1>13. exit' \notin {"past", "data"}
  BY DEF BecomeZombie, MasterUnchanged, Moves, Signal
<1> QED BY <1>1, <1>2, <1>3, <1>4, <1>5, <1>6, <1>7, <1>8, <1>9, <1>10, <1>11, <1>12, <1>13 DEF PoolInv, Going

LEMMA ArriveKeeps ==
  ASSUME PoolInv, exit = "no", NEW l \in Listener, Arrive(l)
  PROVE  PoolInv'
<1>0. /\ TypeControl /\ TypeLists /\ TypeCounts /\ TypeChildren /\ TypePool
      /\ Beginning /\ Watching /\ Lists /\ Counts /\ Protocol /\ Ownership /\ Times
  BY DEF PoolInv, Going
<1>1. TypeControl'
  BY <1>0 DEF Arrive, MasterUnchanged, signals, polling, queues, channels, timers, listeners, children,
     TypeControl, Block, Reason, Time
<1>2. TypeLists'
  BY <1>0 DEF Arrive, MasterUnchanged, signals, polling, queues, channels, timers, listeners, children,
     TypeLists
<1>3. TypeCounts'
  BY <1>0 DEF Arrive, MasterUnchanged, signals, polling, queues, channels, timers, listeners, children,
     TypeCounts
<1>4. TypeChildren'
  BY <1>0 DEF Arrive, MasterUnchanged, signals, polling, queues, channels, timers, listeners, children,
     TypeChildren
<1>5. TypePool'
  BY <1>0 DEF Arrive, MasterUnchanged, signals, polling, queues, channels, timers, listeners, children,
     TypePool, Listener, Early
<1>6. Beginning'
  BY <1>0 DEF Arrive, MasterUnchanged, signals, polling, queues, channels, timers, listeners, children,
     Beginning, Early
<1>7. Watching'
  BY <1>0 DEF Arrive, MasterUnchanged, signals, polling, queues, channels, timers, listeners, children,
     Watching, Watched, Listed
<1>8. exit' = "no" => Lists'
  BY <1>0 DEF Arrive, MasterUnchanged, signals, polling, queues, channels, timers, listeners, children,
     Lists, Listed, Idling
<1>9. exit' = "no" => Counts'
  BY <1>0 DEF Arrive, MasterUnchanged, signals, polling, queues, channels, timers, listeners, children,
     Counts, Listed
<1>10. exit' = "no" => Protocol'
  BY <1>0 DEF Arrive, MasterUnchanged, signals, polling, queues, channels, timers, listeners, children,
     Protocol, Talk, Listed, Idling
<1>11. exit' = "no" => Ownership'
  BY <1>0 DEF Arrive, MasterUnchanged, signals, polling, queues, channels, timers, listeners, children,
     Ownership, Listener, Idling, IsMain, Early
<1>12. exit' = "no" => Times'
  BY <1>0 DEF Arrive, MasterUnchanged, signals, polling, queues, channels, timers, listeners, children,
     Times, Idling, IsTimer, Early
<1>13. exit' \notin {"past", "data"}
  BY DEF Arrive, MasterUnchanged
<1> QED BY <1>1, <1>2, <1>3, <1>4, <1>5, <1>6, <1>7, <1>8, <1>9, <1>10, <1>11, <1>12, <1>13 DEF PoolInv, Going

LEMMA OperatorSignalKeeps ==
  ASSUME PoolInv, exit = "no", NEW c \in {"terminate", "interrupt"}, OperatorSignal(c)
  PROVE  PoolInv'
<1>0. /\ TypeControl /\ TypeLists /\ TypeCounts /\ TypeChildren /\ TypePool
      /\ Beginning /\ Watching /\ Lists /\ Counts /\ Protocol /\ Ownership /\ Times
  BY DEF PoolInv, Going
<1>1. TypeControl'
  BY <1>0 DEF OperatorSignal, MasterUnchanged, Signal, signals, polling, queues, channels, timers, listeners, children,
     TypeControl, Block, Reason, Time
<1>2. TypeLists'
  BY <1>0 DEF OperatorSignal, MasterUnchanged, Signal, signals, polling, queues, channels, timers, listeners, children,
     TypeLists
<1>3. TypeCounts'
  BY <1>0 DEF OperatorSignal, MasterUnchanged, Signal, signals, polling, queues, channels, timers, listeners, children,
     TypeCounts
<1>4. TypeChildren'
  BY <1>0 DEF OperatorSignal, MasterUnchanged, Signal, signals, polling, queues, channels, timers, listeners, children,
     TypeChildren
<1>5. TypePool'
  BY <1>0 DEF OperatorSignal, MasterUnchanged, Signal, signals, polling, queues, channels, timers, listeners, children,
     TypePool, Listener, Early
<1>6. Beginning'
  BY <1>0 DEF OperatorSignal, MasterUnchanged, Signal, signals, polling, queues, channels, timers, listeners, children,
     Beginning, Early
<1>7. Watching'
  BY <1>0 DEF OperatorSignal, MasterUnchanged, Signal, signals, polling, queues, channels, timers, listeners, children,
     Watching, Watched, Listed
<1>8. exit' = "no" => Lists'
  BY <1>0 DEF OperatorSignal, MasterUnchanged, Signal, signals, polling, queues, channels, timers, listeners, children,
     Lists, Listed, Idling
<1>9. exit' = "no" => Counts'
  BY <1>0 DEF OperatorSignal, MasterUnchanged, Signal, signals, polling, queues, channels, timers, listeners, children,
     Counts, Listed
<1>10. exit' = "no" => Protocol'
  BY <1>0 DEF OperatorSignal, MasterUnchanged, Signal, signals, polling, queues, channels, timers, listeners, children,
     Protocol, Talk, Listed, Idling
<1>11. exit' = "no" => Ownership'
  BY <1>0 DEF OperatorSignal, MasterUnchanged, Signal, signals, polling, queues, channels, timers, listeners, children,
     Ownership, Listener, Idling, IsMain, Early
<1>12. exit' = "no" => Times'
  BY <1>0 DEF OperatorSignal, MasterUnchanged, Signal, signals, polling, queues, channels, timers, listeners, children,
     Times, Idling, IsTimer, Early
<1>13. exit' \notin {"past", "data"}
  BY DEF OperatorSignal, MasterUnchanged, Signal
<1> QED BY <1>1, <1>2, <1>3, <1>4, <1>5, <1>6, <1>7, <1>8, <1>9, <1>10, <1>11, <1>12, <1>13 DEF PoolInv, Going

LEMMA TerminateKeeps ==
  ASSUME PoolInv, exit = "no", NEW r \in Reason \ {"no", "past", "data"}, Terminate(r)
  PROVE  PoolInv'
<1>0. /\ TypeControl /\ TypeLists /\ TypeCounts /\ TypeChildren /\ TypePool
      /\ Beginning /\ Watching /\ Lists /\ Counts /\ Protocol /\ Ownership /\ Times
  BY DEF PoolInv, Going
<1>1. TypeControl'
  BY <1>0 DEF Terminate, signals, polling, queues, channels, timers, listeners, children,
     TypeControl, Block, Reason, Time
<1>2. TypeLists'
  BY <1>0 DEF Terminate, signals, polling, queues, channels, timers, listeners, children,
     TypeLists
<1>3. TypeCounts'
  BY <1>0 DEF Terminate, signals, polling, queues, channels, timers, listeners, children,
     TypeCounts
<1>4. TypeChildren'
  BY <1>0 DEF Terminate, signals, polling, queues, channels, timers, listeners, children,
     TypeChildren
<1>5. TypePool'
  BY <1>0 DEF Terminate, signals, polling, queues, channels, timers, listeners, children,
     TypePool, Listener, Early
<1>6. Beginning'
  BY <1>0 DEF Terminate, signals, polling, queues, channels, timers, listeners, children,
     Beginning, Early
<1>7. Watching'
  BY <1>0 DEF Terminate, signals, polling, queues, channels, timers, listeners, children,
     Watching, Watched, Listed
<1>8. exit' = "no" => Lists'
  BY <1>0 DEF Terminate, signals, polling, queues, channels, timers, listeners, children,
     Lists, Listed, Idling
<1>9. exit' = "no" => Counts'
  BY <1>0 DEF Terminate, signals, polling, queues, channels, timers, listeners, children,
     Counts, Listed
<1>10. exit' = "no" => Protocol'
  BY <1>0 DEF Terminate, signals, polling, queues, channels, timers, listeners, children,
     Protocol, Talk, Listed, Idling
<1>11. exit' = "no" => Ownership'
  BY <1>0 DEF Terminate, signals, polling, queues, channels, timers, listeners, children,
     Ownership, Listener, Idling, IsMain, Early
<1>12. exit' = "no" => Times'
  BY <1>0 DEF Terminate, signals, polling, queues, channels, timers, listeners, children,
     Times, Idling, IsTimer, Early
<1>13. exit' \notin {"past", "data"}
  BY <1>0 DEF Terminate, TypeControl
<1> QED BY <1>1, <1>2, <1>3, <1>4, <1>5, <1>6, <1>7, <1>8, <1>9, <1>10, <1>11, <1>12, <1>13 DEF PoolInv, Going

LEMMA ListenKeeps ==
  ASSUME PoolInv, exit = "no", NEW o \in Options, Listen(o)
  PROVE  PoolInv'
<1>0. /\ TypeControl /\ TypeLists /\ TypeCounts /\ TypeChildren /\ TypePool
      /\ Beginning /\ Watching /\ Lists /\ Counts /\ Protocol /\ Ownership /\ Times
  BY DEF PoolInv, Going
<1>20. /\ pc = "script" /\ pool = NoPool /\ workers = <<>> /\ idle = <<>> /\ idle_listeners = <<>>
       /\ connected_listeners = <<>> /\ control = {} /\ Listed = {} /\ Idling = {}
  <2>1. pc = "script" /\ workers = <<>> /\ idle = <<>> /\ idle_listeners = <<>> /\ connected_listeners = <<>>
    BY <1>0 DEF Listen, Beginning, Early
  <2>2. DOMAIN <<>> = {}
    BY EmptySeq
  <2>3. Listed = {} /\ Idling = {}
    BY <2>1, <2>2 DEF Listed, Idling
  <2> QED BY <1>0, <2>1, <2>3 DEF Watching, Listen
<1>21. /\ workers' = workers /\ idle' = idle /\ idle_listeners' = idle_listeners /\ restart' = restart
       /\ connected_listeners' = connected_listeners /\ control' = control
       /\ Listed' = Listed /\ Idling' = Idling /\ assigned' = assigned
  <2>1. /\ workers' = workers /\ idle' = idle /\ idle_listeners' = idle_listeners /\ restart' = restart
        /\ connected_listeners' = connected_listeners /\ control' = control /\ assigned' = assigned
    BY DEF Listen, queues, listeners, channels
  <2> QED BY <2>1 DEF Listed, Idling
<1>22. \A w \in Worker : restart[w] = Nil
  BY <1>0, <1>20 DEF Ownership
<1>23. ASSUME exit' = "no"
       PROVE  /\ pool'.listen \in Seq([proto : Proto, strict : BOOLEAN])
              /\ pool'.pre_fork \in Nat /\ pool'.max_fork \in Nat /\ pool'.idle_timeout \in BOOLEAN
              /\ pc' = "start"
  <2>1. /\ pool' = ForkOptions(o) /\ pc' = "start"
        /\ \A i \in DOMAIN o.listen : ParseListener(o.listen[i]) # Nil
    BY <1>23 DEF Listen, StartPool, ScriptFails, Goto
  <2>2. /\ o.listen \in Seq([proto : Proto \cup {"unknown"}, at : {"given", Nil}, strict : BOOLEAN])
        /\ {o.pre_fork, o.min_fork, o.max_fork} \subseteq Nat \cup {Nil} /\ o.idle_timeout \in BOOLEAN
    BY OptionAssumption
  <2> DEFINE T == [proto : Proto \cup {"unknown"}, at : {"given", Nil}, strict : BOOLEAN]
             parsed == [i \in DOMAIN o.listen |-> ParseListener(o.listen[i])]
  <2>3. Len(o.listen) \in Nat /\ DOMAIN o.listen = 1 .. Len(o.listen)
    BY <2>2, LenProperties
  <2>4. \A i \in 1 .. Len(o.listen) : o.listen[i] \in T
    BY <2>2, <2>3, ElementOfSeq
  <2>5. ASSUME NEW e \in T, ParseListener(e) # Nil PROVE ParseListener(e) \in [proto : Proto, strict : BOOLEAN]
    BY <2>5 DEF ParseListener, ParseTimer, ParseSocket, Proto
  <2>6. parsed \in [1 .. Len(o.listen) -> [proto : Proto, strict : BOOLEAN]]
    <3> HIDE DEF T
    <3> QED BY <2>1, <2>3, <2>4, <2>5
  <2>7. parsed \in Seq([proto : Proto, strict : BOOLEAN])
    <3> DEFINE R == [proto : Proto, strict : BOOLEAN]
               n == Len(o.listen)
    <3>1. n \in Nat /\ parsed \in [1 .. n -> R]
      BY <2>3, <2>6
    <3> HIDE DEF parsed, R, n
    <3>2. parsed \in Seq(R)
      BY <3>1
    <3> QED BY <3>2 DEF R
  <2>8. pool'.listen = parsed
    BY <2>1 DEF ForkOptions
  <2>9. Default(o.pre_fork, 1) \in Nat
    BY <2>2 DEF Default
  <2>10. Default(o.min_fork, Larger(Default(o.pre_fork, 1), 2)) \in Nat
    BY <2>2, <2>9 DEF Default, Larger
  <2>11. Default(o.max_fork, Larger(Default(o.min_fork, Larger(Default(o.pre_fork, 1), 2)), 16)) \in Nat
    BY <2>2, <2>10 DEF Default, Larger
  <2>12. pool'.pre_fork \in Nat /\ pool'.max_fork \in Nat /\ pool'.idle_timeout \in BOOLEAN
    BY <2>1, <2>2, <2>3, <2>9, <2>11 DEF ForkOptions
  <2> QED BY <1>23, <2>1, <2>7, <2>8, <2>12
<1>24. ASSUME exit' # "no" PROVE pool' = pool /\ pc' = "done"
  BY <1>0, <1>24 DEF Listen, StartPool, ScriptFails, Goto, TypePool
<1>25. /\ pool'.listen \in Seq([proto : Proto, strict : BOOLEAN])
       /\ pool'.pre_fork \in Nat /\ pool'.max_fork \in Nat /\ pool'.idle_timeout \in BOOLEAN
       /\ (exit' = "no" => pc' = "start") /\ pc' \in {"start", "done"} /\ (pc' = "done" => exit' # "no")
  BY <1>0, <1>23, <1>24 DEF TypePool
<1>1. TypeControl'
  BY <1>0 DEF Listen, StartPool, ScriptFails, Goto, TypeControl, Block, Reason, signals, polling, timers
<1>2. TypeLists'
  BY <1>0 DEF Listen, StartPool, ScriptFails, Goto, signals, polling, queues, channels, timers, listeners, children,
     TypeLists
<1>3. TypeCounts'
  BY <1>0 DEF Listen, StartPool, ScriptFails, Goto, signals, polling, queues, channels, timers, listeners, children,
     TypeCounts
<1>4. TypeChildren'
  BY <1>0 DEF Listen, StartPool, ScriptFails, Goto, signals, polling, queues, channels, timers, listeners, children,
     TypeChildren
<1>5. TypePool'
  <2>1. restart' \in [Worker -> Listener' \cup {Nil}]
    BY <1>0, <1>21, <1>22 DEF TypePool
  <2>2. <<>> \in Seq(Listener')
    BY EmptySeq
  <2> QED BY <1>20, <1>21, <1>25, <2>1, <2>2 DEF TypePool, Early
<1>6. Beginning'
  <2>1. poll_workers' = poll_workers /\ revents' = revents
    BY DEF Listen, polling
  <2> QED BY <1>0, <1>20, <1>21, <1>25, <2>1 DEF Beginning, Early
<1>7. Watching'
  BY <1>0 DEF Listen, StartPool, ScriptFails, Goto, signals, polling, queues, channels, timers, listeners, children,
     Watching, Watched, Listed
<1>8. exit' = "no" => Lists'
  BY <1>0 DEF Listen, StartPool, ScriptFails, Goto, signals, polling, queues, channels, timers, listeners, children,
     Lists, Listed, Idling
<1>9. exit' = "no" => Counts'
  <2>1. count' = count /\ count.total = Len(workers) /\ Len(workers) = 0
    BY <1>0, <1>20, EmptySeq DEF Listen, queues, Counts
  <2> QED BY <1>0, <1>21, <1>25, <2>1 DEF Counts
<1>10. exit' = "no" => Protocol'
  BY <1>0 DEF Listen, StartPool, ScriptFails, Goto, signals, polling, queues, channels, timers, listeners, children,
     Protocol, Talk, Listed, Idling
<1>11. exit' = "no" => Ownership'
  BY <1>0, <1>20, <1>21, <1>22, <1>25 DEF Ownership, Early
<1>12. exit' = "no" => Times'
  <2>1. DOMAIN <<>> = {}
    BY EmptySeq
  <2> QED BY <1>20, <1>21, <1>25, <2>1 DEF Times, Early
<1>13. exit' \notin {"past", "data"}
  BY <1>0 DEF Listen, StartPool, ScriptFails, Goto, TypeControl
<1> QED BY <1>1, <1>2, <1>3, <1>4, <1>5, <1>6, <1>7, <1>8, <1>9, <1>10, <1>11, <1>12, <1>13 DEF PoolInv, Going

LEMMA TopKeeps ==
  ASSUME PoolInv, exit = "no", NEW ts, NEW ls, NEW n \in 0 .. Len(idle), Top(ts, ls, n), "interrupt" \notin cond
  PROVE  PoolInv'
<1>0. /\ TypeControl /\ TypeLists /\ TypeCounts /\ TypeChildren /\ TypePool
      /\ Beginning /\ Watching /\ Lists /\ Counts /\ Protocol /\ Ownership /\ Times
  BY DEF PoolInv, Going
<1>20. /\ pc = "top" /\ pc' = "expire" /\ exit' = exit /\ pool' = pool /\ idle' = idle /\ workers' = workers
       /\ idle_listeners' = idle_listeners /\ connected_listeners' = connected_listeners /\ restart' = restart
       /\ control' = control /\ TimePasses(ts, ls, n)
  BY DEF Top, Terminate, Goto, listeners, channels
<1>21. \A t \in Time : Expired(t) \in Time /\ Expired("future") = "past"
  BY DEF Expired, Time
<1>22. expiration' = [w \in Worker |-> IF w \in FirstIdle(n) THEN Expired(expiration[w]) ELSE expiration[w]]
  BY <1>20 DEF TimePasses
<1>23. expiration' \in [Worker -> Time]
  BY <1>0, <1>21, <1>22 DEF TypeLists
<1>24. Listener' = Listener /\ Idling' = Idling /\ Listed' = Listed
  BY <1>20 DEF Listener, Idling, Listed
<1>25. wakeup' \in [Listener -> Time]
  <2>1. wakeup \in [Listener -> Time]
    BY <1>0, <1>20 DEF TypePool, Early
  <2> QED BY <1>20, <1>21, <2>1 DEF TimePasses
<1>1. TypeControl'
  <2>1. timer' \in [fork : Time, fork_error : Time, exit : Time]
    <3>1. DOMAIN timer = {"fork", "fork_error", "exit"} /\ \A t \in DOMAIN timer : timer[t] \in Time
      BY <1>0 DEF TypeControl
    <3>2. timer' = [t \in {"fork", "fork_error", "exit"} |-> IF t \in ts THEN Expired(timer[t]) ELSE timer[t]]
      BY <1>20, <3>1 DEF TimePasses
    <3> QED BY <1>21, <3>1, <3>2
  <2>2. shutdown' \in BOOLEAN
    BY <1>0 DEF Top, Terminate, InitiateShutdown, TypeControl
  <2> QED BY <1>0, <2>1, <2>2 DEF Top, Terminate, Goto, ResetSignal, TypeControl, Block, polling
<1>2. TypeLists'
  BY <1>0, <1>20, <1>23 DEF Top, Terminate, TypeLists, polling, channels
<1>3. TypeCounts'
  BY <1>0 DEF Top, InitiateShutdown, TimePasses, ResetSignal, Goto, signals, polling, queues, channels, timers, listeners, children,
     TypeCounts
<1>4. TypeChildren'
  BY <1>0 DEF Top, InitiateShutdown, TimePasses, ResetSignal, Goto, signals, polling, queues, channels, timers, listeners, children,
     TypeChildren
<1>5. TypePool'
  BY <1>0, <1>20, <1>24, <1>25 DEF TypePool
<1>6. Beginning'
  BY <1>0 DEF Top, InitiateShutdown, TimePasses, ResetSignal, Goto, signals, polling, queues, channels, timers, listeners, children,
     Beginning, Early
<1>7. Watching'
  BY <1>0 DEF Top, InitiateShutdown, TimePasses, ResetSignal, Goto, signals, polling, queues, channels, timers, listeners, children,
     Watching, Watched, Listed
<1>8. exit' = "no" => Lists'
  BY <1>0 DEF Top, InitiateShutdown, TimePasses, ResetSignal, Goto, signals, polling, queues, channels, timers, listeners, children,
     Lists, Listed, Idling
<1>9. exit' = "no" => Counts'
  <2>1. count' = count /\ assigned' = assigned
    BY DEF Top, TimePasses, Terminate
  <2> QED BY <1>0, <1>20, <1>24, <2>1 DEF Counts
<1>10. exit' = "no" => Protocol'
  BY <1>0 DEF Top, InitiateShutdown, TimePasses, ResetSignal, Goto, signals, polling, queues, channels, timers, listeners, children,
     Protocol, Talk, Listed, Idling
<1>11. exit' = "no" => Ownership'
  <2>1. \A l : IsMain(l)' <=> IsMain(l)
    BY <1>20 DEF IsMain
  <2> QED BY <1>0, <1>20, <1>24, <2>1 DEF Ownership, Early
<1>12. exit' = "no" => Times'
  <2>1. ASSUME pool.idle_timeout, NEW i \in DOMAIN idle, NEW j \in DOMAIN idle, i <= j, expiration'[idle[i]] = "future"
        PROVE  expiration'[idle[j]] = "future"
    <3>1. idle \in Seq(Worker) /\ DOMAIN idle = 1 .. Len(idle) /\ Len(idle) \in Nat /\ n \in Nat
      BY <1>0, LenProperties DEF TypeLists
    <3>2. idle[i] \in Worker /\ idle[j] \in Worker /\ idle[i] \in Idling /\ idle[j] \in Idling
      BY <3>1, ElementOfSeq DEF Idling
    <3>3. expiration[idle[i]] = "future" /\ expiration[idle[j]] = "future"
      BY <1>0, <1>20, <2>1, <3>2 DEF Times
    <3>4. idle[i] \notin FirstIdle(n)
      <4>1. SUFFICES ASSUME idle[i] \in FirstIdle(n) PROVE FALSE
        OBVIOUS
      <4>2. expiration'[idle[i]] = Expired(expiration[idle[i]])
        BY <1>22, <3>2, <4>1
      <4>3. expiration'[idle[i]] = "past"
        BY <3>3, <4>2 DEF Expired
      <4> QED BY <2>1, <4>3
    <3>5. i \notin 1 .. n
      BY <3>4 DEF FirstIdle
    <3>6. j \notin 1 .. n
      BY <2>1, <3>1, <3>5
    <3>7. idle[j] \notin FirstIdle(n)
      BY <1>0, <3>6 DEF FirstIdle, Lists, Distinct
    <3> QED BY <1>22, <3>2, <3>3, <3>7
  <2> QED BY <1>20, <2>1 DEF Times, Early
<1>13. exit' \notin {"past", "data"}
  BY <1>0 DEF Top, InitiateShutdown, TimePasses, ResetSignal, Goto, TypeControl
<1> QED BY <1>1, <1>2, <1>3, <1>4, <1>5, <1>6, <1>7, <1>8, <1>9, <1>10, <1>11, <1>12, <1>13 DEF PoolInv, Going

\* moonbr_terminate_idle_worker, as it is called for one that has expired, that is too
\* many, or at the end.
LEMMA StopIdleKeeps ==
  ASSUME PoolInv, exit = "no", idle # <<>>, pc \in {"expire", "serve", "finish"},
         TerminateIdle, ~SendFails(FirstIdle(1)), timer' \in {timer, [timer EXCEPT !.exit = "future"]},
         UNCHANGED <<pc, exit, pool, shutdown, wait, signals, polling, channels, wakeup,
                     use_fork_error, terminated, listeners, pending, budget>>
  PROVE  PoolInv'
<1>0. /\ TypeControl /\ TypeLists /\ TypeCounts /\ TypeChildren /\ TypePool
      /\ Beginning /\ Watching /\ Lists /\ Counts /\ Protocol /\ Ownership /\ Times
  BY DEF PoolInv, Going
<1>20. Len(idle) \in Nat /\ Len(idle) # 0 /\ 1 \in 0 .. Len(idle)
  <2>1. idle \in Seq(Worker)
    BY <1>0 DEF TypeLists
  <2>2. Len(idle) \in Nat /\ Len(idle) # 0
    BY <2>1, LenProperties, EmptySeq
  <2> QED BY <2>2
<1>21. PopIdle(1) /\ Send(FirstIdle(1), "terminate") /\ UNCHANGED <<workers, main, proc, sigterm, statuses>>
  BY DEF TerminateIdle
<1>22. /\ TypeLists' /\ TypeCounts' /\ Lists' /\ Counts' /\ Idling' = Idling \ FirstIdle(1) /\ Listed' = Listed
  BY <1>0, <1>20, <1>21, PopKeeps DEF channels, polling, TypeLists
<1>23. TypeChildren' /\ Protocol'
  BY <1>20, <1>21, SendKeeps
<1>24. /\ \A k \in 1 .. Len(idle) - 1 : idle'[k] = idle[1 + k]
       /\ Len(idle') = Len(idle) - 1 /\ idle' \in Seq(Worker) /\ Elements(idle') = Idling \ FirstIdle(1)
  BY <1>20, <1>21, FirstAreIdle DEF PopIdle
<1>25. \A w \in Worker : w \notin FirstIdle(1) => expiration'[w] = expiration[w]
  BY <1>0, <1>21 DEF PopIdle
<1>26. /\ pc' = pc /\ exit' = exit /\ pool' = pool /\ control' = control /\ restart' = restart /\ wakeup' = wakeup
       /\ idle_listeners' = idle_listeners /\ connected_listeners' = connected_listeners
       /\ Listener' = Listener
  BY DEF channels, listeners, Listener
<1>1. TypeControl'
  BY <1>0 DEF TypeControl, Time, signals, polling
<1>2. TypeLists'
  BY <1>22
<1>3. TypeCounts'
  BY <1>22
<1>4. TypeChildren'
  BY <1>23
<1>5. TypePool'
  BY <1>0 DEF TerminateIdle, signals, polling, queues, channels, timers, listeners, children,
     TypePool, Listener, Early
<1>6. Beginning'
  BY <1>0, <1>26 DEF Beginning, Early
<1>7. Watching'
  BY <1>0, <1>22, <1>26 DEF Watching, Watched, channels, polling
<1>8. exit' = "no" => Lists'
  BY <1>22
<1>9. exit' = "no" => Counts'
  BY <1>22
<1>10. exit' = "no" => Protocol'
  BY <1>23
<1>11. exit' = "no" => Ownership'
  <2>1. \A l : IsMain(l)' <=> IsMain(l)
    BY <1>26 DEF IsMain
  <2> QED BY <1>0, <1>22, <1>26, <2>1 DEF Ownership, Early
<1>12. exit' = "no" => Times'
  <2>1. \A l : IsTimer(l)' <=> IsTimer(l)
    BY <1>26 DEF IsTimer
  <2>2. ASSUME pool.idle_timeout, pc # "expire", NEW w \in Idling' PROVE expiration'[w] = "future"
    <3>1. w \in Idling /\ w \notin FirstIdle(1) /\ w \in Worker
      BY <1>22, <2>2, CountsAreTrue
    <3> QED BY <1>0, <1>25, <2>2, <3>1 DEF Times
  <2>3. ASSUME pool.idle_timeout, pc = "expire", NEW i \in DOMAIN idle', NEW j \in DOMAIN idle', i <= j,
               expiration'[idle'[i]] = "future"
        PROVE  expiration'[idle'[j]] = "future"
    <3>1. DOMAIN idle' = 1 .. Len(idle) - 1 /\ DOMAIN idle = 1 .. Len(idle)
      BY <1>0, <1>24, LenProperties DEF TypeLists
    <3>2. idle'[i] = idle[1 + i] /\ idle'[j] = idle[1 + j]
      BY <1>24, <2>3, <3>1
    <3>3. 1 + i \in 1 .. Len(idle) /\ 1 + j \in 1 .. Len(idle) /\ 1 + i <= 1 + j
      BY <1>20, <2>3, <3>1
    <3>4. idle'[i] \in Elements(idle') /\ idle'[j] \in Elements(idle')
      BY <2>3 DEF Elements
    <3>5. idle'[i] \notin FirstIdle(1) /\ idle'[j] \notin FirstIdle(1) /\ idle'[i] \in Worker /\ idle'[j] \in Worker
      BY <1>24, <3>4, CountsAreTrue
    <3> HIDE DEF Elements
    <3>6. expiration[idle[1 + i]] = "future"
      BY <1>25, <2>3, <3>2, <3>5
    <3>7. expiration[idle[1 + j]] = "future"
      <4> DEFINE a == 1 + i
                 b == 1 + j
      <4>1. a \in DOMAIN idle /\ b \in DOMAIN idle /\ a <= b /\ expiration[idle[a]] = "future"
        BY <3>1, <3>3, <3>6
      <4> HIDE DEF a, b
      <4>2. expiration[idle[b]] = "future"
        BY <1>0, <2>3, <4>1 DEF Times
      <4> QED BY <4>2 DEF b
    <3> QED BY <1>25, <3>2, <3>5, <3>7
  <2>4. pc \notin Early \cup {"expire"} =>
          \A l \in Elements(idle_listeners) : IsTimer(l) => wakeup[l] # "past"
    BY <1>0 DEF Times
  <2> QED BY <1>26, <2>1, <2>2, <2>3, <2>4 DEF Times
<1>13. exit' \notin {"past", "data"}
  BY <1>0 DEF TerminateIdle, TypeControl
<1> QED BY <1>1, <1>2, <1>3, <1>4, <1>5, <1>6, <1>7, <1>8, <1>9, <1>10, <1>11, <1>12, <1>13 DEF PoolInv, Going

LEMMA ReadControlKeeps ==
  ASSUME PoolInv, exit = "no", NEW w \in control, ReadControl(w), pc = "input"
  PROVE  PoolInv'
<1>0. /\ TypeControl /\ TypeLists /\ TypeCounts /\ TypeChildren /\ TypePool
      /\ Beginning /\ Watching /\ Lists /\ Counts /\ Protocol /\ Ownership /\ Times
  BY DEF PoolInv, Going
<1>20. w \in Worker /\ w \in Listed /\ Talk(w) /\ restart \in [Worker -> Listener \cup {Nil}]
       /\ wakeup \in [Listener -> Time] /\ idle_listeners \in Seq(Listener) /\ Nil \notin Listener
  <2>1. Listener \subseteq Nat
    BY <1>0, LenProperties DEF TypePool, Listener
  <2> QED BY <1>0, <2>1, OptionAssumption DEF TypeLists, Watching, Protocol, TypePool, Early
<1>21. statuses[w] = <<>> \/ w \notin Idling
  BY <1>20 DEF Talk
<1>22. /\ pc' = pc /\ exit' = exit /\ pool' = pool /\ workers' = workers /\ main' = main /\ error' = error
       /\ proc' = proc /\ commands' = commands /\ sigterm' = sigterm /\ poll_workers' = poll_workers
       /\ statuses' = [statuses EXCEPT ![w] = IF @ = <<>> THEN @ ELSE Tail(@)]
       /\ revents' = revents \ {<<w, "control">>} /\ IntervalRestart(w)
       /\ shutdown' = shutdown /\ signalfd' = signalfd /\ cond' = cond /\ wait' = wait /\ timer' = timer
       /\ use_fork_error' = use_fork_error /\ terminated' = terminated
  BY <1>21 DEF ReadControl, Terminate, signals
<1>23. \/ /\ CloseControl(w) /\ UNCHANGED <<idle, assigned, count, expiration>>
          /\ statuses[w] = <<>> \/ Head(statuses[w]) = "goodbye"
       \/ /\ AddIdle(w) /\ UNCHANGED <<control, refresh_needed>>
          /\ w \notin Idling /\ statuses[w] # <<>> /\ Head(statuses[w]) = "idle"
  BY <1>21 DEF ReadControl, Terminate
<1>24. Listed' = Listed /\ Listener' = Listener
  BY <1>22 DEF Listed, Listener
<1>25. /\ \/ /\ restart[w] = Nil /\ restart' = restart /\ idle_listeners' = idle_listeners /\ wakeup' = wakeup
          \/ /\ restart[w] \in Listener /\ restart' = [restart EXCEPT ![w] = Nil]
             /\ idle_listeners' = Append(idle_listeners, restart[w])
             /\ wakeup' = [wakeup EXCEPT ![restart[w]] = wakeup'[restart[w]]]
             /\ wakeup'[restart[w]] \in {"now", "future"}
       /\ connected_listeners' = connected_listeners
  BY <1>20, <1>22 DEF IntervalRestart, AddIdleListener, RestartTimes, listeners
<1>26. /\ idle_listeners' \in Seq(Listener) /\ restart' \in [Worker -> Listener \cup {Nil}]
       /\ wakeup' \in [Listener -> Time] /\ restart'[w] = Nil /\ Distinct(idle_listeners')
       /\ \A v \in Worker : v # w => restart'[v] = restart[v]
       /\ \A l \in Listener : l \in Elements(idle_listeners') <=> l \in Elements(idle_listeners) \/ l = restart[w]
       /\ \A l \in Listener : wakeup'[l] = wakeup[l] \/ (l = restart[w] /\ wakeup'[l] \in {"now", "future"})
  <2>1. CASE restart[w] = Nil
    BY <1>0, <1>20, <1>25, <2>1 DEF Ownership
  <2>2. CASE restart[w] # Nil
    <3>1. /\ restart[w] \in Listener /\ restart[w] \notin Elements(idle_listeners) /\ Distinct(idle_listeners)
          /\ restart' = [restart EXCEPT ![w] = Nil] /\ idle_listeners' = Append(idle_listeners, restart[w])
          /\ wakeup' = [wakeup EXCEPT ![restart[w]] = wakeup'[restart[w]]]
          /\ wakeup'[restart[w]] \in {"now", "future"}
      BY <1>0, <1>20, <1>25, <2>2 DEF Ownership
    <3>2. /\ idle_listeners' \in Seq(Listener) /\ Distinct(idle_listeners')
          /\ Elements(idle_listeners') = Elements(idle_listeners) \cup {restart[w]}
      BY <1>20, <3>1, ElementsAppend
    <3>3. wakeup' \in [Listener -> Time] /\ \A l \in Listener : l # restart[w] => wakeup'[l] = wakeup[l]
      BY <1>20, <3>1 DEF Time
    <3> QED BY <1>20, <3>1, <3>2, <3>3
  <2> QED BY <2>1, <2>2
<1>27. /\ control' \subseteq control /\ control \ control' \subseteq {w} /\ refresh_needed' \in BOOLEAN
       /\ Idling' \subseteq Idling \cup {w} /\ Idling \subseteq Idling'
  <2>1. CASE CloseControl(w) /\ UNCHANGED <<idle, assigned, count, expiration>>
    BY <1>0, <2>1 DEF CloseControl, Idling
  <2>2. CASE AddIdle(w) /\ UNCHANGED <<control, refresh_needed>>
    <3>1. Elements(idle') = Elements(idle) \cup {w}
      BY <1>0, <1>20, <2>2, ElementsAppend DEF AddIdle, TypeLists
    <3> QED BY <1>0, <2>2, <3>1 DEF Idling, Elements, TypeControl
  <2> QED BY <1>23, <2>1, <2>2
<1>28. ASSUME AddIdle(w), w \notin Idling
       PROVE  /\ idle' \in Seq(Worker) /\ Distinct(idle') /\ Len(idle') = Len(idle) + 1
              /\ Idling' = Idling \cup {w} /\ assigned' = assigned \ {w} /\ expiration' \in [Worker -> Time]
              /\ pool.idle_timeout => expiration'[w] = "future"
              /\ \A v \in Worker : v # w => expiration'[v] = expiration[v]
              /\ count'.total = count.total /\ count'.idle = count.idle + 1
              /\ count'.unassigned = Cardinality(Listed \ (assigned \ {w})) /\ TypeCounts'
  <2>1. idle \in Seq(Worker) /\ Distinct(idle) /\ Idling = Elements(idle) /\ Idling' = Elements(idle')
        /\ idle' = Append(idle, w) /\ assigned' = assigned \ {w}
    BY <1>0, <1>28 DEF TypeLists, Lists, Idling, Elements, AddIdle
  <2>2. /\ idle' \in Seq(Worker) /\ Distinct(idle') /\ Len(idle') = Len(idle) + 1
        /\ Idling' = Idling \cup {w}
    BY <1>20, <1>28, <2>1, ElementsAppend, AppendProperties
  <2>3. /\ expiration' \in [Worker -> Time] /\ (pool.idle_timeout => expiration'[w] = "future")
        /\ \A v \in Worker : v # w => expiration'[v] = expiration[v]
    BY <1>0, <1>20, <1>28 DEF AddIdle, TypeLists, TypePool, Time
  <2>4. /\ count.total \in Nat /\ count.idle \in Nat /\ count.unassigned \in Nat
        /\ count = [idle |-> count.idle, unassigned |-> count.unassigned, total |-> count.total]
        /\ IsFiniteSet(Listed \ assigned) /\ count.unassigned = Cardinality(Listed \ assigned)
    BY <1>0, CountsAreTrue DEF TypeCounts
  <2>5. count' = [idle |-> count.idle + 1,
                  unassigned |-> IF w \in assigned THEN count.unassigned + 1 ELSE count.unassigned,
                  total |-> count.total]
    BY <1>0, <1>28 DEF AddIdle, TypeCounts
  <2>6. count'.unassigned = Cardinality(Listed \ (assigned \ {w}))
    <3>1. CASE w \in assigned
      <4>1. Listed \ (assigned \ {w}) = (Listed \ assigned) \cup {w} /\ w \notin Listed \ assigned
        BY <1>20, <3>1
      <4> DEFINE U == Listed \ assigned
      <4>2. IsFiniteSet(U)
        BY <2>4
      <4> HIDE DEF U
      <4>3. Cardinality(U \cup {w}) = IF w \in U THEN Cardinality(U) ELSE Cardinality(U) + 1
        BY <4>2, FS_AddElement
      <4>4. Cardinality((Listed \ assigned) \cup {w}) = Cardinality(Listed \ assigned) + 1
        BY <4>1, <4>3 DEF U
      <4> QED BY <2>4, <2>5, <3>1, <4>1, <4>4
    <3>2. CASE w \notin assigned
      <4>1. assigned \ {w} = assigned
        BY <3>2
      <4> QED BY <2>4, <2>5, <3>2, <4>1
    <3> QED BY <3>1, <3>2
  <2>7. TypeCounts'
    <3>1. count.idle + 1 \in Nat /\ count.unassigned + 1 \in Nat
      BY <2>4
    <3> QED BY <2>4, <2>5, <3>1 DEF TypeCounts
  <2> QED BY <2>1, <2>2, <2>3, <2>5, <2>6, <2>7
<1>29. ASSUME CloseControl(w), UNCHANGED <<idle, assigned, count, expiration>>
       PROVE  Idling' = Idling
  BY <1>29 DEF Idling
<1>1. TypeControl'
  BY <1>0, <1>22, <1>27 DEF TypeControl
<1>2. TypeLists'
  <2>1. control' \subseteq Worker
    BY <1>0, <1>27 DEF TypeLists
  <2>2. idle' \in Seq(Worker) /\ assigned' \subseteq Worker /\ expiration' \in [Worker -> Time]
    BY <1>0, <1>23, <1>28 DEF TypeLists
  <2> QED BY <1>0, <1>22, <2>1, <2>2 DEF TypeLists
<1>3. TypeCounts'
  BY <1>0, <1>23, <1>28 DEF TypeCounts
<1>4. TypeChildren'
  <2>1. \A s \in Seq({"idle", "goodbye"}) : s # <<>> => Tail(s) \in Seq({"idle", "goodbye"})
    BY HeadTailProperties
  <2> QED BY <1>0, <1>22, <2>1 DEF TypeChildren
<1>5. TypePool'
  BY <1>0, <1>22, <1>24, <1>25, <1>26 DEF TypePool
<1>6. Beginning'
  BY <1>0, <1>22 DEF Beginning, Early
<1>7. Watching'
  <2>1. control' \subseteq Listed' /\ error' \subseteq Listed'
    BY <1>0, <1>22, <1>24, <1>27 DEF Watching
  <2>2. ASSUME NEW e \in revents', e[2] # "listener" PROVE e \in Watched'
    <3>1. e \in Watched /\ e # <<w, "control">>
      BY <1>0, <1>22, <2>2 DEF Watching
    <3>2. CASE e \in control \X {"control"}
      <4>1. PICK v \in control : e = <<v, "control">>
        BY <3>2
      <4>2. v \in control'
        BY <1>27, <3>1, <4>1
      <4> QED BY <4>1, <4>2 DEF Watched
    <3>3. CASE e \in error \X {"error"}
      BY <1>22, <3>3 DEF Watched
    <3> QED BY <3>1, <3>2, <3>3 DEF Watched
  <2>3. ~refresh_needed' => refresh_needed' = refresh_needed /\ control' = control
    BY <1>23 DEF CloseControl
  <2>4. ~refresh_needed' => Elements(poll_workers') = Watched'
    BY <1>0, <1>22, <2>3 DEF Watching, Watched
  <2> QED BY <1>22, <2>1, <2>2, <2>4 DEF Watching
<1>8. exit' = "no" => Lists'
  <2>1. CASE CloseControl(w) /\ UNCHANGED <<idle, assigned, count, expiration>>
    BY <1>0, <1>22, <1>24, <1>29, <2>1 DEF Lists
  <2>2. CASE AddIdle(w) /\ w \notin Idling
    BY <1>0, <1>20, <1>22, <1>24, <1>28, <2>2 DEF Lists
  <2> QED BY <1>23, <2>1, <2>2
<1>9. exit' = "no" => Counts'
  <2>1. CASE CloseControl(w) /\ UNCHANGED <<idle, assigned, count, expiration>>
    BY <1>0, <1>22, <1>24, <2>1 DEF Counts
  <2>2. CASE AddIdle(w) /\ w \notin Idling
    BY <1>0, <1>22, <1>24, <1>28, <2>2 DEF Counts
  <2> QED BY <1>23, <2>1, <2>2
<1>10. exit' = "no" => Protocol'
  <2>1. ASSUME NEW v \in Worker, v # w PROVE Talk(v)'
    <3>1. proc'[v] = proc[v] /\ statuses'[v] = statuses[v] /\ commands'[v] = commands[v] /\ Talk(v)
      BY <1>0, <1>22, <2>1 DEF TypeChildren, Protocol
    <3>2. (v \in Idling' <=> v \in Idling) /\ Listed' = Listed
      BY <1>24, <1>27, <2>1
    <3> QED BY <3>1, <3>2 DEF Talk
  <2>2. Talk(w)'
    <3>1. /\ statuses[w] \in {<<>>, <<"idle">>, <<"goodbye">>}
          /\ statuses'[w] = IF statuses[w] = <<>> THEN statuses[w] ELSE Tail(statuses[w])
      BY <1>0, <1>20, <1>22 DEF Talk, TypeChildren
    <3>2. statuses'[w] = <<>>
      BY <3>1, Words
    <3>3. CASE CloseControl(w) /\ UNCHANGED <<idle, assigned, count, expiration>> /\ (statuses[w] = <<>> \/ Head(statuses[w]) = "goodbye")
      <4>1. statuses[w] # <<"idle">>
        BY <3>3, Words
      <4> QED BY <1>20, <1>22, <1>24, <1>29, <3>2, <3>3, <4>1 DEF Talk
    <3>4. CASE AddIdle(w) /\ w \notin Idling /\ statuses[w] # <<>> /\ Head(statuses[w]) = "idle"
      <4>1. w \in Idling' /\ statuses[w] = <<"idle">>
        BY <1>28, <3>1, <3>4, Words
      <4>2. proc[w] \in {"waiting", "exiting", "zombie"} /\ (proc[w] = "waiting" => commands[w] = <<>>)
        <5>1. /\ proc[w] # "none" /\ statuses[w] # <<>> /\ statuses[w] # <<"goodbye">>
              /\ proc[w] \in {"none", "prepare", "waiting", "taken", "connect", "finish",
                             "exiting", "zombie"}
          BY <1>0, <1>20, <4>1, Words DEF TypeChildren, Lists
        <5> QED BY <1>20, <3>4, <4>1, <5>1 DEF Talk
      <4> QED BY <1>22, <1>24, <3>2, <4>1, <4>2 DEF Talk
    <3> QED BY <1>23, <3>3, <3>4
  <2> QED BY <2>1, <2>2 DEF Protocol
<1>11. exit' = "no" => Ownership'
  <2>1. Elements(idle_listeners') \cap Elements(connected_listeners') = {}
    <3>1. Elements(idle_listeners') \subseteq Listener
      BY <1>26, ElementsIn
    <3>2. restart[w] \in Listener => restart[w] \notin Elements(connected_listeners)
      BY <1>0, <1>20 DEF Ownership
    <3> QED BY <1>0, <1>25, <1>26, <3>1, <3>2 DEF Ownership
  <2>2. ASSUME NEW v \in Worker, restart'[v] # Nil
        PROVE  /\ v \in control' /\ v \notin Idling'
               /\ restart'[v] \notin Elements(idle_listeners') \cup Elements(connected_listeners')
               /\ \A u \in Worker : restart'[u] = restart'[v] => u = v
    <3>1. v # w /\ restart'[v] = restart[v] /\ restart[v] \in Listener
      BY <1>20, <1>26, <2>2
    <3>2. /\ v \in control /\ v \notin Idling
          /\ restart[v] \notin Elements(idle_listeners) \cup Elements(connected_listeners)
          /\ \A u \in Worker : restart[u] = restart[v] => u = v
      BY <1>0, <2>2, <3>1 DEF Ownership
    <3>3. restart[v] # restart[w]
      BY <1>20, <3>1, <3>2
    <3> QED BY <1>20, <1>25, <1>26, <1>27, <3>1, <3>2, <3>3
  <2>3. ASSUME NEW l \in Listener, ~IsMain(l)
        PROVE  \/ l \in Elements(idle_listeners') \cup Elements(connected_listeners')
               \/ \E v \in Worker : restart'[v] = l
    <3>1. \/ l \in Elements(idle_listeners) \cup Elements(connected_listeners)
          \/ \E v \in Worker : restart[v] = l
      BY <1>0, <2>3 DEF Ownership, Early
    <3> QED BY <1>25, <1>26, <3>1
  <2>4. \A l : IsMain(l)' <=> IsMain(l)
    BY <1>22 DEF IsMain
  <2> QED BY <1>0, <1>22, <1>24, <1>25, <1>26, <2>1, <2>2, <2>3, <2>4 DEF Ownership
<1>12. exit' = "no" => Times'
  <2>1. ASSUME pool.idle_timeout, NEW v \in Idling' PROVE expiration'[v] = "future"
    <3>1. \A u \in Idling : u \in Worker /\ expiration[u] = "future"
      BY <1>0, <2>1, CountsAreTrue DEF Times
    <3>2. CASE CloseControl(w) /\ UNCHANGED <<idle, assigned, count, expiration>>
      BY <1>29, <2>1, <3>1, <3>2
    <3>3. CASE AddIdle(w) /\ w \notin Idling
      BY <1>28, <2>1, <3>1, <3>3
    <3> QED BY <1>23, <3>2, <3>3
  <2>2. ASSUME NEW l \in Elements(idle_listeners'), IsTimer(l) PROVE wakeup'[l] # "past"
    <3>1. l \in Listener
      BY <1>26, ElementsIn
    <3>2. l \in Elements(idle_listeners) \/ l = restart[w]
      BY <1>26, <3>1
    <3>3. l \in Elements(idle_listeners) => wakeup[l] # "past"
      BY <1>0, <2>2 DEF Times, Early
    <3>4. l = restart[w] => wakeup'[l] \in {"now", "future"}
      BY <1>20, <1>25, <3>1
    <3> QED BY <1>26, <3>1, <3>2, <3>3, <3>4
  <2>3. \A l : IsTimer(l)' <=> IsTimer(l)
    BY <1>22 DEF IsTimer
  <2> QED BY <1>22, <2>1, <2>2, <2>3 DEF Times
<1>13. exit' \notin {"past", "data"}
  BY <1>0, <1>22
<1> QED BY <1>1, <1>2, <1>3, <1>4, <1>5, <1>6, <1>7, <1>8, <1>9, <1>10, <1>11, <1>12, <1>13 DEF PoolInv, Going

LEMMA ConnectKeeps ==
  ASSUME PoolInv, exit = "no", Connect
  PROVE  PoolInv'
<1>0. /\ TypeControl /\ TypeLists /\ TypeCounts /\ TypeChildren /\ TypePool
      /\ Beginning /\ Watching /\ Lists /\ Counts /\ Protocol /\ Ownership /\ Times
  BY DEF PoolInv, Going
<1> DEFINE l == Head(connected_listeners)
<1>20. /\ pc = "serve" /\ CanConnect /\ connected_listeners' = Tail(connected_listeners)
       /\ UNCHANGED <<pool, shutdown, wait, signals, polling, workers, channels, timers,
                      proc, sigterm, statuses, budget>>
  BY DEF Connect, PopConnectedListener
<1>21. PICK n \in 0 .. Len(idle), aborted \in BOOLEAN :
          /\ IF IsTimer(l) THEN n = 1 /\ ~aborted /\ ConnectTimer(l) ELSE ConnectSocket(l, n, aborted)
          /\ IF SendFails(FirstIdle(n)) THEN exit' = "badfd" /\ pc' = "done" ELSE UNCHANGED <<pc, exit>>
  BY DEF Connect
<1>22. PopIdle(n) /\ Send(FirstIdle(n), "connect") /\ main' \in {main, main \cup FirstIdle(n)}
  BY <1>21 DEF ConnectTimer, ConnectSocket
<1>23. /\ connected_listeners \in Seq(Listener) /\ connected_listeners # <<>> /\ idle # <<>>
       /\ idle_listeners \in Seq(Listener) /\ idle \in Seq(Worker) /\ Listener' = Listener
       /\ Distinct(connected_listeners) /\ Distinct(idle_listeners)
       /\ restart \in [Worker -> Listener \cup {Nil}]
  BY <1>0, <1>20 DEF TypePool, TypeLists, Ownership, Listener, CanConnect
<1>24. /\ l \in Listener /\ l \in Elements(connected_listeners) /\ l \notin Elements(idle_listeners)
       /\ connected_listeners' \in Seq(Listener) /\ Distinct(connected_listeners')
       /\ Elements(connected_listeners') = Elements(connected_listeners) \ {l}
  <2>1. /\ l \in Listener /\ l \in Elements(connected_listeners)
        /\ Tail(connected_listeners) \in Seq(Listener) /\ Distinct(Tail(connected_listeners))
        /\ Elements(Tail(connected_listeners)) = Elements(connected_listeners) \ {l}
    BY <1>23, ElementsTail
  <2> QED BY <1>0, <1>20, <2>1 DEF Ownership
<1> HIDE DEF l
<1>25. main' \subseteq Worker
  BY <1>0, <1>22, FirstAreIdle DEF TypeLists
<1>26. /\ TypeLists' /\ TypeCounts' /\ Lists' /\ Counts' /\ Idling' = Idling \ FirstIdle(n) /\ Listed' = Listed
  BY <1>20, <1>22, <1>25, PopKeeps DEF channels, polling
<1>27. TypeChildren' /\ Protocol'
  BY <1>20, <1>22, SendKeeps
<1>28. Nil \notin Listener
  BY <1>0, OptionAssumption, LenProperties DEF TypePool, Listener
<1>29. \A i : (IsMain(i)' <=> IsMain(i)) /\ (IsTimer(i)' <=> IsTimer(i))
  BY <1>20 DEF IsMain, IsTimer
<1>30. ASSUME IsTimer(l)
       PROVE  /\ Head(idle) \in Worker /\ Head(idle) \in FirstIdle(n) /\ Head(idle) \in Idling
              /\ idle_listeners' = idle_listeners
              /\ IF IsMain(l) THEN restart' = restart ELSE restart' = [restart EXCEPT ![Head(idle)] = l]
  <2>1. n = 1 /\ ConnectTimer(l)
    BY <1>21, <1>30
  <2>2. Head(idle) = idle[1] /\ Len(idle) \in Nat /\ Len(idle) # 0 /\ DOMAIN idle = 1 .. Len(idle)
    BY <1>23, HeadTailProperties, LenProperties, EmptySeq
  <2>3. 1 \in DOMAIN idle \cap 1 .. 1
    BY <2>2
  <2>4. Head(idle) \in FirstIdle(n)
    BY <2>1, <2>2, <2>3 DEF FirstIdle
  <2> QED BY <1>21, <2>1, <2>4, FirstAreIdle DEF ConnectTimer
<1>31. ASSUME ~IsTimer(l)
       PROVE  restart' = restart /\ idle_listeners' = Append(idle_listeners, l)
  BY <1>21, <1>31 DEF ConnectSocket, AddIdleListener
<1>32. /\ idle_listeners' \in Seq(Listener) /\ Distinct(idle_listeners')
       /\ Elements(idle_listeners') = IF IsTimer(l) THEN Elements(idle_listeners) ELSE Elements(idle_listeners) \cup {l}
       /\ restart' \in [Worker -> Listener \cup {Nil}]
  <2>1. CASE IsTimer(l)
    BY <1>23, <1>24, <1>30, <2>1
  <2>2. CASE ~IsTimer(l)
    <3>1. idle_listeners' = Append(idle_listeners, l) /\ restart' = restart
      BY <1>31, <2>2
    <3>2. /\ Append(idle_listeners, l) \in Seq(Listener) /\ Distinct(Append(idle_listeners, l))
          /\ Elements(Append(idle_listeners, l)) = Elements(idle_listeners) \cup {l}
      BY <1>23, <1>24, ElementsAppend
    <3> QED BY <1>23, <2>2, <3>1, <3>2
  <2> QED BY <2>1, <2>2
<1>33. exit' \in {"badfd", "no"} /\ pc' \in {"serve", "done"} /\ (exit' = "no" => pc' = "serve" /\ FirstIdle(n) \subseteq control)
  BY <1>20, <1>21 DEF SendFails
<1>1. TypeControl'
  BY <1>0, <1>20, <1>33 DEF TypeControl, signals, polling, timers, Block, Reason
<1>2. TypeLists'
  BY <1>26
<1>3. TypeCounts'
  BY <1>26
<1>4. TypeChildren'
  BY <1>27
<1>5. TypePool'
  <2>1. exit' = "no" => wakeup' \in [Listener -> Time]
    BY <1>0, <1>20 DEF TypePool, timers, Early
  <2> QED BY <1>0, <1>20, <1>23, <1>24, <1>32, <2>1 DEF TypePool
<1>6. Beginning'
  BY <1>33 DEF Beginning, Early
<1>7. Watching'
  BY <1>0, <1>20, <1>26, <1>33 DEF Watching, Watched, channels, polling
<1>8. exit' = "no" => Lists'
  BY <1>26
<1>9. exit' = "no" => Counts'
  BY <1>26
<1>10. exit' = "no" => Protocol'
  BY <1>27
<1>11. exit' = "no" => Ownership'
  <2> SUFFICES ASSUME exit' = "no" PROVE Ownership'
    OBVIOUS
  <2>0. pc' = "serve" /\ FirstIdle(n) \subseteq control /\ control' = control
    BY <1>20, <1>33 DEF channels
  <2>1. Elements(idle_listeners') \cap Elements(connected_listeners') = {}
    BY <1>0, <1>24, <1>32 DEF Ownership
  <2>2. CASE IsTimer(l) /\ ~IsMain(l)
    <3> DEFINE h == Head(idle)
    <3>1. h \in Worker /\ h \in FirstIdle(n) /\ h \in Idling /\ restart' = [restart EXCEPT ![h] = l]
      BY <1>30, <2>2
    <3> HIDE DEF h
    <3>2. restart[h] = Nil
      BY <1>0, <3>1 DEF Ownership
    <3>3. \A v \in Worker : restart[v] # l
      BY <1>0, <1>24, <1>28 DEF Ownership
    <3>4. restart'[h] = l /\ \A v \in Worker : v # h => restart'[v] = restart[v]
      BY <1>23, <3>1
    <3>5. ASSUME NEW v \in Worker, restart'[v] # Nil
          PROVE  /\ v \in control' /\ v \notin Idling'
                 /\ restart'[v] \notin Elements(idle_listeners') \cup Elements(connected_listeners')
                 /\ \A u \in Worker : restart'[u] = restart'[v] => u = v
      <4>1. CASE v = h
        BY <1>24, <1>26, <1>32, <2>0, <2>2, <3>1, <3>3, <3>4, <4>1
      <4>2. CASE v # h
        <5>1. restart'[v] = restart[v] /\ restart[v] # Nil /\ restart[v] # l
          BY <3>3, <3>4, <3>5, <4>2
        <5> QED BY <1>0, <1>24, <1>26, <1>32, <2>0, <2>2, <3>4, <5>1 DEF Ownership
      <4> QED BY <4>1, <4>2
    <3>6. ASSUME NEW i \in Listener, ~IsMain(i)
          PROVE  \/ i \in Elements(idle_listeners') \cup Elements(connected_listeners')
                 \/ \E v \in Worker : restart'[v] = i
      <4>1. \/ i \in Elements(idle_listeners) \cup Elements(connected_listeners)
            \/ \E v \in Worker : restart[v] = i
        BY <1>0, <1>20, <3>6 DEF Ownership, Early
      <4>2. ASSUME NEW v \in Worker, restart[v] = i PROVE restart'[v] = i
        BY <1>28, <3>2, <3>4, <4>2
      <4> QED BY <1>24, <1>32, <2>2, <3>1, <3>4, <4>1, <4>2
    <3> QED BY <1>23, <1>24, <1>29, <1>32, <2>1, <3>5, <3>6 DEF Ownership
  <2>3. CASE ~(IsTimer(l) /\ ~IsMain(l))
    <3>1. restart' = restart /\ Idling' \subseteq Idling
      BY <1>26, <1>30, <1>31, <2>3
    <3>2. \A v \in Worker : restart[v] # l
      BY <1>0, <1>24, <1>28 DEF Ownership
    <3>3. /\ Elements(idle_listeners') \cup Elements(connected_listeners')
                \subseteq Elements(idle_listeners) \cup Elements(connected_listeners)
          /\ \A i \in Elements(idle_listeners) \cup Elements(connected_listeners) :
                i \in Elements(idle_listeners') \cup Elements(connected_listeners') \/ IsMain(i)
      BY <1>24, <1>32, <2>3
    <3> QED BY <1>0, <1>20, <1>23, <1>24, <1>29, <1>32, <2>0, <2>1, <3>1, <3>2, <3>3 DEF Ownership, Early
  <2> QED BY <2>2, <2>3
<1>12. exit' = "no" => Times'
  <2> SUFFICES ASSUME exit' = "no" PROVE Times'
    OBVIOUS
  <2>0. pc' = "serve" /\ pool' = pool /\ wakeup' = wakeup
    BY <1>20, <1>33 DEF timers
  <2>1. ASSUME pool.idle_timeout, NEW w \in Idling' PROVE expiration'[w] = "future"
    <3>1. w \in Idling /\ w \notin FirstIdle(n) /\ w \in Worker
      BY <1>26, <2>1, CountsAreTrue
    <3>2. expiration'[w] = expiration[w]
      BY <1>22, <3>1 DEF PopIdle
    <3> QED BY <1>0, <1>20, <2>1, <3>1, <3>2 DEF Times
  <2>2. ASSUME NEW i \in Elements(idle_listeners'), IsTimer(i) PROVE wakeup[i] # "past"
    <3>1. i \in Elements(idle_listeners)
      BY <1>32, <2>2
    <3> QED BY <1>0, <1>20, <2>2, <3>1 DEF Times, Early
  <2> QED BY <1>29, <2>0, <2>1, <2>2 DEF Times
<1>13. exit' \notin {"past", "data"}
  BY <1>33
<1> QED BY <1>1, <1>2, <1>3, <1>4, <1>5, <1>6, <1>7, <1>8, <1>9, <1>10, <1>11, <1>12, <1>13 DEF PoolInv, Going

LEMMA EnterPollKeeps ==
  ASSUME PoolInv, exit = "no", EnterPoll
  PROVE  PoolInv'
<1>0. /\ TypeControl /\ TypeLists /\ TypeCounts /\ TypeChildren /\ TypePool
      /\ Beginning /\ Watching /\ Lists /\ Counts /\ Protocol /\ Ownership /\ Times
  BY DEF PoolInv, Going
<1>1. TypeControl'
  BY <1>0 DEF EnterPoll, Terminate, Goto, signals, polling, queues, channels, timers, listeners, children,
     TypeControl, Block, Reason, Time
<1>2. TypeLists'
  BY <1>0 DEF EnterPoll, Terminate, Goto, signals, polling, queues, channels, timers, listeners, children,
     TypeLists
<1>3. TypeCounts'
  BY <1>0 DEF EnterPoll, Terminate, Goto, signals, polling, queues, channels, timers, listeners, children,
     TypeCounts
<1>4. TypeChildren'
  BY <1>0 DEF EnterPoll, Terminate, Goto, signals, polling, queues, channels, timers, listeners, children,
     TypeChildren
<1>5. TypePool'
  BY <1>0 DEF EnterPoll, Terminate, Goto, signals, polling, queues, channels, timers, listeners, children,
     TypePool, Listener, Early
<1>6. Beginning'
  BY <1>0 DEF EnterPoll, Terminate, Goto, signals, polling, queues, channels, timers, listeners, children,
     Beginning, Early
<1>7. Watching'
  BY <1>0 DEF EnterPoll, Terminate, Goto, signals, polling, queues, channels, timers, listeners, children,
     Watching, Watched, Listed
<1>8. exit' = "no" => Lists'
  BY <1>0 DEF EnterPoll, Terminate, Goto, signals, polling, queues, channels, timers, listeners, children,
     Lists, Listed, Idling
<1>9. exit' = "no" => Counts'
  BY <1>0 DEF EnterPoll, Terminate, Goto, signals, polling, queues, channels, timers, listeners, children,
     Counts, Listed
<1>10. exit' = "no" => Protocol'
  BY <1>0 DEF EnterPoll, Terminate, Goto, signals, polling, queues, channels, timers, listeners, children,
     Protocol, Talk, Listed, Idling
<1>11. exit' = "no" => Ownership'
  BY <1>0 DEF EnterPoll, Terminate, Goto, signals, polling, queues, channels, timers, listeners, children,
     Ownership, Listener, Idling, IsMain, Early
<1>12. exit' = "no" => Times'
  BY <1>0 DEF EnterPoll, Terminate, Goto, signals, polling, queues, channels, timers, listeners, children,
     Times, Idling, IsTimer, Early
<1>13. exit' \notin {"past", "data"}
  BY <1>0 DEF EnterPoll, Terminate, Goto, TypeControl
<1> QED BY <1>1, <1>2, <1>3, <1>4, <1>5, <1>6, <1>7, <1>8, <1>9, <1>10, <1>11, <1>12, <1>13 DEF PoolInv, Going

-----------------------------------------------------------------------------
(* Steps that choose one of the above                                      *)

\* One of the idle workers is told to terminate, or has no descriptor.
LEMMA TerminateIdleKeeps ==
  ASSUME PoolInv, exit = "no", ExpireIdle \/ TerminateExcessive \/ ShutdownIdle
  PROVE  PoolInv'
<1>1. CASE Terminate("badfd")
  BY <1>1, TerminateKeeps DEF Reason
<1>2. CASE ~Terminate("badfd")
  <2>1. /\ pc \in {"expire", "serve", "finish"} /\ TerminateIdle /\ ~SendFails(FirstIdle(1))
        /\ timer' \in {timer, [timer EXCEPT !.exit = "future"]}
        /\ UNCHANGED <<pc, exit, pool, shutdown, wait, signals, polling, channels, wakeup,
                       use_fork_error, terminated, listeners, pending, budget>>
    BY <1>2 DEF ExpireIdle, TerminateExcessive, ShutdownIdle, timers
  <2>2. idle # <<>>
    <3>1. CASE ExpireIdle \/ ShutdownIdle
      BY <3>1 DEF ExpireIdle, ShutdownIdle, IdleExpired
    <3>2. CASE TerminateExcessive
      <4>1. count.idle > pool.pre_fork
        BY <3>2 DEF TerminateExcessive, MayTerminate, Excessive
      <4>2. count.idle = Len(idle) /\ pool.pre_fork \in Nat /\ Len(<<>>) = 0
        BY EmptySeq DEF PoolInv, Going, Counts, TypePool
      <4> QED BY <4>1, <4>2
    <3> QED BY <3>1, <3>2
  <2> QED BY <2>1, <2>2, StopIdleKeeps
<1> QED BY <1>1, <1>2

\* What poll() reported is still open when it is dealt with.
LEMMA ProcessInputKeeps ==
  ASSUME PoolInv, exit = "no", ProcessInput
  PROVE  PoolInv'
<1>1. PICK i \in DOMAIN poll_workers :
          /\ poll_workers[i] \in revents
          /\ IF poll_workers[i][2] = "control" THEN ReadControl(poll_workers[i][1])
                                               ELSE ReadError(poll_workers[i][1])
  BY DEF ProcessInput
<1> DEFINE e == poll_workers[i]
<1>2. e \in Entry
  BY ElementOfSeq, LenProperties DEF PoolInv, TypeLists
<1>3. e[1] \in Worker /\ e[2] \in {"control", "error"} /\ e = <<e[1], e[2]>>
  BY <1>2 DEF Entry
<1>4. e \in Watched
  BY <1>1, <1>3 DEF PoolInv, Watching
<1>5. pc = "input" /\ (IF e[2] = "control" THEN ReadControl(e[1]) ELSE ReadError(e[1]))
  BY <1>1 DEF ProcessInput
<1> HIDE DEF e
<1>6. CASE e[2] = "control"
  <2>1. e[1] \in control
    BY <1>3, <1>4, <1>6 DEF Watched
  <2> QED BY <1>5, <1>6, <2>1, ReadControlKeeps
<1>7. CASE e[2] # "control"
  BY <1>3, <1>5, <1>7, ReadErrorKeeps
<1> QED BY <1>6, <1>7

LEMMA MasterKeeps ==
  ASSUME PoolInv, exit = "no", Master
  PROVE  PoolInv'
<1>1. CASE StartServer \/ NoListener \/ StartRun \/ \E o \in Options : Listen(o)
  BY <1>1, StartServerKeeps, NoListenerKeeps, StartRunKeeps, ListenKeeps
<1>2. ASSUME NEW ts, NEW ls, NEW n \in 0 .. Len(idle), Top(ts, ls, n)
      PROVE  PoolInv'
  <2>1. CASE "interrupt" \in cond
    BY <1>2, <2>1, TerminateKeeps DEF Top, Reason
  <2>2. CASE "interrupt" \notin cond
    BY <1>2, <2>2, TopKeeps
  <2> QED BY <2>1, <2>2
<1>3. CASE ExpireIdle \/ TerminateExcessive \/ ShutdownIdle
  BY <1>3, TerminateIdleKeeps
<1>4. CASE MarkListeners \/ ProcessInput \/ CollectDead
  BY <1>4, MarkListenersKeeps, ProcessInputKeeps, CollectDeadKeeps
<1>5. CASE Connect \/ (\E w \in Worker : CreateWorker(w)) \/ ForkFails \/ EndServe
  BY <1>5, ConnectKeeps, CreateWorkerKeeps, ForkFailsKeeps, EndServeKeeps
<1>6. CASE ShutdownComplete
  BY <1>6, TerminateKeeps DEF ShutdownComplete, Reason
<1>7. CASE BeginPoll \/ SkipPoll \/ EnterPoll \/ PollReturns
  BY <1>7, BeginPollKeeps, SkipPollKeeps, EnterPollKeeps, PollReturnsKeeps
<1> QED BY <1>1, <1>2, <1>3, <1>4, <1>5, <1>6, <1>7 DEF Master

LEMMA OutsideKeeps ==
  ASSUME PoolInv, exit = "no", (\E w \in Worker : Child(w)) \/ Environment
  PROVE  PoolInv'
<1>1. ASSUME NEW w \in Worker, Child(w) PROVE PoolInv'
  BY <1>1, ChildPreparedKeeps, ReceiveKeeps, BeginConnectKeeps, EndConnectKeeps,
     ChildFinishedKeeps, BecomeZombieKeeps DEF Child
<1>2. ASSUME Environment PROVE PoolInv'
  BY <1>2, CrashKeeps, ArriveKeeps, OperatorSignalKeeps DEF Environment
<1> QED BY <1>1, <1>2

\* Every step of the master, of a child and of the world outside.
LEMMA PoolKeeps == PoolInv /\ [Next]_vars => PoolInv'
<1> SUFFICES ASSUME PoolInv, [Next]_vars PROVE PoolInv'
  OBVIOUS
<1>1. CASE exit = "no" /\ Master
  BY <1>1, MasterKeeps
<1>2. CASE Running /\ ((\E w \in Worker : Child(w)) \/ Environment)
  BY <1>2, OutsideKeeps DEF Running
<1>3. CASE UNCHANGED vars
  <2>1. /\ TypeControl' = TypeControl /\ TypeLists' = TypeLists /\ TypeCounts' = TypeCounts
        /\ TypeChildren' = TypeChildren /\ TypePool' = TypePool
    BY <1>3 DEF vars, signals, polling, queues, channels, timers, listeners, children,
       TypeControl, TypeLists, TypeCounts, TypeChildren, TypePool, Listener, Early
  <2>2. Beginning' = Beginning /\ Watching' = Watching /\ exit' = exit
    BY <1>3 DEF vars, signals, polling, queues, channels, timers, listeners, children,
       Beginning, Watching, Watched, Listed, Early
  <2>3. Lists' = Lists /\ Counts' = Counts /\ Protocol' = Protocol
    BY <1>3 DEF vars, signals, polling, queues, channels, timers, listeners, children,
       Lists, Counts, Protocol, Talk, Idling, Listed
  <2>4. Ownership' = Ownership /\ Times' = Times
    BY <1>3 DEF vars, signals, polling, queues, channels, timers, listeners, children,
       Ownership, Times, Idling, Listener, IsMain, IsTimer, Early
  <2> QED BY <2>1, <2>2, <2>3, <2>4 DEF PoolInv, Going
<1> QED BY <1>1, <1>2, <1>3 DEF Next

-----------------------------------------------------------------------------
(* The first state                                                         *)

LEMMA PoolStarts == Init => PoolInv
<1> SUFFICES ASSUME Init PROVE PoolInv
  OBVIOUS
<1>1. <<>> \in Seq(Worker) /\ <<>> \in Seq(Entry) /\ <<>> \in Seq({"connect", "terminate"})
      /\ <<>> \in Seq({"idle", "goodbye"}) /\ <<>> \in Seq([proto : Proto, strict : BOOLEAN])
      /\ \A S : <<>> \in Seq(S)
  BY EmptySeq
<1>2. DOMAIN <<>> = {} /\ Len(<<>>) = 0
  BY EmptySeq
<1>3. TypeControl
  BY DEF Init, TypeControl, Block, Reason, Time
<1>4. TypeLists
  BY <1>1 DEF Init, TypeLists, Time
<1>5. TypeCounts
  BY DEF Init, TypeCounts
<1>6. TypeChildren
  BY <1>1 DEF Init, TypeChildren
<1>7. TypePool
  BY <1>1 DEF Init, TypePool, NoPool, Early
<1>8. Beginning
  BY DEF Init, Beginning
<1>9. Listed = {} /\ Idling = {}
  BY <1>2 DEF Init, Listed, Idling
<1>10. Watching
  <2>1. Elements(<<>>) = {}
    BY <1>2 DEF Elements
  <2> QED BY <2>1 DEF Init, Watching, Watched
<1>11. Lists
  BY <1>2, <1>9 DEF Init, Lists, Distinct
<1>12. Counts
  <2>1. Listed \ assigned = {} /\ Cardinality({}) = 0
    BY <1>9, FS_EmptySet
  <2>2. /\ count = [idle |-> 0, unassigned |-> 0, total |-> 0] /\ workers = <<>> /\ idle = <<>>
        /\ pool.max_fork = 0
    BY DEF Init, NoPool
  <2>3. Len(workers) = 0 /\ Len(idle) = 0
    BY <1>2, <2>2
  <2>4. Cardinality(Listed \ assigned) = 0
    BY <2>1
  <2>5. count.idle = 0 /\ count.unassigned = 0 /\ count.total = 0
    BY <2>2
  <2> QED BY <2>2, <2>3, <2>4, <2>5 DEF Counts
<1>13. Protocol
  BY <1>9 DEF Init, Protocol, Talk
<1>14. Ownership
  BY <1>2, <1>9 DEF Init, Ownership, Distinct, Elements, Early
<1>15. Times
  BY <1>2, <1>9 DEF Init, Times, Early
<1> QED BY <1>3, <1>4, <1>5, <1>6, <1>7, <1>8, <1>10, <1>11, <1>12, <1>13, <1>14, <1>15
     DEF PoolInv, Going, Init

-----------------------------------------------------------------------------
(* What the invariant says of the properties                               *)

\* In a list without duplicates an element has one place.
LEMMA PlacesOf ==
  ASSUME NEW S, NEW s \in Seq(S), Distinct(s), NEW x
  PROVE  LET p == Cardinality({i \in DOMAIN s : s[i] = x})
         IN  IF x \in Elements(s) THEN p = 1 ELSE p = 0
<1> DEFINE P == {i \in DOMAIN s : s[i] = x}
<1>1. CASE x \in Elements(s)
  <2>1. PICK k \in DOMAIN s : s[k] = x
    BY <1>1 DEF Elements
  <2>2. P = {k}
    BY <2>1 DEF Distinct
  <2> QED BY <1>1, <2>2, FS_Singleton
<1>2. CASE x \notin Elements(s)
  <2>1. P = {}
    BY <1>2 DEF Elements
  <2> QED BY <1>2, <2>1, FS_EmptySet
<1> QED BY <1>1, <1>2

LEMMA PoolTyped == PoolInv => TypeOK
BY DEF PoolInv, TypeControl, TypeLists, TypeCounts, TypeChildren, TypeOK, Time

LEMMA CountsHold == PoolInv => CountsAgree
<1> SUFFICES ASSUME PoolInv, exit = "no" PROVE CountsAgree
  BY DEF CountsAgree
<1>1. TypeLists /\ Lists /\ Counts
  BY DEF PoolInv, Going
<1>2. /\ Cardinality(Elements(workers)) = Len(workers)
      /\ Cardinality(Elements(idle)) = Len(idle)
  BY <1>1, ElementsCount DEF TypeLists, Lists
<1>3. Elements(workers) = Listed /\ Elements(idle) = Idling
  BY DEF Elements, Listed, Idling
<1> QED BY <1>1, <1>2, <1>3 DEF CountsAgree, Counts, Lists

LEMMA ListenersHold == PoolInv => ListenerInOnePlace
<1> SUFFICES ASSUME PoolInv, exit = "no", pc # "start", pool # NoPool, NEW l \in Listener
    PROVE  LET places == Cardinality({i \in DOMAIN idle_listeners : idle_listeners[i] = l})
                       + Cardinality({i \in DOMAIN connected_listeners :
                                           connected_listeners[i] = l})
                       + Cardinality({w \in Listed : restart[w] = l})
           IN  IF IsMain(l) THEN places <= 1 ELSE places = 1
  BY DEF ListenerInOnePlace
<1> DEFINE a == Cardinality({i \in DOMAIN idle_listeners : idle_listeners[i] = l})
           b == Cardinality({i \in DOMAIN connected_listeners : connected_listeners[i] = l})
           H == {w \in Listed : restart[w] = l}
<1>1. Ownership /\ TypePool /\ TypeLists /\ Watching /\ pc \notin Early
  BY DEF PoolInv, Going, Beginning, Early
<1>2. l # Nil
  BY <1>1, OptionAssumption, LenProperties DEF TypePool, Listener
<1>3. IF l \in Elements(idle_listeners) THEN a = 1 ELSE a = 0
  BY <1>1, PlacesOf DEF TypePool, Ownership
<1>4. IF l \in Elements(connected_listeners) THEN b = 1 ELSE b = 0
  BY <1>1, PlacesOf DEF TypePool, Ownership
<1>5. /\ \A w \in Worker : restart[w] = l =>
            /\ w \in Listed
            /\ l \notin Elements(idle_listeners) \cup Elements(connected_listeners)
            /\ \A v \in Worker : restart[v] = l => v = w
      /\ Listed \subseteq Worker
      /\ Elements(idle_listeners) \cap Elements(connected_listeners) = {}
  BY <1>1, <1>2, ElementsIn DEF Ownership, Watching, Listed, Elements, TypeLists
<1>6. CASE \E w \in Worker : restart[w] = l
  <2>1. PICK w \in Worker : restart[w] = l
    BY <1>6
  <2>2. H = {w}
    BY <1>5, <2>1
  <2>3. Cardinality(H) = 1
    BY <2>2, FS_Singleton
  <2>4. a = 0 /\ b = 0
    BY <1>3, <1>4, <1>5, <2>1
  <2> HIDE DEF a, b, H
  <2>5. a + b + Cardinality(H) = 1
    BY <2>3, <2>4
  <2> QED BY <2>5 DEF a, b, H
<1>7. CASE ~\E w \in Worker : restart[w] = l
  <2>1. H = {}
    BY <1>5, <1>7
  <2>2. Cardinality(H) = 0
    BY <2>1, FS_EmptySet
  <2>3. (a = 1 /\ b = 0) \/ (a = 0 /\ b = 1) \/ (IsMain(l) /\ a = 0 /\ b = 0)
    <3>1. IsMain(l) \/ l \in Elements(idle_listeners) \/ l \in Elements(connected_listeners)
      BY <1>1, <1>7 DEF Ownership
    <3>2. ~(l \in Elements(idle_listeners) /\ l \in Elements(connected_listeners))
      BY <1>5
    <3> HIDE DEF a, b
    <3> QED BY <1>3, <1>4, <3>1, <3>2
  <2> HIDE DEF a, b, H
  <2>4. a + b + Cardinality(H) = 1 \/ (IsMain(l) /\ a + b + Cardinality(H) = 0)
    BY <2>2, <2>3
  <2> QED BY <2>4 DEF a, b, H
<1> QED BY <1>6, <1>7

LEMMA IdleHold == PoolInv => IdleAreWaiting
<1> SUFFICES ASSUME PoolInv, exit = "no", NEW w \in Idling, Alive(w)
    PROVE  proc[w] = "waiting" /\ commands[w] = <<>>
  BY DEF IdleAreWaiting
<1>1. w \in Worker /\ Talk(w)
  <2>1. Elements(idle) \subseteq Worker /\ Elements(idle) = Idling
    BY ElementsIn DEF PoolInv, TypeLists, Elements, Idling
  <2> QED BY <2>1 DEF PoolInv, Going, Protocol
<1> QED BY <1>1 DEF Talk, Alive

LEMMA PollHold == PoolInv => PollsOpenChannels
<1> SUFFICES ASSUME PoolInv PROVE PollsOpenChannels
  OBVIOUS
<1> DEFINE open == {e \in Entry : e[1] \in Listed /\ e[2] \in Channel(e[1])}
<1>1. Watching /\ control \subseteq Worker /\ error \subseteq Worker
  BY DEF PoolInv, TypeLists
<1>2. ASSUME NEW e \in open PROVE e \in Watched
  <2>1. e = <<e[1], e[2]>> /\ e[2] \in {"control", "error"} /\ e[2] \in Channel(e[1])
    BY <1>2 DEF Entry
  <2> QED BY <2>1 DEF Channel, Watched
<1>3. ASSUME NEW e \in Watched PROVE e \in open
  <2>1. CASE e \in control \X {"control"}
    <3>1. PICK v \in control : e = <<v, "control">>
      BY <2>1
    <3> QED BY <1>1, <3>1 DEF Entry, Channel, Watching
  <2>2. CASE e \in error \X {"error"}
    <3>1. PICK v \in error : e = <<v, "error">>
      BY <2>2
    <3> QED BY <1>1, <3>1 DEF Entry, Channel, Watching
  <2> QED BY <1>3, <2>1, <2>2 DEF Watched
<1>4. open = Watched
  BY <1>2, <1>3
<1>5. pc = "polling" => Elements(poll_workers) = Watched
  BY <1>1 DEF Watching
<1>6. {e \in revents : e[2] # "listener"} \subseteq Watched
  BY <1>1 DEF Watching
<1> HIDE DEF open
<1> QED BY <1>4, <1>5, <1>6 DEF PollsOpenChannels, Elements, open

LEMMA PoolAgrees == PoolInv => PoolIsConsistent
BY CountsHold, ListenersHold, IdleHold, PollHold DEF PoolIsConsistent, NeverShouldHappen, PoolInv

-----------------------------------------------------------------------------
(* The theorems                                                            *)

\* The inductive invariant holds in every state of the server.
THEOREM PoolInvariant == Spec => []PoolInv
BY PoolStarts, PoolKeeps, PTL DEF Spec

\* Every variable of the master and its children keeps its form, however many
\* workers and listeners there are.
THEOREM PoolTypes == Spec => []TypeOK
BY PoolInvariant, PoolTyped, PTL

\* The counters, queues, descriptors and the list for poll() agree at every block of
\* the loop: moonbr_run never gives work to a worker that has not asked for it, never
\* loses a listener, never watches a closed descriptor, and never comes to the two
\* states its source calls impossible.
THEOREM PoolStaysConsistent == Spec => []PoolIsConsistent
BY PoolInvariant, PoolAgrees, PTL

\* As the server runs, with the fairness under which its liveness is checked.
THEOREM FairPoolStaysConsistent == FairSpec => [](TypeOK /\ PoolIsConsistent)
BY PoolTypes, PoolStaysConsistent, PTL DEF FairSpec
=============================================================================
