---------------------------- MODULE FanoutProofs ----------------------------
(***************************************************************************)
(* Proofs that the body of a call is held as long as a job refers to it     *)
(* (BodyHeld) and that a peer carries out calls once and in order           *)
(* (AppliedOnceInOrder), for any number of callers, peers and workers, any  *)
(* capacity of the channel, and however the list of peers changes.          *)
(*                                                                         *)
(* postToPeers only counts replies, so the invariant has to count too: what *)
(* a caller awaits is what is in its reply channel and what is still        *)
(* outstanding. Jobs of a call differ in their number, which makes the      *)
(* outstanding ones a set.                                                 *)
(***************************************************************************)
EXTENDS Fanout, FiniteSetTheorems, TLAPS

Jobs == Caller \X Nat \X Peer \X Nat

\* The worker has a job it has not replied to.
Active(w) == worker[w] \in {"post", "sent", "reply"}

\* The jobs without a reply
Out == {jobs[k] : k \in DOMAIN jobs} \cup {job[w] : w \in {v \in Worker : Active(v)}}

Of(c) == {j \in Out : j[1] = c}

Types ==
  /\ peers \in Seq(Peer)
  /\ call \in [Caller -> Nat]
  /\ busy \in [Caller -> BOOLEAN]
  /\ left \in [Caller -> Seq(Peer)]
  /\ awaited \in [Caller -> Nat]
  /\ replies \in [Caller -> Nat]
  /\ jobs \in Seq(Jobs)
  /\ job \in [Worker -> Jobs \cup {NoJob}]
  /\ worker \in [Worker -> {"idle", "post", "sent", "reply", "stopped"}]
  /\ \A w \in Worker : Active(w) => job[w] \in Jobs

\* Outstanding jobs belong to the call their caller is in, and come before
\* those it has yet to submit.
Held ==
  \A j \in Out : busy[j[1]] /\ j[2] = call[j[1]] /\ Len(left[j[1]]) < j[4]

\* A job is in one place.
Placed ==
  /\ \A k, l \in DOMAIN jobs : jobs[k] = jobs[l] => k = l
  /\ \A v, w \in Worker : Active(v) /\ Active(w) /\ job[v] = job[w] => v = w
  /\ \A k \in DOMAIN jobs, w \in Worker : Active(w) => jobs[k] # job[w]

Counted ==
  /\ IsFiniteSet(Out)
  /\ \A c \in Caller : awaited[c] = replies[c] + Cardinality(Of(c))

Resting == \A c \in Caller : ~busy[c] => left[c] = <<>> /\ awaited[c] = 0

Good == Held /\ Placed /\ Counted /\ Resting

IInv == Types /\ (~cancelled => Good)
-----------------------------------------------------------------------------
\* The initial states of newClusterNode have the invariant.
LEMMA InitHolds == Init => IInv
<1> SUFFICES ASSUME Init PROVE IInv
  OBVIOUS
<1>1. Types
  BY FanoutAssumption DEF Init, Types, Active
<1>2. Out = {}
  BY DEF Init, Out, Active
<1>3. \A c \in Caller : Of(c) = {}
  BY <1>2 DEF Of
<1>4. Held /\ Placed /\ Resting
  BY <1>2 DEF Init, Held, Placed, Resting, Active
<1>5. Counted
  <2>1. \A c \in Caller : Cardinality(Of(c)) = 0
    BY <1>3, FS_EmptySet, Zenon
  <2>2. IsFiniteSet(Out)
    BY <1>2, FS_EmptySet, Zenon
  <2>3. QED
    BY <2>1, <2>2 DEF Init, Counted
<1>6. QED
  BY <1>1, <1>4, <1>5 DEF IInv, Good

\* The actions of callers keep the types.
LEMMA CallerTypes ==
  ASSUME Types, NEW c \in Caller, Begin(c) \/ Calling(c)
  PROVE Types'
<1>1. CASE Begin(c)
  BY <1>1 DEF Begin, Types, Active, nodeVars, workVars
<1>2. CASE Submit(c)
  <2>1. /\ left[c] \in Seq(Peer) /\ left[c] # <<>>
        /\ Head(left[c]) \in Peer /\ Tail(left[c]) \in Seq(Peer) /\ Len(left[c]) \in Nat
    BY <1>2 DEF Submit, Types
  <2>2. <<c, call[c], Head(left[c]), Len(left[c])>> \in Jobs
    BY <2>1 DEF Types, Jobs
  <2>3. jobs' \in Seq(Jobs)
    BY <1>2, <2>2 DEF Submit, Types
  <2>4. /\ left' \in [Caller -> Seq(Peer)] /\ awaited' \in [Caller -> Nat]
        /\ UNCHANGED <<peers, call, busy, replies, job, worker>>
    BY <1>2, <2>1 DEF Submit, Types, nodeVars, workVars
  <2>5. QED
    BY <2>3, <2>4 DEF Types, Active
<1>3. CASE PostInline(c)
  <2>1. Tail(left[c]) \in Seq(Peer)
    BY <1>3 DEF PostInline, Types
  <2>2. QED
    BY <1>3, <2>1 DEF PostInline, Types, Active, nodeVars, workVars
<1>4. CASE Collect(c)
  BY <1>4 DEF Collect, Types, Active, nodeVars, workVars
<1>5. CASE Return(c)
  BY <1>5 DEF Return, Types, Active, nodeVars, workVars
<1>6. QED
  BY <1>1, <1>2, <1>3, <1>4, <1>5 DEF Calling

\* The actions of workers keep the types.
LEMMA WorkerTypes ==
  ASSUME Types, NEW w \in Worker, Posting(w) \/ Working(w)
  PROVE Types'
<1>1. CASE WorkerTake(w)
  <2>1. Head(jobs) \in Jobs /\ Tail(jobs) \in Seq(Jobs)
    BY <1>1 DEF WorkerTake, Types
  <2>2. QED
    BY <1>1, <2>1 DEF WorkerTake, Types, Active, nodeVars, callVars
<1>2. CASE Post(w) \/ PostDone(w) \/ PostFails(w)
  BY <1>2, Zenon DEF Post, PostDone, PostFails, Types, Active, nodeVars, callVars
<1>3. CASE WorkerReply(w)
  <2>1. replies' \in [Caller -> Nat]
    BY <1>3 DEF WorkerReply, Types, Active, Jobs
  <2>2. QED
    BY <1>3, <2>1 DEF WorkerReply, Types, Active, nodeVars, callVars
<1>4. CASE WorkerStop(w)
  BY <1>4 DEF WorkerStop, Types, Active, nodeVars, callVars
<1>5. QED
  BY <1>1, <1>2, <1>3, <1>4 DEF Posting, Working

\* Outstanding jobs have the parts of a job.
LEMMA OutTyped ==
  ASSUME Types, NEW j \in Out
  PROVE j[1] \in Caller /\ j[4] \in Nat
<1>1. j \in Jobs
  BY DEF Types, Out
<1>2. QED
  BY <1>1 DEF Jobs

\* A job that is new when it is submitted has a place of its own.
LEMMA PlacedSubmit ==
  ASSUME Types, Placed, NEW c \in Caller, Submit(c),
         <<c, call[c], Head(left[c]), Len(left[c])>> \notin Out
  PROVE Placed'
<1> DEFINE new == <<c, call[c], Head(left[c]), Len(left[c])>>
<1>1. /\ jobs \in Seq(Jobs) /\ jobs' = Append(jobs, new)
      /\ DOMAIN jobs' = DOMAIN jobs \cup {Len(jobs) + 1}
      /\ \A k \in DOMAIN jobs : jobs'[k] = jobs[k]
      /\ jobs'[Len(jobs) + 1] = new
      /\ Len(jobs) + 1 \notin DOMAIN jobs
  BY DEF Submit, Types
<1>2. \A w : Active(w)' <=> Active(w)
  BY DEF Submit, Active, workVars
<1>3. \A k \in DOMAIN jobs : jobs[k] # new
  BY DEF Out
<1>4. \A w \in Worker : Active(w) => job[w] # new
  BY DEF Out
<1>5. ASSUME NEW k \in DOMAIN jobs', NEW l \in DOMAIN jobs', jobs'[k] = jobs'[l] PROVE k = l
  <2> HIDE DEF new
  <2>1. CASE k \in DOMAIN jobs /\ l \in DOMAIN jobs
    BY <1>1, <1>5, <2>1, Zenon DEF Placed
  <2>2. CASE k \notin DOMAIN jobs /\ l \in DOMAIN jobs
    BY <1>1, <1>3, <1>5, <2>2, Zenon
  <2>3. CASE k \in DOMAIN jobs /\ l \notin DOMAIN jobs
    BY <1>1, <1>3, <1>5, <2>3, Zenon
  <2>4. CASE k \notin DOMAIN jobs /\ l \notin DOMAIN jobs
    BY <1>1, <2>4, Zenon
  <2>5. QED
    BY <2>1, <2>2, <2>3, <2>4
<1>6. \A k \in DOMAIN jobs', w \in Worker : Active(w) => jobs'[k] # job[w]
  BY <1>1, <1>4 DEF Placed
<1>7. QED
  BY <1>2, <1>5, <1>6, Zenon DEF Submit, Placed, workVars

\* What taking a job from the channel does to the places.
LEMMA TakeMoves ==
  ASSUME Types, NEW w \in Worker, WorkerTake(w)
  PROVE /\ 1 \in DOMAIN jobs
        /\ \A k \in DOMAIN jobs' : k + 1 \in DOMAIN jobs /\ jobs'[k] = jobs[k + 1] /\ k \in Nat \ {0}
        /\ \A k \in DOMAIN jobs : k # 1 => k - 1 \in DOMAIN jobs' /\ jobs'[k - 1] = jobs[k]
        /\ ~Active(w) /\ Active(w)' /\ job'[w] = jobs[1]
        /\ \A v \in Worker : v # w => (Active(v)' <=> Active(v)) /\ job'[v] = job[v]
<1>1. /\ jobs \in Seq(Jobs) /\ jobs # <<>> /\ 1 \in DOMAIN jobs /\ Head(jobs) = jobs[1]
      /\ \A k \in DOMAIN jobs' : k + 1 \in DOMAIN jobs /\ jobs'[k] = jobs[k + 1] /\ k \in Nat \ {0}
      /\ \A k \in DOMAIN jobs : k # 1 => k - 1 \in DOMAIN jobs' /\ jobs'[k - 1] = jobs[k]
  BY DEF WorkerTake, Types
<1>2. QED
  BY <1>1 DEF WorkerTake, Active, Types

\* A job a worker takes changes its place.
LEMMA PlacedTake ==
  ASSUME Types, Placed, NEW w \in Worker, WorkerTake(w)
  PROVE Placed'
<1>1. /\ 1 \in DOMAIN jobs
      /\ \A k \in DOMAIN jobs' : k + 1 \in DOMAIN jobs /\ jobs'[k] = jobs[k + 1] /\ k \in Nat \ {0}
      /\ ~Active(w) /\ Active(w)' /\ job'[w] = jobs[1]
      /\ \A v \in Worker : v # w => (Active(v)' <=> Active(v)) /\ job'[v] = job[v]
  BY TakeMoves
<1>2. ASSUME NEW k \in DOMAIN jobs', NEW l \in DOMAIN jobs', jobs'[k] = jobs'[l] PROVE k = l
  <2>1. k + 1 = l + 1
    BY <1>1, <1>2 DEF Placed
  <2>2. QED
    BY <1>1, <2>1
<1>3. ASSUME NEW u \in Worker, NEW v \in Worker, Active(u)', Active(v)', job'[u] = job'[v] PROVE u = v
  BY <1>1, <1>3 DEF Placed
<1>4. ASSUME NEW k \in DOMAIN jobs', NEW v \in Worker, Active(v)' PROVE jobs'[k] # job'[v]
  <2>1. k + 1 \in DOMAIN jobs /\ jobs'[k] = jobs[k + 1] /\ k + 1 # 1
    BY <1>1
  <2>2. QED
    BY <1>1, <1>4, <2>1 DEF Placed
<1>5. QED
  BY <1>2, <1>3, <1>4 DEF Placed

\* Workers that go on with their job or drop it leave the others' places alone.
LEMMA PlacedKept ==
  ASSUME Placed, UNCHANGED jobs,
         \A v \in Worker : Active(v)' => Active(v) /\ job'[v] = job[v]
  PROVE Placed'
BY DEF Placed

\* Where calls, jobs and workers are as before, nothing is lost.
LEMMA GoodUnchanged ==
  ASSUME Good, UNCHANGED <<callVars, replies, jobs, workVars>>
  PROVE Good'
<1>1. Out' = Out /\ \A c \in Caller : Of(c)' = Of(c)
  BY DEF Out, Of, Active, workVars
<1>2. Held' /\ Resting'
  BY <1>1 DEF Good, Held, Resting, callVars
<1>3. Placed'
  BY DEF Good, Placed, Active, workVars
<1>4. Counted'
  BY <1>1 DEF Good, Counted, callVars
<1>5. QED
  BY <1>2, <1>3, <1>4 DEF Good

\* postToPeers begins a call: its caller had nothing outstanding.
LEMMA GoodBegin ==
  ASSUME Types, Good, NEW c \in Caller, Begin(c)
  PROVE Good'
<1>1. Out' = Out /\ \A d \in Caller : Of(d)' = Of(d)
  BY DEF Begin, Out, Of, Active, workVars
<1>2. Of(c) = {}
  BY DEF Begin, Good, Held, Of
<1>3. \A j \in Out : j[1] # c
  BY <1>2 DEF Of
<1>4. \A j \in Out : j[1] \in Caller
  BY OutTyped
<1>5. Held'
  BY <1>1, <1>3, <1>4 DEF Begin, Good, Held, Types
<1>6. Placed'
  BY DEF Begin, Good, Placed, Active, workVars
<1>7. Counted'
  <2>1. Cardinality(Of(c)') = 0
    BY <1>1, <1>2, FS_EmptySet, Zenon
  <2>2. \A d \in Caller : d # c => Cardinality(Of(d)') = Cardinality(Of(d))
    BY <1>1, Zenon
  <2>3. IsFiniteSet(Out')
    BY <1>1 DEF Good, Counted
  <2>4. QED
    BY <2>1, <2>2, <2>3 DEF Begin, Good, Counted, Types
<1>8. Resting'
  BY DEF Begin, Good, Resting, Types
<1>9. QED
  BY <1>5, <1>6, <1>7, <1>8 DEF Good

\* A job that is submitted is a new one.
LEMMA GoodSubmit ==
  ASSUME Types, Good, NEW c \in Caller, Submit(c)
  PROVE Good'
<1> DEFINE new == <<c, call[c], Head(left[c]), Len(left[c])>>
<1>1. /\ left[c] \in Seq(Peer) /\ left[c] # <<>> /\ Len(left[c]) \in Nat
      /\ Len(Tail(left[c])) < Len(left[c])
  BY DEF Submit, Types
<1>2. busy[c]
  BY <1>1 DEF Good, Resting
<1>3. new \notin Out
  BY <1>1 DEF Good, Held
<1>4. /\ jobs \in Seq(Jobs) /\ jobs' = Append(jobs, new)
      /\ DOMAIN jobs' = DOMAIN jobs \cup {Len(jobs) + 1}
      /\ \A k \in DOMAIN jobs : jobs'[k] = jobs[k]
      /\ jobs'[Len(jobs) + 1] = new
      /\ Len(jobs) + 1 \notin DOMAIN jobs
  BY DEF Submit, Types
<1>5. \A w : Active(w)' <=> Active(w)
  BY DEF Submit, Active, workVars
<1>6. Out' = Out \cup {new}
  BY <1>4, <1>5 DEF Submit, Out, workVars
<1>7. Held'
  <2>1. \A j \in Out : j[1] \in Caller
    BY OutTyped
  <2>2. \A d \in Caller : Len(left'[d]) <= Len(left[d]) /\ Len(left'[d]) \in Nat /\ Len(left[d]) \in Nat
    BY <1>1 DEF Submit, Types
  <2>3. ASSUME NEW j \in Out PROVE busy'[j[1]] /\ j[2] = call'[j[1]] /\ Len(left'[j[1]]) < j[4]
    <3>1. busy[j[1]] /\ j[2] = call[j[1]] /\ Len(left[j[1]]) < j[4]
      BY DEF Good, Held
    <3>2. j[4] \in Nat
      BY OutTyped
    <3>3. QED
      BY <2>1, <2>2, <3>1, <3>2 DEF Submit
  <2>4. busy'[c] /\ new[2] = call'[c] /\ Len(left'[c]) < new[4]
    BY <1>1, <1>2 DEF Submit, Types
  <2>5. QED
    BY <1>6, <2>3, <2>4 DEF Held
<1>8. Placed'
  BY <1>3, PlacedSubmit DEF Good
<1>9. Counted'
  <2>1. IsFiniteSet(Out) /\ IsFiniteSet(Of(c)) /\ IsFiniteSet(Out')
    BY <1>6, FS_Subset, FS_AddElement DEF Good, Counted, Of
  <2>2. Of(c)' = Of(c) \cup {new} /\ new \notin Of(c)
    BY <1>3, <1>6 DEF Of
  <2>3. \A d \in Caller : d # c => Of(d)' = Of(d)
    BY <1>6 DEF Of
  <2>4. Cardinality(Of(c)') = Cardinality(Of(c)) + 1 /\ Cardinality(Of(c)) \in Nat
    BY <2>1, <2>2, FS_AddElement, FS_CardinalityType, Zenon
  <2>5. awaited'[c] = replies'[c] + Cardinality(Of(c)')
    BY <2>4 DEF Submit, Good, Counted, Types
  <2>6. ASSUME NEW d \in Caller, d # c PROVE awaited'[d] = replies'[d] + Cardinality(Of(d)')
    BY <2>3, <2>6 DEF Submit, Good, Counted, Types
  <2>7. QED
    BY <2>1, <2>5, <2>6 DEF Counted
<1>10. Resting'
  BY <1>2, Zenon DEF Submit, Good, Resting, Types
<1>11. QED
  BY <1>7, <1>8, <1>9, <1>10 DEF Good

\* A node without workers has no new jobs.
LEMMA GoodInline ==
  ASSUME Types, Good, NEW c \in Caller, PostInline(c)
  PROVE Good'
<1>1. Out' = Out /\ \A d \in Caller : Of(d)' = Of(d)
  BY Zenon DEF PostInline, Out, Of, Active, workVars
<1>2. \A d \in Caller : Len(left'[d]) <= Len(left[d]) /\ Len(left'[d]) \in Nat /\ Len(left[d]) \in Nat
  BY DEF PostInline, Types
<1>3. Held'
  <2>1. ASSUME NEW j \in Out PROVE busy'[j[1]] /\ j[2] = call'[j[1]] /\ Len(left'[j[1]]) < j[4]
    <3>1. busy[j[1]] /\ j[2] = call[j[1]] /\ Len(left[j[1]]) < j[4]
      BY DEF Good, Held
    <3>2. j[1] \in Caller /\ j[4] \in Nat
      BY OutTyped, Zenon
    <3>3. QED
      BY <1>2, <3>1, <3>2 DEF PostInline
  <2>2. QED
    BY <1>1, <2>1 DEF Held
<1>4. Placed'
  BY DEF PostInline, Good, Placed, Active, workVars
<1>5. Counted'
  BY <1>1, Zenon DEF PostInline, Good, Counted
<1>6. Resting'
  BY DEF PostInline, Good, Resting, Types
<1>7. QED
  BY <1>3, <1>4, <1>5, <1>6 DEF Good

\* A reply that is received was counted among those awaited.
LEMMA GoodCollect ==
  ASSUME Types, Good, NEW c \in Caller, Collect(c)
  PROVE Good'
<1>1. Out' = Out /\ \A d \in Caller : Of(d)' = Of(d)
  BY DEF Collect, Out, Of, Active, workVars
<1>2. Held'
  BY <1>1, Zenon DEF Collect, Good, Held
<1>3. Placed'
  BY DEF Collect, Good, Placed, Active, workVars
<1>4. \A d \in Caller : Cardinality(Of(d)) \in Nat
  BY FS_Subset, FS_CardinalityType DEF Good, Counted, Of
<1>5. Counted'
  BY <1>1, <1>4 DEF Collect, Good, Counted, Types
<1>6. Resting'
  BY DEF Collect, Good, Resting, Types
<1>7. QED
  BY <1>2, <1>3, <1>5, <1>6 DEF Good

\* postToPeers returns when nothing is awaited, thus nothing outstanding.
LEMMA GoodReturn ==
  ASSUME Types, Good, ~cancelled, NEW c \in Caller, Return(c)
  PROVE Good'
<1>1. Out' = Out /\ \A d \in Caller : Of(d)' = Of(d)
  BY DEF Return, Out, Of, Active, workVars
<1>2. awaited[c] = 0 /\ left[c] = <<>>
  BY DEF Return
<1>3. Of(c) = {}
  <2>1. IsFiniteSet(Of(c)) /\ Cardinality(Of(c)) \in Nat
    BY FS_Subset, FS_CardinalityType DEF Good, Counted, Of
  <2>2. Cardinality(Of(c)) = 0
    BY <1>2, <2>1 DEF Good, Counted, Types
  <2>3. QED
    BY <2>1, <2>2, FS_EmptySet
<1>4. \A j \in Out : j[1] # c /\ j[1] \in Caller
  BY <1>3, OutTyped DEF Of
<1>5. Held'
  BY <1>1, <1>4 DEF Return, Good, Held, Types
<1>6. Placed'
  BY DEF Return, Good, Placed, Active, workVars
<1>7. Counted'
  BY <1>1 DEF Return, Good, Counted
<1>8. Resting'
  BY <1>2 DEF Return, Good, Resting, Types
<1>9. QED
  BY <1>5, <1>6, <1>7, <1>8 DEF Good

\* Taking a job from the channel leaves the outstanding ones as they are.
LEMMA TakeOut ==
  ASSUME Types, NEW w \in Worker, WorkerTake(w)
  PROVE Out' = Out
<1>1. /\ 1 \in DOMAIN jobs
      /\ \A k \in DOMAIN jobs' : k + 1 \in DOMAIN jobs /\ jobs'[k] = jobs[k + 1]
      /\ \A k \in DOMAIN jobs : k # 1 => k - 1 \in DOMAIN jobs' /\ jobs'[k - 1] = jobs[k]
  BY TakeMoves
<1>2. /\ ~Active(w) /\ Active(w)' /\ job'[w] = jobs[1]
      /\ \A v \in Worker : v # w => (Active(v)' <=> Active(v)) /\ job'[v] = job[v]
  BY TakeMoves
<1>3. Out' = Out
  <2>1. ASSUME NEW j \in Out PROVE j \in Out'
    <3>1. CASE j = jobs[1]
      BY <1>2, <3>1 DEF Out
    <3>2. CASE \E k \in DOMAIN jobs : k # 1 /\ j = jobs[k]
      BY <1>1, <3>2 DEF Out
    <3>3. CASE \E v \in Worker : Active(v) /\ j = job[v]
      BY <1>2, <3>3 DEF Out
    <3>4. QED
      BY <3>1, <3>2, <3>3 DEF Out
  <2>2. ASSUME NEW j \in Out' PROVE j \in Out
    <3>1. CASE \E k \in DOMAIN jobs' : j = jobs'[k]
      BY <1>1, <3>1 DEF Out
    <3>2. CASE \E v \in Worker : Active(v)' /\ j = job'[v]
      BY <1>1, <1>2, <3>2 DEF Out
    <3>3. QED
      BY <3>1, <3>2 DEF Out
  <2>3. QED
    BY <2>1, <2>2, Zenon
<1>4. QED
  BY <1>3

\* A job a worker receives is outstanding as before.
LEMMA GoodTake ==
  ASSUME Types, Good, NEW w \in Worker, WorkerTake(w)
  PROVE Good'
<1>3. Out' = Out
  BY TakeOut
<1>4. \A c \in Caller : Of(c)' = Of(c)
  BY <1>3 DEF Of
<1>5. Held' /\ Counted' /\ Resting'
  BY <1>3, <1>4 DEF WorkerTake, Good, Held, Counted, Resting, callVars
<1>6. Placed'
  BY PlacedTake, Zenon DEF Good
<1>7. QED
  BY <1>5, <1>6 DEF Good

\* A job that is posted is outstanding as before.
LEMMA GoodPosting ==
  ASSUME Types, Good, NEW w \in Worker, Posting(w)
  PROVE Good'
<1>1. /\ UNCHANGED <<callVars, replies, jobs, job>>
      /\ \A v \in Worker : Active(v)' <=> Active(v)
  BY Zenon DEF Posting, Post, PostDone, PostFails, Active, Types
<1>2. Out' = Out /\ \A c \in Caller : Of(c)' = Of(c)
  BY <1>1 DEF Out, Of
<1>3. Held' /\ Counted' /\ Resting'
  BY <1>1, <1>2 DEF Good, Held, Counted, Resting, callVars
<1>4. Placed'
  BY <1>1 DEF Good, Placed
<1>5. QED
  BY <1>3, <1>4 DEF Good

\* A reply takes the place of an outstanding job of the current call.
LEMMA GoodReply ==
  ASSUME Types, Good, NEW w \in Worker, WorkerReply(w)
  PROVE Good'
<1>0. PICK old, c : old = job[w] /\ c = old[1]
  OBVIOUS
<1>1. /\ Active(w) /\ ~Active(w)' /\ jobs' = jobs
      /\ \A v \in Worker : v # w => (Active(v)' <=> Active(v)) /\ job'[v] = job[v]
  BY DEF WorkerReply, Active, Types
<1>2. old \in Out /\ c \in Caller /\ old[2] = call[c]
  BY <1>0, <1>1, OutTyped DEF Out, Good, Held
<1>3. Out' = Out \ {old}
  <2>1. ASSUME NEW j \in Out, j # old PROVE j \in Out'
    BY <1>0, <1>1, <2>1 DEF Out
  <2>2. ASSUME NEW j \in Out' PROVE j \in Out /\ j # old
    <3>1. CASE \E k \in DOMAIN jobs : j = jobs[k]
      BY <1>0, <1>1, <3>1 DEF Out, Good, Placed
    <3>2. CASE \E v \in Worker : Active(v)' /\ j = job'[v]
      BY <1>0, <1>1, <3>2 DEF Out, Good, Placed
    <3>3. QED
      BY <1>1, <3>1, <3>2 DEF Out
  <2>3. QED
    BY <2>1, <2>2
<1>4. /\ replies' = [replies EXCEPT ![c] = @ + 1]
      /\ UNCHANGED <<call, busy, left, awaited>>
  BY <1>0, <1>2 DEF WorkerReply, callVars
<1>5. Held' /\ Resting'
  BY <1>3, <1>4 DEF Good, Held, Resting
<1>6. Placed'
  BY <1>1 DEF Good, Placed
<1>7. Counted'
  <2>1. IsFiniteSet(Out) /\ IsFiniteSet(Out') /\ IsFiniteSet(Of(c))
    BY <1>3, FS_Subset DEF Good, Counted, Of
  <2>2. old \in Of(c) /\ Of(c)' = Of(c) \ {old}
    BY <1>0, <1>2, <1>3 DEF Of
  <2>3. Cardinality(Of(c)') = Cardinality(Of(c)) - 1 /\ Cardinality(Of(c)) \in Nat
    BY <2>1, <2>2, FS_RemoveElement, FS_CardinalityType
  <2>4. \A d \in Caller : d # c => Of(d)' = Of(d)
    BY <1>0, <1>3 DEF Of
  <2>5. awaited'[c] = replies'[c] + Cardinality(Of(c)')
    BY <1>2, <1>4, <2>3 DEF Good, Counted, Types
  <2>6. ASSUME NEW d \in Caller, d # c PROVE awaited'[d] = replies'[d] + Cardinality(Of(d)')
    BY <1>2, <1>4, <2>4, <2>6 DEF Good, Counted, Types
  <2>7. QED
    BY <2>1, <2>5, <2>6, Zenon DEF Counted
<1>8. QED
  BY <1>5, <1>6, <1>7 DEF Good

\* Every step keeps the invariant; once the server is closed, only the types
\* remain of it, as callers and workers then leave in any order.
LEMMA NextHolds == IInv /\ [Next]_vars => IInv'
<1> SUFFICES ASSUME IInv, [Next]_vars PROVE IInv'
  OBVIOUS
<1> USE DEF IInv
<1>1. ASSUME NEW c \in Caller, Begin(c) \/ Calling(c) PROVE IInv'
  <2>1. Types'
    BY <1>1, CallerTypes, Zenon
  <2>2. UNCHANGED cancelled
    BY <1>1 DEF Begin, Calling, Submit, PostInline, Collect, Return, nodeVars
  <2>3. ~cancelled => Good'
    BY <1>1, GoodBegin, GoodSubmit, GoodInline, GoodCollect, GoodReturn, Zenon DEF Calling
  <2>4. QED
    BY <2>1, <2>2, <2>3
<1>2. ASSUME NEW w \in Worker, Posting(w) \/ Working(w) PROVE IInv'
  <2>1. Types'
    BY <1>2, WorkerTypes
  <2>2. UNCHANGED cancelled
    BY <1>2 DEF Posting, Working, Post, PostDone, PostFails, WorkerTake, WorkerReply, WorkerStop, nodeVars
  <2>3. ~cancelled => ~WorkerStop(w)
    BY DEF WorkerStop
  <2>4. ~cancelled => Good'
    BY <1>2, <2>3, GoodPosting, GoodTake, GoodReply DEF Working
  <2>5. QED
    BY <2>1, <2>2, <2>4
<1>3. CASE (\E r \in wire : PeerApplies(r)) \/ Start \/ UNCHANGED vars
  <2>1. UNCHANGED <<peers, cancelled, callVars, replies, jobs, workVars>>
    BY <1>3 DEF PeerApplies, Start, vars, nodeVars
  <2>2. Types'
    BY <2>1 DEF Types, Active, callVars, workVars
  <2>3. QED
    BY <2>1, <2>2, GoodUnchanged
<1>4. CASE Stop
  BY <1>4 DEF Stop, Types, Active, callVars, workVars
<1>5. CASE Refresh
  <2>1. UNCHANGED <<cancelled, callVars, replies, jobs, workVars>> /\ peers' \in Seq(Peer)
    BY <1>5, FanoutAssumption DEF Refresh
  <2>2. Types'
    BY <2>1 DEF Types, Active, callVars, workVars
  <2>3. QED
    BY <2>1, <2>2, GoodUnchanged
<1>6. QED
  BY <1>1, <1>2, <1>3, <1>4, <1>5 DEF Next

\* The invariant covers the jobs whose body may still be read.
LEMMA HeldBodies == IInv => BodyHeld
BY DEF IInv, Good, Held, Out, Active, BodyHeld, Pending

\* As long as the server is not closed, postToPeers does not return, and its
\* caller does not release the pooled body, while a job with this body is in
\* the channel or being posted: whatever the number of callers, workers and
\* peers, the failures, and the changes of the list of peers.
THEOREM BodiesHeld == Spec => []BodyHeld
<1>1. Init => IInv
  BY InitHolds
<1>2. IInv /\ [Next]_vars => IInv'
  BY NextHolds
<1>3. IInv => BodyHeld
  BY HeldBodies
<1>4. QED
  BY <1>1, <1>2, <1>3, PTL DEF Spec

-----------------------------------------------------------------------------
(***************************************************************************)
(* What a peer carries out. A job is numbered within its call, so that it   *)
(* differs from all others, and it is in one place at a time: in the channel *)
(* or with a worker that has not posted it, on the wire, or carried out.    *)
(* This does not end when the server is closed.                            *)
(***************************************************************************)
Done == UNION {{applied[p][k] : k \in DOMAIN applied[p]} : p \in Peer}

Unsent == {jobs[k] : k \in DOMAIN jobs} \cup {job[w] : w \in {v \in Worker : worker[v] = "post"}}

\* The jobs there have been, but for those whose request was lost.
Made == Out \cup wire \cup Done

RequestTypes ==
  /\ wire \subseteq Jobs
  /\ applied \in [Peer -> Seq(Jobs)]
  /\ \A p \in Peer : \A k \in DOMAIN applied[p] : applied[p][k][3] = p

\* A job is of a call that has begun; those of the current call come before the
\* ones that are yet to be made.
Numbered ==
  \A j \in Made : /\ j[2] <= call[j[1]]
                  /\ j[2] = call[j[1]] => Len(left[j[1]]) < j[4]

OnePlace ==
  /\ Placed
  /\ \A j \in Unsent : j \notin wire /\ j \notin Done
  /\ \A j \in wire : j \notin Done
  /\ \A p \in Peer : \A k, l \in DOMAIN applied[p] : applied[p][k] = applied[p][l] => k = l

\* Where no two names share a peer, a call has one job for each peer.
PeersDiffer ==
  /\ IsInjective(peers)
  /\ \A c \in Caller : IsInjective(left[c])
  /\ \A j \in Made : j[2] = call[j[1]] => \A k \in DOMAIN left[j[1]] : left[j[1]][k] # j[3]
  /\ \A i, j \in Made : i[1] = j[1] /\ i[2] = j[2] /\ i[3] = j[3] => i = j

\* A request on the wire has a worker waiting for it, unless doPost gave it up.
Watched == \A r \in wire : r \in late \/ \E w \in Worker : worker[w] = "sent" /\ job[w] = r

\* The order of calls in what has been carried out.
InOrder ==
  ~cancelled =>
    \A p \in Peer : \A k, l \in DOMAIN applied[p] :
      k < l /\ applied[p][k][1] = applied[p][l][1] /\ applied[p][l] \notin late =>
        applied[p][k][2] <= applied[p][l][2]

OnceInv ==
  RequestTypes /\ Numbered /\ OnePlace /\ (OneNameEach => PeersDiffer) /\ Watched /\ InOrder

\* A node that has made no call satisfies the invariant.
LEMMA InitOnce == Init => OnceInv
<1> SUFFICES ASSUME Init PROVE OnceInv
  OBVIOUS
<1>1. Out = {} /\ wire = {} /\ Unsent = {} /\ jobs = <<>>
  BY DEF Init, Out, Unsent, Active
<1>2. \A p \in Peer : applied[p] = <<>>
  BY DEF Init
<1>3. Done = {}
  BY <1>2 DEF Done
<1>4. RequestTypes /\ Numbered /\ Watched /\ InOrder
  BY <1>1, <1>2, <1>3 DEF Init, RequestTypes, Numbered, Made, Watched, InOrder
<1>5. OnePlace
  BY <1>1, <1>2, <1>3 DEF Init, OnePlace, Placed, Active
<1>6. OneNameEach => PeersDiffer
  <2>1. OneNameEach => IsInjective(peers)
    BY DEF Init, OneNameEach
  <2>2. \A c \in Caller : IsInjective(left[c])
    BY DEF Init, IsInjective
  <2>3. Made = {}
    BY <1>1, <1>3 DEF Made
  <2>4. QED
    BY <2>1, <2>2, <2>3 DEF PeersDiffer
<1>7. QED
  BY <1>4, <1>5, <1>6 DEF OnceInv

\* The parts of a job that has been made.
LEMMA MadeTyped ==
  ASSUME Types, RequestTypes, NEW j \in Made
  PROVE j \in Jobs /\ j[1] \in Caller /\ j[2] \in Nat /\ j[3] \in Peer /\ j[4] \in Nat
<1>1. j \in Jobs
  <2>1. CASE j \in Out
    BY <2>1 DEF Types, Out
  <2>2. CASE j \in Done
    BY <2>2 DEF RequestTypes, Done
  <2>3. QED
    BY <2>1, <2>2 DEF Made, RequestTypes
<1>2. QED
  BY <1>1 DEF Jobs

\* The next job of a call is a new one.
LEMMA NotMade ==
  ASSUME Types, RequestTypes, Numbered, NEW c \in Caller, NEW p
  PROVE <<c, call[c], p, Len(left[c])>> \notin Made
<1>1. Len(left[c]) \in Nat
  BY DEF Types
<1>2. QED
  BY <1>1 DEF Numbered

\* Where calls go on and no job is added, the numbers stay in order.
LEMMA KeepMade ==
  ASSUME Numbered, OneNameEach => PeersDiffer, Made' \subseteq Made,
         UNCHANGED <<call, left>>, OneNameEach => IsInjective(peers')
  PROVE Numbered' /\ (OneNameEach => PeersDiffer')
<1>1. Numbered'
  BY Zenon DEF Numbered
<1>2. OneNameEach => PeersDiffer'
  BY DEF PeersDiffer
<1>3. QED
  BY <1>1, <1>2

\* A job for the next peer of a call is numbered before those that remain, and
\* is for another peer than those before it.
LEMMA AddMade ==
  ASSUME Types, RequestTypes, Numbered, OneNameEach => PeersDiffer,
         NEW c \in Caller, left[c] # <<>>, left' = [left EXCEPT ![c] = Tail(@)],
         UNCHANGED <<call, peers>>,
         Made' \subseteq Made \cup {<<c, call[c], Head(left[c]), Len(left[c])>>}
  PROVE Numbered' /\ (OneNameEach => PeersDiffer')
<1> DEFINE new == <<c, call[c], Head(left[c]), Len(left[c])>>
<1>1. /\ left[c] \in Seq(Peer) /\ Len(left[c]) \in Nat \ {0} /\ call[c] \in Nat
      /\ left'[c] = Tail(left[c]) /\ Len(left'[c]) = Len(left[c]) - 1
      /\ \A d \in Caller : d # c => left'[d] = left[d]
  BY DEF Types
<1>2. /\ 1 \in DOMAIN left[c] /\ Head(left[c]) = left[c][1]
      /\ \A k \in DOMAIN left'[c] : k \in Nat \ {0} /\ k + 1 \in DOMAIN left[c] /\ left'[c][k] = left[c][k + 1]
  BY <1>1
<1>3. \A j \in Made : j[1] \in Caller /\ j[2] \in Nat /\ j[4] \in Nat
  BY MadeTyped
<1>4. Numbered'
  <2>1. ASSUME NEW j \in Made
        PROVE j[2] <= call[j[1]] /\ (j[2] = call[j[1]] => Len(left'[j[1]]) < j[4])
    BY <1>1, <1>3 DEF Numbered
  <2>2. new[2] <= call[new[1]] /\ Len(left'[new[1]]) < new[4]
    BY <1>1
  <2>3. QED
    BY <2>1, <2>2 DEF Numbered
<1>5. ASSUME OneNameEach PROVE PeersDiffer'
  <2>1. PeersDiffer
    BY <1>5, Zenon
  <2>2. /\ IsInjective(left[c])
        /\ \A j \in Made : j[2] = call[j[1]] => \A k \in DOMAIN left[j[1]] : left[j[1]][k] # j[3]
    BY <2>1 DEF PeersDiffer
  <2>3. ASSUME NEW k \in DOMAIN left'[c], NEW l \in DOMAIN left'[c], left'[c][k] = left'[c][l] PROVE k = l
    <3>1. k + 1 = l + 1
      BY <1>2, <2>2, <2>3 DEF IsInjective
    <3>2. QED
      BY <1>2, <3>1
  <2>4. \A d \in Caller : IsInjective(left'[d])
    BY <1>1, <2>1, <2>3 DEF PeersDiffer, IsInjective
  <2>5. \A k \in DOMAIN left'[c] : left'[c][k] # new[3]
    <3>1. ASSUME NEW k \in DOMAIN left'[c] PROVE left'[c][k] # new[3]
      <4>1. k + 1 # 1 /\ k + 1 \in DOMAIN left[c] /\ left'[c][k] = left[c][k + 1]
        BY <1>2
      <4>2. QED
        BY <1>2, <2>2, <4>1 DEF IsInjective
    <3>2. QED
      BY <3>1, Zenon
  <2>6. ASSUME NEW j \in Made, j[2] = call[j[1]], NEW k \in DOMAIN left'[j[1]]
        PROVE left'[j[1]][k] # j[3]
    <3>1. CASE j[1] = c
      <4>1. k + 1 \in DOMAIN left[c] /\ left'[c][k] = left[c][k + 1]
        BY <1>2, <2>6, <3>1, Zenon
      <4>2. QED
        BY <2>2, <2>6, <3>1, <4>1
    <3>2. CASE j[1] # c
      BY <1>1, <1>3, <2>2, <2>6, <3>2, Zenon
    <3>3. QED
      BY <3>1, <3>2, Zenon
  <2>7. ASSUME NEW j \in Made, j[1] = c, j[2] = call[c] PROVE j[3] # new[3]
    <3>1. left[c][1] # j[3]
      BY <1>2, <2>2, <2>7, Zenon
    <3>2. QED
      BY <1>2, <3>1
  <2>8. ASSUME NEW i \in Made', NEW j \in Made', i[1] = j[1], i[2] = j[2], i[3] = j[3] PROVE i = j
    <3>1. CASE i \in Made /\ j \in Made
      BY <2>1, <2>8, <3>1 DEF PeersDiffer
    <3>2. CASE i = new /\ j = new
      BY <3>2
    <3>3. CASE i = new /\ j \in Made
      BY <2>7, <2>8, <3>3
    <3>4. CASE i \in Made /\ j = new
      BY <2>7, <2>8, <3>4
    <3>5. QED
      BY <3>1, <3>2, <3>3, <3>4
  <2>9. \A j \in Made' : j[2] = call[j[1]] => \A k \in DOMAIN left'[j[1]] : left'[j[1]][k] # j[3]
    BY <2>5, <2>6
  <2>10. QED
    BY <2>1, <2>4, <2>8, <2>9 DEF PeersDiffer
<1>6. QED
  BY <1>4, <1>5

\* Nothing is carried out, and what is to be sent or on the wire was so before.
LEMMA OnePlaceKept ==
  ASSUME RequestTypes, OnePlace, Placed', Unsent' \subseteq Unsent, wire' \subseteq wire,
         UNCHANGED applied
  PROVE RequestTypes' /\ OnePlace' /\ Done' = Done
<1>1. Done' = Done
  BY DEF Done
<1>2. RequestTypes'
  BY DEF RequestTypes
<1>3. OnePlace'
  BY <1>1 DEF OnePlace
<1>4. QED
  BY <1>1, <1>2, <1>3

\* The order of what has been carried out stays.
LEMMA InOrderKept ==
  ASSUME InOrder, UNCHANGED applied, late \subseteq late', cancelled => cancelled'
  PROVE InOrder'
BY Zenon DEF InOrder

\* Steps of callers and of the node itself.
LEMMA RequestsKept ==
  ASSUME OnceInv, UNCHANGED <<jobs, workVars, wire, late, applied>>, cancelled => cancelled'
  PROVE RequestTypes' /\ OnePlace' /\ Watched' /\ InOrder' /\ Made' = Made
<1>1. Out' = Out /\ Unsent' = Unsent /\ \A v : Active(v)' <=> Active(v)
  BY DEF Out, Unsent, Active, workVars
<1>2. Placed'
  BY <1>1, PlacedKept, Zenon DEF OnceInv, OnePlace, workVars
<1>3. RequestTypes' /\ OnePlace' /\ Done' = Done
  BY <1>1, <1>2, OnePlaceKept DEF OnceInv
<1>4. Watched'
  BY DEF OnceInv, Watched, workVars
<1>5. InOrder'
  BY InOrderKept, Zenon DEF OnceInv
<1>6. QED
  BY <1>1, <1>3, <1>4, <1>5 DEF Made

\* What carrying out a request adds.
LEMMA ApplyOne ==
  ASSUME RequestTypes, NEW r \in Jobs,
         applied' = [applied EXCEPT ![r[3]] = Append(@, r)]
  PROVE /\ applied' \in [Peer -> Seq(Jobs)]
        /\ r[3] \in Peer /\ Len(applied[r[3]]) \in Nat
        /\ \A p \in Peer : p # r[3] => applied'[p] = applied[p]
        /\ DOMAIN applied'[r[3]] = DOMAIN applied[r[3]] \cup {Len(applied[r[3]]) + 1}
        /\ \A k \in DOMAIN applied[r[3]] :
             k \in Nat /\ k <= Len(applied[r[3]]) /\ applied'[r[3]][k] = applied[r[3]][k]
        /\ applied'[r[3]][Len(applied[r[3]]) + 1] = r
        /\ \A p \in Peer : \A k \in DOMAIN applied'[p] : applied'[p][k][3] = p
        /\ Done' = Done \cup {r}
<1>1. r[3] \in Peer
  BY DEF Jobs
<1>2. /\ applied' \in [Peer -> Seq(Jobs)]
      /\ Len(applied[r[3]]) \in Nat
      /\ \A p \in Peer : p # r[3] => applied'[p] = applied[p]
      /\ applied[r[3]] \in Seq(Jobs)
      /\ applied'[r[3]] = Append(applied[r[3]], r)
  BY <1>1 DEF RequestTypes
<1>3. /\ DOMAIN applied'[r[3]] = DOMAIN applied[r[3]] \cup {Len(applied[r[3]]) + 1}
      /\ \A k \in DOMAIN applied[r[3]] :
           k \in Nat /\ k <= Len(applied[r[3]]) /\ applied'[r[3]][k] = applied[r[3]][k]
      /\ applied'[r[3]][Len(applied[r[3]]) + 1] = r
  BY <1>2
<1>4. \A p \in Peer : \A k \in DOMAIN applied'[p] : applied'[p][k][3] = p
  BY <1>2, <1>3 DEF RequestTypes
<1>5. Done' = Done \cup {r}
  <2>1. ASSUME NEW j \in Done PROVE j \in Done'
    BY <1>1, <1>2, <1>3 DEF Done
  <2>2. r \in Done'
    BY <1>1, <1>3 DEF Done
  <2>3. ASSUME NEW j \in Done', j # r PROVE j \in Done
    <3>1. PICK p \in Peer : \E k \in DOMAIN applied'[p] : j = applied'[p][k]
      BY <2>3 DEF Done
    <3>2. QED
      BY <1>2, <1>3, <2>3, <3>1 DEF Done
  <2>4. QED
    BY <2>1, <2>2, <2>3, Zenon
<1>6. QED
  BY <1>1, <1>2, <1>3, <1>4, <1>5

\* A new request that is of the last call of its goroutine, unless doPost gave
\* it up, is carried out once and in order.
LEMMA ApplyInOrder ==
  ASSUME Types, RequestTypes, OnePlace, Numbered, InOrder, NEW r \in Jobs, r \notin Done,
         applied' = [applied EXCEPT ![r[3]] = Append(@, r)], UNCHANGED <<late, cancelled>>,
         ~cancelled /\ r \notin late => r[2] = call[r[1]]
  PROVE /\ InOrder'
        /\ \A p \in Peer : \A k, l \in DOMAIN applied'[p] : applied'[p][k] = applied'[p][l] => k = l
<1>1. /\ r[3] \in Peer /\ Len(applied[r[3]]) \in Nat
      /\ \A p \in Peer : p # r[3] => applied'[p] = applied[p]
      /\ DOMAIN applied'[r[3]] = DOMAIN applied[r[3]] \cup {Len(applied[r[3]]) + 1}
      /\ \A k \in DOMAIN applied[r[3]] :
           k \in Nat /\ k <= Len(applied[r[3]]) /\ applied'[r[3]][k] = applied[r[3]][k]
      /\ applied'[r[3]][Len(applied[r[3]]) + 1] = r
  BY ApplyOne, Zenon
<1>2. \A k \in DOMAIN applied[r[3]] : applied[r[3]][k] \in Done
  BY <1>1 DEF Done
<1>3. \A k \in DOMAIN applied[r[3]] : applied[r[3]][k][2] <= call[applied[r[3]][k][1]]
  BY <1>2, Zenon DEF Numbered, Made
<1>4. ASSUME NEW p \in Peer, NEW k \in DOMAIN applied'[p], NEW l \in DOMAIN applied'[p],
             applied'[p][k] = applied'[p][l]
      PROVE k = l
  <2>1. CASE p # r[3]
    BY <1>1, <1>4, <2>1 DEF OnePlace
  <2>2. CASE p = r[3] /\ k \in DOMAIN applied[p] /\ l \in DOMAIN applied[p]
    BY <1>1, <1>4, <2>2 DEF OnePlace
  <2>3. CASE p = r[3] /\ ~(k \in DOMAIN applied[p] /\ l \in DOMAIN applied[p])
    BY <1>1, <1>2, <1>4, <2>3
  <2>4. QED
    BY <2>1, <2>2, <2>3, Zenon
<1>5. InOrder'
  <2> SUFFICES ASSUME ~cancelled, NEW p \in Peer, NEW k \in DOMAIN applied'[p],
                      NEW l \in DOMAIN applied'[p], k < l,
                      applied'[p][k][1] = applied'[p][l][1], applied'[p][l] \notin late
               PROVE applied'[p][k][2] <= applied'[p][l][2]
    BY DEF InOrder
  <2>1. CASE p # r[3]
    BY <1>1, <2>1 DEF InOrder
  <2>2. CASE p = r[3] /\ l \in DOMAIN applied[p]
    <3>1. k \in DOMAIN applied[p]
      BY <1>1, <2>2
    <3>2. QED
      BY <1>1, <2>2, <3>1 DEF InOrder
  <2>3. CASE p = r[3] /\ l \notin DOMAIN applied[p]
    <3>1. l = Len(applied[p]) + 1 /\ applied'[p][l] = r /\ k \in DOMAIN applied[p]
      BY <1>1, <2>3
    <3>2. r[2] = call[r[1]]
      BY <3>1
    <3>3. QED
      BY <1>1, <1>3, <2>3, <3>1, <3>2
  <2>4. QED
    BY <2>1, <2>2, <2>3, Zenon
<1>6. QED
  BY <1>4, <1>5, Zenon

\* Callers begin, wait and return without touching a request.
LEMMA OnceCaller ==
  ASSUME Types, OnceInv, NEW c \in Caller, Begin(c) \/ Collect(c) \/ Return(c)
  PROVE OnceInv'
<1>1. UNCHANGED <<jobs, workVars, wire, late, applied, peers, cancelled>>
  BY DEF Begin, Collect, Return, nodeVars
<1>2. RequestTypes' /\ OnePlace' /\ Watched' /\ InOrder' /\ Made' = Made
  BY <1>1, RequestsKept
<1>3. \A j \in Made : j[1] \in Caller /\ j[2] \in Nat /\ j[4] \in Nat
  BY MadeTyped DEF OnceInv
<1>4. \A j \in Made : j[2] <= call[j[1]] /\ (j[2] = call[j[1]] => Len(left[j[1]]) < j[4])
  BY Zenon DEF OnceInv, Numbered
<1>5. \A d \in Caller : /\ call[d] \in Nat
                        /\ \/ call'[d] = call[d] /\ (left'[d] = left[d] \/ left'[d] = <<>>)
                           \/ call'[d] = call[d] + 1 /\ (left'[d] = peers)
  BY DEF Begin, Collect, Return, Types
<1>6. Numbered'
  <2>1. \A d \in Caller : Len(left[d]) \in Nat /\ Len(<<>>) = 0
    BY DEF Types
  <2>2. ASSUME NEW j \in Made
        PROVE j[2] <= call'[j[1]] /\ (j[2] = call'[j[1]] => Len(left'[j[1]]) < j[4])
    BY <1>3, <1>4, <1>5, <2>1
  <2>3. QED
    BY <1>2, <2>2 DEF Numbered
<1>7. ASSUME OneNameEach PROVE PeersDiffer'
  <2>1. PeersDiffer
    BY <1>7, Zenon DEF OnceInv
  <2>2. IsInjective(peers) /\ \A d \in Caller : IsInjective(left[d])
    BY <2>1 DEF PeersDiffer
  <2>3. IsInjective(<<>>)
    BY DEF IsInjective
  <2>4. \A d \in Caller : IsInjective(left'[d])
    BY <1>5, <2>2, <2>3, Zenon
  <2>5. /\ \A j \in Made : j[2] = call[j[1]] => \A k \in DOMAIN left[j[1]] : left[j[1]][k] # j[3]
        /\ \A i, j \in Made : i[1] = j[1] /\ i[2] = j[2] /\ i[3] = j[3] => i = j
    BY <2>1, Zenon DEF PeersDiffer
  <2>6. ASSUME NEW j \in Made, j[2] = call'[j[1]], NEW k \in DOMAIN left'[j[1]]
        PROVE left'[j[1]][k] # j[3]
    <3>1. j[1] \in Caller /\ j[2] \in Nat /\ j[2] <= call[j[1]]
      BY <1>3, <1>4, Zenon
    <3>2. call'[j[1]] = call[j[1]] /\ left'[j[1]] = left[j[1]]
      BY <1>5, <2>6, <3>1
    <3>3. QED
      BY <2>5, <2>6, <3>2
  <2>7. QED
    BY <1>1, <1>2, <2>2, <2>4, <2>5, <2>6 DEF PeersDiffer
<1>8. QED
  BY <1>2, <1>6, <1>7, Zenon DEF OnceInv, OneNameEach

\* A job that is submitted is new.
LEMMA OnceSubmit ==
  ASSUME Types, OnceInv, NEW c \in Caller, Submit(c)
  PROVE OnceInv'
<1> DEFINE new == <<c, call[c], Head(left[c]), Len(left[c])>>
<1>1. new \notin Made
  BY NotMade DEF OnceInv
<1>2. /\ UNCHANGED <<workVars, wire, late, applied, peers, cancelled, call>>
      /\ left[c] # <<>> /\ left' = [left EXCEPT ![c] = Tail(@)]
  BY DEF Submit, nodeVars
<1>3. /\ jobs' = Append(jobs, new)
      /\ {jobs'[k] : k \in DOMAIN jobs'} = {jobs[k] : k \in DOMAIN jobs} \cup {new}
  <2>1. /\ jobs \in Seq(Jobs) /\ jobs' = Append(jobs, new)
        /\ DOMAIN jobs' = DOMAIN jobs \cup {Len(jobs) + 1}
        /\ \A k \in DOMAIN jobs : jobs'[k] = jobs[k]
        /\ jobs'[Len(jobs) + 1] = new
    BY DEF Submit, Types
  <2>2. QED
    BY <2>1, Zenon
<1>4. Out' = Out \cup {new} /\ Unsent' = Unsent \cup {new} /\ Done' = Done
  <2> HIDE DEF new
  <2>1. Done' = Done
    BY <1>2 DEF Done
  <2>2. UNCHANGED {job[w] : w \in {v \in Worker : Active(v)}}
    BY <1>2, Zenon DEF Active, workVars
  <2>3. UNCHANGED {job[w] : w \in {v \in Worker : worker[v] = "post"}}
    BY <1>2 DEF workVars
  <2>4. QED
    BY <1>3, <2>1, <2>2, <2>3, Zenon DEF Out, Unsent
<1>5. Made' = Made \cup {new}
  BY <1>2, <1>4 DEF Made
<1>6. Numbered' /\ (OneNameEach => PeersDiffer')
  BY <1>2, <1>5, AddMade, Zenon DEF OnceInv
<1>7. Placed'
  BY <1>1, PlacedSubmit, Zenon DEF OnceInv, OnePlace, Made
<1>8. OnePlace'
  <2>1. new \notin wire /\ new \notin Done
    BY <1>1, Zenon DEF Made
  <2>2. QED
    BY <1>2, <1>4, <1>7, <2>1 DEF OnceInv, OnePlace
<1>9. RequestTypes' /\ Watched' /\ InOrder'
  BY <1>2 DEF OnceInv, RequestTypes, Watched, InOrder, workVars
<1>10. QED
  BY <1>6, <1>8, <1>9 DEF OnceInv, OneNameEach

\* A caller that posts by itself carries out a new job of its current call.
LEMMA OnceInline ==
  ASSUME Types, OnceInv, NEW c \in Caller, PostInline(c)
  PROVE OnceInv'
<1> DEFINE new == <<c, call[c], Head(left[c]), Len(left[c])>>
<1>1. new \notin Made
  BY NotMade DEF OnceInv
<1>2. /\ UNCHANGED <<jobs, workVars, wire, late, peers, cancelled, call>>
      /\ left[c] # <<>> /\ left' = [left EXCEPT ![c] = Tail(@)]
      /\ applied' = applied \/ applied' = [applied EXCEPT ![Head(left[c])] = Append(@, new)]
  BY Zenon DEF PostInline, nodeVars
<1>3. new \in Jobs /\ new[3] = Head(left[c]) /\ new[2] = call[new[1]]
  BY <1>2 DEF Types, Jobs
<1>4. Out' = Out /\ Unsent' = Unsent /\ \A v : Active(v)' <=> Active(v)
  BY <1>2, Zenon DEF Out, Unsent, Active, workVars
<1>5. Placed'
  BY <1>2, <1>4, PlacedKept, Zenon DEF OnceInv, OnePlace, workVars
<1>6. Watched'
  BY <1>2 DEF OnceInv, Watched, workVars
<1>7. CASE applied' = applied
  <2>1. RequestTypes' /\ OnePlace' /\ Made' = Made
    BY <1>2, <1>4, <1>5, <1>7, OnePlaceKept DEF OnceInv, Made
  <2>2. InOrder'
    BY <1>2, <1>7, InOrderKept, Zenon DEF OnceInv
  <2>3. Numbered' /\ (OneNameEach => PeersDiffer')
    BY <1>2, <2>1, AddMade, Zenon DEF OnceInv
  <2>4. QED
    BY <1>6, <2>1, <2>2, <2>3 DEF OnceInv, OneNameEach
<1>8. CASE applied' = [applied EXCEPT ![new[3]] = Append(@, new)]
  <2> HIDE DEF new
  <2>1. /\ applied' \in [Peer -> Seq(Jobs)]
        /\ \A p \in Peer : \A k \in DOMAIN applied'[p] : applied'[p][k][3] = p
        /\ Done' = Done \cup {new}
    BY <1>3, <1>8, ApplyOne, Zenon DEF OnceInv
  <2>2. RequestTypes'
    BY <1>2, <2>1, Zenon DEF OnceInv, RequestTypes
  <2>3. Made' = Made \cup {new}
    BY <1>2, <1>4, <2>1 DEF Made
  <2>4. Numbered' /\ (OneNameEach => PeersDiffer')
    BY <1>2, <2>3, AddMade, Zenon DEF OnceInv, new
  <2>5. new \notin Done /\ new \notin Unsent /\ new \notin wire
    <3>1. Unsent \subseteq Out
      BY DEF Unsent, Out, Active
    <3>2. QED
      BY <1>1, <3>1 DEF Made
  <2>6. /\ InOrder'
        /\ \A p \in Peer : \A k, l \in DOMAIN applied'[p] : applied'[p][k] = applied'[p][l] => k = l
    BY <1>2, <1>3, <1>8, <2>5, ApplyInOrder, Zenon DEF OnceInv
  <2>7. OnePlace'
    BY <1>2, <1>4, <1>5, <2>1, <2>5, <2>6, Zenon DEF OnceInv, OnePlace
  <2>8. QED
    BY <1>6, <2>2, <2>4, <2>6, <2>7 DEF OnceInv, OneNameEach
<1>9. QED
  BY <1>2, <1>3, <1>7, <1>8, Zenon

\* A peer carries out a request that was on the wire. Until the server is closed
\* its caller is still in the call, unless doPost gave the request up.
LEMMA OnceApplies ==
  ASSUME IInv, OnceInv, NEW r \in wire, PeerApplies(r)
  PROVE OnceInv'
<1>1. /\ UNCHANGED <<jobs, workVars, late, peers, cancelled, call, left>>
      /\ wire' = wire \ {r}
      /\ applied' = [applied EXCEPT ![r[3]] = Append(@, r)]
  BY Zenon DEF PeerApplies, nodeVars, callVars
<1>2. r \in Jobs /\ r \notin Done /\ r \notin Unsent
  BY DEF OnceInv, RequestTypes, OnePlace
<1>3. /\ applied' \in [Peer -> Seq(Jobs)]
      /\ \A p \in Peer : \A k \in DOMAIN applied'[p] : applied'[p][k][3] = p
      /\ Done' = Done \cup {r}
  BY <1>1, <1>2, ApplyOne, Zenon DEF OnceInv
<1>4. Out' = Out /\ Unsent' = Unsent /\ \A v : Active(v)' <=> Active(v)
  BY <1>1, Zenon DEF Out, Unsent, Active, workVars
<1>5. Placed'
  BY <1>1, <1>4, PlacedKept, Zenon DEF OnceInv, OnePlace, workVars
<1>6. Made' = Made
  BY <1>1, <1>3, <1>4, Zenon DEF Made
<1>7. Numbered' /\ (OneNameEach => PeersDiffer')
  BY <1>1, <1>6, KeepMade DEF OnceInv, PeersDiffer
<1>8. ~cancelled /\ r \notin late => r[2] = call[r[1]]
  <2>1. r \notin late => r \in Out
    BY Zenon DEF OnceInv, Watched, Out, Active
  <2>2. QED
    BY <2>1 DEF IInv, Good, Held
<1>9. /\ InOrder'
      /\ \A p \in Peer : \A k, l \in DOMAIN applied'[p] : applied'[p][k] = applied'[p][l] => k = l
  BY <1>1, <1>2, <1>8, ApplyInOrder, Zenon DEF IInv, OnceInv
<1>10. OnePlace'
  BY <1>1, <1>2, <1>3, <1>4, <1>5, <1>9, Zenon DEF OnceInv, OnePlace
<1>11. RequestTypes' /\ Watched'
  BY <1>1, <1>3 DEF OnceInv, RequestTypes, Watched, workVars
<1>12. QED
  BY <1>7, <1>9, <1>10, <1>11 DEF OnceInv, OneNameEach

\* Workers take, post and answer jobs; none of these makes one or carries it out.
LEMMA OnceWorker ==
  ASSUME Types, OnceInv, NEW w \in Worker, Posting(w) \/ Working(w)
  PROVE OnceInv'
<1>1. UNCHANGED <<applied, peers, cancelled, call, left>> /\ late \subseteq late'
  BY Zenon DEF Posting, Working, Post, PostDone, PostFails, WorkerTake, WorkerReply, WorkerStop,
         nodeVars, callVars
<1>2. Done' = Done /\ InOrder'
  BY <1>1, InOrderKept DEF OnceInv, Done
<1>3. ASSUME OnePlace', RequestTypes', Watched', Out' \subseteq Out, wire' \subseteq wire \cup Out
      PROVE OnceInv'
  <2>1. Made' \subseteq Made
    BY <1>2, <1>3, Zenon DEF Made
  <2>2. Numbered' /\ (OneNameEach => PeersDiffer')
    BY <1>1, <2>1, KeepMade, Zenon DEF OnceInv, PeersDiffer
  <2>3. QED
    BY <1>2, <1>3, <2>2 DEF OnceInv, OneNameEach
<1>4. CASE WorkerTake(w)
  <2>1. /\ 1 \in DOMAIN jobs /\ job'[w] = jobs[1]
        /\ \A k \in DOMAIN jobs' : k + 1 \in DOMAIN jobs /\ jobs'[k] = jobs[k + 1]
        /\ \A v \in Worker : v # w => job'[v] = job[v]
    BY <1>4, TakeMoves, Zenon
  <2>2. /\ worker[w] = "idle" /\ wire' = wire /\ late' = late
        /\ \A v \in Worker : v # w => worker'[v] = worker[v]
    BY <1>4, Zenon DEF WorkerTake, Types
  <2>3. Unsent' \subseteq Unsent
    BY <2>1, <2>2 DEF Unsent
  <2>4. Placed'
    BY <1>4, PlacedTake, Zenon DEF OnceInv, OnePlace
  <2>5. RequestTypes' /\ OnePlace'
    BY <1>1, <2>2, <2>3, <2>4, OnePlaceKept, Zenon DEF OnceInv
  <2>6. Watched'
    BY <2>1, <2>2 DEF OnceInv, Watched
  <2>7. QED
    BY <1>3, <1>4, <2>2, <2>5, <2>6, TakeOut, Zenon
<1>5. CASE Posting(w) \/ WorkerReply(w) \/ WorkerStop(w)
  <2>1. /\ UNCHANGED jobs
        /\ \A v \in Worker : v # w => worker'[v] = worker[v] /\ job'[v] = job[v]
        /\ worker'[w] # "post"
        /\ Active(w)' => Active(w) /\ job'[w] = job[w]
    BY <1>5, Zenon DEF Posting, Post, PostDone, PostFails, WorkerReply, WorkerStop, Types, Active
  <2>2. \A v \in Worker : Active(v)' => Active(v) /\ job'[v] = job[v]
    BY <2>1, Zenon DEF Active
  <2>3. Placed'
    BY <2>1, <2>2, PlacedKept, Zenon DEF OnceInv, OnePlace
  <2>4. Out' \subseteq Out /\ Unsent' \subseteq Unsent
    BY <2>1, <2>2, Zenon DEF Out, Unsent
  <2>5. CASE Post(w)
    <3>1. /\ worker[w] = "post" /\ wire' = wire \cup {job[w]} /\ late' = late
          /\ worker'[w] = "sent" /\ job' = job
      BY <2>5, Zenon DEF Post, Types
    <3>2. job[w] \in Unsent /\ job[w] \in Out /\ job[w] \in Jobs
      BY <3>1, Zenon DEF Unsent, Out, Active, Types
    <3>3. job[w] \notin Unsent'
      BY <2>1, <3>1 DEF Unsent, OnceInv, OnePlace, Placed, Active
    <3>4. OnePlace'
      BY <1>1, <1>2, <2>3, <2>4, <3>1, <3>2, <3>3, Zenon DEF OnceInv, OnePlace
    <3>5. RequestTypes'
      BY <1>1, <3>1, <3>2, Zenon DEF OnceInv, RequestTypes
    <3>6. Watched'
      BY <2>1, <3>1 DEF OnceInv, Watched
    <3>7. QED
      BY <1>3, <2>4, <3>1, <3>2, <3>4, <3>5, <3>6
  <2>6. CASE PostDone(w) \/ PostFails(w) \/ WorkerReply(w) \/ WorkerStop(w)
    <3>1. wire' \subseteq wire
      BY <2>6 DEF PostDone, PostFails, WorkerReply, WorkerStop
    <3>2. RequestTypes' /\ OnePlace'
      BY <1>1, <2>3, <2>4, <3>1, OnePlaceKept DEF OnceInv
    <3>3. worker[w] = "sent" /\ job[w] \in wire' => job[w] \in late'
      <4>1. CASE PostDone(w)
        <5>1. job[w] \in Jobs /\ job[w][3] \in Peer
          BY <4>1, Zenon DEF PostDone, Types, Active, Jobs
        <5>2. job[w] \in Done
          BY <4>1, <5>1 DEF PostDone, Done
        <5>3. QED
          BY <3>1, <5>2, Zenon DEF OnceInv, OnePlace
      <4>2. CASE PostFails(w)
        BY <4>2, Zenon DEF PostFails
      <4>3. QED
        BY <2>6, <4>1, <4>2, Zenon DEF WorkerReply, WorkerStop
    <3>4. Watched'
      BY <1>1, <2>1, <3>1, <3>3 DEF OnceInv, Watched
    <3>5. QED
      BY <1>3, <2>4, <3>1, <3>2, <3>4, Zenon
  <2>7. QED
    BY <1>5, <2>5, <2>6 DEF Posting
<1>6. QED
  BY <1>4, <1>5, Zenon DEF Working

\* Every step keeps jobs in one place and calls in order.
LEMMA NextOnce == IInv /\ OnceInv /\ [Next]_vars => OnceInv'
<1> SUFFICES ASSUME IInv, OnceInv, [Next]_vars PROVE OnceInv'
  OBVIOUS
<1>1. ASSUME NEW c \in Caller, Begin(c) \/ Calling(c) PROVE OnceInv'
  BY <1>1, OnceCaller, OnceSubmit, OnceInline DEF Calling, IInv
<1>2. ASSUME NEW w \in Worker, Posting(w) \/ Working(w) PROVE OnceInv'
  BY <1>2, OnceWorker DEF IInv
<1>3. ASSUME NEW r \in wire, PeerApplies(r) PROVE OnceInv'
  BY <1>3, OnceApplies, Zenon
<1>4. CASE Start \/ Stop \/ Refresh \/ UNCHANGED vars
  <2>1. /\ UNCHANGED <<jobs, workVars, wire, late, applied, call, left>>
        /\ cancelled => cancelled'
        /\ peers' = peers \/ peers' \in Lookups
    BY <1>4 DEF Start, Stop, Refresh, vars, nodeVars, callVars
  <2>2. RequestTypes' /\ OnePlace' /\ Watched' /\ InOrder' /\ Made' = Made
    BY <2>1, RequestsKept
  <2>3. OneNameEach => IsInjective(peers')
    BY <2>1, Zenon DEF OnceInv, PeersDiffer, OneNameEach
  <2>4. Numbered' /\ (OneNameEach => PeersDiffer')
    BY <2>1, <2>2, <2>3, KeepMade DEF OnceInv
  <2>5. QED
    BY <2>2, <2>4, Zenon DEF OnceInv, OneNameEach
<1>5. QED
  BY <1>1, <1>2, <1>3, <1>4 DEF Next

\* A peer carries out a job once and, where no two names share a peer, a call
\* once; until the server is closed it carries out the calls of a goroutine in
\* their order, but for requests doPost gave up (AppliedOnceInOrder). This is
\* for any number of callers, workers, peers and calls, and any failures.
THEOREM CallsInOrder == Spec => []AppliedOnceInOrder
<1>1. Spec => []IInv
  BY InitHolds, NextHolds, PTL DEF Spec
<1>2. Spec => []OnceInv
  BY <1>1, InitOnce, NextOnce, PTL DEF Spec
<1>3. OnceInv => AppliedOnceInOrder
  <2> SUFFICES ASSUME OnceInv, NEW p \in Peer, NEW k \in DOMAIN applied[p],
                      NEW l \in DOMAIN applied[p], k < l
               PROVE /\ applied[p][k] # applied[p][l]
                     /\ OneNameEach => <<applied[p][k][1], applied[p][k][2]>>
                                         # <<applied[p][l][1], applied[p][l][2]>>
                     /\ ~cancelled /\ applied[p][k][1] = applied[p][l][1] /\ applied[p][l] \notin late
                          => applied[p][k][2] <= applied[p][l][2]
    BY DEF AppliedOnceInOrder
  <2>1. k # l
    BY DEF OnceInv, RequestTypes
  <2>2. applied[p][k] # applied[p][l]
    BY <2>1, Zenon DEF OnceInv, OnePlace
  <2>3. /\ applied[p][k] \in Made /\ applied[p][l] \in Made
        /\ applied[p][k][3] = p /\ applied[p][l][3] = p
    BY DEF OnceInv, RequestTypes, Made, Done
  <2>4. OneNameEach => ~(applied[p][k][1] = applied[p][l][1] /\ applied[p][k][2] = applied[p][l][2])
    BY <2>2, <2>3 DEF OnceInv, PeersDiffer
  <2>5. QED
    BY <2>2, <2>4, Zenon DEF OnceInv, InOrder
<1>4. QED
  BY <1>2, <1>3, PTL
=============================================================================
