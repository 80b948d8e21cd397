------------------------------- MODULE Fanout -------------------------------
(***************************************************************************)
(* How a node calls its peers: postToPeers puts one job per peer into the   *)
(* channel jobs, the fanout workers of the lifecycle post them, and the     *)
(* caller collects as many replies as it submitted jobs. Every call has a   *)
(* reply channel of its own with room for all replies, and a body that its  *)
(* caller releases when postToPeers returns. lifecycle.stop cancels the     *)
(* workers and those who wait for them. A node that is not started has no   *)
(* workers: its callers post by themselves. The list of peers is replaced   *)
(* whenever the names of the cluster are looked up (refreshDNSPeers).       *)
(*                                                                         *)
(* What a peer does with a request is one step, and so is a post without a  *)
(* worker.                                                                 *)
(***************************************************************************)
EXTENDS Integers, Sequences, FiniteSets, Functions

CONSTANTS
  Caller,    \* goroutines that broadcast, join, leave, disconnect or emit
  Peer,      \* peers
  Static,    \* the peers of the configuration
  Lookups,   \* what the names may resolve to, {} without names
  Worker,    \* fanout workers
  JobCap,    \* capacity of jobs (4 times the number of workers in the code)
  MaxCalls,  \* bound: calls a goroutine makes, one after the other
  Faults,    \* requests may fail
  MayStop,   \* the server may be closed
  NoJob      \* no job

ASSUME FanoutAssumption ==
  /\ Static \in Seq(Peer) /\ Lookups \subseteq Seq(Peer)
  /\ JobCap \in Nat \ {0} /\ MaxCalls \in Nat
  /\ Faults \in BOOLEAN /\ MayStop \in BOOLEAN
  /\ NoJob \notin Caller \X Nat \X Peer \X Nat

VARIABLES
  peers,      \* clusterNode.peers
  started,    \* clusterNode.started
  call,       \* [c]: number of the current or last call of c
  busy,       \* [c]: c is in postToPeers
  left,       \* [c]: peers c has yet to submit a job for
  awaited,    \* [c]: replies c has yet to receive
  replies,    \* [c]: replies in the channel of the current call
  jobs,       \* clusterNode.jobs
  job,        \* [w]: the job of worker w
  worker,     \* [w]: idle, post, sent, reply or stopped
  wire,       \* requests that may still reach their peer
  late,       \* requests doPost gave up while they were on the wire
  applied,    \* [p]: requests peer p has carried out, in the order of time
  cancelled   \* lifecycle.ctx is done

nodeVars == <<peers, started, cancelled>>
callVars == <<call, busy, left, awaited>>
workVars == <<job, worker>>
vars == <<nodeVars, callVars, replies, jobs, workVars, wire, late, applied>>

\* The jobs of a call, counted down
Job ==
  Caller \X (1 .. MaxCalls) \X Peer \X UNION {DOMAIN l : l \in Lookups \cup {Static}}

\* newClusterNode: the names are looked up once before the start.
Init ==
  /\ peers \in IF Lookups = {} THEN {Static} ELSE Lookups
  /\ started = FALSE
  /\ call = [c \in Caller |-> 0]
  /\ busy = [c \in Caller |-> FALSE]
  /\ left = [c \in Caller |-> <<>>]
  /\ awaited = [c \in Caller |-> 0]
  /\ replies = [c \in Caller |-> 0]
  /\ jobs = <<>>
  /\ job = [w \in Worker |-> NoJob]
  /\ worker = [w \in Worker |-> "idle"]
  /\ wire = {}
  /\ late = {}
  /\ applied = [p \in Peer |-> <<>>]
  /\ cancelled = FALSE

-----------------------------------------------------------------------------
\* postToPeers takes a snapshot of the peers and makes the reply channel.
Begin(c) ==
  /\ ~busy[c]
  /\ call[c] < MaxCalls
  /\ call' = [call EXCEPT ![c] = @ + 1]
  /\ busy' = [busy EXCEPT ![c] = TRUE]
  /\ left' = [left EXCEPT ![c] = peers]
  /\ awaited' = [awaited EXCEPT ![c] = 0]
  /\ replies' = [replies EXCEPT ![c] = 0]
  /\ UNCHANGED <<nodeVars, jobs, workVars, wire, late, applied>>

\* The job for one peer is put into the channel.
Submit(c) ==
  /\ Len(jobs) < JobCap
  /\ started /\ left[c] # <<>>
  /\ left' = [left EXCEPT ![c] = Tail(@)]
  /\ jobs' = Append(jobs, <<c, call[c], Head(left[c]), Len(left[c])>>)
  /\ awaited' = [awaited EXCEPT ![c] = @ + 1]
  /\ UNCHANGED <<call, busy, replies, workVars, wire, late, applied, nodeVars>>

\* The node is not started: the caller posts to the peer itself.
PostInline(c) ==
  /\ ~started /\ left[c] # <<>>
  /\ left' = [left EXCEPT ![c] = Tail(@)]
  /\ LET p == Head(left[c])
     IN  \/ applied' = [applied EXCEPT ![p] = Append(@, <<c, call[c], p, Len(left[c])>>)]
         \/ Faults /\ UNCHANGED applied
  /\ UNCHANGED <<call, busy, awaited, replies, jobs, workVars, wire, late, nodeVars>>

\* A reply is received when all jobs are submitted.
Collect(c) ==
  /\ left[c] = <<>>
  /\ awaited[c] > 0 /\ replies[c] > 0
  /\ awaited' = [awaited EXCEPT ![c] = @ - 1]
  /\ replies' = [replies EXCEPT ![c] = @ - 1]
  /\ UNCHANGED <<call, busy, left, jobs, workVars, wire, late, applied, nodeVars>>

\* Mutant: postToPeers does not wait for the last reply.
ReturnEarly(c) ==
  /\ busy[c]
  /\ \/ left[c] = <<>> /\ awaited[c] <= 1
     \/ cancelled /\ (left[c] # <<>> \/ awaited[c] > 0)
  /\ busy' = [busy EXCEPT ![c] = FALSE]
  /\ left' = [left EXCEPT ![c] = <<>>]
  /\ UNCHANGED <<call, awaited, replies, jobs, workVars, wire, late, applied, nodeVars>>

\* Mutant: postToPeers does not return when the server is closed.
ReturnOnlyDone(c) ==
  /\ busy[c]
  /\ left[c] = <<>> /\ awaited[c] = 0
  /\ busy' = [busy EXCEPT ![c] = FALSE]
  /\ left' = [left EXCEPT ![c] = <<>>]
  /\ UNCHANGED <<call, awaited, replies, jobs, workVars, wire, late, applied, nodeVars>>

\* postToPeers returns with all replies, or from either wait once the server is
\* being closed, and its caller releases the body.
Return(c) ==
  /\ busy[c]
  /\ \/ left[c] = <<>> /\ awaited[c] = 0
     \/ cancelled /\ (left[c] # <<>> \/ awaited[c] > 0)
  /\ busy' = [busy EXCEPT ![c] = FALSE]
  /\ left' = [left EXCEPT ![c] = <<>>]
  /\ UNCHANGED <<call, awaited, replies, jobs, workVars, wire, late, applied, nodeVars>>

-----------------------------------------------------------------------------
\* runFanoutWorker receives a job.
WorkerTake(w) ==
  /\ started /\ worker[w] = "idle"
  /\ jobs # <<>>
  /\ job' = [job EXCEPT ![w] = Head(jobs)]
  /\ jobs' = Tail(jobs)
  /\ worker' = [worker EXCEPT ![w] = "post"]
  /\ UNCHANGED <<callVars, replies, wire, late, applied, nodeVars>>

\* doPost sends the request.
Post(w) ==
  /\ worker[w] = "post"
  /\ wire' = wire \cup {job[w]}
  /\ worker' = [worker EXCEPT ![w] = "sent"]
  /\ UNCHANGED <<callVars, replies, jobs, job, late, applied, nodeVars>>

\* The peer carries out a request.
PeerApplies(r) ==
  /\ r \in wire
  /\ wire' = wire \ {r}
  /\ applied' = [applied EXCEPT ![r[3]] = Append(@, r)]
  /\ UNCHANGED <<callVars, replies, jobs, workVars, late, nodeVars>>

\* Mutant: doPost does not wait for the response.
PostDoneAtOnce(w) ==
  /\ worker[w] = "sent"
  /\ worker' = [worker EXCEPT ![w] = "reply"]
  /\ UNCHANGED <<callVars, replies, jobs, job, wire, late, applied, nodeVars>>

\* doPost gets the response.
PostDone(w) ==
  /\ worker[w] = "sent"
  /\ \E k \in DOMAIN applied[job[w][3]] : applied[job[w][3]][k] = job[w]
  /\ worker' = [worker EXCEPT ![w] = "reply"]
  /\ UNCHANGED <<callVars, replies, jobs, job, wire, late, applied, nodeVars>>

\* doPost gives up: the request is lost, or late, or its response is.
PostFails(w) ==
  /\ Faults
  /\ worker[w] = "sent"
  /\ \E gone \in SUBSET {job[w]} : wire' = wire \ gone
  /\ late' = late \cup ({job[w]} \cap wire')
  /\ worker' = [worker EXCEPT ![w] = "reply"]
  /\ UNCHANGED <<callVars, replies, jobs, job, applied, nodeVars>>

\* The reply goes into the channel of its call, which has room for it.
WorkerReply(w) ==
  /\ worker[w] = "reply"
  /\ replies' = [replies EXCEPT ![job[w][1]] = IF job[w][2] = call[job[w][1]] THEN @ + 1 ELSE @]
  /\ job' = [job EXCEPT ![w] = NoJob]
  /\ worker' = [worker EXCEPT ![w] = "idle"]
  /\ UNCHANGED <<callVars, jobs, wire, late, applied, nodeVars>>

\* Mutant: a worker that waits for a job does not watch the context.
WorkerStopReplying(w) ==
  /\ cancelled
  /\ worker[w] = "reply"
  /\ job' = [job EXCEPT ![w] = NoJob]
  /\ worker' = [worker EXCEPT ![w] = "stopped"]
  /\ UNCHANGED <<callVars, replies, jobs, wire, late, applied, nodeVars>>

\* A worker stops between two jobs or in place of replying.
WorkerStop(w) ==
  /\ cancelled
  /\ worker[w] \in {"idle", "reply"}
  /\ job' = [job EXCEPT ![w] = NoJob]
  /\ worker' = [worker EXCEPT ![w] = "stopped"]
  /\ UNCHANGED <<callVars, replies, jobs, wire, late, applied, nodeVars>>

\* lifecycle.stop
Stop ==
  /\ MayStop /\ ~cancelled
  /\ cancelled' = TRUE
  /\ UNCHANGED <<peers, started, callVars, replies, jobs, workVars, wire, late, applied>>

\* start
Start ==
  /\ ~started /\ ~cancelled
  /\ started' = TRUE
  /\ UNCHANGED <<peers, cancelled, callVars, replies, jobs, workVars, wire, late, applied>>

\* refreshDNSPeers: the result of the lookups replaces the list.
Refresh ==
  /\ started /\ ~cancelled
  /\ peers' \in Lookups
  /\ UNCHANGED <<started, cancelled, callVars, replies, jobs, workVars, wire, late, applied>>

Calling(c) == Submit(c) \/ PostInline(c) \/ Collect(c) \/ Return(c)

Posting(w) == Post(w) \/ PostDone(w) \/ PostFails(w)

Working(w) == WorkerTake(w) \/ WorkerReply(w) \/ WorkerStop(w)

Next ==
  \/ \E c \in Caller : Begin(c) \/ Calling(c)
  \/ \E w \in Worker : Posting(w) \/ Working(w)
  \/ \E r \in wire : PeerApplies(r)
  \/ Start \/ Stop \/ Refresh

Spec == Init /\ [][Next]_vars

\* Goroutines that can run do run, a peer carries out a request or the request
\* times out. A worker that finds a job and the end of the context at once may
\* take either; it does not take jobs for ever.
FairSpec ==
  /\ Spec
  /\ \A c \in Caller : WF_vars(Calling(c)) /\ SF_vars(Submit(c))
  /\ \A w \in Worker : WF_vars(Posting(w)) /\ WF_vars(Working(w)) /\ SF_vars(WorkerStop(w))
  /\ \A r \in Job : WF_vars(PeerApplies(r))

-----------------------------------------------------------------------------
\* The jobs whose body may still be read.
Pending == {jobs[k] : k \in DOMAIN jobs} \cup {job[w] : w \in {v \in Worker : worker[v] \in {"post", "sent"}}}

\* Until the server is closed, postToPeers does not return, and the pooled body
\* is not released, while a job with this body is queued or being posted.
BodyHeld ==
  ~cancelled => \A j \in Pending : busy[j[1]] /\ call[j[1]] = j[2]

\* No two names resolve to the same peer.
OneNameEach == \A l \in Lookups \cup {Static} : IsInjective(l)

\* A peer carries out a call at most once, whatever fails and however the list
\* of peers changes, provided that the list has no peer twice. Until the server
\* is closed, the calls of a goroutine also reach every peer in the order it
\* made them, although different workers post them and some requests fail; only
\* a request that doPost gave up while it was on the wire may be overtaken.
AppliedOnceInOrder ==
  \A p \in Peer : \A k, l \in DOMAIN applied[p] :
    LET first == applied[p][k]
        second == applied[p][l]
    IN k < l => /\ first # second
                /\ OneNameEach => <<first[1], first[2]>> # <<second[1], second[2]>>
                /\ ~cancelled /\ first[1] = second[1] /\ second \notin late
                     => first[2] <= second[2]

\* The same without the proviso on the names: no peer carries out a call twice.
AppliedOnce ==
  \A p \in Peer : \A k, l \in DOMAIN applied[p] :
    k # l => SubSeq(applied[p][k], 1, 2) # SubSeq(applied[p][l], 1, 2)

\* postToPeers returns, whatever the peers do, and also when the server is
\* closed while it waits.
CallsReturn == \A c \in Caller : busy[c] ~> ~busy[c]

\* lifecycle.stop gets all fanout workers to stop.
WorkersStop == cancelled ~> \A w \in Worker : worker[w] = "stopped"
=============================================================================
