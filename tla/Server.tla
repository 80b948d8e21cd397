------------------------------- MODULE Server -------------------------------
(***************************************************************************)
(* The life of a Server: Run, Close, requests that open connections, and    *)
(* the ack sweeper, with the lock of the tables (Server.mu).                *)
(*                                                                         *)
(* Whoever adds to a table or removes from it waits for the lock (waiting)  *)
(* and does so in one step once it is held. The sweeper keeps a read lock   *)
(* while it calls back the application, and a writer that waits keeps out   *)
(* new readers. The other readers read in one step.                        *)
(***************************************************************************)
EXTENDS Naturals, FiniteSets

CONSTANTS
  Request,    \* requests that open a connection
  Websocket,  \* those that do so with a websocket, the others poll
  Hazards     \* what may happen, see mode

ASSUME ServerAssumption ==
  /\ Websocket \subseteq Request
  /\ Hazards \subseteq {"calls", "rerun"}
  /\ "sweeper" \notin Request

VARIABLES
  runner,     \* Run: new, checked, started, done or failed
  running,    \* Server.running
  cancelled,  \* the context of lifecycle is done, and with it that of every connection
  waiting,    \* goroutines that wait for Server.mu, named after the connection
  sweeper,    \* off, idle, sweeping (with the read lock), stuck or stopped
  request,    \* [r]: new, refused, admitted, adding, added, open, closing, removing or gone
  conns,      \* Server.conns
  closer,     \* Close: no, closing, stopping, stopped or done
  snapshot,   \* connections Close has yet to close
  ending,     \* the connection Close is in engineConn.close of, as a set
  late,       \* connections that were added after Close looked
  mode        \* what may happen in this behaviour

serverVars == <<runner, running, cancelled>>
connVars == <<request, conns, late>>
closeVars == <<closer, snapshot, ending>>
vars == <<serverVars, waiting, sweeper, connVars, closeVars, mode>>

Init ==
  /\ runner = "new"
  /\ running = FALSE
  /\ cancelled = FALSE
  /\ waiting = {}
  /\ sweeper = "off"
  /\ request = [r \in Request |-> "new"]
  /\ conns = {}
  /\ closer = "no"
  /\ snapshot = {}
  /\ ending = {}
  /\ late = {}
  /\ mode \in SUBSET Hazards

\* A read lock can be had, and a write lock.
CanRead == waiting = {}
CanWrite == sweeper \notin {"sweeping", "stuck"}

Move(r, from, to) ==
  /\ request[r] = from
  /\ request' = [request EXCEPT ![r] = to]

-----------------------------------------------------------------------------
\* Run finds the server not closed.
RunCheck ==
  /\ runner = "new"
  /\ runner' = IF cancelled THEN "failed" ELSE "checked"
  /\ UNCHANGED <<running, cancelled, waiting, sweeper, connVars, closeVars, mode>>

\* Run starts the loops.
RunStart ==
  /\ runner = "checked"
  /\ runner' = "started"
  /\ sweeper' = "idle"
  /\ UNCHANGED <<running, cancelled, waiting, connVars, closeVars, mode>>

\* Run opens the server.
RunDone ==
  /\ runner = "started"
  /\ runner' = "done"
  /\ running' = TRUE
  /\ UNCHANGED <<cancelled, waiting, sweeper, connVars, closeVars, mode>>

\* sweepAcks takes the read lock.
SweepBegin ==
  /\ sweeper = "idle" /\ CanRead
  /\ sweeper' = "sweeping"
  /\ UNCHANGED <<serverVars, waiting, connVars, closeVars, mode>>

\* A callback of the application calls Of, as every method of Server does, or
\* disconnects with the connection: it waits for the lock the sweeper has.
SweepCalls ==
  /\ "calls" \in mode
  /\ sweeper = "sweeping"
  /\ sweeper' = "stuck"
  /\ waiting' = waiting \cup {"sweeper"}
  /\ UNCHANGED <<serverVars, connVars, closeVars, mode>>

\* Mutant: the lock is kept.
SweepEndKeeps ==
  /\ sweeper = "sweeping"
  /\ sweeper' = "stuck"
  /\ UNCHANGED <<serverVars, waiting, connVars, closeVars, mode>>

\* sweepAcks returns the lock.
SweepEnd ==
  /\ sweeper = "sweeping"
  /\ sweeper' = "idle"
  /\ UNCHANGED <<serverVars, waiting, connVars, closeVars, mode>>

\* ackSweepLoop sees the end of the context.
SweepStop ==
  /\ sweeper = "idle" /\ cancelled
  /\ sweeper' = "stopped"
  /\ UNCHANGED <<serverVars, waiting, connVars, closeVars, mode>>

-----------------------------------------------------------------------------
\* ServeHTTP lets a request in, or not.
Serve(r) ==
  /\ Move(r, "new", IF running THEN "admitted" ELSE "refused")
  /\ UNCHANGED <<serverVars, waiting, sweeper, conns, late, closeVars, mode>>

\* addConn asks for the lock.
AddWait(r) ==
  /\ Move(r, "admitted", "adding")
  /\ waiting' = waiting \cup {r}
  /\ UNCHANGED <<serverVars, sweeper, conns, late, closeVars, mode>>

\* addConn
AddConn(r) ==
  /\ CanWrite
  /\ Move(r, "adding", IF r \in Websocket THEN "added" ELSE "open")
  /\ waiting' = waiting \ {r}
  /\ conns' = conns \cup {r}
  /\ late' = IF closer = "no" THEN late ELSE late \cup {r}
  /\ UNCHANGED <<serverVars, sweeper, closeVars, mode>>

\* acceptFreshWebSocket starts the loops.
StartLoops(r) ==
  /\ Move(r, "added", "open")
  /\ UNCHANGED <<serverVars, waiting, sweeper, conns, late, closeVars, mode>>

\* acceptFreshWebSocket fails: removeConn or close
AcceptFails(r) ==
  /\ Move(r, "added", "closing")
  /\ UNCHANGED <<serverVars, waiting, sweeper, conns, late, closeVars, mode>>

\* The client ends the connection: an error of the read loop, or a CLOSE packet
\* in a POST, which has to find the connection.
ClientCloses(r) ==
  /\ r \in Websocket \/ CanRead
  /\ Move(r, "open", "closing")
  /\ UNCHANGED <<serverVars, waiting, sweeper, conns, late, closeVars, mode>>

\* Mutant: the loops of a connection do not watch the context of the server.
LoopsEndDetached(r) ==
  /\ FALSE
  /\ Move(r, "open", "closing")
  /\ UNCHANGED <<serverVars, waiting, sweeper, conns, late, closeVars, mode>>

\* The read loop of a websocket sees the end of the context and closes.
LoopsEnd(r) ==
  /\ r \in Websocket /\ cancelled
  /\ Move(r, "open", "closing")
  /\ UNCHANGED <<serverVars, waiting, sweeper, conns, late, closeVars, mode>>

\* engineConn.close comes to removeConn, which asks for the lock.
RemoveWait(r) ==
  /\ Move(r, "closing", "removing")
  /\ waiting' = waiting \cup {r}
  /\ UNCHANGED <<serverVars, sweeper, conns, late, closeVars, mode>>

\* removeConn
RemoveConn(r) ==
  /\ CanWrite
  /\ Move(r, "removing", "gone")
  /\ waiting' = waiting \ {r}
  /\ conns' = conns \ {r}
  /\ UNCHANGED <<serverVars, sweeper, late, closeVars, mode>>

-----------------------------------------------------------------------------
\* Close looks at the connections, after Run unless the two may race.
CloseBegin ==
  /\ closer = "no" /\ CanRead
  /\ runner \in {"done", "failed"} \/ "rerun" \in mode
  /\ closer' = "closing"
  /\ snapshot' = conns
  /\ UNCHANGED <<serverVars, waiting, sweeper, connVars, ending, mode>>

\* engineConn.close of the connection before has returned.
ConnClosed == \A r \in ending : request[r] = "gone"

\* Close closes a connection, unless somebody has begun to already.
CloseConn(r) ==
  /\ closer = "closing" /\ r \in snapshot /\ ConnClosed
  /\ snapshot' = snapshot \ {r}
  /\ IF request[r] \in {"added", "open"}
       THEN /\ request' = [request EXCEPT ![r] = "closing"]
            /\ ending' = {r}
       ELSE /\ ending' = {}
            /\ UNCHANGED request
  /\ UNCHANGED <<serverVars, waiting, sweeper, conns, late, closer, mode>>

\* Close ends the context.
CloseCancel ==
  /\ closer = "closing" /\ snapshot = {} /\ ConnClosed
  /\ cancelled' = TRUE
  /\ closer' = "stopping"
  /\ UNCHANGED <<runner, running, waiting, sweeper, connVars, snapshot, ending, mode>>

\* lifecycle.stop has waited for the loops, for five seconds at most.
CloseStopped ==
  /\ closer = "stopping"
  /\ closer' = "stopped"
  /\ UNCHANGED <<serverVars, waiting, sweeper, connVars, snapshot, ending, mode>>

\* Close shuts the server.
CloseDone ==
  /\ closer = "stopped"
  /\ closer' = "done"
  /\ running' = FALSE
  /\ UNCHANGED <<runner, cancelled, waiting, sweeper, connVars, snapshot, ending, mode>>

Running == RunCheck \/ RunStart \/ RunDone

Sweeping == SweepBegin \/ SweepCalls \/ SweepEnd \/ SweepStop

Opening(r) == AddWait(r) \/ AddConn(r) \/ StartLoops(r) \/ AcceptFails(r)

Ending(r) == LoopsEnd(r) \/ RemoveWait(r) \/ RemoveConn(r)

Closing == (\E r \in Request : CloseConn(r)) \/ CloseCancel \/ CloseStopped \/ CloseDone

Next ==
  \/ Running
  \/ Sweeping
  \/ \E r \in Request : Serve(r) \/ Opening(r) \/ ClientCloses(r) \/ Ending(r)
  \/ CloseBegin
  \/ Closing

Spec == Init /\ [][Next]_vars

\* Goroutines that can run do run: the lock needs no more, because a writer
\* that waits keeps out the sweeper.
FairSpec ==
  /\ Spec
  /\ WF_vars(Running) /\ WF_vars(SweepEnd) /\ WF_vars(Closing)
  /\ \A r \in Request : WF_vars(Opening(r)) /\ WF_vars(Ending(r))

-----------------------------------------------------------------------------
\* After Close, no request is let in.
NotServing == closer = "done" => ~running

\* After Close, every connection goes away.
AllGone == closer = "done" ~> conns = {}

\* Whoever waits for the lock of the tables gets it.
WaitEnds == \A r \in Request : r \in waiting ~> r \notin waiting

\* After Close, every connection goes away, whatever it was doing meanwhile:
\* Close closes those it finds, and the loops of a websocket that was added too
\* late see the end of the context. Only a polling connection that was added
\* after Close looked has nobody who would close it.
ShutdownEnds ==
  "calls" \notin mode /\ closer = "done" ~> [](conns \subseteq late \ Websocket)

\* Whoever waits for the lock of the tables gets it: the sweeper, which calls
\* back the application with the lock, returns it. This needs that no callback
\* uses the Server.
LockServed ==
  \A r \in Request : "calls" \notin mode /\ r \in waiting ~> r \notin waiting
=============================================================================
