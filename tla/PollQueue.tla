----------------------------- MODULE PollQueue -----------------------------
(***************************************************************************)
(* pollQueue: the frames a polling client has yet to fetch. add appends a   *)
(* frame under the mutex and then drops a token into a channel of capacity  *)
(* one; take drains the queue, and waits for the token or a timer first     *)
(* when it finds the queue empty. Appending and signalling are two steps,   *)
(* and so are looking, waiting and draining.                               *)
(***************************************************************************)
EXTENDS Naturals, Sequences

CONSTANTS
  Adder,     \* goroutines that send to the connection
  Taker,     \* GET requests in progress
  Frame      \* frames

VARIABLES
  frames,  \* pollQueue.frames
  ready,   \* tokens in the channel pollQueue.ready
  adder,   \* [a]: idle, or between the unlock of add and its signal
  taker,   \* [t]: idle, waiting in take, or about to drain after the wait
  added,   \* frames in the order add appended them
  out      \* frames in the order take drained them

vars == <<frames, ready, adder, taker, added, out>>

Init ==
  /\ frames = <<>>
  /\ ready = 0
  /\ adder = [a \in Adder |-> "idle"]
  /\ taker = [t \in Taker |-> "idle"]
  /\ added = <<>>
  /\ out = <<>>

-----------------------------------------------------------------------------
\* add, under the mutex
AddAppend(a, f) ==
  /\ adder[a] = "idle"
  /\ frames' = Append(frames, f)
  /\ added' = Append(added, f)
  /\ adder' = [adder EXCEPT ![a] = "signal"]
  /\ UNCHANGED <<ready, taker, out>>

\* Mutant: only the add that finds its frame alone in the queue signals.
AddSignalFirst(a) ==
  /\ adder[a] = "signal"
  /\ ready' = IF Len(frames) = 1 THEN 1 ELSE ready
  /\ adder' = [adder EXCEPT ![a] = "idle"]
  /\ UNCHANGED <<frames, taker, added, out>>

\* add, the signal: the channel keeps one token
AddSignal(a) ==
  /\ adder[a] = "signal"
  /\ ready' = 1
  /\ adder' = [adder EXCEPT ![a] = "idle"]
  /\ UNCHANGED <<frames, taker, added, out>>

\* The frames of the queue are taken out.
Drain ==
  /\ out' = out \o frames
  /\ frames' = <<>>

\* take finds frames and returns them; a token that announced them stays.
TakeNow(t) ==
  /\ taker[t] = "idle"
  /\ frames # <<>>
  /\ Drain
  /\ UNCHANGED <<ready, adder, taker, added>>

\* take finds none and waits.
TakeWait(t) ==
  /\ taker[t] = "idle"
  /\ frames = <<>>
  /\ taker' = [taker EXCEPT ![t] = "wait"]
  /\ UNCHANGED <<frames, ready, adder, added, out>>

\* take is woken by a token.
TakeReady(t) ==
  /\ taker[t] = "wait"
  /\ ready > 0
  /\ ready' = ready - 1
  /\ taker' = [taker EXCEPT ![t] = "woken"]
  /\ UNCHANGED <<frames, adder, added, out>>

\* take gives up waiting when the poll timeout has passed.
TakeTimeout(t) ==
  /\ taker[t] = "wait"
  /\ taker' = [taker EXCEPT ![t] = "woken"]
  /\ UNCHANGED <<frames, ready, adder, added, out>>

\* take, after the wait, returns what there is, possibly nothing.
TakeRest(t) ==
  /\ taker[t] = "woken"
  /\ Drain
  /\ taker' = [taker EXCEPT ![t] = "idle"]
  /\ UNCHANGED <<ready, adder, added>>

Add(a) == AddSignal(a) \/ \E f \in Frame : AddAppend(a, f)

Take(t) == TakeNow(t) \/ TakeWait(t) \/ TakeReady(t) \/ TakeTimeout(t) \/ TakeRest(t)

Next == (\E a \in Adder : Add(a)) \/ (\E t \in Taker : Take(t))

Spec == Init /\ [][Next]_vars

-----------------------------------------------------------------------------
\* Type invariant of the queue.
TypeOK ==
  /\ frames \in Seq(Frame)
  /\ ready \in 0 .. 1
  /\ adder \in [Adder -> {"idle", "signal"}]
  /\ taker \in [Taker -> {"idle", "wait", "woken"}]
  /\ added \in Seq(Frame)
  /\ out \in Seq(Frame)

\* Whatever adds and takes overlap, the frames handed out are the frames added,
\* each once and in the order of the appends; the rest is still queued.
NothingLost == added = out \o frames

\* While a GET waits and a frame is queued, a wake-up is under way: the token is
\* in the channel, an add is about to drop it, or a take that got it is about to
\* drain the queue. A token left by frames that were drained before is harmless.
NoLostWakeup ==
  frames # <<>> /\ (\E t \in Taker : taker[t] = "wait") =>
    \/ ready = 1
    \/ \E a \in Adder : adder[a] = "signal"
    \/ \E t \in Taker : taker[t] = "woken"
=============================================================================
