------------------------------ MODULE Handlers ------------------------------
(***************************************************************************)
(* What the application registers and the server calls: eventHandlers, here *)
(* the list of one event, and one callbackStore. Handlers are added and     *)
(* removed by any goroutine, those that run handlers included, while        *)
(* several goroutines dispatch: the requests that post packets of a socket, *)
(* or the requests of peers that bring server-side events.                 *)
(*                                                                         *)
(* A step is one section under the mutex, or one call of a handler. dispatch *)
(* and off filter the list within its own array, and dispatch copies the    *)
(* array only afterwards.                                                  *)
(***************************************************************************)
EXTENDS Integers, Sequences

CONSTANTS
  Fn,          \* functions that may be registered, any number of times
  WithAck,     \* those of them that take an acknowledgement callback
  Dispatcher,  \* goroutines that dispatch
  MaxAdds      \* bound: registrations

ASSUME HandlersAssumption == WithAck \subseteq Fn /\ MaxAdds \in Nat

VARIABLES
  serverSide,  \* the handlers are those of server-side events
  list,        \* eventHandlers.m[event], <<>> if there is none
  on, once,    \* callbackStore.on and callbackStore.once
  items,       \* [d]: what d has yet to call, of the copy it made
  kind,        \* [d]: whether these are event handlers or callbacks
  regs,        \* all registrations, in their order
  ended,       \* numbers of those that were removed or taken for their one call
  calls        \* [k]: calls of registration k, if it is for one call

handlersVars == <<serverSide, list, on, once, items, kind, regs, ended, calls>>

HandlersInit ==
  /\ serverSide \in BOOLEAN
  /\ list = <<>> /\ on = <<>> /\ once = <<>>
  /\ items = [d \in Dispatcher |-> <<>>]
  /\ kind = [d \in Dispatcher |-> "event"]
  /\ regs = <<>>
  /\ ended = {}
  /\ calls = [k \in 1 .. MaxAdds |-> 0]

-----------------------------------------------------------------------------
\* The next registration; the registrations of s.
New(k, f, o) == [id |-> Len(regs) + 1, kind |-> k, fn |-> f, once |-> o]
Members(s) == {s[i] : i \in DOMAIN s}

\* The loop that appends to kept what stays of s, namely what is in stay
Only(s, stay) ==
  LET kept[k \in 0 .. Len(s)] ==
        IF k = 0 THEN <<>>
        ELSE IF s[k] \in stay THEN Append(kept[k - 1], s[k]) ELSE kept[k - 1]
  IN  kept[Len(s)]

\* What stays without the functions fs, and without what is for one call
Without(s, fs) == Only(s, {h \in Members(s) : h.fn \notin fs})
LastingOf(s) == Only(s, {h \in Members(s) : ~h.once})
OnceOf(s) == Only(s, {h \in Members(s) : h.once})

\* eventHandlers.add
Add(f, o) ==
  /\ Len(regs) < MaxAdds
  /\ regs' = Append(regs, New("event", f, o))
  /\ list' = Append(list, New("event", f, o))
  /\ UNCHANGED <<serverSide, on, once, items, kind, ended, calls>>

\* The registrations of a kind with a function of fs
Of(k, fs) == {h \in Members(regs) : h.kind = k /\ h.fn \in fs}

\* Mutant: the registrations of the function for one call are not removed.
OffKeepsOnce(f) ==
  /\ list # <<>>
  /\ list' = Only(list, {h \in Members(list) : h.fn # f \/ h.once})
  /\ ended' = ended \cup {h.id : h \in Of("event", {f})}
  /\ UNCHANGED <<serverSide, on, once, items, kind, regs, calls>>

\* eventHandlers.off for a function
Off(f) ==
  /\ list # <<>>
  /\ list' = Without(list, {f})
  /\ ended' = ended \cup {h.id : h \in Of("event", {f})}
  /\ UNCHANGED <<serverSide, on, once, items, kind, regs, calls>>

\* eventHandlers.off for the whole event; offAll does this for every event.
OffAll ==
  /\ list # <<>>
  /\ list' = <<>>
  /\ ended' = ended \cup {h.id : h \in Of("event", Fn)}
  /\ UNCHANGED <<serverSide, on, once, items, kind, regs, calls>>

-----------------------------------------------------------------------------
\* What the array of the list holds when the loop over kept := list[:0] is done
Filtered(s) == LastingOf(s) \o SubSeq(s, Len(LastingOf(s)) + 1, Len(s))

\* Mutant: the handlers for one call stay in the list.
DispatchKeeps(d) ==
  /\ items[d] = <<>> /\ list # <<>>
  /\ items' = [items EXCEPT ![d] = Filtered(list)]
  /\ kind' = [kind EXCEPT ![d] = "event"]
  /\ UNCHANGED <<serverSide, list, on, once, regs, ended, calls>>

\* dispatch and dispatchServerSide, up to the unlock
Dispatch(d) ==
  /\ items[d] = <<>> /\ list # <<>>
  /\ items' = [items EXCEPT ![d] = Filtered(list)]
  /\ list' = LastingOf(list)
  /\ kind' = [kind EXCEPT ![d] = "event"]
  /\ ended' = ended \cup {h.id : h \in Members(OnceOf(list))}
  /\ UNCHANGED <<serverSide, on, once, regs, calls>>

\* A handler or callback is called.
Called(h) == calls' = IF h.once THEN [calls EXCEPT ![h.id] = @ + 1] ELSE calls

\* The loop of dispatch calls the next handler.
Call(d) ==
  /\ items[d] # <<>> /\ kind[d] = "event"
  /\ ~(serverSide /\ Head(items[d]).fn \in WithAck)
  /\ Called(Head(items[d]))
  /\ items' = [items EXCEPT ![d] = Tail(@)]
  /\ UNCHANGED <<serverSide, list, on, once, kind, regs, ended>>

\* The arguments do not fit the next handler, or it is one for server-side
\* events that takes a callback: the others are not called.
CallFails(d) ==
  /\ items[d] # <<>> /\ kind[d] = "event"
  /\ items' = [items EXCEPT ![d] = <<>>]
  /\ UNCHANGED <<serverSide, list, on, once, kind, regs, ended, calls>>

-----------------------------------------------------------------------------
\* callbackStore.add
AddCallback(f, o) ==
  /\ Len(regs) < MaxAdds
  /\ regs' = Append(regs, New("callback", f, o))
  /\ on' = IF o THEN on ELSE Append(on, New("callback", f, o))
  /\ once' = IF o THEN Append(once, New("callback", f, o)) ELSE once
  /\ UNCHANGED <<serverSide, list, items, kind, ended, calls>>

\* callbackStore.remove, with functions or, for all callbacks, without
RemoveCallback(fs) ==
  /\ on \o once # <<>>
  /\ LET gone == IF fs = {} THEN Fn ELSE fs
     IN /\ on' = Without(on, gone)
        /\ once' = Without(once, gone)
        /\ ended' = ended \cup {h.id : h \in Of("callback", gone)}
  /\ UNCHANGED <<serverSide, list, items, kind, regs, calls>>

\* callbackStore.forEach, up to the unlock
ForEach(d) ==
  /\ items[d] = <<>> /\ on \o once # <<>>
  /\ items' = [items EXCEPT ![d] = on \o once]
  /\ once' = <<>>
  /\ kind' = [kind EXCEPT ![d] = "callback"]
  /\ ended' = ended \cup {h.id : h \in Members(once)}
  /\ UNCHANGED <<serverSide, list, on, regs, calls>>

\* The loops of forEach call the next callback.
CallCallback(d) ==
  /\ items[d] # <<>> /\ kind[d] = "callback"
  /\ Called(Head(items[d]))
  /\ items' = [items EXCEPT ![d] = Tail(@)]
  /\ UNCHANGED <<serverSide, list, on, once, kind, regs, ended>>

-----------------------------------------------------------------------------
Registering ==
  \/ \E f \in Fn, o \in BOOLEAN : Add(f, o) \/ AddCallback(f, o)
  \/ \E f \in Fn : Off(f)
  \/ \E fs \in SUBSET Fn : RemoveCallback(fs)
  \/ OffAll

Dispatching(d) ==
  Dispatch(d) \/ Call(d) \/ CallFails(d) \/ ForEach(d) \/ CallCallback(d)

HandlersNext == Registering \/ \E d \in Dispatcher : Dispatching(d)

HandlersSpec == HandlersInit /\ [][HandlersNext]_handlersVars

-----------------------------------------------------------------------------
\* What OnceEvent, OnceDisconnect and the like register is called at most once,
\* however many goroutines dispatch at the same time, although dispatch moves
\* handlers within the array it then copies.
CalledOnce == \A k \in 1 .. MaxAdds : calls[k] <= 1

\* What is registered and has not been removed or used up, in order.
Live(k) == Only(regs, {h \in Members(regs) : h.kind = k /\ h.id \notin ended})

\* The step in which d takes its copy for dispatch or forEach
Takes(d, k) == items[d] = <<>> /\ items'[d] # <<>> /\ kind'[d] = k

\* dispatch never calls a handler that off removed before it, and calls every
\* handler that is not for one call; when those for one call were registered
\* last, it calls each handler once and in the order of registration. forEach
\* calls each callback once, those for one call at the end.
DispatchServes ==
  [][\A d \in Dispatcher :
       /\ Takes(d, "event") =>
            LET due == Live("event")
            IN /\ Members(items'[d]) \subseteq Members(due)
               /\ Members(LastingOf(due)) \subseteq Members(items'[d])
               /\ due = LastingOf(due) \o OnceOf(due) => items'[d] = due
       /\ Takes(d, "callback") =>
            LET due == Live("callback") IN items'[d] = LastingOf(due) \o OnceOf(due)]_handlersVars

\* dispatch calls every handler of the event once, in the order of registration.
DispatchIsExact ==
  [][\A d \in Dispatcher : Takes(d, "event") => items'[d] = Live("event")]_handlersVars
=============================================================================
