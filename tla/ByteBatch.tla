----------------------------- MODULE ByteBatch -----------------------------
(***************************************************************************)
(* The pooled buffers of bytepool.go.  A byteBatch keeps the bytes of      *)
(* several items one after the other in one pooled array and, in a second  *)
(* pooled array, a view of each item.  Goroutines build batches            *)
(* concurrently and share the pools: an array that is outgrown or released *)
(* goes back to its bucket, and from then on its cells belong to whoever   *)
(* takes it next.                                                          *)
(*                                                                         *)
(* A byte is the tag of the item it was written for; sizes are counted in  *)
(* cells and the bucket sizes are parameters.                              *)
(***************************************************************************)
EXTENDS Integers, Sequences, SequencesExt, FiniteSetsExt

CONSTANTS Owner,       \* goroutines, each with at most one batch at a time
          Slab,        \* identities of arrays
          Size,        \* sizes of the items
          MaxItems,    \* items per batch
          Bucket,      \* the bucket sizes of each kind of array
          Prefix,      \* cells of the text that opens a placeholder
          Reserve,     \* cells AppendInt makes sure of (20 in the code)
          Room,        \* cells AppendPlaceholder makes sure of (64)
          None

Kind == {"bytes", "views"}

\* The room a placeholder asks for covers what its three appends ask for.
ASSUME PlaceholderRoom == Prefix + Reserve + 1 <= Room

VARIABLES heap,    \* [mem: the cells of each array, pool: the arrays in the buckets]
          batch,   \* [live, raw, views] of each owner; raw and views are slices
          items    \* the sizes appended to each batch, for the properties

batchVars == <<heap, batch, items>>

Nil == [slab |-> None, len |-> 0]
Idle == [live |-> FALSE, raw |-> Nil, views |-> Nil]

BatchInit ==
    /\ heap = [mem |-> [s \in Slab \cup {None} |-> <<>>], pool |-> [k \in Kind |-> {}]]
    /\ batch = [o \in Owner |-> Idle]
    /\ items = [o \in Owner |-> <<>>]

-----------------------------------------------------------------------------
(* Arrays. Each operator returns the set of possible <<slice, heap>>.        *)

Cap(h, slice) == Len(h.mem[slice.slab])

\* byteBucketIndexForMinCap: the smallest bucket that holds n, or n itself
\* beyond the largest.
RoundUp(kind, n) ==
    LET enough == {b \in Bucket[kind] : b >= n}
    IN IF enough = {} THEN n ELSE Min(enough)

\* acquireBytes and acquireByteViews: nothing for an empty array, else one from
\* the bucket or a new one. sync.Pool may answer nil although it holds some.
Acquire(h, kind, n) ==
    IF n = 0 THEN {<<Nil, h>>}
    ELSE LET size == RoundUp(kind, n)
             pooled == {s \in h.pool[kind] : Len(h.mem[s]) = size}
             new == {s \in Slab : h.mem[s] = <<>>}
         IN   {<<[slab |-> s, len |-> 0], [h EXCEPT !.pool[kind] = @ \ {s}]>> : s \in pooled}
         \cup {<<[slab |-> s, len |-> 0],
                 [h EXCEPT !.mem[s] = [i \in 1..size |-> None]]>> : s \in new}

\* releaseByteBase and releaseViewBase: an array of a bucket's size goes back to
\* it; whoever takes it next may write any of its cells.
Put(h, kind, slice) ==
    IF Cap(h, slice) \in Bucket[kind]
    THEN [h EXCEPT !.pool[kind] = @ \cup {slice.slab},
                   !.mem[slice.slab] = [i \in DOMAIN @ |-> None]]
    ELSE h

Write(h, slice, cells) ==
    [h EXCEPT !.mem[slice.slab] =
        [i \in DOMAIN @ |-> IF i - slice.len \in DOMAIN cells
                            THEN cells[i - slice.len] ELSE @[i]]]

\* pooledBytes.Ensure and pooledByteViews.Grow.
Ensure(h, kind, slice, extra) ==
    IF Cap(h, slice) - slice.len >= extra THEN {<<slice, h>>}
    ELSE {<<[got[1] EXCEPT !.len = slice.len],
            Put(Write(got[2], got[1], SubSeq(h.mem[slice.slab], 1, slice.len)),
                kind, slice)>> : got \in Acquire(h, kind, slice.len + extra)}

\* The appends of pooledBytes and pooledByteViews: room for `reserve` cells is
\* made, then `cells` are written.
Append_(h, kind, slice, reserve, cells) ==
    {<<[e[1] EXCEPT !.len = @ + Len(cells)], Write(e[2], e[1], cells)>> :
        e \in Ensure(h, kind, slice, reserve)}

-----------------------------------------------------------------------------
(* Batches. Each operator returns the set of possible <<batch, heap>>.       *)

\* A view is <<array, start, size>>.
ViewsOf(h, b) == SubSeq(h.mem[b.views.slab], 1, b.views.len)

\* The views cut again, one after the other, out of the array `slab`.
Cut(views, slab) ==
    [i \in DOMAIN views |->
        <<slab, FoldLeft(LAMBDA sum, v : sum + v[3], 0, SubSeq(views, 1, i - 1)), views[i][3]>>]

\* byteBatch.ensure: an array that is outgrown is replaced, and every view cut
\* again out of the new one.
BatchEnsure(h, b, extra) ==
    IF Cap(h, b.raw) - b.raw.len >= extra THEN {<<b, h>>}
    ELSE {<<[b EXCEPT !.raw = e[1]],
            Write(e[2], [b.views EXCEPT !.len = 0], Cut(ViewsOf(h, b), e[1].slab))>> :
            e \in Ensure(h, "bytes", b.raw, extra)}

AppendView(h, b, raw, start) ==
    {<<[b EXCEPT !.raw = raw, !.views = v[1]], v[2]>> :
        v \in Append_(h, "views", b.views, 1,
                      <<<<raw.slab, start, raw.len - start>>>>)}

Copies(n, tag) == [i \in 1..n |-> tag]

\* byteBatch.AppendBytes and AppendString.
AppendBytes(h, b, n, tag) ==
    UNION {UNION {AppendView(r[2], e[1], r[1], e[1].raw.len) :
              r \in Append_(e[2], "bytes", e[1].raw, n, Copies(n, tag))} :
        e \in BatchEnsure(h, b, n)}

\* byteBatch.AppendPlaceholder: the opening text, the number (one digit here) and
\* the closing brace are three appends, each making its own room.
PlaceholderText(h, b, tag) ==
    UNION {UNION {Append_(n[2], "bytes", n[1], 1, Copies(1, tag)) :
              n \in Append_(p[2], "bytes", p[1], Reserve, Copies(1, tag))} :
        p \in Append_(h, "bytes", b.raw, Prefix, Copies(Prefix, tag))}

\* A slip: room is made for the text that will be written, not for what
\* AppendInt asks for.
AppendPlaceholderTight(h, b, tag) ==
    UNION {UNION {AppendView(r[2], e[1], r[1], e[1].raw.len) :
              r \in PlaceholderText(e[2], e[1], tag)} :
        e \in BatchEnsure(h, b, Prefix + 2)}

AppendPlaceholder(h, b, tag) ==
    UNION {UNION {AppendView(r[2], e[1], r[1], e[1].raw.len) :
              r \in PlaceholderText(e[2], e[1], tag)} :
        e \in BatchEnsure(h, b, Room)}

-----------------------------------------------------------------------------
(* Actions.                                                                  *)

Become(o, results) ==
    \E r \in results : /\ batch' = [batch EXCEPT ![o] = r[1]]
                       /\ heap' = r[2]

\* acquireByteBatch, with the estimates its callers make of views and bytes.
AcquireBatch(o, viewCap, byteCap) ==
    /\ ~batch[o].live
    /\ Become(o, UNION {{<<[live |-> TRUE, raw |-> r[1], views |-> v[1]], v[2]>> :
                             v \in Acquire(r[2], "views", viewCap)} :
                        r \in Acquire(heap, "bytes", byteCap)})
    /\ items' = [items EXCEPT ![o] = <<>>]

Item(o) == <<o, Len(items[o]) + 1>>

AddBytes(o, n) ==
    /\ batch[o].live
    /\ Len(items[o]) < MaxItems
    /\ Become(o, AppendBytes(heap, batch[o], n, Item(o)))
    /\ items' = [items EXCEPT ![o] = Append(@, n)]

AddPlaceholder(o) ==
    /\ batch[o].live
    /\ Len(items[o]) < MaxItems
    /\ Become(o, AppendPlaceholder(heap, batch[o], Item(o)))
    /\ items' = [items EXCEPT ![o] = Append(@, Prefix + 2)]

\* byteBatch.Release: the views go back to their pool, then the bytes.
Release(o) ==
    /\ batch[o].live
    /\ heap' = Put(Put(heap, "views", batch[o].views), "bytes", batch[o].raw)
    /\ batch' = [batch EXCEPT ![o] = Idle]
    /\ items' = [items EXCEPT ![o] = <<>>]

\* The collector (external): it frees arrays nothing refers to, and empties pools.
Referenced(s) ==
    \E o \in Owner :
        \/ s \in {batch[o].raw.slab, batch[o].views.slab}
        \/ \E v \in ToSet(ViewsOf(heap, batch[o])) : v[1] = s

Collect(s) ==
    /\ heap.mem[s] # <<>>
    /\ ~Referenced(s)
    /\ heap' = [mem |-> [heap.mem EXCEPT ![s] = <<>>],
                pool |-> [k \in Kind |-> heap.pool[k] \ {s}]]
    /\ UNCHANGED <<batch, items>>

BatchNext ==
    \/ \E o \in Owner :
        \/ \E viewCap \in 1..MaxItems, byteCap \in Size \cup {0} : AcquireBatch(o, viewCap, byteCap)
        \/ \E n \in Size : AddBytes(o, n)
        \/ AddPlaceholder(o)
        \/ Release(o)
    \/ \E s \in Slab : Collect(s)

-----------------------------------------------------------------------------
\* The views of a batch read, in order, exactly the items appended to it, however
\* often its arrays were outgrown, and whatever other goroutines do with the
\* arrays that went back to the pools.
ViewsIntact ==
    \A o \in Owner :
        LET views == ViewsOf(heap, batch[o])
        IN /\ Len(views) = Len(items[o])
           /\ \A i \in DOMAIN views :
                SubSeq(heap.mem[views[i][1]], views[i][2] + 1, views[i][2] + views[i][3])
                    = Copies(items[o][i], <<o, i>>)
=============================================================================
