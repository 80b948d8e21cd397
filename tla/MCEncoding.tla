----------------------------- MODULE MCEncoding -----------------------------
(***************************************************************************)
(* ByteBatch and PacketView side by side.  They share no state, so it is   *)
(* enough to let one of them move at a time: a message is sent only while  *)
(* no array is in use, and batches are built only while none is in flight. *)
(***************************************************************************)
EXTENDS ByteBatch, PacketView

BucketSmall == [bytes |-> {2, 4}, views |-> {1, 2}]
Alike == Permutations(Owner) \cup Permutations(Slab)

Namespaces == {<<"/">>, <<"/", "a", "1">>}

PlainNames == {<<"m">>, <<"1", "]", ",">>}
QuotedName == {<<"m", "\"">>}

\* Numbers, strings that hold delimiters and escapes, nesting as deep as the
\* stack, raw JSON with spaces, a value that cannot be encoded, and attachments, the
\* empty one included.
Args ==
    {[kind |-> "json", data |-> t] :
        t \in {<<"-", "1", ".", "5", "e", "+", "2">>,
               <<"\"", "]", ",", "\"">>,
               <<"\"", "\\", "\"", "\\", "\\", "\"">>,
               <<"null">>,
               <<"[", "{", "\"", "a", "\"", ":", "[", "]", "}", "]">>}}
    \cup {[kind |-> "raw", data |-> <<"{", " ", "\"", "num", "\"", ":", "7", " ", "}">>]}
    \cup {[kind |-> "bad", data |-> <<>>]}
    \cup {[kind |-> "bytes", data |-> b] : b \in {<<>>, <<"x", "\"">>}}

OffsetText == <<"9", "a">>

Sessions == [sid : {<<"s">>}, pid : {<<"p", "q">>}, rooms : {<<>>, <<<<"r">>, <<"s">>>>}]

Init == BatchInit /\ WireInit

Next == \/ sent = Nothing /\ BatchNext /\ UNCHANGED wireVars
        \/ BatchInit /\ WireNext /\ UNCHANGED batchVars

Spec == Init /\ [][Next]_<<batchVars, wireVars>>
=============================================================================
