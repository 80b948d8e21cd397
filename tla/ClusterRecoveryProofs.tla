----------------------- MODULE ClusterRecoveryProofs ------------------------
(***************************************************************************)
(* The session of a client is conserved while nodes hand it to each other,  *)
(* and a client that is connected again has received every broadcast once   *)
(* and in order.                                                           *)
(***************************************************************************)
EXTENDS ClusterRecovery, SequenceTheorems, WellFoundedInduction, NaturalsInduction, TLAPS

Stages == {"idle", "asking", "found", "up", "lost", "closed", "fresh"}
Asks == {"idle", "asked", "copied", "sent", "none"}

\* The types of the variables the session depends on.
Types ==
  /\ store \subseteq Node
  /\ current \in Attempt
  /\ at \in [Attempt -> Node]
  /\ stage \in [Attempt -> Stages]
  /\ csr \in [Attempt -> [Node -> Asks]]

\* Connections the client has not made yet hold nothing and ask nobody.
Unused ==
  \A a \in Attempt : a > current => stage[a] = "idle" /\ \A p \in Node : csr[a][p] = "idle"

\* A handler that has copied the session and not deleted it finds it still in
\* the store, and it is the only one.
CopyInStore ==
  \A a \in Attempt, p \in Node : csr[a][p] = "copied" => p \in store

\* The places exclude each other.
Exclusive ==
  /\ \A n, m \in store : n = m
  /\ \A a, b \in Attempt : HasSocket(a) /\ HasSocket(b) => a = b
  /\ \A a, b \in Attempt, p, q \in Node : HasAnswer(a, p) /\ HasAnswer(b, q) => a = b /\ p = q
  /\ \A n \in store, a \in Attempt : ~HasSocket(a) /\ \A p \in Node : ~HasAnswer(a, p)
  /\ \A a, b \in Attempt, p \in Node : ~(HasSocket(a) /\ HasAnswer(b, p))
  /\ \A a, b \in Attempt, p \in Node : csr[a][p] = "copied" /\ csr[b][p] = "copied" => a = b

\* Nothing is lost: a node waits until the peers it asked have answered.
Waits ==
  \A a \in Attempt, p \in Node : csr[a][p] \in {"asked", "copied"} => stage[a] = "asking"
Somewhere ==
  \/ store # {}
  \/ \E a \in Attempt : HasSocket(a)
  \/ \E a \in Attempt, p \in Node : HasAnswer(a, p)

Calm == mode \cap {"split", "loss", "expire"} = {}

\* The inductive invariant
Conserved ==
  /\ Types
  /\ Unused
  /\ "split" \notin mode => CopyInStore /\ Exclusive
  /\ Calm => Waits /\ Somewhere

-----------------------------------------------------------------------------
\* Initially the client is connected, and no node has stored its session.
LEMMA InitConserved == Init => Conserved
<1> SUFFICES ASSUME Init PROVE Conserved
  OBVIOUS
<1>0. 1 \in Attempt
  BY ClusterRecoveryAssumption DEF Attempt
<1>1. Types
  BY <1>0 DEF Init, Types, Stages, Asks
<1>2. Unused
  BY <1>0 DEF Init, Unused, Attempt
<1>3. CopyInStore /\ Exclusive
  BY <1>0 DEF Init, CopyInStore, Exclusive, HasSocket, HasAnswer
<1>4. Waits /\ Somewhere
  BY <1>0 DEF Init, Waits, Somewhere, HasSocket
<1> QED
  BY <1>1, <1>2, <1>3, <1>4 DEF Conserved

\* A step that leaves the session, the connections and the requests alone.
LEMMA IdleStep ==
  ASSUME Conserved, UNCHANGED <<store, current, at, stage, csr, mode>>
  PROVE  Conserved'
BY DEF Conserved, Types, Unused, CopyInStore, Exclusive, Waits, Somewhere, Calm,
       HasSocket, HasAnswer

\* The connection breaks: the socket stays.
LEMMA LoseStep == Conserved /\ Lose => Conserved'
<1> SUFFICES ASSUME Conserved, Lose PROVE Conserved'
  OBVIOUS
<1> USE DEF Lose
<1>1. /\ stage' = [stage EXCEPT ![current] = "lost"]
      /\ stage[current] = "up" /\ current \in Attempt
      /\ UNCHANGED <<store, current, at, csr, mode>>
      /\ Types
  BY DEF Conserved, Types, clientVars, askVars, envVars
<1>2. Types'
  BY <1>1 DEF Types, Stages
<1>3. \A a \in Attempt : HasSocket(a)' <=> HasSocket(a)
  BY <1>1 DEF Types, HasSocket
<1>4. \A a \in Attempt, p \in Node : HasAnswer(a, p)' <=> HasAnswer(a, p)
  BY <1>1 DEF Types, HasAnswer
<1>5. Unused'
  BY <1>1 DEF Conserved, Unused, Types, Attempt
<1>6. "split" \notin mode' => CopyInStore' /\ Exclusive'
  BY <1>1, <1>3, <1>4 DEF Conserved, CopyInStore, Exclusive
<1>7. Calm' => Waits' /\ Somewhere'
  BY <1>1, <1>3, <1>4 DEF Conserved, Calm, Waits, Somewhere, Types
<1> QED
  BY <1>2, <1>5, <1>6, <1>7 DEF Conserved

\* onClose moves the session from the socket to the store.
LEMMA CloseStep == ASSUME NEW c \in Attempt PROVE Conserved /\ Close(c) => Conserved'
<1> SUFFICES ASSUME Conserved, Close(c) PROVE Conserved'
  OBVIOUS
<1>1. /\ stage' = [stage EXCEPT ![c] = "closed"]
      /\ stage[c] = "lost"
      /\ store' = store \cup {at[c]}
      /\ UNCHANGED <<current, at, csr, mode>>
      /\ Types
  BY DEF Close, Conserved, clientVars, askVars, envVars
<1>2. Types'
  BY <1>1 DEF Types, Stages
<1>3. HasSocket(c) /\ \A a \in Attempt : HasSocket(a)' <=> HasSocket(a) /\ a # c
  BY <1>1 DEF Types, HasSocket
<1>4. \A a \in Attempt, p \in Node : HasAnswer(a, p)' <=> HasAnswer(a, p)
  BY <1>1 DEF Types, HasAnswer
<1>5. Unused'
  BY <1>1 DEF Conserved, Unused, Types, Attempt
<1>6. "split" \notin mode' => CopyInStore' /\ Exclusive'
  BY <1>1, <1>3, <1>4 DEF Conserved, CopyInStore, Exclusive, Types
<1>7. Calm' => Waits' /\ Somewhere'
  BY <1>1, <1>4 DEF Conserved, Calm, Waits, Somewhere, Types
<1> QED
  BY <1>2, <1>5, <1>6, <1>7 DEF Conserved

\* A session that expires is at no place.
LEMMA ExpireStep == ASSUME NEW n \in Node PROVE Conserved /\ Expire(n) => Conserved'
<1> SUFFICES ASSUME Conserved, Expire(n) PROVE Conserved'
  OBVIOUS
<1>1. /\ store' = store \ {n} /\ "expire" \in mode /\ Quiet(n)
      /\ UNCHANGED <<current, at, stage, csr, mode>>
      /\ Types
  BY DEF Expire, Conserved, clientVars, attemptVars, askVars, envVars
<1>2. Types' /\ Unused'
  BY <1>1 DEF Conserved, Types, Unused
<1>3. "split" \notin mode' => CopyInStore' /\ Exclusive'
  BY <1>1 DEF Conserved, CopyInStore, Exclusive, Types, HasSocket, HasAnswer, Quiet, Copying
<1>4. ~Calm'
  BY <1>1 DEF Calm
<1> QED
  BY <1>2, <1>3, <1>4 DEF Conserved

\* recover moves the session from the store to the new socket.
LEMMA RecoverLocalStep == ASSUME NEW n \in Node PROVE Conserved /\ RecoverLocal(n) => Conserved'
<1> SUFFICES ASSUME Conserved, RecoverLocal(n) PROVE Conserved'
  OBVIOUS
<1> DEFINE c == current + 1
<1>1. /\ stage' = [stage EXCEPT ![c] = "found"]
      /\ store' = store \ {n} /\ n \in store /\ Quiet(n)
      /\ at' = [at EXCEPT ![c] = n]
      /\ current' = c /\ c \in Attempt
      /\ UNCHANGED <<csr, mode>>
      /\ Types /\ Unused
  BY ClusterRecoveryAssumption
     DEF RecoverLocal, Connect, Conserved, Types, Attempt, askVars, envVars
<1> HIDE DEF c
<1>2. Types'
  BY <1>1 DEF Types, Stages
<1>3. \A a \in Attempt : HasSocket(a)' <=> HasSocket(a) \/ a = c
  BY <1>1 DEF Types, HasSocket
<1>4. \A a \in Attempt, p \in Node : HasAnswer(a, p)' <=> HasAnswer(a, p) /\ a # c
  BY <1>1 DEF Types, HasAnswer
<1>5. Unused'
  BY <1>1 DEF Unused, Types, Attempt, c
<1>6. "split" \notin mode' => CopyInStore' /\ Exclusive'
  BY <1>1, <1>3, <1>4 DEF Conserved, CopyInStore, Exclusive, Types, Quiet, Copying
<1>7. Calm' => Waits' /\ Somewhere'
  <2>1. Calm' => Somewhere'
    BY <1>1, <1>3 DEF Somewhere
  <2>2. \A p \in Node : csr[c][p] = "idle"
    BY <1>1 DEF Unused, c, Types, Attempt
  <2>3. Calm' => Waits'
    BY <1>1, <2>2 DEF Conserved, Calm, Waits, Types
  <2> QED
    BY <2>1, <2>3
<1> QED
  BY <1>2, <1>5, <1>6, <1>7 DEF Conserved

\* The session stays where it is while a node asks for it.
LEMMA AskPeersStep == ASSUME NEW n \in Node PROVE Conserved /\ AskPeers(n) => Conserved'
<1> SUFFICES ASSUME Conserved, AskPeers(n) PROVE Conserved'
  OBVIOUS
<1> DEFINE c == current + 1
<1>1. /\ stage' = [stage EXCEPT ![c] = "asking"]
      /\ csr' = [csr EXCEPT ![c] = [p \in Node |-> IF p = n THEN "none" ELSE "asked"]]
      /\ at' = [at EXCEPT ![c] = n]
      /\ current' = c /\ c \in Attempt
      /\ UNCHANGED <<store, mode>>
      /\ Types /\ Unused
  BY ClusterRecoveryAssumption
     DEF AskPeers, Connect, Conserved, Types, Attempt, envVars
<1>0. stage[c] = "idle" /\ \A p \in Node : csr[c][p] = "idle"
  BY <1>1 DEF Unused, Types, Attempt
<1> HIDE DEF c
<1>2. Types'
  BY <1>1 DEF Types, Stages, Asks
<1>3. \A a \in Attempt : HasSocket(a)' <=> HasSocket(a)
  BY <1>0, <1>1 DEF Types, HasSocket
<1>4. \A a \in Attempt, p \in Node :
        /\ csr'[a][p] = "copied" <=> csr[a][p] = "copied"
        /\ HasAnswer(a, p)' <=> HasAnswer(a, p)
  BY <1>0, <1>1 DEF Types, HasAnswer
<1>5. Unused'
  BY <1>1 DEF Unused, Types, Attempt, c
<1>6. "split" \notin mode' => CopyInStore' /\ Exclusive'
  BY <1>1, <1>3, <1>4 DEF Conserved, CopyInStore, Exclusive
<1>7. Calm' => Waits' /\ Somewhere'
  BY <1>1, <1>3, <1>4 DEF Conserved, Calm, Waits, Somewhere, Types
<1> QED
  BY <1>2, <1>5, <1>6, <1>7 DEF Conserved

\* A client without an offset leaves its old session where it is.
LEMMA ConnectFreshStep == ASSUME NEW n \in Node PROVE Conserved /\ ConnectFresh(n) => Conserved'
<1> SUFFICES ASSUME Conserved, ConnectFresh(n) PROVE Conserved'
  OBVIOUS
<1> DEFINE c == current + 1
<1>1. /\ stage' = [stage EXCEPT ![c] = "fresh"]
      /\ at' = [at EXCEPT ![c] = n]
      /\ current' = c /\ c \in Attempt
      /\ UNCHANGED <<store, csr, mode>>
      /\ Types /\ Unused
  BY ClusterRecoveryAssumption
     DEF ConnectFresh, Connect, Conserved, Types, Attempt, askVars, envVars
<1>0. stage[c] = "idle" /\ \A p \in Node : csr[c][p] = "idle"
  BY <1>1 DEF Unused, Types, Attempt
<1> HIDE DEF c
<1>2. Types'
  BY <1>1 DEF Types, Stages
<1>3. \A a \in Attempt : HasSocket(a)' <=> HasSocket(a)
  BY <1>0, <1>1 DEF Types, HasSocket
<1>4. \A a \in Attempt, p \in Node : HasAnswer(a, p)' <=> HasAnswer(a, p)
  BY <1>0, <1>1 DEF Types, HasAnswer
<1>5. Unused'
  BY <1>1 DEF Unused, Types, Attempt, c
<1>6. "split" \notin mode' => CopyInStore' /\ Exclusive'
  BY <1>1, <1>3, <1>4, Zenon DEF Conserved, CopyInStore, Exclusive
<1>7. Calm' => Waits' /\ Somewhere'
  BY <1>0, <1>1, <1>3, <1>4 DEF Conserved, Calm, Waits, Somewhere, Types
<1> QED
  BY <1>2, <1>5, <1>6, <1>7 DEF Conserved

\* A peer copies the session; its own stays in the store for now.
LEMMA SnapshotStep ==
  ASSUME NEW c \in Attempt, NEW r \in Node PROVE Conserved /\ Snapshot(c, r) => Conserved'
<1> SUFFICES ASSUME Conserved, Snapshot(c, r) PROVE Conserved'
  OBVIOUS
<1>1. /\ csr[c][r] = "asked" /\ Quiet(r)
      /\ \/ csr' = [csr EXCEPT ![c][r] = "none"]
         \/ r \in store /\ csr' = [csr EXCEPT ![c][r] = "copied"]
      /\ UNCHANGED <<store, current, at, stage, mode>>
      /\ Types
  BY DEF Snapshot, Conserved, clientVars, attemptVars, envVars
<1>r. /\ csr' \in [Attempt -> [Node -> Asks]]
      /\ \A a \in Attempt, p \in Node : a # c \/ p # r => csr'[a][p] = csr[a][p]
      /\ csr'[c][r] = "none" \/ (csr'[c][r] = "copied" /\ r \in store)
  <2>1. CASE csr' = [csr EXCEPT ![c][r] = "none"]
    BY <1>1, <2>1 DEF Types, Asks
  <2>2. CASE r \in store /\ csr' = [csr EXCEPT ![c][r] = "copied"]
    BY <1>1, <2>2 DEF Types, Asks
  <2> QED
    BY <1>1, <2>1, <2>2
<1>2. Types'
  BY <1>1, <1>r DEF Types
<1>3. \A a \in Attempt : HasSocket(a)' <=> HasSocket(a)
  BY <1>1 DEF HasSocket
<1>4. \A a \in Attempt, p \in Node : HasAnswer(a, p)' <=> HasAnswer(a, p)
  BY <1>1, <1>r DEF HasAnswer
<1>5. Unused'
  <2>1. ~(c > current)
    BY <1>1 DEF Conserved, Unused
  <2> QED
    BY <1>1, <1>r, <2>1 DEF Conserved, Unused
<1>6. "split" \notin mode' => CopyInStore' /\ Exclusive'
  <2> SUFFICES ASSUME "split" \notin mode PROVE CopyInStore' /\ Exclusive'
    BY <1>1
  <2>1. CopyInStore'
    BY <1>1, <1>r DEF Conserved, CopyInStore
  <2>2. \A a \in Attempt : csr[a][r] # "copied"
    BY <1>1 DEF Quiet, Copying
  <2>3. \A a, b \in Attempt, p \in Node : csr'[a][p] = "copied" /\ csr'[b][p] = "copied" => a = b
    BY <1>1, <1>r, <2>2 DEF Conserved, Exclusive
  <2>4. Exclusive'
    BY <1>1, <1>3, <1>4, <2>3 DEF Conserved, Exclusive
  <2> QED
    BY <2>1, <2>4
<1>7. Calm' => Waits' /\ Somewhere'
  BY <1>1, <1>r, <1>3, <1>4 DEF Conserved, Calm, Waits, Somewhere
<1> QED
  BY <1>2, <1>5, <1>6, <1>7 DEF Conserved

\* The session moves from the store of the peer to its answer; it is dropped
\* if nobody waits for the answer any more.
LEMMA DeleteStep ==
  ASSUME NEW c \in Attempt, NEW r \in Node PROVE Conserved /\ Delete(c, r) => Conserved'
<1> SUFFICES ASSUME Conserved, Delete(c, r) PROVE Conserved'
  OBVIOUS
<1>1. /\ csr[c][r] = "copied"
      /\ csr' = [csr EXCEPT ![c][r] = "sent"]
      /\ store' = store \ {r}
      /\ UNCHANGED <<current, at, stage, mode>>
      /\ Types
  BY DEF Delete, Conserved, clientVars, attemptVars, envVars
<1>2. Types'
  BY <1>1 DEF Types, Asks
<1>3. \A a \in Attempt : HasSocket(a)' <=> HasSocket(a)
  BY <1>1 DEF HasSocket
<1>4. \A a \in Attempt, p \in Node :
        HasAnswer(a, p)' <=> HasAnswer(a, p) \/ (a = c /\ p = r /\ stage[c] = "asking")
  BY <1>1 DEF Types, HasAnswer
<1>5. Unused'
  BY <1>1 DEF Conserved, Unused, Types
<1>6. "split" \notin mode' => CopyInStore' /\ Exclusive'
  <2> SUFFICES ASSUME "split" \notin mode PROVE CopyInStore' /\ Exclusive'
    BY <1>1
  <2>1. r \in store /\ \A n \in store : n = r
    BY <1>1 DEF Conserved, CopyInStore, Exclusive
  <2>2. \A a \in Attempt, p \in Node : csr'[a][p] = "copied" => csr[a][p] = "copied" /\ ~(a = c /\ p = r)
    BY <1>1 DEF Types
  <2>3. CopyInStore'
    BY <1>1, <2>1, <2>2 DEF Conserved, CopyInStore, Exclusive
  <2>4. Exclusive'
    BY <1>1, <1>3, <1>4, <2>1, <2>2 DEF Conserved, Exclusive
  <2> QED
    BY <2>3, <2>4
<1>7. Calm' => Waits' /\ Somewhere'
  <2> SUFFICES ASSUME Calm PROVE Waits' /\ Somewhere'
    BY <1>1, Zenon DEF Calm
  <2>1. Waits'
    BY <1>1 DEF Conserved, Waits, Types
  <2>2. HasAnswer(c, r)'
    BY <1>1, <1>4 DEF Conserved, Waits
  <2> QED
    BY <2>1, <2>2 DEF Somewhere
<1> QED
  BY <1>2, <1>5, <1>6, <1>7 DEF Conserved

\* An answer that cannot be written leaves the session in the store.
LEMMA WriteFailsStep ==
  ASSUME NEW c \in Attempt, NEW r \in Node PROVE Conserved /\ WriteFails(c, r) => Conserved'
<1> SUFFICES ASSUME Conserved, WriteFails(c, r) PROVE Conserved'
  OBVIOUS
<1>1. /\ csr[c][r] = "copied" /\ "loss" \in mode
      /\ csr' = [csr EXCEPT ![c][r] = "none"]
      /\ UNCHANGED <<store, current, at, stage, mode>>
      /\ Types
  BY DEF WriteFails, Conserved, clientVars, attemptVars, envVars
<1>2. Types'
  BY <1>1 DEF Types, Asks
<1>3. \A a \in Attempt : HasSocket(a)' <=> HasSocket(a)
  BY <1>1 DEF HasSocket
<1>4. \A a \in Attempt, p \in Node : HasAnswer(a, p)' <=> HasAnswer(a, p)
  BY <1>1 DEF Types, HasAnswer
<1>5. Unused'
  BY <1>1, Zenon DEF Conserved, Unused, Types
<1>6. "split" \notin mode' => CopyInStore' /\ Exclusive'
  BY <1>1, <1>3, <1>4 DEF Conserved, CopyInStore, Exclusive, Types
<1>7. ~Calm'
  BY <1>1 DEF Calm
<1> QED
  BY <1>2, <1>5, <1>6, <1>7 DEF Conserved

\* What Release leaves of the requests of a connection.
LEMMA Released ==
  ASSUME NEW c \in Attempt, Types, Release(c)
  PROVE  /\ csr' \in [Attempt -> [Node -> Asks]]
         /\ \A a \in Attempt, p \in Node : a # c => csr'[a][p] = csr[a][p]
         /\ \A p \in Node : csr'[c][p] = (IF csr[c][p] = "sent" THEN "none" ELSE csr[c][p])
BY DEF Types, Release, Asks

\* The session moves from the answer to the socket.
LEMMA TakeAnswerStep == ASSUME NEW c \in Attempt PROVE Conserved /\ TakeAnswer(c) => Conserved'
<1> SUFFICES ASSUME Conserved, TakeAnswer(c) PROVE Conserved'
  OBVIOUS
<1>0. PICK r \in Node :
        /\ stage[c] = "asking" /\ csr[c][r] = "sent"
        /\ "loss" \notin mode => \A p \in Node : csr[c][p] \in {"sent", "none"}
        /\ stage' = [stage EXCEPT ![c] = "found"]
        /\ Release(c)
        /\ UNCHANGED <<store, current, at, mode>>
  BY DEF TakeAnswer, Arrived, clientVars, envVars
<1>1. Types /\ HasAnswer(c, r)
  BY <1>0 DEF Conserved, HasAnswer
<1>r. /\ csr' \in [Attempt -> [Node -> Asks]]
      /\ \A a \in Attempt, p \in Node : a # c => csr'[a][p] = csr[a][p]
      /\ \A p \in Node : csr'[c][p] = (IF csr[c][p] = "sent" THEN "none" ELSE csr[c][p])
  BY <1>0, <1>1, Released
<1>2. Types'
  BY <1>0, <1>1, <1>r DEF Types, Stages
<1>3. \A a \in Attempt : HasSocket(a)' <=> HasSocket(a) \/ a = c
  BY <1>0, <1>1 DEF Types, HasSocket
<1>4. \A a \in Attempt, p \in Node : HasAnswer(a, p)' <=> HasAnswer(a, p) /\ a # c
  BY <1>0, <1>1, <1>r DEF Types, HasAnswer
<1>5. Unused'
  BY <1>0, <1>1, <1>r DEF Conserved, Unused, Types, Attempt
<1>6. "split" \notin mode' => CopyInStore' /\ Exclusive'
  <2> SUFFICES ASSUME "split" \notin mode PROVE CopyInStore' /\ Exclusive'
    BY <1>0
  <2>1. \A a \in Attempt, p \in Node : csr'[a][p] = "copied" => csr[a][p] = "copied"
    BY <1>r
  <2>2. CopyInStore'
    BY <1>0, <2>1, Zenon DEF Conserved, CopyInStore
  <2>3. Exclusive'
    BY <1>0, <1>1, <1>3, <1>4, <2>1 DEF Conserved, Exclusive
  <2> QED
    BY <2>2, <2>3
<1>7. Calm' => Waits' /\ Somewhere'
  <2> SUFFICES ASSUME Calm PROVE Waits' /\ Somewhere'
    BY <1>0, Zenon DEF Calm
  <2>1. Waits'
    BY <1>0, <1>1, <1>r DEF Conserved, Calm, Waits, Types
  <2> QED
    BY <1>3, <2>1 DEF Somewhere
<1> QED
  BY <1>2, <1>5, <1>6, <1>7 DEF Conserved

\* A node gives up only when no answer has the session, or when answers may be
\* lost.
LEMMA NoAnswerStep == ASSUME NEW c \in Attempt PROVE Conserved /\ NoAnswer(c) => Conserved'
<1> SUFFICES ASSUME Conserved, NoAnswer(c) PROVE Conserved'
  OBVIOUS
<1>0. /\ stage[c] = "asking"
      /\ "loss" \notin mode => \A p \in Node : csr[c][p] = "none"
      /\ stage' = [stage EXCEPT ![c] = "fresh"]
      /\ Release(c)
      /\ UNCHANGED <<store, current, at, mode>>
  BY DEF NoAnswer, Arrived, clientVars, envVars
<1>1. Types
  BY Zenon DEF Conserved
<1>r. /\ csr' \in [Attempt -> [Node -> Asks]]
      /\ \A a \in Attempt, p \in Node : a # c => csr'[a][p] = csr[a][p]
      /\ \A p \in Node : csr'[c][p] = (IF csr[c][p] = "sent" THEN "none" ELSE csr[c][p])
  BY <1>0, <1>1, Released
<1>2. Types'
  BY <1>0, <1>1, <1>r DEF Types, Stages
<1>3. \A a \in Attempt : HasSocket(a)' <=> HasSocket(a)
  BY <1>0, <1>1 DEF Types, HasSocket
<1>4. \A a \in Attempt, p \in Node : HasAnswer(a, p)' <=> HasAnswer(a, p) /\ a # c
  BY <1>0, <1>1, <1>r, Zenon DEF Types, HasAnswer
<1>5. Unused'
  BY <1>0, <1>1, <1>r DEF Conserved, Unused, Types, Attempt
<1>6. "split" \notin mode' => CopyInStore' /\ Exclusive'
  <2> SUFFICES ASSUME "split" \notin mode PROVE CopyInStore' /\ Exclusive'
    BY <1>0
  <2>1. \A a \in Attempt, p \in Node : csr'[a][p] = "copied" => csr[a][p] = "copied"
    BY <1>r
  <2>2. CopyInStore'
    BY <1>0, <2>1, Zenon DEF Conserved, CopyInStore
  <2>3. Exclusive'
    BY <1>0, <1>3, <1>4, <2>1 DEF Conserved, Exclusive
  <2> QED
    BY <2>2, <2>3
<1>7. Calm' => Waits' /\ Somewhere'
  <2> SUFFICES ASSUME Calm PROVE Waits' /\ Somewhere'
    BY <1>0 DEF Calm
  <2>1. \A p \in Node : csr[c][p] = "none"
    BY <1>0, Zenon DEF Calm
  <2>2. Waits'
    BY <1>0, <1>1, <1>r, <2>1 DEF Conserved, Calm, Waits, Types
  <2>3. \A p \in Node : ~HasAnswer(c, p)
    BY <2>1, Zenon DEF HasAnswer
  <2>4. Somewhere'
    BY <1>0, <1>3, <1>4, <2>3 DEF Conserved, Somewhere
  <2> QED
    BY <2>2, <2>4
<1> QED
  BY <1>2, <1>5, <1>6, <1>7 DEF Conserved

\* The socket keeps the session when it is registered.
LEMMA RegisterStep == ASSUME NEW c \in Attempt PROVE Conserved /\ Register(c) => Conserved'
<1> SUFFICES ASSUME Conserved, Register(c) PROVE Conserved'
  OBVIOUS
<1>1. /\ stage[c] = "found"
      /\ \E to \in {"up", "lost"} : stage' = [stage EXCEPT ![c] = to]
      /\ UNCHANGED <<store, current, at, csr, mode>>
      /\ Types
  BY DEF Register, Conserved, clientVars, askVars, envVars
<1>2. Types'
  BY <1>1 DEF Types, Stages
<1>3. \A a \in Attempt : HasSocket(a)' <=> HasSocket(a)
  BY <1>1 DEF Types, HasSocket
<1>4. \A a \in Attempt, p \in Node : HasAnswer(a, p)' <=> HasAnswer(a, p)
  BY <1>1, Zenon DEF Types, HasAnswer
<1>5. Unused'
  BY <1>1, Zenon DEF Conserved, Unused, Types, Attempt
<1>6. "split" \notin mode' => CopyInStore' /\ Exclusive'
  BY <1>1, <1>3, <1>4 DEF Conserved, CopyInStore, Exclusive
<1>7. Calm' => Waits' /\ Somewhere'
  BY <1>1, <1>3, <1>4 DEF Conserved, Calm, Waits, Somewhere, Types
<1> QED
  BY <1>2, <1>5, <1>6, <1>7 DEF Conserved

\* Every step keeps the inductive invariant.
LEMMA NextConserved == Conserved /\ [Next]_vars => Conserved'
<1> SUFFICES ASSUME Conserved, [Next]_vars PROVE Conserved'
  OBVIOUS
<1>1. CASE Broadcast
  <2>1. UNCHANGED <<store, current, at, stage, csr, mode>>
    BY <1>1 DEF Broadcast, Emit, Relay, RelayFails, clientVars, attemptVars, askVars, envVars
  <2> QED
    BY <2>1, IdleStep, Zenon
<1>2. CASE Arrive
  BY <1>2, RecoverLocalStep, AskPeersStep, ConnectFreshStep DEF Arrive
<1>3. CASE Csr
  BY <1>3, SnapshotStep, DeleteStep, WriteFailsStep DEF Csr
<1>4. CASE Lose
  BY <1>4, LoseStep
<1>5. CASE \E n \in Node : Expire(n)
  BY <1>5, ExpireStep
<1>6. CASE \E a \in Attempt : Close(a) \/ TakeAnswer(a) \/ NoAnswer(a) \/ Register(a)
  BY <1>6, CloseStep, TakeAnswerStep, NoAnswerStep, RegisterStep
<1>7. CASE UNCHANGED vars
  BY <1>7, IdleStep DEF vars, clientVars, attemptVars, askVars, envVars
<1> QED
  BY <1>1, <1>2, <1>3, <1>4, <1>5, <1>6, <1>7 DEF Next

\* The invariant says of the places what SessionConserved says of their set.
LEMMA ConservedHolders == Conserved => SessionConserved
<1> SUFFICES ASSUME Conserved PROVE SessionConserved
  OBVIOUS
<1>0. Types /\ 1 \in Attempt
  BY ClusterRecoveryAssumption DEF Conserved, Attempt
<1>1. ASSUME "split" \notin mode, NEW x \in Holders, NEW y \in Holders PROVE x = y
  <2>1. /\ x = <<x[1], x[2], x[3]>> /\ x[2] \in Attempt /\ x[3] \in Node
        /\ y = <<y[1], y[2], y[3]>> /\ y[2] \in Attempt /\ y[3] \in Node
    BY DEF Holders
  <2>2. /\ \/ x[1] = "store" /\ x[2] = 1 /\ x[3] \in store
           \/ x[1] = "socket" /\ HasSocket(x[2]) /\ x[3] = at[x[2]]
           \/ x[1] = "answer" /\ HasAnswer(x[2], x[3])
        /\ \/ y[1] = "store" /\ y[2] = 1 /\ y[3] \in store
           \/ y[1] = "socket" /\ HasSocket(y[2]) /\ y[3] = at[y[2]]
           \/ y[1] = "answer" /\ HasAnswer(y[2], y[3])
    BY DEF Holders
  <2>3. x[1] = y[1] /\ x[2] = y[2] /\ x[3] = y[3]
    BY <1>1, <2>1, <2>2 DEF Conserved, Exclusive
  <2> QED
    BY <2>1, <2>3, Zenon
<1>2. ASSUME Calm PROVE Holders # {}
  <2>1. CASE store # {}
    <3>1. PICK n \in store : n \in Node
      BY <1>0, <2>1 DEF Types
    <3>2. <<"store", 1, n>> \in Holders
      BY <1>0, <3>1 DEF Holders
    <3> QED
      BY <3>2
  <2>2. CASE \E a \in Attempt : HasSocket(a)
    <3>1. PICK a \in Attempt : HasSocket(a)
      BY <2>2
    <3>2. <<"socket", a, at[a]>> \in Holders
      BY <1>0, <3>1 DEF Holders, Types
    <3> QED
      BY <3>2
  <2>3. CASE \E a \in Attempt, p \in Node : HasAnswer(a, p)
    <3>1. PICK a \in Attempt, p \in Node : HasAnswer(a, p)
      BY <2>3
    <3>2. <<"answer", a, p>> \in Holders
      BY <3>1 DEF Holders
    <3> QED
      BY <3>2
  <2> QED
    BY <1>2, <2>1, <2>2, <2>3 DEF Conserved, Somewhere
<1> QED
  BY <1>1, <1>2 DEF SessionConserved, OneHolder, Calm

\* For any number of nodes, broadcasts and reconnects: csr moves the session
\* of a client between the nodes, never copies it, and loses it only when it
\* expires or when an answer is lost, provided that nobody uses the store of a
\* peer between its snapshot and its deleteSession.
THEOREM SessionMoves == Spec => []SessionConserved
<1>1. Spec => []Conserved
  BY InitConserved, NextConserved, PTL DEF Spec
<1> QED
  BY <1>1, ConservedHolders, PTL

-----------------------------------------------------------------------------
\* The types of what is logged, replayed and received.
LogTypes ==
  /\ clock \in Nat /\ last \in Nat
  /\ next \in [Node -> Nat]
  /\ skew \in [Node -> Nat]
  /\ offset \in [Bcast -> Nat]
  /\ log \in [Node -> Seq(Bcast)]
  /\ emitted \in Seq(Bcast) /\ got \in Seq(Bcast)
  /\ relay \in [Bcast -> SUBSET Node]
  /\ replay \in [Attempt -> Seq(Bcast)]
  /\ copied \in [Attempt -> [Node -> Seq(Bcast)]]

\* The behaviours ReplayInOrder is about
Orderly == mode \cap {"skew", "loss", "overlap"} = {}

\* Nothing is on its way to a peer.
Still == \A b \in Bcast : relay[b] = {}

\* Offsets grow in the order of emission, and none is ahead of the clock.
OffsetsGrow ==
  /\ \A n \in Node : skew[n] = 0 /\ next[n] < clock
  /\ \A k \in 1 .. Len(emitted) : offset[emitted[k]] > 0 /\ offset[emitted[k]] < clock
  /\ \A j, k \in 1 .. Len(emitted) : j < k => offset[emitted[j]] < offset[emitted[k]]

\* Only the last broadcast is on its way; a node has logged all of them, or all
\* but that one.
LogsAgree ==
  /\ \A b \in Bcast : relay[b] # {} => emitted # <<>> /\ b = emitted[Len(emitted)]
  /\ \A n \in Node :
       log[n] = IF \E b \in Bcast : n \in relay[b] THEN SubSeq(emitted, 1, Len(emitted) - 1)
                ELSE emitted

\* A connected client has received what its node has logged, any other the first
\* of the broadcasts; its offset is that of the last it received.
ClientFollows ==
  /\ IF stage[current] = "up" THEN got = log[at[current]]
     ELSE Len(got) <= Len(emitted) /\ got = SubSeq(emitted, 1, Len(got))
  /\ last = IF got = <<>> THEN 0 ELSE offset[got[Len(got)]]

\* What a node has found, or a peer has answered, is all the client has missed.
ReplayComplete ==
  /\ stage[current] = "found" => Still /\ got \o replay[current] = emitted
  /\ stage[current] = "asking" =>
       /\ Still
       /\ \A p \in Node : csr[current][p] \in {"copied", "sent"} =>
                            got \o copied[current][p] = emitted

\* The inductive invariant behind ReplayInOrder
OrderInv ==
  /\ LogTypes
  /\ Orderly => OffsetsGrow /\ LogsAgree /\ ClientFollows /\ ReplayComplete

-----------------------------------------------------------------------------
\* A set of natural numbers that is not empty has a least element.
LEMMA NatMin ==
  ASSUME NEW T \in SUBSET Nat, T # {}
  PROVE  \E x \in T : \A y \in T : x <= y
<1>1. IsWellFoundedOn(OpToRel(<, Nat), Nat)
  BY NatLessThanWellFounded, Zenon
<1>2. PICK x \in T : \A y \in T : ~(<<y, x>> \in OpToRel(<, Nat))
  BY <1>1, WFMin, Zenon
<1>3. \A y \in T : ~(y < x)
  BY <1>2, Zenon DEF OpToRel
<1> QED
  BY <1>3

\* One round of the loop of recover
Round(n, off, found, k) ==
  IF offset[log[n][k]] > off THEN Append(found, log[n][k]) ELSE found

\* The loop of recover is a function of the number of packets it has looked at.
LEMMA KeptUnfolds ==
  ASSUME LogTypes, NEW n \in Node, NEW off
  PROVE  \A k \in 0 .. Len(log[n]) :
           Kept(n, off)[k] = IF k = 0 THEN <<>> ELSE Round(n, off, Kept(n, off)[k - 1], k)
<1> DEFINE Loop(g, N) ==
             g = [k \in 0 .. N |->
                    IF k = 0 THEN <<>>
                    ELSE IF offset[log[n][k]] > off THEN Append(g[k - 1], log[n][k])
                         ELSE g[k - 1]]
           Bad == {N \in Nat : ~\E g : Loop(g, N)}
<1>1. Bad = {}
  <2> SUFFICES ASSUME Bad # {} PROVE FALSE
    OBVIOUS
  <2>1. PICK N \in Bad : \A m \in Bad : N <= m
    BY NatMin, Zenon
  <2>2. N \in Nat
    OBVIOUS
  <2>3. CASE N = 0
    <3> DEFINE g == [k \in 0 .. 0 |-> <<>>]
    <3>1. Loop(g, 0)
      OBVIOUS
    <3> QED
      BY <2>3, <3>1, Zenon
  <2>4. CASE N # 0
    <3>1. N - 1 \in Nat /\ N - 1 \notin Bad
      <4> HIDE DEF Bad
      <4> QED
        BY <2>1, <2>2, <2>4
    <3>2. PICK h : Loop(h, N - 1)
      BY <3>1, Zenon
    <3> DEFINE g == [k \in 0 .. N |-> IF k = N THEN Round(n, off, h[N - 1], N) ELSE h[k]]
    <3>3. \A k \in 0 .. N - 1 : h[k] = IF k = 0 THEN <<>> ELSE Round(n, off, h[k - 1], k)
      BY <3>2, Zenon DEF Round
    <3>4. \A k \in 0 .. N : k # N => k \in 0 .. N - 1 /\ g[k] = h[k]
      BY <3>1
    <3>5. g[N] = Round(n, off, h[N - 1], N) /\ g[N - 1] = h[N - 1]
      BY <3>1
    <3>6. ASSUME NEW k \in 0 .. N
          PROVE  g[k] = IF k = 0 THEN <<>> ELSE Round(n, off, g[k - 1], k)
      <4> HIDE DEF g
      <4>1. CASE k = N
        BY <2>4, <3>5, <4>1, Zenon
      <4>2. CASE k # N /\ k # 0
        <5>1. k - 1 \in 0 .. N /\ k - 1 # N /\ k \in 0 .. N - 1
          BY <3>1, <4>2
        <5>2. g[k] = h[k] /\ g[k - 1] = h[k - 1]
          BY <3>4, <4>2, <5>1, Zenon
        <5> QED
          BY <3>3, <4>2, <5>1, <5>2, Zenon
      <4>3. CASE k # N /\ k = 0
        BY <3>3, <3>4, <4>3, Zenon
      <4> QED
        BY <4>1, <4>2, <4>3, Zenon
    <3> HIDE DEF g
    <3>7. g = [k \in 0 .. N |-> g[k]]
      BY DEF g
    <3>8. Loop(g, N)
      BY <3>6, <3>7, Zenon DEF Round
    <3> QED
      BY <3>8, Zenon
  <2> QED
    BY <2>3, <2>4
<1>2. Len(log[n]) \in Nat
  BY DEF LogTypes
<1>3. \E g : Loop(g, Len(log[n]))
  BY <1>1, <1>2, Zenon
<1>4. Loop(Kept(n, off), Len(log[n]))
  BY <1>3, Zenon DEF Kept
<1> HIDE DEF Bad
<1> DEFINE f == Kept(n, off)
<1>5. Loop(f, Len(log[n]))
  BY <1>4, Zenon
<1> HIDE DEF f
<1>6. \A k \in 0 .. Len(log[n]) : f[k] = IF k = 0 THEN <<>> ELSE Round(n, off, f[k - 1], k)
  BY <1>5, Zenon DEF Round
<1> QED
  BY <1>6 DEF f

\* Where the offsets of a log grow, recover finds the end of it: everything after
\* the first g packets if those are the ones up to the offset.
LEMMA AfterIsRest ==
  ASSUME LogTypes, NEW n \in Node, NEW off \in Nat, NEW g \in 0 .. Len(log[n]),
         \A k \in 1 .. Len(log[n]) : offset[log[n][k]] > off <=> k > g
  PROVE  After(n, off) = SubSeq(log[n], g + 1, Len(log[n]))
<1> DEFINE f == Kept(n, off)
           l == log[n]
           Good(k) == f[k] = SubSeq(l, g + 1, k)
           Bad == {k \in 0 .. Len(l) : ~Good(k)}
<1>0. l \in Seq(Bcast) /\ Len(l) \in Nat /\ g \in Nat
  BY DEF LogTypes
<1>1. \A k \in 0 .. Len(l) : f[k] = IF k = 0 THEN <<>> ELSE Round(n, off, f[k - 1], k)
  BY KeptUnfolds
<1> HIDE DEF f
<1>2. Good(0)
  <2>1. f[0] = <<>>
    BY <1>0, <1>1
  <2>2. SubSeq(l, g + 1, 0) = <<>>
    BY <1>0, SubSeqEmpty
  <2> QED
    BY <2>1, <2>2
<1>3. ASSUME NEW k \in 1 .. Len(l), Good(k - 1)
      PROVE  Good(k)
  <2>1. f[k] = IF k > g THEN Append(f[k - 1], l[k]) ELSE f[k - 1]
    BY <1>0, <1>1 DEF Round
  <2>2. CASE k > g
    <3>1. SubSeq(l, g + 1, k) = Append(SubSeq(l, g + 1, k - 1), l[k])
      <4>1. g + 1 \in 1 .. Len(l) /\ k \in g + 1 .. Len(l)
        BY <1>0, <2>2
      <4>2. SubSeq(l, g + 1, k) = SubSeq(l, g + 1, k - 1) \o <<l[k]>>
        BY <1>0, <4>1, SubSeqRecursiveSecond, Zenon
      <4>3. l[k] \in Bcast /\ SubSeq(l, g + 1, k - 1) \in Seq(Bcast)
        BY <1>0, <4>1
      <4> QED
        BY <4>2, <4>3, AppendIsConcat, Zenon
    <3> QED
      BY <1>3, <2>1, <2>2, <3>1, Zenon
  <2>3. CASE ~(k > g)
    <3>1. SubSeq(l, g + 1, k) = <<>> /\ SubSeq(l, g + 1, k - 1) = <<>>
      BY <1>0, <2>3, SubSeqEmpty
    <3> QED
      BY <1>3, <2>1, <2>3, <3>1
  <2> QED
    BY <2>2, <2>3
<1> HIDE DEF Good
<1>4. Bad = {}
  <2> SUFFICES ASSUME Bad # {} PROVE FALSE
    OBVIOUS
  <2>1. Bad \subseteq Nat /\ \A k \in Bad : k \in 0 .. Len(l) /\ ~Good(k)
    BY <1>0
  <2>2. PICK k \in Bad : \A m \in Bad : k <= m
    BY <2>1, NatMin, Zenon
  <2>3. k # 0 /\ k \in 1 .. Len(l) /\ ~Good(k)
    BY <1>0, <1>2, <2>1
  <2>4. k - 1 \in 0 .. Len(l) /\ k - 1 \notin Bad
    <3> HIDE DEF Bad
    <3> QED
      BY <1>0, <2>1, <2>2, <2>3
  <2> QED
    BY <1>3, <2>3, <2>4
<1>5. Good(Len(l))
  BY <1>0, <1>4
<1> QED
  BY <1>5 DEF Good, f, After

\* What recover finds are broadcasts.
LEMMA AfterTyped ==
  ASSUME LogTypes, NEW n \in Node, NEW off \in Nat
  PROVE  After(n, off) \in Seq(Bcast)
<1> DEFINE f == Kept(n, off)
           l == log[n]
           Bad == {k \in 0 .. Len(l) : f[k] \notin Seq(Bcast)}
<1>0. l \in Seq(Bcast) /\ Len(l) \in Nat
  BY DEF LogTypes
<1>1. \A k \in 0 .. Len(l) : f[k] = IF k = 0 THEN <<>> ELSE Round(n, off, f[k - 1], k)
  BY KeptUnfolds
<1> HIDE DEF f
<1>2. f[0] \in Seq(Bcast)
  <2>1. f[0] = <<>>
    BY <1>0, <1>1
  <2> QED
    BY <2>1
<1>3. ASSUME NEW k \in 1 .. Len(l), f[k - 1] \in Seq(Bcast)
      PROVE  f[k] \in Seq(Bcast)
  <2>1. f[k] = Append(f[k - 1], l[k]) \/ f[k] = f[k - 1]
    <3>1. k \in 0 .. Len(l) /\ k # 0
      BY <1>0
    <3> QED
      BY <1>1, <3>1, Zenon DEF Round
  <2>2. l[k] \in Bcast
    BY <1>0
  <2>3. Append(f[k - 1], l[k]) \in Seq(Bcast)
    <3> HIDE DEF l
    <3> QED
      BY <1>3, <2>2, AppendProperties
  <2> QED
    BY <1>3, <2>1, <2>3, Zenon
<1>4. Bad = {}
  <2> SUFFICES ASSUME Bad # {} PROVE FALSE
    OBVIOUS
  <2>1. Bad \subseteq Nat /\ \A k \in Bad : k \in 0 .. Len(l) /\ f[k] \notin Seq(Bcast)
    BY <1>0
  <2>2. PICK k \in Bad : \A m \in Bad : k <= m
    BY <2>1, NatMin, Zenon
  <2>3. k # 0 /\ k \in 1 .. Len(l)
    BY <1>0, <1>2, <2>1
  <2>4. k - 1 \in 0 .. Len(l) /\ k - 1 \notin Bad
    <3> HIDE DEF Bad
    <3> QED
      BY <1>0, <2>1, <2>2, <2>3
  <2> QED
    BY <1>3, <2>1, <2>3, <2>4
<1> QED
  BY <1>0, <1>4 DEF f, After

-----------------------------------------------------------------------------
\* Before the first broadcast the client misses nothing.
LEMMA InitOrder == Init => OrderInv
<1> SUFFICES ASSUME Init PROVE OrderInv
  OBVIOUS
<1>0. 1 \in Attempt /\ MaxSkew \in Nat
  BY ClusterRecoveryAssumption DEF Attempt
<1>1. LogTypes
  <2>1. skew \in [Node -> Nat]
    BY <1>0 DEF Init
  <2> QED
    BY <2>1 DEF Init, LogTypes
<1>2. Orderly => OffsetsGrow
  BY DEF Init, OffsetsGrow, Orderly
<1>3. LogsAgree /\ ReplayComplete
  BY <1>0 DEF Init, LogsAgree, ReplayComplete
<1>4. ClientFollows
  <2>1. stage[current] = "up" /\ at[current] \in Node /\ got = <<>> /\ last = 0
    BY <1>0, Zenon DEF Init
  <2> QED
    BY <2>1 DEF Init, ClientFollows
<1> QED
  BY <1>1, <1>2, <1>3, <1>4 DEF OrderInv

\* Every step keeps the types.
LEMMA StepLogTypes == Types /\ LogTypes /\ [Next]_vars => LogTypes'
<1> SUFFICES ASSUME Types, LogTypes, [Next]_vars
             PROVE  LogTypes'
  BY Zenon
<1>1. ASSUME NEW b \in Bcast, NEW n \in Node, Emit(b, n)
      PROVE  LogTypes'
  <2>1. NextOffset(n) \in Nat
    BY DEF NextOffset, LogTypes
  <2>2. got' \in Seq(Bcast) /\ last' \in Nat
    <3>1. \/ got' = Append(got, b) /\ last' = NextOffset(n)
          \/ UNCHANGED <<got, last>>
      BY <1>1, Zenon DEF Emit, Apply
    <3>2. Append(got, b) \in Seq(Bcast)
      BY AppendProperties DEF LogTypes
    <3> QED
      BY <2>1, <3>1, <3>2, Zenon DEF LogTypes
  <2>3. /\ next' \in [Node -> Nat] /\ offset' \in [Bcast -> Nat] /\ clock' \in Nat
        /\ log' \in [Node -> Seq(Bcast)] /\ emitted' \in Seq(Bcast)
        /\ relay' \in [Bcast -> SUBSET Node]
    BY <1>1, <2>1 DEF Emit, LogTypes
  <2> QED
    BY <1>1, <2>2, <2>3 DEF Emit, LogTypes, attemptVars, askVars, envVars
<1>2. ASSUME NEW b \in Bcast, NEW n \in Node, Relay(b, n)
      PROVE  LogTypes'
  <2>1. got' \in Seq(Bcast) /\ last' \in Nat
    <3>1. \/ got' = Append(got, b) /\ last' = offset[b]
          \/ UNCHANGED <<got, last>>
      BY <1>2, Zenon DEF Relay, Apply
    <3>2. Append(got, b) \in Seq(Bcast) /\ offset[b] \in Nat
      BY AppendProperties DEF LogTypes
    <3> QED
      BY <3>1, <3>2, Zenon DEF LogTypes
  <2>2. log' \in [Node -> Seq(Bcast)] /\ relay' \in [Bcast -> SUBSET Node]
    BY <1>2 DEF Relay, LogTypes
  <2> QED
    BY <1>2, <2>1, <2>2, Zenon DEF Relay, LogTypes, attemptVars, askVars, envVars
<1>3. ASSUME NEW b \in Bcast, NEW n \in Node, RelayFails(b, n)
      PROVE  LogTypes'
  BY <1>3 DEF RelayFails, LogTypes, clientVars, attemptVars, askVars, envVars
<1>4. ASSUME NEW n \in Node, RecoverLocal(n)
      PROVE  LogTypes'
  <2>1. replay' \in [Attempt -> Seq(Bcast)]
    BY <1>4, AfterTyped, Zenon DEF RecoverLocal, LogTypes
  <2> QED
    BY <1>4, <2>1 DEF RecoverLocal, LogTypes, logVars, askVars, envVars
<1>5. ASSUME NEW a \in Attempt, NEW p \in Node, Snapshot(a, p)
      PROVE  LogTypes'
  <2>1. copied' \in [Attempt -> [Node -> Seq(Bcast)]]
    <3>1. After(p, last) \in Seq(Bcast)
      BY AfterTyped DEF LogTypes
    <3>2. copied' = copied \/ copied' = [copied EXCEPT ![a][p] = After(p, last)]
      BY <1>5 DEF Snapshot
    <3>3. [copied EXCEPT ![a][p] = After(p, last)] \in [Attempt -> [Node -> Seq(Bcast)]]
      BY <3>1 DEF LogTypes
    <3> QED
      BY <3>2, <3>3, Zenon DEF LogTypes
  <2> QED
    BY <1>5, <2>1, Zenon DEF Snapshot, LogTypes, logVars, clientVars, attemptVars, envVars
<1>6. ASSUME NEW a \in Attempt, TakeAnswer(a) \/ NoAnswer(a)
      PROVE  LogTypes'
  <2>1. copied' \in [Attempt -> [Node -> Seq(Bcast)]]
    <3>1. copied' = [copied EXCEPT ![a] =
                       [p \in Node |-> IF csr[a][p] = "sent" THEN <<>> ELSE copied[a][p]]]
      BY <1>6, Zenon DEF TakeAnswer, NoAnswer, Release, LogTypes
    <3>2. [p \in Node |-> IF csr[a][p] = "sent" THEN <<>> ELSE copied[a][p]]
            \in [Node -> Seq(Bcast)]
      BY DEF LogTypes
    <3> QED
      BY <3>1, <3>2 DEF LogTypes
  <2>2. replay' \in [Attempt -> Seq(Bcast)]
    <3>1. replay' = replay \/ \E p \in Node : replay' = [replay EXCEPT ![a] = copied[a][p]]
      BY <1>6 DEF TakeAnswer, NoAnswer
    <3>2. \A p \in Node : [replay EXCEPT ![a] = copied[a][p]] \in [Attempt -> Seq(Bcast)]
      BY DEF LogTypes
    <3> QED
      BY <3>1, <3>2, Zenon DEF LogTypes
  <2> QED
    BY <1>6, <2>1, <2>2, Zenon DEF TakeAnswer, NoAnswer, LogTypes, logVars, clientVars, envVars
<1>7. ASSUME NEW a \in Attempt, Register(a)
      PROVE  LogTypes'
  <2>1. replay[a] \in Seq(Bcast)
    BY DEF LogTypes
  <2>2. replay[a] # <<>> => offset[replay[a][Len(replay[a])]] \in Nat
    BY <2>1 DEF LogTypes
  <2>3. got' \in Seq(Bcast) /\ last' \in Nat
    <3>1. got \o replay[a] \in Seq(Bcast)
      BY <2>1, ConcatProperties DEF LogTypes
    <3>2. \/ got' = got \o replay[a] /\ last' = (IF replay[a] = <<>> THEN last
                                                  ELSE offset[replay[a][Len(replay[a])]])
          \/ UNCHANGED <<got, last>>
      BY <1>7 DEF Register
    <3> QED
      BY <2>2, <3>1, <3>2, Zenon DEF LogTypes
  <2>4. replay' \in [Attempt -> Seq(Bcast)]
    BY <1>7 DEF Register, LogTypes
  <2> QED
    BY <1>7, <2>3, <2>4, Zenon DEF Register, LogTypes, logVars, askVars, envVars
<1>8. CASE UNCHANGED <<logVars, last, got, replay, copied, envVars>>
  BY <1>8 DEF LogTypes, logVars, envVars
<1> QED
  BY <1>1, <1>2, <1>3, <1>4, <1>5, <1>6, <1>7, <1>8, Zenon
  DEF Next, Broadcast, Arrive, AskPeers, ConnectFresh, Csr, Delete, WriteFails, Lose, Expire,
      Close, vars, clientVars, attemptVars, askVars

-----------------------------------------------------------------------------
\* What the steps of an orderly behaviour start from
Following ==
  /\ Types /\ LogTypes /\ Orderly
  /\ OffsetsGrow /\ LogsAgree /\ ClientFollows /\ ReplayComplete

\* A client that is not connected has received the first of the broadcasts; the
\* rest of them is what any node finds once nothing is on its way.
LEMMA FoundRest ==
  ASSUME Following, stage[current] # "up", Still, NEW n \in Node
  PROVE  got \o After(n, last) = emitted
<1> DEFINE g == Len(got)
           N == Len(emitted)
<1>1. /\ log[n] = emitted /\ emitted \in Seq(Bcast) /\ got \in Seq(Bcast)
      /\ N \in Nat /\ g \in Nat /\ g <= N /\ got = SubSeq(emitted, 1, g)
      /\ last \in Nat /\ last = (IF got = <<>> THEN 0 ELSE offset[got[g]])
  BY DEF Following, LogTypes, LogsAgree, ClientFollows, Still
<1>2. \A k \in 1 .. N : offset[emitted[k]] \in Nat /\ offset[emitted[k]] > 0
  BY <1>1 DEF Following, LogTypes, OffsetsGrow
<1>3. \A k \in 1 .. N : offset[emitted[k]] > last <=> k > g
  <2>1. CASE g = 0
    <3>1. last = 0
      BY <1>1, <2>1
    <3> QED
      BY <1>1, <1>2, <2>1, <3>1
  <2>2. CASE g # 0
    <3>1. g \in 1 .. N /\ got # <<>>
      BY <1>1, <2>2
    <3>2. got[g] = emitted[g]
      BY <1>1, <3>1
    <3>3. last = offset[emitted[g]]
      BY <1>1, <3>1, <3>2, Zenon
    <3>4. \A k \in 1 .. N : k > g => offset[emitted[g]] < offset[emitted[k]]
      BY <1>1, <3>1 DEF Following, OffsetsGrow
    <3>5. \A k \in 1 .. N : k < g => offset[emitted[k]] < offset[emitted[g]]
      BY <1>1, <3>1 DEF Following, OffsetsGrow
    <3> HIDE DEF g, N
    <3> QED
      BY <1>1, <1>2, <3>1, <3>3, <3>4, <3>5
  <2> QED
    BY <2>1, <2>2
<1>4. After(n, last) = SubSeq(emitted, g + 1, N)
  <2>1. g \in 0 .. Len(log[n]) /\ LogTypes
    BY <1>1 DEF Following
  <2>2. \A k \in 1 .. Len(log[n]) : offset[log[n][k]] > last <=> k > g
    BY <1>1, <1>3
  <2>3. After(n, last) = SubSeq(log[n], g + 1, Len(log[n]))
    <3> HIDE DEF g
    <3> QED
      BY <1>1, <2>1, <2>2, AfterIsRest, Zenon
  <2> QED
    BY <1>1, <2>3
<1>5. got \o After(n, last) = SubSeq(emitted, 1, g) \o SubSeq(emitted, g + 1, N)
  BY <1>1, <1>4, Zenon
<1>6. 1 \in 1 .. N + 1 /\ g \in 1 - 1 .. N /\ N \in g .. N
  BY <1>1
<1>7. SubSeq(emitted, 1, g) \o SubSeq(emitted, g + 1, N) = SubSeq(emitted, 1, N)
  BY <1>1, <1>6, ConcatAdjacentSubSeq, Zenon
<1> QED
  BY <1>1, <1>5, <1>7, SubSeqFull, Zenon

\* In an orderly behaviour the client comes and goes while nothing is on its way.
LEMMA SettledIsStill == Orderly /\ Settled => Still
BY Zenon DEF Orderly, Settled, Still

\* Steps that number, log, relay and deliver nothing keep the logs.
LEMMA LogsKept ==
  ASSUME Following, UNCHANGED <<logVars, envVars>>
  PROVE  OffsetsGrow' /\ LogsAgree' /\ (Still => Still')
BY DEF Following, OffsetsGrow, LogsAgree, Still, logVars, envVars

\* A new broadcast has the highest offset and is logged and received last.
LEMMA EmitOrder ==
  ASSUME Following, LogTypes', NEW b \in Bcast, NEW n \in Node, Emit(b, n)
  PROVE  OffsetsGrow' /\ LogsAgree' /\ ClientFollows' /\ ReplayComplete'
<1> DEFINE N == Len(emitted)
<1>0. /\ Types /\ LogTypes /\ Orderly /\ OffsetsGrow /\ LogsAgree /\ ClientFollows
      /\ emitted \in Seq(Bcast) /\ N \in Nat /\ got \in Seq(Bcast)
  BY DEF Following, LogTypes
<1>1. Still /\ stage[current] \notin {"asking", "found"}
  BY <1>0, SettledIsStill, Zenon DEF Emit, Orderly
<1>2. NextOffset(n) = clock /\ clock \in Nat /\ clock > 0
  BY <1>0 DEF NextOffset, OffsetsGrow, LogTypes
<1>3. /\ offset[b] = 0 /\ clock' = clock + 1
      /\ next' = [next EXCEPT ![n] = clock] /\ offset' = [offset EXCEPT ![b] = clock]
      /\ log' = [log EXCEPT ![n] = Append(log[n], b)]
      /\ emitted' = Append(emitted, b)
      /\ relay' = [relay EXCEPT ![b] = Node \ {n}]
      /\ UNCHANGED <<store, current, at, stage, replay, csr, copied, skew, mode>>
      /\ \/ /\ stage[current] = "up" /\ at[current] = n
            /\ got' = Append(got, b) /\ last' = clock
         \/ /\ ~(stage[current] = "up" /\ at[current] = n)
            /\ UNCHANGED <<got, last>>
  BY <1>2, Zenon DEF Emit, Apply, attemptVars, askVars, envVars
<1>4. \A m \in Node : log[m] = emitted
  BY <1>0, <1>1, Zenon DEF LogsAgree, Still
<1>5. /\ Len(emitted') = N + 1 /\ emitted'[N + 1] = b /\ emitted' # <<>>
      /\ \A k \in 1 .. N : emitted'[k] = emitted[k] /\ emitted[k] \in Bcast
      /\ SubSeq(emitted', 1, N) = emitted
  <2>1. /\ Len(emitted') = N + 1 /\ emitted'[N + 1] = b /\ emitted' # <<>>
        /\ \A k \in 1 .. N : emitted'[k] = emitted[k] /\ emitted[k] \in Bcast
    BY <1>0, <1>3, AppendProperties
  <2>2. SubSeq(emitted', 1, N) = emitted
    BY <1>0, <1>3
  <2> QED
    BY <2>1, <2>2, Zenon
<1>6. \A k \in 1 .. N : emitted[k] # b /\ offset'[emitted[k]] = offset[emitted[k]]
  BY <1>0, <1>3, <1>5 DEF OffsetsGrow, LogTypes
<1>7. offset'[b] = clock
  BY <1>0, <1>3, Zenon DEF LogTypes
<1>8. OffsetsGrow'
  <2>1. \A m \in Node : skew'[m] = 0 /\ next'[m] < clock'
    BY <1>0, <1>2, <1>3 DEF OffsetsGrow, LogTypes
  <2>2. \A k \in 1 .. N + 1 : k \in 1 .. N \/ k = N + 1
    BY <1>0
  <2>3. \A k \in 1 .. N : /\ offset'[emitted'[k]] = offset[emitted[k]]
                          /\ offset[emitted[k]] > 0 /\ offset[emitted[k]] < clock
                          /\ offset[emitted[k]] \in Nat
    BY <1>0, <1>5, <1>6 DEF OffsetsGrow, LogTypes
  <2>4. offset'[emitted'[N + 1]] = clock
    BY <1>5, <1>7, Zenon
  <2>5. \A k \in 1 .. N + 1 : offset'[emitted'[k]] > 0 /\ offset'[emitted'[k]] < clock'
    BY <1>2, <1>3, <2>2, <2>3, <2>4
  <2>6. ASSUME NEW j \in 1 .. N + 1, NEW k \in 1 .. N + 1, j < k
        PROVE  offset'[emitted'[j]] < offset'[emitted'[k]]
    <3>1. j \in 1 .. N
      BY <1>0, <2>6
    <3>2. CASE k = N + 1
      BY <2>3, <2>4, <3>1, <3>2, Zenon
    <3>3. CASE k \in 1 .. N
      <4>1. offset[emitted[j]] < offset[emitted[k]]
        BY <1>0, <2>6, <3>1, <3>3 DEF OffsetsGrow
      <4> QED
        BY <2>3, <3>1, <3>3, <4>1, Zenon
    <3> QED
      BY <2>2, <3>2, <3>3
  <2> QED
    BY <1>5, <2>1, <2>5, <2>6, Zenon DEF OffsetsGrow
<1>9. LogsAgree'
  <2>1. /\ relay'[b] = Node \ {n}
        /\ \A c \in Bcast : c # b => relay'[c] = {}
    BY <1>0, <1>1, <1>3 DEF Still, LogTypes
  <2>2. \A m \in Node : (\E c \in Bcast : m \in relay'[c]) <=> m # n
    BY <2>1, Zenon
  <2>3. \A m \in Node : log'[m] = IF m = n THEN emitted' ELSE emitted
    BY <1>0, <1>3, <1>4 DEF LogTypes
  <2>4. SubSeq(emitted', 1, Len(emitted') - 1) = emitted
    BY <1>0, <1>5
  <2> QED
    BY <1>5, <2>1, <2>2, <2>3, <2>4, Zenon DEF LogsAgree
<1>10. ClientFollows'
  <2>1. current \in Attempt /\ at[current] \in Node
    BY <1>0, Zenon DEF Types
  <2>2. CASE stage[current] = "up" /\ at[current] = n
    <3>1. got' = log'[n] /\ got' = Append(emitted, b)
      BY <1>0, <1>3, <1>4, <2>2 DEF ClientFollows, LogTypes
    <3>2. got' # <<>> /\ got'[Len(got')] = b
      BY <1>3, <1>5, <3>1, Zenon
    <3> QED
      BY <1>3, <1>7, <2>2, <3>1, <3>2, Zenon DEF ClientFollows
  <2>3. CASE ~(stage[current] = "up" /\ at[current] = n)
    <3>1. UNCHANGED <<got, last, stage, current, at>>
      BY <1>3, <2>3, Zenon
    <3>2. last' = IF got' = <<>> THEN 0 ELSE offset'[got'[Len(got')]]
      <4>1. got # <<>> => \E k \in 1 .. N : got[Len(got)] = emitted[k]
        <5>1. stage[current] = "up" => got = emitted
          BY <1>0, <1>4, <2>1, Zenon DEF ClientFollows
        <5>2. stage[current] # "up" => Len(got) <= N /\ got = SubSeq(emitted, 1, Len(got))
          BY <1>0 DEF ClientFollows
        <5>3. got # <<>> => Len(got) \in Nat /\ Len(got) >= 1
          BY <1>0
        <5>4. ASSUME stage[current] # "up", got # <<>>
              PROVE  got[Len(got)] = emitted[Len(got)] /\ Len(got) \in 1 .. N
          BY <1>0, <5>2, <5>3, <5>4
        <5> QED
          BY <1>0, <5>1, <5>3, <5>4
      <4>2. last = IF got = <<>> THEN 0 ELSE offset[got[Len(got)]]
        BY <1>0, Zenon DEF ClientFollows
      <4> QED
        BY <1>6, <3>1, <4>1, <4>2
    <3>3. CASE stage[current] = "up"
      <4>1. log'[at[current]] = log[at[current]]
        BY <1>0, <1>3, <2>1, <2>3, <3>3 DEF LogTypes
      <4>2. got = log[at[current]]
        BY <1>0, <3>3, Zenon DEF ClientFollows
      <4>3. got' = log'[at'[current']] /\ stage'[current'] = "up"
        BY <3>1, <3>3, <4>1, <4>2, Zenon
      <4> QED
        BY <3>2, <4>3, Zenon DEF ClientFollows
    <3>4. CASE stage[current] # "up"
      <4>1. Len(got) <= N /\ got = SubSeq(emitted, 1, Len(got)) /\ Len(got) \in Nat
        BY <1>0, <3>4 DEF ClientFollows
      <4>2. SubSeq(emitted', 1, Len(got)) = SubSeq(emitted, 1, Len(got))
        BY <1>0, <1>3, <4>1
      <4>3. Len(got) <= Len(emitted')
        BY <1>0, <1>5, <4>1
      <4>4. got' = got /\ stage'[current'] # "up"
        BY <3>1, <3>4, Zenon
      <4> QED
        BY <3>2, <4>1, <4>2, <4>3, <4>4, Zenon DEF ClientFollows
    <3> QED
      BY <3>3, <3>4, Zenon
  <2> QED
    BY <2>2, <2>3
<1>11. ReplayComplete'
  BY <1>1, <1>3, Zenon DEF ReplayComplete
<1> QED
  BY <1>8, <1>9, <1>10, <1>11, Zenon

\* The last broadcast completes the log of a peer, and what its client has.
LEMMA RelayOrder ==
  ASSUME Following, NEW b \in Bcast, NEW p \in Node, Relay(b, p)
  PROVE  OffsetsGrow' /\ LogsAgree' /\ ClientFollows' /\ ReplayComplete'
<1> DEFINE N == Len(emitted)
<1>0. /\ Types /\ LogTypes /\ Orderly /\ OffsetsGrow /\ LogsAgree /\ ClientFollows
      /\ ReplayComplete /\ emitted \in Seq(Bcast) /\ N \in Nat /\ got \in Seq(Bcast)
  BY DEF Following, LogTypes
<1>1. /\ p \in relay[b] /\ relay' = [relay EXCEPT ![b] = relay[b] \ {p}]
      /\ log' = [log EXCEPT ![p] = Append(log[p], b)]
      /\ UNCHANGED <<clock, next, offset, emitted, store, current, at, stage, replay,
                     csr, copied, skew, mode>>
      /\ \/ /\ stage[current] = "up" /\ at[current] = p
            /\ got' = Append(got, b) /\ last' = offset[b]
         \/ /\ ~(stage[current] = "up" /\ at[current] = p)
            /\ UNCHANGED <<got, last>>
  BY Zenon DEF Relay, Apply, attemptVars, askVars, envVars
<1>2. /\ emitted # <<>> /\ b = emitted[N]
      /\ \A c \in Bcast : c # b => relay[c] = {}
      /\ log[p] = SubSeq(emitted, 1, N - 1)
  BY <1>0, <1>1, Zenon DEF LogsAgree
<1>3. N \in 1 .. N /\ 1 \in 1 .. N
  BY <1>0, <1>2
<1>4. Append(log[p], b) = emitted
  <2>1. SubSeq(emitted, 1, N) = SubSeq(emitted, 1, N - 1) \o <<emitted[N]>>
    BY <1>0, <1>3, SubSeqRecursiveSecond
  <2>2. SubSeq(emitted, 1, N) = emitted
    BY <1>0, SubSeqFull
  <2>3. log[p] \in Seq(Bcast)
    BY <1>0 DEF LogTypes
  <2>4. Append(log[p], b) = log[p] \o <<b>>
    BY <2>3, AppendIsConcat, Zenon
  <2> QED
    BY <1>2, <2>1, <2>2, <2>4, Zenon
<1>5. /\ relay'[b] = relay[b] \ {p} /\ \A c \in Bcast : c # b => relay'[c] = {}
      /\ log'[p] = emitted /\ \A m \in Node : m # p => log'[m] = log[m]
  BY <1>0, <1>1, <1>2, <1>4, Zenon DEF LogTypes
<1>6. OffsetsGrow'
  BY <1>0, <1>1 DEF OffsetsGrow
<1>7. LogsAgree'
  <2>1. ASSUME NEW m \in Node, m # p
        PROVE  (\E c \in Bcast : m \in relay'[c]) <=> (\E c \in Bcast : m \in relay[c])
    BY <1>2, <1>5, <2>1, Zenon
  <2>2. ~\E c \in Bcast : p \in relay'[c]
    BY <1>5, Zenon
  <2>3. \A c \in Bcast : relay'[c] # {} => c = b
    BY <1>5, Zenon
  <2>4. emitted' = emitted
    BY <1>1, Zenon
  <2>5. ASSUME NEW m \in Node
        PROVE  log'[m] = IF \E c \in Bcast : m \in relay'[c]
                           THEN SubSeq(emitted, 1, Len(emitted) - 1) ELSE emitted
    <3>1. CASE m = p
      BY <1>5, <2>2, <3>1, Zenon
    <3>2. CASE m # p
      <4>1. log[m] = IF \E c \in Bcast : m \in relay[c]
                       THEN SubSeq(emitted, 1, Len(emitted) - 1) ELSE emitted
        BY <1>0, Zenon DEF LogsAgree
      <4> QED
        BY <1>5, <2>1, <3>2, <4>1, Zenon
    <3> QED
      BY <3>1, <3>2
  <2> QED
    BY <1>2, <2>3, <2>4, <2>5, Zenon DEF LogsAgree
<1>8. ClientFollows'
  <2>1. current \in Attempt /\ at[current] \in Node
    BY <1>0, Zenon DEF Types
  <2>2. CASE stage[current] = "up" /\ at[current] = p
    <3>1. got' = emitted /\ got' = log'[p] /\ last' = offset[b]
      BY <1>0, <1>1, <1>4, <1>5, <2>2, Zenon DEF ClientFollows
    <3> QED
      BY <1>1, <1>2, <2>2, <3>1, Zenon DEF ClientFollows
  <2>3. CASE ~(stage[current] = "up" /\ at[current] = p)
    <3>1. UNCHANGED <<got, last>>
      BY <1>1, <2>3, Zenon
    <3>2. stage[current] = "up" => log'[at[current]] = log[at[current]]
      BY <1>5, <2>1, <2>3
    <3> QED
      BY <1>0, <1>1, <3>1, <3>2, Zenon DEF ClientFollows
  <2> QED
    BY <2>2, <2>3
<1>9. ReplayComplete'
  <2>1. ~Still
    BY <1>1 DEF Still
  <2>2. stage[current] \notin {"asking", "found"}
    BY <1>0, <2>1 DEF ReplayComplete
  <2> QED
    BY <1>1, <2>2, Zenon DEF ReplayComplete
<1> QED
  BY <1>6, <1>7, <1>8, <1>9

\* A client that loses its connection has received every broadcast so far.
LEMMA LoseOrder ==
  ASSUME Following, Lose
  PROVE  OffsetsGrow' /\ LogsAgree' /\ ClientFollows' /\ ReplayComplete'
<1>1. /\ Types /\ LogTypes /\ Orderly /\ LogsAgree /\ ClientFollows /\ Still
      /\ stage[current] = "up" /\ stage'[current] = "lost"
      /\ UNCHANGED <<logVars, current, got, last, at, replay, csr, copied, envVars>>
  BY SettledIsStill DEF Following, Lose, Types, clientVars, askVars
<1>2. OffsetsGrow' /\ LogsAgree'
  BY <1>1, LogsKept, Zenon
<1>3. got = emitted /\ emitted \in Seq(Bcast)
  BY <1>1 DEF LogsAgree, ClientFollows, Still, Types, LogTypes
<1>4. Len(got) <= Len(emitted) /\ got = SubSeq(emitted, 1, Len(got))
  BY <1>3, SubSeqFull
<1>5. ClientFollows'
  BY <1>1, <1>4 DEF ClientFollows, logVars
<1>6. ReplayComplete'
  BY <1>1 DEF ReplayComplete
<1> QED
  BY <1>2, <1>5, <1>6

\* The client comes back to a node while nothing is on its way.
LEMMA ConnectOrder ==
  ASSUME Following, Unused, NEW n \in Node, RecoverLocal(n) \/ AskPeers(n) \/ ConnectFresh(n)
  PROVE  OffsetsGrow' /\ LogsAgree' /\ ClientFollows' /\ ReplayComplete'
<1> DEFINE c == current + 1
<1>1. /\ Types /\ LogTypes /\ Orderly /\ ClientFollows /\ Connect(n) /\ Still
      /\ stage[current] # "up" /\ current' = c /\ c \in Attempt
      /\ UNCHANGED <<logVars, last, got, envVars>>
  <2>1. Connect(n) /\ UNCHANGED <<logVars, last, got, envVars>>
    BY DEF RecoverLocal, AskPeers, ConnectFresh
  <2> QED
    BY <2>1, SettledIsStill, ClusterRecoveryAssumption DEF Following, Connect, Types, Attempt
<1>2. OffsetsGrow' /\ LogsAgree' /\ Still'
  BY <1>1, LogsKept, Zenon
<1>3. stage'[c] \in {"found", "asking", "fresh"}
  BY <1>1, Zenon DEF RecoverLocal, AskPeers, ConnectFresh, Types
<1>4. ClientFollows'
  <2>1. /\ Len(got) <= Len(emitted) /\ got = SubSeq(emitted, 1, Len(got))
        /\ last = IF got = <<>> THEN 0 ELSE offset[got[Len(got)]]
    BY <1>1, Zenon DEF ClientFollows
  <2>2. stage'[current'] # "up" /\ UNCHANGED <<got, emitted, offset, last>>
    BY <1>1, <1>3 DEF logVars
  <2> QED
    BY <2>1, <2>2 DEF ClientFollows
<1> HIDE DEF c
<1>5. ReplayComplete'
  <2>1. CASE RecoverLocal(n)
    <3>1. stage'[c] = "found" /\ replay'[c] = After(n, last) /\ emitted' = emitted /\ got' = got
      BY <1>1, <2>1 DEF RecoverLocal, Types, LogTypes, logVars, c
    <3>2. got \o After(n, last) = emitted
      BY <1>1, FoundRest
    <3> QED
      BY <1>1, <1>2, <3>1, <3>2, Zenon DEF ReplayComplete
  <2>2. CASE AskPeers(n)
    <3>1. stage'[c] = "asking" /\ \A p \in Node : csr'[c][p] \in {"none", "asked"}
      BY <1>1, <2>2 DEF AskPeers, Types, c
    <3> QED
      BY <1>1, <1>2, <3>1, Zenon DEF ReplayComplete
  <2>3. CASE ConnectFresh(n)
    <3>1. stage'[c] = "fresh"
      BY <1>1, <2>3 DEF ConnectFresh, Types, c
    <3> QED
      BY <1>1, <3>1, Zenon DEF ReplayComplete
  <2> QED
    BY <2>1, <2>2, <2>3, Zenon
<1> QED
  BY <1>2, <1>4, <1>5, Zenon

\* A peer answers with all the client has missed.
LEMMA SnapshotOrder ==
  ASSUME Following, NEW a \in Attempt, NEW r \in Node, Snapshot(a, r)
  PROVE  OffsetsGrow' /\ LogsAgree' /\ ClientFollows' /\ ReplayComplete'
<1>1. /\ Types /\ LogTypes /\ Orderly /\ ClientFollows /\ ReplayComplete /\ Still
      /\ UNCHANGED <<logVars, current, last, got, at, stage, replay, envVars>>
  BY SettledIsStill DEF Following, Snapshot, clientVars, attemptVars
<1>2. OffsetsGrow' /\ LogsAgree' /\ Still'
  BY <1>1, LogsKept, Zenon
<1>3. ClientFollows'
  BY <1>1, Zenon DEF ClientFollows, logVars
<1>s. \/ csr' = [csr EXCEPT ![a][r] = "none"] /\ copied' = copied
      \/ /\ csr' = [csr EXCEPT ![a][r] = "copied"]
         /\ copied' = [copied EXCEPT ![a][r] = After(r, last)]
  BY Zenon DEF Snapshot
<1>4. \A b \in Attempt, p \in Node : b # a \/ p # r =>
        csr'[b][p] = csr[b][p] /\ copied'[b][p] = copied[b][p]
  <2>1. CASE csr' = [csr EXCEPT ![a][r] = "none"] /\ copied' = copied
    BY <1>1, <2>1 DEF Types
  <2>2. CASE /\ csr' = [csr EXCEPT ![a][r] = "copied"]
             /\ copied' = [copied EXCEPT ![a][r] = After(r, last)]
    BY <1>1, <2>2, Zenon DEF Types, LogTypes
  <2> QED
    BY <1>s, <2>1, <2>2
<1>5. csr'[a][r] = "none" \/ (csr'[a][r] = "copied" /\ copied'[a][r] = After(r, last))
  BY <1>1, <1>s DEF Types, LogTypes
<1>6. ReplayComplete'
  <2>1. current \in Attempt /\ emitted' = emitted /\ got' = got
    BY <1>1, Zenon DEF Types, logVars
  <2>2. stage[current] = "found" => got' \o replay'[current] = emitted'
    BY <1>1, <2>1 DEF ReplayComplete
  <2>3. ASSUME stage[current] = "asking", NEW p \in Node, csr'[current][p] \in {"copied", "sent"}
        PROVE  got \o copied'[current][p] = emitted
    <3>1. CASE current = a /\ p = r
      <4>1. got \o After(r, last) = emitted
        BY <2>3, FoundRest, <1>1
      <4> QED
        BY <1>5, <2>3, <3>1, <4>1, Zenon
    <3>2. CASE current # a \/ p # r
      BY <1>1, <1>4, <2>1, <2>3, <3>2, Zenon DEF ReplayComplete
    <3> QED
      BY <3>1, <3>2
  <2> QED
    BY <1>1, <1>2, <2>1, <2>2, <2>3, Zenon DEF ReplayComplete
<1> QED
  BY <1>2, <1>3, <1>6, Zenon

\* Steps that change neither the client nor what its connection has found.
LEMMA ElsewhereOrder ==
  ASSUME Following,
         UNCHANGED <<logVars, current, last, got, at, replay, copied, envVars>>,
         \/ stage'[current] = stage[current]
         \/ stage[current] \notin {"up"} /\ stage'[current] \notin {"up", "asking", "found"},
         \A p \in Node : csr'[current][p] = csr[current][p]
                           \/ (csr[current][p] = "copied" /\ csr'[current][p] = "sent")
  PROVE  OffsetsGrow' /\ LogsAgree' /\ ClientFollows' /\ ReplayComplete'
<1>1. OffsetsGrow' /\ LogsAgree' /\ (Still => Still')
  BY LogsKept
<1>2. ClientFollows /\ ReplayComplete /\ emitted' = emitted /\ log' = log /\ offset' = offset
  BY Zenon DEF Following, logVars
<1>3. ClientFollows'
  BY <1>2, Zenon DEF ClientFollows
<1>4. ReplayComplete'
  BY <1>1, <1>2 DEF ReplayComplete
<1> QED
  BY <1>1, <1>3, <1>4, Zenon

\* The node takes an answer, or none has the session.
LEMMA AnswerOrder ==
  ASSUME Following, NEW a \in Attempt, TakeAnswer(a) \/ NoAnswer(a)
  PROVE  OffsetsGrow' /\ LogsAgree' /\ ClientFollows' /\ ReplayComplete'
<1>1. /\ Types /\ LogTypes /\ ClientFollows /\ ReplayComplete
      /\ stage[a] = "asking" /\ Release(a)
      /\ UNCHANGED <<logVars, current, last, got, at, envVars>>
  BY DEF Following, TakeAnswer, NoAnswer, Arrived, clientVars
<1>2. OffsetsGrow' /\ LogsAgree' /\ (Still => Still')
  BY <1>1, LogsKept
<1>3. emitted' = emitted /\ log' = log /\ offset' = offset /\ current \in Attempt
  BY <1>1 DEF logVars, Types
<1>4. CASE a # current
  <2>1. /\ stage'[current] = stage[current] /\ replay'[current] = replay[current]
    BY <1>1, <1>3, <1>4, Zenon DEF TakeAnswer, NoAnswer, Types, LogTypes
  <2>2. \A p \in Node : csr'[current][p] = csr[current][p]
                          /\ copied'[current][p] = copied[current][p]
    BY <1>1, <1>3, <1>4, Zenon DEF Release, Types, LogTypes
  <2>3. ClientFollows'
    BY <1>1, <1>3, <2>1, Zenon DEF ClientFollows
  <2>4. ReplayComplete'
    BY <1>1, <1>2, <1>3, <2>1, <2>2, Zenon DEF ReplayComplete
  <2> QED
    BY <1>2, <2>3, <2>4, Zenon
<1>5. CASE a = current
  <2>1. stage'[current] \in {"found", "fresh"}
    BY <1>1, <1>3, <1>5, Zenon DEF TakeAnswer, NoAnswer, Types
  <2>2. ClientFollows'
    BY <1>1, <1>3, <1>5, <2>1, Zenon DEF ClientFollows
  <2>3. stage'[current] = "found" => \E p \in Node : /\ csr[current][p] = "sent"
                                                     /\ replay'[current] = copied[current][p]
    BY <1>1, <1>3, <1>5 DEF TakeAnswer, NoAnswer, Arrived, Types, LogTypes
  <2>4. ReplayComplete'
    BY <1>1, <1>2, <1>3, <1>5, <2>1, <2>3, Zenon DEF ReplayComplete
  <2> QED
    BY <1>2, <2>2, <2>4, Zenon
<1> QED
  BY <1>4, <1>5, Zenon

\* With the replay the client has received every broadcast.
LEMMA RegisterOrder ==
  ASSUME Following, NEW a \in Attempt, Register(a)
  PROVE  OffsetsGrow' /\ LogsAgree' /\ ClientFollows' /\ ReplayComplete'
<1>1. /\ Types /\ LogTypes /\ Orderly /\ LogsAgree /\ ClientFollows /\ ReplayComplete /\ Still
      /\ stage[a] = "found" /\ replay' = [replay EXCEPT ![a] = <<>>]
      /\ UNCHANGED <<logVars, current, at, csr, copied, envVars>>
  BY SettledIsStill DEF Following, Register, askVars
<1>2. OffsetsGrow' /\ LogsAgree' /\ Still'
  BY <1>1, LogsKept, Zenon
<1>3. emitted' = emitted /\ log' = log /\ offset' = offset /\ current \in Attempt
  BY <1>1 DEF logVars, Types
<1>4. CASE a # current
  <2>1. /\ stage'[current] = stage[current] /\ replay'[current] = replay[current]
        /\ UNCHANGED <<got, last>>
    BY <1>1, <1>3, <1>4 DEF Register, Types, LogTypes
  <2>2. ClientFollows'
    BY <1>1, <1>3, <2>1, Zenon DEF ClientFollows
  <2>3. ReplayComplete'
    BY <1>1, <1>2, <1>3, <2>1, Zenon DEF ReplayComplete
  <2> QED
    BY <1>2, <2>2, <2>3, Zenon
<1>5. CASE a = current
  <2>1. /\ stage'[current] = "up" /\ got' = got \o replay[current]
        /\ last' = IF replay[current] = <<>> THEN last
                   ELSE offset[replay[current][Len(replay[current])]]
    BY <1>1, <1>3, <1>5, Zenon DEF Register, Types
  <2>2. got' = emitted
    BY <1>1, <1>5, <2>1, Zenon DEF ReplayComplete
  <2>3. log[at[current]] = emitted
    BY <1>1, <1>3, Zenon DEF LogsAgree, Still, Types
  <2>4. last' = IF got' = <<>> THEN 0 ELSE offset[got'[Len(got')]]
    <3>1. got \in Seq(Bcast) /\ replay[current] \in Seq(Bcast)
      BY <1>1, <1>3, Zenon DEF LogTypes
    <3>2. CASE replay[current] = <<>>
      <4>1. got' = got /\ last' = last
        BY <2>1, <3>1, <3>2, ConcatEmptySeq, Zenon
      <4> QED
        BY <1>1, <4>1 DEF ClientFollows
    <3>3. CASE replay[current] # <<>>
      <4>1. Len(replay[current]) \in Nat \ {0} /\ Len(got) \in Nat
        BY <3>1, <3>3, EmptySeq
      <4>2. /\ Len(got') = Len(got) + Len(replay[current])
            /\ got'[Len(got) + Len(replay[current])] = replay[current][Len(replay[current])]
        BY <2>1, <3>1, <4>1, ConcatProperties
      <4>3. got' # <<>>
        BY <4>1, <4>2
      <4> QED
        BY <2>1, <3>3, <4>2, <4>3, Zenon
    <3> QED
      BY <3>2, <3>3, Zenon
  <2>5. ClientFollows'
    BY <1>1, <1>3, <2>1, <2>2, <2>3, <2>4, Zenon DEF ClientFollows
  <2>6. ReplayComplete'
    BY <1>1, <2>1, Zenon DEF ReplayComplete
  <2> QED
    BY <1>2, <2>5, <2>6
<1> QED
  BY <1>4, <1>5

\* Every step of an orderly behaviour keeps the invariant.
LEMMA StepOrder == Conserved /\ OrderInv /\ [Next]_vars => OrderInv'
<1> SUFFICES ASSUME Conserved, OrderInv, [Next]_vars
             PROVE  OrderInv'
  OBVIOUS
<1>1. LogTypes'
  BY StepLogTypes DEF Conserved, OrderInv
<1>2. mode' = mode
  BY Zenon DEF Next, Broadcast, Emit, Relay, RelayFails, Arrive, RecoverLocal, AskPeers, ConnectFresh,
         Csr, Snapshot, Delete, WriteFails, Lose, Expire, Close, TakeAnswer, NoAnswer, Register,
         vars, envVars
<1> SUFFICES ASSUME Orderly
             PROVE  OffsetsGrow' /\ LogsAgree' /\ ClientFollows' /\ ReplayComplete'
  BY <1>1, <1>2, Zenon DEF OrderInv, Orderly
<1>3. Following /\ Unused /\ Types /\ current \in Attempt
  BY Zenon DEF OrderInv, Conserved, Following, Types
<1>4. CASE Broadcast
  BY <1>1, <1>3, <1>4, EmitOrder, RelayOrder DEF Broadcast, RelayFails, Orderly
<1>5. CASE Arrive
  BY <1>3, <1>5, ConnectOrder DEF Arrive
<1>6. ASSUME NEW a \in Attempt, NEW p \in Node, Snapshot(a, p) \/ Delete(a, p) \/ WriteFails(a, p)
      PROVE  OffsetsGrow' /\ LogsAgree' /\ ClientFollows' /\ ReplayComplete'
  <2>1. CASE Delete(a, p)
    <3>1. /\ csr[a][p] = "copied" /\ csr' = [csr EXCEPT ![a][p] = "sent"]
          /\ UNCHANGED <<logVars, current, last, got, at, stage, replay, copied, envVars>>
      BY <2>1, Zenon DEF Delete, clientVars, attemptVars
    <3>2. \A q \in Node : csr'[current][q] = csr[current][q]
                            \/ (csr[current][q] = "copied" /\ csr'[current][q] = "sent")
      BY <1>3, <3>1 DEF Types
    <3> QED
      BY <1>3, <3>1, <3>2, ElsewhereOrder
  <2>2. ~WriteFails(a, p)
    BY DEF WriteFails, Orderly
  <2> QED
    BY <1>3, <1>6, <2>1, <2>2, SnapshotOrder, Zenon
<1>7. CASE Lose
  BY <1>3, <1>7, LoseOrder, Zenon
<1>8. CASE (\E n \in Node : Expire(n)) \/ UNCHANGED vars
  <2>1. UNCHANGED <<logVars, current, last, got, at, stage, replay, csr, copied, envVars>>
    BY <1>8, Zenon DEF Expire, vars, clientVars, attemptVars, askVars
  <2> QED
    BY <1>3, <2>1, ElsewhereOrder
<1>9. ASSUME NEW a \in Attempt, Close(a)
      PROVE  OffsetsGrow' /\ LogsAgree' /\ ClientFollows' /\ ReplayComplete'
  <2>1. /\ stage[a] = "lost" /\ stage' = [stage EXCEPT ![a] = "closed"]
        /\ UNCHANGED <<logVars, current, last, got, at, replay, csr, copied, envVars>>
    BY <1>9 DEF Close, clientVars, askVars
  <2>2. \/ stage'[current] = stage[current]
        \/ stage[current] \notin {"up"} /\ stage'[current] \notin {"up", "asking", "found"}
    BY <1>3, <2>1 DEF Types
  <2> QED
    BY <1>3, <2>1, <2>2, ElsewhereOrder
<1> QED
  BY <1>3, <1>4, <1>5, <1>6, <1>7, <1>8, <1>9, AnswerOrder, RegisterOrder DEF Next, Csr

\* For any number of nodes, broadcasts and reconnects: a connected client has
\* received every broadcast once and in the order of emission (ReplayInOrder),
\* whichever nodes it came by and whichever log its replays were taken from, if
\* clocks agree, posts arrive and broadcasts do not overlap with its moves.
THEOREM ReplayOrdered == Spec => []ReplayInOrder
<1>1. Conserved /\ OrderInv => ReplayInOrder
  <2> SUFFICES ASSUME Conserved, OrderInv, Orderly, stage[current] = "up", Still
               PROVE  got = emitted
    BY DEF ReplayInOrder, AllInOrder, Orderly, Still
  <2>1. LogsAgree /\ ClientFollows /\ at[current] \in Node
    BY DEF OrderInv, Conserved, Types
  <2> QED
    BY <2>1 DEF LogsAgree, ClientFollows, Still
<1> QED
  BY <1>1, InitConserved, NextConserved, InitOrder, StepOrder, PTL DEF Spec
=============================================================================
