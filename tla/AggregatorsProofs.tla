-------------------------- MODULE AggregatorsProofs --------------------------
(***************************************************************************)
(* Proofs, for every number of messages, views and workers, that the vote  *)
(* and the timeout aggregator hand every message to the one collector of   *)
(* its view, once.                                                         *)
(***************************************************************************)
EXTENDS Aggregators, TLAPS

-----------------------------------------------------------------------------
(***************************************************************************)
(* Messages on their way through an aggregator: from a queue to a worker,  *)
(* and from the worker to a collector.                                     *)
(***************************************************************************)
\* The message was not sent: neither queued, nor processed, nor handed over.
Nowhere(m, queue, processed, handed) ==
    /\ \A i \in DOMAIN queue : queue[i] # m
    /\ \A w \in Workers : processed[w] # m
    /\ handed[m] = Nil

\* No message is in the queue twice or with two workers, and the messages in
\* the queue and with the workers have not been handed over.
InOnePlace(queue, processed, handed) ==
    /\ \A i, j \in DOMAIN queue : queue[i] = queue[j] => i = j
    /\ \A i \in DOMAIN queue : handed[queue[i]] = Nil
    /\ \A i \in DOMAIN queue : \A w \in Workers : processed[w] # queue[i]
    /\ \A w \in Workers : processed[w] # Nil => handed[processed[w]] = Nil
    /\ \A v, w \in Workers : processed[v] = processed[w] => v = w \/ processed[v] = Nil

(* Push, of a message that was not sent before.                            *)
LEMMA PushedIsInOnePlace ==
    ASSUME NEW M, NEW queue \in Seq(M), NEW processed, NEW handed, NEW m \in M,
           InOnePlace(queue, processed, handed), Nowhere(m, queue, processed, handed)
    PROVE  /\ Append(queue, m) \in Seq(M)
           /\ InOnePlace(Append(queue, m), processed, handed)
           /\ \A n \in M : n # m /\ Nowhere(n, queue, processed, handed)
                              => Nowhere(n, Append(queue, m), processed, handed)
<1> DEFINE pushed == Append(queue, m)
<1>1. /\ pushed \in Seq(M) /\ DOMAIN pushed = 1 .. Len(queue) + 1
      /\ DOMAIN queue = 1 .. Len(queue) /\ Len(queue) \in Nat
      /\ \A i \in DOMAIN queue : pushed[i] = queue[i]
      /\ pushed[Len(queue) + 1] = m
  OBVIOUS
<1>2. \A i \in DOMAIN pushed : i \in DOMAIN queue \/ i = Len(queue) + 1
  BY <1>1
<1>. HIDE DEF pushed
<1>3. \A i, j \in DOMAIN pushed : pushed[i] = pushed[j] => i = j
  BY <1>1, <1>2 DEF InOnePlace, Nowhere
<1>4. /\ \A i \in DOMAIN pushed : handed[pushed[i]] = Nil
      /\ \A i \in DOMAIN pushed : \A w \in Workers : processed[w] # pushed[i]
  BY <1>1, <1>2 DEF InOnePlace, Nowhere
<1>5. InOnePlace(pushed, processed, handed)
  BY Zenon, <1>3, <1>4 DEF InOnePlace
<1>6. ASSUME NEW n \in M, n # m, Nowhere(n, queue, processed, handed)
      PROVE  Nowhere(n, pushed, processed, handed)
  BY Zenon, <1>1, <1>2, <1>6 DEF Nowhere
<1>. QED BY Zenon, <1>1, <1>5, <1>6 DEF pushed

(* Pop, by a worker.                                                       *)
LEMMA PoppedIsInOnePlace ==
    ASSUME NEW M, NEW queue \in Seq(M), queue # <<>>, NEW processed, NEW handed,
           NEW w \in Workers, InOnePlace(queue, processed, handed),
           NEW after, after[w] = Head(queue),
           \A v \in Workers \ {w} : after[v] = processed[v]
    PROVE  /\ Tail(queue) \in Seq(M) /\ after[w] \in M
           /\ InOnePlace(Tail(queue), after, handed)
           /\ \A n : Nowhere(n, queue, processed, handed)
                        => Nowhere(n, Tail(queue), after, handed)
<1> DEFINE rest == Tail(queue)
<1>1. /\ rest \in Seq(M) /\ DOMAIN rest = 1 .. Len(queue) - 1
      /\ DOMAIN queue = 1 .. Len(queue) /\ Len(queue) \in Nat \ {0}
      /\ \A i \in DOMAIN rest : i + 1 \in DOMAIN queue /\ rest[i] = queue[i + 1]
      /\ 1 \in DOMAIN queue /\ Head(queue) = queue[1] /\ queue[1] \in M
  OBVIOUS
<1>2. after[w] = queue[1]
  BY Zenon, <1>1
<1>. HIDE DEF rest
<1>3. \A i \in DOMAIN rest : rest[i] # queue[1] /\ i \in Nat
  BY SMTT(30), <1>1 DEF InOnePlace
<1>4. \A i, j \in DOMAIN rest : rest[i] = rest[j] => i = j
  <2>1. ASSUME NEW i \in DOMAIN rest, NEW j \in DOMAIN rest, rest[i] = rest[j] PROVE i = j
    <3>1. i + 1 = j + 1
      BY <1>1, <2>1 DEF InOnePlace
    <3>. QED BY <3>1, <1>3
  <2>. QED BY Zenon, <2>1
<1>5. /\ \A i \in DOMAIN rest : handed[rest[i]] = Nil
      /\ \A i \in DOMAIN rest : \A v \in Workers : after[v] # rest[i]
  BY SMTT(30), <1>1, <1>2, <1>3 DEF InOnePlace
<1>6. /\ \A v \in Workers : after[v] # Nil => handed[after[v]] = Nil
      /\ \A u, v \in Workers : after[u] = after[v] => u = v \/ after[u] = Nil
  BY <1>1, <1>2 DEF InOnePlace
<1>7. InOnePlace(rest, after, handed)
  BY Zenon, <1>4, <1>5, <1>6 DEF InOnePlace
<1>8. ASSUME NEW n, Nowhere(n, queue, processed, handed) PROVE Nowhere(n, rest, after, handed)
  BY ZenonT(60), <1>1, <1>2, <1>8 DEF Nowhere
<1>. QED BY Zenon, <1>1, <1>2, <1>7, <1>8 DEF rest

(* A worker takes a message from another queue.                            *)
LEMMA OthersStayInOnePlace ==
    ASSUME NEW queue, NEW processed, NEW handed,
           NEW w \in Workers, NEW m, InOnePlace(queue, processed, handed),
           \A i \in DOMAIN queue : queue[i] # m,
           \A v \in Workers : processed[v] # m,
           handed[m] = Nil,
           NEW after, after[w] = m, \A v \in Workers \ {w} : after[v] = processed[v]
    PROVE  /\ InOnePlace(queue, after, handed)
           /\ \A n : n # m /\ Nowhere(n, queue, processed, handed)
                        => Nowhere(n, queue, after, handed)
<1>1. InOnePlace(queue, after, handed)
  BY DEF InOnePlace
<1>2. ASSUME NEW n, n # m, Nowhere(n, queue, processed, handed)
      PROVE  Nowhere(n, queue, after, handed)
  BY Zenon, <1>2 DEF Nowhere
<1>. QED BY Zenon, <1>1, <1>2

(* The worker hands its message over.                                      *)
LEMMA HandedIsInOnePlace ==
    ASSUME NEW M, Nil \notin M, NEW Q \in SUBSET M, NEW queue \in Seq(Q),
           NEW processed \in [Workers -> M \cup {Nil}], NEW handed,
           NEW w \in Workers, NEW m \in M, processed[w] = m,
           InOnePlace(queue, processed, handed),
           NEW after, after[w] = Nil, \A v \in Workers \ {w} : after[v] = processed[v],
           NEW handedAfter, \A n \in M \ {m} : handedAfter[n] = handed[n]
    PROVE  /\ handed[m] = Nil
           /\ InOnePlace(queue, after, handedAfter)
           /\ \A n \in M : Nowhere(n, queue, processed, handed)
                              => Nowhere(n, queue, after, handedAfter)
<1>1. m # Nil /\ handed[m] = Nil
  BY Zenon DEF InOnePlace
<1>2. /\ \A i \in DOMAIN queue : queue[i] \in M \ {m}
      /\ \A v \in Workers \ {w} : processed[v] # m
  BY <1>1 DEF InOnePlace
<1>3. \A v \in Workers : after[v] # Nil => after[v] \in M \ {m} /\ after[v] = processed[v]
  BY Zenon, <1>2
<1>4. InOnePlace(queue, after, handedAfter)
  <2>1. \A i \in DOMAIN queue : handedAfter[queue[i]] = Nil
    BY Zenon, <1>2 DEF InOnePlace
  <2>2. /\ \A i \in DOMAIN queue : \A v \in Workers : after[v] # queue[i]
        /\ \A v \in Workers : after[v] # Nil => handedAfter[after[v]] = Nil
        /\ \A u, v \in Workers : after[u] = after[v] => u = v \/ after[u] = Nil
    BY <1>2, <1>3 DEF InOnePlace
  <2>. QED BY Zenon, <2>1, <2>2 DEF InOnePlace
<1>5. ASSUME NEW n \in M, Nowhere(n, queue, processed, handed)
      PROVE  Nowhere(n, queue, after, handedAfter)
  <2>1. n # m
    BY Zenon, <1>5 DEF Nowhere
  <2>. QED BY Zenon, <1>1, <1>5, <2>1 DEF Nowhere
<1>. QED BY Zenon, <1>1, <1>4, <1>5
-----------------------------------------------------------------------------
(***************************************************************************)
(* The vote aggregator.  A collector is stored under the view of the       *)
(* message it was created for, and pruning follows the aggregator's own    *)
(* threshold, which only grows.                                            *)
(***************************************************************************)
VotesTyped ==
    /\ queuedVotes \in Seq(Votes) /\ queuedBlocks \in Seq(Proposals)
    /\ finalizedView \in Nat /\ lowestRetainedView \in Nat /\ lowestRetained \in Nat
    /\ collectors \in [Views -> Messages \cup {Nil}]
    /\ current \in [Workers -> Messages \cup {Nil}]
    /\ handedTo \in [Messages -> Messages \cup {Nil, "pruned"}]
    /\ DOMAIN pc = Threads

VotesMeet ==
    /\ lowestRetained <= lowestRetainedView
    /\ \A w \in Workers : pc[w] \in {"get", "create"} => current[w] \in Messages
    /\ \A v \in Views : collectors[v] # Nil => View[collectors[v]] = v
    /\ OneCollectorPerView

VotesFlow ==
    /\ InOnePlace(queuedVotes, current, handedTo)
    /\ InOnePlace(queuedBlocks, current, handedTo)
    /\ \A m \in Votes : pc[m] = "idle" => Nowhere(m, queuedVotes, current, handedTo)
    /\ \A m \in Proposals : pc[m] = "idle" => Nowhere(m, queuedBlocks, current, handedTo)

VotesInvariant == VotesTyped /\ VotesMeet /\ VotesFlow

\* The collector a message was handed to is not exchanged.
VotesKept == \A m \in Messages : handedTo[m] # Nil => handedTo'[m] = handedTo[m]

(* The threads have different names.                                       *)
LEMMA ThreadsDiffer ==
    /\ Workers \cap (Messages \cup {"finalizer", "pruner"}) = {}
    /\ Messages \cap {"finalizer", "pruner"} = {}
    /\ Votes \cap Proposals = {} /\ Nil \notin Messages /\ "pruned" \notin Messages
    /\ Messages = Votes \cup Proposals /\ Views \subseteq Nat /\ View \in [Messages -> Views]
  BY Zenon, VoteAggregatorAssumption, AggregatorsAssumption DEF Messages

(* Initially no message has been sent.                                     *)
LEMMA VotesStart == VoteAggregatorInit => VotesInvariant
<1> SUFFICES ASSUME VoteAggregatorInit PROVE VotesInvariant
  BY Zenon
<1> USE DEF VoteAggregatorInit
<1>1. VotesTyped
  BY ThreadsDiffer DEF VotesTyped
<1>2. VotesMeet
  BY ThreadsDiffer DEF VotesMeet, OneCollectorPerView, Threads
<1>3. VotesFlow
  BY ThreadsDiffer DEF VotesFlow, InOnePlace, Nowhere
<1>. QED BY Zenon, <1>1, <1>2, <1>3 DEF VotesInvariant

(* A step of a thread that is not a sender, leaving queues, workers'       *)
(* messages and collectors as they are.                                    *)
LEMMA VotesFlowUnchanged ==
    ASSUME VotesInvariant, NEW t \in Threads \ Messages, NEW label, Goto(t, label),
           UNCHANGED <<queues, current, handedTo>>
    PROVE  VotesFlow' /\ VotesKept
<1>1. \A m \in Messages : pc'[m] = pc[m]
  BY Zenon DEF Goto, VotesInvariant, VotesTyped, Threads
<1>2. VotesKept
  BY Zenon DEF VotesKept
<1>3. VotesFlow'
  BY ZenonT(60), <1>1, ThreadsDiffer DEF VotesInvariant, VotesFlow, InOnePlace, Nowhere, queues
<1>. QED BY Zenon, <1>2, <1>3

(* AddVote and AddBlock.                                                   *)
LEMMA AddIsVotesStep ==
    ASSUME VotesInvariant, NEW m \in Messages,
           (m \in Votes /\ AddVote(m)) \/ (m \in Proposals /\ AddBlock(m))
    PROVE  VotesInvariant' /\ VotesKept
<1>1. /\ DOMAIN pc' = Threads /\ pc'[m] # "idle" /\ \A t \in Threads \ {m} : pc'[t] = pc[t]
      /\ UNCHANGED <<finalizedView, lowestRetainedView, lowestRetained, collectors, current, handedTo>>
      /\ pc[m] = "idle"
  BY Zenon DEF VotesInvariant, VotesTyped, AddVote, AddBlock, Goto, pruning, Threads
<1>2. VotesKept
  BY Zenon, <1>1 DEF VotesKept
<1>3. VotesMeet'
  BY ZenonT(60), <1>1, ThreadsDiffer DEF VotesInvariant, VotesMeet, OneCollectorPerView, Threads
<1>4. CASE m \in Votes /\ AddVote(m)
  <2>1. UNCHANGED queuedBlocks /\ queuedVotes' \in {queuedVotes, Append(queuedVotes, m)}
    BY Zenon, <1>4 DEF AddVote
  <2>2. /\ queuedVotes' \in Seq(Votes) /\ InOnePlace(queuedVotes', current, handedTo)
        /\ \A n \in Votes \ {m} : Nowhere(n, queuedVotes, current, handedTo)
                                     => Nowhere(n, queuedVotes', current, handedTo)
    <3>1. /\ Nowhere(m, queuedVotes, current, handedTo) /\ queuedVotes \in Seq(Votes)
          /\ InOnePlace(queuedVotes, current, handedTo)
      BY Zenon, <1>1, <1>4 DEF VotesInvariant, VotesTyped, VotesFlow
    <3>2. /\ Append(queuedVotes, m) \in Seq(Votes)
          /\ InOnePlace(Append(queuedVotes, m), current, handedTo)
          /\ \A n \in Votes : n # m /\ Nowhere(n, queuedVotes, current, handedTo)
                                 => Nowhere(n, Append(queuedVotes, m), current, handedTo)
      BY <1>4, <3>1, PushedIsInOnePlace, Zenon
    <3>. QED BY <2>1, <3>1, <3>2, Zenon
  <2>3. VotesTyped'
    BY Zenon, <1>1, <2>1, <2>2 DEF VotesInvariant, VotesTyped
  <2>4. VotesFlow'
    BY Zenon, <1>1, <1>4, <2>1, <2>2, ThreadsDiffer DEF VotesInvariant, VotesFlow, Threads
  <2>. QED BY Zenon, <1>2, <1>3, <2>3, <2>4 DEF VotesInvariant
<1>5. CASE m \in Proposals /\ AddBlock(m)
  <2>1. UNCHANGED queuedVotes /\ queuedBlocks' \in {queuedBlocks, Append(queuedBlocks, m)}
    BY Zenon, <1>5 DEF AddBlock
  <2>2. /\ queuedBlocks' \in Seq(Proposals) /\ InOnePlace(queuedBlocks', current, handedTo)
        /\ \A n \in Proposals \ {m} : Nowhere(n, queuedBlocks, current, handedTo)
                                         => Nowhere(n, queuedBlocks', current, handedTo)
    <3>1. /\ Nowhere(m, queuedBlocks, current, handedTo) /\ queuedBlocks \in Seq(Proposals)
          /\ InOnePlace(queuedBlocks, current, handedTo)
      BY Zenon, <1>1, <1>5 DEF VotesInvariant, VotesTyped, VotesFlow
    <3>2. /\ Append(queuedBlocks, m) \in Seq(Proposals)
          /\ InOnePlace(Append(queuedBlocks, m), current, handedTo)
          /\ \A n \in Proposals : n # m /\ Nowhere(n, queuedBlocks, current, handedTo)
                                 => Nowhere(n, Append(queuedBlocks, m), current, handedTo)
      BY <1>5, <3>1, PushedIsInOnePlace, Zenon
    <3>. QED BY <2>1, <3>1, <3>2, Zenon
  <2>3. VotesTyped'
    BY Zenon, <1>1, <2>1, <2>2 DEF VotesInvariant, VotesTyped
  <2>4. VotesFlow'
    BY Zenon, <1>1, <1>5, <2>1, <2>2, ThreadsDiffer DEF VotesInvariant, VotesFlow, Threads
  <2>. QED BY <1>2, <1>3, <2>3, <2>4 DEF VotesInvariant
<1>. QED BY Zenon, <1>4, <1>5

(* PopBlock: a worker takes a block.                                        *)
LEMMA PopBlockIsVotesStep ==
    ASSUME VotesInvariant, NEW w \in Workers, PopBlock(w)
    PROVE  VotesInvariant' /\ VotesKept
<1>1. /\ DOMAIN pc' = Threads /\ \A t \in Threads \ {w} : pc'[t] = pc[t]
      /\ UNCHANGED <<finalizedView, lowestRetainedView, lowestRetained, collectors, handedTo, queuedVotes>>
      /\ \/ pc'[w] \notin {"get", "create"} /\ UNCHANGED <<queuedBlocks, current>>
         \/ /\ queuedBlocks # <<>>
            /\ current' = [current EXCEPT ![w] = Head(queuedBlocks)]
            /\ queuedBlocks' = Tail(queuedBlocks)
  BY Zenon DEF VotesInvariant, VotesTyped, PopBlock, Goto, pruning, Threads
<1>2. VotesKept /\ \A m \in Messages : pc'[m] = pc[m]
  BY Zenon, <1>1, ThreadsDiffer DEF VotesKept, Threads
<1>3. CASE pc'[w] \notin {"get", "create"} /\ UNCHANGED <<queuedBlocks, current>>
  <2>1. VotesTyped'
    BY Zenon, <1>1, <1>3 DEF VotesInvariant, VotesTyped
  <2>2. VotesMeet'
    BY Zenon, <1>1, <1>3, ThreadsDiffer DEF VotesInvariant, VotesMeet, OneCollectorPerView, Threads
  <2>3. VotesFlow'
    BY Zenon, <1>1, <1>2, <1>3, ThreadsDiffer DEF VotesInvariant, VotesFlow, Threads
  <2>. QED BY Zenon, <1>2, <2>1, <2>2, <2>3 DEF VotesInvariant
<1>4. CASE /\ queuedBlocks # <<>>
           /\ current' = [current EXCEPT ![w] = Head(queuedBlocks)]
           /\ queuedBlocks' = Tail(queuedBlocks)
  <2> DEFINE m == Head(queuedBlocks)
  <2>1. /\ queuedBlocks \in Seq(Proposals) /\ InOnePlace(queuedBlocks, current, handedTo)
        /\ InOnePlace(queuedVotes, current, handedTo) /\ queuedVotes \in Seq(Votes)
        /\ current \in [Workers -> Messages \cup {Nil}]
        /\ queuedBlocks # <<>> /\ queuedBlocks' = Tail(queuedBlocks) /\ UNCHANGED <<queuedVotes, handedTo>>
    BY Zenon, <1>1, <1>4 DEF VotesInvariant, VotesTyped, VotesFlow
  <2>2. /\ current' \in [Workers -> Messages \cup {Nil}] /\ current'[w] = m
        /\ \A v \in Workers \ {w} : current'[v] = current[v]
    BY <1>4, <2>1 DEF Messages
  <2>3. /\ queuedBlocks' \in Seq(Proposals)
        /\ current'[w] \in Proposals /\ InOnePlace(queuedBlocks', current', handedTo)
        /\ \A n : Nowhere(n, queuedBlocks, current, handedTo)
                     => Nowhere(n, queuedBlocks', current', handedTo)
    BY <2>1, <2>2, PoppedIsInOnePlace
  <2>4. /\ m \in Proposals /\ m # Nil /\ 1 \in DOMAIN queuedBlocks /\ queuedBlocks[1] = m
        /\ \A i \in DOMAIN queuedVotes : queuedVotes[i] \in Votes
    BY <1>4, <2>1, ThreadsDiffer
  <2>5. /\ \A i \in DOMAIN queuedVotes : queuedVotes[i] # m
        /\ \A v \in Workers : current[v] # m
        /\ handedTo[m] = Nil
    BY ZenonT(60), <2>1, <2>4, ThreadsDiffer DEF InOnePlace
  <2>6. /\ InOnePlace(queuedVotes, current', handedTo)
        /\ \A n : n # m /\ Nowhere(n, queuedVotes, current, handedTo)
                     => Nowhere(n, queuedVotes, current', handedTo)
    BY ZenonT(60), <2>1, <2>5, <2>2, OthersStayInOnePlace
  <2>7. VotesTyped'
    BY Zenon, <1>1, <2>3, <2>2 DEF VotesInvariant, VotesTyped
  <2>8. VotesMeet'
    <3>1. \A v \in Workers \ {w} : current'[v] = current[v] /\ pc'[v] = pc[v]
      BY Zenon, <1>1, <2>2 DEF Threads
    <3>. QED BY Zenon, <1>1, <2>3, <3>1, ThreadsDiffer DEF VotesInvariant, VotesMeet, OneCollectorPerView
  <2>9. VotesFlow'
    <3>. HIDE DEF m
    <3>1. InOnePlace(queuedBlocks', current', handedTo') /\ InOnePlace(queuedVotes', current', handedTo')
      BY Zenon, <2>1, <2>3, <2>6
    <3>2. ASSUME NEW n \in Proposals, pc'[n] = "idle"
          PROVE  Nowhere(n, queuedBlocks', current', handedTo')
      BY Zenon, <1>2, <2>1, <2>3, <3>2, ThreadsDiffer DEF VotesInvariant, VotesFlow
    <3>3. ASSUME NEW n \in Votes, pc'[n] = "idle"
          PROVE  Nowhere(n, queuedVotes', current', handedTo')
      BY Zenon, <1>2, <2>1, <2>4, <2>6, <3>3, ThreadsDiffer DEF VotesInvariant, VotesFlow
    <3>. QED BY Zenon, <3>1, <3>2, <3>3 DEF VotesFlow
  <2>. QED BY <1>2, <2>7, <2>8, <2>9 DEF VotesInvariant
<1>. QED BY Zenon, <1>1, <1>3, <1>4

(* PopVote: a worker takes a vote.                                          *)
LEMMA PopVoteIsVotesStep ==
    ASSUME VotesInvariant, NEW w \in Workers, PopVote(w)
    PROVE  VotesInvariant' /\ VotesKept
<1>1. /\ DOMAIN pc' = Threads /\ \A t \in Threads \ {w} : pc'[t] = pc[t]
      /\ UNCHANGED <<finalizedView, lowestRetainedView, lowestRetained, collectors, handedTo, queuedBlocks>>
      /\ \/ pc'[w] \notin {"get", "create"} /\ UNCHANGED <<queuedVotes, current>>
         \/ /\ queuedVotes # <<>>
            /\ current' = [current EXCEPT ![w] = Head(queuedVotes)]
            /\ queuedVotes' = Tail(queuedVotes)
  BY Zenon DEF VotesInvariant, VotesTyped, PopVote, Goto, pruning, Threads
<1>2. VotesKept /\ \A m \in Messages : pc'[m] = pc[m]
  BY <1>1, ThreadsDiffer DEF VotesKept, Threads
<1>3. CASE pc'[w] \notin {"get", "create"} /\ UNCHANGED <<queuedVotes, current>>
  <2>1. VotesTyped'
    BY Zenon, <1>1, <1>3 DEF VotesInvariant, VotesTyped
  <2>2. VotesMeet'
    BY <1>1, <1>3, ThreadsDiffer DEF VotesInvariant, VotesMeet, OneCollectorPerView, Threads
  <2>3. VotesFlow'
    BY Zenon, <1>1, <1>2, <1>3, ThreadsDiffer DEF VotesInvariant, VotesFlow, Threads
  <2>. QED BY <1>2, <2>1, <2>2, <2>3 DEF VotesInvariant
<1>4. CASE /\ queuedVotes # <<>>
           /\ current' = [current EXCEPT ![w] = Head(queuedVotes)]
           /\ queuedVotes' = Tail(queuedVotes)
  <2> DEFINE m == Head(queuedVotes)
  <2>1. /\ queuedVotes \in Seq(Votes) /\ InOnePlace(queuedVotes, current, handedTo)
        /\ InOnePlace(queuedBlocks, current, handedTo) /\ queuedBlocks \in Seq(Proposals)
        /\ current \in [Workers -> Messages \cup {Nil}]
        /\ queuedVotes # <<>> /\ queuedVotes' = Tail(queuedVotes) /\ UNCHANGED <<queuedBlocks, handedTo>>
    BY Zenon, <1>1, <1>4 DEF VotesInvariant, VotesTyped, VotesFlow
  <2>2. /\ current' \in [Workers -> Messages \cup {Nil}] /\ current'[w] = m
        /\ \A v \in Workers \ {w} : current'[v] = current[v]
    BY <1>4, <2>1 DEF Messages
  <2>3. /\ queuedVotes' \in Seq(Votes)
        /\ current'[w] \in Votes /\ InOnePlace(queuedVotes', current', handedTo)
        /\ \A n : Nowhere(n, queuedVotes, current, handedTo)
                     => Nowhere(n, queuedVotes', current', handedTo)
    BY <2>1, <2>2, PoppedIsInOnePlace
  <2>4. /\ m \in Votes /\ m # Nil /\ 1 \in DOMAIN queuedVotes /\ queuedVotes[1] = m
        /\ \A i \in DOMAIN queuedBlocks : queuedBlocks[i] \in Proposals
    BY <1>4, <2>1, ThreadsDiffer
  <2>5. /\ \A i \in DOMAIN queuedBlocks : queuedBlocks[i] # m
        /\ \A v \in Workers : current[v] # m
        /\ handedTo[m] = Nil
    BY <2>1, <2>4, ThreadsDiffer DEF InOnePlace
  <2>6. /\ InOnePlace(queuedBlocks, current', handedTo)
        /\ \A n : n # m /\ Nowhere(n, queuedBlocks, current, handedTo)
                     => Nowhere(n, queuedBlocks, current', handedTo)
    BY SMTT(30), <2>1, <2>5, <2>2, OthersStayInOnePlace
  <2>7. VotesTyped'
    BY Zenon, <1>1, <2>3, <2>2 DEF VotesInvariant, VotesTyped
  <2>8. VotesMeet'
    <3>1. \A v \in Workers \ {w} : current'[v] = current[v] /\ pc'[v] = pc[v]
      BY <1>1, <2>2 DEF Threads
    <3>. QED BY Zenon, <1>1, <2>3, <3>1, ThreadsDiffer DEF VotesInvariant, VotesMeet, OneCollectorPerView
  <2>9. VotesFlow'
    <3>. HIDE DEF m
    <3>1. InOnePlace(queuedVotes', current', handedTo') /\ InOnePlace(queuedBlocks', current', handedTo')
      BY <2>1, <2>3, <2>6
    <3>2. ASSUME NEW n \in Votes, pc'[n] = "idle"
          PROVE  Nowhere(n, queuedVotes', current', handedTo')
      BY Zenon, <1>2, <2>1, <2>3, <3>2, ThreadsDiffer DEF VotesInvariant, VotesFlow
    <3>3. ASSUME NEW n \in Proposals, pc'[n] = "idle"
          PROVE  Nowhere(n, queuedBlocks', current', handedTo')
      BY ZenonT(60), <1>2, <2>1, <2>4, <2>6, <3>3, ThreadsDiffer DEF VotesInvariant, VotesFlow
    <3>. QED BY Zenon, <3>1, <3>2, <3>3 DEF VotesFlow
  <2>. QED BY <1>2, <2>7, <2>8, <2>9 DEF VotesInvariant
<1>. QED BY <1>1, <1>3, <1>4

(* A worker hands its message to the collector of the view, or drops it.   *)
LEMMA HandToIsVotesStep ==
    ASSUME VotesInvariant, NEW w \in Workers, pc[w] \in {"get", "create"},
           NEW collector \in Messages \cup {"pruned"}, HandTo(w, collector),
           UNCHANGED <<queues, pruning>>,
           collectors' \in [Views -> Messages \cup {Nil}],
           \A v \in Views : collectors[v] # Nil => collectors'[v] = collectors[v],
           \A v \in Views : collectors'[v] # Nil => View[collectors'[v]] = v,
           collector \in Messages => collectors'[View[current[w]]] = collector
    PROVE  VotesInvariant' /\ VotesKept
<1> DEFINE m == current[w]
           H == Messages \cup {Nil, "pruned"}
<1>1. /\ m \in Messages /\ View[m] \in Views
      /\ current \in [Workers -> Messages \cup {Nil}] /\ handedTo \in [Messages -> H]
      /\ collectors \in [Views -> Messages \cup {Nil}]
  BY Zenon, ThreadsDiffer DEF VotesInvariant, VotesTyped, VotesMeet
<1>2. /\ handedTo' \in [Messages -> H] /\ handedTo'[m] = collector
      /\ \A n \in Messages \ {m} : handedTo'[n] = handedTo[n]
      /\ current' \in [Workers -> Messages \cup {Nil}] /\ current'[w] = Nil
      /\ \A v \in Workers \ {w} : current'[v] = current[v]
  BY Zenon, <1>1 DEF HandTo
<1>3. /\ DOMAIN pc' = Threads /\ pc'[w] = "popBlock"
      /\ \A t \in Threads \ {w} : pc'[t] = pc[t]
      /\ \A n \in Messages : pc'[n] = pc[n]
  BY ThreadsDiffer DEF HandTo, Goto, Threads, VotesInvariant, VotesTyped
<1>4. ASSUME NEW Q \in SUBSET Messages, NEW queue \in Seq(Q), InOnePlace(queue, current, handedTo)
      PROVE  /\ handedTo[m] = Nil
             /\ InOnePlace(queue, current', handedTo')
             /\ \A n \in Messages : Nowhere(n, queue, current, handedTo)
                                       => Nowhere(n, queue, current', handedTo')
  BY SMTT(30), <1>1, <1>2, <1>4, ThreadsDiffer, HandedIsInOnePlace
<1>. HIDE DEF m, H
<1>5. /\ queuedVotes \in Seq(Votes) /\ queuedBlocks \in Seq(Proposals)
      /\ Votes \in SUBSET Messages /\ Proposals \in SUBSET Messages
      /\ UNCHANGED <<queuedVotes, queuedBlocks, finalizedView, lowestRetainedView, lowestRetained>>
  BY Zenon DEF VotesInvariant, VotesTyped, Messages, queues, pruning
<1>6. VotesFlow' /\ handedTo[m] = Nil
  <2>1. /\ InOnePlace(queuedVotes, current, handedTo)
        /\ InOnePlace(queuedBlocks, current, handedTo)
    BY Zenon DEF VotesInvariant, VotesFlow
  <2>2. /\ handedTo[m] = Nil
        /\ InOnePlace(queuedVotes, current', handedTo')
        /\ \A n \in Messages : Nowhere(n, queuedVotes, current, handedTo)
                                  => Nowhere(n, queuedVotes, current', handedTo')
    BY Zenon, <1>4, <1>5, <2>1
  <2>3. /\ InOnePlace(queuedBlocks, current', handedTo')
        /\ \A n \in Messages : Nowhere(n, queuedBlocks, current, handedTo)
                                  => Nowhere(n, queuedBlocks, current', handedTo')
    BY Zenon, <1>4, <1>5, <2>1
  <2>. QED BY Zenon, <1>3, <1>5, <2>2, <2>3 DEF VotesInvariant, VotesFlow
<1>7. VotesKept
  BY Zenon, <1>2, <1>6 DEF VotesKept
<1>8. VotesTyped'
  BY Zenon, <1>2, <1>3, <1>5 DEF VotesInvariant, VotesTyped, H
<1>9. VotesMeet'
  <2>1. /\ lowestRetained' <= lowestRetainedView'
        /\ \A v \in Workers : pc'[v] \in {"get", "create"} => current'[v] \in Messages
    BY Zenon, <1>2, <1>3, <1>5 DEF VotesInvariant, VotesMeet, Threads
  <2>2. ASSUME NEW n \in Messages, handedTo'[n] \in Messages, View[n] >= lowestRetained
        PROVE  collectors'[View[n]] = handedTo'[n]
    <3>1. CASE n = m
      BY Zenon, <1>2, <2>2, <3>1 DEF m
    <3>2. CASE n # m
      BY ZenonT(60), <1>2, <2>2, <3>2, ThreadsDiffer DEF VotesInvariant, VotesMeet, OneCollectorPerView
    <3>. QED BY Zenon, <3>1, <3>2
  <2>. QED BY Zenon, <1>5, <2>1, <2>2 DEF VotesMeet, OneCollectorPerView
<1>. QED BY Zenon, <1>6, <1>7, <1>8, <1>9 DEF VotesInvariant

(* getCollector and createCollector: another worker may have created the   *)
(* collector between the two.                                              *)
LEMMA CollectorIsVotesStep ==
    ASSUME VotesInvariant, NEW w \in Workers, getCollector(w) \/ createCollector(w)
    PROVE  VotesInvariant' /\ VotesKept
<1> DEFINE m     == current[w]
           found == collectors[View[m]]
<1>1. /\ pc[w] \in {"get", "create"} /\ UNCHANGED <<queues, pruning>>
      /\ m \in Messages /\ View[m] \in Views
      /\ collectors \in [Views -> Messages \cup {Nil}]
      /\ \A v \in Views : collectors[v] # Nil => View[collectors[v]] = v
  BY Zenon, ThreadsDiffer DEF VotesInvariant, VotesTyped, VotesMeet, getCollector, createCollector
<1>2. CASE UNCHANGED collectors /\ (HandTo(w, "pruned") \/ (found # Nil /\ HandTo(w, found)))
  BY Zenon, <1>1, <1>2, ThreadsDiffer, HandToIsVotesStep
<1>3. CASE UNCHANGED <<collectors, current, handedTo>> /\ Goto(w, "create")
  <2>1. VotesFlow' /\ VotesKept
    BY Zenon, <1>1, <1>3, VotesFlowUnchanged, ThreadsDiffer DEF Threads
  <2>2. VotesTyped'
    BY Zenon, <1>1, <1>3 DEF VotesInvariant, VotesTyped, Goto, queues, pruning
  <2>3. VotesMeet'
    BY Zenon, <1>1, <1>3 DEF VotesInvariant, VotesTyped, VotesMeet, Goto, queues, pruning,
       OneCollectorPerView, Threads
  <2>. QED BY Zenon, <2>1, <2>2, <2>3 DEF VotesInvariant
<1>4. CASE found = Nil /\ collectors' = [collectors EXCEPT ![View[m]] = m] /\ HandTo(w, m)
  <2>1. /\ collectors' \in [Views -> Messages \cup {Nil}] /\ collectors'[View[m]] = m
        /\ \A v \in Views \ {View[m]} : collectors'[v] = collectors[v]
    BY Zenon, <1>1, <1>4
  <2>. QED BY Zenon, <1>1, <1>4, <2>1, HandToIsVotesStep
<1>5. CASE found # Nil /\ UNCHANGED collectors /\ HandTo(w, found)
  BY Zenon, <1>2, <1>5
<1>. QED BY Zenon, <1>2, <1>3, <1>4, <1>5 DEF getCollector, createCollector

(* The steps by which nothing moves between queues, workers and collectors *)
(* and no threshold changes: notifications and finalization events.        *)
LEMMA NotifyIsVotesStep ==
    ASSUME VotesInvariant, NEW t \in Threads, NEW label,
           Goto(t, label), label \notin {"idle", "get", "create"} \/ t \notin Messages \cup Workers,
           finalizedView' \in Nat,
           UNCHANGED <<queues, lowestRetainedView, lowestRetained, collectors, current, handedTo>>
    PROVE  VotesInvariant' /\ VotesKept
<1>1. /\ DOMAIN pc' = Threads
      /\ \A m \in Messages : pc'[m] = "idle" => pc[m] = "idle"
      /\ \A w \in Workers : pc'[w] \in {"get", "create"} => pc[w] \in {"get", "create"}
  BY Zenon DEF VotesInvariant, VotesTyped, Goto, Threads
<1>2. VotesTyped'
  BY Zenon, <1>1 DEF VotesInvariant, VotesTyped, queues
<1>3. VotesMeet'
  BY Zenon, <1>1 DEF VotesInvariant, VotesMeet, OneCollectorPerView
<1>4. VotesFlow'
  BY Zenon, <1>1, ThreadsDiffer DEF VotesInvariant, VotesFlow, queues
<1>5. VotesKept
  BY Zenon DEF VotesKept
<1>. QED BY Zenon, <1>2, <1>3, <1>4, <1>5 DEF VotesInvariant

(* SetLowestRetainedView and PruneUpToView: only collectors of views that  *)
(* are below the new threshold are removed.                                *)
LEMMA PruneIsVotesStep ==
    ASSUME VotesInvariant, SetLowestRetainedView \/ PruneUpToView
    PROVE  VotesInvariant' /\ VotesKept
<1>1. /\ "pruner" \in Threads \ Messages
      /\ UNCHANGED <<queues, finalizedView, current, handedTo>>
      /\ \E label : Goto("pruner", label)
  BY Zenon, ThreadsDiffer DEF SetLowestRetainedView, PruneUpToView, Threads
<1>2. PICK label : Goto("pruner", label)
  BY Zenon, <1>1
<1>3. VotesFlow' /\ VotesKept
  BY Zenon, <1>1, <1>2, VotesFlowUnchanged
<1>4. DOMAIN pc' = Threads /\ \A w \in Workers : pc'[w] = pc[w]
  BY Zenon, <1>2, ThreadsDiffer DEF Goto, VotesInvariant, VotesTyped, Threads
<1>5. CASE SetLowestRetainedView
  <2>1. /\ lowestRetainedView' \in Nat /\ lowestRetainedView <= lowestRetainedView'
        /\ UNCHANGED <<lowestRetained, collectors>>
    BY <1>5 DEF SetLowestRetainedView, VotesInvariant, VotesTyped
  <2>2. VotesTyped'
    BY Zenon, <1>1, <1>4, <2>1 DEF VotesInvariant, VotesTyped, queues
  <2>3. VotesMeet'
    BY <1>1, <1>4, <2>1 DEF VotesInvariant, VotesMeet, VotesTyped, OneCollectorPerView
  <2>. QED BY Zenon, <1>3, <2>2, <2>3 DEF VotesInvariant
<1>6. CASE PruneUpToView
  <2>1. PICK first \in {0, lowestRetained} :
           collectors' = [v \in Views |-> IF v \in first .. lowestRetainedView - 1
                                             THEN Nil ELSE collectors[v]]
    BY Zenon, <1>6 DEF PruneUpToView
  <2>2. /\ lowestRetained' = lowestRetainedView /\ UNCHANGED lowestRetainedView
        /\ lowestRetainedView \in Nat /\ lowestRetained \in Nat
        /\ lowestRetained <= lowestRetainedView
    BY Zenon, <1>6 DEF PruneUpToView, VotesInvariant, VotesTyped, VotesMeet
  <2>3. /\ collectors' \in [Views -> Messages \cup {Nil}]
        /\ \A v \in Views : collectors'[v] \in {Nil, collectors[v]}
        /\ \A v \in Views : v >= lowestRetained' => collectors'[v] = collectors[v]
    BY <2>1, <2>2, ThreadsDiffer DEF VotesInvariant, VotesTyped
  <2>4. VotesTyped'
    BY Zenon, <1>1, <1>4, <2>2, <2>3 DEF VotesInvariant, VotesTyped, queues
  <2>5. VotesMeet'
    <3>1. ASSUME NEW m \in Messages, handedTo[m] \in Messages, View[m] >= lowestRetained'
          PROVE  collectors'[View[m]] = handedTo[m]
      <4>1. View[m] \in Views /\ View[m] \in Nat
        BY Zenon, ThreadsDiffer
      <4>2. View[m] >= lowestRetained
        BY <2>2, <3>1, <4>1
      <4>. QED BY Zenon, <2>3, <3>1, <4>1, <4>2 DEF VotesInvariant, VotesMeet, OneCollectorPerView
    <3>. QED BY <1>1, <1>4, <2>2, <2>3, <3>1 DEF VotesInvariant, VotesMeet, OneCollectorPerView
  <2>. QED BY Zenon, <1>3, <2>4, <2>5 DEF VotesInvariant
<1>. QED BY Zenon, <1>5, <1>6

(* Every step of the vote aggregator keeps its invariant.                  *)
LEMMA VotesInvariantStep ==
    ASSUME VotesInvariant, [VoteAggregatorNext]_vaVars
    PROVE  VotesInvariant' /\ VotesKept
<1>1. ASSUME NEW m \in Votes, AddVote(m) PROVE VotesInvariant' /\ VotesKept
  <2>1. m \in Messages
    BY Zenon DEF Messages
  <2>2. (m \in Votes /\ AddVote(m)) \/ (m \in Proposals /\ AddBlock(m))
    BY Zenon, <1>1
  <2>. QED BY Zenon, <2>1, <2>2, AddIsVotesStep
<1>2. ASSUME NEW m \in Proposals, AddBlock(m) PROVE VotesInvariant' /\ VotesKept
  <2>1. m \in Messages
    BY Zenon DEF Messages
  <2>2. (m \in Votes /\ AddVote(m)) \/ (m \in Proposals /\ AddBlock(m))
    BY Zenon, <1>2
  <2>. QED BY Zenon, <2>1, <2>2, AddIsVotesStep
<1>3. ASSUME NEW m \in Messages, Notify(m) PROVE VotesInvariant' /\ VotesKept
  <2>1. Goto(m, "sent") /\ finalizedView' \in Nat /\ m \in Threads
    BY Zenon, <1>3 DEF Notify, VotesInvariant, VotesTyped, pruning, Threads
  <2>2. UNCHANGED <<queues, lowestRetainedView, lowestRetained, collectors, current, handedTo>>
    BY Zenon, <1>3 DEF Notify, pruning
  <2>. QED BY Zenon, <2>1, <2>2, NotifyIsVotesStep
<1>4. ASSUME NEW w \in Workers, work(w) PROVE VotesInvariant' /\ VotesKept
  <2>1. CASE WakeUp(w)
    <3>1. Goto(w, "popBlock") /\ finalizedView' \in Nat /\ w \in Threads
      BY Zenon, <2>1 DEF WakeUp, VotesInvariant, VotesTyped, pruning, Threads
    <3>2. UNCHANGED <<queues, lowestRetainedView, lowestRetained, collectors, current, handedTo>>
      BY Zenon, <2>1 DEF WakeUp, pruning
    <3>. QED BY Zenon, <3>1, <3>2, NotifyIsVotesStep
  <2>. QED BY Zenon, <1>4, <2>1, PopBlockIsVotesStep, PopVoteIsVotesStep, CollectorIsVotesStep DEF work
<1>5. ASSUME NEW v \in Views, OnFinalizedBlock(v) PROVE VotesInvariant' /\ VotesKept
  <2>1. Goto("finalizer", "notify") /\ finalizedView' \in Nat /\ "finalizer" \in Threads
    BY Zenon, <1>5, ThreadsDiffer DEF OnFinalizedBlock, Threads
  <2>2. UNCHANGED <<queues, lowestRetainedView, lowestRetained, collectors, current, handedTo>>
    BY Zenon, <1>5 DEF OnFinalizedBlock
  <2>. QED BY Zenon, <2>1, <2>2, NotifyIsVotesStep
<1>6. ASSUME NotifyFinalized PROVE VotesInvariant' /\ VotesKept
  <2>1. /\ Goto("finalizer", "idle") /\ finalizedView' \in Nat /\ "finalizer" \in Threads
        /\ "finalizer" \notin Messages \cup Workers
    BY Zenon, <1>6, ThreadsDiffer DEF NotifyFinalized, Threads, VotesInvariant, VotesTyped
  <2>2. UNCHANGED <<queues, lowestRetainedView, lowestRetained, collectors, current, handedTo>>
    BY Zenon, <1>6 DEF NotifyFinalized
  <2>. QED BY Zenon, <2>1, <2>2, NotifyIsVotesStep
<1>7. ASSUME prune PROVE VotesInvariant' /\ VotesKept
  <2>1. CASE WakeUpPruning
    <3>1. Goto("pruner", "set") /\ finalizedView' \in Nat /\ "pruner" \in Threads
      BY Zenon, <2>1 DEF WakeUpPruning, Threads, VotesInvariant, VotesTyped
    <3>2. UNCHANGED <<queues, lowestRetainedView, lowestRetained, collectors, current, handedTo>>
      BY Zenon, <2>1 DEF WakeUpPruning
    <3>. QED BY Zenon, <3>1, <3>2, NotifyIsVotesStep
  <2>. QED BY Zenon, <1>7, <2>1, PruneIsVotesStep DEF prune
<1>8. CASE UNCHANGED vaVars
  <2>1. VotesKept
    BY Zenon, <1>8 DEF VotesKept, vaVars
  <2>2. VotesTyped'
    BY Zenon, <1>8 DEF vaVars, queues, pruning, VotesInvariant, VotesTyped
  <2>3. VotesMeet' /\ VotesFlow'
    BY Zenon, <1>8 DEF vaVars, queues, pruning, VotesInvariant, VotesMeet, VotesFlow, OneCollectorPerView
  <2>. QED BY Zenon, <2>1, <2>2, <2>3 DEF VotesInvariant
<1>. QED BY Zenon, <1>1, <1>2, <1>3, <1>4, <1>5, <1>6, <1>7, <1>8 DEF VoteAggregatorNext
-----------------------------------------------------------------------------
(***************************************************************************)
(* The timeout aggregator, by the same argument.                           *)
(***************************************************************************)
TimeoutsTyped ==
    /\ toQueue \in Seq(Timeouts)
    /\ toRetainedView \in Nat /\ toRetained \in Nat /\ toPruneTo \in Nat
    /\ toCollectors \in [Views -> Timeouts \cup {Nil}]
    /\ toCurrent \in [Workers -> Timeouts \cup {Nil}]
    /\ toHandedTo \in [Timeouts -> Timeouts \cup {Nil, "discarded"}]
    /\ DOMAIN toPc = TA!Threads

TimeoutsMeet ==
    /\ \A w \in Workers : toPc[w] \in {"get", "create"} => toCurrent[w] \in Timeouts
    /\ \A v \in Views : toCollectors[v] # Nil => TimeoutView[toCollectors[v]] = v
    /\ TA!OneTimeoutCollectorPerView

TimeoutsFlow ==
    /\ InOnePlace(toQueue, toCurrent, toHandedTo)
    /\ \A m \in Timeouts : toPc[m] = "idle" => Nowhere(m, toQueue, toCurrent, toHandedTo)

TimeoutsInvariant == TimeoutsTyped /\ TimeoutsMeet /\ TimeoutsFlow

\* The collector a timeout was handed to is not exchanged.
TimeoutsKept == \A m \in Timeouts : toHandedTo[m] # Nil => toHandedTo'[m] = toHandedTo[m]

(* The threads have different names.                                       *)
LEMMA TimeoutThreadsDiffer ==
    /\ Workers \cap (Timeouts \cup {"eventHandler", "pruner"}) = {}
    /\ Timeouts \cap {"eventHandler", "pruner"} = {}
    /\ Nil \notin Timeouts /\ "discarded" \notin Timeouts
    /\ Views \subseteq Nat /\ TimeoutView \in [Timeouts -> Views]
  BY Zenon, VoteAggregatorAssumption, AggregatorsAssumption

(* Initially no timeout has been sent.                                     *)
LEMMA TimeoutsStart == TA!TimeoutAggregatorInit => TimeoutsInvariant
<1> SUFFICES ASSUME TA!TimeoutAggregatorInit PROVE TimeoutsInvariant
  OBVIOUS
<1> USE DEF TA!TimeoutAggregatorInit
<1>1. TimeoutsTyped
  BY DEF TimeoutsTyped
<1>2. TimeoutsMeet
  BY Zenon, TimeoutThreadsDiffer DEF TimeoutsMeet, TA!OneTimeoutCollectorPerView, TA!Threads
<1>3. TimeoutsFlow
  BY TimeoutThreadsDiffer DEF TimeoutsFlow, InOnePlace, Nowhere
<1>. QED BY Zenon, <1>1, <1>2, <1>3 DEF TimeoutsInvariant

(* AddTimeout.                                                             *)
LEMMA AddIsTimeoutsStep ==
    ASSUME TimeoutsInvariant, NEW m \in Timeouts, TA!AddTimeout(m)
    PROVE  TimeoutsInvariant' /\ TimeoutsKept
<1>1. /\ DOMAIN toPc' = TA!Threads /\ toPc'[m] # "idle"
      /\ \A t \in TA!Threads \ {m} : toPc'[t] = toPc[t]
      /\ UNCHANGED <<toRetainedView, toRetained, toPruneTo, toCollectors, toCurrent, toHandedTo>>
      /\ toPc[m] = "idle"
  BY Zenon DEF TimeoutsInvariant, TimeoutsTyped, TA!AddTimeout, TA!Goto, TA!pruning, TA!Threads
<1>2. TimeoutsKept
  BY Zenon, <1>1 DEF TimeoutsKept
<1>3. TimeoutsMeet'
  BY Zenon, <1>1, TimeoutThreadsDiffer DEF TimeoutsInvariant, TimeoutsMeet,
     TA!OneTimeoutCollectorPerView, TA!Threads
<1>4. toQueue' \in {toQueue, Append(toQueue, m)}
  BY Zenon DEF TA!AddTimeout
<1>5. /\ toQueue' \in Seq(Timeouts) /\ InOnePlace(toQueue', toCurrent, toHandedTo)
      /\ \A n \in Timeouts \ {m} : Nowhere(n, toQueue, toCurrent, toHandedTo)
                                      => Nowhere(n, toQueue', toCurrent, toHandedTo)
  <2>1. /\ Nowhere(m, toQueue, toCurrent, toHandedTo) /\ toQueue \in Seq(Timeouts)
        /\ InOnePlace(toQueue, toCurrent, toHandedTo)
    BY Zenon, <1>1 DEF TimeoutsInvariant, TimeoutsTyped, TimeoutsFlow
  <2>2. /\ Append(toQueue, m) \in Seq(Timeouts)
        /\ InOnePlace(Append(toQueue, m), toCurrent, toHandedTo)
        /\ \A n \in Timeouts : n # m /\ Nowhere(n, toQueue, toCurrent, toHandedTo)
                                  => Nowhere(n, Append(toQueue, m), toCurrent, toHandedTo)
    BY Zenon, <2>1, PushedIsInOnePlace
  <2>. QED BY Zenon, <1>4, <2>1, <2>2
<1>6. TimeoutsTyped'
  BY Zenon, <1>1, <1>5 DEF TimeoutsInvariant, TimeoutsTyped
<1>7. TimeoutsFlow'
  BY Zenon, <1>1, <1>5 DEF TimeoutsInvariant, TimeoutsFlow, TA!Threads
<1>. QED BY Zenon, <1>2, <1>3, <1>6, <1>7 DEF TimeoutsInvariant

(* Pop: a worker takes a timeout.                                          *)
LEMMA PopIsTimeoutsStep ==
    ASSUME TimeoutsInvariant, NEW w \in Workers, TA!Pop(w)
    PROVE  TimeoutsInvariant' /\ TimeoutsKept
<1>1. /\ DOMAIN toPc' = TA!Threads /\ \A t \in TA!Threads \ {w} : toPc'[t] = toPc[t]
      /\ UNCHANGED <<toRetainedView, toRetained, toPruneTo, toCollectors, toHandedTo>>
  BY Zenon DEF TimeoutsInvariant, TimeoutsTyped, TA!Pop, TA!Goto, TA!pruning, TA!Threads
<1>2. \/ toPc'[w] \notin {"get", "create"} /\ UNCHANGED <<toQueue, toCurrent>>
      \/ /\ toQueue # <<>>
         /\ toCurrent' = [toCurrent EXCEPT ![w] = Head(toQueue)]
         /\ toQueue' = Tail(toQueue)
  BY Zenon DEF TimeoutsInvariant, TimeoutsTyped, TA!Pop, TA!Goto, TA!Threads
<1>3. TimeoutsKept /\ \A m \in Timeouts : toPc'[m] = toPc[m]
  BY Zenon, <1>1, TimeoutThreadsDiffer DEF TimeoutsKept, TA!Threads
<1>4. CASE toPc'[w] \notin {"get", "create"} /\ UNCHANGED <<toQueue, toCurrent>>
  <2>1. TimeoutsTyped'
    BY Zenon, <1>1, <1>4 DEF TimeoutsInvariant, TimeoutsTyped
  <2>2. TimeoutsMeet'
    BY Zenon, <1>1, <1>4 DEF TimeoutsInvariant, TimeoutsMeet, TA!OneTimeoutCollectorPerView, TA!Threads
  <2>3. TimeoutsFlow'
    BY Zenon, <1>1, <1>3, <1>4 DEF TimeoutsInvariant, TimeoutsFlow
  <2>. QED BY Zenon, <1>3, <2>1, <2>2, <2>3 DEF TimeoutsInvariant
<1>5. CASE /\ toQueue # <<>>
           /\ toCurrent' = [toCurrent EXCEPT ![w] = Head(toQueue)]
           /\ toQueue' = Tail(toQueue)
  <2>1. /\ toQueue \in Seq(Timeouts) /\ InOnePlace(toQueue, toCurrent, toHandedTo)
        /\ toCurrent \in [Workers -> Timeouts \cup {Nil}]
        /\ toQueue # <<>> /\ toQueue' = Tail(toQueue) /\ UNCHANGED toHandedTo
    BY Zenon, <1>1, <1>5 DEF TimeoutsInvariant, TimeoutsTyped, TimeoutsFlow
  <2>2. /\ toCurrent' \in [Workers -> Timeouts \cup {Nil}] /\ toCurrent'[w] = Head(toQueue)
        /\ \A v \in Workers \ {w} : toCurrent'[v] = toCurrent[v]
    BY <1>5, <2>1
  <2>3. /\ toQueue' \in Seq(Timeouts) /\ toCurrent'[w] \in Timeouts
        /\ InOnePlace(toQueue', toCurrent', toHandedTo)
        /\ \A n : Nowhere(n, toQueue, toCurrent, toHandedTo)
                     => Nowhere(n, toQueue', toCurrent', toHandedTo)
    BY <2>1, <2>2, PoppedIsInOnePlace
  <2>4. TimeoutsTyped'
    BY Zenon, <1>1, <2>2, <2>3 DEF TimeoutsInvariant, TimeoutsTyped
  <2>5. TimeoutsMeet'
    <3>1. \A v \in Workers \ {w} : toCurrent'[v] = toCurrent[v] /\ toPc'[v] = toPc[v]
      BY Zenon, <1>1, <2>2 DEF TA!Threads
    <3>. QED BY Zenon, <1>1, <2>3, <3>1 DEF TimeoutsInvariant, TimeoutsMeet, TA!OneTimeoutCollectorPerView
  <2>6. TimeoutsFlow'
    <3>1. ASSUME NEW n \in Timeouts, toPc'[n] = "idle"
          PROVE  Nowhere(n, toQueue', toCurrent', toHandedTo')
      BY Zenon, <1>3, <2>1, <2>3, <3>1 DEF TimeoutsInvariant, TimeoutsFlow
    <3>2. InOnePlace(toQueue', toCurrent', toHandedTo')
      BY Zenon, <2>1, <2>3
    <3>. QED BY Zenon, <3>1, <3>2 DEF TimeoutsFlow
  <2>. QED BY <1>3, <2>4, <2>5, <2>6 DEF TimeoutsInvariant
<1>. QED BY Zenon, <1>2, <1>4, <1>5

(* A worker hands its timeout to the collector of the view, or drops it.   *)
LEMMA HandToIsTimeoutsStep ==
    ASSUME TimeoutsInvariant, NEW w \in Workers, toPc[w] \in {"get", "create"},
           NEW collector \in Timeouts \cup {"discarded"}, TA!HandTo(w, collector),
           UNCHANGED <<toQueue, TA!pruning>>,
           toCollectors' \in [Views -> Timeouts \cup {Nil}],
           \A v \in Views : toCollectors[v] # Nil => toCollectors'[v] = toCollectors[v],
           \A v \in Views : toCollectors'[v] # Nil => TimeoutView[toCollectors'[v]] = v,
           collector \in Timeouts => toCollectors'[TimeoutView[toCurrent[w]]] = collector
    PROVE  TimeoutsInvariant' /\ TimeoutsKept
<1> DEFINE m == toCurrent[w]
           H == Timeouts \cup {Nil, "discarded"}
<1>1. /\ m \in Timeouts /\ TimeoutView[m] \in Views
      /\ toCurrent \in [Workers -> Timeouts \cup {Nil}] /\ toHandedTo \in [Timeouts -> H]
      /\ toCollectors \in [Views -> Timeouts \cup {Nil}]
  BY Zenon, TimeoutThreadsDiffer DEF TimeoutsInvariant, TimeoutsTyped, TimeoutsMeet
<1>2. /\ toHandedTo' \in [Timeouts -> H] /\ toHandedTo'[m] = collector
      /\ \A n \in Timeouts \ {m} : toHandedTo'[n] = toHandedTo[n]
      /\ toCurrent' \in [Workers -> Timeouts \cup {Nil}] /\ toCurrent'[w] = Nil
      /\ \A v \in Workers \ {w} : toCurrent'[v] = toCurrent[v]
  BY Zenon, <1>1 DEF TA!HandTo
<1>3. /\ DOMAIN toPc' = TA!Threads /\ toPc'[w] = "pop"
      /\ \A t \in TA!Threads \ {w} : toPc'[t] = toPc[t]
      /\ \A n \in Timeouts : toPc'[n] = toPc[n]
  BY ZenonT(60), TimeoutThreadsDiffer DEF TA!HandTo, TA!Goto, TA!Threads, TimeoutsInvariant, TimeoutsTyped
<1>4. /\ toQueue \in Seq(Timeouts) /\ InOnePlace(toQueue, toCurrent, toHandedTo)
      /\ UNCHANGED <<toQueue, toRetainedView, toRetained, toPruneTo>>
  BY Zenon DEF TimeoutsInvariant, TimeoutsTyped, TimeoutsFlow, TA!pruning
<1>5. /\ toHandedTo[m] = Nil
      /\ InOnePlace(toQueue, toCurrent', toHandedTo')
      /\ \A n \in Timeouts : Nowhere(n, toQueue, toCurrent, toHandedTo)
                                => Nowhere(n, toQueue, toCurrent', toHandedTo')
  <2>1. Timeouts \in SUBSET Timeouts
    BY Zenon
  <2>. QED BY SMTT(30), <1>1, <1>2, <1>4, <2>1, TimeoutThreadsDiffer, HandedIsInOnePlace
<1>. HIDE DEF m, H
<1>6. TimeoutsFlow'
  BY ZenonT(30), <1>3, <1>4, <1>5 DEF TimeoutsInvariant, TimeoutsFlow
<1>7. TimeoutsKept
  BY Zenon, <1>2, <1>5 DEF TimeoutsKept
<1>8. TimeoutsTyped'
  BY Zenon, <1>2, <1>3, <1>4 DEF TimeoutsInvariant, TimeoutsTyped, H
<1>9. TimeoutsMeet'
  <2>1. \A v \in Workers : toPc'[v] \in {"get", "create"} => toCurrent'[v] \in Timeouts
    BY ZenonT(30), <1>2, <1>3 DEF TimeoutsInvariant, TimeoutsMeet, TA!Threads
  <2>2. ASSUME NEW n \in Timeouts, toHandedTo'[n] \in Timeouts, TimeoutView[n] >= toRetained
        PROVE  toCollectors'[TimeoutView[n]] = toHandedTo'[n]
    <3>1. CASE n = m
      BY Zenon, <1>2, <2>2, <3>1 DEF m
    <3>2. CASE n # m
      BY ZenonT(30), <1>2, <2>2, <3>2, TimeoutThreadsDiffer DEF TimeoutsInvariant, TimeoutsMeet,
         TA!OneTimeoutCollectorPerView
    <3>. QED BY ZenonT(30), <3>1, <3>2
  <2>. QED BY ZenonT(30), <1>4, <2>1, <2>2 DEF TimeoutsMeet, TA!OneTimeoutCollectorPerView
<1>. QED BY Zenon, <1>6, <1>7, <1>8, <1>9 DEF TimeoutsInvariant

(* The steps by which no timeout moves.                                    *)
LEMMA NotifyIsTimeoutsStep ==
    ASSUME TimeoutsInvariant, NEW t \in TA!Threads, NEW label, TA!Goto(t, label),
           label \notin {"idle", "get", "create"} \/ t \notin Timeouts \cup Workers,
           toRetainedView' \in Nat, toPruneTo' \in Nat,
           UNCHANGED <<toQueue, toRetained, toCollectors, toCurrent, toHandedTo>>
    PROVE  TimeoutsInvariant' /\ TimeoutsKept
<1>1. /\ DOMAIN toPc' = TA!Threads
      /\ \A m \in Timeouts : toPc'[m] = "idle" => toPc[m] = "idle"
      /\ \A w \in Workers : toPc'[w] \in {"get", "create"} => toPc[w] \in {"get", "create"}
  BY Zenon DEF TimeoutsInvariant, TimeoutsTyped, TA!Goto, TA!Threads
<1>2. TimeoutsTyped'
  BY Zenon, <1>1 DEF TimeoutsInvariant, TimeoutsTyped
<1>3. TimeoutsMeet'
  BY Zenon, <1>1 DEF TimeoutsInvariant, TimeoutsMeet, TA!OneTimeoutCollectorPerView
<1>4. TimeoutsFlow'
  BY Zenon, <1>1 DEF TimeoutsInvariant, TimeoutsFlow
<1>5. TimeoutsKept
  BY Zenon DEF TimeoutsKept
<1>. QED BY Zenon, <1>2, <1>3, <1>4, <1>5 DEF TimeoutsInvariant

(* getCollector and createCollector.                                       *)
LEMMA CollectorIsTimeoutsStep ==
    ASSUME TimeoutsInvariant, NEW w \in Workers, TA!getCollector(w) \/ TA!createCollector(w)
    PROVE  TimeoutsInvariant' /\ TimeoutsKept
<1> DEFINE m     == toCurrent[w]
           found == toCollectors[TimeoutView[m]]
<1>1. /\ toPc[w] \in {"get", "create"} /\ UNCHANGED <<toQueue, TA!pruning>>
      /\ m \in Timeouts /\ TimeoutView[m] \in Views
      /\ toCollectors \in [Views -> Timeouts \cup {Nil}]
      /\ \A v \in Views : toCollectors[v] # Nil => TimeoutView[toCollectors[v]] = v
  BY Zenon, TimeoutThreadsDiffer DEF TimeoutsInvariant, TimeoutsTyped, TimeoutsMeet,
     TA!getCollector, TA!createCollector
<1>2. CASE UNCHANGED toCollectors /\ TA!HandTo(w, "discarded")
  BY Zenon, <1>1, <1>2, TimeoutThreadsDiffer, HandToIsTimeoutsStep
<1>3. CASE UNCHANGED toCollectors /\ found # Nil /\ TA!HandTo(w, found)
  BY Zenon, <1>1, <1>3, HandToIsTimeoutsStep
<1>4. CASE UNCHANGED <<toCollectors, toCurrent, toHandedTo>> /\ TA!Goto(w, "create")
  <2>1. /\ DOMAIN toPc' = TA!Threads /\ \A n \in Timeouts : toPc'[n] = toPc[n]
        /\ \A v \in Workers : toPc'[v] \in {"get", "create"} => toPc[v] \in {"get", "create"}
        /\ UNCHANGED <<toQueue, toRetainedView, toRetained, toPruneTo>>
    BY Zenon, <1>1, <1>4, TimeoutThreadsDiffer DEF TimeoutsInvariant, TimeoutsTyped, TA!Goto,
       TA!Threads, TA!pruning
  <2>2. TimeoutsTyped' /\ TimeoutsKept
    BY Zenon, <1>4, <2>1 DEF TimeoutsInvariant, TimeoutsTyped, TimeoutsKept
  <2>3. TimeoutsMeet'
    BY Zenon, <1>4, <2>1 DEF TimeoutsInvariant, TimeoutsMeet, TA!OneTimeoutCollectorPerView
  <2>4. TimeoutsFlow'
    BY Zenon, <1>4, <2>1 DEF TimeoutsInvariant, TimeoutsFlow
  <2>. QED BY Zenon, <2>2, <2>3, <2>4 DEF TimeoutsInvariant
<1>5. CASE found = Nil /\ toCollectors' = [toCollectors EXCEPT ![TimeoutView[m]] = m] /\ TA!HandTo(w, m)
  <2>1. /\ toCollectors' \in [Views -> Timeouts \cup {Nil}] /\ toCollectors'[TimeoutView[m]] = m
        /\ \A v \in Views \ {TimeoutView[m]} : toCollectors'[v] = toCollectors[v]
    BY Zenon, <1>1, <1>5
  <2>. QED BY Zenon, <1>1, <1>5, <2>1, HandToIsTimeoutsStep
<1>. QED BY Zenon, <1>2, <1>3, <1>4, <1>5 DEF TA!getCollector, TA!createCollector

(* PruneUpToView.                                                          *)
LEMMA PruneIsTimeoutsStep ==
    ASSUME TimeoutsInvariant, TA!PruneUpToView
    PROVE  TimeoutsInvariant' /\ TimeoutsKept
<1>1. /\ UNCHANGED <<toQueue, toRetainedView, toPruneTo, toCurrent, toHandedTo>>
      /\ TA!Goto("pruner", "wait")
  BY Zenon DEF TA!PruneUpToView
<1>2. /\ DOMAIN toPc' = TA!Threads /\ \A w \in Workers : toPc'[w] = toPc[w]
      /\ \A m \in Timeouts : toPc'[m] = toPc[m]
  BY Zenon, <1>1, TimeoutThreadsDiffer DEF TA!Goto, TA!Threads, TimeoutsInvariant, TimeoutsTyped
<1>3. PICK first \in {0, toRetained} :
         toCollectors' = [v \in Views |-> IF v \in first .. toPruneTo - 1
                                             THEN Nil ELSE toCollectors[v]]
  BY Zenon DEF TA!PruneUpToView
<1>4. /\ toRetained \in Nat /\ toPruneTo \in Nat /\ toRetained' \in Nat
      /\ toRetained <= toRetained' /\ toPruneTo <= toRetained'
  BY DEF TA!PruneUpToView, TimeoutsInvariant, TimeoutsTyped
<1>5. /\ toCollectors' \in [Views -> Timeouts \cup {Nil}]
      /\ \A v \in Views : toCollectors'[v] \in {Nil, toCollectors[v]}
      /\ \A v \in Views : v >= toRetained' => toCollectors'[v] = toCollectors[v]
  BY <1>3, <1>4, TimeoutThreadsDiffer DEF TimeoutsInvariant, TimeoutsTyped
<1>6. TimeoutsTyped' /\ TimeoutsKept
  BY Zenon, <1>1, <1>2, <1>4, <1>5 DEF TimeoutsInvariant, TimeoutsTyped, TimeoutsKept
<1>7. TimeoutsMeet'
  <2>1. ASSUME NEW m \in Timeouts, toHandedTo[m] \in Timeouts, TimeoutView[m] >= toRetained'
        PROVE  toCollectors'[TimeoutView[m]] = toHandedTo[m]
    <3>1. TimeoutView[m] \in Views /\ TimeoutView[m] \in Nat
      BY Zenon, TimeoutThreadsDiffer
    <3>2. TimeoutView[m] >= toRetained
      BY <1>4, <2>1, <3>1
    <3>. QED BY Zenon, <1>5, <2>1, <3>1, <3>2 DEF TimeoutsInvariant, TimeoutsMeet,
                TA!OneTimeoutCollectorPerView
  <2>. QED BY Zenon, <1>1, <1>2, <1>5, <2>1 DEF TimeoutsInvariant, TimeoutsMeet,
              TA!OneTimeoutCollectorPerView
<1>8. TimeoutsFlow'
  BY Zenon, <1>1, <1>2 DEF TimeoutsInvariant, TimeoutsFlow
<1>. QED BY Zenon, <1>6, <1>7, <1>8 DEF TimeoutsInvariant

(* Every step of the timeout aggregator keeps its invariant.               *)
LEMMA TimeoutsInvariantStep ==
    ASSUME TimeoutsInvariant, TA!TimeoutAggregatorNext \/ UNCHANGED toVars
    PROVE  TimeoutsInvariant' /\ TimeoutsKept
<1>1. ASSUME NEW m \in Timeouts, TA!AddTimeout(m) PROVE TimeoutsInvariant' /\ TimeoutsKept
  BY Zenon, <1>1, AddIsTimeoutsStep
<1>2. ASSUME NEW t \in TA!Threads, NEW label, TA!Goto(t, label),
             label \notin {"idle", "get", "create"} \/ t \notin Timeouts \cup Workers,
             toRetainedView' \in Nat, UNCHANGED <<toQueue, toRetained, toCollectors, toCurrent, toHandedTo>>,
             toPruneTo' \in {toPruneTo, toRetainedView}
      PROVE  TimeoutsInvariant' /\ TimeoutsKept
  <2>1. toPruneTo' \in Nat
    BY Zenon, <1>2 DEF TimeoutsInvariant, TimeoutsTyped
  <2>. QED BY Zenon, <1>2, <2>1, NotifyIsTimeoutsStep
<1>3. toRetainedView \in Nat /\ "eventHandler" \notin Timeouts \cup Workers
  BY Zenon, TimeoutThreadsDiffer DEF TimeoutsInvariant, TimeoutsTyped
<1>4. ASSUME NEW m \in Timeouts, TA!NotifyTimeout(m) PROVE TimeoutsInvariant' /\ TimeoutsKept
  BY Zenon, <1>2, <1>3, <1>4 DEF TA!NotifyTimeout, TA!Threads, TA!pruning
<1>5. ASSUME NEW w \in Workers, TA!work(w) PROVE TimeoutsInvariant' /\ TimeoutsKept
  <2>1. CASE TA!WakeUp(w)
    BY Zenon, <1>2, <1>3, <2>1 DEF TA!WakeUp, TA!Threads, TA!pruning
  <2>. QED BY Zenon, <1>5, <2>1, PopIsTimeoutsStep, CollectorIsTimeoutsStep DEF TA!work
<1>6. ASSUME NEW v \in Views, TA!OnViewChange(v) PROVE TimeoutsInvariant' /\ TimeoutsKept
  BY Zenon, <1>2, <1>6, TimeoutThreadsDiffer DEF TA!OnViewChange, TA!Threads
<1>7. ASSUME TA!NotifyEnteringView PROVE TimeoutsInvariant' /\ TimeoutsKept
  BY Zenon, <1>2, <1>3, <1>7 DEF TA!NotifyEnteringView, TA!Threads
<1>8. ASSUME TA!prune PROVE TimeoutsInvariant' /\ TimeoutsKept
  <2>1. CASE TA!WakeUpPruning
    BY Zenon, <1>2, <1>3, <2>1 DEF TA!WakeUpPruning, TA!Threads
  <2>2. CASE TA!ReadLowestRetainedView
    BY Zenon, <1>2, <1>3, <2>2 DEF TA!ReadLowestRetainedView, TA!Threads
  <2>. QED BY Zenon, <1>8, <2>1, <2>2, PruneIsTimeoutsStep DEF TA!prune
<1>9. CASE UNCHANGED toVars
  <2>1. TimeoutsTyped' /\ TimeoutsKept
    BY Zenon, <1>9 DEF TimeoutsKept, toVars, TimeoutsInvariant, TimeoutsTyped
  <2>2. TimeoutsMeet' /\ TimeoutsFlow'
    BY Zenon, <1>9 DEF toVars, TimeoutsInvariant, TimeoutsMeet, TimeoutsFlow, TA!OneTimeoutCollectorPerView
  <2>. QED BY Zenon, <2>1, <2>2 DEF TimeoutsInvariant
<1>. QED BY Zenon, <1>1, <1>4, <1>5, <1>6, <1>7, <1>8, <1>9 DEF TA!TimeoutAggregatorNext
-----------------------------------------------------------------------------
(* What both aggregators maintain, whatever the order of their steps.      *)
LEMMA AggregatorsStep ==
    ASSUME VotesInvariant, TimeoutsInvariant, [VotesStep \/ TimeoutsStep]_<<vaVars, toVars>>
    PROVE  VotesInvariant' /\ TimeoutsInvariant' /\ VotesKept /\ TimeoutsKept
<1>1. [VoteAggregatorNext]_vaVars
  BY Zenon DEF VotesStep, TimeoutsStep
<1>2. TA!TimeoutAggregatorNext \/ UNCHANGED toVars
  BY Zenon DEF VotesStep, TimeoutsStep
<1>. QED BY Zenon, <1>1, <1>2, VotesInvariantStep, TimeoutsInvariantStep

(***************************************************************************)
(* The blocks and votes of a view that is not pruned meet in one collector *)
(* and so do its timeouts, for any number of messages, workers, views and  *)
(* any capacity of the queues: whichever workers create the collector of   *)
(* the view at the same time in GetOrCreateCollector, one is stored and    *)
(* used by all, and concurrent pruning never replaces it.                  *)
(***************************************************************************)
THEOREM CollectorsAreUnique == AggregatorsSpec => []MessagesMeetInOneCollector
<1>1. AggregatorsInit => VotesInvariant /\ TimeoutsInvariant
  BY Zenon, VotesStart, TimeoutsStart DEF AggregatorsInit
<1>2. VotesInvariant /\ TimeoutsInvariant /\ [VotesStep \/ TimeoutsStep]_<<vaVars, toVars>>
         => (VotesInvariant /\ TimeoutsInvariant)'
  BY Zenon, AggregatorsStep
<1>3. VotesInvariant /\ TimeoutsInvariant => MessagesMeetInOneCollector
  BY Zenon DEF VotesInvariant, TimeoutsInvariant, VotesMeet, TimeoutsMeet, MessagesMeetInOneCollector
<1>. QED BY <1>1, <1>2, <1>3, PTL DEF AggregatorsSpec

\* A message that has been handed to a collector, or dropped, stays there.
HandedOnce == VotesKept /\ TimeoutsKept

(***************************************************************************)
(* Every block, vote and timeout is handed to a collector at most once:    *)
(* no message is in a queue twice or with two workers, although senders    *)
(* and workers interleave arbitrarily (processQueuedMessages and           *)
(* processQueuedTimeoutObjects).                                           *)
(***************************************************************************)
THEOREM MessagesAreHandedOnce == AggregatorsSpec => [][HandedOnce]_<<vaVars, toVars>>
<1>1. AggregatorsInit => VotesInvariant /\ TimeoutsInvariant
  BY VotesStart, TimeoutsStart DEF AggregatorsInit
<1>2. VotesInvariant /\ TimeoutsInvariant /\ [VotesStep \/ TimeoutsStep]_<<vaVars, toVars>>
         => (VotesInvariant /\ TimeoutsInvariant)' /\ HandedOnce
  BY Zenon, AggregatorsStep DEF HandedOnce
<1>. QED BY <1>1, <1>2, PTL DEF AggregatorsSpec
=============================================================================
