------------------------ MODULE ParallelNonces_proofs ------------------------
(***************************************************************************)
(* Proofs about ParallelNonces, for any number of runs, nonce keys and     *)
(* nonces.                                                                 *)
(*                                                                         *)
(* A lane that main has not started in this round has nothing to do        *)
(* (Idle): that, with the count of the wait group, is what lets main reset *)
(* its loop between the rounds, and close the channels after the second.   *)
(* Of what a step does to the control of one run only its shape matters.   *)
(*                                                                         *)
(* On top of it, PaymentsOK relates the map, the calls, the replies, the   *)
(* node's books and the two channels: what is read before the second round *)
(* is not written in it, each lane makes one call, and the node has an     *)
(* accepted payment for each nonce that it has passed.                     *)
(***************************************************************************)
EXTENDS ParallelNonces, FiniteSetTheorems, TLAPS

Places == {"none", "ask", "asking", "writing", "sign", "sending", "exited"}

\* The lanes of a run that are still at work.
Running(p) == {k \in started[p] : lane[<<p, k>>] # "exited"}

\* Nobody else is at work.
Idle(p) == \A k \in NonceKeys \ started[p] : lane[<<p, k>>] \in {"none", "exited"}

Counted(p) ==
    /\ wg[p] = Cardinality(Running(p))
    /\ Idle(p)
    /\ closed[p] => main[p] = "done" /\ \A k \in NonceKeys : lane[<<p, k>>] = "exited"

\* TypeOK without the wait group, whose bound follows from its being a count.
Shapes ==
    /\ main \in [Programs -> {"fetch", "send", "done", "fatal"}]
    /\ started \in [Programs -> SUBSET NonceKeys]
    /\ lane \in [Lanes -> Places]
    /\ reply \in [Lanes -> Replies]
    /\ nonces \in [Programs -> SUBSET Payments]
    /\ mu \in [Programs -> BOOLEAN] /\ found \in [Lanes -> SUBSET Payments]
    /\ results \in [Programs -> Seq(Payments)] /\ errors \in [Programs -> Seq(NonceKeys)]
    /\ closed \in [Programs -> BOOLEAN]
    /\ calls \subseteq SentPayments /\ accepted \subseteq SentPayments
    /\ pool \subseteq Payments /\ nonce \in [NonceKeys -> 0..MaxNonce]

\* A goroutine that writes the map holds the mutex, alone, and the map is still as
\* it found it.
Alone ==
    /\ \A p \in Programs, k \in NonceKeys : lane[<<p, k>>] = "writing" =>
          mu[p] /\ found[<<p, k>>] = nonces[p]
    /\ \A p \in Programs, j, k \in NonceKeys :
          lane[<<p, j>>] = "writing" /\ lane[<<p, k>>] = "writing" => j = k

\* It has a nonce to write.
NonceInHand == \A l \in Lanes : lane[l] = "writing" => reply[l].kind = "nonce"

IInv ==
    /\ Shapes
    /\ NonceInHand
    /\ wg \in [Programs -> Int]
    /\ \A p \in Programs : Counted(p)
    /\ Alone

-----------------------------------------------------------------------------
(* The shapes of steps, as to the control of the runs.                     *)

AtWork(p, k) == lane[<<p, k>>] \notin {"none", "exited"}

\* A lane goes on.
Moved(p, k) ==
    /\ AtWork(p, k)
    /\ \E place \in Places \ {"none", "exited"} :
          Goto(<<p, k>>, place)
    /\ UNCHANGED <<main, started, wg, closed>>

Left(p, k) ==
    /\ AtWork(p, k)
    /\ Exit(p, k)
    /\ UNCHANGED <<main, started, closed>>

Elsewhere == UNCHANGED <<main, started, wg, lane, closed>>

LEMMA StepShape ==
    ASSUME Next
    PROVE  \/ \E p \in Programs : EndFetch(p) \/ EndSend(p)
           \/ \E p \in Programs, k \in NonceKeys : StartLane(p, k) \/ Moved(p, k) \/ Left(p, k)
           \/ Elsewhere
<1> USE DEF AtWork, Moved, Left, Elsewhere, Places
<1>1. ASSUME NEW p \in Programs, NEW k \in NonceKeys, Goroutine(p, k)
      PROVE  Moved(p, k) \/ Left(p, k)
  <2>1. CASE Ask(p, k)
    BY <2>1 DEF Ask
  <2>2. CASE AskFailed(p, k)
    BY <2>2 DEF AskFailed
  <2>3. CASE Lock(p, k)
    BY <2>3 DEF Lock, BeginWrite
  <2>4. CASE Store(p, k)
    BY <2>4 DEF Store
  <2>5. CASE SignFails(p, k)
    BY <2>5 DEF SignFails, Complain
  <2>6. CASE Send(p, k)
    BY <2>6 DEF Send
  <2>7. CASE SendFailed(p, k)
    BY <2>7 DEF SendFailed, Complain
  <2>8. CASE SendDone(p, k)
    BY <2>8 DEF SendDone
  <2>. QED
    BY <1>1, <2>1, <2>2, <2>3, <2>4, <2>5, <2>6, <2>7, <2>8 DEF Goroutine
<1>2. ASSUME NEW p \in Programs, NEW k \in NonceKeys, CallFails(p, k) PROVE Elsewhere
  BY <1>2 DEF CallFails, programVars
<1>3. ASSUME Node PROVE Elsewhere
  BY <1>3 DEF Node, NodeAccepts, NodeRejects, LoseCall, NodeTellsNonce, Mine, Drop,
              programVars
<1>. QED
  BY <1>1, <1>2, <1>3 DEF Next, Main

-----------------------------------------------------------------------------
(* The wait group.                                                         *)

LEMMA RunningFinite ==
    ASSUME Shapes, NEW p \in Programs
    PROVE  IsFiniteSet(Running(p)) /\ Cardinality(Running(p)) \in 0..N
<1>1. Running(p) \subseteq NonceKeys
  BY DEF Shapes, Running
<1>2. N \in Nat
  BY ProgramAssumption, FS_CardinalityType DEF N
<1>3. IsFiniteSet(Running(p)) /\ Cardinality(Running(p)) <= N
  BY <1>1, ProgramAssumption, FS_Subset DEF N
<1>4. Cardinality(Running(p)) \in Nat
  BY <1>3, FS_CardinalityType
<1>. QED
  BY <1>2, <1>3, <1>4

\* wg.Wait() returns when all lanes of the round have exited.
LEMMA JoinedMeansExited ==
    ASSUME Shapes, NEW p \in Programs, Counted(p), Joined(p)
    PROVE  \A k \in NonceKeys : lane[<<p, k>>] = "exited"
<1>1. Running(p) = {}
  BY RunningFinite, FS_EmptySet DEF Counted, Joined
<1>. QED
  BY <1>1 DEF Joined, Running

LEMMA CountedStep ==
    ASSUME Shapes, Shapes', wg \in [Programs -> Int],
           \A p \in Programs : Counted(p),
           Next, NEW q \in Programs
    PROVE  Counted(q)'
<1> USE DEF Shapes, Lanes
<1>0. IsFiniteSet(Running(q)) /\ Cardinality(Running(q)) \in Int
  BY RunningFinite
<1>same. ASSUME main'[q] = main[q], started'[q] = started[q], wg'[q] = wg[q],
             closed'[q] = closed[q], \A k \in NonceKeys : lane'[<<q, k>>] = lane[<<q, k>>]
      PROVE  Counted(q)'
  <2>1. Running(q)' = Running(q)
    BY <1>same DEF Running
  <2>. QED
    BY <1>same, <2>1 DEF Counted, Idle
<1>1. ASSUME NEW p \in Programs, EndFetch(p) PROVE Counted(q)'
  <2>1. CASE q = p
    <3>1. \A k \in NonceKeys : lane'[<<q, k>>] = "exited"
      BY <1>1, <2>1, JoinedMeansExited DEF EndFetch
    <3>2. Running(q)' = {} /\ wg'[q] = 0
      BY <1>1, <2>1 DEF EndFetch, Joined, Running
    <3>3. ~closed'[q]
      BY <1>1, <2>1 DEF EndFetch, Counted
    <3>. QED
      BY <3>1, <3>2, <3>3, FS_EmptySet DEF Counted, Idle
  <2>2. CASE q # p
    BY <1>1, <1>same, <2>2 DEF EndFetch
  <2>. QED
    BY <2>1, <2>2
<1>2. ASSUME NEW p \in Programs, EndSend(p) PROVE Counted(q)'
  <2>1. \A k \in NonceKeys : q = p => lane'[<<q, k>>] = "exited"
    BY <1>2, JoinedMeansExited DEF EndSend
  <2>2. Running(q)' = Running(q) /\ wg'[q] = wg[q] /\ (Idle(q) => Idle(q)')
    BY <1>2 DEF EndSend, Running, Idle
  <2>3. q = p => main'[q] = "done"
    BY <1>2 DEF EndSend
  <2>4. q # p => closed'[q] = closed[q] /\ main'[q] = main[q] /\ lane' = lane
    BY <1>2 DEF EndSend
  <2>. QED
    BY <2>1, <2>2, <2>3, <2>4 DEF Counted
<1>3. ASSUME NEW p \in Programs, NEW k \in NonceKeys, StartLane(p, k) PROVE Counted(q)'
  <2>1. CASE q = p
    <3>1. Running(q)' = Running(q) \cup {k} /\ k \notin Running(q)
      BY <1>3, <2>1 DEF StartLane, Goto, Running
    <3>2. wg'[q] = wg[q] + 1
      BY <1>3, <2>1 DEF StartLane
    <3>3. wg'[q] = Cardinality(Running(q)')
      <4>1. Cardinality(Running(q) \cup {k}) = Cardinality(Running(q)) + 1
        BY <1>0, <3>1, FS_AddElement
      <4>2. wg[q] = Cardinality(Running(q))
        BY DEF Counted
      <4>. QED
        BY <3>1, <3>2, <4>1, <4>2
    <3>4. Idle(q)'
      BY <1>3, <2>1 DEF StartLane, Goto, Idle, Counted
    <3>5. ~closed'[q]
      BY <1>3, <2>1 DEF StartLane, Counted
    <3>. QED
      BY <3>3, <3>4, <3>5 DEF Counted
  <2>2. CASE q # p
    BY <1>3, <1>same, <2>2 DEF StartLane, Goto
  <2>. QED
    BY <2>1, <2>2
<1>4. ASSUME NEW p \in Programs, NEW k \in NonceKeys, Moved(p, k) PROVE Counted(q)'
  <2>1. PICK place \in Places \ {"none", "exited"} : Goto(<<p, k>>, place)
    BY <1>4 DEF Moved
  <2>2. q = p => k \in started[q] /\ ~closed[q]
    BY <1>4 DEF Moved, AtWork, Counted, Idle
  <2>3. Running(q)' = Running(q)
    BY <1>4, <2>1, <2>2 DEF Moved, AtWork, Goto, Running
  <2>4. Idle(q)'
    BY <1>4, <2>1, <2>2 DEF Moved, Goto, Counted, Idle
  <2>5. closed'[q] => main'[q] = "done" /\ \A j \in NonceKeys : lane'[<<q, j>>] = "exited"
    BY <1>4, <2>1, <2>2 DEF Moved, Goto, Counted
  <2>. QED
    BY <1>4, <2>3, <2>4, <2>5 DEF Moved, Counted
<1>5. ASSUME NEW p \in Programs, NEW k \in NonceKeys, Left(p, k) PROVE Counted(q)'
  <2>1. q = p => k \in started[q] /\ ~closed[q]
    BY <1>5 DEF Left, AtWork, Counted, Idle
  <2>2. wg'[q] = Cardinality(Running(q)')
    <3>1. CASE q = p
      <4>1. Running(q)' = Running(q) \ {k} /\ k \in Running(q)
        BY <1>5, <2>1, <3>1 DEF Left, AtWork, Exit, Goto, Running
      <4>2. wg'[q] = wg[q] - 1
        BY <1>5, <3>1 DEF Left, Exit
      <4>. QED
        BY <1>0, <4>1, <4>2, FS_RemoveElement DEF Counted
    <3>2. CASE q # p
      <4>1. Running(q)' = Running(q) /\ wg'[q] = wg[q]
        BY <1>5, <3>2 DEF Left, Exit, Goto, Running
      <4>. QED
        BY <4>1 DEF Counted
    <3>. QED
      BY <3>1, <3>2
  <2>3. Idle(q)'
    BY <1>5, <2>1 DEF Left, Exit, Goto, Counted, Idle
  <2>4. closed'[q] => main'[q] = "done" /\ \A j \in NonceKeys : lane'[<<q, j>>] = "exited"
    BY <1>5, <2>1 DEF Left, Exit, Goto, Counted
  <2>. QED
    BY <2>2, <2>3, <2>4 DEF Counted
<1>6. ASSUME Elsewhere PROVE Counted(q)'
  BY <1>6, <1>same DEF Elsewhere
<1>. QED
  BY <1>1, <1>2, <1>3, <1>4, <1>5, <1>6, StepShape

\* The mutex is taken only when it is free, and only its holder writes the map.
LEMMA AloneStep ==
    ASSUME Shapes, Alone, Next
    PROVE  Alone'
<1> USE DEF Alone, Shapes, Lanes, Goto, Exit
<1>1. ASSUME NEW p \in Programs, NEW k \in NonceKeys, NEW place, place # "writing",
             lane' = [lane EXCEPT ![<<p, k>>] = place], UNCHANGED <<nonces, mu, found>>
      PROVE  Alone'
  BY <1>1
<1>2. ASSUME NEW p \in Programs, NEW k \in NonceKeys,
             \/ StartLane(p, k) \/ Ask(p, k) \/ AskFailed(p, k) \/ SignFails(p, k)
             \/ Send(p, k) \/ SendFailed(p, k) \/ SendDone(p, k)
      PROVE  Alone'
  <2>1. UNCHANGED <<nonces, mu, found>>
    BY <1>2 DEF StartLane, Ask, AskFailed, SignFails, Send, SendFailed, SendDone, Complain
  <2>2. PICK place \in {"ask", "sign", "asking", "sending", "exited"} :
            lane' = [lane EXCEPT ![<<p, k>>] = place]
    <3>1. StartLane(p, k) => \E place \in {"ask", "sign"} :
                                lane' = [lane EXCEPT ![<<p, k>>] = place]
      BY DEF StartLane
    <3>2. Ask(p, k) \/ Send(p, k) => \E place \in {"asking", "sending"} :
                                lane' = [lane EXCEPT ![<<p, k>>] = place]
      BY DEF Ask, Send
    <3>3. AskFailed(p, k) \/ SignFails(p, k) \/ SendFailed(p, k) \/ SendDone(p, k) =>
              lane' = [lane EXCEPT ![<<p, k>>] = "exited"]
      BY DEF AskFailed, SignFails, SendFailed, SendDone, Complain
    <3>. QED
      BY <1>2, <3>1, <3>2, <3>3
  <2>. QED
    BY <1>1, <2>1, <2>2
<1>3. ASSUME NEW p \in Programs, NEW k \in NonceKeys, Lock(p, k) PROVE Alone'
  <2>1. /\ ~mu[p] /\ mu' = [mu EXCEPT ![p] = TRUE] /\ nonces' = nonces
        /\ lane' = [lane EXCEPT ![<<p, k>>] = "writing"]
        /\ found' = [found EXCEPT ![<<p, k>>] = nonces[p]]
    BY <1>3 DEF Lock, BeginWrite
  <2>2. \A j \in NonceKeys : lane[<<p, j>>] # "writing"
    BY <2>1
  <2>. QED
    BY <2>1, <2>2
<1>4. ASSUME NEW p \in Programs, NEW k \in NonceKeys, Store(p, k) PROVE Alone'
  <2>1. /\ lane[<<p, k>>] = "writing" /\ lane' = [lane EXCEPT ![<<p, k>>] = "exited"]
        /\ \A q \in Programs \ {p} : mu'[q] = mu[q] /\ nonces'[q] = nonces[q]
        /\ \A q \in Programs \ {p}, j \in NonceKeys : found'[<<q, j>>] = found[<<q, j>>]
    BY <1>4 DEF Store
  <2>2. \A j \in NonceKeys : lane'[<<p, j>>] # "writing"
    BY <2>1
  <2>. QED
    BY <2>1, <2>2
<1>5. ASSUME UNCHANGED <<lane, nonces, mu, found>> PROVE Alone'
  BY <1>5
<1>6. ASSUME NEW p \in Programs, EndFetch(p) \/ EndSend(p) PROVE Alone'
  BY <1>5, <1>6 DEF EndFetch, EndSend
<1>7. ASSUME NEW p \in Programs, NEW k \in NonceKeys, CallFails(p, k) PROVE Alone'
  BY <1>5, <1>7 DEF CallFails, programVars
<1>8. ASSUME Node PROVE Alone'
  BY <1>5, <1>8 DEF Node, NodeAccepts, NodeRejects, LoseCall, NodeTellsNonce, Mine, Drop,
                    programVars
<1>. QED
  BY <1>2, <1>3, <1>4, <1>6, <1>7, <1>8 DEF Next, Main, Goroutine

\* A write adds its entry and loses none.
LEMMA StoreAdds ==
    ASSUME IInv, NEW p \in Programs, NEW k \in NonceKeys, Store(p, k)
    PROVE  nonces' = [nonces EXCEPT ![p] = @ \cup {Payment(k, reply[<<p, k>>].nonce)}]
  BY DEF Store, IInv, Alone

-----------------------------------------------------------------------------
(* Types.                                                                  *)

LEMMA PaymentTypes ==
    ASSUME Shapes, NEW p \in Programs, NEW k \in NonceKeys
    PROVE  PaymentOf(p, k) \in Payments
<1>1. CASE \E m \in nonces[p] : m.key = k
  BY <1>1 DEF PaymentOf, Shapes
<1>2. CASE ~\E m \in nonces[p] : m.key = k
  BY <1>2, ProgramAssumption DEF PaymentOf, Payment, Payments
<1>. QED
  BY <1>1, <1>2

\* A goroutine keeps the shapes of what it writes.
LEMMA GoroutineShapes ==
    ASSUME Shapes, NonceInHand, wg \in [Programs -> Int],
           NEW p \in Programs, NEW k \in NonceKeys, Goroutine(p, k)
    PROVE  Shapes' /\ wg' \in [Programs -> Int]
<1> USE DEF Shapes, Places, Goto, Exit, nodeVars, Lanes
<1>0. <<p, k>> \in Lanes /\ reply[<<p, k>>] \in Replies
  OBVIOUS
<1>1. CASE Ask(p, k)
  BY <1>1 DEF Ask, None, Replies
<1>2. CASE AskFailed(p, k)
  BY <1>2 DEF AskFailed
<1>3. CASE Lock(p, k)
  BY <1>3 DEF Lock, BeginWrite
<1>4. CASE Store(p, k)
  <2>1. reply[<<p, k>>].nonce \in 0..MaxNonce
    BY <1>0, <1>4 DEF Store, NonceInHand, Replies
  <2>2. Payment(k, reply[<<p, k>>].nonce) \in Payments
    BY <2>1 DEF Payment, Payments
  <2>3. nonces' \in [Programs -> SUBSET Payments] /\ found' \in [Lanes -> SUBSET Payments]
    BY <1>0, <1>4, <2>2 DEF Store
  <2>4. wg' \in [Programs -> Int] /\ lane' \in [Lanes -> Places]
    BY <1>4 DEF Store
  <2>. QED
    BY <1>4, <2>3, <2>4 DEF Store
<1>5. CASE SignFails(p, k)
  BY <1>5 DEF SignFails, Complain
<1>6. CASE Send(p, k)
  <2>1. [by |-> <<p, k>>, payment |-> PaymentOf(p, k)] \in SentPayments
    BY PaymentTypes DEF SentPayments
  <2>. QED
    BY <1>6, <2>1 DEF Send, None, Replies
<1>7. CASE SendFailed(p, k)
  BY <1>7 DEF SendFailed, Complain
<1>8. CASE SendDone(p, k)
  <2>1. reply[<<p, k>>].hash \in Payments
    BY <1>0, <1>8 DEF SendDone, Replies
  <2>. QED
    BY <1>8, <2>1 DEF SendDone
<1>. QED
  BY <1>1, <1>2, <1>3, <1>4, <1>5, <1>6, <1>7, <1>8 DEF Goroutine

\* So does main, and so do the HTTP client and the node.
LEMMA OthersShapes ==
    ASSUME Shapes, wg \in [Programs -> Int],
           \/ \E p \in Programs : Main(p)
           \/ \E p \in Programs, k \in NonceKeys : CallFails(p, k)
           \/ Node
    PROVE  Shapes' /\ wg' \in [Programs -> Int]
<1> USE DEF Shapes, Places, nodeVars, programVars, Lanes
<1>1. ASSUME NEW p \in Programs, Main(p) PROVE Shapes' /\ wg' \in [Programs -> Int]
  <2>1. CASE EndFetch(p)
    BY <2>1 DEF EndFetch
  <2>2. CASE EndSend(p)
    BY <2>2 DEF EndSend
  <2>3. ASSUME NEW k \in NonceKeys, StartLane(p, k) PROVE Shapes' /\ wg' \in [Programs -> Int]
    BY <2>3 DEF StartLane, Goto
  <2>. QED
    BY <1>1, <2>1, <2>2, <2>3 DEF Main
<1>2. ASSUME NEW p \in Programs, NEW k \in NonceKeys, CallFails(p, k)
      PROVE  Shapes' /\ wg' \in [Programs -> Int]
  BY <1>2 DEF CallFails, Replies
<1>3. ASSUME NEW p \in Programs, NEW k \in NonceKeys, NodeTellsNonce(p, k)
      PROVE  Shapes' /\ wg' \in [Programs -> Int]
  BY <1>3 DEF NodeTellsNonce, Replies
<1>4. ASSUME NEW c \in calls, NEW m \in Replies, NodeReply(c, m)
      PROVE  reply' \in [Lanes -> Replies]
  BY <1>4 DEF NodeReply
<1>5. ASSUME NEW c \in calls, NodeAccepts(c) PROVE Shapes' /\ wg' \in [Programs -> Int]
  <2>1. c.payment \in Payments
    BY DEF SentPayments
  <2>2. [kind |-> "hash", hash |-> c.payment] \in Replies
    BY <2>1 DEF Replies
  <2>. QED
    BY <1>4, <1>5, <2>1, <2>2 DEF NodeAccepts
<1>6. ASSUME NEW c \in calls, NodeRejects(c) PROVE Shapes' /\ wg' \in [Programs -> Int]
  <2>1. [kind |-> "rejected"] \in Replies
    BY DEF Replies
  <2>. QED
    BY <1>4, <1>6, <2>1 DEF NodeRejects
<1>7. ASSUME NEW c \in calls, LoseCall(c) PROVE Shapes' /\ wg' \in [Programs -> Int]
  BY <1>7 DEF LoseCall
<1>8. ASSUME NEW m \in pool, Mine(m) PROVE Shapes' /\ wg' \in [Programs -> Int]
  <2>1. m.key \in NonceKeys /\ nonce[m.key] + 1 \in 0..MaxNonce
    BY <1>8, ProgramAssumption DEF Mine, Payments
  <2>. QED
    BY <1>8, <2>1 DEF Mine
<1>9. ASSUME NEW m \in pool, Drop(m) PROVE Shapes' /\ wg' \in [Programs -> Int]
  BY <1>9 DEF Drop
<1>. QED
  BY <1>1, <1>2, <1>3, <1>5, <1>6, <1>7, <1>8, <1>9 DEF Node

\* A reply changes only while its lane waits for it, and not in the mutex.
LEMMA NonceInHandStep ==
    ASSUME Shapes, NonceInHand, Next
    PROVE  NonceInHand'
<1> USE DEF Shapes, NonceInHand, Lanes
<1>1. ASSUME NEW p \in Programs, NEW k \in NonceKeys, Goroutine(p, k) PROVE NonceInHand'
  BY <1>1 DEF Goroutine, Ask, AskFailed, Lock, BeginWrite, Store, SignFails, Send,
              SendFailed, SendDone, Complain, Exit, Goto
<1>2. ASSUME NEW p \in Programs, Main(p) PROVE NonceInHand'
  BY <1>2 DEF Main, EndFetch, EndSend, StartLane, Goto
<1>3. ASSUME UNCHANGED lane,
             \A l \in Lanes : lane[l] = "writing" => reply'[l] = reply[l]
      PROVE  NonceInHand'
  BY <1>3
<1>4. ASSUME NEW p \in Programs, NEW k \in NonceKeys, CallFails(p, k) \/ NodeTellsNonce(p, k)
      PROVE  NonceInHand'
  BY <1>3, <1>4 DEF CallFails, NodeTellsNonce, Waiting, programVars
<1>5. ASSUME NEW c \in calls, NodeAccepts(c) \/ NodeRejects(c) \/ LoseCall(c)
      PROVE  NonceInHand'
  <2>1. PICK p \in Programs, k \in NonceKeys : c.by = <<p, k>>
    BY DEF SentPayments
  <2>2. ASSUME NEW m, NodeReply(c, m), UNCHANGED lane PROVE NonceInHand'
    <3>1. ~Waiting(p, k) => reply' = reply
      BY <2>1, <2>2 DEF NodeReply
    <3>2. Waiting(p, k) => reply' = [reply EXCEPT ![<<p, k>>] = m]
                             /\ lane[<<p, k>>] # "writing"
      BY <2>1, <2>2 DEF NodeReply, Waiting
    <3>. QED
      BY <1>3, <2>2, <3>1, <3>2
  <2>3. CASE LoseCall(c)
    BY <1>3, <2>3 DEF LoseCall, programVars
  <2>4. CASE NodeAccepts(c)
    BY <2>2, <2>4 DEF NodeAccepts, programVars
  <2>5. CASE NodeRejects(c)
    BY <2>2, <2>5 DEF NodeRejects, programVars
  <2>. QED
    BY <1>5, <2>3, <2>4, <2>5
<1>6. ASSUME NEW m \in pool, Mine(m) \/ Drop(m) PROVE NonceInHand'
  BY <1>3, <1>6 DEF Mine, Drop, programVars
<1>. QED
  BY <1>1, <1>2, <1>4, <1>5, <1>6 DEF Next, Node

-----------------------------------------------------------------------------
(* The theorems.                                                           *)

LEMMA InitInvariant == Init => IInv
<1> SUFFICES ASSUME Init PROVE IInv
  OBVIOUS
<1>1. Shapes
  BY ProgramAssumption DEF Init, Shapes, Places, Replies, None
<1>2. \A p \in Programs : Counted(p)
  BY FS_EmptySet DEF Init, Counted, Running, Idle, Lanes
<1>. QED
  BY <1>1, <1>2 DEF Init, IInv, Alone, NonceInHand, Lanes

LEMMA NextInvariant == IInv /\ [Next]_vars => IInv'
<1> SUFFICES ASSUME IInv, [Next]_vars PROVE IInv'
  OBVIOUS
<1>1. CASE Next
  <2>1. Shapes' /\ wg' \in [Programs -> Int]
    BY <1>1, GoroutineShapes, OthersShapes DEF IInv, Next
  <2>2. \A p \in Programs : Counted(p)'
    BY <1>1, <2>1, CountedStep DEF IInv
  <2>3. Alone' /\ NonceInHand'
    BY <1>1, AloneStep, NonceInHandStep DEF IInv
  <2>. QED
    BY <2>1, <2>2, <2>3 DEF IInv
<1>2. CASE UNCHANGED vars
  <2> USE <1>2 DEF vars, programVars, nodeVars, IInv
  <2>1. Shapes' /\ wg' \in [Programs -> Int]
    BY DEF Shapes
  <2>2. ASSUME NEW p \in Programs PROVE Counted(p)'
    <3>1. Running(p)' = Running(p)
      BY DEF Running
    <3>. QED
      BY <3>1 DEF Counted, Idle
  <2>3. Alone' /\ NonceInHand'
    BY DEF Alone, NonceInHand
  <2>. QED
    BY <2>1, <2>2, <2>3
<1>. QED
  BY <1>1, <1>2

LEMMA Invariant == Spec => []IInv
<1>. QED
  BY InitInvariant, NextInvariant, PTL DEF Spec

\* Both rounds of both loops keep everything in its type; the wait group's counter
\* never goes below zero, where Go would panic, nor above the number of lanes.
THEOREM TypeCorrect == Spec => []TypeOK
<1>1. IInv => TypeOK
  <2> SUFFICES ASSUME IInv PROVE TypeOK
    OBVIOUS
  <2>1. \A p \in Programs : wg[p] \in 0..N
    BY RunningFinite DEF IInv, Counted
  <2>2. wg \in [Programs -> 0..N]
    BY <2>1 DEF IInv
  <2>. QED
    BY <2>2 DEF IInv, Shapes, Places, TypeOK
<1>. QED
  BY Invariant, <1>1, PTL

\* When main reads the map, or closes the channels, no goroutine is left that could
\* write or send (main.go:111, 159).
THEOREM NobodyOutlivesTheRoundHolds == Spec => []NobodyOutlivesTheRound
<1>1. IInv => NobodyOutlivesTheRound
  BY DEF IInv, Counted, Running, NobodyOutlivesTheRound
<1>. QED
  BY Invariant, <1>1, PTL

-----------------------------------------------------------------------------
(* The payments: an invariant on top of the one above.                     *)

\* The call of a lane of the second round is made.
Sent(p, k) ==
    /\ main[p] \in {"send", "done"} /\ k \in started[p]
    /\ lane[<<p, k>>] \in {"sending", "exited"}

\* Which lanes there are, by round: all exit in the first, and again in the second.
RoundOK(p) ==
    /\ main[p] = "fetch" => \A k \in NonceKeys :
          /\ lane[<<p, k>>] \in {"none", "ask", "asking", "writing", "exited"}
          /\ k \notin started[p] => lane[<<p, k>>] = "none"
    /\ main[p] = "send" => \A k \in NonceKeys :
          lane[<<p, k>>] \in {"sign", "sending", "exited"}
    /\ main[p] \in {"done", "fatal"} => \A k \in NonceKeys : lane[<<p, k>>] = "exited"
    /\ main[p] = "done" => started[p] = NonceKeys

\* A lane that has left the first round has stored a nonce, or had none to store.
FetchOK(p) ==
    /\ main[p] = "fetch" => \A k \in started[p] :
          lane[<<p, k>>] = "exited" =>
              reply[<<p, k>>].kind = "failed" \/ \E m \in nonces[p] : m.key = k
    /\ main[p] = "fatal" => \E k \in NonceKeys : reply[<<p, k>>].kind = "failed"

\* The map has one nonce of a key, which its lane stores when it leaves the first
\* round; all are there in the second, and none is ahead of the node.
MapOK(p) ==
    /\ \A m, n \in nonces[p] : m.key = n.key => m = n
    /\ main[p] = "fetch" => \A m \in nonces[p] :
          m.key \in started[p] /\ lane[<<p, m.key>>] = "exited"
    /\ main[p] \in {"send", "done"} => \A k \in NonceKeys : \E m \in nonces[p] : m.key = k
    /\ \A m \in nonces[p] : m.nonce <= nonce[m.key]

\* A call is of the map's payment of its lane, which makes one.
CallOK(c) ==
    /\ Sent(c.by[1], c.by[2])
    /\ c.payment \in nonces[c.by[1]] /\ c.payment.key = c.by[2]
CallsOK == calls \cap accepted = {} /\ \A c \in calls \cup accepted : CallOK(c)

\* At most one payment of a key is pending, with its next nonce; the node took a
\* payment for each nonce before that.
NodeOK ==
    /\ \A m \in pool : m.nonce = nonce[m.key] /\ \E c \in accepted : c.payment = m
    /\ \A m, n \in pool : m.key = n.key => m = n
    /\ \A k \in NonceKeys, i \in 0..MaxNonce :
          i < nonce[k] => \E c \in accepted : c.payment = Payment(k, i)

\* A reply is the truth, of the lane's own call, and stays so.
ReplyOK(p, k) ==
    LET r == reply[<<p, k>>]
    IN  /\ r.kind = "nonce" => r.nonce <= nonce[k]
        /\ r.kind \in {"hash", "rejected"} => Sent(p, k)
        /\ r.kind = "hash" => [by |-> <<p, k>>, payment |-> r.hash] \in accepted
        /\ r.kind = "rejected" => \E q \in Programs \ {p} :
              [by |-> <<q, k>>, payment |-> PaymentOf(p, k)] \in accepted

\* Each lane that has left the second round has reported once.
Out(p) == {k \in started[p] : lane[<<p, k>>] = "exited"}
ReportOK(p) ==
    /\ main[p] \in {"fetch", "fatal"} => results[p] = <<>> /\ errors[p] = <<>>
    /\ main[p] \in {"send", "done"} =>
          Len(results[p]) + Len(errors[p]) = Cardinality(Out(p))
    /\ \A i \in 1..Len(results[p]) :
          /\ [by |-> <<p, results[p][i].key>>, payment |-> results[p][i]] \in accepted
          /\ lane[<<p, results[p][i].key>>] = "exited"
    /\ \A i, j \in 1..Len(results[p]) : results[p][i].key = results[p][j].key => i = j

PaymentsOK ==
    /\ \A p \in Programs : RoundOK(p) /\ FetchOK(p) /\ MapOK(p) /\ ReportOK(p)
    /\ CallsOK /\ NodeOK
    /\ \A p \in Programs, k \in NonceKeys : ReplyOK(p, k)

LEMMA RoundStep ==
    ASSUME IInv, Next, NEW q \in Programs, RoundOK(q)
    PROVE  RoundOK(q)'
<1> USE DEF IInv, Shapes, Lanes, RoundOK, Goto, Exit
<1>1. ASSUME NEW p \in Programs, EndFetch(p) \/ EndSend(p) PROVE RoundOK(q)'
  <2>1. \A k \in NonceKeys : lane[<<p, k>>] = "exited"
    BY <1>1, JoinedMeansExited DEF EndFetch, EndSend
  <2>2. started[p] = NonceKeys
    BY <1>1 DEF EndFetch, EndSend, Joined
  <2>3. CASE EndFetch(p)
    BY <2>1, <2>2, <2>3 DEF EndFetch
  <2>4. CASE EndSend(p)
    BY <2>1, <2>2, <2>4 DEF EndSend
  <2>. QED
    BY <1>1, <2>3, <2>4
<1>2. ASSUME NEW p \in Programs, NEW k \in NonceKeys, StartLane(p, k) PROVE RoundOK(q)'
  BY <1>2 DEF StartLane
<1>3. ASSUME NEW p \in Programs, NEW k \in NonceKeys, Goroutine(p, k) PROVE RoundOK(q)'
  <2>1. CASE Ask(p, k)
    BY <2>1 DEF Ask
  <2>2. CASE AskFailed(p, k)
    BY <2>2 DEF AskFailed
  <2>3. CASE Lock(p, k)
    BY <2>3 DEF Lock, BeginWrite
  <2>4. CASE Store(p, k)
    BY <2>4 DEF Store
  <2>5. CASE SignFails(p, k)
    BY <2>5 DEF SignFails, Complain
  <2>6. CASE Send(p, k)
    BY <2>6 DEF Send
  <2>7. CASE SendFailed(p, k)
    BY <2>7 DEF SendFailed, Complain
  <2>8. CASE SendDone(p, k)
    BY <2>8 DEF SendDone
  <2>. QED
    BY <1>3, <2>1, <2>2, <2>3, <2>4, <2>5, <2>6, <2>7, <2>8 DEF Goroutine
<1>4. ASSUME UNCHANGED <<main, started, lane>> PROVE RoundOK(q)'
  BY <1>4
<1>5. ASSUME NEW p \in Programs, NEW k \in NonceKeys, CallFails(p, k) PROVE RoundOK(q)'
  BY <1>4, <1>5 DEF CallFails, programVars
<1>6. ASSUME Node PROVE RoundOK(q)'
  BY <1>4, <1>6 DEF Node, NodeAccepts, NodeRejects, LoseCall, NodeTellsNonce, Mine, Drop,
                    programVars
<1>. QED
  BY <1>1, <1>2, <1>3, <1>5, <1>6 DEF Next, Main

\* A map with as many entries as there are keys, and one of each at most, has all.
LEMMA NoKeyIsMissing ==
    ASSUME Shapes, NEW p \in Programs, Cardinality(nonces[p]) = N,
           \A m, n \in nonces[p] : m.key = n.key => m = n
    PROVE  \A k \in NonceKeys : \E m \in nonces[p] : m.key = k
<1> DEFINE S == nonces[p]
           f == [m \in S |-> m.key]
<1>1. S \subseteq Payments
  BY DEF Shapes
<1>2. f \in [S -> NonceKeys]
  BY <1>1 DEF Payments
<1>3. \A m, n \in S : f[m] = f[n] => m = n
  OBVIOUS
<1>. HIDE DEF f, S
<1>4. f \in Injection(S, NonceKeys)
  BY <1>2, <1>3 DEF Injection, IsInjective
<1>5. f \in Surjection(S, NonceKeys)
  BY <1>4, ProgramAssumption, FS_Injection DEF N, S
<1>6. \A k \in NonceKeys : \E m \in S : f[m] = k
  BY <1>5 DEF Surjection
<1>. QED
  BY <1>6 DEF f, S

\* And a map with one entry of each key has as many as there are keys.
LEMMA AllKeysFetched ==
    ASSUME Shapes, NEW p \in Programs,
           \A m, n \in nonces[p] : m.key = n.key => m = n,
           \A k \in NonceKeys : \E m \in nonces[p] : m.key = k
    PROVE  AllFetched(p)
<1> DEFINE S == nonces[p]
           f == [k \in NonceKeys |-> CHOOSE m \in S : m.key = k]
<1>1. S \subseteq Payments
  BY DEF Shapes
<1>2. \A k \in NonceKeys : f[k] \in S /\ f[k].key = k
  OBVIOUS
<1>3. \A m \in S : m.key \in NonceKeys
  BY <1>1 DEF Payments
<1>4. \A m \in S : f[m.key] = m
  BY <1>2, <1>3
<1>5. f \in [NonceKeys -> S]
  BY <1>2
<1>. HIDE DEF f, S
<1>6. f \in Bijection(NonceKeys, S)
  BY <1>2, <1>3, <1>4, <1>5 DEF Bijection, Injection, Surjection, IsInjective
<1>7. ExistsBijection(NonceKeys, S)
  BY <1>6 DEF ExistsBijection
<1>8. Cardinality(S) = Cardinality(NonceKeys)
  BY <1>7, ProgramAssumption, FS_Bijection
<1>. QED
  BY <1>8 DEF S, AllFetched, N

\* The node's nonces only grow.
LEMMA NoncesGrow ==
    ASSUME IInv, Next
    PROVE  \A k \in NonceKeys : nonce[k] \in Nat /\ nonce'[k] \in Nat /\ nonce[k] <= nonce'[k]
<1>1. nonce \in [NonceKeys -> 0..MaxNonce] /\ pool \subseteq Payments
  BY DEF IInv, Shapes
<1>2. ASSUME NEW p \in Programs, Main(p) PROVE nonce' = nonce
  BY <1>2 DEF Main, EndFetch, EndSend, StartLane, nodeVars
<1>3. ASSUME NEW p \in Programs, NEW k \in NonceKeys, Goroutine(p, k) PROVE nonce' = nonce
  BY <1>3 DEF Goroutine, Ask, AskFailed, Lock, Store, SignFails, Send, SendFailed, SendDone,
              Complain, nodeVars
<1>4. ASSUME NEW p \in Programs, NEW k \in NonceKeys, CallFails(p, k) PROVE nonce' = nonce
  BY <1>4 DEF CallFails, nodeVars
<1>5. CASE nonce' = nonce
  BY <1>1, <1>5
<1>6. ASSUME NEW m \in pool, Mine(m)
      PROVE  \A k \in NonceKeys : nonce[k] \in Nat /\ nonce'[k] \in Nat /\ nonce[k] <= nonce'[k]
  BY <1>1, <1>6 DEF Mine
<1>7. Node => nonce' = nonce \/ \E m \in pool : Mine(m)
  BY DEF Node, NodeTellsNonce, NodeAccepts, NodeRejects, LoseCall, Drop, nodeVars
<1>. QED
  BY <1>2, <1>3, <1>4, <1>5, <1>6, <1>7 DEF Next

LEMMA MapStep ==
    ASSUME IInv, Next, NEW q \in Programs, RoundOK(q), MapOK(q),
           \A p \in Programs, k \in NonceKeys : ReplyOK(p, k)
    PROVE  MapOK(q)'
<1> USE DEF IInv, Shapes, Lanes, Goto, Exit
<1>0. \A m \in nonces[q] : m.key \in NonceKeys /\ m.nonce \in Nat
  BY DEF Payments
<1>same. ASSUME nonces'[q] = nonces[q], main'[q] = main[q],
                started[q] \subseteq started'[q],
                \A k \in started[q] : lane[<<q, k>>] = "exited" => lane'[<<q, k>>] = "exited"
         PROVE  MapOK(q)'
  BY <1>0, <1>same, NoncesGrow DEF MapOK
<1>1. ASSUME NEW p \in Programs, EndFetch(p) PROVE MapOK(q)'
  <2>1. CASE q = p
    <3>1. UNCHANGED <<nonces, nonce>> /\ main'[q] \in {"send", "fatal"}
          /\ (main'[q] = "send" => AllFetched(q))
      BY <1>1, <2>1 DEF EndFetch, nodeVars
    <3>2. main'[q] = "send" => \A k \in NonceKeys : \E m \in nonces[q] : m.key = k
      BY <3>1, NoKeyIsMissing DEF AllFetched, MapOK
    <3>. QED
      BY <3>1, <3>2 DEF MapOK
  <2>2. CASE q # p
    BY <1>1, <1>same, <2>2 DEF EndFetch
  <2>. QED
    BY <2>1, <2>2
<1>2. ASSUME NEW p \in Programs, EndSend(p) PROVE MapOK(q)'
  <2>1. CASE q = p
    <3>1. UNCHANGED <<nonces, nonce>> /\ main[q] = "send" /\ main'[q] = "done"
      BY <1>2, <2>1 DEF EndSend, nodeVars
    <3>. QED
      BY <3>1 DEF MapOK
  <2>2. CASE q # p
    BY <1>2, <1>same, <2>2 DEF EndSend
  <2>. QED
    BY <2>1, <2>2
<1>3. ASSUME NEW p \in Programs, NEW k \in NonceKeys, StartLane(p, k) PROVE MapOK(q)'
  BY <1>3, <1>same DEF StartLane
<1>4. ASSUME NEW p \in Programs, NEW k \in NonceKeys, Store(p, k) PROVE MapOK(q)'
  <2>1. CASE q = p
    <3> DEFINE e == Payment(k, reply[<<p, k>>].nonce)
    <3>1. main[p] = "fetch" /\ k \in started[p] /\ lane[<<p, k>>] = "writing"
      BY <1>4, <2>1 DEF Store, RoundOK
    <3>2. e.key = k /\ e.nonce <= nonce[k]
      BY <3>1 DEF Payment, NonceInHand, ReplyOK
    <3>3. \A m \in nonces[p] : m.key # k
      BY <2>1, <3>1 DEF MapOK
    <3>. HIDE DEF e
    <3>4. nonces'[p] = nonces[p] \cup {e}
      BY <1>4, StoreAdds DEF e
    <3>5. /\ main'[p] = "fetch" /\ started' = started /\ nonce' = nonce
          /\ lane' = [lane EXCEPT ![<<p, k>>] = "exited"]
      BY <1>4, <3>1 DEF Store, nodeVars
    <3>. QED
      BY <1>0, <2>1, <3>1, <3>2, <3>3, <3>4, <3>5 DEF MapOK
  <2>2. CASE q # p
    BY <1>4, <1>same, <2>2 DEF Store
  <2>. QED
    BY <2>1, <2>2
<1>5. ASSUME NEW p \in Programs, NEW k \in NonceKeys,
             \/ Ask(p, k) \/ AskFailed(p, k) \/ Lock(p, k)
             \/ SignFails(p, k) \/ Send(p, k) \/ SendFailed(p, k) \/ SendDone(p, k)
      PROVE  MapOK(q)'
  <2>1. /\ UNCHANGED <<main, started, nonces>> /\ lane[<<p, k>>] # "exited"
        /\ \E place : lane' = [lane EXCEPT ![<<p, k>>] = place]
    BY <1>5 DEF Ask, AskFailed, Lock, BeginWrite, SignFails, Send, SendFailed, SendDone, Complain
  <2>. QED
    BY <1>same, <2>1
<1>6. ASSUME UNCHANGED programVars PROVE MapOK(q)'
  BY <1>same, <1>6 DEF programVars
<1>7. ASSUME NEW p \in Programs, NEW k \in NonceKeys, CallFails(p, k) PROVE MapOK(q)'
  BY <1>6, <1>7 DEF CallFails
<1>8. ASSUME Node PROVE MapOK(q)'
  BY <1>6, <1>8 DEF Node, NodeAccepts, NodeRejects, LoseCall, NodeTellsNonce, Mine, Drop
<1>. QED
  BY <1>1, <1>2, <1>3, <1>4, <1>5, <1>7, <1>8 DEF Next, Main, Goroutine


\* Only a failed read leaves a key without a nonce.
LEMMA FetchStep ==
    ASSUME IInv, Next, NEW q \in Programs, RoundOK(q), MapOK(q), FetchOK(q)
    PROVE  FetchOK(q)'
<1> USE DEF IInv, Shapes, Lanes, Goto, Exit
<1>same. ASSUME main'[q] = main[q], nonces[q] \subseteq nonces'[q],
                main[q] = "fetch" => started'[q] = started[q],
                \A k \in NonceKeys : lane[<<q, k>>] = "exited" =>
                    reply'[<<q, k>>] = reply[<<q, k>>],
                \A k \in NonceKeys : main[q] = "fetch" /\ lane'[<<q, k>>] = "exited" =>
                    \/ lane[<<q, k>>] = "exited"
                    \/ reply'[<<q, k>>].kind = "failed"
                    \/ \E m \in nonces'[q] : m.key = k
         PROVE  FetchOK(q)'
  <2>1. CASE main[q] = "fetch"
    BY <1>same, <2>1 DEF FetchOK
  <2>2. CASE main[q] = "fatal"
    <3>1. \A k \in NonceKeys : reply'[<<q, k>>] = reply[<<q, k>>]
      BY <1>same, <2>2 DEF RoundOK
    <3>. QED
      BY <1>same, <2>2, <3>1 DEF FetchOK
  <2>3. CASE main[q] \notin {"fetch", "fatal"}
    BY <1>same, <2>3 DEF FetchOK
  <2>. QED
    BY <2>1, <2>2, <2>3
<1>1. ASSUME NEW p \in Programs, EndFetch(p) PROVE FetchOK(q)'
  <2>1. CASE q = p
    <3>1. /\ main[q] = "fetch" /\ started[q] = NonceKeys /\ UNCHANGED reply
          /\ main'[q] \in {"send", "fatal"} /\ (main'[q] = "fatal" => ~AllFetched(q))
      BY <1>1, <2>1 DEF EndFetch, Joined
    <3>2. \A k \in NonceKeys : lane[<<q, k>>] = "exited"
      BY <1>1, <2>1, JoinedMeansExited DEF EndFetch
    <3>3. main'[q] = "fatal" => \E k \in NonceKeys : ~ \E m \in nonces[q] : m.key = k
      BY <3>1, AllKeysFetched DEF MapOK
    <3>. QED
      BY <3>1, <3>2, <3>3 DEF FetchOK
  <2>2. CASE q # p
    BY <1>1, <1>same, <2>2 DEF EndFetch
  <2>. QED
    BY <2>1, <2>2
<1>2. ASSUME NEW p \in Programs, EndSend(p) PROVE FetchOK(q)'
  <2>1. CASE q = p
    BY <1>2, <2>1 DEF EndSend, FetchOK
  <2>2. CASE q # p
    BY <1>2, <1>same, <2>2 DEF EndSend
  <2>. QED
    BY <2>1, <2>2
<1>3. ASSUME NEW p \in Programs, NEW k \in NonceKeys, StartLane(p, k) PROVE FetchOK(q)'
  <2>1. /\ UNCHANGED <<main, nonces, reply>>
        /\ \E place \in {"ask", "sign"} : lane' = [lane EXCEPT ![<<p, k>>] = place]
        /\ started' = [started EXCEPT ![p] = @ \cup {k}]
    BY <1>3 DEF StartLane
  <2>2. \A j \in started'[q] : lane'[<<q, j>>] = "exited" =>
            j \in started[q] /\ lane[<<q, j>>] = "exited"
    BY <2>1
  <2>. QED
    BY <2>1, <2>2 DEF FetchOK
<1>4. ASSUME NEW p \in Programs, NEW k \in NonceKeys, Store(p, k) PROVE FetchOK(q)'
  <2> DEFINE e == Payment(k, reply[<<p, k>>].nonce)
  <2>1. e.key = k
    BY DEF Payment
  <2>. HIDE DEF e
  <2>2. nonces' = [nonces EXCEPT ![p] = @ \cup {e}]
    BY <1>4, StoreAdds DEF e
  <2>3. /\ lane' = [lane EXCEPT ![<<p, k>>] = "exited"]
        /\ UNCHANGED <<main, started, reply>>
    BY <1>4 DEF Store
  <2>4. \A j \in NonceKeys : lane'[<<q, j>>] = "exited" =>
            \/ lane[<<q, j>>] = "exited"
            \/ \E m \in nonces'[q] : m.key = j
    BY <2>1, <2>2, <2>3
  <2>5. nonces[q] \subseteq nonces'[q]
    BY <2>2
  <2>. QED
    BY <1>same, <2>3, <2>4, <2>5
<1>5. ASSUME NEW p \in Programs, NEW k \in NonceKeys, AskFailed(p, k) PROVE FetchOK(q)'
  BY <1>5, <1>same DEF AskFailed
<1>6. ASSUME NEW p \in Programs, NEW k \in NonceKeys, Ask(p, k) \/ Lock(p, k)
      PROVE  FetchOK(q)'
  BY <1>6, <1>same DEF Ask, Lock, BeginWrite
<1>7. ASSUME NEW p \in Programs, NEW k \in NonceKeys,
             SignFails(p, k) \/ Send(p, k) \/ SendFailed(p, k) \/ SendDone(p, k)
      PROVE  FetchOK(q)'
  <2>1. /\ UNCHANGED <<main, started, nonces>> /\ lane[<<p, k>>] \in {"sign", "sending"}
        /\ \E place : lane' = [lane EXCEPT ![<<p, k>>] = place]
        /\ reply' \in {reply, [reply EXCEPT ![<<p, k>>] = None]}
    BY <1>7 DEF SignFails, Send, SendFailed, SendDone, Complain
  <2>2. q = p => main[q] # "fetch"
    BY <2>1 DEF RoundOK
  <2>. QED
    BY <1>same, <2>1, <2>2
<1>8. ASSUME UNCHANGED programVars,
             \A k \in NonceKeys : lane[<<q, k>>] = "exited" =>
                 reply'[<<q, k>>] = reply[<<q, k>>]
      PROVE  FetchOK(q)'
  BY <1>8, <1>same DEF programVars
<1>9. ASSUME NEW p \in Programs, NEW k \in NonceKeys, CallFails(p, k) \/ NodeTellsNonce(p, k)
      PROVE  FetchOK(q)'
  BY <1>8, <1>9 DEF CallFails, NodeTellsNonce, Waiting
<1>10. ASSUME NEW c \in calls, NodeAccepts(c) \/ NodeRejects(c) \/ LoseCall(c)
       PROVE  FetchOK(q)'
  <2>1. PICK p \in Programs, k \in NonceKeys : c.by = <<p, k>>
    BY DEF SentPayments
  <2>2. \A j \in NonceKeys : lane[<<q, j>>] = "exited" => reply'[<<q, j>>] = reply[<<q, j>>]
    <3>1. ~Waiting(p, k) => reply' = reply
      BY <1>10, <2>1 DEF NodeAccepts, NodeRejects, LoseCall, NodeReply
    <3>2. Waiting(p, k) => lane[<<p, k>>] # "exited"
      BY DEF Waiting
    <3>3. \E m : reply' \in {reply, [reply EXCEPT ![<<p, k>>] = m]}
      BY <1>10, <2>1 DEF NodeAccepts, NodeRejects, LoseCall, NodeReply
    <3>. QED
      BY <3>1, <3>2, <3>3
  <2>. QED
    BY <1>8, <1>10, <2>2 DEF NodeAccepts, NodeRejects, LoseCall
<1>11. ASSUME NEW m \in pool, Mine(m) \/ Drop(m) PROVE FetchOK(q)'
  BY <1>8, <1>11 DEF Mine, Drop
<1>. QED
  BY <1>1, <1>2, <1>3, <1>4, <1>5, <1>6, <1>7, <1>9, <1>10, <1>11 DEF Next, Main, Goroutine, Node

\* In the second round a lane's payment is the map's, and the only one of its key.
LEMMA PaymentIsMapped ==
    ASSUME NEW p \in Programs, NEW k \in NonceKeys, MapOK(p), main[p] \in {"send", "done"}
    PROVE  /\ PaymentOf(p, k) \in nonces[p] /\ PaymentOf(p, k).key = k
           /\ \A m \in nonces[p] : m.key = k => m = PaymentOf(p, k)
<1>1. \E m \in nonces[p] : m.key = k
  BY DEF MapOK
<1>2. PaymentOf(p, k) = CHOOSE m \in nonces[p] : m.key = k
  BY <1>1 DEF PaymentOf
<1>3. PaymentOf(p, k) \in nonces[p] /\ PaymentOf(p, k).key = k
  BY <1>1, <1>2
<1>. QED
  BY <1>3 DEF MapOK

\* What a lane has sent stays sent, and the map is not written any more.
LEMMA SentKept ==
    ASSUME IInv, Next, NEW q \in Programs, NEW j \in NonceKeys, RoundOK(q), Sent(q, j)
    PROVE  Sent(q, j)' /\ nonces'[q] = nonces[q]
<1> USE DEF IInv, Shapes, Lanes, Goto, Exit, Sent
<1>1. ASSUME NEW p \in Programs, EndFetch(p) \/ EndSend(p)
      PROVE  Sent(q, j)' /\ nonces'[q] = nonces[q]
  BY <1>1 DEF EndFetch, EndSend
<1>2. ASSUME NEW p \in Programs, NEW k \in NonceKeys, StartLane(p, k)
      PROVE  Sent(q, j)' /\ nonces'[q] = nonces[q]
  BY <1>2 DEF StartLane
<1>3. ASSUME NEW p \in Programs, NEW k \in NonceKeys, Store(p, k)
      PROVE  Sent(q, j)' /\ nonces'[q] = nonces[q]
  BY <1>3 DEF Store, RoundOK
<1>4. ASSUME NEW p \in Programs, NEW k \in NonceKeys,
             Ask(p, k) \/ AskFailed(p, k) \/ Lock(p, k) \/ SignFails(p, k) \/ Send(p, k)
      PROVE  Sent(q, j)' /\ nonces'[q] = nonces[q]
  BY <1>4 DEF Ask, AskFailed, Lock, BeginWrite, SignFails, Send, Complain
<1>5. ASSUME NEW p \in Programs, NEW k \in NonceKeys, SendFailed(p, k) \/ SendDone(p, k)
      PROVE  Sent(q, j)' /\ nonces'[q] = nonces[q]
  BY <1>5 DEF SendFailed, SendDone, Complain
<1>6. ASSUME UNCHANGED programVars PROVE Sent(q, j)' /\ nonces'[q] = nonces[q]
  BY <1>6 DEF programVars
<1>7. ASSUME NEW p \in Programs, NEW k \in NonceKeys, CallFails(p, k) PROVE UNCHANGED programVars
  BY <1>7 DEF CallFails
<1>8. ASSUME Node PROVE UNCHANGED programVars
  BY <1>8 DEF Node, NodeAccepts, NodeRejects, LoseCall, NodeTellsNonce, Mine, Drop
<1>. QED
  BY <1>1, <1>2, <1>3, <1>4, <1>5, <1>6, <1>7, <1>8 DEF Next, Main, Goroutine

LEMMA CallsStep ==
    ASSUME IInv, Next, \A p \in Programs : RoundOK(p) /\ MapOK(p), CallsOK
    PROVE  CallsOK'
<1>1. ASSUME NEW c \in calls \cup accepted PROVE CallOK(c)'
  <2>1. c.by \in Programs \X NonceKeys
    BY DEF IInv, Shapes, SentPayments, Lanes
  <2>2. PICK p \in Programs, k \in NonceKeys : c.by = <<p, k>>
    BY <2>1
  <2>3. Sent(p, k) /\ c.payment \in nonces[p] /\ c.payment.key = k
    BY <2>2 DEF CallsOK, CallOK
  <2>4. Sent(p, k)' /\ nonces'[p] = nonces[p]
    BY <2>3, SentKept
  <2>. QED
    BY <2>2, <2>3, <2>4 DEF CallOK
<1>2. ASSUME NEW p \in Programs, NEW k \in NonceKeys, Send(p, k) PROVE CallsOK'
  <2>0. PICK c : c = [by |-> <<p, k>>, payment |-> PaymentOf(p, k)]
    OBVIOUS
  <2>1. /\ lane[<<p, k>>] = "sign" /\ lane' = [lane EXCEPT ![<<p, k>>] = "sending"]
        /\ calls' = calls \cup {c}
        /\ UNCHANGED <<main, started, nonces, accepted>>
    BY <1>2, <2>0 DEF Send, Goto
  <2>2. main[p] = "send" /\ k \in started[p]
    BY <2>1 DEF IInv, Shapes, Counted, Idle, RoundOK
  <2>3. c.by = <<p, k>> /\ c.payment \in nonces[p] /\ c.payment.key = k
    BY <2>0, <2>2, PaymentIsMapped
  <2>4. Sent(p, k)'
    BY <2>1, <2>2 DEF Sent, IInv, Shapes, Lanes
  <2>5. CallOK(c)'
    BY <2>1, <2>3, <2>4 DEF CallOK
  <2>6. c \notin accepted
    BY <2>1, <2>3 DEF CallsOK, CallOK, Sent
  <2>7. \A d \in calls' \cup accepted' : CallOK(d)'
    BY <1>1, <2>1, <2>5, Zenon
  <2>. QED
    BY <2>1, <2>6, <2>7 DEF CallsOK
<1>3. ASSUME NEW c \in calls, NodeAccepts(c) PROVE CallsOK'
  BY <1>1, <1>3 DEF NodeAccepts, CallsOK
<1>4. ASSUME calls' \subseteq calls, accepted' = accepted PROVE CallsOK'
  BY <1>1, <1>4 DEF CallsOK
<1>5. ASSUME NEW c \in calls, NodeRejects(c) \/ LoseCall(c) PROVE CallsOK'
  BY <1>4, <1>5 DEF NodeRejects, LoseCall
<1>6. ASSUME NEW p \in Programs, Main(p) PROVE CallsOK'
  BY <1>4, <1>6 DEF Main, EndFetch, EndSend, StartLane, nodeVars
<1>7. ASSUME NEW p \in Programs, NEW k \in NonceKeys,
             \/ Ask(p, k) \/ AskFailed(p, k) \/ Lock(p, k) \/ Store(p, k)
             \/ SignFails(p, k) \/ SendFailed(p, k) \/ SendDone(p, k)
             \/ CallFails(p, k) \/ NodeTellsNonce(p, k)
      PROVE  CallsOK'
  BY <1>4, <1>7 DEF Ask, AskFailed, Lock, Store, SignFails, SendFailed, SendDone, Complain,
                    CallFails, NodeTellsNonce, nodeVars
<1>8. ASSUME NEW m \in pool, Mine(m) \/ Drop(m) PROVE CallsOK'
  BY <1>4, <1>8 DEF Mine, Drop
<1>. QED
  BY <1>2, <1>3, <1>5, <1>6, <1>7, <1>8 DEF Next, Goroutine, Node

\* The node's own books.
LEMMA NodeStep ==
    ASSUME IInv, IInv', Next, NodeOK
    PROVE  NodeOK'
<1>0. /\ pool \subseteq Payments /\ nonce \in [NonceKeys -> 0..MaxNonce]
      /\ calls \subseteq SentPayments /\ accepted \subseteq SentPayments
  BY DEF IInv, Shapes
<1>1. ASSUME NEW c \in calls, NodeAccepts(c) PROVE NodeOK'
  <2>1. /\ accepted' = accepted \cup {c} /\ pool' = pool \cup {c.payment} /\ nonce' = nonce
        /\ c.payment.nonce = nonce[c.payment.key]
        /\ \A m \in pool : m.key # c.payment.key
    BY <1>1 DEF NodeAccepts, Acceptable
  <2>. QED
    BY <2>1 DEF NodeOK
<1>2. ASSUME NEW w \in pool, Mine(w) PROVE NodeOK'
  <2>1. /\ accepted' = accepted /\ pool' = pool \ {w}
        /\ nonce' = [nonce EXCEPT ![w.key] = @ + 1]
    BY <1>2 DEF Mine
  <2>2. w \in Payments /\ w.key \in NonceKeys /\ w = Payment(w.key, nonce[w.key])
    BY <1>0 DEF NodeOK, Payments, Payment
  <2>3. \E c \in accepted : c.payment = w
    BY DEF NodeOK
  <2>4. \A m \in pool' : m.key # w.key /\ m.key \in NonceKeys
    BY <1>0, <2>1 DEF NodeOK, Payments
  <2>5. (\A m \in pool : m.nonce = nonce[m.key] /\ \E c \in accepted : c.payment = m)'
    BY <1>0, <2>1, <2>4 DEF NodeOK
  <2>6. ASSUME NEW k \in NonceKeys, NEW i \in 0..MaxNonce, i < nonce'[k]
        PROVE  \E c \in accepted' : c.payment = Payment(k, i)
    <3>1. CASE i < nonce[k]
      BY <2>1, <3>1 DEF NodeOK
    <3>2. CASE ~(i < nonce[k])
      <4>1. nonce[k] \in Nat /\ nonce'[k] = IF k = w.key THEN nonce[k] + 1 ELSE nonce[k]
        BY <1>0, <2>1
      <4>2. k = w.key /\ i = nonce[k]
        BY <2>6, <3>2, <4>1
      <4>. QED
        BY <2>1, <2>2, <2>3, <4>2
    <3>. QED
      BY <3>1, <3>2
  <2>7. (\A m, n \in pool : m.key = n.key => m = n)'
    BY <2>1 DEF NodeOK
  <2>. QED
    BY <2>5, <2>6, <2>7 DEF NodeOK
<1>3. ASSUME pool' \subseteq pool, accepted' = accepted, nonce' = nonce PROVE NodeOK'
  BY <1>3 DEF NodeOK
<1>4. ASSUME NEW c \in calls, NodeRejects(c) \/ LoseCall(c) PROVE NodeOK'
  BY <1>3, <1>4 DEF NodeRejects, LoseCall
<1>5. ASSUME NEW m \in pool, Drop(m) PROVE NodeOK'
  BY <1>3, <1>5 DEF Drop
<1>6. ASSUME NEW p \in Programs, Main(p) PROVE NodeOK'
  BY <1>3, <1>6 DEF Main, EndFetch, EndSend, StartLane, nodeVars
<1>7. ASSUME NEW p \in Programs, NEW k \in NonceKeys,
             Goroutine(p, k) \/ CallFails(p, k) \/ NodeTellsNonce(p, k)
      PROVE  NodeOK'
  BY <1>3, <1>7 DEF Goroutine, Ask, AskFailed, Lock, Store, SignFails, Send, SendFailed,
                    SendDone, Complain, CallFails, NodeTellsNonce, nodeVars
<1>. QED
  BY <1>1, <1>2, <1>4, <1>5, <1>6, <1>7 DEF Next, Node


LEMMA ReplyKept ==
    ASSUME IInv, Next, NEW q \in Programs, NEW j \in NonceKeys, RoundOK(q), ReplyOK(q, j),
           reply'[<<q, j>>] = reply[<<q, j>>], accepted \subseteq accepted'
    PROVE  ReplyOK(q, j)'
<1> DEFINE r == reply[<<q, j>>]
<1>1. r.kind = "nonce" => r.nonce \in Nat
  <2>1. r \in Replies
    BY DEF IInv, Shapes, Lanes
  <2>. QED
    BY <2>1 DEF Replies
<1>2. r.kind = "nonce" => r.nonce <= nonce'[j]
  BY <1>1, NoncesGrow DEF ReplyOK
<1>3. r.kind \in {"hash", "rejected"} => Sent(q, j)' /\ nonces'[q] = nonces[q]
  BY SentKept DEF ReplyOK
<1>4. r.kind = "rejected" => PaymentOf(q, j)' = PaymentOf(q, j)
  BY <1>3 DEF PaymentOf
<1>. QED
  BY <1>2, <1>3, <1>4 DEF ReplyOK

\* Who took the nonce of a payment that is turned down: another run.
LEMMA RivalTookIt ==
    ASSUME IInv, \A p \in Programs : MapOK(p), CallsOK, NodeOK,
           NEW c \in calls, ~Acceptable(c.payment),
           NEW p \in Programs, NEW k \in NonceKeys, c.by = <<p, k>>
    PROVE  \E q \in Programs \ {p} :
               [by |-> <<q, k>>, payment |-> PaymentOf(p, k)] \in accepted
<1>0. /\ calls \subseteq SentPayments /\ accepted \subseteq SentPayments
      /\ pool \subseteq Payments /\ nonce \in [NonceKeys -> 0..MaxNonce]
  BY DEF IInv, Shapes
<1>1. /\ Sent(p, k) /\ c.payment \in nonces[p] /\ c.payment.key = k
      /\ c \notin accepted
  BY DEF CallsOK, CallOK
<1>2. c.payment = PaymentOf(p, k)
  BY <1>1, PaymentIsMapped DEF Sent
<1>3. c.payment \in Payments /\ c.payment.nonce <= nonce[k]
  BY <1>0, <1>1 DEF SentPayments, MapOK
<1>4. PICK d \in accepted : d.payment = c.payment
  <2>1. CASE c.payment.nonce < nonce[k]
    <3>1. c.payment = Payment(k, c.payment.nonce) /\ c.payment.nonce \in 0..MaxNonce
      BY <1>1, <1>3 DEF Payments, Payment
    <3>. QED
      BY <2>1, <3>1 DEF NodeOK
  <2>2. CASE ~(c.payment.nonce < nonce[k])
    <3>1. c.payment.nonce = nonce[k]
      BY <1>0, <1>3, <2>2 DEF Payments
    <3>2. PICK m \in pool : m.key = k
      BY <1>1, <3>1 DEF Acceptable
    <3>3. m \in Payments /\ m.nonce = nonce[k] /\ \E d \in accepted : d.payment = m
      BY <1>0, <3>2 DEF NodeOK
    <3>4. m = c.payment
      BY <1>1, <1>3, <3>1, <3>2, <3>3 DEF Payments
    <3>. QED
      BY <3>3, <3>4
  <2>. QED
    BY <2>1, <2>2
<1>5. d.by[2] = k /\ d.by \in Programs \X NonceKeys
      /\ d = [by |-> d.by, payment |-> d.payment]
  BY <1>0, <1>1, <1>4 DEF CallsOK, CallOK, SentPayments, Lanes
<1>6. PICK q \in Programs : d.by = <<q, k>>
  BY <1>5
<1>7. c = [by |-> c.by, payment |-> c.payment]
  BY <1>0 DEF SentPayments
<1>8. q # p
  BY <1>1, <1>4, <1>5, <1>6, <1>7
<1>. QED
  BY <1>2, <1>4, <1>5, <1>6, <1>8

LEMMA ReplyStep ==
    ASSUME IInv, IInv', Next, \A p \in Programs : RoundOK(p) /\ MapOK(p), CallsOK, NodeOK,
           NEW q \in Programs, NEW j \in NonceKeys, ReplyOK(q, j)
    PROVE  ReplyOK(q, j)'
<1>0. reply \in [Lanes -> Replies] /\ <<q, j>> \in Lanes
  BY DEF IInv, Shapes, Lanes
<1>1. ASSUME reply'[<<q, j>>].kind \in {"none", "failed"} PROVE ReplyOK(q, j)'
  BY <1>1 DEF ReplyOK
<1>2. ASSUME NEW p \in Programs, NEW k \in NonceKeys, Ask(p, k) \/ Send(p, k)
      PROVE  ReplyOK(q, j)'
  <2>1. reply' = [reply EXCEPT ![<<p, k>>] = None] /\ UNCHANGED accepted
    BY <1>2 DEF Ask, Send, nodeVars
  <2>2. CASE <<p, k>> = <<q, j>>
    BY <1>0, <1>1, <2>1, <2>2 DEF None
  <2>3. CASE <<p, k>> # <<q, j>>
    BY <1>0, <2>1, <2>3, ReplyKept
  <2>. QED
    BY <2>2, <2>3
<1>3. ASSUME NEW p \in Programs, NEW k \in NonceKeys, CallFails(p, k) PROVE ReplyOK(q, j)'
  <2>1. reply' = [reply EXCEPT ![<<p, k>>] = [kind |-> "failed"]] /\ UNCHANGED accepted
    BY <1>3 DEF CallFails, nodeVars
  <2>2. CASE <<p, k>> = <<q, j>>
    BY <1>0, <1>1, <2>1, <2>2
  <2>3. CASE <<p, k>> # <<q, j>>
    BY <1>0, <2>1, <2>3, ReplyKept
  <2>. QED
    BY <2>2, <2>3
<1>4. ASSUME NEW p \in Programs, NEW k \in NonceKeys, NodeTellsNonce(p, k)
      PROVE  ReplyOK(q, j)'
  <2>1. reply' = [reply EXCEPT ![<<p, k>>] = [kind |-> "nonce", nonce |-> nonce[k]]]
        /\ UNCHANGED <<accepted, nonce>>
    BY <1>4 DEF NodeTellsNonce, nodeVars
  <2>2. CASE p = q /\ k = j
    <3>1. reply'[<<q, j>>] = [kind |-> "nonce", nonce |-> nonce[j]]
      BY <1>0, <2>1, <2>2
    <3>2. nonce'[j] = nonce[j] /\ nonce[j] \in Nat
      BY <2>1, NoncesGrow
    <3>. QED
      BY <3>1, <3>2 DEF ReplyOK
  <2>3. CASE <<p, k>> # <<q, j>>
    BY <1>0, <2>1, <2>3, ReplyKept
  <2>. QED
    BY <2>2, <2>3
<1>5. ASSUME NEW c \in calls, NodeAccepts(c) \/ NodeRejects(c) PROVE ReplyOK(q, j)'
  <2>0. accepted \subseteq accepted' /\ c \in SentPayments
    BY <1>5 DEF NodeAccepts, NodeRejects, IInv, Shapes
  <2>1. PICK p \in Programs, k \in NonceKeys : c.by = <<p, k>>
    BY <2>0 DEF SentPayments, Lanes
  <2>2. CASE <<p, k>> # <<q, j>> \/ ~Waiting(p, k)
    <3>1. reply'[<<q, j>>] = reply[<<q, j>>]
      BY <1>0, <1>5, <2>1, <2>2 DEF NodeAccepts, NodeRejects, NodeReply
    <3>. QED
      BY <2>0, <3>1, ReplyKept
  <2>3. CASE p = q /\ k = j /\ Waiting(p, k)
    <3>1. Sent(q, j)' /\ nonces'[q] = nonces[q]
      BY <2>1, <2>3, SentKept DEF CallsOK, CallOK
    <3>2. PaymentOf(q, j)' = PaymentOf(q, j)
      BY <3>1 DEF PaymentOf
    <3>3. CASE NodeAccepts(c)
      <4>1. reply'[<<q, j>>] = [kind |-> "hash", hash |-> c.payment] /\ c \in accepted'
        BY <1>0, <2>1, <2>3, <3>3 DEF NodeAccepts, NodeReply
      <4>2. c = [by |-> <<q, j>>, payment |-> c.payment]
        BY <2>0, <2>1, <2>3 DEF SentPayments
      <4>. QED
        BY <3>1, <4>1, <4>2 DEF ReplyOK
    <3>4. CASE NodeRejects(c)
      <4>1. reply'[<<q, j>>] = [kind |-> "rejected"]
        BY <1>0, <2>1, <2>3, <3>4 DEF NodeRejects, NodeReply
      <4>2. \E p1 \in Programs \ {q} :
                [by |-> <<p1, j>>, payment |-> PaymentOf(q, j)] \in accepted
        BY <2>1, <2>3, <3>4, RivalTookIt DEF NodeRejects
      <4>. QED
        BY <2>0, <3>1, <3>2, <4>1, <4>2 DEF ReplyOK
    <3>. QED
      BY <1>5, <3>3, <3>4
  <2>. QED
    BY <2>2, <2>3
<1>6. ASSUME UNCHANGED <<reply, accepted>> PROVE ReplyOK(q, j)'
  BY <1>6, ReplyKept
<1>7. ASSUME NEW p \in Programs, Main(p) PROVE ReplyOK(q, j)'
  BY <1>6, <1>7 DEF Main, EndFetch, EndSend, StartLane, nodeVars
<1>8. ASSUME NEW p \in Programs, NEW k \in NonceKeys,
             \/ AskFailed(p, k) \/ Lock(p, k) \/ Store(p, k)
             \/ SignFails(p, k) \/ SendFailed(p, k) \/ SendDone(p, k)
      PROVE  ReplyOK(q, j)'
  BY <1>6, <1>8 DEF AskFailed, Lock, Store, SignFails, SendFailed, SendDone, Complain, nodeVars
<1>9. ASSUME NEW c \in calls, LoseCall(c) PROVE ReplyOK(q, j)'
  BY <1>6, <1>9 DEF LoseCall
<1>10. ASSUME NEW m \in pool, Mine(m) \/ Drop(m) PROVE ReplyOK(q, j)'
  BY <1>6, <1>10 DEF Mine, Drop
<1>. QED
  BY <1>2, <1>3, <1>4, <1>5, <1>7, <1>8, <1>9, <1>10 DEF Next, Goroutine, Node


\* What the node has accepted, it has accepted.
LEMMA AcceptedGrows ==
    ASSUME Next
    PROVE  accepted \subseteq accepted'
<1>1. ASSUME NEW p \in Programs, Main(p) PROVE accepted' = accepted
  BY <1>1 DEF Main, EndFetch, EndSend, StartLane, nodeVars
<1>2. ASSUME NEW p \in Programs, NEW k \in NonceKeys, Goroutine(p, k) PROVE accepted' = accepted
  BY <1>2 DEF Goroutine, Ask, AskFailed, Lock, Store, SignFails, Send, SendFailed, SendDone,
              Complain, nodeVars
<1>3. ASSUME NEW p \in Programs, NEW k \in NonceKeys, CallFails(p, k) PROVE accepted' = accepted
  BY <1>3 DEF CallFails, nodeVars
<1>4. ASSUME Node PROVE accepted \subseteq accepted'
  BY <1>4 DEF Node, NodeTellsNonce, NodeAccepts, NodeRejects, LoseCall, Mine, Drop, nodeVars
<1>. QED
  BY <1>1, <1>2, <1>3, <1>4 DEF Next

LEMMA ReportStep ==
    ASSUME IInv, Next, CallsOK, NEW q \in Programs, RoundOK(q), ReportOK(q),
           \A k \in NonceKeys : ReplyOK(q, k)
    PROVE  ReportOK(q)'
<1> USE DEF IInv, Shapes, Lanes, Goto, Exit
<1> DEFINE Got(m) == [by |-> <<q, m.key>>, payment |-> m]
<1>0. /\ results[q] \in Seq(Payments) /\ errors[q] \in Seq(NonceKeys)
      /\ IsFiniteSet(Out(q)) /\ Out(q) \subseteq NonceKeys
      /\ accepted \subseteq accepted'
  <2>1. Out(q) \subseteq NonceKeys
    BY DEF Out
  <2>. QED
    BY <2>1, AcceptedGrows, ProgramAssumption, FS_Subset
\* Those who have reported have sent.
<1>00. \A i \in 1..Len(results[q]) :
          /\ results[q][i].key \in Out(q) /\ Got(results[q][i]) \in accepted
          /\ main[q] \in {"send", "done"}
  <2>1. ASSUME NEW i \in 1..Len(results[q])
        PROVE  /\ results[q][i].key \in Out(q) /\ Got(results[q][i]) \in accepted
               /\ main[q] \in {"send", "done"}
    <3>1. Got(results[q][i]) \in accepted /\ lane[<<q, results[q][i].key>>] = "exited"
      BY DEF ReportOK
    <3>2. Sent(q, results[q][i].key)
      BY <3>1 DEF CallsOK, CallOK
    <3>. QED
      BY <3>1, <3>2 DEF Sent, Out
  <2>. QED
    BY <2>1
<1>same. ASSUME UNCHANGED <<results, errors>>, main'[q] = main[q], Out(q)' = Out(q)
         PROVE  ReportOK(q)'
  BY <1>0, <1>00, <1>same DEF ReportOK, Out
<1>1. ASSUME NEW p \in Programs, EndFetch(p) PROVE ReportOK(q)'
  <2>1. CASE q = p
    <3>1. /\ results'[q] = <<>> /\ errors'[q] = <<>> /\ Out(q)' = {}
          /\ main'[q] \in {"send", "fatal"}
      BY <1>1, <2>1 DEF EndFetch, ReportOK, Out
    <3>2. Cardinality(Out(q)') = 0
      BY <3>1, FS_EmptySet
    <3>. QED
      BY <3>1, <3>2 DEF ReportOK
  <2>2. CASE q # p
    <3>1. UNCHANGED <<results, errors>> /\ main'[q] = main[q] /\ Out(q)' = Out(q)
      BY <1>1, <2>2 DEF EndFetch, Out
    <3>. QED
      BY <1>same, <3>1
  <2>. QED
    BY <2>1, <2>2
<1>2. ASSUME NEW p \in Programs, EndSend(p) PROVE ReportOK(q)'
  <2>1. UNCHANGED <<results, errors, lane>> /\ Out(q)' = Out(q)
    BY <1>2 DEF EndSend, Out
  <2>2. CASE q = p
    <3>1. main[q] = "send" /\ main'[q] = "done"
      BY <1>2, <2>2 DEF EndSend
    <3>. QED
      BY <1>0, <2>1, <3>1 DEF ReportOK
  <2>3. CASE q # p
    BY <1>2, <1>same, <2>1, <2>3 DEF EndSend
  <2>. QED
    BY <2>2, <2>3
<1>3. ASSUME NEW p \in Programs, NEW k \in NonceKeys, StartLane(p, k) PROVE ReportOK(q)'
  <2>1. UNCHANGED <<results, errors, main>> /\ Out(q)' = Out(q)
    BY <1>3 DEF StartLane, Out
  <2>. QED
    BY <1>same, <2>1
<1>4. ASSUME NEW p \in Programs, NEW k \in NonceKeys,
             Ask(p, k) \/ Lock(p, k) \/ Send(p, k)
      PROVE  ReportOK(q)'
  <2>1. UNCHANGED <<results, errors, main>> /\ Out(q)' = Out(q)
    BY <1>4 DEF Ask, Lock, BeginWrite, Send, Out
  <2>. QED
    BY <1>same, <2>1
<1>5. ASSUME NEW p \in Programs, NEW k \in NonceKeys, AskFailed(p, k) \/ Store(p, k)
      PROVE  ReportOK(q)'
  <2>1. CASE q = p
    <3>1. main[q] = "fetch"
      BY <1>5, <2>1 DEF AskFailed, Store, RoundOK
    <3>2. results[q] = <<>> /\ errors[q] = <<>>
      BY <3>1 DEF ReportOK
    <3>3. UNCHANGED <<results, errors, main>>
      BY <1>5 DEF AskFailed, Store
    <3>. QED
      BY <3>1, <3>2, <3>3 DEF ReportOK
  <2>2. CASE q # p
    <3>1. UNCHANGED <<results, errors, main>> /\ Out(q)' = Out(q)
      BY <1>5, <2>2 DEF AskFailed, Store, Out
    <3>. QED
      BY <1>same, <3>1
  <2>. QED
    BY <2>1, <2>2
\* A lane that leaves the second round.
<1>leave. ASSUME NEW k \in NonceKeys, lane[<<q, k>>] \in {"sign", "sending"},
                 lane' = [lane EXCEPT ![<<q, k>>] = "exited"], UNCHANGED <<main, started>>
          PROVE  /\ main[q] = "send" /\ k \notin Out(q) /\ Out(q)' = Out(q) \cup {k}
                 /\ Cardinality(Out(q)') = Cardinality(Out(q)) + 1
                 /\ Cardinality(Out(q)) \in Nat
  <2>1. main[q] = "send"
    BY <1>leave DEF RoundOK
  <2>2. k \in started[q]
    BY <1>leave DEF Counted, Idle
  <2>3. k \notin Out(q) /\ Out(q)' = Out(q) \cup {k}
    BY <1>leave, <2>2 DEF Out
  <2>. QED
    BY <1>0, <2>1, <2>3, FS_AddElement, FS_CardinalityType
<1>6. ASSUME NEW p \in Programs, NEW k \in NonceKeys, SignFails(p, k) \/ SendFailed(p, k)
      PROVE  ReportOK(q)'
  <2>0. /\ lane[<<p, k>>] \in {"sign", "sending"}
        /\ lane' = [lane EXCEPT ![<<p, k>>] = "exited"]
        /\ errors' = [errors EXCEPT ![p] = Append(@, k)]
        /\ UNCHANGED <<main, started, results>>
    BY <1>6 DEF SignFails, SendFailed, Complain
  <2>1. CASE q = p
    <3>1. /\ main[q] = "send" /\ Out(q)' = Out(q) \cup {k}
          /\ Cardinality(Out(q)') = Cardinality(Out(q)) + 1 /\ Cardinality(Out(q)) \in Nat
      BY <1>leave, <2>0, <2>1
    <3>2. Len(errors'[q]) = Len(errors[q]) + 1 /\ Len(errors[q]) \in Nat
          /\ Len(results[q]) \in Nat
      BY <1>0, <2>0, <2>1
    <3>3. Len(results[q]) + Len(errors[q]) = Cardinality(Out(q))
      BY <3>1 DEF ReportOK
    <3>4. Len(results'[q]) + Len(errors'[q]) = Cardinality(Out(q)')
      BY <2>0, <3>1, <3>2, <3>3
    <3>5. \A i \in 1..Len(results[q]) : lane'[<<q, results[q][i].key>>] = "exited"
      BY <1>00, <2>0 DEF Out
    <3>6. main'[q] = "send" /\ results'[q] = results[q]
      BY <2>0, <3>1
    <3>7. \A i \in 1..Len(results[q]) : Got(results[q][i]) \in accepted'
      BY <1>0, <1>00
    <3>8. \A i, j \in 1..Len(results[q]) : results[q][i].key = results[q][j].key => i = j
      BY DEF ReportOK
    <3>. QED
      BY <3>4, <3>5, <3>6, <3>7, <3>8 DEF ReportOK
  <2>2. CASE q # p
    <3>1. results'[q] = results[q] /\ errors'[q] = errors[q] /\ main' = main
          /\ Out(q)' = Out(q)
      BY <2>0, <2>2 DEF Out
    <3>2. \A j \in NonceKeys : lane'[<<q, j>>] = lane[<<q, j>>]
      BY <2>0, <2>2
    <3>. QED
      BY <1>0, <1>00, <3>1, <3>2 DEF ReportOK, Out
  <2>. QED
    BY <2>1, <2>2
<1>7. ASSUME NEW p \in Programs, NEW k \in NonceKeys, SendDone(p, k) PROVE ReportOK(q)'
  <2>0. /\ lane[<<p, k>>] = "sending" /\ reply[<<p, k>>].kind = "hash"
        /\ lane' = [lane EXCEPT ![<<p, k>>] = "exited"]
        /\ results' = [results EXCEPT ![p] = Append(@, reply[<<p, k>>].hash)]
        /\ UNCHANGED <<main, started, errors>>
    BY <1>7 DEF SendDone
  <2>1. CASE q = p
    <3> DEFINE old == results[q]
               n == Len(old)
               h == reply[<<q, k>>].hash
    <3>1. /\ main[q] = "send" /\ k \notin Out(q) /\ Out(q)' = Out(q) \cup {k}
          /\ Cardinality(Out(q)') = Cardinality(Out(q)) + 1 /\ Cardinality(Out(q)) \in Nat
      BY <1>leave, <2>0, <2>1
    <3>2. [by |-> <<q, k>>, payment |-> h] \in accepted
      BY <2>0, <2>1 DEF ReplyOK
    <3>3. h.key = k /\ h \in Payments
      BY <3>2 DEF CallsOK, CallOK, SentPayments
    <3>4. results'[q] = Append(old, h)
      BY <2>0, <2>1
    <3>5. /\ n \in Nat /\ Len(results'[q]) = n + 1 /\ results'[q][n + 1] = h
          /\ \A i \in 1..n : results'[q][i] = old[i]
      BY <1>0, <3>3, <3>4
    <3>6. n + Len(errors[q]) = Cardinality(Out(q)) /\ Len(errors[q]) \in Nat
      BY <1>0, <3>1 DEF ReportOK
    <3>7. \A i \in 1..n : old[i].key # k /\ Got(old[i]) \in accepted'
                          /\ lane'[<<q, old[i].key>>] = "exited"
      BY <1>0, <1>00, <2>0, <3>1 DEF Out
    <3>8. Got(h) \in accepted' /\ lane'[<<q, h.key>>] = "exited"
      BY <1>0, <2>0, <2>1, <3>2, <3>3
    <3>9. \A i, j \in 1..n : old[i].key = old[j].key => i = j
      BY DEF ReportOK
    <3>. HIDE DEF n, h, old
    <3>10. \A i \in 1..(n + 1) : i \in 1..n \/ i = n + 1
      BY <3>5
    <3>11. \A i \in 1..Len(results'[q]) :
              /\ Got(results'[q][i]) \in accepted'
              /\ lane'[<<q, results'[q][i].key>>] = "exited"
      BY <3>5, <3>7, <3>8, <3>10
    <3>12. \A i, j \in 1..Len(results'[q]) : results'[q][i].key = results'[q][j].key => i = j
      BY <3>3, <3>5, <3>7, <3>9, <3>10
    <3>13. Len(results'[q]) + Len(errors'[q]) = Cardinality(Out(q)')
      BY <2>0, <3>1, <3>5, <3>6
    <3>14. main'[q] = "send"
      BY <2>0, <3>1
    <3>. QED
      BY <3>11, <3>12, <3>13, <3>14 DEF ReportOK
  <2>2. CASE q # p
    <3>1. results'[q] = results[q] /\ errors'[q] = errors[q] /\ main' = main
          /\ Out(q)' = Out(q)
      BY <2>0, <2>2 DEF Out
    <3>2. \A j \in NonceKeys : lane'[<<q, j>>] = lane[<<q, j>>]
      BY <2>0, <2>2
    <3>. QED
      BY <1>0, <1>00, <3>1, <3>2 DEF ReportOK, Out
  <2>. QED
    BY <2>1, <2>2
<1>8. ASSUME UNCHANGED programVars PROVE ReportOK(q)'
  <2>1. UNCHANGED <<results, errors, main>> /\ Out(q)' = Out(q)
    BY <1>8 DEF Out, programVars
  <2>. QED
    BY <1>same, <2>1
<1>9. ASSUME NEW p \in Programs, NEW k \in NonceKeys, CallFails(p, k) PROVE ReportOK(q)'
  BY <1>8, <1>9 DEF CallFails
<1>10. ASSUME Node PROVE ReportOK(q)'
  BY <1>8, <1>10 DEF Node, NodeAccepts, NodeRejects, LoseCall, NodeTellsNonce, Mine, Drop
<1>. QED
  BY <1>1, <1>2, <1>3, <1>4, <1>5, <1>6, <1>7, <1>9, <1>10 DEF Next, Main, Goroutine

LEMMA PaymentsStep == IInv /\ IInv' /\ PaymentsOK /\ [Next]_vars => PaymentsOK'
<1> SUFFICES ASSUME IInv, IInv', PaymentsOK, [Next]_vars PROVE PaymentsOK'
  OBVIOUS
<1>1. CASE Next
  <2>1. \A p \in Programs : RoundOK(p)' /\ FetchOK(p)' /\ MapOK(p)' /\ ReportOK(p)'
    BY <1>1, RoundStep, FetchStep, MapStep, ReportStep DEF PaymentsOK
  <2>2. CallsOK' /\ NodeOK'
    BY <1>1, CallsStep, NodeStep DEF PaymentsOK
  <2>3. \A p \in Programs, k \in NonceKeys : ReplyOK(p, k)'
    BY <1>1, ReplyStep DEF PaymentsOK
  <2>. QED
    BY <2>1, <2>2, <2>3 DEF PaymentsOK
<1>2. CASE UNCHANGED vars
  <2> USE <1>2 DEF vars, programVars, nodeVars
  <2>1. ASSUME NEW p \in Programs PROVE RoundOK(p)' /\ FetchOK(p)' /\ MapOK(p)' /\ ReportOK(p)'
    <3>1. RoundOK(p)' /\ FetchOK(p)' /\ MapOK(p)'
      BY DEF PaymentsOK, RoundOK, FetchOK, MapOK
    <3>2. Out(p)' = Out(p)
      BY DEF Out
    <3>3. ReportOK(p)'
      BY <3>2 DEF PaymentsOK, ReportOK
    <3>. QED
      BY <3>1, <3>3
  <2>2. CallsOK' /\ NodeOK'
    BY DEF PaymentsOK, CallsOK, CallOK, Sent, NodeOK
  <2>3. ASSUME NEW p \in Programs, NEW k \in NonceKeys PROVE ReplyOK(p, k)'
    <3>1. PaymentOf(p, k)' = PaymentOf(p, k)
      BY DEF PaymentOf
    <3>. QED
      BY <3>1 DEF PaymentsOK, ReplyOK, Sent
  <2>. QED
    BY <2>1, <2>2, <2>3 DEF PaymentsOK
<1>. QED
  BY <1>1, <1>2

LEMMA PaymentsInvariant == Spec => [](IInv /\ PaymentsOK)
<1>1. Init => PaymentsOK
  <2> SUFFICES ASSUME Init PROVE PaymentsOK
    OBVIOUS
  <2>1. ASSUME NEW p \in Programs PROVE RoundOK(p) /\ FetchOK(p) /\ MapOK(p) /\ ReportOK(p)
    BY DEF Init, RoundOK, FetchOK, MapOK, ReportOK, Lanes
  <2>2. CallsOK /\ NodeOK
    BY DEF Init, CallsOK, NodeOK
  <2>3. ASSUME NEW p \in Programs, NEW k \in NonceKeys PROVE ReplyOK(p, k)
    BY DEF Init, ReplyOK, None, Lanes
  <2>. QED
    BY <2>1, <2>2, <2>3 DEF PaymentsOK
<1>. QED
  BY <1>1, Invariant, PaymentsStep, PTL DEF Spec

\* A run gives up only if a read of its own failed: no write of the map is lost to
\* another, and main does not look before they are done (main.go:106-114).
THEOREM NoNonceIsLostHolds == Spec => []NoNonceIsLost
<1>1. PaymentsOK => NoNonceIsLost
  BY DEF PaymentsOK, FetchOK, NoNonceIsLost
<1>. QED
  BY PaymentsInvariant, <1>1, PTL

\* Whatever the replies, and whoever else uses the account, a run only sends nonces it
\* has read, and none ahead of the node (main.go:98-117, 128-135).
THEOREM NoGuessedNonceHolds == Spec => []NoGuessedNonce
<1>1. IInv /\ PaymentsOK => NoGuessedNonce
  <2> SUFFICES ASSUME IInv, PaymentsOK, NEW c \in calls
               PROVE  /\ c.payment \in nonces[c.by[1]]
                      /\ c.payment.nonce <= nonce[c.payment.key]
    BY DEF NoGuessedNonce
  <2>1. c.payment \in nonces[c.by[1]] /\ c.by[1] \in Programs
    BY DEF PaymentsOK, CallsOK, CallOK, IInv, Shapes, SentPayments, Lanes
  <2>. QED
    BY <2>1 DEF PaymentsOK, MapOK
<1>. QED
  BY PaymentsInvariant, <1>1, PTL

\* The count that main logs is of distinct payments that the node accepted, and the
\* rest are errors, for any number of lanes (main.go:159-176).
THEOREM CountIsHonestHolds == Spec => []CountIsHonest
<1>1. IInv /\ PaymentsOK => CountIsHonest
  <2> SUFFICES ASSUME IInv, PaymentsOK, NEW p \in Programs, main[p] = "done"
               PROVE  /\ Len(results[p]) + Len(errors[p]) = N
                      /\ \A i \in 1..Len(results[p]) : \E k \in NonceKeys :
                            [by |-> <<p, k>>, payment |-> results[p][i]] \in accepted
                      /\ \A i, j \in 1..Len(results[p]) : results[p][i] = results[p][j] => i = j
    BY DEF CountIsHonest
  <2>1. Out(p) = NonceKeys
    BY DEF PaymentsOK, RoundOK, Out
  <2>2. Len(results[p]) + Len(errors[p]) = N
    BY <2>1 DEF PaymentsOK, ReportOK, N
  <2>3. \A i \in 1..Len(results[p]) :
           [by |-> <<p, results[p][i].key>>, payment |-> results[p][i]] \in accepted
    BY DEF PaymentsOK, ReportOK
  <2>4. \A i \in 1..Len(results[p]) : results[p][i].key \in NonceKeys
    <3>1. results[p] \in Seq(Payments)
      BY DEF IInv, Shapes
    <3>2. \A i \in 1..Len(results[p]) : results[p][i] \in Payments
      BY <3>1
    <3>. QED
      BY <3>2 DEF Payments
  <2>5. \A i, j \in 1..Len(results[p]) : results[p][i] = results[p][j] => i = j
    BY DEF PaymentsOK, ReportOK
  <2>. QED
    BY <2>2, <2>3, <2>4, <2>5
<1>. QED
  BY PaymentsInvariant, <1>1, PTL

\* The lanes of one run do not collide, and a nonce is lost only to another run
\* (main.go:43-44, 128-135).
THEOREM OnlyRivalsCollideHolds == Spec => []OnlyRivalsCollide
<1>1. PaymentsOK => OnlyRivalsCollide
  BY DEF PaymentsOK, ReplyOK, OnlyRivalsCollide
<1>. QED
  BY PaymentsInvariant, <1>1, PTL
=============================================================================
