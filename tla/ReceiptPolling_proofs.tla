------------------------ MODULE ReceiptPolling_proofs ------------------------
(***************************************************************************)
(* Proofs about ReceiptPolling, for any number of calls, transactions and  *)
(* contexts, with timers of either kind, in any mixture.                   *)
(*                                                                         *)
(* The invariant ties, for each call, what is in flight and what the timer *)
(* holds to the place in the loop. It makes the cause of a return true, and*)
(* it shows that a drain always finds its tick. Every step is then a step  *)
(* of ReceiptWait or none of its business.                                 *)
(***************************************************************************)
EXTENDS ReceiptPolling, TLAPS

\* An answer in flight is true: a failure happened, a receipt is the one asked for.
AnswerTrue(w) ==
    /\ response[w].kind \in Failures => response[w].kind \in failed[w]
    /\ response[w].kind = "receipt" => response[w].hash = HashOf(w) /\ HashOf(w) \in mined

\* A timer runs, or has a tick, in the select; only a tick is left to drain, by a
\* call whose context is over; nowhere else is there a timer.
TimerInPlace(w) ==
    /\ pc[w] \notin {"select", "drain"} => timer[w] = "off"
    /\ pc[w] = "select" => timer[w] \in {"armed", "fired"}
    /\ pc[w] = "drain" => timer[w] = "fired" /\ Over(w)

\* There is a result when the call has returned, and its cause is the true one.
ResultTrue(w) ==
    /\ pc[w] = "returned" <=> result[w].kind # "none"
    /\ result[w].kind = "receipt" => result[w].hash = HashOf(w)
    /\ result[w].kind = "error" =>
           \/ Over(w) /\ result[w].cause = ended[ContextOf(w)]
           \/ \E failure \in failed[w] : result[w].cause = CauseOf(failure)

IInv == TypeOK /\ \A w \in Waiters : AnswerTrue(w) /\ TimerInPlace(w) /\ ResultTrue(w)

-----------------------------------------------------------------------------
(* Type correctness.                                                       *)

LEMMA InitType == Init => TypeOK
  BY DEF Init, TypeOK, None, Causes, ContextErrors

\* No step of a call, and none of its environment, leaves the types: what a drain
\* returns has a cause because the context is over.
LEMMA NextType == IInv /\ [Next]_vars => TypeOK'
<1> SUFFICES ASSUME TypeOK, [Next]_vars, \A w \in Waiters : TimerInPlace(w)
             PROVE  TypeOK'
  BY DEF IInv
<1> USE DEF TypeOK, Causes, Over
<1>1. ASSUME NEW w \in Waiters, Poll(w) PROVE TypeOK'
  BY <1>1 DEF Poll
<1>2. ASSUME NEW w \in Waiters, AbortPoll(w) PROVE TypeOK'
  BY <1>2 DEF AbortPoll, Return, ContextError, None
<1>3. ASSUME NEW w \in Waiters, ReturnReceipt(w) PROVE TypeOK'
  <2>1. response[w] \in [kind : {"receipt"}, hash : Hashes]
    BY <1>3 DEF ReturnReceipt, Failures, NoReceipt
  <2>. QED
    BY <1>3, <2>1 DEF ReturnReceipt, Return, None
<1>4. ASSUME NEW w \in Waiters, ReturnError(w) PROVE TypeOK'
  BY <1>4 DEF ReturnError, Return, None
<1>5. ASSUME NEW w \in Waiters, StartTimer(w) PROVE TypeOK'
  BY <1>5 DEF StartTimer, None
<1>6. ASSUME NEW w \in Waiters, SelectTimer(w) PROVE TypeOK'
  BY <1>6 DEF SelectTimer
<1>7. ASSUME NEW w \in Waiters, SelectDone(w) PROVE TypeOK'
  BY <1>7 DEF SelectDone, Return, ContextError
<1>8. ASSUME NEW w \in Waiters, Drain(w) PROVE TypeOK'
  BY <1>8 DEF Drain, Return, ContextError, TimerInPlace
<1>9. ASSUME NEW w \in Waiters, NEW kind \in NoReceipt \cup {"receipt"}, NodeAnswers(w, kind)
      PROVE  TypeOK'
  <2>1. HashOf(w) \in Hashes
    BY WaiterAssumption
  <2>. QED
    BY <1>9, <2>1 DEF NodeAnswers
<1>10. ASSUME NEW w \in Waiters, NEW failure \in Failures, CallFails(w, failure) PROVE TypeOK'
  <2>1. response' \in [Waiters -> [kind : {"none"} \cup Failures \cup NoReceipt]
                                      \cup [kind : {"receipt"}, hash : Hashes]]
    BY <1>10 DEF CallFails
  <2>2. failed' \in [Waiters -> SUBSET Failures]
    BY <1>10 DEF CallFails
  <2>. QED
    BY <1>10, <2>1, <2>2 DEF CallFails
<1>11. ASSUME NEW w \in Waiters, TimerFires(w) PROVE TypeOK'
  BY <1>11 DEF TimerFires
<1>12. ASSUME NEW c \in Contexts, NEW how \in ContextErrors, ContextEnds(c, how) PROVE TypeOK'
  BY <1>12 DEF ContextEnds, waiterVars
<1>13. ASSUME NEW h \in Hashes, Mine(h) PROVE TypeOK'
  BY <1>13 DEF Mine, waiterVars
<1>14. CASE UNCHANGED vars
  BY <1>14 DEF vars, waiterVars
<1>. QED
  BY <1>1, <1>2, <1>3, <1>4, <1>5, <1>6, <1>7, <1>8, <1>9, <1>10, <1>11, <1>12,
     <1>13, <1>14 DEF Next, Waiter

-----------------------------------------------------------------------------
(* The invariant.                                                          *)

LEMMA InitInvariant == Init => IInv
  BY InitType DEF Init, IInv, AnswerTrue, TimerInPlace, ResultTrue, Failures, None

LEMMA NextInvariant == IInv /\ [Next]_vars => IInv'
<1> SUFFICES ASSUME IInv, [Next]_vars,
                    NEW u \in Waiters
             PROVE  (AnswerTrue(u) /\ TimerInPlace(u) /\ ResultTrue(u))'
  BY NextType DEF IInv
<1> USE DEF IInv, TypeOK, AnswerTrue, TimerInPlace, ResultTrue
<1> DEFINE Kept == (AnswerTrue(u) /\ TimerInPlace(u) /\ ResultTrue(u))'
<1>1. ASSUME NEW w \in Waiters, Poll(w) PROVE Kept
  BY <1>1 DEF Poll, Over
<1>2. ASSUME NEW w \in Waiters, AbortPoll(w) PROVE Kept
  BY <1>2 DEF AbortPoll, Return, ContextError, None, Failures, Over
<1>3. ASSUME NEW w \in Waiters, ReturnReceipt(w) PROVE Kept
  <2>1. CASE u = w
    BY <1>3, <2>1 DEF ReturnReceipt, Return, None, Failures
  <2>2. CASE u # w
    BY <1>3, <2>2 DEF ReturnReceipt, Return, Over
  <2>. QED
    BY <2>1, <2>2
<1>4. ASSUME NEW w \in Waiters, ReturnError(w) PROVE Kept
  BY <1>4 DEF ReturnError, Return, None, Failures, NoReceipt, Over
<1>5. ASSUME NEW w \in Waiters, StartTimer(w) PROVE Kept
  BY <1>5 DEF StartTimer, None, Failures, Over
<1>6. ASSUME NEW w \in Waiters, SelectTimer(w) PROVE Kept
  BY <1>6 DEF SelectTimer, Over
<1>7. ASSUME NEW w \in Waiters, SelectDone(w) PROVE Kept
  BY <1>7 DEF SelectDone, Return, ContextError, StopReports, Over
<1>8. ASSUME NEW w \in Waiters, Drain(w) PROVE Kept
  BY <1>8 DEF Drain, Return, ContextError, Over
<1>9. ASSUME NEW w \in Waiters, NEW kind \in NoReceipt \cup {"receipt"},
             NodeAnswers(w, kind) PROVE Kept
  BY <1>9 DEF NodeAnswers, Failures, NoReceipt, None, Over
<1>10. ASSUME NEW w \in Waiters, NEW failure \in Failures,
             CallFails(w, failure) PROVE Kept
  <2>1. failed'[w] = failed[w] \cup {failure} /\ response'[w].kind = failure
    BY <1>10 DEF CallFails
  <2>2. CASE u = w
    <3>1. failure # "receipt"
      BY DEF Failures
    <3>2. AnswerTrue(u)'
      BY <2>1, <2>2, <3>1
    <3>3. TimerInPlace(u)'
      BY <1>10, <2>2 DEF CallFails, Over
    <3>4. ResultTrue(u)'
      BY <1>10, <2>1, <2>2 DEF CallFails, Over
    <3>. QED
      BY <3>2, <3>3, <3>4
  <2>3. CASE u # w
    BY <1>10, <2>3 DEF CallFails, Over
  <2>. QED
    BY <2>2, <2>3
<1>11. ASSUME NEW w \in Waiters, TimerFires(w) PROVE Kept
  BY <1>11 DEF TimerFires, Over
<1>12. ASSUME NEW c \in Contexts, NEW how \in ContextErrors, ContextEnds(c, how) PROVE Kept
  BY <1>12 DEF ContextEnds, Over, waiterVars
<1>13. ASSUME NEW h \in Hashes, Mine(h) PROVE Kept
  BY <1>13 DEF Mine, waiterVars, Over
<1>14. CASE UNCHANGED vars
  BY <1>14 DEF vars, waiterVars, Over
<1>. QED
  BY <1>1, <1>2, <1>3, <1>4, <1>5, <1>6, <1>7, <1>8, <1>9, <1>10, <1>11, <1>12,
     <1>13, <1>14 DEF Next, Waiter

LEMMA Invariant == Spec => []IInv
<1>. QED
  BY InitInvariant, NextInvariant, PTL DEF Spec

\* Every call of WaitForReceipt is at one of its places, with a timer, an answer
\* and a result of the right shape (client.go:304-327).
THEOREM TypeCorrect == Spec => []TypeOK
<1>1. IInv => TypeOK
  BY DEF IInv
<1>. QED
  BY Invariant, <1>1, PTL

\* The cause a caller is told is the true one (client.go:304-327).
THEOREM CauseIsTrueHolds == Spec => []CauseIsTrue
<1>1. IInv => CauseIsTrue
  BY DEF IInv, ResultTrue, CauseIsTrue
<1>. QED
  BY Invariant, <1>1, PTL

\* A call that has returned leaves no timer and no tick behind (client.go:316-323).
THEOREM NoTimerLeftHolds == Spec => []NoTimerLeft
<1>1. IInv => NoTimerLeft
  BY DEF IInv, TimerInPlace, NoTimerLeft
<1>. QED
  BY Invariant, <1>1, PTL

\* The read of the timer's channel after Stop never blocks (client.go:321).
THEOREM DrainNeverBlocksHolds == Spec => []DrainNeverBlocks
<1>1. IInv => DrainNeverBlocks
  BY DEF IInv, TimerInPlace, DrainNeverBlocks
<1>. QED
  BY Invariant, <1>1, PTL

-----------------------------------------------------------------------------
(* The refinement, as far as safety goes.                                  *)

LEMMA InitRefines == Init => Wait!Init
  BY DEF Init, Wait!Init, Over, None

\* Only four kinds of steps mean something to ReceiptWait: the chain's, the context
\* owners', a failing request, and a return; each is one of its steps.
LEMMA StepRefines == IInv /\ [Next]_vars => [Wait!Next]_(Wait!vars)
<1> SUFFICES ASSUME IInv, [Next]_vars PROVE [Wait!Next]_(Wait!vars)
  OBVIOUS
<1> DEFINE over == {w \in Waiters : Over(w)}
           fails == {w \in Waiters : failed[w] # {}}
           outcome == [w \in Waiters |-> result[w].kind]
           Stutters == mined' = mined /\ over' = over /\ fails' = fails
                         /\ outcome' = outcome
<1>0. Stutters => UNCHANGED Wait!vars
  BY DEF Wait!vars
<1> USE DEF IInv, TypeOK
<1>1. ASSUME NEW w \in Waiters, Return(w, ContextError(w)), Over(w), pc[w] # "returned",
             UNCHANGED <<ended, mined, failed>>
      PROVE  Wait!Next
  <2>1. result[w].kind = "none"
    BY <1>1 DEF ResultTrue
  <2>2. outcome' = [outcome EXCEPT ![w] = "error"]
    BY <1>1 DEF Return, ContextError
  <2>3. over' = over /\ w \in over
    BY <1>1 DEF Over
  <2>. QED
    BY <1>1, <2>1, <2>2, <2>3 DEF Wait!Next, Wait!ReturnError, Wait!Return
<1>2. ASSUME NEW w \in Waiters, ReturnReceipt(w) PROVE Wait!Next
  <2>1. /\ result[w].kind = "none" /\ HashOf(w) \in mined
    BY <1>2 DEF ResultTrue, AnswerTrue, ReturnReceipt
  <2>2. outcome' = [outcome EXCEPT ![w] = "receipt"]
    BY <1>2 DEF ReturnReceipt, Return
  <2>3. over' = over
    BY <1>2 DEF ReturnReceipt, Over
  <2>. QED
    BY <1>2, <2>1, <2>2, <2>3 DEF ReturnReceipt, Wait!Next, Wait!ReturnReceipt, Wait!Return
<1>3. ASSUME NEW w \in Waiters, ReturnError(w) PROVE Wait!Next
  <2>1. result[w].kind = "none" /\ w \in fails
    BY <1>3 DEF ResultTrue, AnswerTrue, ReturnError
  <2>2. outcome' = [outcome EXCEPT ![w] = "error"]
    BY <1>3 DEF ReturnError, Return
  <2>3. over' = over
    BY <1>3 DEF ReturnError, Over
  <2>. QED
    BY <1>3, <2>1, <2>2, <2>3 DEF ReturnError, Wait!Next, Wait!ReturnError, Wait!Return
<1>4. ASSUME NEW w \in Waiters, NEW failure \in Failures, CallFails(w, failure)
      PROVE  Wait!Next
  <2>1. result[w].kind = "none"
    BY <1>4 DEF ResultTrue, CallFails
  <2>2. outcome' = outcome /\ over' = over /\ fails' = fails \cup {w}
    BY <1>4 DEF CallFails, Over
  <2>. QED
    BY <1>4, <2>1, <2>2 DEF CallFails, Wait!Next, Wait!Fail
<1>5. ASSUME NEW c \in Contexts, NEW how \in ContextErrors, ContextEnds(c, how) PROVE Wait!Next
  <2> DEFINE W == {w \in Waiters : ContextOf(w) = c}
  <2>1. over' = over \cup W /\ W \in SUBSET Waiters
    BY <1>5 DEF ContextEnds, Over, ContextErrors
  <2>2. outcome' = outcome
    BY <1>5 DEF ContextEnds, waiterVars
  <2>. QED
    BY <1>5, <2>1, <2>2 DEF ContextEnds, Wait!Next, Wait!End
<1>6. ASSUME NEW h \in Hashes, Mine(h) PROVE Wait!Next
  <2>1. over' = over /\ outcome' = outcome
    BY <1>6 DEF Mine, Over, waiterVars
  <2>. QED
    BY <1>6, <2>1 DEF Mine, Wait!Next, Wait!Mine
<1>7. ASSUME NEW w \in Waiters, AbortPoll(w) PROVE Wait!Next
  BY <1>1, <1>7 DEF AbortPoll
<1>8. ASSUME NEW w \in Waiters, Drain(w) PROVE Wait!Next
  BY <1>1, <1>8 DEF Drain, TimerInPlace
<1>9. ASSUME NEW w \in Waiters, SelectDone(w) PROVE Wait!Next \/ Stutters
  <2>1. CASE StopReports(w)
    BY <1>1, <1>9, <2>1 DEF SelectDone
  <2>2. CASE ~StopReports(w)
    BY <1>9, <2>2 DEF SelectDone, Over
  <2>. QED
    BY <2>1, <2>2
<1>10. ASSUME NEW w \in Waiters,
              \/ Poll(w) \/ StartTimer(w) \/ SelectTimer(w) \/ TimerFires(w)
              \/ \E kind \in NoReceipt \cup {"receipt"} : NodeAnswers(w, kind)
       PROVE  Stutters
  BY <1>10 DEF Poll, StartTimer, SelectTimer, TimerFires, NodeAnswers, Over
<1>11. CASE UNCHANGED vars
  BY <1>0, <1>11 DEF vars, waiterVars, Over
<1>. QED
  BY <1>0, <1>2, <1>3, <1>4, <1>5, <1>6, <1>7, <1>8, <1>9, <1>10, <1>11
     DEF Next, Waiter

\* Every behaviour of the loop, its timers and requests is one that ReceiptWait
\* allows: a receipt is one the chain has, an error has a reason, and a call returns
\* once (client.go:304-327). That it does return is liveness, and TLC's.
THEOREM PollingRefinesWait == Spec => Wait!Init /\ [][Wait!Next]_(Wait!vars)
<1>. QED
  BY InitRefines, StepRefines, Invariant, PTL DEF Spec
=============================================================================
