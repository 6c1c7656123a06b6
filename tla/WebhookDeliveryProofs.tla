------------------------ MODULE WebhookDeliveryProofs ------------------------
(***************************************************************************)
(* Proofs about WebhookDelivery, for every number of deliveries, workers   *)
(* and events, every ladder and every limit of failures.                   *)
(***************************************************************************)
EXTENDS WebhookDelivery, FiniteSetTheorems, TLAPS

USE WebhookAssumption DEF hookVars, rowVars, jobVars, bounds

-----------------------------------------------------------------------------
(* The inductive invariant *)

\* An owed row has a rung of its ladder left, and nobody works at a row that is
\* not there yet.
RowsOK ==
    \A d \in Deliveries :
        /\ status[d] \in OWED => attempts[d] < MaxAttempts
        /\ status[d] = "none" => attempts[d] = 0 /\ \A w \in Workers : pc[w][d] = "no"

\* An idle worker attempts nothing.
IdleOK == \A w \in Workers : mode[w] = "idle" => \A d \in Deliveries : pc[w][d] = "no"

\* Who is about to write a row delivered, or wrote it, had the receiver's answer.
AnswerOK ==
    \A d \in Deliveries :
        /\ status[d] = "DELIVERED" => d \in accepted
        /\ \A w \in Workers : pc[w][d] = "ok" => d \in accepted

\* A row in flight is leased: it is not due.
LeaseOK ==
    overruns = 0 =>
        \A d \in Deliveries, w \in Workers :
            pc[w][d] \in InFlight /\ status[d] \in OWED => ~due[d]

\* A test that is owed its attempt is in the hands of its own call.
TestOK ==
    faults = 0 /\ overruns = 0 =>
        \A d \in Deliveries :
            source[d] = "test" /\ status[d] \in OWED =>
                ~due[d] /\ \E w \in Workers : mode[w] = "test" /\ pc[w][d] \in InFlight

Inv == TypeOK /\ RowsOK /\ IdleOK /\ AnswerOK /\ LeaseOK /\ OneAttempt /\ TestOK
       /\ TestIsOnce /\ LimitTurnsOff

-----------------------------------------------------------------------------
(* Types *)

LEMMA TypeNext ==
    ASSUME TypeOK, RowsOK, [Next]_vars
    PROVE  TypeOK'
  <1>1. ASSUME NEW e \in Events, FanOutRead(e) PROVE TypeOK'
    BY <1>1 DEF FanOutRead, TypeOK, RowsOK, OWED, Settled, Steps, InFlight
  <1>2. ASSUME NEW e \in Events, FanOutWrite(e) PROVE TypeOK'
    <2>1. CASE UNCHANGED <<status, source, attempts, due, expired>>
      BY <1>2, <2>1 DEF FanOutWrite, TypeOK, RowsOK, OWED, Settled, Steps, InFlight
    <2>2. ASSUME NEW d \in Deliveries, Create(d, e, TRUE) PROVE TypeOK'
      BY <1>2, <2>2 DEF FanOutWrite, Create, TypeOK, RowsOK, OWED, Settled, Steps, InFlight
    <2>3. QED
      BY <1>2, <2>1, <2>2 DEF FanOutWrite
  <1>3. ASSUME NEW d \in Deliveries, Wake(d) PROVE TypeOK'
    BY <1>3 DEF Wake, Held, TypeOK, RowsOK, OWED, Settled, Steps, InFlight
  <1>4. ASSUME NEW d \in Deliveries, Expire(d) PROVE TypeOK'
    BY <1>4 DEF Expire, TypeOK, RowsOK, OWED, Settled, Steps, InFlight
  <1>5. ASSUME NEW d \in Deliveries, Prune(d) PROVE TypeOK'
    BY <1>5 DEF Prune, TypeOK, RowsOK, OWED, Settled, Steps, InFlight
  <1>6. CASE Pause
    BY <1>6 DEF Pause, Operates, TypeOK, RowsOK, OWED, Settled, Steps, InFlight
  <1>7. CASE Resume
    BY <1>7 DEF Resume, Operates, TypeOK, RowsOK, OWED, Settled, Steps, InFlight
  <1>8. CASE Delete
    BY <1>8 DEF Delete, Operates, Exists, TypeOK, RowsOK, OWED, Settled, Steps, InFlight
  <1>9. CASE Switch
    BY <1>9 DEF Switch, Operates, TypeOK, RowsOK, OWED, Settled, Steps, InFlight
  <1>10. CASE Redeliver
    BY <1>10 DEF Redeliver, Operates, Create, TypeOK, RowsOK, OWED, Settled, Steps, InFlight
  <1>11. ASSUME NEW w \in Workers, Test(w) PROVE TypeOK'
    BY <1>11 DEF Test, Operates, Create, Takes, TypeOK, RowsOK, OWED, Settled, Steps,
       InFlight
  <1>12. ASSUME NEW w \in Workers, Claim(w) PROVE TypeOK'
    BY <1>12 DEF Claim, Takes, Due, TypeOK, RowsOK, OWED, Settled, Steps, InFlight
  <1>13. ASSUME NEW w \in Workers, End(w) PROVE TypeOK'
    BY <1>13 DEF End, Leaves, TypeOK, RowsOK, OWED, Settled, Steps, InFlight
  <1>14. ASSUME NEW w \in Workers, Crash(w) PROVE TypeOK'
    BY <1>14 DEF Crash, Leaves, Faulty, TypeOK, RowsOK, OWED, Settled, Steps, InFlight
  <1>15. ASSUME NEW w \in Workers, NEW d \in Deliveries, Begin(w, d) PROVE TypeOK'
    <2>1. /\ pc[w][d] = "begin"
          /\ UNCHANGED <<hookVars, lock, mode, seen, active, gate, accepted, notices,
                         resumes, bounds>>
      BY <1>15 DEF Begin
    <2>2. CASE mode[w] = "sweep" /\ Settle(d, "GIVEN_UP", attempts[d]) /\ Goes(w, d, "no")
      BY <2>1, <2>2 DEF Settle, Goes, TypeOK, RowsOK, OWED, Settled, Steps, InFlight
    <2>3. CASE Goes(w, d, "dial") /\ UNCHANGED rowVars
      BY <2>1, <2>3 DEF Settle, Goes, TypeOK, RowsOK, OWED, Settled, Steps, InFlight
    <2>4. QED
      BY <1>15, <2>2, <2>3 DEF Begin
  <1>16. ASSUME NEW w \in Workers, NEW d \in Deliveries, Dial(w, d) PROVE TypeOK'
    <2>1. /\ pc[w][d] = "dial"
          /\ UNCHANGED <<hookVars, lock, mode, seen, active, accepted, notices, resumes,
                         bounds>>
      BY <1>16 DEF Dial
    <2>2. gate' \in [Workers -> {"unread", "on", "off"}]
      <3>1. \/ gate' = gate
            \/ gate' = [gate EXCEPT ![w] = "on"]
            \/ gate' = [gate EXCEPT ![w] = "off"]
        BY <1>16 DEF Dial, TypeOK
      <3>2. QED
        BY <3>1 DEF TypeOK
    <2>3. ASSUME NEW to \in {"failed", "send"}, Goes(w, d, to), UNCHANGED rowVars PROVE
        TypeOK'
      BY <2>1, <2>2, <2>3 DEF Settle, Goes, TypeOK, RowsOK, OWED, Settled, Steps, InFlight
    <2>4. CASE Settle(d, IF mode[w] = "test" THEN "GIVEN_UP" ELSE status[d], attempts[d]) /\
        Goes(w, d, "no")
      BY <2>1, <2>2, <2>4 DEF Settle, Goes, TypeOK, RowsOK, OWED, Settled, Steps, InFlight
    <2>5. QED
      BY <1>16, <2>3, <2>4 DEF Dial
  <1>17. ASSUME NEW w \in Workers, NEW d \in Deliveries, Send(w, d) PROVE TypeOK'
    <2>1. /\ pc[w][d] = "send"
          /\ UNCHANGED <<hookVars, rowVars, lock, mode, seen, active, gate, notices,
                         resumes, bounds>>
      BY <1>17 DEF Send
    <2>2. CASE accepted' = accepted \cup {d} /\ Goes(w, d, "ok")
      BY <2>1, <2>2 DEF Settle, Goes, TypeOK, RowsOK, OWED, Settled, Steps, InFlight
    <2>3. CASE accepted \subseteq accepted' /\ accepted' \subseteq Deliveries /\ Goes(w, d,
        "failed")
      BY <2>1, <2>3 DEF Settle, Goes, TypeOK, RowsOK, OWED, Settled, Steps, InFlight
    <2>4. QED
      BY <1>17, <2>2, <2>3 DEF Send, TypeOK
  <1>18. ASSUME NEW w \in Workers, NEW d \in Deliveries, Deliver(w, d) PROVE TypeOK'
    BY <1>18 DEF Deliver, Settle, Goes, TypeOK, RowsOK, OWED, Settled, Steps, InFlight
  <1>19. ASSUME NEW w \in Workers, NEW d \in Deliveries, Reset(w, d) PROVE TypeOK'
    BY <1>19 DEF Reset, Goes, TypeOK, RowsOK, OWED, Settled, Steps, InFlight
  <1>20. ASSUME NEW w \in Workers, NEW d \in Deliveries, Fail(w, d) PROVE TypeOK'
    BY <1>20 DEF Fail, Settle, Goes, TypeOK, RowsOK, OWED, Settled, Steps, InFlight
  <1>21. ASSUME NEW w \in Workers, NEW d \in Deliveries, Count(w, d) PROVE TypeOK'
    BY <1>21 DEF Count, Goes, Smaller, TypeOK, RowsOK, OWED, Settled, Steps, InFlight
  <1>22. ASSUME NEW w \in Workers, NEW d \in Deliveries, Flip(w, d) PROVE TypeOK'
    <2>1. /\ pc[w][d] = "flip"
          /\ UNCHANGED <<failures, egress, rowVars, lock, mode, seen, active, gate,
                         accepted, notices, resumes, bounds>>
      BY <1>22 DEF Flip
    <2>2. CASE hook' = "DISABLED_FAILING" /\ Goes(w, d, "notify")
      BY <2>1, <2>2 DEF Settle, Goes, TypeOK, RowsOK, OWED, Settled, Steps, InFlight
    <2>3. CASE ~(hook = "ACTIVE" /\ failures >= DisableAfter) /\ UNCHANGED hook /\ Goes(w,
        d, "no")
      BY <2>1, <2>3 DEF Settle, Goes, TypeOK, RowsOK, OWED, Settled, Steps, InFlight
    <2>4. QED
      BY <1>22, <2>2, <2>3 DEF Flip
  <1>23. ASSUME NEW w \in Workers, NEW d \in Deliveries, Notify(w, d) PROVE TypeOK'
    BY <1>23 DEF Notify, Goes, TypeOK, RowsOK, OWED, Settled, Steps, InFlight
  <1>24. ASSUME NEW w \in Workers, NEW d \in Deliveries, Throw(w, d) PROVE TypeOK'
    BY <1>24 DEF Throw, Goes, Faulty, TypeOK, RowsOK, OWED, Settled, Steps, InFlight
  <1>25. CASE LoseLock
    BY <1>25 DEF LoseLock, Faulty, TypeOK, RowsOK, OWED, Settled, Steps, InFlight
  <1>26. CASE UNCHANGED vars
    BY <1>26 DEF vars, TypeOK, RowsOK, OWED, Settled, Steps, InFlight
  <1>27. QED
    BY <1>1, <1>2, <1>3, <1>4, <1>5, <1>6, <1>7, <1>8, <1>9, <1>10, <1>11, <1>12, <1>13,
       <1>14, <1>15, <1>16, <1>17, <1>18, <1>19, <1>20, <1>21, <1>22, <1>23, <1>24, <1>25,
       <1>26 DEF Next, Attempt

-----------------------------------------------------------------------------
(* The parts of the invariant *)

LEMMA RowsNext ==
    ASSUME TypeOK, TypeOK', RowsOK, IdleOK, [Next]_vars
    PROVE  RowsOK'
  <1>1. ASSUME NEW e \in Events, FanOutRead(e) PROVE RowsOK'
    BY <1>1 DEF FanOutRead, TypeOK, RowsOK, OWED, Settled, Steps, InFlight, IdleOK
  <1>2. ASSUME NEW e \in Events, FanOutWrite(e) PROVE RowsOK'
    BY <1>2 DEF FanOutWrite, Create, Exists, TypeOK, RowsOK, OWED, Settled, Steps, InFlight,
       IdleOK
  <1>3. ASSUME NEW d \in Deliveries, Wake(d) PROVE RowsOK'
    BY <1>3 DEF Wake, Held, TypeOK, RowsOK, OWED, Settled, Steps, InFlight, IdleOK
  <1>4. ASSUME NEW d \in Deliveries, Expire(d) PROVE RowsOK'
    BY <1>4 DEF Expire, TypeOK, RowsOK, OWED, Settled, Steps, InFlight, IdleOK
  <1>5. ASSUME NEW d \in Deliveries, Prune(d) PROVE RowsOK'
    BY <1>5 DEF Prune, TypeOK, RowsOK, OWED, Settled, Steps, InFlight, IdleOK
  <1>6. CASE Pause
    BY <1>6 DEF Pause, Operates, TypeOK, RowsOK, OWED, Settled, Steps, InFlight, IdleOK
  <1>7. CASE Resume
    BY <1>7 DEF Resume, Operates, TypeOK, RowsOK, OWED, Settled, Steps, InFlight, IdleOK
  <1>8. CASE Delete
    BY <1>8 DEF Delete, Operates, Exists, TypeOK, RowsOK, OWED, Settled, Steps, InFlight,
       IdleOK
  <1>9. CASE Switch
    BY <1>9 DEF Switch, Operates, TypeOK, RowsOK, OWED, Settled, Steps, InFlight, IdleOK
  <1>10. CASE Redeliver
    BY <1>10 DEF Redeliver, Operates, Create, TypeOK, RowsOK, OWED, Settled, Steps,
       InFlight, IdleOK
  <1>11. ASSUME NEW w \in Workers, Test(w) PROVE RowsOK'
    BY <1>11 DEF Test, Operates, Create, Takes, TypeOK, RowsOK, OWED, Settled, Steps,
       InFlight, IdleOK
  <1>12. ASSUME NEW w \in Workers, Claim(w) PROVE RowsOK'
    BY <1>12 DEF Claim, Takes, Due, TypeOK, RowsOK, OWED, Settled, Steps, InFlight, IdleOK
  <1>13. ASSUME NEW w \in Workers, End(w) PROVE RowsOK'
    BY <1>13 DEF End, Leaves, TypeOK, RowsOK, OWED, Settled, Steps, InFlight, IdleOK
  <1>14. ASSUME NEW w \in Workers, Crash(w) PROVE RowsOK'
    BY <1>14 DEF Crash, Leaves, Faulty, TypeOK, RowsOK, OWED, Settled, Steps, InFlight,
       IdleOK
  <1>15. ASSUME NEW w \in Workers, NEW d \in Deliveries, Begin(w, d) PROVE RowsOK'
    <2>1. /\ pc[w][d] = "begin"
          /\ UNCHANGED <<hookVars, lock, mode, seen, active, gate, accepted, notices,
                         resumes, bounds>>
      BY <1>15 DEF Begin
    <2>2. CASE mode[w] = "sweep" /\ Settle(d, "GIVEN_UP", attempts[d]) /\ Goes(w, d, "no")
      BY <2>1, <2>2 DEF Settle, Goes, TypeOK, RowsOK, OWED, Settled, Steps, InFlight, IdleOK
    <2>3. CASE Goes(w, d, "dial") /\ UNCHANGED rowVars
      BY <2>1, <2>3 DEF Settle, Goes, TypeOK, RowsOK, OWED, Settled, Steps, InFlight, IdleOK
    <2>4. QED
      BY <1>15, <2>2, <2>3 DEF Begin
  <1>16. ASSUME NEW w \in Workers, NEW d \in Deliveries, Dial(w, d) PROVE RowsOK'
    <2>1. /\ pc[w][d] = "dial"
          /\ UNCHANGED <<hookVars, lock, mode, seen, active, accepted, notices, resumes,
                         bounds>>
      BY <1>16 DEF Dial
    <2>2. ASSUME NEW to \in {"failed", "send"}, Goes(w, d, to), UNCHANGED rowVars PROVE
        RowsOK'
      BY <2>1, <2>2 DEF Settle, Goes, TypeOK, RowsOK, OWED, Settled, Steps, InFlight, IdleOK
    <2>3. CASE Settle(d, IF mode[w] = "test" THEN "GIVEN_UP" ELSE status[d], attempts[d]) /\
        Goes(w, d, "no")
      BY <2>1, <2>3 DEF Settle, Goes, TypeOK, RowsOK, OWED, Settled, Steps, InFlight, IdleOK
    <2>4. QED
      BY <1>16, <2>2, <2>3 DEF Dial
  <1>17. ASSUME NEW w \in Workers, NEW d \in Deliveries, Send(w, d) PROVE RowsOK'
    <2>1. /\ pc[w][d] = "send"
          /\ UNCHANGED <<hookVars, rowVars, lock, mode, seen, active, gate, notices,
                         resumes, bounds>>
      BY <1>17 DEF Send
    <2>2. CASE accepted' = accepted \cup {d} /\ Goes(w, d, "ok")
      BY <2>1, <2>2 DEF Settle, Goes, TypeOK, RowsOK, OWED, Settled, Steps, InFlight, IdleOK
    <2>3. CASE accepted \subseteq accepted' /\ accepted' \subseteq Deliveries /\ Goes(w, d,
        "failed")
      BY <2>1, <2>3 DEF Settle, Goes, TypeOK, RowsOK, OWED, Settled, Steps, InFlight, IdleOK
    <2>4. QED
      BY <1>17, <2>2, <2>3 DEF Send, TypeOK
  <1>18. ASSUME NEW w \in Workers, NEW d \in Deliveries, Deliver(w, d) PROVE RowsOK'
    BY <1>18 DEF Deliver, Settle, Goes, TypeOK, RowsOK, OWED, Settled, Steps, InFlight,
       IdleOK
  <1>19. ASSUME NEW w \in Workers, NEW d \in Deliveries, Reset(w, d) PROVE RowsOK'
    BY <1>19 DEF Reset, Goes, TypeOK, RowsOK, OWED, Settled, Steps, InFlight, IdleOK
  <1>20. ASSUME NEW w \in Workers, NEW d \in Deliveries, Fail(w, d) PROVE RowsOK'
    BY <1>20 DEF Fail, Settle, Goes, TypeOK, RowsOK, OWED, Settled, Steps, InFlight, IdleOK
  <1>21. ASSUME NEW w \in Workers, NEW d \in Deliveries, Count(w, d) PROVE RowsOK'
    BY <1>21 DEF Count, Goes, Smaller, TypeOK, RowsOK, OWED, Settled, Steps, InFlight,
       IdleOK
  <1>22. ASSUME NEW w \in Workers, NEW d \in Deliveries, Flip(w, d) PROVE RowsOK'
    <2>1. /\ pc[w][d] = "flip"
          /\ UNCHANGED <<failures, egress, rowVars, lock, mode, seen, active, gate,
                         accepted, notices, resumes, bounds>>
      BY <1>22 DEF Flip
    <2>2. CASE hook' = "DISABLED_FAILING" /\ Goes(w, d, "notify")
      BY <2>1, <2>2 DEF Settle, Goes, TypeOK, RowsOK, OWED, Settled, Steps, InFlight, IdleOK
    <2>3. CASE ~(hook = "ACTIVE" /\ failures >= DisableAfter) /\ UNCHANGED hook /\ Goes(w,
        d, "no")
      BY <2>1, <2>3 DEF Settle, Goes, TypeOK, RowsOK, OWED, Settled, Steps, InFlight, IdleOK
    <2>4. QED
      BY <1>22, <2>2, <2>3 DEF Flip
  <1>23. ASSUME NEW w \in Workers, NEW d \in Deliveries, Notify(w, d) PROVE RowsOK'
    BY <1>23 DEF Notify, Goes, TypeOK, RowsOK, OWED, Settled, Steps, InFlight, IdleOK
  <1>24. ASSUME NEW w \in Workers, NEW d \in Deliveries, Throw(w, d) PROVE RowsOK'
    BY <1>24 DEF Throw, Goes, Faulty, TypeOK, RowsOK, OWED, Settled, Steps, InFlight, IdleOK
  <1>25. CASE LoseLock
    BY <1>25 DEF LoseLock, Faulty, TypeOK, RowsOK, OWED, Settled, Steps, InFlight, IdleOK
  <1>26. CASE UNCHANGED vars
    BY <1>26 DEF vars, TypeOK, RowsOK, OWED, Settled, Steps, InFlight, IdleOK
  <1>27. QED
    BY <1>1, <1>2, <1>3, <1>4, <1>5, <1>6, <1>7, <1>8, <1>9, <1>10, <1>11, <1>12, <1>13,
       <1>14, <1>15, <1>16, <1>17, <1>18, <1>19, <1>20, <1>21, <1>22, <1>23, <1>24, <1>25,
       <1>26 DEF Next, Attempt

LEMMA IdleNext ==
    ASSUME TypeOK, TypeOK', IdleOK, [Next]_vars
    PROVE  IdleOK'
  <1>1. ASSUME NEW e \in Events, FanOutRead(e) PROVE IdleOK'
    BY <1>1 DEF FanOutRead, TypeOK, IdleOK
  <1>2. ASSUME NEW e \in Events, FanOutWrite(e) PROVE IdleOK'
    BY <1>2 DEF FanOutWrite, Create, Exists, TypeOK, IdleOK
  <1>3. ASSUME NEW d \in Deliveries, Wake(d) PROVE IdleOK'
    BY <1>3 DEF Wake, Held, TypeOK, IdleOK
  <1>4. ASSUME NEW d \in Deliveries, Expire(d) PROVE IdleOK'
    BY <1>4 DEF Expire, TypeOK, IdleOK
  <1>5. ASSUME NEW d \in Deliveries, Prune(d) PROVE IdleOK'
    BY <1>5 DEF Prune, TypeOK, IdleOK
  <1>6. CASE Pause
    BY <1>6 DEF Pause, Operates, TypeOK, IdleOK
  <1>7. CASE Resume
    BY <1>7 DEF Resume, Operates, TypeOK, IdleOK
  <1>8. CASE Delete
    BY <1>8 DEF Delete, Operates, Exists, TypeOK, IdleOK
  <1>9. CASE Switch
    BY <1>9 DEF Switch, Operates, TypeOK, IdleOK
  <1>10. CASE Redeliver
    BY <1>10 DEF Redeliver, Operates, Create, TypeOK, IdleOK
  <1>11. ASSUME NEW w \in Workers, Test(w) PROVE IdleOK'
    BY <1>11 DEF Test, Operates, Create, Takes, TypeOK, IdleOK
  <1>12. ASSUME NEW w \in Workers, Claim(w) PROVE IdleOK'
    BY <1>12 DEF Claim, Takes, Due, TypeOK, IdleOK
  <1>13. ASSUME NEW w \in Workers, End(w) PROVE IdleOK'
    BY <1>13 DEF End, Leaves, TypeOK, IdleOK
  <1>14. ASSUME NEW w \in Workers, Crash(w) PROVE IdleOK'
    BY <1>14 DEF Crash, Leaves, Faulty, TypeOK, IdleOK
  <1>15. ASSUME NEW w \in Workers, NEW d \in Deliveries, Begin(w, d) PROVE IdleOK'
    <2>1. /\ pc[w][d] = "begin"
          /\ UNCHANGED <<hookVars, lock, mode, seen, active, gate, accepted, notices,
                         resumes, bounds>>
      BY <1>15 DEF Begin
    <2>2. CASE mode[w] = "sweep" /\ Settle(d, "GIVEN_UP", attempts[d]) /\ Goes(w, d, "no")
      BY <2>1, <2>2 DEF Settle, Goes, TypeOK, IdleOK
    <2>3. CASE Goes(w, d, "dial") /\ UNCHANGED rowVars
      BY <2>1, <2>3 DEF Settle, Goes, TypeOK, IdleOK
    <2>4. QED
      BY <1>15, <2>2, <2>3 DEF Begin
  <1>16. ASSUME NEW w \in Workers, NEW d \in Deliveries, Dial(w, d) PROVE IdleOK'
    <2>1. /\ pc[w][d] = "dial"
          /\ UNCHANGED <<hookVars, lock, mode, seen, active, accepted, notices, resumes,
                         bounds>>
      BY <1>16 DEF Dial
    <2>2. ASSUME NEW to \in {"failed", "send"}, Goes(w, d, to), UNCHANGED rowVars PROVE
        IdleOK'
      BY <2>1, <2>2 DEF Settle, Goes, TypeOK, IdleOK
    <2>3. CASE Settle(d, IF mode[w] = "test" THEN "GIVEN_UP" ELSE status[d], attempts[d]) /\
        Goes(w, d, "no")
      BY <2>1, <2>3 DEF Settle, Goes, TypeOK, IdleOK
    <2>4. QED
      BY <1>16, <2>2, <2>3 DEF Dial
  <1>17. ASSUME NEW w \in Workers, NEW d \in Deliveries, Send(w, d) PROVE IdleOK'
    <2>1. /\ pc[w][d] = "send"
          /\ UNCHANGED <<hookVars, rowVars, lock, mode, seen, active, gate, notices,
                         resumes, bounds>>
      BY <1>17 DEF Send
    <2>2. CASE accepted' = accepted \cup {d} /\ Goes(w, d, "ok")
      BY <2>1, <2>2 DEF Settle, Goes, TypeOK, IdleOK
    <2>3. CASE accepted \subseteq accepted' /\ accepted' \subseteq Deliveries /\ Goes(w, d,
        "failed")
      BY <2>1, <2>3 DEF Settle, Goes, TypeOK, IdleOK
    <2>4. QED
      BY <1>17, <2>2, <2>3 DEF Send, TypeOK
  <1>18. ASSUME NEW w \in Workers, NEW d \in Deliveries, Deliver(w, d) PROVE IdleOK'
    BY <1>18 DEF Deliver, Settle, Goes, TypeOK, IdleOK
  <1>19. ASSUME NEW w \in Workers, NEW d \in Deliveries, Reset(w, d) PROVE IdleOK'
    BY <1>19 DEF Reset, Goes, TypeOK, IdleOK
  <1>20. ASSUME NEW w \in Workers, NEW d \in Deliveries, Fail(w, d) PROVE IdleOK'
    BY <1>20 DEF Fail, Settle, Goes, TypeOK, IdleOK
  <1>21. ASSUME NEW w \in Workers, NEW d \in Deliveries, Count(w, d) PROVE IdleOK'
    BY <1>21 DEF Count, Goes, Smaller, TypeOK, IdleOK
  <1>22. ASSUME NEW w \in Workers, NEW d \in Deliveries, Flip(w, d) PROVE IdleOK'
    <2>1. /\ pc[w][d] = "flip"
          /\ UNCHANGED <<failures, egress, rowVars, lock, mode, seen, active, gate,
                         accepted, notices, resumes, bounds>>
      BY <1>22 DEF Flip
    <2>2. CASE hook' = "DISABLED_FAILING" /\ Goes(w, d, "notify")
      BY <2>1, <2>2 DEF Settle, Goes, TypeOK, IdleOK
    <2>3. CASE ~(hook = "ACTIVE" /\ failures >= DisableAfter) /\ UNCHANGED hook /\ Goes(w,
        d, "no")
      BY <2>1, <2>3 DEF Settle, Goes, TypeOK, IdleOK
    <2>4. QED
      BY <1>22, <2>2, <2>3 DEF Flip
  <1>23. ASSUME NEW w \in Workers, NEW d \in Deliveries, Notify(w, d) PROVE IdleOK'
    BY <1>23 DEF Notify, Goes, TypeOK, IdleOK
  <1>24. ASSUME NEW w \in Workers, NEW d \in Deliveries, Throw(w, d) PROVE IdleOK'
    BY <1>24 DEF Throw, Goes, Faulty, TypeOK, IdleOK
  <1>25. CASE LoseLock
    BY <1>25 DEF LoseLock, Faulty, TypeOK, IdleOK
  <1>26. CASE UNCHANGED vars
    BY <1>26 DEF vars, TypeOK, IdleOK
  <1>27. QED
    BY <1>1, <1>2, <1>3, <1>4, <1>5, <1>6, <1>7, <1>8, <1>9, <1>10, <1>11, <1>12, <1>13,
       <1>14, <1>15, <1>16, <1>17, <1>18, <1>19, <1>20, <1>21, <1>22, <1>23, <1>24, <1>25,
       <1>26 DEF Next, Attempt

LEMMA AnswerNext ==
    ASSUME TypeOK, TypeOK', AnswerOK, [Next]_vars
    PROVE  AnswerOK'
  <1>1. ASSUME NEW e \in Events, FanOutRead(e) PROVE AnswerOK'
    BY <1>1 DEF FanOutRead, TypeOK, AnswerOK, OWED, Settled
  <1>2. ASSUME NEW e \in Events, FanOutWrite(e) PROVE AnswerOK'
    BY <1>2 DEF FanOutWrite, Create, Exists, TypeOK, AnswerOK, OWED, Settled
  <1>3. ASSUME NEW d \in Deliveries, Wake(d) PROVE AnswerOK'
    BY <1>3 DEF Wake, Held, TypeOK, AnswerOK, OWED, Settled
  <1>4. ASSUME NEW d \in Deliveries, Expire(d) PROVE AnswerOK'
    BY <1>4 DEF Expire, TypeOK, AnswerOK, OWED, Settled
  <1>5. ASSUME NEW d \in Deliveries, Prune(d) PROVE AnswerOK'
    BY <1>5 DEF Prune, TypeOK, AnswerOK, OWED, Settled
  <1>6. CASE Pause
    BY <1>6 DEF Pause, Operates, TypeOK, AnswerOK, OWED, Settled
  <1>7. CASE Resume
    BY <1>7 DEF Resume, Operates, TypeOK, AnswerOK, OWED, Settled
  <1>8. CASE Delete
    BY <1>8 DEF Delete, Operates, Exists, TypeOK, AnswerOK, OWED, Settled
  <1>9. CASE Switch
    BY <1>9 DEF Switch, Operates, TypeOK, AnswerOK, OWED, Settled
  <1>10. CASE Redeliver
    BY <1>10 DEF Redeliver, Operates, Create, TypeOK, AnswerOK, OWED, Settled
  <1>11. ASSUME NEW w \in Workers, Test(w) PROVE AnswerOK'
    BY <1>11 DEF Test, Operates, Create, Takes, TypeOK, AnswerOK, OWED, Settled
  <1>12. ASSUME NEW w \in Workers, Claim(w) PROVE AnswerOK'
    BY <1>12 DEF Claim, Takes, Due, TypeOK, AnswerOK, OWED, Settled
  <1>13. ASSUME NEW w \in Workers, End(w) PROVE AnswerOK'
    BY <1>13 DEF End, Leaves, TypeOK, AnswerOK, OWED, Settled
  <1>14. ASSUME NEW w \in Workers, Crash(w) PROVE AnswerOK'
    BY <1>14 DEF Crash, Leaves, Faulty, TypeOK, AnswerOK, OWED, Settled
  <1>15. ASSUME NEW w \in Workers, NEW d \in Deliveries, Begin(w, d) PROVE AnswerOK'
    <2>1. /\ pc[w][d] = "begin"
          /\ UNCHANGED <<hookVars, lock, mode, seen, active, gate, accepted, notices,
                         resumes, bounds>>
      BY <1>15 DEF Begin
    <2>2. CASE mode[w] = "sweep" /\ Settle(d, "GIVEN_UP", attempts[d]) /\ Goes(w, d, "no")
      BY <2>1, <2>2 DEF Settle, Goes, TypeOK, AnswerOK, OWED, Settled
    <2>3. CASE Goes(w, d, "dial") /\ UNCHANGED rowVars
      BY <2>1, <2>3 DEF Settle, Goes, TypeOK, AnswerOK, OWED, Settled
    <2>4. QED
      BY <1>15, <2>2, <2>3 DEF Begin
  <1>16. ASSUME NEW w \in Workers, NEW d \in Deliveries, Dial(w, d) PROVE AnswerOK'
    <2>1. /\ pc[w][d] = "dial"
          /\ UNCHANGED <<hookVars, lock, mode, seen, active, accepted, notices, resumes,
                         bounds>>
      BY <1>16 DEF Dial
    <2>2. ASSUME NEW to \in {"failed", "send"}, Goes(w, d, to), UNCHANGED rowVars PROVE
        AnswerOK'
      BY <2>1, <2>2 DEF Settle, Goes, TypeOK, AnswerOK, OWED, Settled
    <2>3. CASE Settle(d, IF mode[w] = "test" THEN "GIVEN_UP" ELSE status[d], attempts[d]) /\
        Goes(w, d, "no")
      BY <2>1, <2>3 DEF Settle, Goes, TypeOK, AnswerOK, OWED, Settled
    <2>4. QED
      BY <1>16, <2>2, <2>3 DEF Dial
  <1>17. ASSUME NEW w \in Workers, NEW d \in Deliveries, Send(w, d) PROVE AnswerOK'
    <2>1. /\ pc[w][d] = "send"
          /\ UNCHANGED <<hookVars, rowVars, lock, mode, seen, active, gate, notices,
                         resumes, bounds>>
      BY <1>17 DEF Send
    <2>2. CASE accepted' = accepted \cup {d} /\ Goes(w, d, "ok")
      BY <2>1, <2>2 DEF Settle, Goes, TypeOK, AnswerOK, OWED, Settled
    <2>3. CASE accepted \subseteq accepted' /\ accepted' \subseteq Deliveries /\ Goes(w, d,
        "failed")
      BY <2>1, <2>3 DEF Settle, Goes, TypeOK, AnswerOK, OWED, Settled
    <2>4. QED
      BY <1>17, <2>2, <2>3 DEF Send, TypeOK
  <1>18. ASSUME NEW w \in Workers, NEW d \in Deliveries, Deliver(w, d) PROVE AnswerOK'
    BY <1>18 DEF Deliver, Settle, Goes, TypeOK, AnswerOK, OWED, Settled
  <1>19. ASSUME NEW w \in Workers, NEW d \in Deliveries, Reset(w, d) PROVE AnswerOK'
    BY <1>19 DEF Reset, Goes, TypeOK, AnswerOK, OWED, Settled
  <1>20. ASSUME NEW w \in Workers, NEW d \in Deliveries, Fail(w, d) PROVE AnswerOK'
    BY <1>20 DEF Fail, Settle, Goes, TypeOK, AnswerOK, OWED, Settled
  <1>21. ASSUME NEW w \in Workers, NEW d \in Deliveries, Count(w, d) PROVE AnswerOK'
    BY <1>21 DEF Count, Goes, Smaller, TypeOK, AnswerOK, OWED, Settled
  <1>22. ASSUME NEW w \in Workers, NEW d \in Deliveries, Flip(w, d) PROVE AnswerOK'
    <2>1. /\ pc[w][d] = "flip"
          /\ UNCHANGED <<failures, egress, rowVars, lock, mode, seen, active, gate,
                         accepted, notices, resumes, bounds>>
      BY <1>22 DEF Flip
    <2>2. CASE hook' = "DISABLED_FAILING" /\ Goes(w, d, "notify")
      BY <2>1, <2>2 DEF Settle, Goes, TypeOK, AnswerOK, OWED, Settled
    <2>3. CASE ~(hook = "ACTIVE" /\ failures >= DisableAfter) /\ UNCHANGED hook /\ Goes(w,
        d, "no")
      BY <2>1, <2>3 DEF Settle, Goes, TypeOK, AnswerOK, OWED, Settled
    <2>4. QED
      BY <1>22, <2>2, <2>3 DEF Flip
  <1>23. ASSUME NEW w \in Workers, NEW d \in Deliveries, Notify(w, d) PROVE AnswerOK'
    BY <1>23 DEF Notify, Goes, TypeOK, AnswerOK, OWED, Settled
  <1>24. ASSUME NEW w \in Workers, NEW d \in Deliveries, Throw(w, d) PROVE AnswerOK'
    BY <1>24 DEF Throw, Goes, Faulty, TypeOK, AnswerOK, OWED, Settled
  <1>25. CASE LoseLock
    BY <1>25 DEF LoseLock, Faulty, TypeOK, AnswerOK, OWED, Settled
  <1>26. CASE UNCHANGED vars
    BY <1>26 DEF vars, TypeOK, AnswerOK, OWED, Settled
  <1>27. QED
    BY <1>1, <1>2, <1>3, <1>4, <1>5, <1>6, <1>7, <1>8, <1>9, <1>10, <1>11, <1>12, <1>13,
       <1>14, <1>15, <1>16, <1>17, <1>18, <1>19, <1>20, <1>21, <1>22, <1>23, <1>24, <1>25,
       <1>26 DEF Next, Attempt

LEMMA LeaseNext ==
    ASSUME TypeOK, TypeOK', RowsOK, IdleOK, OneAttempt, LeaseOK, [Next]_vars
    PROVE  LeaseOK'
  <1>1. ASSUME NEW e \in Events, FanOutRead(e) PROVE LeaseOK'
    BY <1>1 DEF FanOutRead, TypeOK, RowsOK, IdleOK, OneAttempt, LeaseOK, InFlight, OWED,
       Settled
  <1>2. ASSUME NEW e \in Events, FanOutWrite(e) PROVE LeaseOK'
    <2>1. CASE UNCHANGED <<status, source, attempts, due, expired>>
      BY <1>2, <2>1 DEF FanOutWrite, TypeOK, RowsOK, IdleOK, OneAttempt, LeaseOK, InFlight,
         OWED, Settled
    <2>2. ASSUME NEW d \in Deliveries, Create(d, e, TRUE) PROVE LeaseOK'
      BY <1>2, <2>2 DEF FanOutWrite, Create, TypeOK, RowsOK, IdleOK, OneAttempt, LeaseOK,
         InFlight, OWED, Settled
    <2>3. QED
      BY <1>2, <2>1, <2>2 DEF FanOutWrite
  <1>3. ASSUME NEW d \in Deliveries, Wake(d) PROVE LeaseOK'
    BY <1>3 DEF Wake, Held, TypeOK, RowsOK, IdleOK, OneAttempt, LeaseOK, InFlight, OWED,
       Settled
  <1>4. ASSUME NEW d \in Deliveries, Expire(d) PROVE LeaseOK'
    BY <1>4 DEF Expire, TypeOK, RowsOK, IdleOK, OneAttempt, LeaseOK, InFlight, OWED, Settled
  <1>5. ASSUME NEW d \in Deliveries, Prune(d) PROVE LeaseOK'
    BY <1>5 DEF Prune, TypeOK, RowsOK, IdleOK, OneAttempt, LeaseOK, InFlight, OWED, Settled
  <1>6. CASE Pause
    BY <1>6 DEF Pause, Operates, TypeOK, RowsOK, IdleOK, OneAttempt, LeaseOK, InFlight,
       OWED, Settled
  <1>7. CASE Resume
    BY <1>7 DEF Resume, Operates, TypeOK, RowsOK, IdleOK, OneAttempt, LeaseOK, InFlight,
       OWED, Settled
  <1>8. CASE Delete
    BY <1>8 DEF Delete, Operates, Exists, TypeOK, RowsOK, IdleOK, OneAttempt, LeaseOK,
       InFlight, OWED, Settled
  <1>9. CASE Switch
    BY <1>9 DEF Switch, Operates, TypeOK, RowsOK, IdleOK, OneAttempt, LeaseOK, InFlight,
       OWED, Settled
  <1>10. CASE Redeliver
    BY <1>10 DEF Redeliver, Operates, Create, TypeOK, RowsOK, IdleOK, OneAttempt, LeaseOK,
       InFlight, OWED, Settled
  <1>11. ASSUME NEW w \in Workers, Test(w) PROVE LeaseOK'
    BY <1>11 DEF Test, Operates, Create, Takes, TypeOK, RowsOK, IdleOK, OneAttempt, LeaseOK,
       InFlight, OWED, Settled
  <1>12. ASSUME NEW w \in Workers, Claim(w) PROVE LeaseOK'
    <2>1. PICK S \in SUBSET Due :
              /\ Takes(w, S)
              /\ due' = [d \in Deliveries |-> due[d] /\ d \notin S]
      BY <1>12 DEF Claim
    <2>2. \A d \in Deliveries : pc'[w][d] \in InFlight => ~due'[d]
      BY <2>1 DEF Takes, TypeOK, InFlight
    <2>3. \A v \in Workers \ {w} : pc'[v] = pc[v]
      BY <2>1 DEF Takes, TypeOK
    <2>4. \A d \in Deliveries : due'[d] => due[d]
      BY <2>1
    <2>5. QED
      BY <1>12, <2>2, <2>3, <2>4 DEF Claim, LeaseOK
  <1>13. ASSUME NEW w \in Workers, End(w) PROVE LeaseOK'
    BY <1>13 DEF End, Leaves, TypeOK, RowsOK, IdleOK, OneAttempt, LeaseOK, InFlight, OWED,
       Settled
  <1>14. ASSUME NEW w \in Workers, Crash(w) PROVE LeaseOK'
    BY <1>14 DEF Crash, Leaves, Faulty, TypeOK, RowsOK, IdleOK, OneAttempt, LeaseOK,
       InFlight, OWED, Settled
  <1>15. ASSUME NEW w \in Workers, NEW d \in Deliveries, Begin(w, d) PROVE LeaseOK'
    <2>1. /\ pc[w][d] = "begin"
          /\ UNCHANGED <<hookVars, lock, mode, seen, active, gate, accepted, notices,
                         resumes, bounds>>
      BY <1>15 DEF Begin
    <2>2. CASE mode[w] = "sweep" /\ Settle(d, "GIVEN_UP", attempts[d]) /\ Goes(w, d, "no")
      BY <2>1, <2>2 DEF Settle, Goes, TypeOK, RowsOK, IdleOK, OneAttempt, LeaseOK, InFlight,
         OWED, Settled
    <2>3. CASE Goes(w, d, "dial") /\ UNCHANGED rowVars
      BY <2>1, <2>3 DEF Settle, Goes, TypeOK, RowsOK, IdleOK, OneAttempt, LeaseOK, InFlight,
         OWED, Settled
    <2>4. QED
      BY <1>15, <2>2, <2>3 DEF Begin
  <1>16. ASSUME NEW w \in Workers, NEW d \in Deliveries, Dial(w, d) PROVE LeaseOK'
    <2>1. /\ pc[w][d] = "dial"
          /\ UNCHANGED <<hookVars, lock, mode, seen, active, accepted, notices, resumes,
                         bounds>>
      BY <1>16 DEF Dial
    <2>2. ASSUME NEW to \in {"failed", "send"}, Goes(w, d, to), UNCHANGED rowVars PROVE
        LeaseOK'
      BY <2>1, <2>2 DEF Settle, Goes, TypeOK, RowsOK, IdleOK, OneAttempt, LeaseOK, InFlight,
         OWED, Settled
    <2>3. CASE Settle(d, IF mode[w] = "test" THEN "GIVEN_UP" ELSE status[d], attempts[d]) /\
        Goes(w, d, "no")
      BY <2>1, <2>3 DEF Settle, Goes, TypeOK, RowsOK, IdleOK, OneAttempt, LeaseOK, InFlight,
         OWED, Settled
    <2>4. QED
      BY <1>16, <2>2, <2>3 DEF Dial
  <1>17. ASSUME NEW w \in Workers, NEW d \in Deliveries, Send(w, d) PROVE LeaseOK'
    <2>1. /\ pc[w][d] = "send"
          /\ UNCHANGED <<hookVars, rowVars, lock, mode, seen, active, gate, notices,
                         resumes, bounds>>
      BY <1>17 DEF Send
    <2>2. CASE accepted' = accepted \cup {d} /\ Goes(w, d, "ok")
      BY <2>1, <2>2 DEF Settle, Goes, TypeOK, RowsOK, IdleOK, OneAttempt, LeaseOK, InFlight,
         OWED, Settled
    <2>3. CASE accepted \subseteq accepted' /\ accepted' \subseteq Deliveries /\ Goes(w, d,
        "failed")
      BY <2>1, <2>3 DEF Settle, Goes, TypeOK, RowsOK, IdleOK, OneAttempt, LeaseOK, InFlight,
         OWED, Settled
    <2>4. QED
      BY <1>17, <2>2, <2>3 DEF Send, TypeOK
  <1>18. ASSUME NEW w \in Workers, NEW d \in Deliveries, Deliver(w, d) PROVE LeaseOK'
    BY <1>18 DEF Deliver, Settle, Goes, TypeOK, RowsOK, IdleOK, OneAttempt, LeaseOK,
       InFlight, OWED, Settled
  <1>19. ASSUME NEW w \in Workers, NEW d \in Deliveries, Reset(w, d) PROVE LeaseOK'
    BY <1>19 DEF Reset, Goes, TypeOK, RowsOK, IdleOK, OneAttempt, LeaseOK, InFlight, OWED,
       Settled
  <1>20. ASSUME NEW w \in Workers, NEW d \in Deliveries, Fail(w, d) PROVE LeaseOK'
    BY <1>20 DEF Fail, Settle, Goes, TypeOK, RowsOK, IdleOK, OneAttempt, LeaseOK, InFlight,
       OWED, Settled
  <1>21. ASSUME NEW w \in Workers, NEW d \in Deliveries, Count(w, d) PROVE LeaseOK'
    BY <1>21 DEF Count, Goes, Smaller, TypeOK, RowsOK, IdleOK, OneAttempt, LeaseOK,
       InFlight, OWED, Settled
  <1>22. ASSUME NEW w \in Workers, NEW d \in Deliveries, Flip(w, d) PROVE LeaseOK'
    <2>1. /\ pc[w][d] = "flip"
          /\ UNCHANGED <<failures, egress, rowVars, lock, mode, seen, active, gate,
                         accepted, notices, resumes, bounds>>
      BY <1>22 DEF Flip
    <2>2. CASE hook' = "DISABLED_FAILING" /\ Goes(w, d, "notify")
      BY <2>1, <2>2 DEF Settle, Goes, TypeOK, RowsOK, IdleOK, OneAttempt, LeaseOK, InFlight,
         OWED, Settled
    <2>3. CASE ~(hook = "ACTIVE" /\ failures >= DisableAfter) /\ UNCHANGED hook /\ Goes(w,
        d, "no")
      BY <2>1, <2>3 DEF Settle, Goes, TypeOK, RowsOK, IdleOK, OneAttempt, LeaseOK, InFlight,
         OWED, Settled
    <2>4. QED
      BY <1>22, <2>2, <2>3 DEF Flip
  <1>23. ASSUME NEW w \in Workers, NEW d \in Deliveries, Notify(w, d) PROVE LeaseOK'
    BY <1>23 DEF Notify, Goes, TypeOK, RowsOK, IdleOK, OneAttempt, LeaseOK, InFlight, OWED,
       Settled
  <1>24. ASSUME NEW w \in Workers, NEW d \in Deliveries, Throw(w, d) PROVE LeaseOK'
    BY <1>24 DEF Throw, Goes, Faulty, TypeOK, RowsOK, IdleOK, OneAttempt, LeaseOK, InFlight,
       OWED, Settled
  <1>25. CASE LoseLock
    BY <1>25 DEF LoseLock, Faulty, TypeOK, RowsOK, IdleOK, OneAttempt, LeaseOK, InFlight,
       OWED, Settled
  <1>26. CASE UNCHANGED vars
    BY <1>26 DEF vars, TypeOK, RowsOK, IdleOK, OneAttempt, LeaseOK, InFlight, OWED, Settled
  <1>27. QED
    BY <1>1, <1>2, <1>3, <1>4, <1>5, <1>6, <1>7, <1>8, <1>9, <1>10, <1>11, <1>12, <1>13,
       <1>14, <1>15, <1>16, <1>17, <1>18, <1>19, <1>20, <1>21, <1>22, <1>23, <1>24, <1>25,
       <1>26 DEF Next, Attempt

LEMMA OneAttemptNext ==
    ASSUME TypeOK, TypeOK', RowsOK, IdleOK, LeaseOK, OneAttempt, [Next]_vars
    PROVE  OneAttempt'
  <1>1. ASSUME NEW e \in Events, FanOutRead(e) PROVE OneAttempt'
    BY <1>1 DEF FanOutRead, TypeOK, RowsOK, IdleOK, OneAttempt, LeaseOK, InFlight, OWED
  <1>2. ASSUME NEW e \in Events, FanOutWrite(e) PROVE OneAttempt'
    BY <1>2 DEF FanOutWrite, Create, Exists, TypeOK, RowsOK, IdleOK, OneAttempt, LeaseOK,
       InFlight, OWED
  <1>3. ASSUME NEW d \in Deliveries, Wake(d) PROVE OneAttempt'
    BY <1>3 DEF Wake, Held, TypeOK, RowsOK, IdleOK, OneAttempt, LeaseOK, InFlight, OWED
  <1>4. ASSUME NEW d \in Deliveries, Expire(d) PROVE OneAttempt'
    BY <1>4 DEF Expire, TypeOK, RowsOK, IdleOK, OneAttempt, LeaseOK, InFlight, OWED
  <1>5. ASSUME NEW d \in Deliveries, Prune(d) PROVE OneAttempt'
    BY <1>5 DEF Prune, TypeOK, RowsOK, IdleOK, OneAttempt, LeaseOK, InFlight, OWED
  <1>6. CASE Pause
    BY <1>6 DEF Pause, Operates, TypeOK, RowsOK, IdleOK, OneAttempt, LeaseOK, InFlight, OWED
  <1>7. CASE Resume
    BY <1>7 DEF Resume, Operates, TypeOK, RowsOK, IdleOK, OneAttempt, LeaseOK, InFlight,
       OWED
  <1>8. CASE Delete
    BY <1>8 DEF Delete, Operates, Exists, TypeOK, RowsOK, IdleOK, OneAttempt, LeaseOK,
       InFlight, OWED
  <1>9. CASE Switch
    BY <1>9 DEF Switch, Operates, TypeOK, RowsOK, IdleOK, OneAttempt, LeaseOK, InFlight,
       OWED
  <1>10. CASE Redeliver
    BY <1>10 DEF Redeliver, Operates, Create, TypeOK, RowsOK, IdleOK, OneAttempt, LeaseOK,
       InFlight, OWED
  <1>11. ASSUME NEW w \in Workers, Test(w) PROVE OneAttempt'
    BY <1>11 DEF Test, Operates, Create, Takes, TypeOK, RowsOK, IdleOK, OneAttempt, LeaseOK,
       InFlight, OWED
  <1>12. ASSUME NEW w \in Workers, Claim(w) PROVE OneAttempt'
    BY <1>12 DEF Claim, Takes, Due, TypeOK, RowsOK, IdleOK, OneAttempt, LeaseOK, InFlight,
       OWED
  <1>13. ASSUME NEW w \in Workers, End(w) PROVE OneAttempt'
    BY <1>13 DEF End, Leaves, TypeOK, RowsOK, IdleOK, OneAttempt, LeaseOK, InFlight, OWED
  <1>14. ASSUME NEW w \in Workers, Crash(w) PROVE OneAttempt'
    BY <1>14 DEF Crash, Leaves, Faulty, TypeOK, RowsOK, IdleOK, OneAttempt, LeaseOK,
       InFlight, OWED
  <1>15. ASSUME NEW w \in Workers, NEW d \in Deliveries, Begin(w, d) PROVE OneAttempt'
    <2>1. /\ pc[w][d] = "begin"
          /\ UNCHANGED <<hookVars, lock, mode, seen, active, gate, accepted, notices,
                         resumes, bounds>>
      BY <1>15 DEF Begin
    <2>2. CASE mode[w] = "sweep" /\ Settle(d, "GIVEN_UP", attempts[d]) /\ Goes(w, d, "no")
      BY <2>1, <2>2 DEF Settle, Goes, TypeOK, RowsOK, IdleOK, OneAttempt, LeaseOK, InFlight,
         OWED
    <2>3. CASE Goes(w, d, "dial") /\ UNCHANGED rowVars
      BY <2>1, <2>3 DEF Settle, Goes, TypeOK, RowsOK, IdleOK, OneAttempt, LeaseOK, InFlight,
         OWED
    <2>4. QED
      BY <1>15, <2>2, <2>3 DEF Begin
  <1>16. ASSUME NEW w \in Workers, NEW d \in Deliveries, Dial(w, d) PROVE OneAttempt'
    <2>1. /\ pc[w][d] = "dial"
          /\ UNCHANGED <<hookVars, lock, mode, seen, active, accepted, notices, resumes,
                         bounds>>
      BY <1>16 DEF Dial
    <2>2. ASSUME NEW to \in {"failed", "send"}, Goes(w, d, to), UNCHANGED rowVars PROVE
        OneAttempt'
      BY <2>1, <2>2 DEF Settle, Goes, TypeOK, RowsOK, IdleOK, OneAttempt, LeaseOK, InFlight,
         OWED
    <2>3. CASE Settle(d, IF mode[w] = "test" THEN "GIVEN_UP" ELSE status[d], attempts[d]) /\
        Goes(w, d, "no")
      BY <2>1, <2>3 DEF Settle, Goes, TypeOK, RowsOK, IdleOK, OneAttempt, LeaseOK, InFlight,
         OWED
    <2>4. QED
      BY <1>16, <2>2, <2>3 DEF Dial
  <1>17. ASSUME NEW w \in Workers, NEW d \in Deliveries, Send(w, d) PROVE OneAttempt'
    <2>1. /\ pc[w][d] = "send"
          /\ UNCHANGED <<hookVars, rowVars, lock, mode, seen, active, gate, notices,
                         resumes, bounds>>
      BY <1>17 DEF Send
    <2>2. CASE accepted' = accepted \cup {d} /\ Goes(w, d, "ok")
      BY <2>1, <2>2 DEF Settle, Goes, TypeOK, RowsOK, IdleOK, OneAttempt, LeaseOK, InFlight,
         OWED
    <2>3. CASE accepted \subseteq accepted' /\ accepted' \subseteq Deliveries /\ Goes(w, d,
        "failed")
      BY <2>1, <2>3 DEF Settle, Goes, TypeOK, RowsOK, IdleOK, OneAttempt, LeaseOK, InFlight,
         OWED
    <2>4. QED
      BY <1>17, <2>2, <2>3 DEF Send, TypeOK
  <1>18. ASSUME NEW w \in Workers, NEW d \in Deliveries, Deliver(w, d) PROVE OneAttempt'
    BY <1>18 DEF Deliver, Settle, Goes, TypeOK, RowsOK, IdleOK, OneAttempt, LeaseOK,
       InFlight, OWED
  <1>19. ASSUME NEW w \in Workers, NEW d \in Deliveries, Reset(w, d) PROVE OneAttempt'
    BY <1>19 DEF Reset, Goes, TypeOK, RowsOK, IdleOK, OneAttempt, LeaseOK, InFlight, OWED
  <1>20. ASSUME NEW w \in Workers, NEW d \in Deliveries, Fail(w, d) PROVE OneAttempt'
    BY <1>20 DEF Fail, Settle, Goes, TypeOK, RowsOK, IdleOK, OneAttempt, LeaseOK, InFlight,
       OWED
  <1>21. ASSUME NEW w \in Workers, NEW d \in Deliveries, Count(w, d) PROVE OneAttempt'
    BY <1>21 DEF Count, Goes, Smaller, TypeOK, RowsOK, IdleOK, OneAttempt, LeaseOK,
       InFlight, OWED
  <1>22. ASSUME NEW w \in Workers, NEW d \in Deliveries, Flip(w, d) PROVE OneAttempt'
    <2>1. /\ pc[w][d] = "flip"
          /\ UNCHANGED <<failures, egress, rowVars, lock, mode, seen, active, gate,
                         accepted, notices, resumes, bounds>>
      BY <1>22 DEF Flip
    <2>2. CASE hook' = "DISABLED_FAILING" /\ Goes(w, d, "notify")
      BY <2>1, <2>2 DEF Settle, Goes, TypeOK, RowsOK, IdleOK, OneAttempt, LeaseOK, InFlight,
         OWED
    <2>3. CASE ~(hook = "ACTIVE" /\ failures >= DisableAfter) /\ UNCHANGED hook /\ Goes(w,
        d, "no")
      BY <2>1, <2>3 DEF Settle, Goes, TypeOK, RowsOK, IdleOK, OneAttempt, LeaseOK, InFlight,
         OWED
    <2>4. QED
      BY <1>22, <2>2, <2>3 DEF Flip
  <1>23. ASSUME NEW w \in Workers, NEW d \in Deliveries, Notify(w, d) PROVE OneAttempt'
    BY <1>23 DEF Notify, Goes, TypeOK, RowsOK, IdleOK, OneAttempt, LeaseOK, InFlight, OWED
  <1>24. ASSUME NEW w \in Workers, NEW d \in Deliveries, Throw(w, d) PROVE OneAttempt'
    BY <1>24 DEF Throw, Goes, Faulty, TypeOK, RowsOK, IdleOK, OneAttempt, LeaseOK, InFlight,
       OWED
  <1>25. CASE LoseLock
    BY <1>25 DEF LoseLock, Faulty, TypeOK, RowsOK, IdleOK, OneAttempt, LeaseOK, InFlight,
       OWED
  <1>26. CASE UNCHANGED vars
    BY <1>26 DEF vars, TypeOK, RowsOK, IdleOK, OneAttempt, LeaseOK, InFlight, OWED
  <1>27. QED
    BY <1>1, <1>2, <1>3, <1>4, <1>5, <1>6, <1>7, <1>8, <1>9, <1>10, <1>11, <1>12, <1>13,
       <1>14, <1>15, <1>16, <1>17, <1>18, <1>19, <1>20, <1>21, <1>22, <1>23, <1>24, <1>25,
       <1>26 DEF Next, Attempt

\* Steps that leave the webhook alone and are not taken at the flip.
LEMMA LimitSame ==
    ASSUME TypeOK, LimitTurnsOff, NEW w \in Workers, NEW d \in Deliveries, NEW to,
           Goes(w, d, to), pc[w][d] # "flip", UNCHANGED <<hookVars, faults>>
    PROVE  LimitTurnsOff'
  <1>1. \A v \in Workers, x \in Deliveries : pc[v][x] = "flip" => pc'[v][x] = "flip"
    BY DEF Goes, TypeOK
  <1>2. QED
    BY <1>1 DEF LimitTurnsOff

LEMMA LimitNext ==
    ASSUME TypeOK, TypeOK', IdleOK, LimitTurnsOff, [Next]_vars
    PROVE  LimitTurnsOff'
  <1>1. ASSUME NEW e \in Events, FanOutRead(e) PROVE LimitTurnsOff'
    BY <1>1 DEF FanOutRead, TypeOK, IdleOK, LimitTurnsOff
  <1>2. ASSUME NEW e \in Events, FanOutWrite(e) PROVE LimitTurnsOff'
    BY <1>2 DEF FanOutWrite, Create, Exists, TypeOK, IdleOK, LimitTurnsOff
  <1>3. ASSUME NEW d \in Deliveries, Wake(d) PROVE LimitTurnsOff'
    BY <1>3 DEF Wake, Held, TypeOK, IdleOK, LimitTurnsOff
  <1>4. ASSUME NEW d \in Deliveries, Expire(d) PROVE LimitTurnsOff'
    BY <1>4 DEF Expire, TypeOK, IdleOK, LimitTurnsOff
  <1>5. ASSUME NEW d \in Deliveries, Prune(d) PROVE LimitTurnsOff'
    BY <1>5 DEF Prune, TypeOK, IdleOK, LimitTurnsOff
  <1>6. CASE Pause
    BY <1>6 DEF Pause, Operates, TypeOK, IdleOK, LimitTurnsOff
  <1>7. CASE Resume
    BY <1>7 DEF Resume, Operates, TypeOK, IdleOK, LimitTurnsOff
  <1>8. CASE Delete
    BY <1>8 DEF Delete, Operates, Exists, TypeOK, IdleOK, LimitTurnsOff
  <1>9. CASE Switch
    BY <1>9 DEF Switch, Operates, TypeOK, IdleOK, LimitTurnsOff
  <1>10. CASE Redeliver
    BY <1>10 DEF Redeliver, Operates, Create, TypeOK, IdleOK, LimitTurnsOff
  <1>11. ASSUME NEW w \in Workers, Test(w) PROVE LimitTurnsOff'
    BY <1>11 DEF Test, Operates, Create, Takes, TypeOK, IdleOK, LimitTurnsOff
  <1>12. ASSUME NEW w \in Workers, Claim(w) PROVE LimitTurnsOff'
    BY <1>12 DEF Claim, Takes, Due, TypeOK, IdleOK, LimitTurnsOff
  <1>13. ASSUME NEW w \in Workers, End(w) PROVE LimitTurnsOff'
    BY <1>13 DEF End, Leaves, TypeOK, IdleOK, LimitTurnsOff
  <1>14. ASSUME NEW w \in Workers, Crash(w) PROVE LimitTurnsOff'
    BY <1>14 DEF Crash, Leaves, Faulty, TypeOK, IdleOK, LimitTurnsOff
  <1>15. ASSUME NEW w \in Workers, NEW d \in Deliveries, Begin(w, d) PROVE LimitTurnsOff'
    <2>1. /\ pc[w][d] = "begin"
          /\ UNCHANGED <<hookVars, lock, mode, seen, active, gate, accepted, notices,
                         resumes, bounds>>
      BY <1>15 DEF Begin
    <2>2. CASE mode[w] = "sweep" /\ Settle(d, "GIVEN_UP", attempts[d]) /\ Goes(w, d, "no")
      BY <2>1, <2>2, LimitSame DEF Settle
    <2>3. CASE Goes(w, d, "dial") /\ UNCHANGED rowVars
      BY <2>1, <2>3, LimitSame DEF Settle
    <2>4. QED
      BY <1>15, <2>2, <2>3 DEF Begin
  <1>16. ASSUME NEW w \in Workers, NEW d \in Deliveries, Dial(w, d) PROVE LimitTurnsOff'
    <2>1. /\ pc[w][d] = "dial"
          /\ UNCHANGED <<hookVars, lock, mode, seen, active, accepted, notices, resumes,
                         bounds>>
      BY <1>16 DEF Dial
    <2>2. ASSUME NEW to \in {"failed", "send"}, Goes(w, d, to), UNCHANGED rowVars PROVE
        LimitTurnsOff'
      BY <2>1, <2>2, LimitSame DEF Settle
    <2>3. CASE Settle(d, IF mode[w] = "test" THEN "GIVEN_UP" ELSE status[d], attempts[d]) /\
        Goes(w, d, "no")
      BY <2>1, <2>3, LimitSame DEF Settle
    <2>4. QED
      BY <1>16, <2>2, <2>3 DEF Dial
  <1>17. ASSUME NEW w \in Workers, NEW d \in Deliveries, Send(w, d) PROVE LimitTurnsOff'
    <2>1. /\ pc[w][d] = "send"
          /\ UNCHANGED <<hookVars, rowVars, lock, mode, seen, active, gate, notices,
                         resumes, bounds>>
      BY <1>17 DEF Send
    <2>2. CASE accepted' = accepted \cup {d} /\ Goes(w, d, "ok")
      BY <2>1, <2>2, LimitSame DEF Settle
    <2>3. CASE accepted \subseteq accepted' /\ accepted' \subseteq Deliveries /\ Goes(w, d,
        "failed")
      BY <2>1, <2>3, LimitSame DEF Settle
    <2>4. QED
      BY <1>17, <2>2, <2>3 DEF Send, TypeOK
  <1>18. ASSUME NEW w \in Workers, NEW d \in Deliveries, Deliver(w, d) PROVE LimitTurnsOff'
    BY <1>18 DEF Deliver, Settle, Goes, TypeOK, IdleOK, LimitTurnsOff
  <1>19. ASSUME NEW w \in Workers, NEW d \in Deliveries, Reset(w, d) PROVE LimitTurnsOff'
    BY <1>19 DEF Reset, Goes, TypeOK, IdleOK, LimitTurnsOff
  <1>20. ASSUME NEW w \in Workers, NEW d \in Deliveries, Fail(w, d) PROVE LimitTurnsOff'
    BY <1>20 DEF Fail, Settle, Goes, TypeOK, IdleOK, LimitTurnsOff
  <1>21. ASSUME NEW w \in Workers, NEW d \in Deliveries, Count(w, d) PROVE LimitTurnsOff'
    BY <1>21 DEF Count, Goes, Smaller, TypeOK, IdleOK, LimitTurnsOff
  <1>22. ASSUME NEW w \in Workers, NEW d \in Deliveries, Flip(w, d) PROVE LimitTurnsOff'
    <2>1. /\ pc[w][d] = "flip"
          /\ UNCHANGED <<failures, egress, rowVars, lock, mode, seen, active, gate,
                         accepted, notices, resumes, bounds>>
      BY <1>22 DEF Flip
    <2>2. CASE hook' = "DISABLED_FAILING" /\ Goes(w, d, "notify")
      BY <2>1, <2>2 DEF Settle, Goes, TypeOK, IdleOK, LimitTurnsOff
    <2>3. CASE ~(hook = "ACTIVE" /\ failures >= DisableAfter) /\ UNCHANGED hook /\ Goes(w,
        d, "no")
      BY <2>1, <2>3 DEF Settle, Goes, TypeOK, IdleOK, LimitTurnsOff
    <2>4. QED
      BY <1>22, <2>2, <2>3 DEF Flip
  <1>23. ASSUME NEW w \in Workers, NEW d \in Deliveries, Notify(w, d) PROVE LimitTurnsOff'
    BY <1>23 DEF Notify, Goes, TypeOK, IdleOK, LimitTurnsOff
  <1>24. ASSUME NEW w \in Workers, NEW d \in Deliveries, Throw(w, d) PROVE LimitTurnsOff'
    BY <1>24 DEF Throw, Goes, Faulty, TypeOK, IdleOK, LimitTurnsOff
  <1>25. CASE LoseLock
    BY <1>25 DEF LoseLock, Faulty, TypeOK, IdleOK, LimitTurnsOff
  <1>26. CASE UNCHANGED vars
    BY <1>26 DEF vars, TypeOK, IdleOK, LimitTurnsOff
  <1>27. QED
    BY <1>1, <1>2, <1>3, <1>4, <1>5, <1>6, <1>7, <1>8, <1>9, <1>10, <1>11, <1>12, <1>13,
       <1>14, <1>15, <1>16, <1>17, <1>18, <1>19, <1>20, <1>21, <1>22, <1>23, <1>24, <1>25,
       <1>26 DEF Next, Attempt

\* Steps that keep an attempt in flight and the rows as they are.
LEMMA TestSame ==
    ASSUME TypeOK, TestOK, NEW w \in Workers, NEW d \in Deliveries, NEW to,
           Goes(w, d, to), pc[w][d] \in InFlight => to \in InFlight,
           UNCHANGED <<status, source, due, mode, faults, overruns>>
    PROVE  TestOK'
  <1>1. \A v \in Workers, x \in Deliveries : pc[v][x] \in InFlight => pc'[v][x] \in InFlight
    BY DEF Goes, TypeOK
  <1>2. QED
    BY <1>1 DEF TestOK

\* Steps that end an attempt: a test ends with its row settled, a sweep has none.
LEMMA TestEnds ==
    ASSUME TypeOK, TestOK, TestIsOnce, NEW w \in Workers, NEW d \in Deliveries, NEW to,
           pc[w][d] # "no", mode[w] \in {"sweep", "test"},
           Goes(w, d, to), UNCHANGED <<source, mode, faults, overruns>>,
           \A x \in Deliveries \ {d} : status'[x] = status[x] /\ due'[x] = due[x],
           mode[w] = "test" => status'[d] \notin OWED
    PROVE  TestOK'
  <1>1. \A v \in Workers, x \in Deliveries \ {d} : pc'[v][x] = pc[v][x]
    BY DEF Goes, TypeOK
  <1>2. faults' = 0 /\ overruns' = 0 => ~(source'[d] = "test" /\ status'[d] \in OWED)
    BY DEF TestIsOnce
  <1>3. QED
    BY <1>1, <1>2 DEF TestOK

LEMMA TestNext ==
    ASSUME TypeOK, TypeOK', RowsOK, IdleOK, OneAttempt, TestIsOnce, TestOK, [Next]_vars
    PROVE  TestOK'
  <1>1. ASSUME NEW e \in Events, FanOutRead(e) PROVE TestOK'
    BY <1>1 DEF FanOutRead, TypeOK, RowsOK, IdleOK, OneAttempt, TestIsOnce, TestOK,
       InFlight, OWED, Settled
  <1>2. ASSUME NEW e \in Events, FanOutWrite(e) PROVE TestOK'
    <2>1. CASE UNCHANGED <<status, source, attempts, due, expired>>
      BY <1>2, <2>1 DEF FanOutWrite, TypeOK, RowsOK, IdleOK, OneAttempt, TestIsOnce, TestOK,
         InFlight, OWED, Settled
    <2>2. ASSUME NEW d \in Deliveries, Create(d, e, TRUE) PROVE TestOK'
      BY <1>2, <2>2 DEF FanOutWrite, Create, TypeOK, RowsOK, IdleOK, OneAttempt, TestIsOnce,
         TestOK, InFlight, OWED, Settled
    <2>3. QED
      BY <1>2, <2>1, <2>2 DEF FanOutWrite
  <1>3. ASSUME NEW d \in Deliveries, Wake(d) PROVE TestOK'
    BY <1>3 DEF Wake, Held, TypeOK, RowsOK, IdleOK, OneAttempt, TestIsOnce, TestOK,
       InFlight, OWED, Settled
  <1>4. ASSUME NEW d \in Deliveries, Expire(d) PROVE TestOK'
    BY <1>4 DEF Expire, TypeOK, RowsOK, IdleOK, OneAttempt, TestIsOnce, TestOK, InFlight,
       OWED, Settled
  <1>5. ASSUME NEW d \in Deliveries, Prune(d) PROVE TestOK'
    BY <1>5 DEF Prune, TypeOK, RowsOK, IdleOK, OneAttempt, TestIsOnce, TestOK, InFlight,
       OWED, Settled
  <1>6. CASE Pause
    BY <1>6 DEF Pause, Operates, TypeOK, RowsOK, IdleOK, OneAttempt, TestIsOnce, TestOK,
       InFlight, OWED, Settled
  <1>7. CASE Resume
    BY <1>7 DEF Resume, Operates, TypeOK, RowsOK, IdleOK, OneAttempt, TestIsOnce, TestOK,
       InFlight, OWED, Settled
  <1>8. CASE Delete
    BY <1>8 DEF Delete, Operates, Exists, TypeOK, RowsOK, IdleOK, OneAttempt, TestIsOnce,
       TestOK, InFlight, OWED, Settled
  <1>9. CASE Switch
    BY <1>9 DEF Switch, Operates, TypeOK, RowsOK, IdleOK, OneAttempt, TestIsOnce, TestOK,
       InFlight, OWED, Settled
  <1>10. CASE Redeliver
    BY <1>10 DEF Redeliver, Operates, Create, TypeOK, RowsOK, IdleOK, OneAttempt,
       TestIsOnce, TestOK, InFlight, OWED, Settled
  <1>11. ASSUME NEW w \in Workers, Test(w) PROVE TestOK'
    BY <1>11 DEF Test, Operates, Create, Takes, TypeOK, RowsOK, IdleOK, OneAttempt,
       TestIsOnce, TestOK, InFlight, OWED, Settled
  <1>12. ASSUME NEW w \in Workers, Claim(w) PROVE TestOK'
    BY <1>12 DEF Claim, Takes, Due, TypeOK, RowsOK, IdleOK, OneAttempt, TestIsOnce, TestOK,
       InFlight, OWED, Settled
  <1>13. ASSUME NEW w \in Workers, End(w) PROVE TestOK'
    BY <1>13 DEF End, Leaves, TypeOK, RowsOK, IdleOK, OneAttempt, TestIsOnce, TestOK,
       InFlight, OWED, Settled
  <1>14. ASSUME NEW w \in Workers, Crash(w) PROVE TestOK'
    BY <1>14 DEF Crash, Leaves, Faulty, TypeOK, RowsOK, IdleOK, OneAttempt, TestIsOnce,
       TestOK, InFlight, OWED, Settled
  <1>15. ASSUME NEW w \in Workers, NEW d \in Deliveries, Begin(w, d) PROVE TestOK'
    <2>1. CASE Goes(w, d, "dial") /\ UNCHANGED rowVars
      BY <1>15, <2>1, TestSame DEF Begin, InFlight
    <2>2. CASE mode[w] = "sweep" /\ Settle(d, "GIVEN_UP", attempts[d]) /\ Goes(w, d, "no")
      <3>1. \A x \in Deliveries \ {d} : status'[x] = status[x] /\ due'[x] = due[x]
        BY <2>2 DEF Settle, TypeOK
      <3>2. QED
        BY <1>15, <2>2, <3>1, TestEnds DEF Begin, Settle
    <2>3. QED
      BY <1>15, <2>1, <2>2 DEF Begin
  <1>16. ASSUME NEW w \in Workers, NEW d \in Deliveries, Dial(w, d) PROVE TestOK'
    <2>1. ASSUME NEW to \in {"failed", "send"}, Goes(w, d, to), UNCHANGED rowVars PROVE
        TestOK'
      BY <1>16, <2>1, TestSame DEF Dial, InFlight
    <2>2. CASE /\ Settle(d, IF mode[w] = "test" THEN "GIVEN_UP" ELSE status[d], attempts[d])
               /\ Goes(w, d, "no")
      <3>1. pc[w][d] # "no" /\ mode[w] \in {"sweep", "test"}
        BY <1>16 DEF Dial, IdleOK, TypeOK
      <3>2. /\ \A x \in Deliveries \ {d} : status'[x] = status[x] /\ due'[x] = due[x]
            /\ mode[w] = "test" => status'[d] \notin OWED
        BY <2>2 DEF Settle, OWED, TypeOK
      <3>3. QED
        BY <1>16, <2>2, <3>1, <3>2, TestEnds DEF Dial, Settle
    <2>3. QED
      BY <1>16, <2>1, <2>2 DEF Dial
  <1>17. ASSUME NEW w \in Workers, NEW d \in Deliveries, Send(w, d) PROVE TestOK'
    BY <1>17, TestSame DEF Send, InFlight
  <1>18. ASSUME NEW w \in Workers, NEW d \in Deliveries, Deliver(w, d) PROVE TestOK'
    <2>1. pc[w][d] # "no" /\ mode[w] \in {"sweep", "test"}
      BY <1>18 DEF Deliver, IdleOK, TypeOK
    <2>2. /\ \A x \in Deliveries \ {d} : status'[x] = status[x] /\ due'[x] = due[x]
          /\ mode[w] = "test" => status'[d] \notin OWED
      BY <1>18 DEF Deliver, Settle, OWED, TypeOK
    <2>3. PICK to : Goes(w, d, to)
      BY <1>18 DEF Deliver
    <2>4. QED
      BY <1>18, <2>1, <2>2, <2>3, TestEnds DEF Deliver, Settle
  <1>19. ASSUME NEW w \in Workers, NEW d \in Deliveries, Reset(w, d) PROVE TestOK'
    BY <1>19, TestSame DEF Reset, InFlight
  <1>20. ASSUME NEW w \in Workers, NEW d \in Deliveries, Fail(w, d) PROVE TestOK'
    <2>1. pc[w][d] # "no" /\ mode[w] \in {"sweep", "test"}
      BY <1>20 DEF Fail, IdleOK, TypeOK
    <2>2. /\ \A x \in Deliveries \ {d} : status'[x] = status[x] /\ due'[x] = due[x]
          /\ mode[w] = "test" => status'[d] \notin OWED
      BY <1>20 DEF Fail, Settle, OWED, TypeOK
    <2>3. PICK to : Goes(w, d, to)
      BY <1>20 DEF Fail
    <2>4. QED
      BY <1>20, <2>1, <2>2, <2>3, TestEnds DEF Fail, Settle
  <1>21. ASSUME NEW w \in Workers, NEW d \in Deliveries, Count(w, d) PROVE TestOK'
    BY <1>21, TestSame DEF Count, InFlight
  <1>22. ASSUME NEW w \in Workers, NEW d \in Deliveries, Flip(w, d) PROVE TestOK'
    BY <1>22, TestSame DEF Flip, InFlight
  <1>23. ASSUME NEW w \in Workers, NEW d \in Deliveries, Notify(w, d) PROVE TestOK'
    BY <1>23, TestSame DEF Notify, InFlight
  <1>24. ASSUME NEW w \in Workers, NEW d \in Deliveries, Throw(w, d) PROVE TestOK'
    BY <1>24 DEF Throw, Goes, Faulty, TypeOK, RowsOK, IdleOK, OneAttempt, TestIsOnce,
       TestOK, InFlight, OWED, Settled
  <1>25. CASE LoseLock
    BY <1>25 DEF LoseLock, Faulty, TypeOK, RowsOK, IdleOK, OneAttempt, TestIsOnce, TestOK,
       InFlight, OWED, Settled
  <1>26. CASE UNCHANGED vars
    BY <1>26 DEF vars, TypeOK, RowsOK, IdleOK, OneAttempt, TestIsOnce, TestOK, InFlight,
       OWED, Settled
  <1>27. QED
    BY <1>1, <1>2, <1>3, <1>4, <1>5, <1>6, <1>7, <1>8, <1>9, <1>10, <1>11, <1>12, <1>13,
       <1>14, <1>15, <1>16, <1>17, <1>18, <1>19, <1>20, <1>21, <1>22, <1>23, <1>24, <1>25,
       <1>26 DEF Next, Attempt

LEMMA TestIsOnceNext ==
    ASSUME TypeOK, TypeOK', RowsOK, IdleOK, TestOK, TestIsOnce, [Next]_vars
    PROVE  TestIsOnce'
  <1>1. ASSUME NEW e \in Events, FanOutRead(e) PROVE TestIsOnce'
    BY <1>1 DEF FanOutRead, TypeOK, RowsOK, IdleOK, TestOK, TestIsOnce, OWED
  <1>2. ASSUME NEW e \in Events, FanOutWrite(e) PROVE TestIsOnce'
    BY <1>2 DEF FanOutWrite, Create, Exists, TypeOK, RowsOK, IdleOK, TestOK, TestIsOnce,
       OWED
  <1>3. ASSUME NEW d \in Deliveries, Wake(d) PROVE TestIsOnce'
    BY <1>3 DEF Wake, Held, TypeOK, RowsOK, IdleOK, TestOK, TestIsOnce, OWED
  <1>4. ASSUME NEW d \in Deliveries, Expire(d) PROVE TestIsOnce'
    BY <1>4 DEF Expire, TypeOK, RowsOK, IdleOK, TestOK, TestIsOnce, OWED
  <1>5. ASSUME NEW d \in Deliveries, Prune(d) PROVE TestIsOnce'
    BY <1>5 DEF Prune, TypeOK, RowsOK, IdleOK, TestOK, TestIsOnce, OWED
  <1>6. CASE Pause
    BY <1>6 DEF Pause, Operates, TypeOK, RowsOK, IdleOK, TestOK, TestIsOnce, OWED
  <1>7. CASE Resume
    BY <1>7 DEF Resume, Operates, TypeOK, RowsOK, IdleOK, TestOK, TestIsOnce, OWED
  <1>8. CASE Delete
    BY <1>8 DEF Delete, Operates, Exists, TypeOK, RowsOK, IdleOK, TestOK, TestIsOnce, OWED
  <1>9. CASE Switch
    BY <1>9 DEF Switch, Operates, TypeOK, RowsOK, IdleOK, TestOK, TestIsOnce, OWED
  <1>10. CASE Redeliver
    BY <1>10 DEF Redeliver, Operates, Create, TypeOK, RowsOK, IdleOK, TestOK, TestIsOnce,
       OWED
  <1>11. ASSUME NEW w \in Workers, Test(w) PROVE TestIsOnce'
    BY <1>11 DEF Test, Operates, Create, Takes, TypeOK, RowsOK, IdleOK, TestOK, TestIsOnce,
       OWED
  <1>12. ASSUME NEW w \in Workers, Claim(w) PROVE TestIsOnce'
    BY <1>12 DEF Claim, Takes, Due, TypeOK, RowsOK, IdleOK, TestOK, TestIsOnce, OWED
  <1>13. ASSUME NEW w \in Workers, End(w) PROVE TestIsOnce'
    BY <1>13 DEF End, Leaves, TypeOK, RowsOK, IdleOK, TestOK, TestIsOnce, OWED
  <1>14. ASSUME NEW w \in Workers, Crash(w) PROVE TestIsOnce'
    BY <1>14 DEF Crash, Leaves, Faulty, TypeOK, RowsOK, IdleOK, TestOK, TestIsOnce, OWED
  <1>15. ASSUME NEW w \in Workers, NEW d \in Deliveries, Begin(w, d) PROVE TestIsOnce'
    <2>1. /\ pc[w][d] = "begin"
          /\ UNCHANGED <<hookVars, lock, mode, seen, active, gate, accepted, notices,
                         resumes, bounds>>
      BY <1>15 DEF Begin
    <2>2. CASE mode[w] = "sweep" /\ Settle(d, "GIVEN_UP", attempts[d]) /\ Goes(w, d, "no")
      BY <2>1, <2>2 DEF Settle, Goes, TypeOK, RowsOK, IdleOK, TestOK, TestIsOnce, OWED
    <2>3. CASE Goes(w, d, "dial") /\ UNCHANGED rowVars
      BY <2>1, <2>3 DEF Settle, Goes, TypeOK, RowsOK, IdleOK, TestOK, TestIsOnce, OWED
    <2>4. QED
      BY <1>15, <2>2, <2>3 DEF Begin
  <1>16. ASSUME NEW w \in Workers, NEW d \in Deliveries, Dial(w, d) PROVE TestIsOnce'
    <2>1. /\ pc[w][d] = "dial"
          /\ UNCHANGED <<hookVars, lock, mode, seen, active, accepted, notices, resumes,
                         bounds>>
      BY <1>16 DEF Dial
    <2>2. ASSUME NEW to \in {"failed", "send"}, Goes(w, d, to), UNCHANGED rowVars PROVE
        TestIsOnce'
      BY <2>1, <2>2 DEF Settle, Goes, TypeOK, RowsOK, IdleOK, TestOK, TestIsOnce, OWED
    <2>3. CASE Settle(d, IF mode[w] = "test" THEN "GIVEN_UP" ELSE status[d], attempts[d]) /\
        Goes(w, d, "no")
      BY <2>1, <2>3 DEF Settle, Goes, TypeOK, RowsOK, IdleOK, TestOK, TestIsOnce, OWED
    <2>4. QED
      BY <1>16, <2>2, <2>3 DEF Dial
  <1>17. ASSUME NEW w \in Workers, NEW d \in Deliveries, Send(w, d) PROVE TestIsOnce'
    <2>1. /\ pc[w][d] = "send"
          /\ UNCHANGED <<hookVars, rowVars, lock, mode, seen, active, gate, notices,
                         resumes, bounds>>
      BY <1>17 DEF Send
    <2>2. CASE accepted' = accepted \cup {d} /\ Goes(w, d, "ok")
      BY <2>1, <2>2 DEF Settle, Goes, TypeOK, RowsOK, IdleOK, TestOK, TestIsOnce, OWED
    <2>3. CASE accepted \subseteq accepted' /\ accepted' \subseteq Deliveries /\ Goes(w, d,
        "failed")
      BY <2>1, <2>3 DEF Settle, Goes, TypeOK, RowsOK, IdleOK, TestOK, TestIsOnce, OWED
    <2>4. QED
      BY <1>17, <2>2, <2>3 DEF Send, TypeOK
  <1>18. ASSUME NEW w \in Workers, NEW d \in Deliveries, Deliver(w, d) PROVE TestIsOnce'
    BY <1>18 DEF Deliver, Settle, Goes, TypeOK, RowsOK, IdleOK, TestOK, TestIsOnce, OWED
  <1>19. ASSUME NEW w \in Workers, NEW d \in Deliveries, Reset(w, d) PROVE TestIsOnce'
    BY <1>19 DEF Reset, Goes, TypeOK, RowsOK, IdleOK, TestOK, TestIsOnce, OWED
  <1>20. ASSUME NEW w \in Workers, NEW d \in Deliveries, Fail(w, d) PROVE TestIsOnce'
    BY <1>20 DEF Fail, Settle, Goes, TypeOK, RowsOK, IdleOK, TestOK, TestIsOnce, OWED
  <1>21. ASSUME NEW w \in Workers, NEW d \in Deliveries, Count(w, d) PROVE TestIsOnce'
    BY <1>21 DEF Count, Goes, Smaller, TypeOK, RowsOK, IdleOK, TestOK, TestIsOnce, OWED
  <1>22. ASSUME NEW w \in Workers, NEW d \in Deliveries, Flip(w, d) PROVE TestIsOnce'
    <2>1. /\ pc[w][d] = "flip"
          /\ UNCHANGED <<failures, egress, rowVars, lock, mode, seen, active, gate,
                         accepted, notices, resumes, bounds>>
      BY <1>22 DEF Flip
    <2>2. CASE hook' = "DISABLED_FAILING" /\ Goes(w, d, "notify")
      BY <2>1, <2>2 DEF Settle, Goes, TypeOK, RowsOK, IdleOK, TestOK, TestIsOnce, OWED
    <2>3. CASE ~(hook = "ACTIVE" /\ failures >= DisableAfter) /\ UNCHANGED hook /\ Goes(w,
        d, "no")
      BY <2>1, <2>3 DEF Settle, Goes, TypeOK, RowsOK, IdleOK, TestOK, TestIsOnce, OWED
    <2>4. QED
      BY <1>22, <2>2, <2>3 DEF Flip
  <1>23. ASSUME NEW w \in Workers, NEW d \in Deliveries, Notify(w, d) PROVE TestIsOnce'
    BY <1>23 DEF Notify, Goes, TypeOK, RowsOK, IdleOK, TestOK, TestIsOnce, OWED
  <1>24. ASSUME NEW w \in Workers, NEW d \in Deliveries, Throw(w, d) PROVE TestIsOnce'
    BY <1>24 DEF Throw, Goes, Faulty, TypeOK, RowsOK, IdleOK, TestOK, TestIsOnce, OWED
  <1>25. CASE LoseLock
    BY <1>25 DEF LoseLock, Faulty, TypeOK, RowsOK, IdleOK, TestOK, TestIsOnce, OWED
  <1>26. CASE UNCHANGED vars
    BY <1>26 DEF vars, TypeOK, RowsOK, IdleOK, TestOK, TestIsOnce, OWED
  <1>27. QED
    BY <1>1, <1>2, <1>3, <1>4, <1>5, <1>6, <1>7, <1>8, <1>9, <1>10, <1>11, <1>12, <1>13,
       <1>14, <1>15, <1>16, <1>17, <1>18, <1>19, <1>20, <1>21, <1>22, <1>23, <1>24, <1>25,
       <1>26 DEF Next, Attempt

-----------------------------------------------------------------------------
(* The notices *)

\* The attempts that turned the webhook off and have not told yet.
Telling == {x \in Workers \X Deliveries : pc[x[1]][x[2]] = "notify"}

\* Every notice sent or about to be sent is of a period of being on that is over.
NoticeOK == notices + Cardinality(Telling) + (IF hook = "ACTIVE" THEN 1 ELSE 0) <= resumes +
    1

LEMMA TellingFinite ==
    /\ IsFiniteSet(Telling) /\ Cardinality(Telling) \in Nat
    /\ IsFiniteSet(Telling') /\ Cardinality(Telling') \in Nat
  <1>1. IsFiniteSet(Workers \X Deliveries)
    BY FS_Product
  <1>2. Telling \subseteq Workers \X Deliveries /\ Telling' \subseteq Workers \X Deliveries
    BY DEF Telling
  <1>3. IsFiniteSet(Telling) /\ IsFiniteSet(Telling')
    BY <1>1, <1>2, FS_Subset
  <1>4. QED
    BY <1>3, FS_CardinalityType

\* Nobody begins to tell.
LEMMA NoticeSame ==
    ASSUME TypeOK, TypeOK', NoticeOK, notices' = notices,
           \A v \in Workers, x \in Deliveries : pc'[v][x] = "notify" => pc[v][x] = "notify",
           \/ resumes' = resumes /\ (hook' = "ACTIVE" => hook = "ACTIVE")
           \/ resumes' = resumes + 1
    PROVE  NoticeOK'
  <1>1. Telling' \subseteq Telling
    BY DEF Telling
  <1>2. Cardinality(Telling') <= Cardinality(Telling)
    BY <1>1, TellingFinite, FS_Subset
  <1>3. QED
    BY <1>2, TellingFinite DEF NoticeOK, TypeOK

LEMMA NoticeNext ==
    ASSUME TypeOK, TypeOK', NoticeOK, [Next]_vars
    PROVE  NoticeOK'
  <1>1. ASSUME NEW e \in Events, FanOutRead(e) PROVE NoticeOK'
    BY <1>1, NoticeSame DEF FanOutRead
  <1>2. ASSUME NEW e \in Events, FanOutWrite(e) PROVE NoticeOK'
    BY <1>2, NoticeSame DEF FanOutWrite
  <1>3. ASSUME NEW d \in Deliveries, Wake(d) PROVE NoticeOK'
    BY <1>3, NoticeSame DEF Wake
  <1>4. ASSUME NEW d \in Deliveries, Expire(d) PROVE NoticeOK'
    BY <1>4, NoticeSame DEF Expire
  <1>5. ASSUME NEW d \in Deliveries, Prune(d) PROVE NoticeOK'
    BY <1>5, NoticeSame DEF Prune
  <1>6. CASE Pause
    BY <1>6, NoticeSame DEF Pause
  <1>7. CASE Resume
    BY <1>7, NoticeSame DEF Resume
  <1>8. CASE Delete
    BY <1>8, NoticeSame DEF Delete
  <1>9. CASE Switch
    BY <1>9, NoticeSame DEF Switch
  <1>10. CASE Redeliver
    BY <1>10, NoticeSame DEF Redeliver
  <1>11. ASSUME NEW w \in Workers, Test(w) PROVE NoticeOK'
    <2>1. PICK S \in SUBSET Deliveries : Takes(w, S)
      BY <1>11 DEF Test
    <2>2. \A v \in Workers, x \in Deliveries : pc'[v][x] = "notify" => pc[v][x] = "notify"
      BY <2>1 DEF Takes, TypeOK
    <2>3. QED
      BY <1>11, <2>2, NoticeSame DEF Test
  <1>12. ASSUME NEW w \in Workers, Claim(w) PROVE NoticeOK'
    <2>1. PICK S \in SUBSET Deliveries : Takes(w, S)
      BY <1>12 DEF Claim, Due
    <2>2. \A v \in Workers, x \in Deliveries : pc'[v][x] = "notify" => pc[v][x] = "notify"
      BY <2>1 DEF Takes, TypeOK
    <2>3. QED
      BY <1>12, <2>2, NoticeSame DEF Claim
  <1>13. ASSUME NEW w \in Workers, End(w) PROVE NoticeOK'
    <2>1. \A v \in Workers, x \in Deliveries : pc'[v][x] = "notify" => pc[v][x] = "notify"
      BY <1>13 DEF End, Leaves, TypeOK
    <2>2. QED
      BY <1>13, <2>1, NoticeSame DEF End
  <1>14. ASSUME NEW w \in Workers, Crash(w) PROVE NoticeOK'
    <2>1. \A v \in Workers, x \in Deliveries : pc'[v][x] = "notify" => pc[v][x] = "notify"
      BY <1>14 DEF Crash, Leaves, TypeOK
    <2>2. QED
      BY <1>14, <2>1, NoticeSame DEF Crash
  <1>15. ASSUME NEW w \in Workers, NEW d \in Deliveries, Begin(w, d) PROVE NoticeOK'
    <2>1. PICK to \in {"no", "dial"} : Goes(w, d, to)
      BY <1>15 DEF Begin
    <2>2. \A v \in Workers, x \in Deliveries : pc'[v][x] = "notify" => pc[v][x] = "notify"
      BY <2>1 DEF Goes, TypeOK
    <2>3. QED
      BY <1>15, <2>2, NoticeSame DEF Begin
  <1>16. ASSUME NEW w \in Workers, NEW d \in Deliveries, Dial(w, d) PROVE NoticeOK'
    <2>1. PICK to \in {"no", "failed", "send"} : Goes(w, d, to)
      BY <1>16 DEF Dial
    <2>2. \A v \in Workers, x \in Deliveries : pc'[v][x] = "notify" => pc[v][x] = "notify"
      BY <2>1 DEF Goes, TypeOK
    <2>3. QED
      BY <1>16, <2>2, NoticeSame DEF Dial
  <1>17. ASSUME NEW w \in Workers, NEW d \in Deliveries, Send(w, d) PROVE NoticeOK'
    <2>1. PICK to \in {"ok", "failed"} : Goes(w, d, to)
      BY <1>17 DEF Send
    <2>2. \A v \in Workers, x \in Deliveries : pc'[v][x] = "notify" => pc[v][x] = "notify"
      BY <2>1 DEF Goes, TypeOK
    <2>3. QED
      BY <1>17, <2>2, NoticeSame DEF Send
  <1>18. ASSUME NEW w \in Workers, NEW d \in Deliveries, Deliver(w, d) PROVE NoticeOK'
    <2>1. \A v \in Workers, x \in Deliveries : pc'[v][x] = "notify" => pc[v][x] = "notify"
      BY <1>18 DEF Deliver, Goes, TypeOK
    <2>2. QED
      BY <1>18, <2>1, NoticeSame DEF Deliver
  <1>19. ASSUME NEW w \in Workers, NEW d \in Deliveries, Reset(w, d) PROVE NoticeOK'
    <2>1. \A v \in Workers, x \in Deliveries : pc'[v][x] = "notify" => pc[v][x] = "notify"
      BY <1>19 DEF Reset, Goes, TypeOK
    <2>2. QED
      BY <1>19, <2>1, NoticeSame DEF Reset
  <1>20. ASSUME NEW w \in Workers, NEW d \in Deliveries, Fail(w, d) PROVE NoticeOK'
    <2>1. \A v \in Workers, x \in Deliveries : pc'[v][x] = "notify" => pc[v][x] = "notify"
      BY <1>20 DEF Fail, Goes, TypeOK
    <2>2. QED
      BY <1>20, <2>1, NoticeSame DEF Fail
  <1>21. ASSUME NEW w \in Workers, NEW d \in Deliveries, Count(w, d) PROVE NoticeOK'
    <2>1. \A v \in Workers, x \in Deliveries : pc'[v][x] = "notify" => pc[v][x] = "notify"
      BY <1>21 DEF Count, Goes, TypeOK
    <2>2. QED
      BY <1>21, <2>1, NoticeSame DEF Count
  <1>22. ASSUME NEW w \in Workers, NEW d \in Deliveries, Flip(w, d) PROVE NoticeOK'
    <2>1. CASE hook = "ACTIVE" /\ hook' = "DISABLED_FAILING" /\ Goes(w, d, "notify")
      <3>1. Telling' \subseteq Telling \cup {<<w, d>>}
        BY <2>1 DEF Telling, Goes, TypeOK
      <3>2. IsFiniteSet(Telling \cup {<<w, d>>}) /\
            Cardinality(Telling \cup {<<w, d>>}) <= Cardinality(Telling) + 1
        <4> DEFINE S == Telling
                   x == <<w, d>>
        <4>1. IsFiniteSet(S) /\ Cardinality(S) \in Nat
          BY TellingFinite
        <4> HIDE DEF S, x
        <4>2. /\ IsFiniteSet(S \cup {x})
              /\ Cardinality(S \cup {x}) = IF x \in S THEN Cardinality(S) ELSE
                  Cardinality(S) + 1
          BY <4>1, FS_AddElement
        <4>3. IsFiniteSet(S \cup {x}) /\ Cardinality(S \cup {x}) <= Cardinality(S) + 1
          BY <4>1, <4>2
        <4>4. QED
          BY <4>3 DEF S, x
      <3>3. Cardinality(Telling') <= Cardinality(Telling \cup {<<w, d>>})
        BY <3>1, <3>2, FS_Subset
      <3>4. Cardinality(Telling \cup {<<w, d>>}) \in Nat
        BY <3>2, FS_CardinalityType
      <3>5. Cardinality(Telling') <= Cardinality(Telling) + 1
        BY <3>2, <3>3, <3>4, TellingFinite
      <3>6. notices' = notices /\ resumes' = resumes
        BY <1>22 DEF Flip
      <3>7. QED
        BY <2>1, <3>5, <3>6, TellingFinite DEF NoticeOK, TypeOK
    <2>2. CASE UNCHANGED hook /\ Goes(w, d, "no")
      <3>1. \A v \in Workers, x \in Deliveries : pc'[v][x] = "notify" => pc[v][x] = "notify"
        BY <2>2 DEF Goes, TypeOK
      <3>2. QED
        BY <1>22, <2>2, <3>1, NoticeSame DEF Flip
    <2>3. QED
      BY <1>22, <2>1, <2>2 DEF Flip
  <1>23. ASSUME NEW w \in Workers, NEW d \in Deliveries, Notify(w, d) PROVE NoticeOK'
    <2>1. Telling' = Telling \ {<<w, d>>} /\ <<w, d>> \in Telling
      <3>1. \A v \in Workers, x \in Deliveries :
                pc'[v][x] = "notify" <=> pc[v][x] = "notify" /\ <<v, x>> # <<w, d>>
        BY <1>23 DEF Notify, Goes, TypeOK
      <3>2. QED
        BY <1>23, <3>1 DEF Telling, Notify
    <2>2. Cardinality(Telling') = Cardinality(Telling) - 1
      BY <2>1, TellingFinite, FS_RemoveElement
    <2>3. notices' = notices + 1 /\ UNCHANGED <<hook, resumes>>
      BY <1>23 DEF Notify
    <2>4. QED
      BY <2>2, <2>3, TellingFinite DEF NoticeOK, TypeOK
  <1>24. ASSUME NEW w \in Workers, NEW d \in Deliveries, Throw(w, d) PROVE NoticeOK'
    <2>1. \A v \in Workers, x \in Deliveries : pc'[v][x] = "notify" => pc[v][x] = "notify"
      BY <1>24 DEF Throw, Goes, TypeOK
    <2>2. QED
      BY <1>24, <2>1, NoticeSame DEF Throw
  <1>25. CASE LoseLock
    BY <1>25, NoticeSame DEF LoseLock
  <1>26. CASE UNCHANGED vars
    BY <1>26 DEF vars, NoticeOK, Telling
  <1>27. QED
    BY <1>1, <1>2, <1>3, <1>4, <1>5, <1>6, <1>7, <1>8, <1>9, <1>10, <1>11, <1>12, <1>13,
       <1>14, <1>15, <1>16, <1>17, <1>18, <1>19, <1>20, <1>21, <1>22, <1>23, <1>24, <1>25,
       <1>26 DEF Next, Attempt

-----------------------------------------------------------------------------
(* Theorems *)

LEMMA InvInit ==
    ASSUME Init
    PROVE  Inv
  BY DEF Init, Inv, TypeOK, RowsOK, IdleOK, AnswerOK, LeaseOK, OneAttempt, TestOK,
     TestIsOnce,
         LimitTurnsOff, Steps, InFlight, OWED, Settled

LEMMA NoticeInit ==
    ASSUME Init
    PROVE  NoticeOK
  <1>1. Telling = {}
    BY DEF Init, Telling
  <1>2. Cardinality(Telling) = 0
    BY <1>1, FS_EmptySet
  <1>3. QED
    BY <1>2 DEF Init, NoticeOK

LEMMA InvNext ==
    ASSUME Inv, [Next]_vars
    PROVE  Inv'
  <1>1. TypeOK'
    BY TypeNext DEF Inv
  <1>2. RowsOK' /\ IdleOK' /\ AnswerOK'
    BY <1>1, RowsNext, IdleNext, AnswerNext DEF Inv
  <1>3. LeaseOK' /\ OneAttempt'
    BY <1>1, LeaseNext, OneAttemptNext DEF Inv
  <1>4. TestOK' /\ TestIsOnce' /\ LimitTurnsOff'
    BY <1>1, TestNext, TestIsOnceNext, LimitNext DEF Inv
  <1>5. QED
    BY <1>1, <1>2, <1>3, <1>4 DEF Inv

\* The parts together are inductive.
THEOREM Invariant == Spec => []Inv
  BY InvInit, InvNext, PTL DEF Spec

\* The variables keep their types, and no row counts more attempts than the
\* ladder has rungs, for every ladder and however attempts overlap.
THEOREM TypeCorrect == Spec => []TypeOK
  BY Invariant, PTL DEF Inv

\* While no lease ends under its attempt, a row is never attempted by two workers
\* at once: the lease does it, without the advisory lock.
THEOREM LeaseExcludes == Spec => []OneAttempt
  BY Invariant, PTL DEF Inv

\* A test in flight is never taken by a sweep while its process lives.
THEOREM TestsAreOnce == Spec => []TestIsOnce
  BY Invariant, PTL DEF Inv

\* The failure limit turns the webhook off, for every limit.
THEOREM LimitHolds == Spec => []LimitTurnsOff
  BY Invariant, PTL DEF Inv

\* One notice per turn-off, for any number of attempts that fail together and any
\* faults.
THEOREM OneNoticePerTurnOff == Spec => []OneNotice
  <1>1. Init => NoticeOK
    BY NoticeInit
  <1>2. Inv /\ Inv' /\ NoticeOK /\ [Next]_vars => NoticeOK'
    BY NoticeNext DEF Inv
  <1>3. Inv /\ NoticeOK => OneNotice
    BY TellingFinite DEF Inv, TypeOK, NoticeOK, OneNotice
  <1>4. QED
    BY <1>1, <1>2, <1>3, Invariant, PTL DEF Spec

\* A finished row stays as it is, or goes.
Kept ==
    \A d \in Deliveries : status[d] \in Settled => status'[d] \in {status[d], "gone"}

\* A row is written delivered only once the receiver took it.
Taken == \A d \in Deliveries : status'[d] = "DELIVERED" => d \in accepted

LEMMA SettledKept ==
    ASSUME Inv, [Next]_vars
    PROVE  Kept
  <1>1. ASSUME NEW e \in Events, FanOutRead(e) PROVE Kept
    BY <1>1 DEF FanOutRead, Kept, Inv, TypeOK, Settled, OWED
  <1>2. ASSUME NEW e \in Events, FanOutWrite(e) PROVE Kept
    <2>1. CASE UNCHANGED <<status, source, attempts, due, expired>>
      BY <1>2, <2>1 DEF FanOutWrite, Kept, Inv, TypeOK, Settled, OWED
    <2>2. ASSUME NEW d \in Deliveries, Create(d, e, TRUE) PROVE Kept
      BY <1>2, <2>2 DEF FanOutWrite, Create, Kept, Inv, TypeOK, Settled, OWED
    <2>3. QED
      BY <1>2, <2>1, <2>2 DEF FanOutWrite
  <1>3. ASSUME NEW d \in Deliveries, Wake(d) PROVE Kept
    BY <1>3 DEF Wake, Held, Kept, Inv, TypeOK, Settled, OWED
  <1>4. ASSUME NEW d \in Deliveries, Expire(d) PROVE Kept
    BY <1>4 DEF Expire, Kept, Inv, TypeOK, Settled, OWED
  <1>5. ASSUME NEW d \in Deliveries, Prune(d) PROVE Kept
    BY <1>5 DEF Prune, Kept, Inv, TypeOK, Settled, OWED
  <1>6. CASE Pause
    BY <1>6 DEF Pause, Operates, Kept, Inv, TypeOK, Settled, OWED
  <1>7. CASE Resume
    BY <1>7 DEF Resume, Operates, Kept, Inv, TypeOK, Settled, OWED
  <1>8. CASE Delete
    BY <1>8 DEF Delete, Operates, Exists, Kept, Inv, TypeOK, Settled, OWED
  <1>9. CASE Switch
    BY <1>9 DEF Switch, Operates, Kept, Inv, TypeOK, Settled, OWED
  <1>10. CASE Redeliver
    BY <1>10 DEF Redeliver, Operates, Create, Kept, Inv, TypeOK, Settled, OWED
  <1>11. ASSUME NEW w \in Workers, Test(w) PROVE Kept
    BY <1>11 DEF Test, Operates, Create, Takes, Kept, Inv, TypeOK, Settled, OWED
  <1>12. ASSUME NEW w \in Workers, Claim(w) PROVE Kept
    BY <1>12 DEF Claim, Takes, Due, Kept, Inv, TypeOK, Settled, OWED
  <1>13. ASSUME NEW w \in Workers, End(w) PROVE Kept
    BY <1>13 DEF End, Leaves, Kept, Inv, TypeOK, Settled, OWED
  <1>14. ASSUME NEW w \in Workers, Crash(w) PROVE Kept
    BY <1>14 DEF Crash, Leaves, Faulty, Kept, Inv, TypeOK, Settled, OWED
  <1>15. ASSUME NEW w \in Workers, NEW d \in Deliveries, Begin(w, d) PROVE Kept
    <2>1. /\ pc[w][d] = "begin"
          /\ UNCHANGED <<hookVars, lock, mode, seen, active, gate, accepted, notices,
                         resumes, bounds>>
      BY <1>15 DEF Begin
    <2>2. CASE mode[w] = "sweep" /\ Settle(d, "GIVEN_UP", attempts[d]) /\ Goes(w, d, "no")
      BY <2>1, <2>2 DEF Settle, Goes, Kept, Inv, TypeOK, Settled, OWED
    <2>3. CASE Goes(w, d, "dial") /\ UNCHANGED rowVars
      BY <2>1, <2>3 DEF Settle, Goes, Kept, Inv, TypeOK, Settled, OWED
    <2>4. QED
      BY <1>15, <2>2, <2>3 DEF Begin
  <1>16. ASSUME NEW w \in Workers, NEW d \in Deliveries, Dial(w, d) PROVE Kept
    <2>1. /\ pc[w][d] = "dial"
          /\ UNCHANGED <<hookVars, lock, mode, seen, active, accepted, notices, resumes,
                         bounds>>
      BY <1>16 DEF Dial
    <2>2. ASSUME NEW to \in {"failed", "send"}, Goes(w, d, to), UNCHANGED rowVars PROVE Kept
      BY <2>1, <2>2 DEF Settle, Goes, Kept, Inv, TypeOK, Settled, OWED
    <2>3. CASE Settle(d, IF mode[w] = "test" THEN "GIVEN_UP" ELSE status[d], attempts[d]) /\
        Goes(w, d, "no")
      BY <2>1, <2>3 DEF Settle, Goes, Kept, Inv, TypeOK, Settled, OWED
    <2>4. QED
      BY <1>16, <2>2, <2>3 DEF Dial
  <1>17. ASSUME NEW w \in Workers, NEW d \in Deliveries, Send(w, d) PROVE Kept
    BY <1>17 DEF Send, Kept
  <1>18. ASSUME NEW w \in Workers, NEW d \in Deliveries, Deliver(w, d) PROVE Kept
    BY <1>18 DEF Deliver, Settle, Goes, Kept, Inv, TypeOK, Settled, OWED
  <1>19. ASSUME NEW w \in Workers, NEW d \in Deliveries, Reset(w, d) PROVE Kept
    BY <1>19 DEF Reset, Goes, Kept, Inv, TypeOK, Settled, OWED
  <1>20. ASSUME NEW w \in Workers, NEW d \in Deliveries, Fail(w, d) PROVE Kept
    BY <1>20 DEF Fail, Settle, Goes, Kept, Inv, TypeOK, Settled, OWED
  <1>21. ASSUME NEW w \in Workers, NEW d \in Deliveries, Count(w, d) PROVE Kept
    BY <1>21 DEF Count, Goes, Smaller, Kept, Inv, TypeOK, Settled, OWED
  <1>22. ASSUME NEW w \in Workers, NEW d \in Deliveries, Flip(w, d) PROVE Kept
    BY <1>22 DEF Flip, Kept
  <1>23. ASSUME NEW w \in Workers, NEW d \in Deliveries, Notify(w, d) PROVE Kept
    BY <1>23 DEF Notify, Goes, Kept, Inv, TypeOK, Settled, OWED
  <1>24. ASSUME NEW w \in Workers, NEW d \in Deliveries, Throw(w, d) PROVE Kept
    BY <1>24 DEF Throw, Goes, Faulty, Kept, Inv, TypeOK, Settled, OWED
  <1>25. CASE LoseLock
    BY <1>25 DEF LoseLock, Faulty, Kept, Inv, TypeOK, Settled, OWED
  <1>26. CASE UNCHANGED vars
    BY <1>26 DEF vars, Kept, Inv, TypeOK, Settled, OWED
  <1>27. QED
    BY <1>1, <1>2, <1>3, <1>4, <1>5, <1>6, <1>7, <1>8, <1>9, <1>10, <1>11, <1>12, <1>13,
       <1>14, <1>15, <1>16, <1>17, <1>18, <1>19, <1>20, <1>21, <1>22, <1>23, <1>24, <1>25,
       <1>26 DEF Next, Attempt

LEMMA DeliveredTaken ==
    ASSUME Inv, Inv', [Next]_vars
    PROVE  Taken
  <1>1. ASSUME NEW e \in Events, FanOutRead(e) PROVE Taken
    BY <1>1 DEF FanOutRead, Taken, Inv, AnswerOK
  <1>2. ASSUME NEW e \in Events, FanOutWrite(e) PROVE Taken
    BY <1>2 DEF FanOutWrite, Taken, Inv, AnswerOK
  <1>3. ASSUME NEW d \in Deliveries, Wake(d) PROVE Taken
    BY <1>3 DEF Wake, Taken, Inv, AnswerOK
  <1>4. ASSUME NEW d \in Deliveries, Expire(d) PROVE Taken
    BY <1>4 DEF Expire, Taken, Inv, AnswerOK
  <1>5. ASSUME NEW d \in Deliveries, Prune(d) PROVE Taken
    BY <1>5 DEF Prune, Taken, Inv, AnswerOK
  <1>6. CASE Pause
    BY <1>6 DEF Pause, Taken, Inv, AnswerOK
  <1>7. CASE Resume
    BY <1>7 DEF Resume, Taken, Inv, AnswerOK
  <1>8. CASE Delete
    BY <1>8 DEF Delete, Taken, Inv, AnswerOK
  <1>9. CASE Switch
    BY <1>9 DEF Switch, Taken, Inv, AnswerOK
  <1>10. CASE Redeliver
    BY <1>10 DEF Redeliver, Taken, Inv, AnswerOK
  <1>11. ASSUME NEW w \in Workers, Test(w) PROVE Taken
    BY <1>11 DEF Test, Taken, Inv, AnswerOK
  <1>12. ASSUME NEW w \in Workers, Claim(w) PROVE Taken
    BY <1>12 DEF Claim, Taken, Inv, AnswerOK
  <1>13. ASSUME NEW w \in Workers, End(w) PROVE Taken
    BY <1>13 DEF End, Taken, Inv, AnswerOK
  <1>14. ASSUME NEW w \in Workers, Crash(w) PROVE Taken
    BY <1>14 DEF Crash, Taken, Inv, AnswerOK
  <1>15. ASSUME NEW w \in Workers, NEW d \in Deliveries, Begin(w, d) PROVE Taken
    BY <1>15 DEF Begin, Taken, Inv, AnswerOK
  <1>16. ASSUME NEW w \in Workers, NEW d \in Deliveries, Dial(w, d) PROVE Taken
    BY <1>16 DEF Dial, Taken, Inv, AnswerOK
  <1>17. ASSUME NEW w \in Workers, NEW d \in Deliveries, Send(w, d) PROVE Taken
    BY <1>17 DEF Send, Taken, Inv, AnswerOK
  <1>18. ASSUME NEW w \in Workers, NEW d \in Deliveries, Deliver(w, d) PROVE Taken
    BY <1>18 DEF Deliver, Taken, Inv, AnswerOK
  <1>19. ASSUME NEW w \in Workers, NEW d \in Deliveries, Reset(w, d) PROVE Taken
    BY <1>19 DEF Reset, Taken, Inv, AnswerOK
  <1>20. ASSUME NEW w \in Workers, NEW d \in Deliveries, Fail(w, d) PROVE Taken
    BY <1>20 DEF Fail, Taken, Inv, AnswerOK
  <1>21. ASSUME NEW w \in Workers, NEW d \in Deliveries, Count(w, d) PROVE Taken
    BY <1>21 DEF Count, Taken, Inv, AnswerOK
  <1>22. ASSUME NEW w \in Workers, NEW d \in Deliveries, Flip(w, d) PROVE Taken
    BY <1>22 DEF Flip, Taken, Inv, AnswerOK
  <1>23. ASSUME NEW w \in Workers, NEW d \in Deliveries, Notify(w, d) PROVE Taken
    BY <1>23 DEF Notify, Taken, Inv, AnswerOK
  <1>24. ASSUME NEW w \in Workers, NEW d \in Deliveries, Throw(w, d) PROVE Taken
    BY <1>24 DEF Throw, Taken, Inv, AnswerOK
  <1>25. CASE LoseLock
    BY <1>25 DEF LoseLock, Taken, Inv, AnswerOK
  <1>26. CASE UNCHANGED vars
    BY <1>26 DEF vars, Taken, Inv, AnswerOK
  <1>27. QED
    BY <1>1, <1>2, <1>3, <1>4, <1>5, <1>6, <1>7, <1>8, <1>9, <1>10, <1>11, <1>12, <1>13,
       <1>14, <1>15, <1>16, <1>17, <1>18, <1>19, <1>20, <1>21, <1>22, <1>23, <1>24, <1>25,
       <1>26 DEF Next, Attempt

\* A finished delivery keeps its outcome until it is pruned, and one that is
\* written delivered was taken by the receiver, also when leases run out and two
\* attempts race.
THEOREM OutcomesAreFinal == Spec => SettledStays
  <1>1. Inv /\ Inv' /\ [Next]_vars =>
            [\A d \in Deliveries :
                /\ status[d] \in Settled => status'[d] \in {status[d], "gone"}
                /\ status'[d] = "DELIVERED" => d \in accepted]_vars
    BY SettledKept, DeliveredTaken DEF Kept, Taken
  <1>2. QED
    BY <1>1, Invariant, PTL DEF Spec, SettledStays

=============================================================================
