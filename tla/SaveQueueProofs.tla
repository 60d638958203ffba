-------------------------- MODULE SaveQueueProofs --------------------------
(***************************************************************************)
(* Proofs about SaveQueue, for every set of changes and all limits.        *)
(***************************************************************************)
EXTENDS SaveQueue, SequenceTheorems, TLAPS

(* The inductive invariant. *)

\* Whoever awaits an answer or a delay does so for the head of the queue.
SendsTheHead == runner # "idle" => queue # << >>

\* Every change is typed once, and settled only after it was typed.
TypedOnce ==
  /\ \A k, l \in DOMAIN entered : entered[k] = entered[l] => k = l
  /\ \A o \in Changes : outcome[o] # "none" => \E k \in DOMAIN entered : entered[k] = o

\* What was tried on this connection is among all that was tried.
TriesAreFailures == spent.tries <= spent.failures

History == NothingOvertaken /\ TypedOnce

QueueInv ==
  /\ QueueTypeOK /\ History
  /\ NeverUnattended /\ SendsTheHead /\ TriesAreFailures

----------------------------------------------------------------------------
(* What the pieces of run() do. *)

Resting(q) ==
  /\ runner' \in {"idle", "waiting", "pausing"}
  /\ timer' \in BOOLEAN
  /\ drain' \in {"none", "waiting", "drained", "timed out"}
  /\ runner' = "idle" /\ q # << >> => timer'
  /\ runner' # "idle" => q # << >>

LEMMA LoopRests ==
  ASSUME QueueTypeOK, NEW q, NEW up \in BOOLEAN, NEW armed \in BOOLEAN,
         LoopFrom(q, up, armed)
  PROVE  Resting(q)
<1>1. runner' \in {"idle", "waiting"} /\ (runner' = "idle" => q = << >> \/ ~up)
      /\ (runner' # "idle" => q # << >>)
  BY DEF LoopFrom
<1>2. timer' = (armed \/ (q # << >> /\ ~up))
  BY DEF LoopFrom
<1>3. timer' \in BOOLEAN /\ (runner' = "idle" /\ q # << >> => timer')
  BY <1>1, <1>2
<1>4. drain' \in {"none", "waiting", "drained", "timed out"}
  BY DEF LoopFrom, QueueTypeOK
<1>5. QED
  BY <1>1, <1>3, <1>4 DEF Resting

LEMMA RunRests ==
  ASSUME QueueTypeOK, NeverUnattended, SendsTheHead, NEW q, NEW up \in BOOLEAN,
         Run(q, up), q = queue \/ q # << >>
  PROVE  Resting(q)
<1>1. CASE runner = "idle"
  BY <1>1, LoopRests DEF Run, Loop, QueueTypeOK
<1>2. CASE runner # "idle"
  BY <1>2 DEF Run, Resting, QueueTypeOK, SendsTheHead
<1>3. QED
  BY <1>1, <1>2

----------------------------------------------------------------------------
(* Sequences. *)

LEMMA TailFacts ==
  ASSUME NEW S, NEW s \in Seq(S), s # << >>
  PROVE  /\ Len(s) \in Nat \ {0} /\ DOMAIN s = 1..Len(s)
         /\ Head(s) = s[1] /\ Head(s) \in S /\ Tail(s) \in Seq(S)
         /\ Len(Tail(s)) = Len(s) - 1
         /\ \A k \in 1..(Len(s) - 1) : Tail(s)[k] = s[k + 1]
<1>1. Len(s) \in Nat /\ DOMAIN s = 1..Len(s)
  BY LenProperties
<1>2. Len(s) # 0
  BY EmptySeq
<1>3. Head(s) = s[1]
  OBVIOUS
<1>4. /\ Head(s) \in S /\ Tail(s) \in Seq(S) /\ Len(Tail(s)) = Len(s) - 1
      /\ \A k \in 1..Len(Tail(s)) : Tail(s)[k] = s[k + 1]
  BY HeadTailProperties, Zenon
<1>5. QED
  BY <1>1, <1>2, <1>3, <1>4

LEMMA AppendFacts ==
  ASSUME NEW S, NEW s \in Seq(S), NEW e \in S
  PROVE  /\ Append(s, e) \in Seq(S) /\ Append(s, e) # << >>
         /\ Len(Append(s, e)) = Len(s) + 1
         /\ DOMAIN Append(s, e) = 1..(Len(s) + 1)
         /\ Append(s, e)[Len(s) + 1] = e
         /\ \A k \in 1..Len(s) : Append(s, e)[k] = s[k]
<1>1. /\ Append(s, e) \in Seq(S) /\ Append(s, e) # << >>
      /\ Len(Append(s, e)) = Len(s) + 1
      /\ \A k \in 1..Len(s) : Append(s, e)[k] = s[k]
      /\ Append(s, e)[Len(s) + 1] = e
  BY AppendProperties
<1>2. DOMAIN Append(s, e) = 1..(Len(s) + 1)
  BY <1>1, LenProperties
<1>3. QED
  BY <1>1, <1>2

----------------------------------------------------------------------------
(* The history. *)

LEMMA SettleHistory ==
  ASSUME QueueTypeOK, History, queue # << >>, NEW r, r # "none",
         queue' = Tail(queue), outcome' = [outcome EXCEPT ![Head(queue)] = r],
         entered' = entered
  PROVE  History'
<1> DEFINE done == Len(entered) - Len(queue)
<1>1. /\ Len(queue) \in Nat \ {0} /\ DOMAIN queue = 1..Len(queue)
      /\ Len(entered) \in Nat /\ DOMAIN entered = 1..Len(entered)
      /\ \A k \in DOMAIN entered : entered[k] \in Changes
  <2>1. queue \in Seq(Changes) /\ entered \in Seq(Changes)
    BY DEF QueueTypeOK
  <2>2. QED
    BY <2>1, TailFacts, LenProperties
<1>2. /\ Head(queue) = queue[1] /\ Len(queue') = Len(queue) - 1
      /\ \A k \in 1..Len(queue') : queue'[k] = queue[k + 1]
  <2>1. queue \in Seq(Changes)
    BY DEF QueueTypeOK
  <2>2. QED
    BY <2>1, TailFacts
<1>3. /\ Len(queue) <= Len(entered) /\ done + 1 \in DOMAIN entered
      /\ entered[done + 1] = queue[1] /\ outcome[entered[done + 1]] = "none"
  BY <1>1 DEF History, NothingOvertaken
<1>4. \A o \in Changes : outcome'[o] = IF o = queue[1] THEN r ELSE outcome[o]
  BY <1>2 DEF QueueTypeOK
<1>5. ASSUME NEW k \in DOMAIN entered
      PROVE  IF k <= done + 1 THEN outcome'[entered[k]] # "none"
                              ELSE /\ outcome'[entered[k]] = "none"
                                   /\ queue'[k - (done + 1)] = entered[k]
  <2>1. CASE k = done + 1
    BY <1>1, <1>3, <1>4, <2>1
  <2>2. CASE k # done + 1
    <3>1. entered[k] # queue[1]
      BY <1>3, <2>2 DEF History, TypedOnce
    <3>2. outcome'[entered[k]] = outcome[entered[k]]
      BY <1>1, <1>4, <3>1
    <3>3. CASE k <= done
      BY <1>1, <3>2, <3>3 DEF History, NothingOvertaken
    <3>4. CASE ~(k <= done)
      <4>1. outcome[entered[k]] = "none" /\ queue[k - done] = entered[k]
        BY <3>4 DEF History, NothingOvertaken
      <4>2. k - (done + 1) \in 1..Len(queue') /\ (k - (done + 1)) + 1 = k - done
        BY <1>1, <1>2, <1>3, <2>2, <3>4
      <4>3. queue'[k - (done + 1)] = queue[k - done]
        BY <1>2, <4>2
      <4>4. QED
        BY <1>1, <2>2, <3>2, <3>4, <4>1, <4>3
    <3>5. QED
      BY <3>3, <3>4
  <2>3. QED
    BY <2>1, <2>2
<1>6. Len(entered') - Len(queue') = done + 1 /\ Len(queue') <= Len(entered')
  BY <1>1, <1>2, <1>3
<1>7. NothingOvertaken'
  BY <1>5, <1>6 DEF NothingOvertaken
<1>8. TypedOnce'
  BY <1>3, <1>4 DEF History, TypedOnce
<1>9. QED
  BY <1>7, <1>8 DEF History

LEMMA EnqueueHistory ==
  ASSUME QueueTypeOK, History, NEW o \in Changes, o \notin ToSet(entered),
         queue' = Append(queue, o), entered' = Append(entered, o), outcome' = outcome
  PROVE  History'
<1> DEFINE done == Len(entered) - Len(queue)
<1>1. /\ Len(queue) \in Nat /\ Len(entered) \in Nat /\ Len(queue) <= Len(entered)
      /\ DOMAIN entered = 1..Len(entered) /\ DOMAIN queue = 1..Len(queue)
  BY LenProperties DEF QueueTypeOK, History, NothingOvertaken
<1>2. /\ Len(queue') = Len(queue) + 1 /\ queue'[Len(queue) + 1] = o
      /\ \A k \in 1..Len(queue) : queue'[k] = queue[k]
  <2>1. queue \in Seq(Changes)
    BY DEF QueueTypeOK
  <2>2. QED
    BY <2>1, AppendFacts
<1>3. /\ Len(entered') = Len(entered) + 1 /\ entered'[Len(entered) + 1] = o
      /\ DOMAIN entered' = 1..(Len(entered) + 1)
      /\ \A k \in 1..Len(entered) : entered'[k] = entered[k]
  <2>1. entered \in Seq(Changes)
    BY DEF QueueTypeOK
  <2>2. QED
    BY <2>1, AppendFacts
<1>4. \A k \in DOMAIN entered : entered[k] # o
  BY DEF ToSet
<1>5. outcome[o] = "none"
  BY <1>4 DEF History, TypedOnce
<1>6. Len(entered') - Len(queue') = done
  BY <1>1, <1>2, <1>3
<1>7. ASSUME NEW k \in DOMAIN entered'
      PROVE  IF k <= done THEN outcome'[entered'[k]] # "none"
                          ELSE /\ outcome'[entered'[k]] = "none"
                               /\ queue'[k - done] = entered'[k]
  <2>1. CASE k = Len(entered) + 1
    <3>1. k - done = Len(queue) + 1 /\ ~(k <= done)
      BY <1>1, <2>1
    <3>2. QED
      BY <1>2, <1>3, <1>5, <2>1, <3>1
  <2>2. CASE k \in DOMAIN entered
    <3>1. entered'[k] = entered[k]
      BY <1>1, <1>3, <2>2
    <3>2. CASE k <= done
      BY <2>2, <3>1, <3>2 DEF History, NothingOvertaken
    <3>3. CASE ~(k <= done)
      <4>1. k - done \in 1..Len(queue)
        BY <1>1, <2>2, <3>3
      <4>2. outcome[entered[k]] = "none" /\ queue[k - done] = entered[k]
        BY <2>2, <3>3 DEF History, NothingOvertaken
      <4>3. QED
        BY <1>2, <3>1, <3>3, <4>1, <4>2
    <3>4. QED
      BY <3>2, <3>3
  <2>3. QED
    BY <1>1, <1>3, <2>1, <2>2
<1>8. NothingOvertaken'
  BY <1>1, <1>2, <1>3, <1>6, <1>7 DEF NothingOvertaken
<1>9. TypedOnce'
  <2>1. ASSUME NEW k \in DOMAIN entered', NEW l \in DOMAIN entered', entered'[k] = entered'[l]
        PROVE  k = l
    BY <1>1, <1>3, <1>4, <2>1 DEF History, TypedOnce
  <2>2. ASSUME NEW p \in Changes, outcome'[p] # "none"
        PROVE  \E k \in DOMAIN entered' : entered'[k] = p
    <3>1. PICK k \in DOMAIN entered : entered[k] = p
      BY <2>2 DEF History, TypedOnce
    <3>2. QED
      BY <1>1, <1>3, <3>1
  <2>3. QED
    BY <2>1, <2>2 DEF TypedOnce
<1>10. QED
  BY <1>8, <1>9 DEF History

----------------------------------------------------------------------------
(* The counters. *)

Counters ==
  /\ spent \in [failures : 0..(MaxFailures - 1), tries : 0..TransportRetries,
                retries : 0..Retries, rate : 0..RateRetries]
  /\ TriesAreFailures

LEMMA FreshCounters == ASSUME spent' = Fresh PROVE Counters'
BY FailuresType, RetriesType DEF Counters, TriesAreFailures, Fresh

\* The head is settled, whatever the answer was.
LEMMA SettleStep ==
  ASSUME QueueInv, queue # << >>, NEW up \in BOOLEAN,
         NEW r \in {"saved", "refused", "undelivered"}, Settle(r, up),
         connected' \in BOOLEAN, UNCHANGED <<rejoining, entered>>, reconnects' = reconnects
  PROVE  QueueInv'
<1>1. Head(queue) \in Changes /\ Tail(queue) \in Seq(Changes)
  BY TailFacts DEF QueueInv, QueueTypeOK
<1>2. Resting(queue')
  BY LoopRests DEF Settle, Loop, QueueInv, QueueTypeOK
<1>3. Counters'
  BY FreshCounters DEF Settle
<1>4. outcome' \in [Changes -> {"none", "saved", "refused", "undelivered"}]
  BY <1>1 DEF Settle, QueueInv, QueueTypeOK
<1>5. QueueTypeOK'
  BY <1>1, <1>2, <1>3, <1>4 DEF Settle, Resting, Counters, QueueInv, QueueTypeOK
<1>6. History'
  BY SettleHistory DEF Settle, QueueInv
<1>7. QED
  BY <1>2, <1>3, <1>5, <1>6
     DEF QueueInv, Resting, Counters, NeverUnattended, SendsTheHead

\* The head stays: the loop is left, or waits, and some counter went up.
LEMMA RetryStep ==
  ASSUME QueueInv, queue # << >>, Break \/ Pause, Counters',
         connected' \in BOOLEAN, rejoining' \in BOOLEAN, entered' = entered,
         reconnects' \subseteq Changes
  PROVE  QueueInv'
<1>1. QueueTypeOK'
  BY DEF Break, Pause, Counters, QueueInv, QueueTypeOK
<1>2. History'
  BY DEF Break, Pause, QueueInv, History, NothingOvertaken, TypedOnce
<1>3. QED
  BY <1>1, <1>2 DEF Break, Pause, Counters, QueueInv, NeverUnattended, SendsTheHead

\* Only the runner moves.
LEMMA QuietStep ==
  ASSUME QueueInv, Resting(queue), Counters', connected' \in BOOLEAN,
         rejoining' \in BOOLEAN, UNCHANGED <<queue, entered, outcome, reconnects>>
  PROVE  QueueInv'
<1>1. QueueTypeOK'
  BY DEF Resting, Counters, QueueInv, QueueTypeOK
<1>2. History'
  BY DEF QueueInv, History, NothingOvertaken, TypedOnce
<1>3. QED
  BY <1>1, <1>2 DEF Resting, Counters, QueueInv, NeverUnattended, SendsTheHead

LEMMA UnansweredStep ==
  ASSUME QueueInv, NEW up \in BOOLEAN, Unanswered(up)
  PROVE  QueueInv'
<1>1. queue # << >>
  BY DEF Unanswered, QueueInv, SendsTheHead
<1>2. /\ spent \in [failures : 0..(MaxFailures - 1), tries : 0..TransportRetries,
                    retries : 0..Retries, rate : 0..RateRetries]
      /\ spent.tries <= spent.failures /\ connected \in BOOLEAN /\ rejoining \in BOOLEAN
      /\ reconnects \subseteq Changes
  BY DEF QueueInv, QueueTypeOK, TriesAreFailures
<1>3. CASE spent.failures + 1 >= MaxFailures /\ Settle("undelivered", up)
           /\ connected' = up /\ UNCHANGED reconnects
  BY <1>1, <1>3, SettleStep DEF Unanswered
<1>4. CASE /\ spent.failures + 1 < MaxFailures
           /\ spent' = [spent EXCEPT !.failures = @ + 1]
           /\ connected' = FALSE /\ Break /\ UNCHANGED reconnects
  <2>1. Counters'
    BY <1>2, <1>4, FailuresType, RetriesType DEF Counters, TriesAreFailures
  <2>2. QED
    BY <1>1, <1>2, <1>4, <2>1, RetryStep DEF Unanswered
<1>5. CASE /\ spent.failures + 1 < MaxFailures /\ spent.tries < TransportRetries
           /\ spent' = [spent EXCEPT !.failures = @ + 1, !.tries = @ + 1]
           /\ Pause /\ UNCHANGED <<connected, reconnects>>
  <2>1. /\ spent.failures + 1 \in 0..(MaxFailures - 1)
        /\ spent.tries + 1 \in 0..TransportRetries /\ spent.tries + 1 <= spent.failures + 1
    BY <1>2, <1>5, FailuresType, RetriesType
  <2>2. /\ spent' \in [failures : 0..(MaxFailures - 1), tries : 0..TransportRetries,
                       retries : 0..Retries, rate : 0..RateRetries]
        /\ spent'.tries = spent.tries + 1 /\ spent'.failures = spent.failures + 1
    BY <1>2, <1>5, <2>1
  <2>3. Counters'
    BY <2>1, <2>2 DEF Counters, TriesAreFailures
  <2>4. QED
    BY <1>1, <1>2, <1>5, <2>3, RetryStep DEF Unanswered
<1>6. CASE /\ spent.failures + 1 < MaxFailures
           /\ spent' = [spent EXCEPT !.failures = @ + 1, !.tries = 0]
           /\ reconnects' = reconnects \cup {Head(queue)}
           /\ connected' = FALSE /\ Break
  <2>1. spent.failures + 1 \in 0..(MaxFailures - 1) /\ 0 \in 0..TransportRetries
    BY <1>2, <1>6, FailuresType, RetriesType
  <2>2. /\ spent' \in [failures : 0..(MaxFailures - 1), tries : 0..TransportRetries,
                       retries : 0..Retries, rate : 0..RateRetries]
        /\ spent'.tries = 0 /\ spent'.failures = spent.failures + 1
    BY <1>2, <1>6, <2>1
  <2>3. Counters'
    BY <2>1, <2>2 DEF Counters, TriesAreFailures
  <2>4. Head(queue) \in Changes
    BY <1>1, TailFacts DEF QueueInv, QueueTypeOK
  <2>5. reconnects' \subseteq Changes
    BY <1>2, <1>6, <2>4
  <2>6. QED
    BY <1>1, <1>2, <1>6, <2>3, <2>5, RetryStep DEF Unanswered
<1>7. QED
  BY <1>3, <1>4, <1>5, <1>6 DEF Unanswered

LEMMA EnqueueStep ==
  ASSUME QueueInv, NEW o \in Changes, Enqueue(o)
  PROVE  QueueInv'
<1>1. /\ queue' \in Seq(Changes) /\ entered' \in Seq(Changes) /\ queue' # << >>
  <2>1. queue \in Seq(Changes) /\ entered \in Seq(Changes)
    BY DEF QueueInv, QueueTypeOK
  <2>2. queue' = Append(queue, o) /\ entered' = Append(entered, o)
    BY DEF Enqueue
  <2>3. QED
    BY <2>1, <2>2, AppendFacts
<1>2. Resting(queue')
  <2>1. Run(queue', connected) /\ connected \in BOOLEAN
    BY DEF Enqueue, QueueInv, QueueTypeOK
  <2>2. QED
    BY <1>1, <2>1, RunRests DEF QueueInv
<1>3. History'
  BY EnqueueHistory DEF Enqueue, QueueInv
<1>4. QueueTypeOK'
  BY <1>1, <1>2 DEF Enqueue, Resting, QueueInv, QueueTypeOK
<1>5. QED
  BY <1>2, <1>3, <1>4
     DEF Enqueue, QueueInv, Resting, NeverUnattended, SendsTheHead, TriesAreFailures

LEMMA CountersKept ==
  ASSUME QueueInv, spent' = spent PROVE Counters'
BY DEF QueueInv, QueueTypeOK, Counters, TriesAreFailures

LEMMA AnswerStep ==
  ASSUME QueueInv, Answer
  PROVE  QueueInv'
<1>1. runner = "waiting" /\ queue # << >>
  BY DEF Answer, Confirmed, Refused, RateLimited, ServerError, NotJoined, AnswerTimesOut,
         Unanswered, QueueInv, SendsTheHead
<1>2. /\ spent \in [failures : 0..(MaxFailures - 1), tries : 0..TransportRetries,
                    retries : 0..Retries, rate : 0..RateRetries]
      /\ spent.tries <= spent.failures /\ connected \in BOOLEAN /\ rejoining \in BOOLEAN
      /\ reconnects \subseteq Changes
  BY DEF QueueInv, QueueTypeOK, TriesAreFailures
<1>3. CASE Confirmed
  BY <1>1, <1>2, <1>3, SettleStep DEF Confirmed
<1>4. CASE Refused
  BY <1>1, <1>2, <1>4, SettleStep DEF Refused
<1>5. CASE RateLimited
  <2>1. CASE spent.rate < RateRetries /\ spent' = [spent EXCEPT !.rate = @ + 1] /\ Pause
    <3>1. Counters'
      BY <1>2, <2>1, RetriesType DEF Counters, TriesAreFailures
    <3>2. QED
      BY <1>1, <1>2, <1>5, <2>1, <3>1, RetryStep DEF RateLimited
  <2>2. CASE Settle("refused", connected)
    BY <1>1, <1>2, <1>5, <2>2, SettleStep DEF RateLimited
  <2>3. QED
    BY <1>5, <2>1, <2>2 DEF RateLimited
<1>6. CASE ServerError
  <2>1. CASE spent.retries < Retries /\ spent' = [spent EXCEPT !.retries = @ + 1] /\ Pause
    <3>1. Counters'
      BY <1>2, <2>1, RetriesType DEF Counters, TriesAreFailures
    <3>2. QED
      BY <1>1, <1>2, <1>6, <2>1, <3>1, RetryStep DEF ServerError
  <2>2. CASE Settle("refused", connected)
    BY <1>1, <1>2, <1>6, <2>2, SettleStep DEF ServerError
  <2>3. QED
    BY <1>6, <2>1, <2>2 DEF ServerError
<1>7. CASE NotJoined
  <2>1. Counters'
    BY <1>7, CountersKept DEF NotJoined
  <2>2. QED
    BY <1>1, <1>2, <1>7, <2>1, RetryStep DEF NotJoined
<1>8. CASE AnswerTimesOut
  BY <1>2, <1>8, UnansweredStep DEF AnswerTimesOut
<1>9. QED
  BY <1>3, <1>4, <1>5, <1>6, <1>7, <1>8 DEF Answer

LEMMA QueueInvInit == QueueInit => QueueInv
<1> SUFFICES ASSUME QueueInit PROVE QueueInv
  OBVIOUS
<1>1. DOMAIN entered = {} /\ Len(entered) = 0 /\ Len(queue) = 0 /\ << >> \in Seq(Changes)
  BY EmptySeq DEF QueueInit
<1>2. QueueTypeOK /\ TriesAreFailures
  <2>1. 0 \in 0..(MaxFailures - 1) /\ 0 \in 0..TransportRetries /\ 0 \in 0..Retries
        /\ 0 \in 0..RateRetries
    BY FailuresType, RetriesType
  <2>2. /\ spent \in [failures : 0..(MaxFailures - 1), tries : 0..TransportRetries,
                      retries : 0..Retries, rate : 0..RateRetries]
        /\ spent.tries = 0 /\ spent.failures = 0
    BY <2>1 DEF QueueInit, Fresh
  <2>3. TriesAreFailures
    BY <2>2 DEF TriesAreFailures
  <2>4. outcome \in [Changes -> {"none", "saved", "refused", "undelivered"}]
    BY DEF QueueInit
  <2>5. queue \in Seq(Changes) /\ entered \in Seq(Changes)
    BY <1>1 DEF QueueInit
  <2>6. QED
    BY <2>2, <2>3, <2>4, <2>5 DEF QueueInit, QueueTypeOK
<1>3. History
  BY <1>1 DEF QueueInit, History, NothingOvertaken, TypedOnce
<1>4. QED
  BY <1>2, <1>3 DEF QueueInit, QueueInv, NeverUnattended, SendsTheHead

LEMMA QueueInvStep ==
  ASSUME QueueInv, [QueueNext]_queueVars
  PROVE  QueueInv'
<1>0. /\ connected \in BOOLEAN /\ rejoining \in BOOLEAN /\ timer \in BOOLEAN
      /\ QueueTypeOK /\ NeverUnattended /\ SendsTheHead
  BY DEF QueueInv, QueueTypeOK
<1>1. CASE UNCHANGED queueVars
  <2>1. UNCHANGED <<queue, connected, runner, spent, timer, rejoining, drain, entered,
                    outcome, reconnects>>
    BY <1>1 DEF queueVars
  <2>2. QED
    BY <2>1 DEF QueueInv, QueueTypeOK, History, NothingOvertaken, TypedOnce,
                NeverUnattended, SendsTheHead, TriesAreFailures
<1>2. CASE \E o \in Changes : Enqueue(o)
  BY <1>2, EnqueueStep
<1>3. CASE Answer
  BY <1>3, AnswerStep
<1>4. CASE SetConnected
  <2>1. Resting(queue)
    BY <1>0, <1>4, RunRests DEF SetConnected
  <2>2. /\ spent \in [failures : 0..(MaxFailures - 1), tries : 0..TransportRetries,
                      retries : 0..Retries, rate : 0..RateRetries]
        /\ 0 \in 0..TransportRetries
    <3>1. 0 \in 0..TransportRetries
      BY RetriesType
    <3>2. QED
      BY <3>1 DEF QueueInv, QueueTypeOK
  <2>3. /\ spent' \in [failures : 0..(MaxFailures - 1), tries : 0..TransportRetries,
                       retries : 0..Retries, rate : 0..RateRetries]
        /\ spent'.tries = 0 /\ spent'.failures \in Nat
    BY <1>4, <2>2 DEF SetConnected
  <2>4. Counters'
    BY <2>3 DEF Counters, TriesAreFailures
  <2>5. QED
    BY <1>0, <1>4, <2>1, <2>4, QuietStep DEF SetConnected
<1>5. CASE Revoked \/ (runner # "waiting" /\ ConnectionDrops)
  <2>1. /\ connected' = FALSE
        /\ UNCHANGED <<queue, runner, spent, timer, rejoining, drain, entered, outcome,
                       reconnects>>
    BY <1>5 DEF Revoked, ConnectionDrops, Unanswered
  <2>2. Resting(queue)
    BY <1>0, <2>1 DEF Resting, QueueTypeOK, NeverUnattended, SendsTheHead
  <2>3. QED
    BY <1>0, <2>1, <2>2, CountersKept, QuietStep
<1>6. CASE runner = "waiting" /\ ConnectionDrops
  BY <1>6, UnansweredStep DEF ConnectionDrops
<1>7. CASE \E ok \in BOOLEAN : Rejoined(ok)
  <2>1. PICK ok \in BOOLEAN : Rejoined(ok)
    BY <1>7
  <2>2. Resting(queue)
    <3>1. CASE ok
      BY <1>0, <2>1, <3>1, RunRests DEF Rejoined
    <3>2. CASE ~ok
      BY <1>0, <2>1, <3>2 DEF Rejoined, Resting, QueueTypeOK, NeverUnattended, SendsTheHead
    <3>3. QED
      BY <3>1, <3>2
  <2>3. QED
    BY <1>0, <2>1, <2>2, CountersKept, QuietStep DEF Rejoined
<1>8. CASE PauseEnds
  <2>1. Resting(queue)
    BY <1>0, <1>8, LoopRests DEF PauseEnds, Loop
  <2>2. QED
    BY <1>0, <1>8, <2>1, CountersKept, QuietStep DEF PauseEnds
<1>9. CASE IdleTimer
  <2>1. Resting(queue)
    <3>1. CASE runner = "idle"
      BY <1>0, <1>9, <3>1, LoopRests DEF IdleTimer
    <3>2. CASE runner # "idle"
      BY <1>0, <1>9, <3>2 DEF IdleTimer, Resting, QueueTypeOK, SendsTheHead
    <3>3. QED
      BY <3>1, <3>2
  <2>2. QED
    BY <1>0, <1>9, <2>1, CountersKept, QuietStep DEF IdleTimer
<1>10. CASE WhenDrained \/ DrainTimesOut
  <2>1. Resting(queue)
    BY <1>0, <1>10
       DEF WhenDrained, DrainTimesOut, Resting, QueueTypeOK, NeverUnattended, SendsTheHead
  <2>2. QED
    BY <1>0, <1>10, <2>1, CountersKept, QuietStep DEF WhenDrained, DrainTimesOut
<1>11. QED
  BY <1>1, <1>2, <1>3, <1>4, <1>5, <1>6, <1>7, <1>8, <1>9, <1>10 DEF QueueNext

----------------------------------------------------------------------------
(* The theorems. *)

LEMMA QueueInvariance == QueueSpec => []QueueInv
<1>1. QueueInv /\ [QueueNext]_queueVars => QueueInv'
  BY QueueInvStep
<1>2. QED
  BY <1>1, QueueInvInit, PTL DEF QueueSpec

\* The save queue keeps its shape and no counter passes its limit.
THEOREM QueueTypeCorrect == QueueSpec => []QueueTypeOK
<1>1. QueueInv => QueueTypeOK
  BY DEF QueueInv
<1>2. QED
  BY <1>1, QueueInvariance, PTL

\* Nothing typed is lost or overtaken: what is neither confirmed nor reported is
\* queued, in the order it was typed, across every retry and reconnect.
THEOREM NothingTypedIsLost == QueueSpec => []NothingOvertaken
<1>1. QueueInv => NothingOvertaken
  BY DEF QueueInv, History
<1>2. QED
  BY <1>1, QueueInvariance, PTL

\* A queue at rest with something in it always has a timer that wakes it.
THEOREM NeverStuck == QueueSpec => []NeverUnattended
<1>1. QueueInv => NeverUnattended
  BY DEF QueueInv
<1>2. QED
  BY <1>1, QueueInvariance, PTL

\* With the limits the editor runs with, 5 failures and 4 delays, it never comes to
\* a controlled reconnect: the change is given up first.
THEOREM NeverReconnects ==
  ASSUME MaxFailures <= TransportRetries + 1
  PROVE  QueueSpec => [](reconnects = {})
<1>1. QueueInit => reconnects = {}
  BY DEF QueueInit
<1>2. ASSUME QueueInv, reconnects = {}, [QueueNext]_queueVars
      PROVE  reconnects' = {}
  <2>1. /\ spent.failures \in 0..(MaxFailures - 1) /\ spent.tries \in 0..TransportRetries
        /\ spent.tries <= spent.failures
    BY <1>2 DEF QueueInv, QueueTypeOK, TriesAreFailures
  <2>2. ~(spent.failures + 1 < MaxFailures /\ spent.tries = TransportRetries)
    BY <2>1, FailuresType, RetriesType
  <2>3. QED
    BY <1>2, <2>2
       DEF QueueNext, Enqueue, Answer, Confirmed, Refused, RateLimited, ServerError,
           NotJoined, AnswerTimesOut, Unanswered, SetConnected, Revoked, ConnectionDrops, Rejoined,
           PauseEnds, IdleTimer, WhenDrained, DrainTimesOut, queueVars
<1>3. QueueInv /\ reconnects = {} /\ [QueueNext]_queueVars => (reconnects = {})'
  BY <1>2
<1>4. QED
  BY <1>1, <1>3, QueueInvariance, PTL DEF QueueSpec

----------------------------------------------------------------------------
(* The queue keeps its promise: TabQueue.  The history is needed for what   *)
(* the user is told: the head has been typed and nobody was told of it, and  *)
(* a change that may still be typed is nowhere in the queue.                *)

LEMMA HeadIsPending ==
  ASSUME QueueInv, runner = "waiting"
  PROVE  /\ queue # << >> /\ Head(queue) \in Changes
         /\ Head(queue) \in ToSet(entered)
<1>1. queue # << >>  BY DEF QueueInv, SendsTheHead
<1>2. queue \in Seq(Changes) /\ entered \in Seq(Changes)  BY DEF QueueInv, QueueTypeOK
<1>3. /\ Len(queue) \in Nat \ {0} /\ Head(queue) = queue[1] /\ Head(queue) \in Changes
      /\ Len(entered) \in Nat /\ DOMAIN entered = 1..Len(entered)
  BY <1>1, <1>2, TailFacts, LenProperties
<1> DEFINE k == Len(entered) - Len(queue) + 1
<1>4. k \in DOMAIN entered /\ entered[k] = queue[1]
  BY <1>3 DEF QueueInv, History, NothingOvertaken
<1> QED  BY <1>1, <1>3, <1>4 DEF ToSet

\* What the user is told of a change, by what became of it.
LEMMA TellsTheHead ==
  ASSUME QueueInv, runner = "waiting", NEW up \in BOOLEAN,
         NEW r \in {"saved", "refused", "undelivered"}, Settle(r, up), entered' = entered
  PROVE  [o \in Changes |-> ToldOf(o)]'
           = [[o \in Changes |-> ToldOf(o)] EXCEPT
                ![Head(queue)] = IF r = "saved" THEN "confirmed" ELSE "rejected"]
<1>1. PICK h \in Changes : h = Head(queue) /\ h \in ToSet(entered)  BY HeadIsPending
<1>2. \A o \in Changes : outcome'[o] = IF o = h THEN r ELSE outcome[o]
  BY <1>1 DEF Settle, QueueInv, QueueTypeOK
<1>3. ToSet(entered)' = ToSet(entered)  BY DEF ToSet
<1>4. ASSUME NEW o \in Changes, o # h  PROVE ToldOf(o)' = ToldOf(o)
  BY <1>2, <1>3, <1>4 DEF ToldOf
<1>5. ToldOf(h)' = IF r = "saved" THEN "confirmed" ELSE "rejected"
  <2>1. outcome'[h] = r /\ h \in ToSet(entered)'  BY <1>1, <1>2, <1>3
  <2>2. r # "none"  OBVIOUS
  <2> QED  BY <2>1, <2>2 DEF ToldOf
<1>6. [o \in Changes |-> ToldOf(o)]' = [o \in Changes |-> ToldOf(o)']  OBVIOUS
<1> QED  BY <1>1, <1>4, <1>5, <1>6

LEMMA TellsNobody ==
  ASSUME UNCHANGED <<entered, outcome>>
  PROVE  UNCHANGED [o \in Changes |-> ToldOf(o)]
BY DEF ToldOf, ToSet

\* run() after something was queued, or the connection came up, or a delay ended.
LEMMA LoopMaySend ==
  ASSUME NEW q, NEW up, NEW armed, LoopFrom(q, up, armed)
  PROVE  Promise!MaySend(q, up)
BY DEF LoopFrom, Promise!MaySend

LEMMA RunMaySend ==
  ASSUME NEW q, NEW up, Run(q, up)
  PROVE  Promise!MaySendIfIdle(q, up)
<1>1. CASE runner = "idle"
  BY <1>1, LoopMaySend DEF Run, Loop, Promise!MaySendIfIdle
<1>2. CASE runner # "idle"
  BY <1>2 DEF Run, Promise!MaySendIfIdle
<1> QED  BY <1>1, <1>2

LEMMA EnqueueIsTyping ==
  ASSUME QueueInv, NEW o \in Changes, Enqueue(o)
  PROVE  Promise!Type(o)
<1>1. /\ o \notin ToSet(entered) /\ entered' = Append(entered, o) /\ outcome' = outcome
      /\ queue' = Append(queue, o) /\ connected' = connected
      /\ Run(queue', connected)
  BY DEF Enqueue
<1>2. ToSet(entered)' = ToSet(entered) \cup {o}
  <2>1. entered \in Seq(Changes)  BY DEF QueueInv, QueueTypeOK
  <2>2. /\ DOMAIN entered' = 1..(Len(entered) + 1) /\ entered'[Len(entered) + 1] = o
        /\ \A k \in 1..Len(entered) : entered'[k] = entered[k]
    BY <1>1, <2>1, AppendFacts
  <2>3. DOMAIN entered = 1..Len(entered) /\ Len(entered) \in Nat  BY <2>1, LenProperties
  <2>4. DOMAIN entered' = DOMAIN entered \cup {Len(entered) + 1}  BY <2>2, <2>3
  <2> QED  BY <2>2, <2>3, <2>4 DEF ToSet
<1>3. outcome[o] = "none"
  <2>1. \A k \in DOMAIN entered : entered[k] # o  BY <1>1 DEF ToSet
  <2> QED  BY <2>1 DEF QueueInv, History, TypedOnce
<1>4. ToldOf(o) = "untyped" /\ ToldOf(o)' = "pending"
  BY <1>1, <1>2, <1>3 DEF ToldOf
<1>5. ASSUME NEW p \in Changes, p # o  PROVE ToldOf(p)' = ToldOf(p)
  BY <1>1, <1>2, <1>5 DEF ToldOf
<1>6. [p \in Changes |-> ToldOf(p)]' = [p \in Changes |-> ToldOf(p)']  OBVIOUS
<1>7. [p \in Changes |-> ToldOf(p)]'
        = [[p \in Changes |-> ToldOf(p)] EXCEPT ![o] = "pending"]
  BY <1>4, <1>5, <1>6
<1>8. Promise!MaySendIfIdle(queue', connected)  BY <1>1, RunMaySend
<1> QED  BY <1>1, <1>4, <1>7, <1>8 DEF Promise!Type

\* The head is settled by an answer, or by the lack of one.
LEMMA SettleIsTelling ==
  ASSUME QueueInv, runner = "waiting", NEW up \in {connected, FALSE}, connected' = up,
         NEW r \in {"saved", "refused", "undelivered"}, Settle(r, up), entered' = entered,
         r = "saved" => up = connected
  PROVE  Promise!Confirm \/ Promise!Report
<1>1. up \in BOOLEAN  BY DEF QueueInv, QueueTypeOK
<1>2. queue' = Tail(queue) /\ Promise!MaySend(queue', up)
  BY LoopMaySend DEF Settle, Loop
<1>3. [o \in Changes |-> ToldOf(o)]'
        = [[o \in Changes |-> ToldOf(o)] EXCEPT
             ![Head(queue)] = IF r = "saved" THEN "confirmed" ELSE "rejected"]
  BY <1>1, TellsTheHead
<1>4. CASE r = "saved"  BY <1>2, <1>3, <1>4 DEF Promise!Confirm
<1>5. CASE r # "saved"  BY <1>2, <1>3, <1>5 DEF Promise!Report
<1> QED  BY <1>4, <1>5

\* The head stays, and is sent again after a delay or when something wakes run().
LEMMA RetryIsWaiting ==
  ASSUME runner = "waiting", Break \/ Pause, entered' = entered,
         connected' \in {connected, FALSE}, Pause => connected' = connected
  PROVE  Promise!PutOff \/ Promise!LetGo
<1>1. UNCHANGED [o \in Changes |-> ToldOf(o)]  BY TellsNobody DEF Break, Pause
<1>2. CASE Break  BY <1>1, <1>2 DEF Break, Promise!LetGo
<1>3. CASE Pause  BY <1>1, <1>3 DEF Pause, Promise!PutOff
<1> QED  BY <1>2, <1>3

LEMMA UnansweredIsPromised ==
  ASSUME QueueInv, NEW up \in {connected, FALSE}, Unanswered(up)
  PROVE  Promise!TabQueueNext
<1>1. runner = "waiting" /\ entered' = entered  BY DEF Unanswered
<1>2. CASE Settle("undelivered", up) /\ connected' = up
  BY <1>1, <1>2, SettleIsTelling DEF Promise!TabQueueNext
<1>3. CASE Break /\ connected' = FALSE
  <2>1. ~Pause  BY <1>3 DEF Break, Pause
  <2> QED  BY <1>1, <1>3, <2>1, RetryIsWaiting DEF Promise!TabQueueNext
<1>4. CASE Pause /\ connected' = connected
  BY <1>1, <1>4, RetryIsWaiting DEF Promise!TabQueueNext
<1> QED  BY <1>2, <1>3, <1>4 DEF Unanswered

LEMMA AnswerIsPromised ==
  ASSUME QueueInv, Answer
  PROVE  Promise!TabQueueNext
<1>1. CASE AnswerTimesOut
  BY <1>1, UnansweredIsPromised DEF AnswerTimesOut
<1>2. CASE ~AnswerTimesOut
  <2>1. runner = "waiting" /\ entered' = entered /\ connected' = connected
    BY <1>2 DEF Answer, Confirmed, Refused, RateLimited, ServerError, NotJoined
  <2>2. \/ \E r \in {"saved", "refused"} : Settle(r, connected)
        \/ Break \/ Pause
    BY <1>2 DEF Answer, Confirmed, Refused, RateLimited, ServerError, NotJoined
  <2>3. CASE \E r \in {"saved", "refused"} : Settle(r, connected)
    BY <2>1, <2>3, SettleIsTelling DEF Promise!TabQueueNext
  <2>4. CASE Break \/ Pause
    BY <2>1, <2>4, RetryIsWaiting DEF Promise!TabQueueNext
  <2> QED  BY <2>2, <2>3, <2>4
<1> QED  BY <1>1, <1>2

LEMMA PromisedStep ==
  ASSUME QueueInv, [QueueNext]_queueVars
  PROVE  [Promise!TabQueueNext]_(Promise!tabQueueVars)
<1>1. CASE UNCHANGED queueVars
  BY <1>1, TellsNobody DEF queueVars, Promise!tabQueueVars
<1>2. CASE \E o \in Changes : Enqueue(o)
  BY <1>2, EnqueueIsTyping DEF Promise!TabQueueNext
<1>3. CASE Answer
  BY <1>3, AnswerIsPromised
<1>4. CASE SetConnected
  <2>1. UNCHANGED [o \in Changes |-> ToldOf(o)]  BY <1>4, TellsNobody DEF SetConnected
  <2>2. Promise!MaySendIfIdle(queue, TRUE)  BY <1>4, RunMaySend DEF SetConnected
  <2> QED  BY <1>4, <2>1, <2>2 DEF SetConnected, Promise!ComesOnline, Promise!TabQueueNext
<1>5. CASE Revoked \/ (runner # "waiting" /\ ConnectionDrops)
  <2>1. connected' = FALSE /\ UNCHANGED <<queue, runner, entered, outcome>>
    BY <1>5 DEF Revoked, ConnectionDrops, Unanswered
  <2>2. UNCHANGED [o \in Changes |-> ToldOf(o)]  BY <2>1, TellsNobody
  <2> QED  BY <2>1, <2>2 DEF Promise!GoesOffline, Promise!TabQueueNext
<1>6. CASE runner = "waiting" /\ ConnectionDrops
  BY <1>6, UnansweredIsPromised DEF ConnectionDrops
<1>7. CASE \E ok \in BOOLEAN : Rejoined(ok)
  <2>1. UNCHANGED <<queue, connected, entered, outcome>>
        /\ (UNCHANGED runner \/ Run(queue, connected))
    BY <1>7 DEF Rejoined
  <2>2. UNCHANGED [o \in Changes |-> ToldOf(o)]  BY <2>1, TellsNobody
  <2>3. CASE UNCHANGED runner  BY <2>1, <2>2, <2>3 DEF Promise!tabQueueVars
  <2>4. CASE runner = "idle" /\ Run(queue, connected)
    <3>1. Promise!MaySend(queue, connected)  BY <2>4, LoopMaySend DEF Run, Loop
    <3> QED  BY <2>1, <2>2, <2>4, <3>1 DEF Promise!Send, Promise!TabQueueNext
  <2> QED  BY <2>1, <2>3, <2>4 DEF Run
<1>8. CASE PauseEnds
  <2>1. runner = "pausing" /\ Promise!MaySend(queue, connected)
        /\ UNCHANGED <<queue, connected, entered, outcome>>
    BY <1>8, LoopMaySend DEF PauseEnds, Loop
  <2>2. UNCHANGED [o \in Changes |-> ToldOf(o)]  BY <2>1, TellsNobody
  <2> QED  BY <2>1, <2>2 DEF Promise!Resume, Promise!TabQueueNext
<1>9. CASE IdleTimer
  <2>1. UNCHANGED <<queue, connected, entered, outcome>>  BY <1>9 DEF IdleTimer
  <2>2. UNCHANGED [o \in Changes |-> ToldOf(o)]  BY <2>1, TellsNobody
  <2>3. CASE runner = "idle"
    <3>1. Promise!MaySend(queue, connected)  BY <1>9, <2>3, LoopMaySend DEF IdleTimer
    <3> QED  BY <2>1, <2>2, <2>3, <3>1 DEF Promise!Send, Promise!TabQueueNext
  <2>4. CASE runner # "idle"
    BY <1>9, <2>1, <2>2, <2>4 DEF IdleTimer, Promise!tabQueueVars
  <2> QED  BY <2>3, <2>4
<1>10. CASE WhenDrained \/ DrainTimesOut
  <2>1. UNCHANGED <<queue, connected, runner, entered, outcome>>
    BY <1>10 DEF WhenDrained, DrainTimesOut
  <2> QED  BY <2>1, TellsNobody DEF Promise!tabQueueVars
<1> QED
  BY <1>1, <1>2, <1>3, <1>4, <1>5, <1>6, <1>7, <1>8, <1>9, <1>10 DEF QueueNext

\* The save queue of smartSheetSync.js, with its counters, timers and rejoins, is a
\* TabQueue: at most one change is on its way and only the head leaves the queue,
\* while its answer is awaited; the user is told of each change once.
THEOREM QueueKeepsItsPromise == QueueSpec => KeepsItsPromise
<1>1. QueueInit => Promise!TabQueueInit
  <2> SUFFICES ASSUME QueueInit PROVE Promise!TabQueueInit  OBVIOUS
  <2>1. ToSet(entered) = {}  BY EmptySeq DEF QueueInit, ToSet
  <2>2. [o \in Changes |-> ToldOf(o)] = [o \in Changes |-> "untyped"]  BY <2>1 DEF ToldOf
  <2> QED  BY <2>2 DEF QueueInit, Promise!TabQueueInit
<1>2. QueueInv /\ [QueueNext]_queueVars
        => [Promise!TabQueueNext]_(Promise!tabQueueVars)
  BY PromisedStep
<1> QED
  BY <1>1, <1>2, QueueInvariance, PTL DEF QueueSpec, KeepsItsPromise, Promise!TabQueueSpec
=============================================================================
