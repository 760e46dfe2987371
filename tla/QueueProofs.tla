---------------------------- MODULE QueueProofs ----------------------------
(* Proofs about the three queues, for any number of workers that overlap and  *)
(* die: events are delivered at least once, a text is sent as often as a      *)
(* claim counted and no more, and no tax document is marked as filed that the *)
(* office does not have.                                                      *)
EXTENDS Outbox, SmsQueue, TaxQueue, FiniteSetTheorems, TLAPS

-----------------------------------------------------------------------------
(* The outbox: delivery at least once, for any number of overlapping batches. *)
\* A batch that is past the handler is so with an event it holds, and when the
\* handler ended well for that event it was delivered.
Handling ==
  /\ \A b \in Batches : batch[b] = {} => at[b] = "next"
  /\ \A b \in Batches, e \in Events :
       at[b] = "handled" /\ First(b, e) => e \in delivered

AtLeastOnce == TypeOK /\ Handling /\ SentWasDelivered

LEMMA AtLeastOnceInit == Init => AtLeastOnce
BY OutboxAssumption
DEF Init, AtLeastOnce, TypeOK, Handling, First, SentWasDelivered

LEMMA FirstIsUnique ==
  ASSUME TypeOK, NEW b \in Batches, NEW e, NEW f, First(b, e), First(b, f)
  PROVE  e = f
<1>1. e \in Int /\ f \in Int /\ e <= f /\ f <= e
  BY OutboxAssumption DEF TypeOK, First
<1> QED
  BY <1>1

LEMMA CountedType ==
  ASSUME NEW n \in 0 .. AttemptsCap
  PROVE  Counted(n) \in 0 .. AttemptsCap
BY OutboxAssumption DEF Counted

LEMMA ZeroIsACount == 0 \in 0 .. AttemptsCap
BY OutboxAssumption

LEMMA GoesOnType ==
  ASSUME TypeOK, NEW b \in Batches, NEW e \in Events, GoesOn(b, e)
  PROVE  /\ batch' \in [Batches -> SUBSET stored]
         /\ seen' \in [Batches -> [Events -> 0 .. AttemptsCap]]
         /\ at' \in [Batches -> {"next", "handled", "failed", "burying"}]
<1>1. [seen[b] EXCEPT ![e] = 0] \in [Events -> 0 .. AttemptsCap]
  BY ZeroIsACount DEF TypeOK
<1>2. seen' = [seen EXCEPT ![b] = [seen[b] EXCEPT ![e] = 0]]
  BY DEF GoesOn
<1>3. seen' \in [Batches -> [Events -> 0 .. AttemptsCap]]
  BY <1>1, <1>2 DEF TypeOK
<1> QED
  BY <1>3 DEF GoesOn, TypeOK

LEMMA TypeStep == TypeOK /\ [Next]_vars => TypeOK'
<1> SUFFICES ASSUME TypeOK, [Next]_vars PROVE TypeOK'
  OBVIOUS
<1> USE DEF TypeOK
<1>1. ASSUME NEW e \in Events, PublishEvent(e) \/ BackoffEnds(e)
      PROVE  TypeOK'
  BY <1>1 DEF PublishEvent, BackoffEnds, runVars
<1>2. ASSUME NEW b \in Batches, NEW skipped, Selects(b, skipped)
      PROVE  TypeOK'
  <2> DEFINE copy == [e \in Events |-> IF e \in batch'[b] THEN attempts[e] ELSE 0]
  <2>1. copy \in [Events -> 0 .. AttemptsCap]
    BY ZeroIsACount
  <2>2. seen' = [seen EXCEPT ![b] = copy]
    BY <1>2 DEF Selects
  <2> HIDE DEF copy
  <2>3. seen' \in [Batches -> [Events -> 0 .. AttemptsCap]]
    BY <2>1, <2>2
  <2>4. Oldest(Waiting \ skipped) \subseteq stored
    BY DEF Oldest, Waiting
  <2>5. batch' \in [Batches -> SUBSET stored]
    BY <1>2, <2>4 DEF Selects
  <2> QED
    BY <1>2, <2>3, <2>5 DEF Selects, rowVars
<1>3. ASSUME NEW b \in Batches, NEW e \in Events,
             HandlerSucceeds(b, e) \/ HandlerFails(b, e)
      PROVE  TypeOK'
  BY <1>3 DEF HandlerSucceeds, HandlerFails, First, rowVars
<1>4. ASSUME NEW b \in Batches, NEW e \in Events, MarksSent(b, e)
      PROVE  TypeOK'
  BY <1>4, GoesOnType, CountedType DEF MarksSent, First
<1>5. ASSUME NEW b \in Batches, NEW e \in Events, RecordsFailure(b, e)
      PROVE  TypeOK'
  <2>1. Counted(seen[b][e]) \in 0 .. AttemptsCap
    BY CountedType
  <2>2. attempts' \in [Events -> 0 .. AttemptsCap] /\ due' \subseteq stored
    BY <1>5, <2>1 DEF RecordsFailure
  <2>3. CASE Counted(seen[b][e]) >= MaxAttempts
    BY <1>5, <2>2, <2>3 DEF RecordsFailure
  <2>4. CASE ~ (Counted(seen[b][e]) >= MaxAttempts)
    <3>1. GoesOn(b, e)
      BY <1>5, <2>4 DEF RecordsFailure
    <3> QED
      BY <1>5, <2>2, <3>1, GoesOnType DEF RecordsFailure
  <2> QED
    BY <2>3, <2>4
<1>6. ASSUME NEW b \in Batches, NEW e \in Events, Buries(b, e)
      PROVE  TypeOK'
  BY <1>6, GoesOnType DEF Buries, First
<1>7. ASSUME NEW b \in Batches, MarkingFails(b)
      PROVE  TypeOK'
  BY <1>7 DEF MarkingFails, rowVars
<1>8. ASSUME NEW b \in Batches, BatchDies(b)
      PROVE  TypeOK'
  <2>1. [e \in Events |-> 0] \in [Events -> 0 .. AttemptsCap]
    BY ZeroIsACount
  <2>2. seen' \in [Batches -> [Events -> 0 .. AttemptsCap]]
    BY <1>8, <2>1 DEF BatchDies
  <2> QED
    BY <1>8, <2>2 DEF BatchDies, rowVars
<1>9. CASE UNCHANGED vars
  BY <1>9 DEF vars, rowVars, runVars
<1> QED
  BY <1>1, <1>2, <1>3, <1>4, <1>5, <1>6, <1>7, <1>8, <1>9 DEF Next

LEMMA HandlingStep ==
  ASSUME AtLeastOnce, [Next]_vars
  PROVE  Handling' /\ SentWasDelivered'
<1> USE DEF AtLeastOnce, TypeOK, Handling, SentWasDelivered, First
<1>1. ASSUME NEW e \in Events, PublishEvent(e) \/ BackoffEnds(e)
      PROVE  Handling' /\ SentWasDelivered'
  BY <1>1 DEF PublishEvent, BackoffEnds, runVars
<1>2. ASSUME NEW b \in Batches, NEW skipped, Selects(b, skipped)
      PROVE  Handling' /\ SentWasDelivered'
  BY <1>2 DEF Selects, rowVars
<1>3. ASSUME NEW b \in Batches, NEW e \in Events,
             HandlerSucceeds(b, e) \/ HandlerFails(b, e)
      PROVE  Handling' /\ SentWasDelivered'
  BY <1>3, FirstIsUnique DEF HandlerSucceeds, HandlerFails, rowVars
<1>4. ASSUME NEW b \in Batches, NEW e \in Events, MarksSent(b, e)
      PROVE  Handling' /\ SentWasDelivered'
  BY <1>4 DEF MarksSent, GoesOn
<1>5. ASSUME NEW b \in Batches, NEW e \in Events, RecordsFailure(b, e)
      PROVE  Handling' /\ SentWasDelivered'
  BY <1>5 DEF RecordsFailure, GoesOn
<1>6. ASSUME NEW b \in Batches, NEW e \in Events, Buries(b, e)
      PROVE  Handling' /\ SentWasDelivered'
  BY <1>6 DEF Buries, GoesOn
<1>7. ASSUME NEW b \in Batches, MarkingFails(b) \/ BatchDies(b)
      PROVE  Handling' /\ SentWasDelivered'
  BY <1>7 DEF MarkingFails, BatchDies, rowVars
<1>8. CASE UNCHANGED vars
  BY <1>8 DEF vars, rowVars, runVars
<1> QED
  BY <1>1, <1>2, <1>3, <1>4, <1>5, <1>6, <1>7, <1>8 DEF Next

\* An event is marked as sent only after a handler has ended well for it: with
\* any number of overlapping batches, failing statements and crashes.
THEOREM SentMeansDelivered == Spec => []SentWasDelivered
<1>1. AtLeastOnce /\ [Next]_vars => AtLeastOnce'
  BY TypeStep, HandlingStep DEF AtLeastOnce
<1>2. AtLeastOnce => SentWasDelivered
  BY DEF AtLeastOnce
<1> QED
  BY <1>1, <1>2, AtLeastOnceInit, PTL DEF Spec

-----------------------------------------------------------------------------
(* The texts: a lease keeps rounds apart, and every call was counted.        *)

\* A row that a round holds is marked and leased, as long as the lease has not run out.
LeasesHold ==
  \A r \in Rounds : \A m \in Texts :
    Holds(r, m) /\ m \notin overrun => sms[m] = "sending" /\ m \notin ripe

\* A call is about a row in the hand of its round, and tells the truth.
CallsAreTrue ==
  /\ call = [r \in Rounds |-> call[r]]
  /\ \A r \in Rounds : stage[r] # "sending" => call[r] = NoCall
  /\ \A r \in Rounds : \A m \in Texts : \A o \in Outcomes :
       call[r] = <<m, o>> => Holds(r, m) /\ (o = "taken" => taken[m] > 0)

\* Rounds that hold a row and have not called the provider for it yet.
Uncalled(m) == {r \in Rounds : Holds(r, m) /\ (call[r] = NoCall \/ call[r][1] # m)}

\* Every call was counted by a claim: those that were made and those still to come are
\* no more than the attempts in the row and those that requeues have forgotten.
Accounted(m) ==
  /\ IsFiniteSet(Uncalled(m))
  /\ tries[m] + Cardinality(Uncalled(m)) <= smsAttempts[m] + SmsMaxAttempts * requeued[m]

AttemptsAreCounted == \A m \in Texts : Accounted(m)

Sending ==
  /\ SmsTypeOK /\ LeasesHold /\ OneHolder /\ CallsAreTrue /\ SentWasTaken
  /\ AttemptsAreCounted

LEMMA SmallerCount ==
  ASSUME NEW S, NEW T, IsFiniteSet(S), T \subseteq S
  PROVE  /\ IsFiniteSet(T) /\ Cardinality(T) \in Nat /\ Cardinality(S) \in Nat
         /\ Cardinality(T) <= Cardinality(S)
BY FS_Subset, FS_CardinalityType

LEMMA OneMore ==
  ASSUME NEW S, NEW T, NEW x, IsFiniteSet(S), T \subseteq S \cup {x}
  PROVE  /\ IsFiniteSet(T) /\ Cardinality(T) \in Nat /\ Cardinality(S) \in Nat
         /\ Cardinality(T) <= Cardinality(S) + 1
<1>1. /\ IsFiniteSet(S \cup {x})
      /\ Cardinality(S \cup {x}) \in {Cardinality(S), Cardinality(S) + 1}
  BY FS_AddElement
<1>2. Cardinality(S \cup {x}) \in Nat /\ Cardinality(S) \in Nat
  BY <1>1, FS_CardinalityType
<1> QED
  BY <1>1, <1>2, SmallerCount

LEMMA AllowanceType ==
  ASSUME SmsTypeOK, NEW m \in Texts
  PROVE  /\ tries[m] \in Nat /\ smsAttempts[m] \in Nat /\ requeued[m] \in Nat
         /\ SmsMaxAttempts * requeued[m] \in Nat /\ smsAttempts[m] <= SmsMaxAttempts
BY SmsAssumption DEF SmsTypeOK

\* A step that calls for no row and claims none keeps the account.
LEMMA AccountKept ==
  ASSUME Sending, NEW m \in Texts, Uncalled(m)' \subseteq Uncalled(m),
         tries'[m] = tries[m], smsAttempts'[m] = smsAttempts[m],
           requeued'[m] = requeued[m]
  PROVE  Accounted(m)'
<1>1. /\ IsFiniteSet(Uncalled(m)')
      /\ Cardinality(Uncalled(m)') \in Nat /\ Cardinality(Uncalled(m)) \in Nat
      /\ Cardinality(Uncalled(m)') <= Cardinality(Uncalled(m))
  BY SmallerCount DEF Sending, AttemptsAreCounted, Accounted
<1>2. tries[m] + Cardinality(Uncalled(m)) <= smsAttempts[m] + SmsMaxAttempts * requeued[m]
  BY DEF Sending, AttemptsAreCounted, Accounted
<1> QED
  BY <1>1, <1>2, AllowanceType DEF Sending, Accounted

LEMMA SwitchSmsStep ==
  ASSUME Sending, SwitchSms
  PROVE  Sending'
<1>1. SmsTypeOK'
  BY DEF Sending, SwitchSms, SmsTypeOK, textVars, roundVars, countVars, SmsStatus,
    NoCall, Outcomes
<1>2. LeasesHold'
  BY DEF Sending, SwitchSms, LeasesHold, textVars, roundVars, countVars, Holds, NotHeld
<1>3. OneHolder'
  BY DEF Sending, SwitchSms, OneHolder, textVars, roundVars, countVars, Holds, NotHeld
<1>4. CallsAreTrue'
  BY DEF Sending, SwitchSms, CallsAreTrue, textVars, roundVars, countVars, NoCall,
    Outcomes, Holds, NotHeld
<1>5. SentWasTaken'
  BY DEF Sending, SwitchSms, SentWasTaken, textVars, roundVars, countVars
<1>6. AttemptsAreCounted'
  BY DEF Sending, SwitchSms, AttemptsAreCounted, textVars, roundVars, countVars,
    Accounted, Uncalled, Holds, NoCall, NotHeld
<1> QED
  BY <1>1, <1>2, <1>3, <1>4, <1>5, <1>6 DEF Sending

LEMMA EnqueueSmsStep ==
  ASSUME Sending, NEW m \in Texts, EnqueueSms(m)
  PROVE  Sending'
<1>1. SmsTypeOK'
  BY DEF Sending, EnqueueSms, SmsTypeOK, roundVars, countVars, SmsStatus, NoCall,
    Outcomes
<1>2. LeasesHold'
  BY DEF Sending, EnqueueSms, LeasesHold, roundVars, countVars, Holds, NotHeld
<1>3. OneHolder'
  BY DEF Sending, EnqueueSms, OneHolder, roundVars, countVars, Holds, NotHeld
<1>4. CallsAreTrue'
  BY DEF Sending, EnqueueSms, CallsAreTrue, roundVars, countVars, NoCall, Outcomes,
    Holds, NotHeld
<1>5. SentWasTaken'
  BY DEF Sending, EnqueueSms, SentWasTaken, roundVars, countVars
<1>6. AttemptsAreCounted'
  BY DEF Sending, EnqueueSms, AttemptsAreCounted, roundVars, countVars, Accounted,
    Uncalled, Holds, NoCall, NotHeld
<1> QED
  BY <1>1, <1>2, <1>3, <1>4, <1>5, <1>6 DEF Sending

LEMMA RipensStep ==
  ASSUME Sending, NEW m \in Texts, Ripens(m)
  PROVE  Sending'
<1>1. SmsTypeOK'
  BY DEF Sending, Ripens, SmsTypeOK, Holds, roundVars, SmsStatus, NoCall, Outcomes,
    NotHeld
<1>2. LeasesHold'
  BY DEF Sending, Ripens, LeasesHold, Holds, roundVars, NotHeld
<1>3. OneHolder'
  BY DEF Sending, Ripens, OneHolder, Holds, roundVars, NotHeld
<1>4. CallsAreTrue'
  BY DEF Sending, Ripens, CallsAreTrue, Holds, roundVars, NoCall, Outcomes, NotHeld
<1>5. SentWasTaken'
  BY DEF Sending, Ripens, SentWasTaken, Holds, roundVars, NotHeld
<1>6. AttemptsAreCounted'
  BY DEF Sending, Ripens, AttemptsAreCounted, Holds, roundVars, Accounted, NotHeld,
    Uncalled, NoCall
<1> QED
  BY <1>1, <1>2, <1>3, <1>4, <1>5, <1>6 DEF Sending

LEMMA RequeueSmsStep ==
  ASSUME Sending, NEW m \in Texts, RequeueSms(m)
  PROVE  Sending'
<1>1. SmsTypeOK'
  BY SmsAssumption DEF Sending, RequeueSms, SmsTypeOK, LeasesHold, roundVars, SmsStatus,
    NoCall, Outcomes, Holds, NotHeld
<1>2. LeasesHold'
  BY DEF Sending, RequeueSms, LeasesHold, roundVars, Holds, NotHeld
<1>3. OneHolder'
  BY DEF Sending, RequeueSms, OneHolder, roundVars, Holds, NotHeld
<1>4. CallsAreTrue'
  BY DEF Sending, RequeueSms, CallsAreTrue, roundVars, NoCall, Outcomes, Holds, NotHeld
<1>5. SentWasTaken'
  BY DEF Sending, RequeueSms, SentWasTaken, roundVars
<1>6. AttemptsAreCounted'
  <2>1. ASSUME NEW n \in Texts, n # m
        PROVE  /\ Uncalled(n)' \subseteq Uncalled(n)
               /\ tries'[n] = tries[n] /\ smsAttempts'[n] = smsAttempts[n]
               /\ requeued'[n] = requeued[n]
    BY <2>1 DEF Sending, SmsTypeOK, RequeueSms, Uncalled, Holds, roundVars
  <2>2. /\ Uncalled(m)' = Uncalled(m) /\ tries'[m] = tries[m] /\ smsAttempts'[m] = 0
        /\ requeued'[m] = requeued[m] + 1
    BY DEF Sending, SmsTypeOK, RequeueSms, Uncalled, Holds, roundVars
  <2>3. /\ IsFiniteSet(Uncalled(m)) /\ Cardinality(Uncalled(m)) \in Nat
        /\ tries[m] + Cardinality(Uncalled(m)) <=
             smsAttempts[m] + SmsMaxAttempts * requeued[m]
    BY FS_CardinalityType DEF Sending, AttemptsAreCounted, Accounted
  <2>4. \A a, b \in Nat : a * (b + 1) = a * b + a
    OBVIOUS
  <2>5. SmsMaxAttempts * requeued'[m] = SmsMaxAttempts * requeued[m] + SmsMaxAttempts
    BY <2>2, <2>4, AllowanceType, SmsAssumption DEF Sending
  <2>6. Accounted(m)'
    BY <2>2, <2>3, <2>5, AllowanceType, SmsAssumption DEF Sending, Accounted
  <2> QED
    BY <2>1, <2>6, AccountKept DEF AttemptsAreCounted
<1> QED
  BY <1>1, <1>2, <1>3, <1>4, <1>5, <1>6 DEF Sending

LEMMA PurgeSmsStep ==
  ASSUME Sending, NEW m \in Texts, PurgeSms(m)
  PROVE  Sending'
<1>1. SmsTypeOK'
  BY DEF Sending, PurgeSms, SmsTypeOK, roundVars, countVars, SmsStatus, NoCall, Outcomes
<1>2. LeasesHold'
  BY DEF Sending, PurgeSms, LeasesHold, roundVars, countVars, Holds, NotHeld
<1>3. OneHolder'
  BY DEF Sending, PurgeSms, OneHolder, roundVars, countVars, Holds, NotHeld
<1>4. CallsAreTrue'
  BY DEF Sending, PurgeSms, CallsAreTrue, roundVars, countVars, NoCall, Outcomes, Holds,
    NotHeld
<1>5. SentWasTaken'
  BY DEF Sending, PurgeSms, SentWasTaken, roundVars, countVars
<1>6. AttemptsAreCounted'
  BY DEF Sending, PurgeSms, AttemptsAreCounted, roundVars, countVars, Accounted,
    Uncalled, Holds, NoCall, NotHeld
<1> QED
  BY <1>1, <1>2, <1>3, <1>4, <1>5, <1>6 DEF Sending

LEMMA ReleaseStaleSendingStep ==
  ASSUME Sending, NEW r \in Rounds, NEW button \in BOOLEAN, ReleaseStaleSending(r,
         button)
  PROVE  Sending'
<1>1. SmsTypeOK'
  BY DEF Sending, ReleaseStaleSending, SmsTypeOK, countVars, SmsStatus, NoCall, Outcomes
<1>2. LeasesHold'
  BY DEF Sending, ReleaseStaleSending, LeasesHold, countVars, Holds, NotHeld
<1>3. OneHolder'
  BY DEF Sending, ReleaseStaleSending, OneHolder, countVars, Holds, NotHeld
<1>4. CallsAreTrue'
  BY DEF Sending, ReleaseStaleSending, CallsAreTrue, countVars, NoCall, Outcomes, Holds,
    NotHeld
<1>5. SentWasTaken'
  BY DEF Sending, ReleaseStaleSending, SentWasTaken, countVars
<1>6. AttemptsAreCounted'
  BY DEF Sending, ReleaseStaleSending, AttemptsAreCounted, countVars, Accounted,
    Uncalled, Holds, NoCall, NotHeld
<1> QED
  BY <1>1, <1>2, <1>3, <1>4, <1>5, <1>6 DEF Sending

LEMMA ClaimDueMessagesStep ==
  ASSUME Sending, NEW r \in Rounds, NEW B \in SUBSET Texts, ClaimDueMessages(r, B)
  PROVE  Sending'
<1>1. SmsTypeOK'
  <2>1. \A m \in B : m \in Texts /\ smsAttempts[m] + 1 \in 0 .. SmsMaxAttempts
    BY SmsAssumption DEF Sending, SmsTypeOK, ClaimDueMessages, Due
  <2>2. /\ sms' \in [Texts -> SmsStatus] /\
             smsAttempts' \in [Texts -> 0 .. SmsMaxAttempts]
        /\ ripe' \subseteq Texts
        /\ [m \in Texts |-> IF m \in B THEN smsAttempts[m] + 1 ELSE NotHeld]
              \in [Texts -> 0 .. SmsMaxAttempts]
    BY <2>1, SmsAssumption DEF Sending, SmsTypeOK, SmsStatus, ClaimDueMessages, NotHeld
  <2>3. hand' \in [Rounds -> [Texts -> 0 .. SmsMaxAttempts]]
    BY <2>2 DEF Sending, SmsTypeOK, ClaimDueMessages
  <2> QED
    BY <2>2, <2>3 DEF Sending, SmsTypeOK, ClaimDueMessages, countVars
<1>2. LeasesHold'
  BY DEF Sending, ClaimDueMessages, LeasesHold, Due, NotHeld, countVars, Holds
<1>3. OneHolder'
  BY SmsAssumption DEF Sending, ClaimDueMessages, OneHolder, SmsTypeOK, LeasesHold, Due,
    NotHeld, countVars, Holds, SmsStatus, NoCall, Outcomes
<1>4. CallsAreTrue'
  <2>1. /\ call' = call /\ taken' = taken /\ call[r] = NoCall
        /\ \A q \in Rounds \ {r} : hand'[q] = hand[q] /\ stage'[q] = stage[q]
    BY DEF Sending, SmsTypeOK, CallsAreTrue, ClaimDueMessages, countVars
  <2>2. \A n, o : <<n, o>> # NoCall
    BY DEF NoCall
  <2> QED
    BY <2>1, <2>2 DEF Sending, CallsAreTrue, Holds
<1>5. SentWasTaken'
  BY DEF Sending, ClaimDueMessages, SentWasTaken, Due, NotHeld, countVars
<1>6. AttemptsAreCounted'
  <2>1. ASSUME NEW n \in Texts \ B
        PROVE  /\ Uncalled(n)' \subseteq Uncalled(n)
               /\ tries'[n] = tries[n] /\ smsAttempts'[n] = smsAttempts[n]
               /\ requeued'[n] = requeued[n]
    BY <2>1 DEF Sending, SmsTypeOK, ClaimDueMessages, Uncalled, Holds, NotHeld, countVars
  <2>2. ASSUME NEW n \in B
        PROVE  Accounted(n)'
    <3>1. /\ Uncalled(n)' \subseteq Uncalled(n) \cup {r} /\ tries'[n] = tries[n]
          /\ smsAttempts'[n] = smsAttempts[n] + 1 /\ requeued'[n] = requeued[n]
          /\ n \in Texts
      BY DEF Sending, SmsTypeOK, ClaimDueMessages, Uncalled, Holds, countVars
    <3>2. /\ IsFiniteSet(Uncalled(n))
          /\ tries[n] + Cardinality(Uncalled(n))
               <= smsAttempts[n] + SmsMaxAttempts * requeued[n]
      BY <3>1 DEF Sending, AttemptsAreCounted, Accounted
    <3>3. /\ IsFiniteSet(Uncalled(n)') /\ Cardinality(Uncalled(n)') \in Nat
          /\ Cardinality(Uncalled(n)) \in Nat
          /\ Cardinality(Uncalled(n)') <= Cardinality(Uncalled(n)) + 1
      BY <3>1, <3>2, OneMore
    <3> QED
      BY <3>1, <3>2, <3>3, AllowanceType DEF Sending, Accounted
  <2> QED
    BY <2>1, <2>2, AccountKept DEF AttemptsAreCounted
<1> QED
  BY <1>1, <1>2, <1>3, <1>4, <1>5, <1>6 DEF Sending

LEMMA DispatchStep ==
  ASSUME Sending, NEW r \in Rounds, NEW m \in Texts, NEW outcome \in Outcomes,
         Dispatch(r, m, outcome)
  PROVE  Sending'
<1>1. SmsTypeOK'
  <2>1. UNCHANGED <<sms, smsAttempts, ripe, smsOn, stage, hand, requeued,
                   overrun, smsDeaths>>
    BY DEF Dispatch, textVars
  <2>2. call'[r] = <<m, outcome>> /\ \A q \in Rounds \ {r} : call'[q] = call[q]
    BY DEF Sending, CallsAreTrue, Dispatch
  <2>3. SmsTypeOK
    BY DEF Sending
  <2>4. tries' \in [Texts -> Nat] /\ taken' \in [Texts -> Nat]
    <3>1. tries \in [Texts -> Nat] /\ taken \in [Texts -> Nat]
      BY <2>3 DEF SmsTypeOK
    <3> QED
      BY <3>1 DEF Dispatch
  <2>5. \A q \in Rounds : call'[q] = NoCall \/ call'[q] \in Texts \X Outcomes
    <3>1. \A q \in Rounds : call[q] = NoCall \/ call[q] \in Texts \X Outcomes
      BY <2>3 DEF SmsTypeOK
    <3>2. <<m, outcome>> \in Texts \X Outcomes
      OBVIOUS
    <3> QED
      BY <2>2, <3>1, <3>2
  <2> QED
    BY <2>1, <2>3, <2>4, <2>5 DEF SmsTypeOK
<1>2. LeasesHold'
  BY DEF Sending, Dispatch, LeasesHold, NoCall, Holds, textVars, NotHeld
<1>3. OneHolder'
  BY DEF Sending, Dispatch, OneHolder, NoCall, Holds, textVars, NotHeld
<1>4. CallsAreTrue'
  <2>1. call' = [q \in Rounds |-> IF q = r THEN <<m, outcome>> ELSE call[q]]
    BY DEF Sending, CallsAreTrue, Dispatch
  <2>2. <<m, outcome>> # NoCall
    BY DEF NoCall
  <2>3. /\ hand' = hand /\ stage' = stage /\ stage[r] = "sending" /\ Holds(r, m)
        /\ \A n \in Texts : taken'[n] \in Nat /\ taken'[n] >= taken[n] /\ taken[n] \in Nat
        /\ outcome = "taken" => taken'[m] > 0
    BY DEF Sending, SmsTypeOK, Dispatch
  <2>4. ASSUME NEW q \in Rounds, NEW n \in Texts, NEW o \in Outcomes, call'[q] = <<n, o>>
        PROVE  Holds(q, n)' /\ (o = "taken" => taken'[n] > 0)
    <3>1. CASE q = r
      BY <2>1, <2>3, <2>4, <3>1 DEF Holds
    <3>2. CASE q # r
      BY <2>1, <2>3, <2>4, <3>2 DEF Sending, CallsAreTrue, Holds
    <3> QED
      BY <3>1, <3>2
  <2>5. \A q \in Rounds : stage'[q] # "sending" => call'[q] = NoCall
    BY <2>1, <2>3 DEF Sending, CallsAreTrue
  <2> QED
    BY <2>1, <2>4, <2>5 DEF CallsAreTrue
<1>5. SentWasTaken'
  BY SmsAssumption DEF Sending, Dispatch, SentWasTaken, SmsTypeOK, NoCall, Holds,
    textVars, SmsStatus, Outcomes, NotHeld
<1>6. AttemptsAreCounted'
  <2>1. ASSUME NEW n \in Texts, n # m
        PROVE  /\ Uncalled(n)' \subseteq Uncalled(n)
               /\ tries'[n] = tries[n] /\ smsAttempts'[n] = smsAttempts[n]
               /\ requeued'[n] = requeued[n]
    BY <2>1 DEF Sending, SmsTypeOK, Dispatch, Uncalled, Holds, NoCall, textVars
  <2>2. /\ call' = [call EXCEPT ![r] = <<m, outcome>>] /\ hand' = hand
        /\ call[r] = NoCall /\ Holds(r, m)
    BY DEF Dispatch
  <2>3. \A q \in Rounds : call'[q] = IF q = r THEN <<m, outcome>> ELSE call[q]
    BY <2>2 DEF Sending, CallsAreTrue
  <2>4. <<m, outcome>> # NoCall /\ <<m, outcome>>[1] = m
    BY DEF NoCall
  <2>5. r \in Uncalled(m) /\ Uncalled(m)' = Uncalled(m) \ {r}
    BY <2>2, <2>3, <2>4 DEF Uncalled, Holds
  <2>6. /\ tries'[m] \in {tries[m], tries[m] + 1} /\ smsAttempts'[m] = smsAttempts[m]
        /\ requeued'[m] = requeued[m]
    BY DEF Sending, SmsTypeOK, Dispatch, textVars
  <2>7. /\ IsFiniteSet(Uncalled(m)) /\ Cardinality(Uncalled(m)) \in Nat
        /\ tries[m] + Cardinality(Uncalled(m)) <=
             smsAttempts[m] + SmsMaxAttempts * requeued[m]
    BY FS_CardinalityType DEF Sending, AttemptsAreCounted, Accounted
  <2>8. IsFiniteSet(Uncalled(m)') /\
          Cardinality(Uncalled(m)') = Cardinality(Uncalled(m)) - 1
    BY <2>5, <2>7, FS_RemoveElement
  <2>9. Accounted(m)'
    BY <2>6, <2>7, <2>8, AllowanceType DEF Sending, Accounted
  <2> QED
    BY <2>1, <2>9, AccountKept DEF AttemptsAreCounted
<1> QED
  BY <1>1, <1>2, <1>3, <1>4, <1>5, <1>6 DEF Sending

LEMMA RecordSentStep ==
  ASSUME Sending, NEW r \in Rounds, NEW m \in Texts, RecordSent(r, m)
  PROVE  Sending'
<1>1. SmsTypeOK'
  BY SmsAssumption DEF Sending, RecordSent, SmsTypeOK, LeasesHold, Row, RowDone,
    countVars, SmsStatus, NoCall, Outcomes, Holds, NotHeld
<1>2. LeasesHold'
  BY SmsAssumption DEF Sending, RecordSent, LeasesHold, SmsTypeOK, OneHolder,
    CallsAreTrue, SentWasTaken, AttemptsAreCounted, Row, RowDone, countVars, Holds,
    SmsStatus, NoCall, Outcomes, Accounted, NotHeld, Uncalled
<1>3. OneHolder'
  BY DEF Sending, RecordSent, OneHolder, Row, RowDone, countVars, Holds, NotHeld, NoCall
<1>4. CallsAreTrue'
  BY DEF Sending, RecordSent, CallsAreTrue, Row, RowDone, countVars, NoCall, Outcomes,
    Holds, NotHeld
<1>5. SentWasTaken'
  BY SmsAssumption DEF Sending, RecordSent, SentWasTaken, SmsTypeOK, CallsAreTrue, Row,
    RowDone, countVars, SmsStatus, NoCall, Outcomes, Holds, NotHeld
<1>6. AttemptsAreCounted'
  <2>1. ASSUME NEW n \in Texts
        PROVE  /\ Uncalled(n)' \subseteq Uncalled(n)
               /\ tries'[n] = tries[n] /\ smsAttempts'[n] = smsAttempts[n]
               /\ requeued'[n] = requeued[n]
    BY DEF Sending, SmsTypeOK, RecordSent, RowDone, Uncalled, Holds, NotHeld, NoCall,
           textVars, countVars, Outcomes
  <2> QED
    BY <2>1, AccountKept DEF AttemptsAreCounted
<1> QED
  BY <1>1, <1>2, <1>3, <1>4, <1>5, <1>6 DEF Sending

LEMMA MarkFailedSmsStep ==
  ASSUME Sending, NEW r \in Rounds, NEW m \in Texts, MarkFailed(r, m)
  PROVE  Sending'
<1>1. SmsTypeOK'
  BY SmsAssumption DEF Sending, MarkFailed, SmsTypeOK, LeasesHold, Outcomes, Row,
    RowDone, countVars, SmsStatus, NoCall, Holds, NotHeld
<1>2. LeasesHold'
  BY SmsAssumption DEF Sending, MarkFailed, LeasesHold, SmsTypeOK, OneHolder,
    CallsAreTrue, SentWasTaken, AttemptsAreCounted, Outcomes, Row, RowDone, countVars,
    Holds, SmsStatus, NoCall, Accounted, NotHeld, Uncalled
<1>3. OneHolder'
  BY DEF Sending, MarkFailed, OneHolder, Outcomes, Row, RowDone, countVars, Holds,
    NotHeld, NoCall
<1>4. CallsAreTrue'
  BY DEF Sending, MarkFailed, CallsAreTrue, Outcomes, Row, RowDone, countVars, NoCall,
    Holds, NotHeld
<1>5. SentWasTaken'
  BY DEF Sending, MarkFailed, SentWasTaken, Outcomes, Row, RowDone, countVars, NotHeld,
    NoCall, Holds
<1>6. AttemptsAreCounted'
  <2>1. ASSUME NEW n \in Texts
        PROVE  /\ Uncalled(n)' \subseteq Uncalled(n)
               /\ tries'[n] = tries[n] /\ smsAttempts'[n] = smsAttempts[n]
               /\ requeued'[n] = requeued[n]
    BY DEF Sending, SmsTypeOK, MarkFailed, RowDone, Uncalled, Holds, NotHeld, NoCall,
           textVars, countVars, Outcomes
  <2> QED
    BY <2>1, AccountKept DEF AttemptsAreCounted
<1> QED
  BY <1>1, <1>2, <1>3, <1>4, <1>5, <1>6 DEF Sending

LEMMA RoundDiesStep ==
  ASSUME Sending, NEW r \in Rounds, RoundDies(r)
  PROVE  Sending'
<1>1. SmsTypeOK'
  BY SmsAssumption DEF Sending, RoundDies, SmsTypeOK, LeasesHold, NoCall, Empty,
    textVars, SmsStatus, Outcomes, Holds, NotHeld
<1>2. LeasesHold'
  BY DEF Sending, RoundDies, LeasesHold, NoCall, Empty, textVars, Holds, NotHeld
<1>3. OneHolder'
  BY DEF Sending, RoundDies, OneHolder, NoCall, Empty, textVars, Holds, NotHeld
<1>4. CallsAreTrue'
  <2>1. call' = [q \in Rounds |-> IF q = r THEN NoCall ELSE call[q]]
    BY DEF Sending, CallsAreTrue, RoundDies
  <2>2. \A n, o : <<n, o>> # NoCall
    BY DEF NoCall
  <2>3. /\ taken' = taken
        /\ \A q \in Rounds \ {r} : hand'[q] = hand[q] /\ stage'[q] = stage[q]
    BY DEF Sending, SmsTypeOK, RoundDies
  <2> QED
    BY <2>1, <2>2, <2>3 DEF Sending, CallsAreTrue, Holds
<1>5. SentWasTaken'
  BY DEF Sending, RoundDies, SentWasTaken, NoCall, Empty, textVars, NotHeld
<1>6. AttemptsAreCounted'
  <2>1. ASSUME NEW n \in Texts
        PROVE  /\ Uncalled(n)' \subseteq Uncalled(n)
               /\ tries'[n] = tries[n] /\ smsAttempts'[n] = smsAttempts[n]
               /\ requeued'[n] = requeued[n]
    BY DEF Sending, SmsTypeOK, RoundDies, Empty, Uncalled, Holds, NotHeld, NoCall,
           textVars, countVars, Outcomes
  <2> QED
    BY <2>1, AccountKept DEF AttemptsAreCounted
<1> QED
  BY <1>1, <1>2, <1>3, <1>4, <1>5, <1>6 DEF Sending

LEMMA SendingInit == SmsInit => Sending
<1> SUFFICES ASSUME SmsInit PROVE Sending
  OBVIOUS
<1>1. SmsTypeOK /\ LeasesHold /\ OneHolder /\ CallsAreTrue /\ SentWasTaken
  BY SmsAssumption
  DEF SmsInit, SmsTypeOK, SmsStatus, LeasesHold, OneHolder, Holds, Empty, NotHeld,
      CallsAreTrue, NoCall, SentWasTaken
<1>2. ASSUME NEW m \in Texts PROVE Accounted(m)
  <2>1. Uncalled(m) = {} /\ tries[m] = 0 /\ smsAttempts[m] = 0 /\ requeued[m] = 0
    BY DEF SmsInit, Uncalled, Holds, Empty
  <2>2. IsFiniteSet(Uncalled(m)) /\ Cardinality(Uncalled(m)) = 0
    BY <2>1, FS_EmptySet
  <2> QED
    BY <2>1, <2>2, SmsAssumption DEF Accounted
<1> QED
  BY <1>1, <1>2 DEF Sending, AttemptsAreCounted

LEMMA SendingStep == Sending /\ [SmsNext]_smsVars => Sending'
<1> SUFFICES ASSUME Sending, [SmsNext]_smsVars PROVE Sending'
  OBVIOUS
<1>1. CASE UNCHANGED smsVars
  BY <1>1 DEF Sending, SmsTypeOK, LeasesHold, OneHolder, Holds, CallsAreTrue,
     SentWasTaken,
              AttemptsAreCounted, Accounted, Uncalled, smsVars, textVars, roundVars,
              countVars
<1>2. CASE SwitchSms
  BY <1>2, SwitchSmsStep
<1>3. ASSUME NEW m \in Texts, EnqueueSms(m) \/ Ripens(m) \/ RequeueSms(m) \/ PurgeSms(m)
      PROVE  Sending'
  BY <1>3, EnqueueSmsStep, RipensStep, RequeueSmsStep, PurgeSmsStep
<1>4. ASSUME NEW r \in Rounds, RoundStep(r) \/ RoundDies(r) PROVE Sending'
  BY <1>4, ReleaseStaleSendingStep, ClaimDueMessagesStep, DispatchStep, RecordSentStep,
     MarkFailedSmsStep, RoundDiesStep
  DEF RoundStep
<1> QED
  BY <1>1, <1>2, <1>3, <1>4 DEF SmsNext

\* Sending is an invariant of every behaviour of rounds that overlap and die.
THEOREM SendingHolds == SmsSpec => []Sending
BY SendingInit, SendingStep, PTL DEF SmsSpec

\* However many rounds overlap, die or outlive their leases: no lease is shared, the
\* provider is called maxAttempts times for a text and each of its requeues, and a text
\* that is shown as sent was taken.
THEOREM TextsAreSentRight == SmsSpec => []SmsHolds
<1>1. Sending => SmsHolds
  <2> SUFFICES ASSUME Sending, NEW m \in Texts
               PROVE  tries[m] <= SmsMaxAttempts * (1 + requeued[m])
    BY DEF Sending, SmsHolds, CallsAreBounded
  <2>1. /\ IsFiniteSet(Uncalled(m)) /\ Cardinality(Uncalled(m)) \in Nat
        /\ tries[m] + Cardinality(Uncalled(m)) <=
             smsAttempts[m] + SmsMaxAttempts * requeued[m]
    BY FS_CardinalityType DEF Sending, AttemptsAreCounted, Accounted
  <2>2. \A a, b \in Nat : a * (1 + b) = a * b + a
    OBVIOUS
  <2>3. SmsMaxAttempts * (1 + requeued[m]) = SmsMaxAttempts * requeued[m] + SmsMaxAttempts
    BY <2>2, AllowanceType, SmsAssumption DEF Sending
  <2> QED
    BY <2>1, <2>3, AllowanceType, SmsAssumption DEF Sending
<1> QED
  BY <1>1, SendingHolds, PTL

\* A text that was sent stays so, but for rounds that outlived their lease.
THEOREM SentTextsRest == SmsSpec => SentStaysSent
<1>1. ASSUME Sending, SmsNext, NEW m \in Texts, sms[m] = "sent",
             sms'[m] \notin {"sent", "purged"}
      PROVE  m \in overrun
  <2>1. ASSUME NEW r \in Rounds, NEW n \in Texts, RecordSent(r, n) \/ MarkFailed(r, n)
        PROVE  m \in overrun
    <3>1. n = m
      BY <1>1, <2>1 DEF Sending, SmsTypeOK, RecordSent, MarkFailed
    <3>2. CASE RecordSent(r, m)
      BY <1>1, <3>2 DEF Sending, SmsTypeOK, RecordSent, Row
    <3>3. CASE MarkFailed(r, m)
      <4>1. PICK o \in Outcomes : call[r] = <<m, o>>
        BY <3>3 DEF MarkFailed
      <4>2. Holds(r, m)
        BY <1>1, <4>1 DEF Sending, CallsAreTrue
      <4> QED
        BY <1>1, <4>2 DEF Sending, LeasesHold
    <3> QED
      BY <2>1, <3>1, <3>2, <3>3
  <2> QED
    BY <1>1, <2>1
    DEF SmsNext, SwitchSms, EnqueueSms, Ripens, RequeueSms, PurgeSms, RoundStep,
        RoundDies,
        ReleaseStaleSending, ClaimDueMessages, Due, Dispatch, textVars, Sending, SmsTypeOK
<1>2. Sending /\ [SmsNext]_smsVars =>
        [\A m \in Texts : sms[m] = "sent" /\ sms'[m] \notin {"sent", "purged"}
           => m \in overrun]_smsVars
  BY <1>1
<1> QED
  BY <1>2, SendingHolds, PTL DEF SmsSpec, SentStaysSent

-----------------------------------------------------------------------------
(* The tax documents: what the rows say is what the office knows.            *)

\* Packets are numbered as they are built: nobody has one that is yet to come, and a
\* packet that is unsound never reaches the office.
PacketsInOrder ==
  /\ \A p \in Packets : p[2] > edition[p[1]] => office[p] = "unknown" /\ p \notin unsound
  /\ \A s \in Senders : \A p \in load[s] : p[2] <= edition[p[1]]
  /\ \A p \in unsound : office[p] = "unknown"
  /\ unmarked \subseteq unsound

\* A row has a packet, and a note that is being rebuilt had one.
RowsHavePackets ==
  /\ \A d \in Docs : doc[d] # "none" => edition[d] >= 1
  /\ \A d \in Notes : rebuild[d] # "no" => edition[d] >= 1
  /\ \A d \in Notes : rebuild[d] = "deleted" => doc[d] = "none"

\* A sender has rows between the claim and the last record only, and "uid" is the
\* answer of an office that has the packet.
SendersInOrder ==
  /\ answer = [s \in Senders |-> answer[s]]
  /\ \A s \in Senders :
       /\ step[s] \in {"idle", "freed", "recorded"} => load[s] = {}
       /\ step[s] = "answered" => DOMAIN answer[s] = load[s]
       /\ step[s] = "answered" =>
            \A p \in load[s] : answer[s][p] = "uid" => office[p] # "unknown"

\* What was sent is with the office.
SentIsKnown ==
  \A d \in Docs : doc[d] = "sent" => office[Current(d)] # "unknown"

\* The row of a packet somebody works on, unless it was freed, retried or rebuilt
\* under it: it waits for the answer, or was found invalid after the claim; or it
\* waits for the verdict, or has it.
RowsOfSenders ==
  \A s \in Senders : \A p \in load[s] : Exists(p) /\ p[1] \notin twice =>
    \/ step[s] \in {"claimed", "answered"} /\ doc[p[1]] = "sending"
    \/ step[s] \in {"claimed", "answered"} /\ doc[p[1]] = "rejected" /\ p \in unsound
    \/ step[s] = "asked" /\ doc[p[1]] \in {"sent", "accepted", "rejected"}
       /\ office[p] # "unknown"

Filing ==
  /\ TaxTypeOK /\ PacketsInOrder /\ RowsHavePackets /\ SendersInOrder
  /\ SentIsKnown /\ AcceptedIsFiled /\ RowsOfSenders /\ OneSender

\* A row leaves the load of a sender with its answer.
LEMMA RowIsDone ==
  ASSUME TaxTypeOK, SendersInOrder, NEW s \in Senders, NEW p \in load[s],
         step[s] = "answered", Done(s, p)
  PROVE  /\ answer' = [t \in Senders |-> answer'[t]]
         /\ load'[s] = load[s] \ {p} /\ DOMAIN answer'[s] = load'[s]
         /\ \A q \in load'[s] : answer'[s][q] = answer[s][q]
         /\ \A t \in Senders \ {s} :
              answer'[t] = answer[t] /\ load'[t] = load[t] /\ step'[t] = step[t]
         /\ (step'[s] = "recorded" /\ load'[s] = {}) \/ step'[s] = "answered"
<1>1. answer' = [t \in Senders |->
        IF t = s THEN [q \in DOMAIN answer[s] \ {p} |-> answer[s][q]] ELSE answer[t]]
  BY DEF SendersInOrder, Done
<1>2. DOMAIN answer[s] = load[s]
  BY DEF SendersInOrder
<1>3. /\ answer'[s] = [q \in load[s] \ {p} |-> answer[s][q]]
      /\ \A t \in Senders \ {s} : answer'[t] = answer[t]
  BY <1>1, <1>2
<1>4. answer' = [t \in Senders |-> answer'[t]]
  BY <1>1
<1>5. /\ load'[s] = load[s] \ {p}
      /\ \A t \in Senders \ {s} : load'[t] = load[t] /\ step'[t] = step[t]
      /\ (step'[s] = "recorded" /\ load'[s] = {}) \/ step'[s] = "answered"
  BY DEF Done, TaxTypeOK
<1> QED
  BY <1>3, <1>4, <1>5

LEMMA CreateInvoiceForOrderStep ==
  ASSUME Filing, NEW d \in Docs, NEW sound \in BOOLEAN, CreateInvoiceForOrder(d, sound)
  PROVE  Filing'
<1>1. TaxTypeOK'
  BY TaxAssumption DEF Filing, CreateInvoiceForOrder, TaxTypeOK, PacketsInOrder,
    Inserted, senderVars, Docs, TaxStatus, Packets
<1>2. PacketsInOrder'
  BY TaxAssumption DEF Filing, CreateInvoiceForOrder, PacketsInOrder, TaxTypeOK,
    Inserted, senderVars, Packets, Docs, TaxStatus
<1>3. RowsHavePackets'
  BY TaxAssumption DEF Filing, CreateInvoiceForOrder, RowsHavePackets, TaxTypeOK,
    Inserted, senderVars, Docs, TaxStatus, Packets
<1>4. SendersInOrder'
  BY DEF Filing, CreateInvoiceForOrder, SendersInOrder, Inserted, senderVars
<1>5. SentIsKnown'
  BY DEF Filing, CreateInvoiceForOrder, SentIsKnown, Inserted, senderVars, Docs, Current
<1>6. AcceptedIsFiled'
  BY DEF Filing, CreateInvoiceForOrder, AcceptedIsFiled, Inserted, senderVars, Docs,
    Current
<1>7. RowsOfSenders'
  BY TaxAssumption DEF Filing, CreateInvoiceForOrder, RowsOfSenders, TaxTypeOK,
    PacketsInOrder, Inserted, senderVars, Exists, Docs, TaxStatus, Packets, Current
<1>8. OneSender'
  BY DEF Filing, CreateInvoiceForOrder, OneSender, Inserted, senderVars
<1> QED
  BY <1>1, <1>2, <1>3, <1>4, <1>5, <1>6, <1>7, <1>8 DEF Filing

LEMMA CreateCreditNoteStep ==
  ASSUME Filing, NEW d \in Docs, NEW sound \in BOOLEAN, CreateCreditNote(d, sound)
  PROVE  Filing'
<1>1. TaxTypeOK'
  BY TaxAssumption DEF Filing, CreateCreditNote, TaxTypeOK, PacketsInOrder, Inserted,
    adminVars, senderVars, Docs, TaxStatus, Packets
<1>2. PacketsInOrder'
  BY TaxAssumption DEF Filing, CreateCreditNote, PacketsInOrder, TaxTypeOK, Inserted,
    adminVars, senderVars, Packets, Docs, TaxStatus
<1>3. RowsHavePackets'
  BY TaxAssumption DEF Filing, CreateCreditNote, RowsHavePackets, TaxTypeOK, Inserted,
    adminVars, senderVars, Docs, TaxStatus, Packets
<1>4. SendersInOrder'
  BY DEF Filing, CreateCreditNote, SendersInOrder, Inserted, adminVars, senderVars
<1>5. SentIsKnown'
  BY DEF Filing, CreateCreditNote, SentIsKnown, Inserted, adminVars, senderVars, Docs,
    Current
<1>6. AcceptedIsFiled'
  BY DEF Filing, CreateCreditNote, AcceptedIsFiled, Inserted, adminVars, senderVars,
    Docs, Current
<1>7. RowsOfSenders'
  BY TaxAssumption DEF Filing, CreateCreditNote, RowsOfSenders, TaxTypeOK,
    PacketsInOrder, Inserted, adminVars, senderVars, Exists, Docs, TaxStatus, Packets,
    Current
<1>8. OneSender'
  BY DEF Filing, CreateCreditNote, OneSender, Inserted, adminVars, senderVars
<1> QED
  BY <1>1, <1>2, <1>3, <1>4, <1>5, <1>6, <1>7, <1>8 DEF Filing

LEMMA RebuildInsertsStep ==
  ASSUME Filing, NEW d \in Docs, NEW sound \in BOOLEAN, RebuildInserts(d, sound)
  PROVE  Filing'
<1>1. TaxTypeOK'
  BY TaxAssumption DEF Filing, RebuildInserts, TaxTypeOK, PacketsInOrder, Inserted,
    senderVars, Docs, TaxStatus, Packets
<1>2. PacketsInOrder'
  BY TaxAssumption DEF Filing, RebuildInserts, PacketsInOrder, TaxTypeOK, Inserted,
    senderVars, Packets, Docs, TaxStatus
<1>3. RowsHavePackets'
  BY TaxAssumption DEF Filing, RebuildInserts, RowsHavePackets, TaxTypeOK, Inserted,
    senderVars, Docs, TaxStatus, Packets
<1>4. SendersInOrder'
  BY DEF Filing, RebuildInserts, SendersInOrder, Inserted, senderVars
<1>5. SentIsKnown'
  BY TaxAssumption DEF Filing, RebuildInserts, SentIsKnown, TaxTypeOK, Inserted,
    senderVars, Docs, Current, TaxStatus, Packets
<1>6. AcceptedIsFiled'
  BY TaxAssumption DEF Filing, RebuildInserts, AcceptedIsFiled, TaxTypeOK, Inserted,
    senderVars, Docs, Current, TaxStatus, Packets
<1>7. RowsOfSenders'
  BY TaxAssumption DEF Filing, RebuildInserts, RowsOfSenders, TaxTypeOK, PacketsInOrder,
    Inserted, senderVars, Exists, Docs, TaxStatus, Packets, Current
<1>8. OneSender'
  BY DEF Filing, RebuildInserts, OneSender, Inserted, senderVars
<1> QED
  BY <1>1, <1>2, <1>3, <1>4, <1>5, <1>6, <1>7, <1>8 DEF Filing

LEMMA MarkInvalidStep ==
  ASSUME Filing, NEW p \in unmarked, MarkInvalid(p)
  PROVE  Filing'
<1>1. TaxTypeOK'
  BY DEF Filing, MarkInvalid, TaxTypeOK, Exists, senderVars, Docs, TaxStatus, Packets,
    Current
<1>2. PacketsInOrder'
  BY DEF Filing, MarkInvalid, PacketsInOrder, Exists, senderVars, Packets, Current, Docs
<1>3. RowsHavePackets'
  BY DEF Filing, MarkInvalid, RowsHavePackets, Exists, senderVars, Docs, Current
<1>4. SendersInOrder'
  BY DEF Filing, MarkInvalid, SendersInOrder, Exists, senderVars, Current
<1>5. SentIsKnown'
  BY DEF Filing, MarkInvalid, SentIsKnown, Exists, senderVars, Docs, Current
<1>6. AcceptedIsFiled'
  BY DEF Filing, MarkInvalid, AcceptedIsFiled, Exists, senderVars, Docs, Current
<1>7. RowsOfSenders'
  BY TaxAssumption DEF Filing, MarkInvalid, RowsOfSenders, TaxTypeOK, PacketsInOrder,
    RowsHavePackets, SendersInOrder, SentIsKnown, AcceptedIsFiled, OneSender, Exists,
    senderVars, Docs, TaxStatus, Packets, Current
<1>8. OneSender'
  BY DEF Filing, MarkInvalid, OneSender, Exists, senderVars, Current
<1> QED
  BY <1>1, <1>2, <1>3, <1>4, <1>5, <1>6, <1>7, <1>8 DEF Filing

LEMMA RebuildReadsStep ==
  ASSUME Filing, NEW d \in Docs, RebuildReads(d)
  PROVE  Filing'
<1>1. TaxTypeOK'
  BY TaxAssumption DEF Filing, RebuildReads, TaxTypeOK, PacketsInOrder, taxRows,
    senderVars, Docs, TaxStatus, Packets
<1>2. PacketsInOrder'
  BY DEF Filing, RebuildReads, PacketsInOrder, taxRows, senderVars, Packets, Docs
<1>3. RowsHavePackets'
  BY DEF Filing, RebuildReads, RowsHavePackets, taxRows, senderVars, Docs
<1>4. SendersInOrder'
  BY DEF Filing, RebuildReads, SendersInOrder, taxRows, senderVars
<1>5. SentIsKnown'
  BY DEF Filing, RebuildReads, SentIsKnown, taxRows, senderVars, Docs, Current
<1>6. AcceptedIsFiled'
  BY DEF Filing, RebuildReads, AcceptedIsFiled, taxRows, senderVars, Docs, Current
<1>7. RowsOfSenders'
  BY DEF Filing, RebuildReads, RowsOfSenders, taxRows, senderVars, Exists, Current
<1>8. OneSender'
  BY DEF Filing, RebuildReads, OneSender, taxRows, senderVars
<1> QED
  BY <1>1, <1>2, <1>3, <1>4, <1>5, <1>6, <1>7, <1>8 DEF Filing

LEMMA RebuildDeletesStep ==
  ASSUME Filing, NEW d \in Docs, RebuildDeletes(d)
  PROVE  Filing'
<1>1. TaxTypeOK'
  BY DEF Filing, RebuildDeletes, TaxTypeOK, Held, senderVars, Docs, TaxStatus, Packets,
    Current
<1>2. PacketsInOrder'
  BY DEF Filing, RebuildDeletes, PacketsInOrder, Held, senderVars, Packets, Current,
    Docs
<1>3. RowsHavePackets'
  BY TaxAssumption DEF Filing, RebuildDeletes, RowsHavePackets, TaxTypeOK, Held,
    senderVars, Docs, TaxStatus, Packets, Current
<1>4. SendersInOrder'
  BY DEF Filing, RebuildDeletes, SendersInOrder, Held, senderVars, Current
<1>5. SentIsKnown'
  BY DEF Filing, RebuildDeletes, SentIsKnown, Held, senderVars, Docs, Current
<1>6. AcceptedIsFiled'
  BY DEF Filing, RebuildDeletes, AcceptedIsFiled, Held, senderVars, Docs, Current
<1>7. RowsOfSenders'
  BY DEF Filing, RebuildDeletes, RowsOfSenders, Held, senderVars, Exists, Current
<1>8. OneSender'
  BY DEF Filing, RebuildDeletes, OneSender, Held, senderVars, Current
<1> QED
  BY <1>1, <1>2, <1>3, <1>4, <1>5, <1>6, <1>7, <1>8 DEF Filing

LEMMA RetryNowStep ==
  ASSUME Filing, NEW d \in Docs, RetryNow(d)
  PROVE  Filing'
<1>1. TaxTypeOK'
  BY TaxAssumption DEF Filing, RetryNow, TaxTypeOK, PacketsInOrder, Held, senderVars,
    Docs, TaxStatus, Packets, Current
<1>2. PacketsInOrder'
  BY DEF Filing, RetryNow, PacketsInOrder, Held, senderVars, Packets, Current, Docs
<1>3. RowsHavePackets'
  BY DEF Filing, RetryNow, RowsHavePackets, Held, senderVars, Docs, Current
<1>4. SendersInOrder'
  BY DEF Filing, RetryNow, SendersInOrder, Held, senderVars, Current
<1>5. SentIsKnown'
  BY DEF Filing, RetryNow, SentIsKnown, Held, senderVars, Docs, Current
<1>6. AcceptedIsFiled'
  BY DEF Filing, RetryNow, AcceptedIsFiled, Held, senderVars, Docs, Current
<1>7. RowsOfSenders'
  BY DEF Filing, RetryNow, RowsOfSenders, Held, senderVars, Exists, Current
<1>8. OneSender'
  BY DEF Filing, RetryNow, OneSender, Held, senderVars, Current
<1> QED
  BY <1>1, <1>2, <1>3, <1>4, <1>5, <1>6, <1>7, <1>8 DEF Filing

LEMMA RetryStuckStep ==
  ASSUME Filing, NEW s \in Senders, NEW stuck \in SUBSET Docs, RetryStuck(s, stuck)
  PROVE  Filing'
<1>1. TaxTypeOK'
  BY DEF Filing, RetryStuck, TaxTypeOK, Docs, Held, adminVars, TaxStatus, Packets,
    Current
<1>2. PacketsInOrder'
  BY DEF Filing, RetryStuck, PacketsInOrder, Docs, Held, adminVars, Packets, Current
<1>3. RowsHavePackets'
  BY DEF Filing, RetryStuck, RowsHavePackets, Docs, Held, adminVars, Current
<1>4. SendersInOrder'
  BY DEF Filing, RetryStuck, SendersInOrder, Docs, Held, adminVars, Current
<1>5. SentIsKnown'
  BY DEF Filing, RetryStuck, SentIsKnown, Docs, Held, adminVars, Current
<1>6. AcceptedIsFiled'
  BY DEF Filing, RetryStuck, AcceptedIsFiled, Docs, Held, adminVars, Current
<1>7. RowsOfSenders'
  BY TaxAssumption DEF Filing, RetryStuck, RowsOfSenders, TaxTypeOK, Docs, Held,
    adminVars, Exists, TaxStatus, Packets, Current
<1>8. OneSender'
  BY DEF Filing, RetryStuck, OneSender, Docs, Held, adminVars, Current
<1> QED
  BY <1>1, <1>2, <1>3, <1>4, <1>5, <1>6, <1>7, <1>8 DEF Filing

LEMMA ClaimDueBatchStep ==
  ASSUME Filing, NEW s \in Senders, NEW B \in SUBSET Docs, ClaimDueBatch(s, B)
  PROVE  Filing'
<1>1. TaxTypeOK'
  BY TaxAssumption DEF Filing, ClaimDueBatch, TaxTypeOK, RowsHavePackets, Claimable,
    Docs, Current, adminVars, TaxStatus, Packets
<1>2. PacketsInOrder'
  BY TaxAssumption DEF Filing, ClaimDueBatch, PacketsInOrder, TaxTypeOK, Claimable,
    Docs, Current, adminVars, Packets, TaxStatus
<1>3. RowsHavePackets'
  BY DEF Filing, ClaimDueBatch, RowsHavePackets, Claimable, Docs, Current, adminVars
<1>4. SendersInOrder'
  BY TaxAssumption DEF Filing, ClaimDueBatch, SendersInOrder, TaxTypeOK, Claimable,
    Docs, Current, adminVars, TaxStatus, Packets
<1>5. SentIsKnown'
  BY DEF Filing, ClaimDueBatch, SentIsKnown, Claimable, Docs, Current, adminVars
<1>6. AcceptedIsFiled'
  BY DEF Filing, ClaimDueBatch, AcceptedIsFiled, Claimable, Docs, Current, adminVars
<1>7. RowsOfSenders'
  <2>1. load' = [load EXCEPT ![s] = {Current(d) : d \in B}]
    BY DEF ClaimDueBatch
  <2>2. load'[s] = {Current(d) : d \in B} /\ \A t \in Senders \ {s} : load'[t] = load[t]
    BY <2>1 DEF Filing, TaxTypeOK
  <2>3. \A d \in B : doc[d] \in {"queued", "failed"}
    BY DEF ClaimDueBatch, Claimable
  <2>4. ASSUME NEW d \in B PROVE Current(d)[1] = d /\ d \in Docs
    BY DEF Current
  <2>5. \A d \in Docs : doc'[d] = IF d \in B THEN "sending" ELSE doc[d]
    BY DEF ClaimDueBatch
  <2>6. ASSUME NEW p \in load'[s], Exists(p)'
        PROVE  step'[s] = "claimed" /\ doc'[p[1]] = "sending"
    <3>1. PICK d \in B : p = Current(d)
      BY <2>2, <2>6
    <3> QED
      BY <3>1, <2>4, <2>5 DEF Filing, TaxTypeOK, ClaimDueBatch
  <2>7. ASSUME NEW t \in Senders \ {s}, NEW p \in load'[t], Exists(p)', p[1] \notin twice'
        PROVE  /\ p \in load[t] /\ Exists(p) /\ p[1] \notin twice
               /\ doc'[p[1]] = doc[p[1]] /\ step'[t] = step[t]
    <3>1. p \in load[t] /\ p[1] \in Docs /\ step'[t] = step[t] /\ p[1] \notin twice
      BY <2>2, <2>7 DEF Filing, TaxTypeOK, ClaimDueBatch, Packets
    <3>2. Exists(p)
      BY <3>1, <2>3, <2>5, <2>7 DEF Exists, Current, ClaimDueBatch
    <3>3. doc[p[1]] \notin {"queued", "failed"}
      BY <3>1, <3>2 DEF Filing, RowsOfSenders
    <3> QED
      BY <3>1, <3>2, <3>3, <2>3, <2>5
  <2>8. office' = office /\ unsound' = unsound
    BY DEF ClaimDueBatch
  <2> QED
    BY <2>6, <2>7, <2>8 DEF Filing, RowsOfSenders
<1>8. OneSender'
  <2>1. load' = [load EXCEPT ![s] = {Current(d) : d \in B}]
    BY DEF ClaimDueBatch
  <2>2. load'[s] = {Current(d) : d \in B} /\ \A t \in Senders \ {s} : load'[t] = load[t]
    BY <2>1 DEF Filing, TaxTypeOK
  <2>3. \A d \in B : doc[d] \in {"queued", "failed"}
    BY DEF ClaimDueBatch, Claimable
  <2>4. ASSUME NEW d \in B PROVE Current(d)[1] = d /\ d \in Docs
    BY DEF Current
  <2>5. \A d \in Docs : doc'[d] = IF d \in B THEN "sending" ELSE doc[d]
    BY DEF ClaimDueBatch
  <2>6. ASSUME NEW t \in Senders \ {s}, NEW p \in load'[s] \cap load'[t],
               step'[t] \in {"claimed", "answered"}
        PROVE  p[1] \in twice'
    <3>1. PICK d \in B : p = Current(d)
      BY <2>2, <2>6
    <3>2. p \in load[t] /\ step[t] \in {"claimed", "answered"} /\ Exists(p) /\ p[1] = d
      BY <2>2, <2>3, <2>4, <2>6, <3>1 DEF Filing, TaxTypeOK, ClaimDueBatch, Exists
    <3> QED
      BY <2>3, <3>2 DEF Filing, RowsOfSenders, ClaimDueBatch
  <2>7. ASSUME NEW t \in Senders \ {s}
        PROVE  load'[t] = load[t] /\ step'[t] = step[t] /\ twice' = twice
    BY <2>2 DEF Filing, TaxTypeOK, ClaimDueBatch
  <2> QED
    BY <2>6, <2>7 DEF Filing, OneSender
<1> QED
  BY <1>1, <1>2, <1>3, <1>4, <1>5, <1>6, <1>7, <1>8 DEF Filing

LEMMA AnsweredStep ==
  ASSUME Filing, NEW s \in Senders, Answered(s)
  PROVE  Filing'
<1>1. TaxTypeOK'
  BY DEF Filing, Answered, TaxTypeOK, SendAnswered, Docs, TaxStatus, Packets, Takes,
    taxRows, adminVars
<1>2. PacketsInOrder'
  BY TaxAssumption DEF Filing, Answered, PacketsInOrder, TaxTypeOK, SendAnswered,
    Packets, Docs, TaxStatus, Takes, taxRows, adminVars
<1>3. RowsHavePackets'
  BY DEF Filing, Answered, RowsHavePackets, SendAnswered, Docs, Takes, Packets, taxRows,
    adminVars
<1>4. SendersInOrder'
  BY TaxAssumption DEF Filing, Answered, SendersInOrder, TaxTypeOK, SendAnswered, Docs,
    TaxStatus, Packets, Takes, taxRows, adminVars
<1>5. SentIsKnown'
  BY TaxAssumption DEF Filing, Answered, SentIsKnown, TaxTypeOK, RowsHavePackets,
    SendAnswered, Docs, Current, TaxStatus, Packets, Takes, taxRows, adminVars
<1>6. AcceptedIsFiled'
  BY TaxAssumption DEF Filing, Answered, AcceptedIsFiled, TaxTypeOK, RowsHavePackets,
    SendAnswered, Docs, Current, TaxStatus, Packets, Takes, taxRows, adminVars
<1>7. RowsOfSenders'
  BY TaxAssumption DEF Filing, Answered, RowsOfSenders, TaxTypeOK, SendAnswered, Exists,
    Docs, TaxStatus, Packets, Takes, taxRows, adminVars, Current
<1>8. OneSender'
  BY DEF Filing, Answered, OneSender, SendAnswered, Takes, Packets, taxRows, adminVars,
    Docs
<1> QED
  BY <1>1, <1>2, <1>3, <1>4, <1>5, <1>6, <1>7, <1>8 DEF Filing

LEMMA SendLostStep ==
  ASSUME Filing, NEW s \in Senders, NEW reached \in SUBSET load[s], SendLost(s, reached)
  PROVE  Filing'
<1>1. TaxTypeOK'
  BY DEF Filing, SendLost, TaxTypeOK, Packets, Takes, taxRows, adminVars, Docs,
    TaxStatus
<1>2. PacketsInOrder'
  BY TaxAssumption DEF Filing, SendLost, PacketsInOrder, TaxTypeOK, Packets, Takes,
    taxRows, adminVars, Docs, TaxStatus
<1>3. RowsHavePackets'
  BY DEF Filing, SendLost, RowsHavePackets, Packets, Takes, taxRows, adminVars, Docs
<1>4. SendersInOrder'
  BY TaxAssumption DEF Filing, SendLost, SendersInOrder, TaxTypeOK, Packets, Takes,
    taxRows, adminVars, Docs, TaxStatus
<1>5. SentIsKnown'
  BY TaxAssumption DEF Filing, SendLost, SentIsKnown, TaxTypeOK, RowsHavePackets,
    Packets, Takes, taxRows, adminVars, Docs, Current, TaxStatus
<1>6. AcceptedIsFiled'
  BY TaxAssumption DEF Filing, SendLost, AcceptedIsFiled, TaxTypeOK, RowsHavePackets,
    Packets, Takes, taxRows, adminVars, Docs, Current, TaxStatus
<1>7. RowsOfSenders'
  BY TaxAssumption DEF Filing, SendLost, RowsOfSenders, TaxTypeOK, Packets, Takes,
    taxRows, adminVars, Exists, Docs, TaxStatus, Current
<1>8. OneSender'
  BY DEF Filing, SendLost, OneSender, Packets, Takes, taxRows, adminVars, Docs
<1> QED
  BY <1>1, <1>2, <1>3, <1>4, <1>5, <1>6, <1>7, <1>8 DEF Filing

LEMMA MarkSentStep ==
  ASSUME Filing, NEW s \in Senders, NEW p \in load[s], MarkSent(s, p)
  PROVE  Filing'
<1>1. TaxTypeOK'
  BY DEF Filing, MarkSent, TaxTypeOK, Exists, Done, adminVars, Docs, TaxStatus, Packets,
    Current
<1>2. PacketsInOrder'
  BY DEF Filing, MarkSent, PacketsInOrder, Exists, Done, adminVars, Packets, Current,
    Docs
<1>3. RowsHavePackets'
  BY DEF Filing, MarkSent, RowsHavePackets, Exists, Done, adminVars, Docs, Current
<1>4. SendersInOrder'
  BY RowIsDone DEF Filing, SendersInOrder, MarkSent
<1>5. SentIsKnown'
  <2>1. office[p] # "unknown" /\ p \in Packets
    BY DEF Filing, TaxTypeOK, SendersInOrder, MarkSent
  <2>2. p[1] \in Docs /\ (Exists(p) => p = Current(p[1]))
    BY <2>1 DEF Packets, Exists
  <2>3. \A d \in Docs : doc'[d] = "sent" => doc[d] = "sent" \/ (d = p[1] /\ Exists(p))
    BY <2>2 DEF Filing, TaxTypeOK, MarkSent
  <2> QED
    BY <2>1, <2>2, <2>3 DEF Filing, SentIsKnown, MarkSent, Current
<1>6. AcceptedIsFiled'
  BY DEF Filing, MarkSent, AcceptedIsFiled, Exists, Done, adminVars, Docs, Current
<1>7. RowsOfSenders'
  BY TaxAssumption DEF Filing, MarkSent, RowsOfSenders, TaxTypeOK, PacketsInOrder,
    RowsHavePackets, SendersInOrder, SentIsKnown, AcceptedIsFiled, OneSender, Exists,
    Done, adminVars, Docs, TaxStatus, Packets, Current
<1>8. OneSender'
  BY DEF Filing, MarkSent, OneSender, Exists, Done, adminVars, Current
<1> QED
  BY <1>1, <1>2, <1>3, <1>4, <1>5, <1>6, <1>7, <1>8 DEF Filing

LEMMA MarkRejectedStep ==
  ASSUME Filing, NEW s \in Senders, NEW p \in load[s], MarkRejected(s, p)
  PROVE  Filing'
<1>1. TaxTypeOK'
  BY DEF Filing, MarkRejected, TaxTypeOK, Exists, Done, adminVars, Docs, TaxStatus,
    Packets, Current
<1>2. PacketsInOrder'
  BY DEF Filing, MarkRejected, PacketsInOrder, Exists, Done, adminVars, Packets,
    Current, Docs
<1>3. RowsHavePackets'
  BY DEF Filing, MarkRejected, RowsHavePackets, Exists, Done, adminVars, Docs, Current
<1>4. SendersInOrder'
  BY RowIsDone DEF Filing, SendersInOrder, MarkRejected
<1>5. SentIsKnown'
  BY DEF Filing, MarkRejected, SentIsKnown, Exists, Done, adminVars, Docs, Current
<1>6. AcceptedIsFiled'
  BY DEF Filing, MarkRejected, AcceptedIsFiled, Exists, Done, adminVars, Docs, Current
<1>7. RowsOfSenders'
  BY TaxAssumption DEF Filing, MarkRejected, RowsOfSenders, TaxTypeOK, PacketsInOrder,
    RowsHavePackets, SendersInOrder, SentIsKnown, AcceptedIsFiled, OneSender, Exists,
    Done, adminVars, Docs, TaxStatus, Packets, Current
<1>8. OneSender'
  BY DEF Filing, MarkRejected, OneSender, Exists, Done, adminVars, Current
<1> QED
  BY <1>1, <1>2, <1>3, <1>4, <1>5, <1>6, <1>7, <1>8 DEF Filing

LEMMA MarkFailedTaxStep ==
  ASSUME Filing, NEW s \in Senders, NEW p \in load[s], MarkFailedTax(s, p)
  PROVE  Filing'
<1>1. TaxTypeOK'
  BY DEF Filing, MarkFailedTax, TaxTypeOK, Exists, Done, adminVars, Docs, TaxStatus,
    Packets, Current
<1>2. PacketsInOrder'
  BY DEF Filing, MarkFailedTax, PacketsInOrder, Exists, Done, adminVars, Packets,
    Current, Docs
<1>3. RowsHavePackets'
  BY DEF Filing, MarkFailedTax, RowsHavePackets, Exists, Done, adminVars, Docs, Current
<1>4. SendersInOrder'
  BY RowIsDone DEF Filing, SendersInOrder, MarkFailedTax
<1>5. SentIsKnown'
  BY DEF Filing, MarkFailedTax, SentIsKnown, Exists, Done, adminVars, Docs, Current
<1>6. AcceptedIsFiled'
  BY DEF Filing, MarkFailedTax, AcceptedIsFiled, Exists, Done, adminVars, Docs, Current
<1>7. RowsOfSenders'
  BY TaxAssumption DEF Filing, MarkFailedTax, RowsOfSenders, TaxTypeOK, PacketsInOrder,
    RowsHavePackets, SendersInOrder, SentIsKnown, AcceptedIsFiled, OneSender, Exists,
    Done, adminVars, Docs, TaxStatus, Packets, Current
<1>8. OneSender'
  BY DEF Filing, MarkFailedTax, OneSender, Exists, Done, adminVars, Current
<1> QED
  BY <1>1, <1>2, <1>3, <1>4, <1>5, <1>6, <1>7, <1>8 DEF Filing

LEMMA MarkFailedThrowsStep ==
  ASSUME Filing, NEW s \in Senders, NEW p \in load[s], MarkFailedThrows(s, p)
  PROVE  Filing'
<1>1. TaxTypeOK'
  BY DEF Filing, MarkFailedThrows, TaxTypeOK, Exists, EndsRun, taxRows, adminVars, Docs,
    TaxStatus, Packets, Current, NoAnswer
<1>2. PacketsInOrder'
  BY DEF Filing, MarkFailedThrows, PacketsInOrder, Exists, EndsRun, taxRows, adminVars,
    Packets, Current, NoAnswer, Docs
<1>3. RowsHavePackets'
  BY DEF Filing, MarkFailedThrows, RowsHavePackets, Exists, EndsRun, taxRows, adminVars,
    Docs, Current, NoAnswer
<1>4. SendersInOrder'
  BY TaxAssumption DEF Filing, MarkFailedThrows, SendersInOrder, TaxTypeOK, SentIsKnown,
    Exists, EndsRun, taxRows, adminVars, Docs, TaxStatus, Packets, Current, NoAnswer
<1>5. SentIsKnown'
  BY DEF Filing, MarkFailedThrows, SentIsKnown, Exists, EndsRun, taxRows, adminVars,
    Docs, Current, NoAnswer
<1>6. AcceptedIsFiled'
  BY DEF Filing, MarkFailedThrows, AcceptedIsFiled, Exists, EndsRun, taxRows, adminVars,
    Docs, Current, NoAnswer
<1>7. RowsOfSenders'
  BY TaxAssumption DEF Filing, MarkFailedThrows, RowsOfSenders, TaxTypeOK, Exists,
    EndsRun, taxRows, adminVars, Docs, TaxStatus, Packets, Current, NoAnswer
<1>8. OneSender'
  BY DEF Filing, MarkFailedThrows, OneSender, Exists, EndsRun, taxRows, adminVars,
    Current, NoAnswer
<1> QED
  BY <1>1, <1>2, <1>3, <1>4, <1>5, <1>6, <1>7, <1>8 DEF Filing

LEMMA InquireRecordsStep ==
  ASSUME Filing, NEW s \in Senders, NEW p \in load[s], InquireRecords(s, p)
  PROVE  Filing'
<1>1. TaxTypeOK'
  BY DEF Filing, InquireRecords, TaxTypeOK, Heard, Exists, Docs, TaxStatus, Packets,
    adminVars, Current
<1>2. PacketsInOrder'
  BY DEF Filing, InquireRecords, PacketsInOrder, Heard, Exists, Packets, adminVars,
    Current, Docs
<1>3. RowsHavePackets'
  BY DEF Filing, InquireRecords, RowsHavePackets, Heard, Exists, Docs, adminVars,
    Current
<1>4. SendersInOrder'
  BY TaxAssumption DEF Filing, InquireRecords, SendersInOrder, TaxTypeOK, Heard, Exists,
    Docs, TaxStatus, Packets, adminVars, Current
<1>5. SentIsKnown'
  BY DEF Filing, InquireRecords, SentIsKnown, Heard, Exists, Docs, Current, adminVars
<1>6. AcceptedIsFiled'
  BY DEF Filing, InquireRecords, AcceptedIsFiled, Heard, Exists, Docs, Current,
    adminVars
<1>7. RowsOfSenders'
  BY TaxAssumption DEF Filing, InquireRecords, RowsOfSenders, TaxTypeOK, PacketsInOrder,
    Heard, Exists, Docs, TaxStatus, Packets, adminVars, Current
<1>8. OneSender'
  BY DEF Filing, InquireRecords, OneSender, Heard, Exists, adminVars, Current
<1> QED
  BY <1>1, <1>2, <1>3, <1>4, <1>5, <1>6, <1>7, <1>8 DEF Filing

LEMMA InquireReadsStep ==
  ASSUME Filing, NEW s \in Senders, InquireReads(s)
  PROVE  Filing'
<1>1. TaxTypeOK'
  BY TaxAssumption DEF Filing, InquireReads, TaxTypeOK, RowsHavePackets, Current, Docs,
    taxRows, adminVars, TaxStatus, Packets
<1>2. PacketsInOrder'
  BY TaxAssumption DEF Filing, InquireReads, PacketsInOrder, TaxTypeOK, Current, Docs,
    taxRows, adminVars, Packets, TaxStatus
<1>3. RowsHavePackets'
  BY DEF Filing, InquireReads, RowsHavePackets, Current, Docs, taxRows, adminVars
<1>4. SendersInOrder'
  BY TaxAssumption DEF Filing, InquireReads, SendersInOrder, TaxTypeOK, Current, Docs,
    taxRows, adminVars, TaxStatus, Packets
<1>5. SentIsKnown'
  BY DEF Filing, InquireReads, SentIsKnown, Current, Docs, taxRows, adminVars
<1>6. AcceptedIsFiled'
  BY DEF Filing, InquireReads, AcceptedIsFiled, Current, Docs, taxRows, adminVars
<1>7. RowsOfSenders'
  BY TaxAssumption DEF Filing, InquireReads, RowsOfSenders, TaxTypeOK, SentIsKnown,
    Current, Docs, taxRows, adminVars, Exists, TaxStatus, Packets
<1>8. OneSender'
  BY DEF Filing, InquireReads, OneSender, Current, Docs, taxRows, adminVars
<1> QED
  BY <1>1, <1>2, <1>3, <1>4, <1>5, <1>6, <1>7, <1>8 DEF Filing

LEMMA SenderDiesStep ==
  ASSUME Filing, NEW s \in Senders, SenderDies(s)
  PROVE  Filing'
<1>1. TaxTypeOK'
  BY TaxAssumption DEF Filing, SenderDies, TaxTypeOK, PacketsInOrder, EndsRun, taxRows,
    adminVars, Docs, TaxStatus, Packets, NoAnswer
<1>2. PacketsInOrder'
  BY DEF Filing, SenderDies, PacketsInOrder, EndsRun, taxRows, adminVars, Packets,
    NoAnswer, Docs
<1>3. RowsHavePackets'
  BY DEF Filing, SenderDies, RowsHavePackets, EndsRun, taxRows, adminVars, Docs,
    NoAnswer
<1>4. SendersInOrder'
  <2>1. answer' = [t \in Senders |-> IF t = s THEN NoAnswer ELSE answer[t]]
    BY DEF Filing, SendersInOrder, SenderDies, EndsRun
  <2> QED
    BY <2>1 DEF Filing, TaxTypeOK, SendersInOrder, SenderDies, EndsRun
<1>5. SentIsKnown'
  BY DEF Filing, SenderDies, SentIsKnown, EndsRun, taxRows, adminVars, Docs, Current,
    NoAnswer
<1>6. AcceptedIsFiled'
  BY DEF Filing, SenderDies, AcceptedIsFiled, EndsRun, taxRows, adminVars, Docs,
    Current, NoAnswer
<1>7. RowsOfSenders'
  BY TaxAssumption DEF Filing, SenderDies, RowsOfSenders, TaxTypeOK, EndsRun, taxRows,
    adminVars, Exists, Docs, TaxStatus, Packets, NoAnswer, Current
<1>8. OneSender'
  BY DEF Filing, SenderDies, OneSender, EndsRun, taxRows, adminVars, NoAnswer
<1> QED
  BY <1>1, <1>2, <1>3, <1>4, <1>5, <1>6, <1>7, <1>8 DEF Filing

LEMMA OfficeDecidesStep ==
  ASSUME Filing, NEW p \in Packets, NEW v \in {"accepted", "rejected"}, OfficeDecides(p,
           v)
  PROVE  Filing'
<1>1. TaxTypeOK'
  BY DEF Filing, OfficeDecides, TaxTypeOK, taxRows, adminVars, senderVars, Docs,
    TaxStatus, Packets
<1>2. PacketsInOrder'
  BY DEF Filing, OfficeDecides, PacketsInOrder, taxRows, adminVars, senderVars, Packets,
    Docs
<1>3. RowsHavePackets'
  BY DEF Filing, OfficeDecides, RowsHavePackets, taxRows, adminVars, senderVars, Docs
<1>4. SendersInOrder'
  BY DEF Filing, OfficeDecides, SendersInOrder, taxRows, adminVars, senderVars
<1>5. SentIsKnown'
  BY DEF Filing, OfficeDecides, SentIsKnown, taxRows, adminVars, senderVars, Docs,
    Current
<1>6. AcceptedIsFiled'
  BY DEF Filing, OfficeDecides, AcceptedIsFiled, taxRows, adminVars, senderVars, Docs,
    Current
<1>7. RowsOfSenders'
  BY DEF Filing, OfficeDecides, RowsOfSenders, taxRows, adminVars, senderVars, Exists,
    Current
<1>8. OneSender'
  BY DEF Filing, OfficeDecides, OneSender, taxRows, adminVars, senderVars
<1> QED
  BY <1>1, <1>2, <1>3, <1>4, <1>5, <1>6, <1>7, <1>8 DEF Filing

LEMMA FilingInit == TaxInit => Filing
<1> SUFFICES ASSUME TaxInit PROVE Filing
  OBVIOUS
<1>1. TaxTypeOK
  BY TaxAssumption DEF TaxInit, TaxTypeOK, TaxStatus, Packets, Docs, NoAnswer
<1> QED
  BY <1>1 DEF TaxInit, Filing, PacketsInOrder, RowsHavePackets, SendersInOrder,
              SentIsKnown, AcceptedIsFiled, RowsOfSenders, OneSender, Docs

LEMMA FilingStep == Filing /\ [TaxNext]_taxVars => Filing'
<1> SUFFICES ASSUME Filing, [TaxNext]_taxVars PROVE Filing'
  OBVIOUS
<1>1. CASE UNCHANGED taxVars
  BY <1>1 DEF Filing, TaxTypeOK, PacketsInOrder, RowsHavePackets, SendersInOrder,
              SentIsKnown, AcceptedIsFiled, RowsOfSenders, OneSender, Exists, Current,
              taxVars, taxRows, adminVars, senderVars
<1>2. ASSUME NEW d \in Docs, NEW sound \in BOOLEAN,
             \/ CreateInvoiceForOrder(d, sound) \/ CreateCreditNote(d, sound)
             \/ RebuildInserts(d, sound)
      PROVE  Filing'
  BY <1>2, CreateInvoiceForOrderStep, CreateCreditNoteStep, RebuildInsertsStep
<1>3. ASSUME NEW p \in unmarked, MarkInvalid(p) PROVE Filing'
  BY <1>3, MarkInvalidStep
<1>4. ASSUME NEW d \in Docs, RebuildReads(d) \/ RebuildDeletes(d) \/ RetryNow(d)
      PROVE  Filing'
  BY <1>4, RebuildReadsStep, RebuildDeletesStep, RetryNowStep
<1>5. ASSUME NEW s \in Senders, SenderStep(s) PROVE Filing'
  <2>1. ASSUME NEW p \in load[s],
               \/ MarkSent(s, p) \/ MarkRejected(s, p) \/ MarkFailedTax(s, p)
               \/ MarkFailedThrows(s, p) \/ InquireRecords(s, p)
        PROVE  Filing'
    BY <2>1, MarkSentStep, MarkRejectedStep, MarkFailedTaxStep, MarkFailedThrowsStep,
       InquireRecordsStep
  <2> QED
    BY <1>5, <2>1, RetryStuckStep, ClaimDueBatchStep, AnsweredStep, SendLostStep,
       InquireReadsStep, SenderDiesStep
    DEF SenderStep, Records
<1>6. ASSUME NEW p \in Packets, NEW v \in {"accepted", "rejected"}, OfficeDecides(p, v)
      PROVE  Filing'
  BY <1>6, OfficeDecidesStep
<1> QED
  BY <1>1, <1>2, <1>3, <1>4, <1>5, <1>6 DEF TaxNext

\* Filing is an invariant of every behaviour of senders, clerks and the office.
THEOREM FilingHolds == TaxSpec => []Filing
BY FilingInit, FilingStep, PTL DEF TaxSpec

\* What the books call accepted was accepted by the office, whatever senders die, are
\* overtaken or hear nothing, for any number of them.
THEOREM AcceptedWasFiled == TaxSpec => []AcceptedIsFiled
<1>1. Filing => AcceptedIsFiled
  BY DEF Filing
<1> QED
  BY <1>1, FilingHolds, PTL

\* No two senders work on a packet, but for rows that were freed, retried or rebuilt
\* while somebody worked on them.
THEOREM OneSenderForAPacket == TaxSpec => []OneSender
<1>1. Filing => OneSender
  BY DEF Filing
<1> QED
  BY <1>1, FilingHolds, PTL

\* Whoever writes an accepted row is the rebuild of a note, or has a row that was
\* freed, retried or rebuilt under a sender.
LEMMA AcceptedIsKept ==
  ASSUME Filing, TaxNext, NEW d \in Docs, doc[d] = "accepted", doc'[d] # "accepted"
  PROVE  d \in twice \/ (d \in Notes /\ rebuild[d] = "read")
<1>1. /\ doc \in [Docs -> TaxStatus] /\ office[Current(d)] = "accepted"
      /\ \A t \in Senders : load[t] \subseteq Packets
  BY DEF Filing, TaxTypeOK, AcceptedIsFiled
<1>2. ~(\E e \in Docs, sound \in BOOLEAN :
          \/ CreateInvoiceForOrder(e, sound) \/ CreateCreditNote(e, sound)
          \/ RebuildInserts(e, sound))
  BY <1>1 DEF CreateInvoiceForOrder, CreateCreditNote, RebuildInserts, Inserted,
              Filing, RowsHavePackets
<1>3. ASSUME NEW p \in unmarked, MarkInvalid(p) PROVE FALSE
  <2>1. p[1] = d /\ p = Current(d) /\ office[p] = "unknown"
    BY <1>1, <1>3 DEF MarkInvalid, Exists, Filing, PacketsInOrder
  <2> QED
    BY <2>1, <1>1
<1>4. ASSUME NEW e \in Docs, RebuildReads(e) \/ RebuildDeletes(e) \/ RetryNow(e)
      PROVE  d \in Notes /\ rebuild[d] = "read"
  BY <1>1, <1>4 DEF RebuildReads, RebuildDeletes, RetryNow, taxRows
<1>5. ASSUME NEW s \in Senders, SenderStep(s) PROVE d \in twice
  <2>1. ~(\E stuck \in SUBSET Docs : RetryStuck(s, stuck))
    BY <1>1 DEF RetryStuck
  <2>2. ~(\E B \in SUBSET Docs : ClaimDueBatch(s, B))
    BY <1>1 DEF ClaimDueBatch, Claimable
  <2>3. PICK p \in load[s] :
          \/ MarkSent(s, p) \/ MarkRejected(s, p) \/ MarkFailedTax(s, p)
          \/ InquireRecords(s, p)
    BY <1>5, <2>1, <2>2
    DEF SenderStep, Records, Answered, SendAnswered, SendLost, SenderDies, InquireReads,
        MarkFailedThrows, taxRows
  <2>4. p[1] = d /\ p = Current(d) /\ Exists(p)
    BY <1>1, <2>3 DEF MarkSent, MarkRejected, MarkFailedTax, InquireRecords, Exists
  <2>5. CASE InquireRecords(s, p)
    BY <1>1, <2>4, <2>5 DEF InquireRecords
  <2>6. CASE MarkSent(s, p) \/ MarkRejected(s, p) \/ MarkFailedTax(s, p)
    BY <1>1, <2>4, <2>6 DEF Filing, RowsOfSenders, MarkSent, MarkRejected, MarkFailedTax
  <2> QED
    BY <2>3, <2>5, <2>6
<1>6. ~(\E p \in Packets, v \in {"accepted", "rejected"} : OfficeDecides(p, v))
  BY DEF OfficeDecides, taxRows
<1> QED
  BY <1>2, <1>3, <1>4, <1>5, <1>6 DEF TaxNext

\* An accepted document stays accepted, but for the late answers about rows that were
\* freed, retried or rebuilt while a sender had them.
THEOREM AcceptedIsNotUndone == TaxSpec => AcceptedStays
<1>1. Filing /\ [TaxNext]_taxVars =>
        [\A d \in Docs : doc[d] = "accepted" /\ doc'[d] # "accepted"
           => d \in twice \/ (d \in Notes /\ rebuild[d] = "read")]_taxVars
  BY AcceptedIsKept
<1> QED
  BY <1>1, FilingHolds, PTL DEF TaxSpec, AcceptedStays

=============================================================================
