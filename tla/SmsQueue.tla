------------------------------ MODULE SmsQueue ------------------------------
(* The queue of text messages (packages/commerce/src/sms.ts, sms-send.ts,     *)
(* sms-diagnose.ts, housekeeping.ts).  Handlers insert rows in sms_outbox;    *)
(* rounds of sendDue, started by the post-sale worker's timer and by the      *)
(* button of the panel, release what dead rounds left, claim a batch, and     *)
(* call the provider for one row after the other.  A claim is a lease: it     *)
(* moves available_at ahead, and when that moment comes before the round has  *)
(* written its result, the row is free for another round.                     *)
EXTENDS Naturals, FiniteSets

CONSTANTS Texts,          \* rows of sms_outbox
          Rounds,         \* calls of sendDue that may overlap
          SmsBatch,       \* deps.limit
          SmsMaxAttempts, \* cfg.maxAttempts
          MaxRequeues,    \* bound: requeues of one row
          MaxSmsDeaths    \* bound: rounds that die half-way

ASSUME SmsAssumption ==
  /\ SmsBatch \in Nat \ {0}
  /\ SmsMaxAttempts \in Nat \ {0}
  /\ MaxRequeues \in Nat /\ MaxSmsDeaths \in Nat

NotHeld == 0

SmsStatus == {"absent", "pending", "sending", "sent", "failed", "dead", "purged"}

\* What becomes of one attempt: the text cannot be prepared for the provider, or
\* the provider takes it, is down (or is thought to be: "lost" is an answer that
\* did not come back for a text that was taken), or refuses it for good.
Outcomes == {"unprepared", "taken", "lost", "down", "refused"}

VARIABLES sms,         \* status of every row
          smsAttempts, \* column attempts
          ripe,        \* rows with available_at <= now()
          smsOn,       \* the setting sms_enabled
          stage,       \* of a round: "idle", "released", "sending"
          hand,        \* attempts of each row a round holds, as RETURNING gave them
          call,        \* <<row, outcome>> of the attempt a round has not recorded
          taken,       \* number of times the provider took a text
          tries,       \* number of times the provider was called for it
          requeued,    \* number of times an admin put it back
          overrun,     \* texts whose lease ever ran out under a round
          smsDeaths

textVars  == <<sms, smsAttempts, ripe>>
roundVars == <<stage, hand, call>>
countVars == <<taken, tries, requeued, overrun, smsDeaths>>
smsVars   == <<textVars, smsOn, roundVars, countVars>>

NoCall == <<>>
Holds(r, m) == hand[r][m] # NotHeld
Empty == [m \in Texts |-> NotHeld]

SmsInit ==
  /\ sms = [m \in Texts |-> "absent"] /\ smsAttempts = [m \in Texts |-> 0] /\ ripe = {}
  /\ smsOn \in BOOLEAN
  /\ stage = [r \in Rounds |-> "idle"] /\ call = [r \in Rounds |-> NoCall]
  /\ hand = [r \in Rounds |-> Empty]
  /\ taken = [m \in Texts |-> 0] /\ tries = [m \in Texts |-> 0]
  /\ requeued = [m \in Texts |-> 0] /\ overrun = {} /\ smsDeaths = 0

-----------------------------------------------------------------------------
\* enqueueSms: the row waits whether sending is enabled or not.
EnqueueSms(m) ==
  /\ sms[m] = "absent"
  /\ sms' = [sms EXCEPT ![m] = "pending"] /\ ripe' = ripe \cup {m}
  /\ UNCHANGED <<smsAttempts, smsOn, roundVars, countVars>>

\* The admin switches sms_enabled.
SwitchSms ==
  /\ smsOn' = ~smsOn
  /\ UNCHANGED <<textVars, roundVars, countVars>>

\* now() reaches available_at: a backoff has ended, or a lease.
Ripens(m) ==
  /\ sms[m] \in {"failed", "sending"} /\ m \notin ripe
  /\ ripe' = ripe \cup {m}
  /\ overrun' = IF \E r \in Rounds : Holds(r, m) THEN overrun \cup {m} ELSE overrun
  /\ UNCHANGED <<sms, smsAttempts, smsOn, roundVars, taken, tries, requeued, smsDeaths>>

-----------------------------------------------------------------------------
(* A round of sendDue.  The panel's button ignores sms_enabled, the worker    *)
(* does not.                                                                  *)

\* Faulty variant: nothing is released.
ReleaseStaleSendingNever(r, button) ==
  /\ stage[r] = "idle" /\ (smsOn \/ button)
  /\ stage' = [stage EXCEPT ![r] = "released"]
  /\ UNCHANGED <<textVars, smsOn, hand, call, countVars>>

\* Start of a round and releaseStaleSending: rows of dead rounds become "failed"
\* and keep their attempts.
ReleaseStaleSending(r, button) ==
  /\ stage[r] = "idle" /\ (smsOn \/ button)
  /\ sms' = [m \in Texts |->
       IF sms[m] = "sending" /\ m \in ripe THEN "failed" ELSE sms[m]]
  /\ stage' = [stage EXCEPT ![r] = "released"]
  /\ UNCHANGED <<smsAttempts, ripe, smsOn, hand, call, countVars>>

\* Rows a claim may pick.
Due == {m \in ripe : sms[m] \in {"pending", "failed"} /\ smsAttempts[m] < SmsMaxAttempts}

\* claimDueMessages: one statement picks, marks and leases the rows.  The order
\* of the rows is their creation; any batch stands for it.
ClaimDueMessages(r, B) ==
  /\ stage[r] = "released"
  /\ B \subseteq Due /\ (B = {} => Due = {}) /\ Cardinality(B) <= SmsBatch
  /\ sms' = [m \in Texts |-> IF m \in B THEN "sending" ELSE sms[m]]
  /\ smsAttempts' = [m \in Texts |-> IF m \in B THEN smsAttempts[m] + 1 ELSE smsAttempts[m]]
  /\ ripe' = ripe \ B
  /\ hand' = [hand EXCEPT ![r] =
       [m \in Texts |-> IF m \in B THEN smsAttempts[m] + 1 ELSE NotHeld]]
  /\ stage' = [stage EXCEPT ![r] = IF B = {} THEN "idle" ELSE "sending"]
  /\ UNCHANGED <<smsOn, call, countVars>>

\* varsForTemplate and dispatchOnce for the next row of the batch.
Dispatch(r, m, outcome) ==
  /\ stage[r] = "sending" /\ call[r] = NoCall /\ Holds(r, m)
  /\ call' = [call EXCEPT ![r] = <<m, outcome>>]
  /\ tries' = [tries EXCEPT ![m] = IF outcome = "unprepared" THEN @ ELSE @ + 1]
  /\ taken' = [taken EXCEPT ![m] = IF outcome \in {"taken", "lost"} THEN @ + 1 ELSE @]
  /\ UNCHANGED <<textVars, smsOn, stage, hand, requeued, overrun, smsDeaths>>

\* The row leaves the batch; the round ends with its last row.
RowDone(r, m) ==
  /\ hand' = [hand EXCEPT ![r][m] = NotHeld]
  /\ call' = [call EXCEPT ![r] = NoCall]
  /\ stage' = [stage EXCEPT ![r] =
       IF \E o \in Texts \ {m} : Holds(r, o) THEN "sending" ELSE "idle"]

Row(m, status) == IF sms[m] = "purged" THEN "purged" ELSE status

\* Faulty variant: an answer that never came back counts as a success.
RecordSentBlindly(r, m) ==
  /\ \E o \in {"taken", "lost", "down"} : call[r] = <<m, o>>
  /\ sms' = [sms EXCEPT ![m] = Row(m, "sent")]
  /\ RowDone(r, m)
  /\ UNCHANGED <<smsAttempts, ripe, smsOn, countVars>>

\* The UPDATE to "sent" carries no condition on the status.
RecordSent(r, m) ==
  /\ call[r] = <<m, "taken">>
  /\ sms' = [sms EXCEPT ![m] = Row(m, "sent")]
  /\ RowDone(r, m)
  /\ UNCHANGED <<smsAttempts, ripe, smsOn, countVars>>

\* markFailed: the attempts are those the claim returned; the row waits for its
\* backoff, or is given up.
MarkFailed(r, m) ==
  /\ \E o \in Outcomes \ {"taken"} :
       /\ call[r] = <<m, o>>
       /\ sms' = [sms EXCEPT ![m] = Row(m,
            IF o = "refused" \/ hand[r][m] >= SmsMaxAttempts THEN "dead" ELSE "failed")]
  /\ ripe' = ripe \ {m}
  /\ RowDone(r, m)
  /\ UNCHANGED <<smsAttempts, smsOn, countVars>>

\* The process of a round dies; what it holds stays "sending".
RoundDies(r) ==
  /\ stage[r] # "idle" /\ smsDeaths < MaxSmsDeaths
  /\ stage' = [stage EXCEPT ![r] = "idle"]
  /\ call' = [call EXCEPT ![r] = NoCall]
  /\ hand' = [hand EXCEPT ![r] = Empty]
  /\ smsDeaths' = smsDeaths + 1
  /\ UNCHANGED <<textVars, smsOn, taken, tries, requeued, overrun>>

-----------------------------------------------------------------------------
\* requeueSmsMessages: dead rows, rows whose lease has ended, and with
\* includeWaiting the failed ones too, start again from no attempts.
RequeueSms(m) ==
  /\ sms[m] \in {"dead", "failed"} \/ (sms[m] = "sending" /\ m \in ripe)
  /\ requeued[m] < MaxRequeues
  /\ sms' = [sms EXCEPT ![m] = "pending"]
  /\ smsAttempts' = [smsAttempts EXCEPT ![m] = 0] /\ ripe' = ripe \cup {m}
  /\ requeued' = [requeued EXCEPT ![m] = @ + 1]
  /\ UNCHANGED <<smsOn, roundVars, taken, tries, overrun, smsDeaths>>

\* purgeExpiredData: finished rows that are old enough are deleted.
PurgeSms(m) ==
  /\ sms[m] \in {"sent", "dead"}
  /\ sms' = [sms EXCEPT ![m] = "purged"] /\ ripe' = ripe \ {m}
  /\ UNCHANGED <<smsAttempts, smsOn, roundVars, countVars>>

-----------------------------------------------------------------------------
RoundStep(r) ==
  \/ \E button \in BOOLEAN : ReleaseStaleSending(r, button)
  \/ \E B \in SUBSET Texts : ClaimDueMessages(r, B)
  \/ \E m \in Texts :
       (\E o \in Outcomes : Dispatch(r, m, o)) \/ RecordSent(r, m) \/ MarkFailed(r, m)

SmsNext ==
  \/ SwitchSms
  \/ \E m \in Texts : EnqueueSms(m) \/ Ripens(m) \/ RequeueSms(m) \/ PurgeSms(m)
  \/ \E r \in Rounds : RoundStep(r) \/ RoundDies(r)

SmsSpec == SmsInit /\ [][SmsNext]_smsVars

\* The timer keeps starting rounds, a claim takes the oldest rows first, a round
\* that has begun goes on until it has ended or died, and time passes.
SmsFairness ==
  \A r \in Rounds :
    /\ SF_smsVars(ReleaseStaleSending(r, FALSE))
    /\ WF_smsVars(\E B \in SUBSET Texts : ClaimDueMessages(r, B))
    /\ \A m \in Texts :
         /\ SF_smsVars(\E B \in SUBSET Texts : m \in B /\ ClaimDueMessages(r, B))
         /\ WF_smsVars(\E o \in Outcomes : Dispatch(r, m, o))
         /\ WF_smsVars(RecordSent(r, m) \/ MarkFailed(r, m))
         /\ WF_smsVars(Ripens(m))

SmsFairSpec == SmsSpec /\ SmsFairness

-----------------------------------------------------------------------------
(* Properties.                                                                *)

SmsTypeOK ==
  /\ sms \in [Texts -> SmsStatus]
  /\ smsAttempts \in [Texts -> 0 .. SmsMaxAttempts]
  /\ ripe \subseteq Texts
  /\ smsOn \in BOOLEAN
  /\ stage \in [Rounds -> {"idle", "released", "sending"}]
  /\ hand \in [Rounds -> [Texts -> 0 .. SmsMaxAttempts]]
  /\ \A r \in Rounds : call[r] = NoCall \/ call[r] \in Texts \X Outcomes
  /\ taken \in [Texts -> Nat] /\ tries \in [Texts -> Nat]
  /\ requeued \in [Texts -> 0 .. MaxRequeues]
  /\ overrun \subseteq Texts
  /\ smsDeaths \in 0 .. MaxSmsDeaths

\* SKIP LOCKED and the lease keep a text from being sent by two rounds at once
\* (the comments of claimDueMessages and flushOutbox), unless one of them has
\* outlived its lease.
OneHolder ==
  \A m \in Texts : \A q, r \in Rounds :
    Holds(q, m) /\ Holds(r, m) => q = r \/ m \in overrun

\* The provider is called at most maxAttempts times for a text, whatever rounds
\* overlap, die or are overtaken, and once more that often for each requeue.
CallsAreBounded ==
  \A m \in Texts : tries[m] <= SmsMaxAttempts * (1 + requeued[m])

\* A text that the panel shows as sent was taken by the provider.
SentWasTaken == \A m \in Texts : sms[m] = "sent" => taken[m] > 0

\* However rounds overlap, die or outlive their leases: a lease keeps others out while it
\* runs, the provider is called a bounded number of times, and "sent" is never written
\* of a text that was not taken.
SmsHolds == OneHolder /\ CallsAreBounded /\ SentWasTaken

\* A row is deleted only when its text was taken, or was given up after all its
\* attempts or a refusal; one that may still be sent is never purged.
NothingUnsentIsPurged ==
  [][\A m \in Texts : sms[m] # "purged" /\ sms'[m] = "purged"
       => taken[m] > 0 \/ sms[m] = "dead"]_smsVars

\* A text that was sent goes back to the queue, or is given up, only when some
\* round outlived its lease, so that two rounds wrote the row: the UPDATEs carry
\* no condition on the status.
SentStaysSent ==
  [][\A m \in Texts : sms[m] = "sent" /\ sms'[m] \notin {"sent", "purged"}
       => m \in overrun]_smsVars

\* What releaseStaleSending makes of a row whose last attempt died with its
\* round: "failed", with no attempt left, so that no claim picks it again.
Stranded(m) == sms[m] = "failed" /\ smsAttempts[m] >= SmsMaxAttempts

Settled(m) == sms[m] \in {"sent", "dead", "purged"}

\* While sending stays enabled, every text is sent or given up in the end, with
\* one exception that the comment of claimDueMessages denies (sms-send.ts:
\* 927-931): a text is stranded when its last attempt died with its round or
\* outlived its lease, and waits for the admin from then on.  A text whose
\* rounds live and end in time is never stranded.
TextsSettle ==
  /\ <>[]smsOn => \A m \in Texts : sms[m] # "absent" ~> (Settled(m) \/ Stranded(m))
  /\ [](\A m \in Texts : Stranded(m) => m \in overrun \/ smsDeaths > 0)

\* That comment without the exception: a text whose worker dies half-way gets
\* its turn again by itself, and is not blocked for ever.
NeverStranded == \A m \in Texts : ~Stranded(m)

=============================================================================
