------------------------------- MODULE Outbox -------------------------------
(* The outbox of packages/db/src/outbox.ts: events are inserted in the        *)
(* transaction of the change they tell of, and a timer starts a batch every   *)
(* few seconds, whether the batch before has ended or not, in every process   *)
(* of the API.  The row locks of the SELECT end with it, so several batches   *)
(* may hold the same event; each remembers the attempts it read.              *)
EXTENDS Integers, FiniteSets

CONSTANTS Events,       \* rows of outbox_events, numbered by created_at
          Batches,      \* concurrent calls of processOutboxBatch
          BatchSize,    \* opts.batchSize
          MaxAttempts,  \* opts.maxAttempts
          AttemptsCap   \* where counting attempts stops, for finite checking

ASSUME OutboxAssumption ==
  /\ Events \subseteq Nat
  /\ BatchSize \in Nat \ {0}
  /\ MaxAttempts \in Nat \ {0}
  /\ AttemptsCap \in Nat /\ MaxAttempts <= AttemptsCap

VARIABLES stored,     \* events whose row is committed
          due,        \* available_at <= now()
          sentAt,     \* sent_at is set
          attempts,   \* the column attempts
          dead,       \* payload.dead is set
          delivered,  \* events the handler has ended well for, at least once
          batch,      \* events a batch selected and has not handled
          seen,       \* attempts of those events, as the batch read them
          at          \* where a batch is with the first of its events

rowVars == <<stored, due, sentAt, attempts, dead>>
runVars == <<batch, seen, at>>
vars    == <<rowVars, delivered, runVars>>

Init ==
  /\ stored = {} /\ due = {} /\ sentAt = {} /\ dead = {} /\ delivered = {}
  /\ attempts = [e \in Events |-> 0]
  /\ batch = [b \in Batches |-> {}]
  /\ seen = [b \in Batches |-> [e \in Events |-> 0]]
  /\ at = [b \in Batches |-> "next"]

-----------------------------------------------------------------------------
\* publishEvent, when the transaction it is part of commits.
PublishEvent(e) ==
  /\ e \notin stored
  /\ stored' = stored \cup {e}
  /\ due'    = due \cup {e}
  /\ UNCHANGED <<sentAt, attempts, dead, delivered, runVars>>

\* now() reaches available_at.
BackoffEnds(e) ==
  /\ e \in stored \ due
  /\ due' = due \cup {e}
  /\ UNCHANGED <<stored, sentAt, attempts, dead, delivered, runVars>>

-----------------------------------------------------------------------------
(* processOutboxBatch.                                                        *)

\* WHERE sent_at IS NULL AND available_at <= now().
Waiting == due \ sentAt

\* Faulty variant: the limit counts the events that are sent or not due.
OldestOfAll(S) == {e \in S : Cardinality({f \in stored : f < e}) < BatchSize}

\* ORDER BY created_at LIMIT batchSize.
Oldest(S) == {e \in S : Cardinality({f \in S : f < e}) < BatchSize}

\* FOR UPDATE SKIP LOCKED: rows that another statement has locked are left out.
Selects(b, skipped) ==
  /\ batch[b] = {}
  /\ Waiting \ skipped # {}
  /\ batch' = [batch EXCEPT ![b] = Oldest(Waiting \ skipped)]
  /\ seen'  = [seen EXCEPT ![b] =
       [e \in Events |-> IF e \in batch'[b] THEN attempts[e] ELSE 0]]
  /\ UNCHANGED <<rowVars, delivered, at>>

\* The event the loop is at.
First(b, e) == e \in batch[b] /\ \A f \in batch[b] : e <= f

HandlerSucceeds(b, e) ==
  /\ First(b, e)
  /\ at[b] = "next"
  /\ delivered' = delivered \cup {e}
  /\ at' = [at EXCEPT ![b] = "handled"]
  /\ UNCHANGED <<rowVars, batch, seen>>

\* Faulty variant: the error of the handler is swallowed.
HandlerFailsSilently(b, e) ==
  /\ First(b, e)
  /\ at[b] = "next"
  /\ at' = [at EXCEPT ![b] = "handled"]
  /\ UNCHANGED <<rowVars, delivered, batch, seen>>

HandlerFails(b, e) ==
  /\ First(b, e)
  /\ at[b] = "next"
  /\ at' = [at EXCEPT ![b] = "failed"]
  /\ UNCHANGED <<rowVars, delivered, batch, seen>>

GoesOn(b, e) ==
  /\ batch' = [batch EXCEPT ![b] = @ \ {e}]
  /\ at' = [at EXCEPT ![b] = "next"]
  /\ seen' = [seen EXCEPT ![b][e] = 0]

Counted(n) == IF n < AttemptsCap THEN n + 1 ELSE AttemptsCap

MarksSent(b, e) ==
  /\ First(b, e)
  /\ at[b] = "handled"
  /\ sentAt'   = sentAt \cup {e}
  /\ attempts' = [attempts EXCEPT ![e] = Counted(@)]
  /\ GoesOn(b, e)
  /\ UNCHANGED <<stored, due, dead, delivered>>

\* This UPDATE is inside the try too: when it fails, so did the event.
MarkingFails(b) ==
  /\ at[b] = "handled"
  /\ at' = [at EXCEPT ![b] = "failed"]
  /\ UNCHANGED <<rowVars, delivered, batch, seen>>

\* attempts comes from what the batch read, and the event waits again.
RecordsFailure(b, e) ==
  /\ First(b, e)
  /\ at[b] = "failed"
  /\ attempts' = [attempts EXCEPT ![e] = Counted(seen[b][e])]
  /\ due' = due \ {e}
  /\ IF Counted(seen[b][e]) >= MaxAttempts
       THEN at' = [at EXCEPT ![b] = "burying"] /\ UNCHANGED <<batch, seen>>
       ELSE GoesOn(b, e)
  /\ UNCHANGED <<stored, sentAt, dead, delivered>>

\* The flag "dead" is one more statement, and nothing looks at it.
Buries(b, e) ==
  /\ First(b, e)
  /\ at[b] = "burying"
  /\ dead' = dead \cup {e}
  /\ GoesOn(b, e)
  /\ UNCHANGED <<stored, due, sentAt, attempts, delivered>>

\* The process dies, or the UPDATE of the catch block throws.
BatchDies(b) ==
  /\ batch[b] # {}
  /\ batch' = [batch EXCEPT ![b] = {}]
  /\ at' = [at EXCEPT ![b] = "next"]
  /\ seen' = [seen EXCEPT ![b] = [e \in Events |-> 0]]
  /\ UNCHANGED <<rowVars, delivered>>

-----------------------------------------------------------------------------
Next ==
  \/ \E e \in Events : PublishEvent(e) \/ BackoffEnds(e)
  \/ \E b \in Batches :
       \/ \E skipped \in SUBSET Waiting : Selects(b, skipped)
       \/ \E e \in Events :
            \/ HandlerSucceeds(b, e) \/ HandlerFails(b, e) \/ MarksSent(b, e)
            \/ RecordsFailure(b, e) \/ Buries(b, e)
       \/ MarkingFails(b) \/ BatchDies(b)

Spec == Init /\ [][Next]_vars

\* The timer keeps starting batches, no row is skipped for ever, and neither the
\* handler nor the statement that marks an event fails for ever.
OutboxFairness ==
  \A e \in Events :
    /\ WF_vars(BackoffEnds(e))
    /\ SF_vars(\E b \in Batches, skipped \in SUBSET Waiting :
                 e \in Oldest(Waiting \ skipped) /\ Selects(b, skipped))
    /\ SF_vars(\E b \in Batches : HandlerSucceeds(b, e))
    /\ SF_vars(\E b \in Batches : MarksSent(b, e))
    /\ WF_vars(\E b \in Batches : RecordsFailure(b, e) \/ Buries(b, e))

FairSpec == Spec /\ OutboxFairness

-----------------------------------------------------------------------------
(* Properties.                                                                *)

TypeOK ==
  /\ stored \subseteq Events
  /\ due \subseteq stored
  /\ sentAt \subseteq stored
  /\ dead \subseteq stored
  /\ delivered \subseteq stored
  /\ attempts \in [Events -> 0 .. AttemptsCap]
  /\ batch \in [Batches -> SUBSET stored]
  /\ seen \in [Batches -> [Events -> 0 .. AttemptsCap]]
  /\ at \in [Batches -> {"next", "handled", "failed", "burying"}]

\* At least once: an event is marked as sent only after a handler ended well for
\* it, whatever batches overlap or die.
SentWasDelivered == sentAt \subseteq delivered

\* Every event is sent in the end, although handlers fail and batches die.
EveryEventIsSent == \A e \in Events : e \in stored ~> e \in sentAt

\* After maxAttempts an event rests in the dead queue until someone looks at it
\* (the comment of processOutboxBatch): no batch takes it again.
DeadEventsRest ==
  [][\A b \in Batches, e \in Events :
       e \in dead /\ e \notin batch[b] => e \notin batch'[b]]_vars

=============================================================================
