------------------------------ MODULE TaxQueue ------------------------------
(* The queue of tax documents (packages/tax/src/queue.ts, submission.ts,      *)
(* credit.ts): an invoice for every paid order, a credit note for a return.   *)
(* The tax worker and the panel's button each free the rows that seem stuck,  *)
(* claim a batch, send it to the tax office in one call, record the answers  *)
(* row by row, and ask about what was sent.  None of this is one transaction: *)
(* another sender, the admin or a death may come between any two statements.  *)
EXTENDS Naturals, FiniteSets

CONSTANTS Sales,           \* orders that get an invoice
          Notes,           \* returns that get a credit note
          Original,        \* the order of a return
          Senders,         \* runs of the worker and of the panel that may overlap
          TaxBatch,        \* limit of claimDueBatch
          MaxEditions,     \* bound: packets built for one document
          MaxRetries,      \* bound: retries the admin asks for one document
          MaxSenderDeaths  \* bound: senders that die half-way

Docs == Sales \cup Notes

ASSUME TaxAssumption ==
  /\ Sales \cap Notes = {} /\ Original \in [Notes -> Sales]
  /\ TaxBatch \in Nat \ {0} /\ MaxEditions \in Nat \ {0}
  /\ MaxRetries \in Nat /\ MaxSenderDeaths \in Nat

TaxStatus == {"none", "queued", "sending", "sent", "accepted", "rejected", "failed"}

VARIABLES doc,       \* status of the row of every document
          edition,   \* the packet in the row: a rebuilt note is a new one
          unsound,   \* packets that fail validateInvoice: empty shells
          hasUid,    \* rows with a uid
          unmarked,  \* rows inserted and not yet marked as invalid
          rebuild,   \* of a note: no, read, deleted; where its rebuild is
          retries,   \* retries asked for
          step,      \* of a sender: idle, freed, claimed, answered, recorded, asked
          load,      \* of a sender: rows <<document, packet>> it works on
          answer,    \* of a sender: what the office said to each of them
          deaths,
          office,    \* packets the tax office has, with its verdict
          twice      \* documents freed, rebuilt or retried while a sender held them

taxRows   == <<doc, edition, unsound, hasUid>>
adminVars == <<unmarked, rebuild, retries>>
senderVars == <<step, load, answer, deaths>>
taxVars   == <<taxRows, adminVars, senderVars, office, twice>>

Packets == Docs \X (1 .. MaxEditions)
NoAnswer == [p \in {} |-> "uid"]
Current(d) == <<d, edition[d]>>
Exists(p) == doc[p[1]] # "none" /\ p = Current(p[1])
Held(d) == \E s \in Senders : Current(d) \in load[s]

TaxInit ==
  /\ doc = [d \in Docs |-> "none"] /\ edition = [d \in Docs |-> 0]
  /\ unsound = {} /\ hasUid = {}
  /\ unmarked = {} /\ rebuild = [d \in Notes |-> "no"] /\ retries = [d \in Docs |-> 0]
  /\ step = [s \in Senders |-> "idle"] /\ load = [s \in Senders |-> {}]
  /\ answer = [s \in Senders |-> NoAnswer] /\ deaths = 0
  /\ office = [p \in Packets |-> "unknown"] /\ twice = {}

-----------------------------------------------------------------------------
(* Documents are made.                                                        *)

\* A fresh row with a packet of its own: new uid, new created_at.
Inserted(d, sound, status) ==
  /\ edition[d] < MaxEditions
  /\ doc' = [doc EXCEPT ![d] = status]
  /\ edition' = [edition EXCEPT ![d] = @ + 1]
  /\ unsound' = IF sound THEN unsound ELSE unsound \cup {<<d, edition[d] + 1>>}
  /\ hasUid' = hasUid \ {d}

\* createInvoiceForOrder: the row is queued first, whatever its packet; a second
\* call for the order finds the row and changes nothing.
CreateInvoiceForOrder(d, sound) ==
  /\ d \in Sales /\ doc[d] = "none"
  /\ Inserted(d, sound, "queued")
  /\ unmarked' = IF sound THEN unmarked ELSE unmarked \cup {<<d, edition'[d]>>}
  /\ UNCHANGED <<rebuild, retries, senderVars, office, twice>>

\* ... and a statement of its own marks a packet that fails the local checks.
MarkInvalid(p) ==
  /\ p \in unmarked
  /\ unmarked' = unmarked \ {p}
  /\ doc' = IF Exists(p) THEN [doc EXCEPT ![p[1]] = "rejected"] ELSE doc
  /\ UNCHANGED <<edition, unsound, hasUid, rebuild, retries, senderVars, office, twice>>

\* createCreditNoteForReturn, inside the transaction of receiveReturn: no note
\* without the invoice, and one note for a return.
CreateCreditNote(d, sound) ==
  /\ d \in Notes /\ doc[d] = "none" /\ edition[d] = 0
  /\ doc[Original[d]] # "none"
  /\ Inserted(d, sound, IF sound THEN "queued" ELSE "rejected")
  /\ UNCHANGED <<adminVars, senderVars, office, twice>>

-----------------------------------------------------------------------------
(* The panel's retry.                                                         *)

\* rebuildUnsentCreditNote reads the uid, and not the status ...
RebuildReads(d) ==
  /\ d \in Notes /\ doc[d] # "none" /\ d \notin hasUid
  /\ rebuild[d] = "no" /\ retries[d] < MaxRetries
  /\ rebuild' = [rebuild EXCEPT ![d] = "read"]
  /\ retries' = [retries EXCEPT ![d] = @ + 1]
  /\ UNCHANGED <<taxRows, unmarked, senderVars, office, twice>>

\* ... deletes the row, whatever has become of it ...
RebuildDeletes(d) ==
  /\ d \in Notes /\ rebuild[d] = "read"
  /\ doc' = [doc EXCEPT ![d] = "none"]
  /\ rebuild' = [rebuild EXCEPT ![d] = "deleted"]
  /\ twice' = IF Held(d) THEN twice \cup {d} ELSE twice
  /\ UNCHANGED <<edition, unsound, hasUid, unmarked, retries, senderVars, office>>

\* ... and inserts a new packet, marked afterwards when it is bad.  The three are
\* not one transaction.
RebuildInserts(d, sound) ==
  /\ d \in Notes /\ rebuild[d] = "deleted"
  /\ Inserted(d, sound, "queued")
  /\ unmarked' = IF sound THEN unmarked ELSE unmarked \cup {<<d, edition'[d]>>}
  /\ rebuild' = [rebuild EXCEPT ![d] = "no"]
  /\ UNCHANGED <<retries, senderVars, office, twice>>

\* Faulty variant: the retry does not look at the status.
RetryNowAny(d) ==
  /\ doc[d] # "none" /\ retries[d] < MaxRetries
  /\ doc' = [doc EXCEPT ![d] = "queued"]
  /\ retries' = [retries EXCEPT ![d] = @ + 1]
  /\ twice' = IF Held(d) THEN twice \cup {d} ELSE twice
  /\ UNCHANGED <<edition, unsound, hasUid, unmarked, rebuild, senderVars, office>>

\* retryNow: the row, as it is, goes back to the queue.
RetryNow(d) ==
  /\ doc[d] \in {"failed", "rejected"} /\ (d \in Sales \/ d \in hasUid)
  /\ retries[d] < MaxRetries
  /\ doc' = [doc EXCEPT ![d] = "queued"]
  /\ retries' = [retries EXCEPT ![d] = @ + 1]
  /\ twice' = IF Held(d) THEN twice \cup {d} ELSE twice
  /\ UNCHANGED <<edition, unsound, hasUid, unmarked, rebuild, senderVars, office>>

-----------------------------------------------------------------------------
(* One run of a sender.                                                       *)

\* retryStuck: the age it asks for is that of the row's creation, or of its last
\* sending, and not that of its claim: any row in "sending" may be old enough.
RetryStuck(s, stuck) ==
  /\ step[s] = "idle" /\ stuck \subseteq {d \in Docs : doc[d] = "sending"}
  /\ step' = [step EXCEPT ![s] = "freed"]
  /\ doc' = [d \in Docs |-> IF d \in stuck THEN "queued" ELSE doc[d]]
  /\ twice' = twice \cup {d \in stuck : Held(d)}
  /\ UNCHANGED <<edition, unsound, hasUid, adminVars, load, answer, deaths, office>>

\* Rows a claim may pick, "failed" ones when their backoff has ended.
Claimable == {d \in Docs : doc[d] \in {"queued", "failed"}}

\* claimDueBatch, one transaction; rows another claim has locked are skipped.
ClaimDueBatch(s, B) ==
  /\ step[s] = "freed"
  /\ B \subseteq Claimable /\ Cardinality(B) <= TaxBatch
  /\ B = {} => \A d \in Claimable : doc[d] # "queued"
  /\ doc' = [d \in Docs |-> IF d \in B THEN "sending" ELSE doc[d]]
  /\ load' = [load EXCEPT ![s] = {Current(d) : d \in B}]
  /\ step' = [step EXCEPT ![s] = IF B = {} THEN "recorded" ELSE "claimed"]
  /\ UNCHANGED <<edition, unsound, hasUid, adminVars, answer, deaths,
                 office, twice>>

\* The tax office takes no second copy of a packet, and no empty shell.
Takes(p) == office[p] = "unknown" /\ p \notin unsound

\* client.send, answered: the office takes a packet and gives a uid, or returns
\* an error for it.
SendAnswered(s, ans) ==
  /\ step[s] = "claimed" /\ ans \in [load[s] -> {"uid", "error"}]
  /\ \A p \in load[s] : ans[p] = "uid" => Takes(p)
  /\ answer' = [answer EXCEPT ![s] = ans]
  /\ office' = [p \in Packets |->
       IF p \in load[s] /\ ans[p] = "uid" THEN "pending" ELSE office[p]]
  /\ step' = [step EXCEPT ![s] = "answered"]
  /\ UNCHANGED <<taxRows, adminVars, load, deaths, twice>>

\* client.send throws: the network failed before the office had the packets, or
\* after it.
SendLost(s, reached) ==
  /\ step[s] = "claimed" /\ reached \subseteq load[s]
  /\ answer' = [answer EXCEPT ![s] = [p \in load[s] |-> "network"]]
  /\ office' = [p \in Packets |->
       IF p \in reached /\ Takes(p) THEN "pending" ELSE office[p]]
  /\ step' = [step EXCEPT ![s] = "answered"]
  /\ UNCHANGED <<taxRows, adminVars, load, deaths, twice>>

\* The row is done; with the last one the sender goes on to the inquiry.
Done(s, p) ==
  /\ load' = [load EXCEPT ![s] = @ \ {p}]
  /\ answer' = [answer EXCEPT ![s] = [q \in DOMAIN @ \ {p} |-> @[q]]]
  /\ step' = [step EXCEPT ![s] = IF load[s] = {p} THEN "recorded" ELSE "answered"]

\* markSent.
MarkSent(s, p) ==
  /\ step[s] = "answered" /\ p \in load[s] /\ answer[s][p] = "uid"
  /\ doc' = IF Exists(p) THEN [doc EXCEPT ![p[1]] = "sent"] ELSE doc
  /\ hasUid' = IF Exists(p) THEN hasUid \cup {p[1]} ELSE hasUid
  /\ Done(s, p)
  /\ UNCHANGED <<edition, unsound, adminVars, deaths, office, twice>>

\* markRejected, for a packet the office returned.
MarkRejected(s, p) ==
  /\ step[s] = "answered" /\ p \in load[s] /\ answer[s][p] = "error"
  /\ doc' = IF Exists(p) THEN [doc EXCEPT ![p[1]] = "rejected"] ELSE doc
  /\ Done(s, p)
  /\ UNCHANGED <<edition, unsound, hasUid, adminVars, deaths, office, twice>>

\* markFailed, for a call that failed: the row waits for its backoff.
MarkFailedTax(s, p) ==
  /\ step[s] = "answered" /\ p \in load[s] /\ answer[s][p] = "network"
  /\ Exists(p)
  /\ doc' = [doc EXCEPT ![p[1]] = "failed"]
  /\ Done(s, p)
  /\ UNCHANGED <<edition, unsound, hasUid, adminVars, deaths, office, twice>>

EndsRun(s) ==
  /\ step' = [step EXCEPT ![s] = "idle"] /\ load' = [load EXCEPT ![s] = {}]
  /\ answer' = [answer EXCEPT ![s] = NoAnswer]

\* ... and it throws when the row is gone, which ends the run half-way.
MarkFailedThrows(s, p) ==
  /\ step[s] = "answered" /\ p \in load[s] /\ answer[s][p] = "network"
  /\ ~Exists(p)
  /\ EndsRun(s)
  /\ UNCHANGED <<taxRows, adminVars, deaths, office, twice>>

\* inquirePending reads the rows that were sent; without any the run is over ...
InquireReads(s) ==
  LET sent == {Current(d) : d \in {e \in Docs : doc[e] = "sent"}} IN
  /\ step[s] = "recorded"
  /\ step' = [step EXCEPT ![s] = IF sent = {} THEN "idle" ELSE "asked"]
  /\ load' = [load EXCEPT ![s] = sent]
  /\ UNCHANGED <<taxRows, adminVars, answer, deaths, office, twice>>

\* The row has its verdict, and with the last one the run ends.
Heard(s, p) ==
  /\ step[s] = "asked" /\ p \in load[s]
  /\ load' = [load EXCEPT ![s] = @ \ {p}]
  /\ step' = [step EXCEPT ![s] = IF load[s] = {p} THEN "idle" ELSE "asked"]
  /\ UNCHANGED <<edition, unsound, hasUid, adminVars, answer, deaths, office, twice>>

\* Faulty variant: any answer to the inquiry counts as an acceptance.
InquireRecordsAll(s, p) ==
  /\ Heard(s, p)
  /\ doc' = IF Exists(p) THEN [doc EXCEPT ![p[1]] = "accepted"] ELSE doc

\* ... and writes the verdict of the office, if there is one, on each of them.
InquireRecords(s, p) ==
  /\ Heard(s, p)
  /\ doc' = IF Exists(p) /\ office[p] \in {"accepted", "rejected"}
              THEN [doc EXCEPT ![p[1]] = office[p]] ELSE doc

\* The process dies, or a call throws outside a try.
SenderDies(s) ==
  /\ step[s] # "idle" /\ deaths < MaxSenderDeaths
  /\ EndsRun(s)
  /\ deaths' = deaths + 1
  /\ UNCHANGED <<taxRows, adminVars, office, twice>>

\* The office decides on a packet it has.
OfficeDecides(p, verdict) ==
  /\ office[p] = "pending"
  /\ office' = [office EXCEPT ![p] = verdict]
  /\ UNCHANGED <<taxRows, adminVars, senderVars, twice>>

-----------------------------------------------------------------------------
Answered(s) == \E ans \in [load[s] -> {"uid", "error"}] : SendAnswered(s, ans)

Records(s) ==
  \/ \E p \in load[s] :
       \/ MarkSent(s, p) \/ MarkRejected(s, p) \/ MarkFailedTax(s, p)
       \/ MarkFailedThrows(s, p) \/ InquireRecords(s, p)
  \/ InquireReads(s)

SenderStep(s) ==
  \/ \E stuck \in SUBSET Docs : RetryStuck(s, stuck)
  \/ \E B \in SUBSET Docs : ClaimDueBatch(s, B)
  \/ Answered(s) \/ \E reached \in SUBSET load[s] : SendLost(s, reached)
  \/ Records(s) \/ SenderDies(s)

TaxNext ==
  \/ \E d \in Docs, sound \in BOOLEAN :
       CreateInvoiceForOrder(d, sound) \/ CreateCreditNote(d, sound) \/ RebuildInserts(d, sound)
  \/ \E p \in unmarked : MarkInvalid(p)
  \/ \E d \in Docs : RebuildReads(d) \/ RebuildDeletes(d) \/ RetryNow(d)
  \/ \E s \in Senders : SenderStep(s)
  \/ \E p \in Packets, v \in {"accepted", "rejected"} : OfficeDecides(p, v)

TaxSpec == TaxInit /\ [][TaxNext]_taxVars

\* The timer keeps starting runs, a run that has begun goes on until it ends or
\* dies, the network does not fail for ever, time passes, and the office decides.
TaxFairness ==
  /\ \A s \in Senders :
       /\ WF_taxVars(\E stuck \in SUBSET Docs : RetryStuck(s, stuck))
       /\ WF_taxVars(\E B \in SUBSET Docs : ClaimDueBatch(s, B))
       /\ WF_taxVars(Records(s))
       /\ WF_taxVars(Answered(s) \/ \E reached \in SUBSET load[s] : SendLost(s, reached))
       /\ \A d \in Docs :
            /\ SF_taxVars(\E stuck \in SUBSET Docs : d \in stuck /\ RetryStuck(s, stuck))
            /\ SF_taxVars(\E B \in SUBSET Docs : d \in B /\ ClaimDueBatch(s, B))
            /\ SF_taxVars(Current(d) \in load[s] /\ Answered(s))
  /\ \A p \in Packets :
       WF_taxVars(\E v \in {"accepted", "rejected"} : OfficeDecides(p, v))

TaxFairSpec == TaxSpec /\ TaxFairness

-----------------------------------------------------------------------------
(* Properties.                                                                *)

TaxTypeOK ==
  /\ doc \in [Docs -> TaxStatus]
  /\ edition \in [Docs -> 0 .. MaxEditions]
  /\ unsound \subseteq Packets /\ hasUid \subseteq Docs
  /\ unmarked \subseteq Packets /\ rebuild \in [Notes -> {"no", "read", "deleted"}]
  /\ retries \in [Docs -> 0 .. MaxRetries]
  /\ step \in [Senders -> {"idle", "freed", "claimed", "answered", "recorded", "asked"}]
  /\ load \in [Senders -> SUBSET Packets]
  /\ \A s \in Senders : answer[s] \in [DOMAIN answer[s] -> {"uid", "error", "network"}]
  /\ deaths \in 0 .. MaxSenderDeaths
  /\ office \in [Packets -> {"unknown", "pending", "accepted", "rejected"}]
  /\ twice \subseteq Docs

\* What the books call accepted has been accepted by the office, under the
\* number that is in the books.
AcceptedIsFiled ==
  \A d \in Docs : doc[d] = "accepted" => office[Current(d)] = "accepted"

\* Two senders work on one packet only when the row was freed, retried or
\* rebuilt under the first of them.
OneSender ==
  \A s, t \in Senders : \A p \in load[s] \cap load[t] :
    step[s] \in {"claimed", "answered"} /\ step[t] \in {"claimed", "answered"}
      => s = t \/ p[1] \in twice

\* An accepted document stays accepted.  A late answer undoes that only when the
\* row was freed, retried or rebuilt while a sender had it; a rebuild does only
\* when it looked for the uid before there was one.
AcceptedStays ==
  [][\A d \in Docs : doc[d] = "accepted" /\ doc'[d] # "accepted"
       => d \in twice \/ (d \in Notes /\ rebuild[d] = "read")]_taxVars

\* Every invoice gets its verdict in the end, although calls fail, answers are
\* lost and senders die.
InvoicesConclude ==
  \A d \in Sales : doc[d] = "queued" ~> doc[d] \in {"accepted", "rejected"}

\* "Two workers never send an invoice twice" (the comments of claimDueBatch and
\* of the module): no two senders hold one packet.
NeverTwoSenders ==
  \A s, t \in Senders :
    step[s] \in {"claimed", "answered"} /\ step[t] \in {"claimed", "answered"}
      => s = t \/ load[s] \cap load[t] = {}

\* A packet that fails the local checks "is never sent by accident" (the comment
\* of createInvoiceForOrder).
InvalidIsNotSent ==
  \A s \in Senders : step[s] = "claimed" => load[s] \cap unsound = {}

\* Only a note that never reached the office is rebuilt (the comment of
\* rebuildUnsentCreditNote): one return is not filed under two numbers.
NoteFiledOnce ==
  \A d \in Notes : Cardinality({e \in 1 .. MaxEditions : office[<<d, e>>] # "unknown"}) <= 1

=============================================================================
