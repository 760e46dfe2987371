----------------------------- MODULE RateLimit ------------------------------
(* The rate limiter (packages/rate-limit/src, apps/api/src/rate-limit.ts).    *)
(* A request reads the clock, then the rules, and only then counts itself in  *)
(* the bucket of its caller, so that requests may count themselves in another *)
(* order than the one they came in.  One bucket of the store in the database, *)
(* shared by all instances of the API, and the buckets of the store in the    *)
(* memory of one of them.                                                     *)
EXTENDS Integers, FiniteSetsExt, SequencesExt

CONSTANTS Hits,         \* requests that are under way at once
          Callers,      \* callers of the store in memory
          MaxRequests,  \* column max_requests
          MaxBuckets,   \* maxBuckets, the room of the store in memory
          MaxWindow,    \* bound: windows of time
          MaxAdmitted   \* bound: requests let through in one window

ASSUME RateLimitAssumption ==
  MaxRequests \in Nat /\ MaxBuckets \in Nat \ {0} /\ MaxWindow \in Nat /\ MaxAdmitted \in Nat

Windows == 0 .. MaxWindow
Idle    == -1

VARIABLES window,    \* the aligned window of the clock
          hit,       \* of every request: the window it read, or Idle
          row,       \* the counter in the database: window and count
          admitted,  \* of every window: requests let through
          late,      \* requests that counted themselves in a bucket of a later window
          released,  \* times the row was taken away
          unanswered,    \* requests let through because the database did not answer
          buckets    \* the buckets in memory, oldest first; their counts are like the row's

limitVars == <<window, hit, row, admitted, late, released, unanswered, buckets>>

RateLimitInit ==
  /\ window = 0 /\ hit = [h \in Hits |-> Idle] /\ row = [window |-> 0, count |-> 0]
  /\ admitted = [w \in Windows |-> 0] /\ late = 0 /\ released = 0 /\ unanswered = 0
  /\ buckets = <<>>

-----------------------------------------------------------------------------
(* The store in the database.                                                 *)

ClockTicks ==
  /\ window < MaxWindow /\ window' = window + 1
  /\ UNCHANGED <<hit, row, admitted, late, released, unanswered, buckets>>

\* check(rule, caller, new Date()) begins: the switch and the rules are awaited.
Arrives(h) ==
  /\ hit[h] = Idle /\ hit' = [hit EXCEPT ![h] = window]
  /\ UNCHANGED <<window, row, admitted, late, released, unanswered, buckets>>

\* Faulty variant: the conflict takes the excluded row as it is.
CountedAfresh(w) == [window |-> w, count |-> 1]

\* The upsert: the row is of the window of the last request that counted itself.
\* Beyond the limit the count does not matter.
Counted(w) ==
  IF row.window = w THEN [row EXCEPT !.count = Min({@ + 1, MaxRequests + 1})]
  ELSE [window |-> w, count |-> 1]

Admits(w, count) ==
  /\ count <= MaxRequests => admitted[w] < MaxAdmitted
  /\ admitted' = [admitted EXCEPT ![w] = IF count <= MaxRequests THEN @ + 1 ELSE @]

Increments(h) ==
  /\ hit[h] # Idle
  /\ row' = Counted(hit[h]) /\ Admits(hit[h], row'.count)
  /\ late' = IF hit[h] < row.window THEN late + 1 ELSE late
  /\ hit' = [hit EXCEPT ![h] = Idle]
  /\ UNCHANGED <<window, released, unanswered, buckets>>

\* No answer of the database: the request counts as the first of its window.
IncrementFails(h) ==
  /\ hit[h] # Idle /\ unanswered < MaxAdmitted
  /\ Admits(hit[h], 1) /\ unanswered' = unanswered + 1
  /\ hit' = [hit EXCEPT ![h] = Idle]
  /\ UNCHANGED <<window, row, late, released, buckets>>

\* release from the panel, and prune of old rows: a row that is not there counts
\* from nothing.
ReleaseRow ==
  /\ row.count > 0 /\ released < MaxAdmitted
  /\ row' = [row EXCEPT !.count = 0] /\ released' = released + 1
  /\ UNCHANGED <<window, hit, admitted, late, unanswered, buckets>>

-----------------------------------------------------------------------------
(* The store in memory.                                                       *)

ThreeQuarters == (3 * MaxBuckets) \div 4

\* The buckets that have not expired, in their order.
Unexpired(b, w) ==
  LET live[n \in 0 .. Len(b)] ==
        IF n = 0 THEN <<>>
        ELSE IF b[n].window >= w THEN Append(live[n - 1], b[n]) ELSE live[n - 1]
  IN live[Len(b)]

\* Expired buckets go, and when there is still no room the oldest go until three
\* quarters are left.
Swept(b, w) ==
  LET live == Unexpired(b, w)
  IN IF Len(live) < MaxBuckets THEN live
     ELSE SubSeq(live, Len(live) - ThreeQuarters + 1, Len(live))

\* set of a Map: a key that is there keeps its place.
Stored(b, x) ==
  IF \E i \in DOMAIN b : b[i].caller = x.caller
    THEN [i \in DOMAIN b |-> IF b[i].caller = x.caller THEN x ELSE b[i]]
    ELSE Append(b, x)

\* incr in memory.  A bucket of another window, an earlier or a later one, starts
\* anew.
CountsInMemory(h, c) ==
  /\ hit[h] # Idle
  /\ buckets' =
       LET held == \E i \in DOMAIN buckets :
                     buckets[i].caller = c /\ buckets[i].window = hit[h]
       IN IF held THEN buckets
          ELSE Stored(IF Len(buckets) >= MaxBuckets THEN Swept(buckets, hit[h]) ELSE buckets,
                      [caller |-> c, window |-> hit[h]])
  /\ hit' = [hit EXCEPT ![h] = Idle]
  /\ UNCHANGED <<window, row, admitted, late, released, unanswered>>

ResetMemory ==
  /\ buckets # <<>> /\ buckets' = <<>>
  /\ UNCHANGED <<window, hit, row, admitted, late, released, unanswered>>

-----------------------------------------------------------------------------
RateLimitNext ==
  \/ ClockTicks \/ ReleaseRow \/ ResetMemory
  \/ \E h \in Hits :
       \/ Arrives(h) \/ Increments(h) \/ IncrementFails(h)
       \/ \E c \in Callers : CountsInMemory(h, c)

RateLimitSpec == RateLimitInit /\ [][RateLimitNext]_limitVars

-----------------------------------------------------------------------------
(* Properties.                                                                *)

\* Types; the store in memory never outgrows its room, whoever calls.
RateLimitTypeOK ==
  /\ Len(buckets) <= MaxBuckets
  /\ window \in Windows /\ hit \in [Hits -> Windows \cup {Idle}]
  /\ row \in [window : Windows, count : Nat] /\ admitted \in [Windows -> Nat]
  /\ late \in Nat /\ released \in Nat /\ unanswered \in Nat
  /\ \A i \in DOMAIN buckets : buckets[i] \in [caller : Callers, window : Windows]

\* However requests overlap, no window lets more of them through than the rule
\* allows, but for the times that a late request took the row back to its window,
\* that the panel released it, and that the database did not answer.
LimitHolds ==
  /\ RateLimitTypeOK
  /\ \A w \in Windows : admitted[w] <= MaxRequests * (1 + late + released) + unanswered

\* "The limit may at worst look doubled" (MemoryCounterStore): no two windows side
\* by side let through more than twice the limit.
LimitAtMostDoubles ==
  released = 0 /\ unanswered = 0 =>
    \A w \in Windows : w + 1 \in Windows => admitted[w] + admitted[w + 1] <= 2 * MaxRequests

=============================================================================
