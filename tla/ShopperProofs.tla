--------------------------- MODULE ShopperProofs ---------------------------
(* Proofs about the shopper: the codes that sign in, the cart that becomes an *)
(* order, and the reviews of what was bought.                                 *)
EXTENDS Shopper, Cart, Reviews, FiniteSetTheorems, TLAPS

-----------------------------------------------------------------------------
(* The codes: bounded by the hour, used once, and one of a purpose alive.    *)

LEMMA SmallerCount ==
  ASSUME NEW S, NEW T, IsFiniteSet(S), T \subseteq S
  PROVE  /\ IsFiniteSet(T) /\ Cardinality(T) \in Nat /\ Cardinality(S) \in Nat
         /\ Cardinality(T) <= Cardinality(S)
BY FS_Subset, FS_CardinalityType

LEMMA OneLess ==
  ASSUME NEW S, NEW x \in S, IsFiniteSet(S)
  PROVE  /\ IsFiniteSet(S \ {x}) /\ Cardinality(S \ {x}) \in Nat /\ Cardinality(S) \in Nat
         /\ Cardinality(S \ {x}) = Cardinality(S) - 1
BY FS_RemoveElement, FS_CardinalityType

\* Devices whose request for a code counted the codes of the hour and goes on.
Asking == {d \in Devices : At(d, "burn") \/ At(d, "insert")}

\* Devices whose code was accepted.
Accepted(d) == At(d, "account") \/ At(d, "open")

\* An accepted code is used up, has opened nothing and belongs to one device.
CodesUsedOnce ==
  /\ \A d \in Devices : Accepted(d)
       => codes[call[d].code].consumed /\ opened[call[d].code] = 0
  /\ \A d, e \in Devices : Accepted(d) /\ Accepted(e) /\ d # e
       => call[d].code # call[e].code
  /\ \A i \in DOMAIN codes : opened[i] > 0 => codes[i].consumed
  /\ OneSessionPerCode

OneLive ==
  \A i, j \in DOMAIN codes :
    codes[i].purpose = codes[j].purpose /\ ~codes[i].consumed /\ ~codes[j].consumed
      => i = j

HourCounted ==
  Cardinality(CodesOfTheHour) + Cardinality(Asking) <=
    HourlyCodes + Cardinality(Devices) - 1

CodesTyped ==
  /\ codes \in Seq(CodeTypes) /\ Len(codes) <= MaxCodes
  /\ opened \in Seq(Nat) /\ Len(opened) = Len(codes)

CallsTyped ==
  /\ call \in [Devices -> CallTypes]
  /\ \A d \in Devices : Accepted(d) => call[d].code \in DOMAIN codes

AccountTyped ==
  /\ account \in {"none", "active", "blocked"} /\ revoking \in BOOLEAN
  /\ sessions \in 0 .. MaxSessions

Entering == CodesTyped /\ CallsTyped /\ AccountTyped /\ AttemptsAreBounded /\
  CodesUsedOnce /\ OneLive /\ HourCounted

LEMMA NewestIsEnterable ==
  ASSUME Entering, NEW p, Enterable(p) # {}
  PROVE  Max(Enterable(p)) \in Enterable(p)
<1> DEFINE S == Enterable(p)
<1>1. S \subseteq 1 .. 5
  BY ShopperAssumption DEF Entering, CodesTyped, Enterable
<1> HIDE DEF S
<1>2. \E x \in S : \A y \in S : x >= y
  <2>1. CASE 5 \in S
    BY <2>1, <1>1
  <2>2. CASE 5 \notin S /\ 4 \in S
    BY <2>2, <1>1
  <2>3. CASE 5 \notin S /\ 4 \notin S /\ 3 \in S
    BY <2>3, <1>1
  <2>4. CASE 5 \notin S /\ 4 \notin S /\ 3 \notin S /\ 2 \in S
    BY <2>4, <1>1
  <2>5. CASE 5 \notin S /\ 4 \notin S /\ 3 \notin S /\ 2 \notin S
    <3>1. S = {1}
      BY <1>1, <2>5 DEF S
    <3> QED
      BY <3>1
  <2> QED
    BY <2>1, <2>2, <2>3, <2>4, <2>5
<1>3. Max(S) = CHOOSE x \in S : \A y \in S : x >= y
  BY DEF Max
<1> QED
  BY <1>2, <1>3 DEF S

\* The codes of the next state, when none is added.
LEMMA CodesRewritten ==
  ASSUME Entering, codes' = [k \in 1 .. Len(codes) |-> codes'[k]],
         \A k \in 1 .. Len(codes) : codes'[k] \in CodeTypes
  PROVE  codes' \in Seq(CodeTypes) /\ Len(codes') = Len(codes) /\
           DOMAIN codes' = DOMAIN codes
<1>1. Len(codes) \in Nat /\ DOMAIN codes = 1 .. Len(codes)
  BY DEF Entering, CodesTyped
<1> QED
  BY <1>1

LEMMA Counts ==
  ASSUME Entering
  PROVE  /\ IsFiniteSet(CodesOfTheHour) /\ Cardinality(CodesOfTheHour) \in Nat
         /\ IsFiniteSet(Asking) /\ Cardinality(Asking) \in Nat
         /\ Cardinality(Devices) \in Nat /\ Cardinality(Asking) <= Cardinality(Devices)
         /\ Cardinality(CodesOfTheHour) + Cardinality(Asking)
              <= HourlyCodes + Cardinality(Devices) - 1
<1>1. IsFiniteSet(1 .. Len(codes)) /\ CodesOfTheHour \subseteq 1 .. Len(codes)
  BY FS_Interval DEF Entering, CodesTyped, CodesOfTheHour
<1> QED
  BY <1>1, SmallerCount, ShopperAssumption DEF Asking, Entering, HourCounted

\* A step that makes no code and begins no request keeps the count of the hour.
LEMMA HourKept ==
  ASSUME Entering, CodesOfTheHour' \subseteq CodesOfTheHour, Asking' \subseteq Asking
  PROVE  HourCounted'
<1>1. /\ Cardinality(CodesOfTheHour') \in Nat /\ Cardinality(Asking') \in Nat
      /\ Cardinality(CodesOfTheHour') <= Cardinality(CodesOfTheHour)
      /\ Cardinality(Asking') <= Cardinality(Asking)
  BY Counts, SmallerCount
<1> QED
  BY <1>1, Counts, ShopperAssumption DEF HourCounted

CallStages == {"rest", "burn", "insert", "code", "account", "open", "password"}

LEMMA CodeRowTypes ==
  ASSUME NEW y \in CodeTypes
  PROVE  /\ y.purpose \in Purposes /\ y.consumed \in BOOLEAN /\ y.attempts \in Nat
         /\ y.age \in Ages
         /\ [y EXCEPT !.consumed = TRUE] \in CodeTypes
         /\ [y EXCEPT !.consumed = TRUE].purpose = y.purpose
         /\ [y EXCEPT !.consumed = TRUE].consumed = TRUE
         /\ [y EXCEPT !.consumed = TRUE].attempts = y.attempts
         /\ [y EXCEPT !.consumed = TRUE].age = y.age
         /\ [y EXCEPT !.attempts = @ + 1] \in CodeTypes
         /\ [y EXCEPT !.attempts = @ + 1].purpose = y.purpose
         /\ [y EXCEPT !.attempts = @ + 1].consumed = y.consumed
         /\ [y EXCEPT !.attempts = @ + 1].attempts = y.attempts + 1
         /\ [y EXCEPT !.attempts = @ + 1].age = y.age
         /\ y.age < Past => [y EXCEPT !.age = @ + 1] \in CodeTypes
<1>1. /\ y.purpose \in Purposes /\ y.consumed \in BOOLEAN /\ y.attempts \in Nat
      /\ y.age \in Ages
  BY DEF CodeTypes
<1>2. y = [purpose |-> y.purpose, consumed |-> y.consumed, attempts |-> y.attempts,
           age |-> y.age]
  BY DEF CodeTypes
<1>3. [y EXCEPT !.consumed = TRUE] = [purpose |-> y.purpose, consumed |-> TRUE,
                                      attempts |-> y.attempts, age |-> y.age]
  <2>1. \A b : [y EXCEPT !.consumed = b] = [purpose |-> y.purpose, consumed |-> b,
                                            attempts |-> y.attempts, age |-> y.age]
    BY <1>2
  <2> QED
    BY <2>1, Zenon
<1>4. [y EXCEPT !.attempts = @ + 1] = [purpose |-> y.purpose, consumed |-> y.consumed,
                                       attempts |-> y.attempts + 1, age |-> y.age]
  BY <1>2
<1>5. [y EXCEPT !.age = @ + 1] = [purpose |-> y.purpose, consumed |-> y.consumed,
                                  attempts |-> y.attempts, age |-> y.age + 1]
  BY <1>2
<1>6. y.attempts + 1 \in Nat /\ TRUE \in BOOLEAN /\ (y.age < Past => y.age + 1 \in Ages)
  BY <1>1 DEF Ages, Past
<1>7. /\ [y EXCEPT !.consumed = TRUE] \in CodeTypes
      /\ [y EXCEPT !.attempts = @ + 1] \in CodeTypes
      /\ y.age < Past => [y EXCEPT !.age = @ + 1] \in CodeTypes
  BY <1>1, <1>3, <1>4, <1>5, <1>6, Zenon DEF CodeTypes
<1> QED
  BY <1>1, <1>3, <1>4, <1>7, Zenon

LEMMA CodeSet ==
  ASSUME Entering, NEW i \in DOMAIN codes, NEW y \in CodeTypes,
           codes' = [codes EXCEPT ![i] = y]
  PROVE  /\ codes' \in Seq(CodeTypes) /\ Len(codes') = Len(codes)
         /\ DOMAIN codes' = DOMAIN codes /\ codes'[i] = y
         /\ \A k \in DOMAIN codes : k # i => codes'[k] = codes[k]
BY DEF Entering, CodesTyped

LEMMA RowsAreTyped ==
  ASSUME Entering
  PROVE  /\ Len(codes) \in Nat /\ DOMAIN codes = 1 .. Len(codes) /\
              DOMAIN opened = DOMAIN codes
         /\ Len(codes) <= MaxCodes /\ codes \in Seq(CodeTypes) /\ opened \in Seq(Nat)
         /\ \A k \in DOMAIN codes : codes[k] \in CodeTypes /\ opened[k] \in Nat
BY DEF Entering, CodesTyped

LEMMA CallSet ==
  ASSUME Entering, NEW d \in Devices, NEW x \in CallTypes, call' = [call EXCEPT ![d] = x]
  PROVE  /\ call' \in [Devices -> CallTypes] /\ call'[d] = x
         /\ \A e \in Devices : e # d => call'[e] = call[e]
BY DEF Entering, CallsTyped

LEMMA CallSteps ==
  ASSUME NEW x \in CallTypes, NEW a \in CallStages
  PROVE  /\ [x EXCEPT !.at = a] \in CallTypes /\ [x EXCEPT !.at = a].at = a
         /\ [x EXCEPT !.at = a].purpose = x.purpose /\ [x EXCEPT !.at = a].code = x.code
         /\ x.purpose \in Purposes /\ x.code \in 0 .. MaxCodes
BY DEF CallTypes, CallStages

LEMMA NewCall ==
  ASSUME NEW a \in CallStages, NEW p \in Purposes, NEW i \in 0 .. MaxCodes
  PROVE  [at |-> a, purpose |-> p, code |-> i, saw |-> "none"] \in CallTypes
BY DEF CallTypes, CallStages

LEMMA RestSet ==
  ASSUME NEW a, NEW p, NEW i
  PROVE  /\ [Rest EXCEPT !.at = a, !.purpose = p]
              = [at |-> a, purpose |-> p, code |-> 0, saw |-> "none"]
         /\ [[Rest EXCEPT !.at = a, !.purpose = p] EXCEPT !.code = i]
              = [at |-> a, purpose |-> p, code |-> i, saw |-> "none"]
<1> DEFINE x == [Rest EXCEPT !.at = a]
           y == [x EXCEPT !.purpose = p]
           z == [y EXCEPT !.code = i]
<1>1. Rest = [at |-> "rest", purpose |-> "login", code |-> 0, saw |-> "none"]
  BY DEF Rest, Wrong
<1> HIDE DEF x, y
<1>2. x = [at |-> a, purpose |-> "login", code |-> 0, saw |-> "none"]
  BY <1>1 DEF x
<1>3. y = [at |-> a, purpose |-> p, code |-> 0, saw |-> "none"]
  BY <1>2 DEF y
<1>4. z = [at |-> a, purpose |-> p, code |-> i, saw |-> "none"]
  BY <1>3
<1>5. [Rest EXCEPT !.at = a, !.purpose = p] = y
  BY DEF x, y
<1> QED
  BY <1>3, <1>4, <1>5, Zenon

\* What becomes of the code that is tried, and of the call that tries it.
LEMMA Tried ==
  ASSUME Entering, NEW d \in Devices, VerifyCode(d)
  PROVE  \/ codes' = codes /\ Ends(d)
         \/ \E i \in DOMAIN codes :
              /\ ~codes[i].consumed
              /\ \/ /\ codes' = [codes EXCEPT ![i] = [codes[i] EXCEPT !.consumed = TRUE]]
                    /\ Ends(d) \/ (Goes(d, "account") /\ call[d].code = i)
                 \/ /\ codes' = [codes EXCEPT ![i] = [codes[i] EXCEPT !.attempts = @ + 1]]
                    /\ codes[i].attempts < MaxAttempts /\ Ends(d)
<1> DEFINE p == call[d].purpose
           m == Max(Enterable(p))
<1>1. CASE Enterable(p) = {}
  BY <1>1 DEF VerifyCode
<1>2. CASE Enterable(p) # {}
  <2>1. m \in DOMAIN codes /\ ~codes[m].consumed
    BY <1>2, NewestIsEnterable DEF Enterable
  <2>2. codes[m].attempts \in Nat
    BY <2>1, RowsAreTyped, CodeRowTypes
  <2> HIDE DEF m
  <2>3. \/ codes' = [codes EXCEPT ![m].consumed = TRUE] /\ Ends(d)
        \/ codes[m].attempts < MaxAttempts /\
             codes' = [codes EXCEPT ![m].attempts = @ + 1] /\ Ends(d)
        \/ codes' = [codes EXCEPT ![m].consumed = TRUE] /\ Goes(d,
             "account") /\ call[d].code = m
    BY <1>2, <2>1, <2>2, ShopperAssumption DEF VerifyCode, m
  <2>4. /\ [codes EXCEPT ![m].consumed = TRUE]
             = [codes EXCEPT ![m] = [codes[m] EXCEPT !.consumed = TRUE]]
        /\ [codes EXCEPT ![m].attempts = @ + 1]
             = [codes EXCEPT ![m] = [codes[m] EXCEPT !.attempts = @ + 1]]
    OBVIOUS
  <2> QED
    BY <2>1, <2>3, <2>4
<1> QED
  BY <1>1, <1>2

\* The calls of the next state, when one of them ends.
LEMMA CallEnded ==
  ASSUME Entering, NEW d \in Devices, Ends(d)
  PROVE  /\ call' \in [Devices -> CallTypes]
         /\ \A e \in Devices : Accepted(e)' => Accepted(e) /\ call'[e] = call[e]
         /\ ~Accepted(d)'
<1>1. Rest \in CallTypes /\ Rest.at = "rest"
  BY NewCall, ShopperAssumption DEF Rest, CallStages, Purposes, Wrong
<1>2. /\ call' \in [Devices -> CallTypes] /\ call'[d] = Rest
      /\ \A e \in Devices : e # d => call'[e] = call[e]
  BY <1>1, CallSet DEF Ends
<1> QED
  BY <1>1, <1>2 DEF Accepted, At

LEMMA CallGoes ==
  ASSUME Entering, NEW d \in Devices, NEW a \in CallStages, Goes(d, a)
  PROVE  /\ call' \in [Devices -> CallTypes]
         /\ call'[d].at = a /\ call'[d].code = call[d].code
         /\ \A e \in Devices : e # d => call'[e] = call[e]
<1>1. call[d] \in CallTypes
  BY DEF Entering, CallsTyped
<1> QED
  BY <1>1, CallSet, CallSteps DEF Goes

LEMMA CodesAgeStep ==
  ASSUME Entering, CodesAge
  PROVE  Entering'
<1>1. CodesTyped'
  <2>1. PICK i \in DOMAIN codes : /\ codes[i].age < Past
                                  /\ codes' = [codes EXCEPT ![i].age = @ + 1]
    BY DEF CodesAge
  <2>2. [codes[i] EXCEPT !.age = @ + 1] \in CodeTypes
    BY <2>1, RowsAreTyped, CodeRowTypes
  <2>3. codes' = [codes EXCEPT ![i] = [codes[i] EXCEPT !.age = @ + 1]]
    BY <2>1
  <2>4. codes' \in Seq(CodeTypes) /\ Len(codes') = Len(codes)
    BY <2>2, <2>3, CodeSet
  <2> QED
    BY <2>4, RowsAreTyped DEF CodesAge, CodesTyped, Entering
<1>2. CallsTyped'
  BY DEF Entering, CodesAge, CallsTyped, Past, accountVars, CallTypes, Accepted,
    Purposes, At
<1>3. AccountTyped'
  BY DEF Entering, CodesAge, AccountTyped, Past, accountVars
<1>4. AttemptsAreBounded'
  BY DEF Entering, CodesAge, AttemptsAreBounded, Past, accountVars
<1>5. CodesUsedOnce'
  BY DEF Entering, CodesAge, CodesUsedOnce, Past, accountVars, Accepted,
    OneSessionPerCode, At
<1>6. OneLive'
  BY DEF Entering, CodesAge, OneLive, Past, accountVars
<1>7. HourCounted'
  <2>1. Asking' \subseteq Asking /\ CodesOfTheHour' \subseteq CodesOfTheHour
    BY DEF Entering, CodesTyped, CallsTyped, CallTypes, CodeTypes, Ages, Past, Asking,
       CodesOfTheHour,
       CodesAge, At, Goes, Ends, Rest, codeVars, accountVars
  <2> QED
    BY <2>1, HourKept
<1> QED
  BY <1>1, <1>2, <1>3, <1>4, <1>5, <1>6, <1>7 DEF Entering

LEMMA LogoutStep ==
  ASSUME Entering, Logout
  PROVE  Entering'
<1>1. CodesTyped'
  BY DEF Entering, Logout, CodesTyped, codeVars, CodeTypes, Purposes, Ages
<1>2. CallsTyped'
  BY DEF Entering, Logout, CallsTyped, codeVars, CallTypes, Accepted, Purposes, At
<1>3. AccountTyped'
  BY ShopperAssumption DEF Entering, Logout, AccountTyped, CodesTyped, codeVars,
    CodeTypes, Purposes, Ages
<1>4. AttemptsAreBounded'
  BY DEF Entering, Logout, AttemptsAreBounded, codeVars
<1>5. CodesUsedOnce'
  BY DEF Entering, Logout, CodesUsedOnce, codeVars, Accepted, OneSessionPerCode, At
<1>6. OneLive'
  BY DEF Entering, Logout, OneLive, codeVars
<1>7. HourCounted'
  <2>1. Asking' \subseteq Asking /\ CodesOfTheHour' \subseteq CodesOfTheHour
    BY DEF Entering, CodesTyped, CallsTyped, CallTypes, CodeTypes, Ages, Past, Asking,
       CodesOfTheHour,
       Logout, At, Goes, Ends, Rest, codeVars
  <2> QED
    BY <2>1, HourKept
<1> QED
  BY <1>1, <1>2, <1>3, <1>4, <1>5, <1>6, <1>7 DEF Entering

LEMMA LogoutEverywhereStep ==
  ASSUME Entering, LogoutEverywhere
  PROVE  Entering'
<1>1. CodesTyped'
  BY DEF Entering, LogoutEverywhere, CodesTyped, SignedIn, codeVars, CodeTypes,
    Purposes, Ages
<1>2. CallsTyped'
  BY DEF Entering, LogoutEverywhere, CallsTyped, SignedIn, codeVars, CallTypes,
    Accepted, Purposes, At
<1>3. AccountTyped'
  BY ShopperAssumption DEF Entering, LogoutEverywhere, AccountTyped, CodesTyped,
    SignedIn, codeVars, CodeTypes, Purposes, Ages
<1>4. AttemptsAreBounded'
  BY DEF Entering, LogoutEverywhere, AttemptsAreBounded, SignedIn, codeVars
<1>5. CodesUsedOnce'
  BY DEF Entering, LogoutEverywhere, CodesUsedOnce, SignedIn, codeVars, Accepted,
    OneSessionPerCode, At
<1>6. OneLive'
  BY DEF Entering, LogoutEverywhere, OneLive, SignedIn, codeVars
<1>7. HourCounted'
  <2>1. Asking' \subseteq Asking /\ CodesOfTheHour' \subseteq CodesOfTheHour
    BY DEF Entering, CodesTyped, CallsTyped, CallTypes, CodeTypes, Ages, Past, Asking,
       CodesOfTheHour,
       LogoutEverywhere, At, Goes, Ends, Rest, codeVars
  <2> QED
    BY <2>1, HourKept
<1> QED
  BY <1>1, <1>2, <1>3, <1>4, <1>5, <1>6, <1>7 DEF Entering

LEMMA SetStatusStep ==
  ASSUME Entering, SetStatus
  PROVE  Entering'
<1>1. CodesTyped'
  BY DEF Entering, SetStatus, CodesTyped, codeVars, CodeTypes, Purposes, Ages
<1>2. CallsTyped'
  BY DEF Entering, SetStatus, CallsTyped, codeVars, CallTypes, Accepted, Purposes, At
<1>3. AccountTyped'
  BY DEF Entering, SetStatus, AccountTyped, codeVars
<1>4. AttemptsAreBounded'
  BY DEF Entering, SetStatus, AttemptsAreBounded, codeVars
<1>5. CodesUsedOnce'
  BY DEF Entering, SetStatus, CodesUsedOnce, codeVars, Accepted, OneSessionPerCode, At
<1>6. OneLive'
  BY DEF Entering, SetStatus, OneLive, codeVars
<1>7. HourCounted'
  <2>1. Asking' \subseteq Asking /\ CodesOfTheHour' \subseteq CodesOfTheHour
    BY DEF Entering, CodesTyped, CallsTyped, CallTypes, CodeTypes, Ages, Past, Asking,
       CodesOfTheHour,
       SetStatus, At, Goes, Ends, Rest, codeVars
  <2> QED
    BY <2>1, HourKept
<1> QED
  BY <1>1, <1>2, <1>3, <1>4, <1>5, <1>6, <1>7 DEF Entering

LEMMA StatusRevokesStep ==
  ASSUME Entering, StatusRevokes
  PROVE  Entering'
<1>1. CodesTyped'
  BY DEF Entering, StatusRevokes, CodesTyped, codeVars, CodeTypes, Purposes, Ages
<1>2. CallsTyped'
  BY DEF Entering, StatusRevokes, CallsTyped, codeVars, CallTypes, Accepted, Purposes,
    At
<1>3. AccountTyped'
  <2>1. revoking' = FALSE /\ sessions' = 0 /\ account' = account
    BY DEF StatusRevokes
  <2>2. account' \in {"none", "active", "blocked"} /\ revoking' \in BOOLEAN
    BY <2>1, Zenon DEF Entering, AccountTyped
  <2>3. sessions' \in 0 .. MaxSessions
    BY <2>1, ShopperAssumption
  <2> QED
    BY <2>2, <2>3 DEF AccountTyped
<1>4. AttemptsAreBounded'
  BY DEF Entering, StatusRevokes, AttemptsAreBounded, codeVars
<1>5. CodesUsedOnce'
  BY DEF Entering, StatusRevokes, CodesUsedOnce, codeVars, Accepted, OneSessionPerCode,
    At
<1>6. OneLive'
  BY DEF Entering, StatusRevokes, OneLive, codeVars
<1>7. HourCounted'
  <2>1. Asking' \subseteq Asking /\ CodesOfTheHour' \subseteq CodesOfTheHour
    BY DEF Entering, CodesTyped, CallsTyped, CallTypes, CodeTypes, Ages, Past, Asking,
       CodesOfTheHour,
       StatusRevokes, At, Goes, Ends, Rest, codeVars
  <2> QED
    BY <2>1, HourKept
<1> QED
  BY <1>1, <1>2, <1>3, <1>4, <1>5, <1>6, <1>7 DEF Entering

LEMMA RequestCountsStep ==
  ASSUME Entering, NEW d \in Devices, NEW p \in Purposes, RequestCounts(d, p)
  PROVE  Entering'
<1>1. CodesTyped'
  BY DEF Entering, RequestCounts, CodesTyped, At, CodesOfTheHour, Rest, codeVars,
    accountVars, CodeTypes, Past, Wrong, Purposes, Ages
<1>2. CallsTyped'
  <2>1. [Rest EXCEPT !.at = "burn", !.purpose = p] \in CallTypes
        /\ [Rest EXCEPT !.at = "burn", !.purpose = p].at = "burn"
    <3>1. [Rest EXCEPT !.at = "burn", !.purpose = p]
            = [at |-> "burn", purpose |-> p, code |-> 0, saw |-> "none"]
      BY RestSet, Zenon
    <3>2. "burn" \in CallStages /\ 0 \in 0 .. MaxCodes
      BY ShopperAssumption DEF CallStages
    <3> QED
      BY <3>1, <3>2, NewCall
  <2>2. /\ call' \in [Devices -> CallTypes] /\ call'[d].at = "burn"
        /\ \A e \in Devices : e # d => call'[e] = call[e]
    BY <2>1, CallSet DEF RequestCounts
  <2> QED
    BY <2>2 DEF RequestCounts, Entering, CallsTyped, Accepted, At, codeVars
<1>3. AccountTyped'
  BY DEF Entering, RequestCounts, AccountTyped, At, CodesOfTheHour, Rest, codeVars,
    accountVars, Past, Wrong
<1>4. AttemptsAreBounded'
  BY DEF Entering, RequestCounts, AttemptsAreBounded, At, CodesOfTheHour, Rest,
    codeVars, accountVars, Past, Wrong
<1>5. CodesUsedOnce'
  BY DEF Entering, RequestCounts, CodesUsedOnce, At, CodesOfTheHour, Rest, codeVars,
    accountVars, Accepted, OneSessionPerCode, Past, Wrong
<1>6. OneLive'
  BY DEF Entering, RequestCounts, OneLive, At, CodesOfTheHour, Rest, codeVars,
    accountVars, Past, Wrong
<1>7. HourCounted'
  <2>1. CodesOfTheHour' = CodesOfTheHour /\ Cardinality(CodesOfTheHour) < HourlyCodes
    BY DEF RequestCounts, CodesOfTheHour, codeVars
  <2>2. Cardinality(Asking') \in Nat /\ Cardinality(Asking') <= Cardinality(Devices)
    BY SmallerCount, ShopperAssumption DEF Asking
  <2> QED
    BY <2>1, <2>2, Counts, ShopperAssumption DEF HourCounted
<1> QED
  BY <1>1, <1>2, <1>3, <1>4, <1>5, <1>6, <1>7 DEF Entering

LEMMA VerifyLooksStep ==
  ASSUME Entering, NEW d \in Devices, NEW p \in Purposes, NEW i \in 0 .. Len(codes),
         VerifyLooks(d, p, i)
  PROVE  Entering'
<1>1. CodesTyped'
  BY DEF Entering, VerifyLooks, CodesTyped, At, Wrong, Rest, codeVars, accountVars,
    CodeTypes, Purposes, Ages
<1>2. CallsTyped'
  <2>1. i \in 0 .. MaxCodes
    BY RowsAreTyped, ShopperAssumption
  <2>2. [Rest EXCEPT !.at = "code", !.purpose = p, !.code = i] \in CallTypes
        /\ [Rest EXCEPT !.at = "code", !.purpose = p, !.code = i].at = "code"
    <3>1. [Rest EXCEPT !.at = "code", !.purpose = p, !.code = i]
            = [at |-> "code", purpose |-> p, code |-> i, saw |-> "none"]
      <4> DEFINE x == [Rest EXCEPT !.at = "code", !.purpose = p]
      <4>1. x = [at |-> "code", purpose |-> p, code |-> 0, saw |-> "none"]
        BY RestSet, Zenon
      <4> HIDE DEF x
      <4>2. [x EXCEPT !.code = i] = [at |-> "code", purpose |-> p, code |-> i,
              saw |-> "none"]
        BY <4>1
      <4> QED
        BY <4>2 DEF x
    <3> QED
      BY <2>1, <3>1, NewCall DEF CallStages
  <2>3. /\ call' \in [Devices -> CallTypes] /\ call'[d].at = "code"
        /\ \A e \in Devices : e # d => call'[e] = call[e]
    BY <2>2, CallSet DEF VerifyLooks
  <2> QED
    BY <2>3 DEF VerifyLooks, Entering, CallsTyped, Accepted, At, codeVars
<1>3. AccountTyped'
  BY DEF Entering, VerifyLooks, AccountTyped, At, Wrong, Rest, codeVars, accountVars
<1>4. AttemptsAreBounded'
  BY DEF Entering, VerifyLooks, AttemptsAreBounded, At, Wrong, Rest, codeVars,
    accountVars
<1>5. CodesUsedOnce'
  BY DEF Entering, VerifyLooks, CodesUsedOnce, At, Wrong, Rest, codeVars, accountVars,
    Accepted, OneSessionPerCode
<1>6. OneLive'
  BY DEF Entering, VerifyLooks, OneLive, At, Wrong, Rest, codeVars, accountVars
<1>7. HourCounted'
  <2>1. Asking' \subseteq Asking /\ CodesOfTheHour' \subseteq CodesOfTheHour
    BY DEF Entering, CodesTyped, CallsTyped, CallTypes, CodeTypes, Ages, Past, Asking,
       CodesOfTheHour,
       VerifyLooks, At, Goes, Ends, Rest, codeVars, accountVars
  <2> QED
    BY <2>1, HourKept
<1> QED
  BY <1>1, <1>2, <1>3, <1>4, <1>5, <1>6, <1>7 DEF Entering

LEMMA RequestBurnsStep ==
  ASSUME Entering, NEW d \in Devices, RequestBurns(d)
  PROVE  Entering'
<1>1. CodesTyped'
  <2>1. \A k \in 1 .. Len(codes) : codes'[k] \in CodeTypes
    BY RowsAreTyped, CodeRowTypes DEF RequestBurns
  <2>2. codes' = [k \in 1 .. Len(codes) |-> codes'[k]]
    BY RowsAreTyped DEF RequestBurns
  <2> QED
    BY <2>1, <2>2, CodesRewritten, RowsAreTyped DEF RequestBurns, CodesTyped
<1>2. CallsTyped'
  BY DEF Entering, RequestBurns, CallsTyped, At, Goes, accountVars, CallTypes, Accepted,
    Purposes
<1>3. AccountTyped'
  BY DEF Entering, RequestBurns, AccountTyped, At, Goes, accountVars
<1>4. AttemptsAreBounded'
  BY DEF Entering, RequestBurns, AttemptsAreBounded, At, Goes, accountVars
<1>5. CodesUsedOnce'
  BY ShopperAssumption DEF Entering, RequestBurns, CodesUsedOnce, CodesTyped,
    CallsTyped, At, Goes, accountVars, Accepted, OneSessionPerCode, CodeTypes,
    CallTypes, Purposes, Ages
<1>6. OneLive'
  BY DEF Entering, RequestBurns, OneLive, At, Goes, accountVars
<1>7. HourCounted'
  <2>1. Asking' \subseteq Asking /\ CodesOfTheHour' \subseteq CodesOfTheHour
    BY DEF Entering, CodesTyped, CallsTyped, CallTypes, CodeTypes, Ages, Past, Asking,
       CodesOfTheHour,
       RequestBurns, At, Goes, Ends, Rest, codeVars, accountVars
  <2> QED
    BY <2>1, HourKept
<1> QED
  BY <1>1, <1>2, <1>3, <1>4, <1>5, <1>6, <1>7 DEF Entering

LEMMA RequestInsertsStep ==
  ASSUME Entering, NEW d \in Devices, RequestInserts(d)
  PROVE  Entering'
<1>1. CodesTyped'
  <2> DEFINE n == [purpose |-> call[d].purpose, consumed |-> FALSE, attempts |-> 0,
               age |-> 0]
  <2>1. n \in CodeTypes
    BY CallSteps DEF Entering, CallsTyped, CallTypes, CodeTypes, Ages
  <2> HIDE DEF n
  <2>2. CASE UNCHANGED codeVars
    BY <2>2, CallEnded DEF RequestInserts, codeVars, Entering, CodesTyped
  <2>3. CASE ~UNCHANGED codeVars
    <3>1. /\ Unused(call[d].purpose) = {} /\ Len(codes) < MaxCodes
          /\ codes' = Append(codes, n) /\ opened' = Append(opened, 0)
      BY <2>3 DEF RequestInserts, n
    <3>2. /\ codes' \in Seq(CodeTypes) /\ Len(codes') = Len(codes) + 1
          /\ opened' \in Seq(Nat) /\ Len(opened') = Len(opened) + 1
          /\ DOMAIN codes' = 1 .. Len(codes) + 1 /\ DOMAIN opened' = DOMAIN codes'
          /\ codes'[Len(codes) + 1] = n /\ opened'[Len(codes) + 1] = 0
          /\ \A k \in DOMAIN codes : codes'[k] = codes[k] /\ opened'[k] = opened[k]
      BY <3>1, <2>1, RowsAreTyped DEF Entering, CodesTyped
    <3> QED
      BY <3>1, <3>2, RowsAreTyped, ShopperAssumption DEF CodesTyped, Entering
  <2> QED
    BY <2>2, <2>3
<1>2. CallsTyped'
  BY ShopperAssumption DEF Entering, RequestInserts, CallsTyped, CodesTyped, At, Ends,
    Unused, codeVars, accountVars, CallTypes, Accepted, CodeTypes, Rest, Purposes, Ages,
    Wrong
<1>3. AccountTyped'
  BY DEF Entering, RequestInserts, AccountTyped, At, Ends, Unused, codeVars,
    accountVars, Rest, Wrong
<1>4. AttemptsAreBounded'
  <2> DEFINE n == [purpose |-> call[d].purpose, consumed |-> FALSE, attempts |-> 0,
               age |-> 0]
  <2>1. n \in CodeTypes
    BY CallSteps DEF Entering, CallsTyped, CallTypes, CodeTypes, Ages
  <2> HIDE DEF n
  <2>2. CASE UNCHANGED codeVars
    BY <2>2, CallEnded DEF RequestInserts, codeVars, Entering, AttemptsAreBounded
  <2>3. CASE ~UNCHANGED codeVars
    <3>1. /\ Unused(call[d].purpose) = {} /\ Len(codes) < MaxCodes
          /\ codes' = Append(codes, n) /\ opened' = Append(opened, 0)
      BY <2>3 DEF RequestInserts, n
    <3>2. /\ codes' \in Seq(CodeTypes) /\ Len(codes') = Len(codes) + 1
          /\ opened' \in Seq(Nat) /\ Len(opened') = Len(opened) + 1
          /\ DOMAIN codes' = 1 .. Len(codes) + 1 /\ DOMAIN opened' = DOMAIN codes'
          /\ codes'[Len(codes) + 1] = n /\ opened'[Len(codes) + 1] = 0
          /\ \A k \in DOMAIN codes : codes'[k] = codes[k] /\ opened'[k] = opened[k]
      BY <3>1, <2>1, RowsAreTyped DEF Entering, CodesTyped
    <3>3. codes'[Len(codes) + 1].attempts = 0
      BY <3>2 DEF n
    <3>4. AttemptsAreBounded /\ MaxAttempts \in Nat
      BY ShopperAssumption DEF Entering
    <3> QED
      BY <3>2, <3>3, <3>4, RowsAreTyped DEF AttemptsAreBounded
  <2> QED
    BY <2>2, <2>3
<1>5. CodesUsedOnce'
  <2> DEFINE n == [purpose |-> call[d].purpose, consumed |-> FALSE, attempts |-> 0,
               age |-> 0]
  <2>1. \A e \in Devices : Accepted(e)' => Accepted(e) /\ call'[e] = call[e]
    BY CallEnded DEF RequestInserts
  <2>2. \A e \in Devices : Accepted(e) => call[e].code \in DOMAIN codes
    BY DEF Entering, CallsTyped
  <2>3. /\ DOMAIN opened' = DOMAIN codes'
        /\ \A k \in DOMAIN codes : codes'[k] = codes[k] /\ opened'[k] = opened[k]
        /\ \A k \in DOMAIN codes' \ DOMAIN codes : opened'[k] = 0
    <3>1. CASE UNCHANGED codeVars
      BY <3>1, RowsAreTyped DEF codeVars
    <3>2. CASE codes' = Append(codes, n) /\ opened' = Append(opened, 0)
      BY <3>2, RowsAreTyped DEF Entering, CodesTyped
    <3> QED
      BY <3>1, <3>2 DEF RequestInserts
  <2>4. \A k \in DOMAIN codes' : opened'[k] <= 1 /\ (opened'[k] > 0 => codes'[k].consumed)
    BY <2>3, RowsAreTyped DEF Entering, CodesUsedOnce, OneSessionPerCode
  <2> QED
    BY <2>1, <2>2, <2>3, <2>4 DEF Entering, CodesUsedOnce, OneSessionPerCode
<1>6. OneLive'
  <2> DEFINE n == [purpose |-> call[d].purpose, consumed |-> FALSE, attempts |-> 0,
               age |-> 0]
  <2>1. n \in CodeTypes
    BY CallSteps DEF Entering, CallsTyped, CallTypes, CodeTypes, Ages
  <2> HIDE DEF n
  <2>2. CASE UNCHANGED codeVars
    BY <2>2, CallEnded DEF RequestInserts, codeVars, Entering, OneLive
  <2>3. CASE ~UNCHANGED codeVars
    <3>1. /\ Unused(call[d].purpose) = {} /\ Len(codes) < MaxCodes
          /\ codes' = Append(codes, n) /\ opened' = Append(opened, 0)
      BY <2>3 DEF RequestInserts, n
    <3>2. /\ codes' \in Seq(CodeTypes) /\ Len(codes') = Len(codes) + 1
          /\ opened' \in Seq(Nat) /\ Len(opened') = Len(opened) + 1
          /\ DOMAIN codes' = 1 .. Len(codes) + 1 /\ DOMAIN opened' = DOMAIN codes'
          /\ codes'[Len(codes) + 1] = n /\ opened'[Len(codes) + 1] = 0
          /\ \A k \in DOMAIN codes : codes'[k] = codes[k] /\ opened'[k] = opened[k]
      BY <3>1, <2>1, RowsAreTyped DEF Entering, CodesTyped
    <3>3. \A k \in DOMAIN codes : codes[k].purpose = n.purpose => codes[k].consumed
      BY <3>1 DEF Unused, n
    <3>4. \A k \in DOMAIN codes' : k \in DOMAIN codes \/ k = Len(codes) + 1
      BY <3>2, RowsAreTyped
    <3>5. OneLive
      BY DEF Entering
    <3> QED
      BY <3>2, <3>3, <3>4, <3>5 DEF OneLive
  <2> QED
    BY <2>2, <2>3
<1>7. HourCounted'
  <2>1. d \in Asking /\ Asking' = Asking \ {d}
    BY DEF Entering, CodesTyped, CallsTyped, RequestInserts, Asking, At, Ends, Rest
  <2>2. Cardinality(Asking') \in Nat /\ Cardinality(Asking') = Cardinality(Asking) - 1
    BY <2>1, Counts, OneLess
  <2>3. CASE UNCHANGED codes
    BY <2>1, <2>3, HourKept DEF CodesOfTheHour
  <2>4. CASE codes' # codes
    <3>1. CodesOfTheHour' = CodesOfTheHour \cup {Len(codes) + 1}
      BY <2>4 DEF RequestInserts, codeVars, CodesOfTheHour, Entering, CodesTyped,
         CallsTyped, Past
    <3>2. /\ Cardinality(CodesOfTheHour') \in Nat
          /\ Cardinality(CodesOfTheHour') <= Cardinality(CodesOfTheHour) + 1
      <4>1. Len(codes) + 1 \notin CodesOfTheHour
        BY RowsAreTyped DEF CodesOfTheHour
      <4>2. Cardinality(CodesOfTheHour') = Cardinality(CodesOfTheHour) + 1
        BY <3>1, <4>1, Counts, FS_AddElement
      <4> QED
        BY <4>2, Counts, SMT
    <3> QED
      BY <2>2, <3>2, Counts, ShopperAssumption DEF HourCounted
  <2> QED
    BY <2>3, <2>4
<1> QED
  BY <1>1, <1>2, <1>3, <1>4, <1>5, <1>6, <1>7 DEF Entering

LEMMA VerifyCodeStep ==
  ASSUME Entering, NEW d \in Devices, VerifyCode(d)
  PROVE  Entering'
<1>1. CodesTyped'
  <2>1. CASE codes' = codes /\ Ends(d)
    BY <2>1 DEF VerifyCode, CodesTyped, Entering
  <2>2. ASSUME NEW i \in DOMAIN codes, ~codes[i].consumed,
               codes' = [codes EXCEPT ![i] = [codes[i] EXCEPT !.consumed = TRUE]],
               Ends(d) \/ (Goes(d, "account") /\ call[d].code = i)
        PROVE  CodesTyped'
    <3>1. /\ codes' \in Seq(CodeTypes) /\ Len(codes') = Len(codes) /\
               DOMAIN codes' = DOMAIN codes
          /\ \A k \in DOMAIN codes : k # i => codes'[k] = codes[k]
          /\ codes'[i].consumed = TRUE /\ codes'[i].purpose = codes[i].purpose
          /\ codes'[i].attempts = codes[i].attempts
      BY <2>2, RowsAreTyped, CodeRowTypes, CodeSet
    <3> QED
      BY <3>1, RowsAreTyped DEF VerifyCode, CodesTyped
  <2>3. ASSUME NEW i \in DOMAIN codes, ~codes[i].consumed,
               codes' = [codes EXCEPT ![i] = [codes[i] EXCEPT !.attempts = @ + 1]],
               codes[i].attempts < MaxAttempts, Ends(d)
        PROVE  CodesTyped'
    <3>1. /\ codes' \in Seq(CodeTypes) /\ Len(codes') = Len(codes) /\
               DOMAIN codes' = DOMAIN codes
          /\ \A k \in DOMAIN codes : k # i => codes'[k] = codes[k]
          /\ codes'[i].consumed = codes[i].consumed /\
               codes'[i].purpose = codes[i].purpose
          /\ codes'[i].attempts = codes[i].attempts + 1 /\ codes[i].attempts \in Nat
      BY <2>3, RowsAreTyped, CodeRowTypes, CodeSet
    <3> QED
      BY <3>1, RowsAreTyped DEF VerifyCode, CodesTyped
  <2> QED
    BY <2>1, <2>2, <2>3, Tried
<1>2. CallsTyped'
  <2>1. CASE codes' = codes /\ Ends(d)
    BY <2>1, CallEnded DEF CallsTyped, Entering
  <2>2. ASSUME NEW i \in DOMAIN codes, ~codes[i].consumed,
               codes' = [codes EXCEPT ![i] = [codes[i] EXCEPT !.consumed = TRUE]],
               Ends(d) \/ (Goes(d, "account") /\ call[d].code = i)
        PROVE  CallsTyped'
    <3>1. /\ codes' \in Seq(CodeTypes) /\ Len(codes') = Len(codes) /\
               DOMAIN codes' = DOMAIN codes
          /\ \A k \in DOMAIN codes : k # i => codes'[k] = codes[k]
          /\ codes'[i].consumed = TRUE /\ codes'[i].purpose = codes[i].purpose
          /\ codes'[i].attempts = codes[i].attempts
      BY <2>2, RowsAreTyped, CodeRowTypes, CodeSet
    <3>2. CASE Ends(d)
      BY <3>1, <3>2, CallEnded DEF CallsTyped, Entering
    <3>3. CASE Goes(d, "account") /\ call[d].code = i
      <4>1. /\ call' \in [Devices -> CallTypes] /\ call'[d].code = i
            /\ \A e \in Devices : e # d => call'[e] = call[e]
        BY <3>3, CallGoes DEF CallStages
      <4> QED
        BY <3>1, <4>1 DEF CallsTyped, Entering, Accepted, At
    <3> QED
      BY <2>2, <3>2, <3>3
  <2>3. ASSUME NEW i \in DOMAIN codes, ~codes[i].consumed,
               codes' = [codes EXCEPT ![i] = [codes[i] EXCEPT !.attempts = @ + 1]],
               codes[i].attempts < MaxAttempts, Ends(d)
        PROVE  CallsTyped'
    <3>1. /\ codes' \in Seq(CodeTypes) /\ Len(codes') = Len(codes) /\
               DOMAIN codes' = DOMAIN codes
          /\ \A k \in DOMAIN codes : k # i => codes'[k] = codes[k]
          /\ codes'[i].consumed = codes[i].consumed /\
               codes'[i].purpose = codes[i].purpose
          /\ codes'[i].attempts = codes[i].attempts + 1 /\ codes[i].attempts \in Nat
      BY <2>3, RowsAreTyped, CodeRowTypes, CodeSet
    <3> QED
      BY <2>3, <3>1, CallEnded DEF CallsTyped, Entering
  <2> QED
    BY <2>1, <2>2, <2>3, Tried
<1>3. AccountTyped'
  BY NewestIsEnterable DEF Entering, VerifyCode, AccountTyped, At, Enterable, Ends,
    Goes, accountVars, Rest, Wrong
<1>4. AttemptsAreBounded'
  <2>1. CASE codes' = codes /\ Ends(d)
    BY <2>1 DEF AttemptsAreBounded, Entering
  <2>2. ASSUME NEW i \in DOMAIN codes, ~codes[i].consumed,
               codes' = [codes EXCEPT ![i] = [codes[i] EXCEPT !.consumed = TRUE]],
               Ends(d) \/ (Goes(d, "account") /\ call[d].code = i)
        PROVE  AttemptsAreBounded'
    <3>1. /\ codes' \in Seq(CodeTypes) /\ Len(codes') = Len(codes) /\
               DOMAIN codes' = DOMAIN codes
          /\ \A k \in DOMAIN codes : k # i => codes'[k] = codes[k]
          /\ codes'[i].consumed = TRUE /\ codes'[i].purpose = codes[i].purpose
          /\ codes'[i].attempts = codes[i].attempts
      BY <2>2, RowsAreTyped, CodeRowTypes, CodeSet
    <3> QED
      BY <3>1 DEF AttemptsAreBounded, Entering
  <2>3. ASSUME NEW i \in DOMAIN codes, ~codes[i].consumed,
               codes' = [codes EXCEPT ![i] = [codes[i] EXCEPT !.attempts = @ + 1]],
               codes[i].attempts < MaxAttempts, Ends(d)
        PROVE  AttemptsAreBounded'
    <3>1. /\ codes' \in Seq(CodeTypes) /\ Len(codes') = Len(codes) /\
               DOMAIN codes' = DOMAIN codes
          /\ \A k \in DOMAIN codes : k # i => codes'[k] = codes[k]
          /\ codes'[i].consumed = codes[i].consumed /\
               codes'[i].purpose = codes[i].purpose
          /\ codes'[i].attempts = codes[i].attempts + 1 /\ codes[i].attempts \in Nat
      BY <2>3, RowsAreTyped, CodeRowTypes, CodeSet
    <3> QED
      BY <2>3, <3>1, ShopperAssumption DEF AttemptsAreBounded, Entering
  <2> QED
    BY <2>1, <2>2, <2>3, Tried
<1>5. CodesUsedOnce'
  <2>1. CASE codes' = codes /\ Ends(d)
    BY <2>1, CallEnded DEF VerifyCode, CodesUsedOnce, OneSessionPerCode, Entering
  <2>2. ASSUME NEW i \in DOMAIN codes, ~codes[i].consumed,
               codes' = [codes EXCEPT ![i] = [codes[i] EXCEPT !.consumed = TRUE]],
               Ends(d) \/ (Goes(d, "account") /\ call[d].code = i)
        PROVE  CodesUsedOnce'
    <3>1. /\ codes' \in Seq(CodeTypes) /\ Len(codes') = Len(codes) /\
               DOMAIN codes' = DOMAIN codes
          /\ \A k \in DOMAIN codes : k # i => codes'[k] = codes[k]
          /\ codes'[i].consumed = TRUE /\ codes'[i].purpose = codes[i].purpose
          /\ codes'[i].attempts = codes[i].attempts
      BY <2>2, RowsAreTyped, CodeRowTypes, CodeSet
    <3>2. CASE Ends(d)
      BY <2>2, <3>1, <3>2, CallEnded, RowsAreTyped
      DEF VerifyCode, CodesUsedOnce, OneSessionPerCode, Entering, CallsTyped
    <3>3. CASE Goes(d, "account") /\ call[d].code = i
      <4>1. /\ call'[d].code = i /\ \A e \in Devices : e # d => call'[e] = call[e]
        BY <3>3, CallGoes DEF CallStages
      <4>2. \A e \in Devices : Accepted(e)
              => call[e].code # i /\ call[e].code \in DOMAIN codes
        BY <2>2 DEF CodesUsedOnce, Entering, CallsTyped
      <4>3. opened[i] = 0 /\ opened' = opened
        BY <2>2, RowsAreTyped DEF CodesUsedOnce, Entering, VerifyCode
      <4>4. \A e \in Devices : e # d => (Accepted(e)' <=> Accepted(e))
        BY <4>1 DEF Accepted, At
      <4>5. \A k \in DOMAIN codes' : opened'[k] > 0 => codes'[k].consumed
        BY <3>1, <4>3 DEF CodesUsedOnce, Entering
      <4>6. CodesUsedOnce
        BY DEF Entering
      <4>7. \A e \in Devices : Accepted(e)'
              => codes'[call'[e].code].consumed /\ opened'[call'[e].code] = 0
        BY <3>1, <4>1, <4>2, <4>3, <4>4, <4>6, RowsAreTyped DEF CodesUsedOnce
      <4>8. \A e, g \in Devices : Accepted(e)' /\ Accepted(g)' /\ e # g
              => call'[e].code # call'[g].code
        BY <4>1, <4>2, <4>4, <4>6 DEF CodesUsedOnce
      <4>9. OneSessionPerCode'
        BY <4>3, <4>6 DEF CodesUsedOnce, OneSessionPerCode
      <4> QED
        BY <4>5, <4>7, <4>8, <4>9 DEF CodesUsedOnce
    <3> QED
      BY <2>2, <3>2, <3>3
  <2>3. ASSUME NEW i \in DOMAIN codes, ~codes[i].consumed,
               codes' = [codes EXCEPT ![i] = [codes[i] EXCEPT !.attempts = @ + 1]],
               codes[i].attempts < MaxAttempts, Ends(d)
        PROVE  CodesUsedOnce'
    <3>1. /\ codes' \in Seq(CodeTypes) /\ Len(codes') = Len(codes) /\
               DOMAIN codes' = DOMAIN codes
          /\ \A k \in DOMAIN codes : k # i => codes'[k] = codes[k]
          /\ codes'[i].consumed = codes[i].consumed /\
               codes'[i].purpose = codes[i].purpose
          /\ codes'[i].attempts = codes[i].attempts + 1 /\ codes[i].attempts \in Nat
      BY <2>3, RowsAreTyped, CodeRowTypes, CodeSet
    <3> QED
      BY <2>3, <3>1, CallEnded, RowsAreTyped
      DEF VerifyCode, CodesUsedOnce, OneSessionPerCode, Entering, CallsTyped
  <2> QED
    BY <2>1, <2>2, <2>3, Tried
<1>6. OneLive'
  <2>1. CASE codes' = codes /\ Ends(d)
    BY <2>1 DEF OneLive, Entering
  <2>2. ASSUME NEW i \in DOMAIN codes, ~codes[i].consumed,
               codes' = [codes EXCEPT ![i] = [codes[i] EXCEPT !.consumed = TRUE]],
               Ends(d) \/ (Goes(d, "account") /\ call[d].code = i)
        PROVE  OneLive'
    <3>1. /\ codes' \in Seq(CodeTypes) /\ Len(codes') = Len(codes) /\
               DOMAIN codes' = DOMAIN codes
          /\ \A k \in DOMAIN codes : k # i => codes'[k] = codes[k]
          /\ codes'[i].consumed = TRUE /\ codes'[i].purpose = codes[i].purpose
          /\ codes'[i].attempts = codes[i].attempts
      BY <2>2, RowsAreTyped, CodeRowTypes, CodeSet
    <3> QED
      BY <2>2, <3>1 DEF OneLive, Entering
  <2>3. ASSUME NEW i \in DOMAIN codes, ~codes[i].consumed,
               codes' = [codes EXCEPT ![i] = [codes[i] EXCEPT !.attempts = @ + 1]],
               codes[i].attempts < MaxAttempts, Ends(d)
        PROVE  OneLive'
    <3>1. /\ codes' \in Seq(CodeTypes) /\ Len(codes') = Len(codes) /\
               DOMAIN codes' = DOMAIN codes
          /\ \A k \in DOMAIN codes : k # i => codes'[k] = codes[k]
          /\ codes'[i].consumed = codes[i].consumed /\
               codes'[i].purpose = codes[i].purpose
          /\ codes'[i].attempts = codes[i].attempts + 1 /\ codes[i].attempts \in Nat
      BY <2>3, RowsAreTyped, CodeRowTypes, CodeSet
    <3> QED
      BY <2>3, <3>1 DEF OneLive, Entering
  <2> QED
    BY <2>1, <2>2, <2>3, Tried
<1>7. HourCounted'
  <2>1. CodesOfTheHour' \subseteq CodesOfTheHour
    <3>1. \A k \in DOMAIN codes' : k \in DOMAIN codes /\ codes'[k].age = codes[k].age
      <4>1. CASE codes' = codes
        BY <4>1
      <4>2. ASSUME NEW i \in DOMAIN codes, NEW y \in CodeTypes, y.age = codes[i].age,
                   codes' = [codes EXCEPT ![i] = y]
            PROVE  \A k \in DOMAIN codes' : k \in DOMAIN codes /\
                     codes'[k].age = codes[k].age
        BY <4>2, CodeSet
      <4>3. ASSUME NEW i \in DOMAIN codes
            PROVE  /\ [codes[i] EXCEPT !.consumed = TRUE] \in CodeTypes
                   /\ [codes[i] EXCEPT !.consumed = TRUE].age = codes[i].age
                   /\ [codes[i] EXCEPT !.attempts = @ + 1] \in CodeTypes
                   /\ [codes[i] EXCEPT !.attempts = @ + 1].age = codes[i].age
        BY RowsAreTyped, CodeRowTypes
      <4> QED
        BY <4>1, <4>2, <4>3, Tried
    <3> QED
      BY <3>1 DEF CodesOfTheHour
  <2>2. Asking' \subseteq Asking
    BY Tried DEF VerifyCode, Entering, CallsTyped, CallTypes, Asking, At, Ends, Goes, Rest
  <2> QED
    BY <2>1, <2>2, HourKept
<1> QED
  BY <1>1, <1>2, <1>3, <1>4, <1>5, <1>6, <1>7 DEF Entering

LEMMA VerifyReadsAccountStep ==
  ASSUME Entering, NEW d \in Devices, VerifyReadsAccount(d)
  PROVE  Entering'
<1>1. CodesTyped'
  BY DEF Entering, VerifyReadsAccount, CodesTyped, At, Ends, codeVars, accountVars,
    CodeTypes, Rest, Purposes, Ages, Wrong
<1>2. CallsTyped'
  <2>1. CASE Ends(d)
    BY <2>1, CallEnded DEF VerifyReadsAccount, Entering, CallsTyped, codeVars
  <2>2. CASE call' = [call EXCEPT ![d].at = "open",
               ![d].saw = account] /\ account # "blocked"
    <3>1. call[d] \in CallTypes /\ call[d].at = "account"
      BY DEF Entering, CallsTyped, VerifyReadsAccount, At
    <3>2. [call[d] EXCEPT !.at = "open", !.saw = account] \in CallTypes
          /\ [call[d] EXCEPT !.at = "open", !.saw = account].code = call[d].code
      BY <2>2, <3>1 DEF CallTypes, Entering, AccountTyped
    <3>3. /\ call' \in [Devices -> CallTypes] /\ call'[d].code = call[d].code
          /\ \A e \in Devices : e # d => call'[e] = call[e]
      BY <2>2, <3>2, CallSet
    <3> QED
      BY <3>1, <3>3 DEF VerifyReadsAccount, Entering, CallsTyped, codeVars, Accepted, At
  <2> QED
    BY <2>1, <2>2 DEF VerifyReadsAccount
<1>3. AccountTyped'
  BY DEF Entering, VerifyReadsAccount, AccountTyped, At, Ends, codeVars, accountVars,
    Rest, Wrong
<1>4. AttemptsAreBounded'
  BY DEF Entering, VerifyReadsAccount, AttemptsAreBounded, At, Ends, codeVars,
    accountVars, Rest, Wrong
<1>5. CodesUsedOnce'
  <2>1. \A e \in Devices : Accepted(e)' => Accepted(e) /\ call'[e].code = call[e].code
    <3>1. CASE Ends(d)
      BY <3>1, CallEnded
    <3>2. CASE call' = [call EXCEPT ![d].at = "open", ![d].saw = account]
      BY <3>2 DEF VerifyReadsAccount, Entering, CallsTyped, CallTypes, Accepted, At
    <3> QED
      BY <3>1, <3>2 DEF VerifyReadsAccount
  <2> QED
    BY <2>1 DEF VerifyReadsAccount, codeVars, CodesUsedOnce, OneSessionPerCode, Entering
<1>6. OneLive'
  BY DEF Entering, VerifyReadsAccount, OneLive, At, Ends, codeVars, accountVars, Rest,
    Wrong
<1>7. HourCounted'
  <2>1. Asking' \subseteq Asking /\ CodesOfTheHour' \subseteq CodesOfTheHour
    BY DEF Entering, CodesTyped, CallsTyped, CallTypes, CodeTypes, Ages, Past, Asking,
       CodesOfTheHour,
       VerifyReadsAccount, At, Goes, Ends, Rest, codeVars, accountVars
  <2> QED
    BY <2>1, HourKept
<1> QED
  BY <1>1, <1>2, <1>3, <1>4, <1>5, <1>6, <1>7 DEF Entering

LEMMA VerifyOpensStep ==
  ASSUME Entering, NEW d \in Devices, VerifyOpens(d)
  PROVE  Entering'
<1>1. CodesTyped'
  BY DEF Entering, VerifyOpens, CodesTyped, At, Ends, accountVars, CodeTypes, Rest,
    Purposes, Ages, Wrong
<1>2. CallsTyped'
  BY ShopperAssumption DEF Entering, VerifyOpens, CallsTyped, CodesTyped, At, Ends,
    accountVars, CallTypes, Accepted, CodeTypes, Rest, Purposes, Ages, Wrong
<1>3. AccountTyped'
  BY ShopperAssumption DEF Entering, VerifyOpens, AccountTyped, CodesTyped, At, Ends,
    accountVars, CodeTypes, Rest, Purposes, Ages, Wrong
<1>4. AttemptsAreBounded'
  BY DEF Entering, VerifyOpens, AttemptsAreBounded, At, Ends, accountVars, Rest, Wrong
<1>5. CodesUsedOnce'
  <2> DEFINE c == call[d].code
  <2>1. /\ c \in DOMAIN codes /\ codes[c].consumed /\ opened[c] = 0 /\ Accepted(d)
        /\ \A e \in Devices : Accepted(e) => call[e].code \in DOMAIN codes
    BY DEF VerifyOpens, Entering, CallsTyped, CodesUsedOnce, Accepted, At
  <2>2. /\ ~Accepted(d)' /\ codes' = codes
        /\ \A e \in Devices : Accepted(e)' => Accepted(e) /\ call'[e] = call[e]
    BY CallEnded DEF VerifyOpens
  <2>3. CASE opened' = opened
    BY <2>2, <2>3 DEF CodesUsedOnce, OneSessionPerCode, Entering
  <2>4. CASE opened' = [opened EXCEPT ![c] = @ + 1]
    <3>1. /\ DOMAIN opened' = DOMAIN opened /\ opened'[c] = 1
          /\ \A k \in DOMAIN opened : k # c => opened'[k] = opened[k]
      BY <2>1, <2>4, RowsAreTyped
    <3>2. \A e \in Devices : Accepted(e)' => e # d /\ call'[e].code # c
      BY <2>1, <2>2 DEF CodesUsedOnce, Entering
    <3>3. CodesUsedOnce
      BY DEF Entering
    <3>4. OneSessionPerCode'
      BY <3>1, <3>3, RowsAreTyped DEF CodesUsedOnce, OneSessionPerCode
    <3>5. \A k \in DOMAIN codes' : opened'[k] > 0 => codes'[k].consumed
      BY <2>1, <2>2, <3>1, <3>3, RowsAreTyped DEF CodesUsedOnce
    <3>6. \A e \in Devices : Accepted(e)'
            => codes'[call'[e].code].consumed /\ opened'[call'[e].code] = 0
      BY <2>1, <2>2, <3>1, <3>2, <3>3, RowsAreTyped DEF CodesUsedOnce
    <3>7. \A e, g \in Devices : Accepted(e)' /\ Accepted(g)' /\ e # g
            => call'[e].code # call'[g].code
      BY <2>2, <3>3 DEF CodesUsedOnce
    <3> QED
      BY <3>4, <3>5, <3>6, <3>7 DEF CodesUsedOnce
  <2> QED
    BY <2>3, <2>4 DEF VerifyOpens
<1>6. OneLive'
  BY DEF Entering, VerifyOpens, OneLive, At, Ends, accountVars, Rest, Wrong
<1>7. HourCounted'
  <2>1. Asking' \subseteq Asking /\ CodesOfTheHour' \subseteq CodesOfTheHour
    BY DEF Entering, CodesTyped, CallsTyped, CallTypes, CodeTypes, Ages, Past, Asking,
       CodesOfTheHour,
       VerifyOpens, At, Goes, Ends, Rest, codeVars, accountVars
  <2> QED
    BY <2>1, HourKept
<1> QED
  BY <1>1, <1>2, <1>3, <1>4, <1>5, <1>6, <1>7 DEF Entering

LEMMA CallDiesStep ==
  ASSUME Entering, NEW d \in Devices, CallDies(d)
  PROVE  Entering'
<1>1. CodesTyped'
  BY DEF Entering, CallDies, CodesTyped, At, Ends, codeVars, accountVars, CodeTypes,
    Rest, Purposes, Ages, Wrong
<1>2. CallsTyped'
  BY ShopperAssumption DEF Entering, CallDies, CallsTyped, CodesTyped, At, Ends,
    codeVars, accountVars, CallTypes, Accepted, CodeTypes, Rest, Purposes, Ages, Wrong
<1>3. AccountTyped'
  BY DEF Entering, CallDies, AccountTyped, At, Ends, codeVars, accountVars, Rest, Wrong
<1>4. AttemptsAreBounded'
  BY DEF Entering, CallDies, AttemptsAreBounded, At, Ends, codeVars, accountVars, Rest,
    Wrong
<1>5. CodesUsedOnce'
  BY DEF Entering, CallDies, CodesUsedOnce, At, Ends, codeVars, accountVars, Accepted,
    OneSessionPerCode, Rest, Wrong
<1>6. OneLive'
  BY DEF Entering, CallDies, OneLive, At, Ends, codeVars, accountVars, Rest, Wrong
<1>7. HourCounted'
  <2>1. Asking' \subseteq Asking /\ CodesOfTheHour' \subseteq CodesOfTheHour
    BY DEF Entering, CodesTyped, CallsTyped, CallTypes, CodeTypes, Ages, Past, Asking,
       CodesOfTheHour,
       CallDies, At, Goes, Ends, Rest, codeVars, accountVars
  <2> QED
    BY <2>1, HourKept
<1> QED
  BY <1>1, <1>2, <1>3, <1>4, <1>5, <1>6, <1>7 DEF Entering

LEMMA PasswordChecksStep ==
  ASSUME Entering, NEW d \in Devices, PasswordChecks(d)
  PROVE  Entering'
<1>1. CodesTyped'
  BY DEF Entering, PasswordChecks, CodesTyped, At, Goes, codeVars, accountVars,
    CodeTypes, Purposes, Ages
<1>2. CallsTyped'
  BY DEF Entering, PasswordChecks, CallsTyped, At, Goes, codeVars, accountVars,
    CallTypes, Accepted, Purposes
<1>3. AccountTyped'
  BY DEF Entering, PasswordChecks, AccountTyped, At, Goes, codeVars, accountVars
<1>4. AttemptsAreBounded'
  BY DEF Entering, PasswordChecks, AttemptsAreBounded, At, Goes, codeVars, accountVars
<1>5. CodesUsedOnce'
  BY DEF Entering, PasswordChecks, CodesUsedOnce, At, Goes, codeVars, accountVars,
    Accepted, OneSessionPerCode
<1>6. OneLive'
  BY DEF Entering, PasswordChecks, OneLive, At, Goes, codeVars, accountVars
<1>7. HourCounted'
  <2>1. Asking' \subseteq Asking /\ CodesOfTheHour' \subseteq CodesOfTheHour
    BY DEF Entering, CodesTyped, CallsTyped, CallTypes, CodeTypes, Ages, Past, Asking,
       CodesOfTheHour,
       PasswordChecks, At, Goes, Ends, Rest, codeVars, accountVars
  <2> QED
    BY <2>1, HourKept
<1> QED
  BY <1>1, <1>2, <1>3, <1>4, <1>5, <1>6, <1>7 DEF Entering

LEMMA PasswordOpensStep ==
  ASSUME Entering, NEW d \in Devices, PasswordOpens(d)
  PROVE  Entering'
<1>1. CodesTyped'
  BY DEF Entering, PasswordOpens, CodesTyped, At, Ends, codeVars, CodeTypes, Rest,
    Purposes, Ages, Wrong
<1>2. CallsTyped'
  BY ShopperAssumption DEF Entering, PasswordOpens, CallsTyped, CodesTyped, At, Ends,
    codeVars, CallTypes, Accepted, CodeTypes, Rest, Purposes, Ages, Wrong
<1>3. AccountTyped'
  BY ShopperAssumption DEF Entering, PasswordOpens, AccountTyped, CodesTyped, At, Ends,
    codeVars, CodeTypes, Rest, Purposes, Ages, Wrong
<1>4. AttemptsAreBounded'
  BY DEF Entering, PasswordOpens, AttemptsAreBounded, At, Ends, codeVars, Rest, Wrong
<1>5. CodesUsedOnce'
  BY DEF Entering, PasswordOpens, CodesUsedOnce, At, Ends, codeVars, Accepted,
    OneSessionPerCode, Rest, Wrong
<1>6. OneLive'
  BY DEF Entering, PasswordOpens, OneLive, At, Ends, codeVars, Rest, Wrong
<1>7. HourCounted'
  <2>1. Asking' \subseteq Asking /\ CodesOfTheHour' \subseteq CodesOfTheHour
    BY DEF Entering, CodesTyped, CallsTyped, CallTypes, CodeTypes, Ages, Past, Asking,
       CodesOfTheHour,
       PasswordOpens, At, Goes, Ends, Rest, codeVars, accountVars
  <2> QED
    BY <2>1, HourKept
<1> QED
  BY <1>1, <1>2, <1>3, <1>4, <1>5, <1>6, <1>7 DEF Entering

LEMMA EnteringInit == ShopperInit => Entering
<1> SUFFICES ASSUME ShopperInit PROVE Entering
  OBVIOUS
<1>1. CodesTyped /\ CallsTyped /\ AccountTyped
  <2>1. Rest \in CallTypes
    BY NewCall, ShopperAssumption DEF Rest, CallStages, Purposes, Wrong
  <2> QED
    <3>1. CodesTyped
      BY ShopperAssumption DEF ShopperInit, CodesTyped
    <3>2. CallsTyped
      BY <2>1 DEF ShopperInit, CallsTyped, Accepted, At, Rest
    <3>3. account \in {"none", "active", "blocked"} /\ revoking \in BOOLEAN
      BY Zenon DEF ShopperInit
    <3> QED
      BY <3>1, <3>2, <3>3, ShopperAssumption DEF ShopperInit, AccountTyped
<1>2. AttemptsAreBounded /\ CodesUsedOnce /\ OneLive
  BY DEF ShopperInit, AttemptsAreBounded, CodesUsedOnce, OneLive, OneSessionPerCode,
     Accepted,
         At, Rest
<1>3. HourCounted
  <2>1. CodesOfTheHour = {} /\ Asking = {}
    BY DEF ShopperInit, CodesOfTheHour, Asking, At, Rest
  <2> QED
    BY <2>1, FS_EmptySet, FS_CardinalityType, ShopperAssumption DEF HourCounted
<1> QED
  BY <1>1, <1>2, <1>3 DEF Entering

LEMMA EnteringStep == Entering /\ [ShopperNext]_shopperVars => Entering'
<1> SUFFICES ASSUME Entering, [ShopperNext]_shopperVars PROVE Entering'
  OBVIOUS
<1>1. CASE UNCHANGED shopperVars
  BY <1>1 DEF Entering, CodesTyped, CallsTyped, AccountTyped, AttemptsAreBounded,
     CodesUsedOnce,
     OneSessionPerCode, OneLive, HourCounted, Accepted, Asking, CodesOfTheHour, At,
     shopperVars, codeVars, accountVars
<1>2. CASE ShopperNext
  BY <1>2, CodesAgeStep, LogoutStep, LogoutEverywhereStep, SetStatusStep,
     StatusRevokesStep,
     RequestCountsStep, VerifyLooksStep, RequestBurnsStep, RequestInsertsStep,
     VerifyCodeStep, VerifyReadsAccountStep, VerifyOpensStep, CallDiesStep,
     PasswordChecksStep, PasswordOpensStep
  DEF ShopperNext
<1> QED
  BY <1>1, <1>2

LEMMA EnteringHolds == Entering => CodesHold
<1> SUFFICES ASSUME Entering PROVE CodesHold
  OBVIOUS
<1>1. ShopperTypeOK /\ OneSessionPerCode /\ AttemptsAreBounded
  BY DEF Entering, CodesTyped, CallsTyped, AccountTyped, CodesUsedOnce, ShopperTypeOK,
     Accepted,
         At
<1>2. NewCodeBurnsOld
  <2> SUFFICES ASSUME NEW p \in Purposes
               PROVE  Cardinality({i \in DOMAIN codes :
                        codes[i].purpose = p /\ ~codes[i].consumed}) <= 1
    BY DEF NewCodeBurnsOld
  <2> DEFINE S == {i \in DOMAIN codes : codes[i].purpose = p /\ ~codes[i].consumed}
  <2>1. \A i, j \in S : i = j
    BY DEF Entering, OneLive
  <2> HIDE DEF S
  <2>2. S = {} \/ \E x : S = {x}
    BY <2>1
  <2>3. ASSUME S = {} PROVE Cardinality(S) <= 1
    BY <2>3, FS_EmptySet
  <2>4. ASSUME NEW x, S = {x} PROVE Cardinality(S) <= 1
    BY <2>4, FS_Singleton
  <2> QED
    <3>1. Cardinality(S) <= 1
      BY <2>2, <2>3, <2>4
    <3> QED
      BY <3>1 DEF S
<1>3. HourIsBounded
  BY Counts, ShopperAssumption DEF HourIsBounded, CodesOfTheHour
<1> QED
  BY <1>1, <1>2, <1>3 DEF CodesHold

\* For any number of devices, a code opens one session and is tried a bounded number
\* of times, one code of a purpose is unused and the codes of an hour are bounded.
THEOREM CodesAreBounded == ShopperSpec => []CodesHold
BY EnteringInit, EnteringStep, EnteringHolds, PTL DEF ShopperSpec

-----------------------------------------------------------------------------
(* The cart: one order, with what was shown.                                 *)

CartRows == [status : {"active", "checked_out"}, lines : [Variants -> LineTypes]]

TabRows == [at : {"rest", "add", "checkout", "pay"}, cart : Nat,
  v : Variants \cup {NoTab},
            qty : 0 .. MaxLine, atAdd : Prices \cup {0}]

CartsTyped ==
  /\ carts \in Seq(CartRows) /\ Len(carts) <= MaxCarts
  /\ lock \in Seq(Tabs \cup {NoTab}) /\ Len(lock) = Len(carts)

TabsTyped ==
  /\ tab \in [Tabs -> TabRows]
  /\ \A t \in Tabs : tab[t].at # "rest" => tab[t].cart \in DOMAIN carts
  /\ \A t \in Tabs : tab[t].at = "add" => tab[t].v \in Variants

ShopTyped ==
  /\ cookie \in {NoCart} \cup DOMAIN carts /\ signedIn \in BOOLEAN /\ refused \in BOOLEAN
  /\ price \in [Variants -> Prices] /\ seen = [t \in Tabs |-> seen[t]]

PlacedTyped ==
  /\ \E S : placed \in Seq(S)
  /\ \A i \in DOMAIN placed : placed[i].cart \in DOMAIN carts

\* A checkout holds the row of its cart, which is active until it becomes an order.
CartsAreHeld ==
  /\ \A t \in Tabs : tab[t].at = "checkout" =>
        lock[tab[t].cart] = t /\ carts[tab[t].cart].status = "active"
  /\ \A i \in DOMAIN placed : carts[placed[i].cart].status = "checked_out"

OrdersDiffer == \A i, j \in DOMAIN placed : placed[i].cart = placed[j].cart => i = j

\* What a tab shows is the total of the cart that the browser knows, and a checkout of
\* a tab that shows one is of this cart.
TabsShowTheCart ==
  /\ \A t \in Tabs : seen[t] # NotSeen =>
       /\ cookie # NoCart
       /\ seen[t] = Total(carts[cookie].lines, ShownUnit(carts[cookie].lines))
  /\ \A t \in Tabs : tab[t].at = "checkout" /\ seen[t] # NotSeen => tab[t].cart = cookie

Shopping ==
  /\ CartsTyped /\ TabsTyped /\ ShopTyped /\ PlacedTyped
  /\ CartsAreHeld /\ OrdersDiffer /\ TabsShowTheCart /\ ChargedAsShown

\* What a checkout of a tab that shows the cart has read is still in the cart.
BasketsAreCurrent ==
  /\ bought = [t \in Tabs |-> bought[t]]
  /\ \A t \in Tabs : tab[t].at = "checkout" /\ seen[t] # NotSeen =>
       bought[t] = carts[cookie].lines

LEMMA LeastOfTwo ==
  ASSUME NEW a \in Int, NEW b \in Int
  PROVE  Min({a, b}) \in {a, b} /\ Min({a, b}) <= a /\ Min({a, b}) <= b
<1>1. \E x \in {a, b} : \A y \in {a, b} : x <= y
  OBVIOUS
<1>2. Min({a, b}) = CHOOSE x \in {a, b} : \A y \in {a, b} : x <= y
  BY DEF Min
<1>3. Min({a, b}) \in {a, b} /\ \A y \in {a, b} : Min({a, b}) <= y
  BY <1>1, <1>2
<1> QED
  BY <1>3

LEMMA RowsOfTheCart ==
  ASSUME Shopping
  PROVE  /\ carts \in Seq(CartRows) /\ Len(carts) \in Nat /\ Len(carts) <= MaxCarts
         /\ lock \in Seq(Tabs \cup {NoTab}) /\ Len(lock) = Len(carts)
         /\ DOMAIN carts = 1 .. Len(carts) /\ DOMAIN lock = DOMAIN carts
         /\ \A c \in DOMAIN carts : carts[c] \in CartRows /\ lock[c] \in Tabs \cup {NoTab}
         /\ \A t \in Tabs : tab[t] \in TabRows
         /\ \A t \in Tabs : tab[t].at # "rest" => tab[t].cart \in DOMAIN carts
         /\ \A t \in Tabs : tab[t].at = "add" => tab[t].v \in Variants
BY DEF Shopping, CartsTyped, TabsTyped

LEMMA CartSet ==
  ASSUME Shopping, NEW c \in DOMAIN carts, NEW y \in CartRows,
           carts' = [carts EXCEPT ![c] = y]
  PROVE  /\ carts' \in Seq(CartRows) /\ Len(carts') = Len(carts)
         /\ DOMAIN carts' = DOMAIN carts /\ carts'[c] = y
         /\ \A k \in DOMAIN carts : k # c => carts'[k] = carts[k]
BY DEF Shopping, CartsTyped

LEMMA LockFreed ==
  ASSUME Shopping, NEW c \in DOMAIN carts, lock' = [lock EXCEPT ![c] = NoTab]
  PROVE  lock' \in Seq(Tabs \cup {NoTab}) /\ Len(lock') = Len(lock)
<1> DEFINE S == Tabs \cup {NoTab}
<1>1. lock \in Seq(S) /\ NoTab \in S
  BY RowsOfTheCart
<1> HIDE DEF S
<1>2. Len(lock) \in Nat /\ DOMAIN lock = 1 .. Len(lock) /\
        \A k \in 1 .. Len(lock) : lock[k] \in S
  BY <1>1
<1>3. lock' = [k \in 1 .. Len(lock) |-> IF k = c THEN NoTab ELSE lock[k]]
  BY <1>2
<1>4. \A k \in 1 .. Len(lock) : lock'[k] \in S
  BY <1>1, <1>2, <1>3
<1>5. lock' \in [1 .. Len(lock) -> S]
  BY <1>3, <1>4
<1>6. \A n \in Nat : \A f \in [1 .. n -> S] : f \in Seq(S) /\ Len(f) = n
  OBVIOUS
<1>7. lock' \in Seq(S) /\ Len(lock') = Len(lock)
  BY <1>2, <1>5, <1>6
<1> QED
  BY <1>7 DEF S

LEMMA TabSet ==
  ASSUME Shopping, NEW t \in Tabs, NEW y \in TabRows, Moves(t, y)
  PROVE  /\ tab' \in [Tabs -> TabRows] /\ tab'[t] = y
         /\ \A u \in Tabs : u # t => tab'[u] = tab[u]
BY DEF Shopping, TabsTyped, Moves

LEMMA StillRow == Still \in TabRows /\ Still.at = "rest"
BY CartAssumption DEF Still, TabRows, NoCart

\* A row of a cart with another line, or with another status.
LEMMA TabRowTypes ==
  ASSUME NEW y \in CartRows, NEW v \in Variants, NEW l \in LineTypes
  PROVE  /\ y.lines \in [Variants -> LineTypes] /\ y.lines[v] \in LineTypes
         /\ [y EXCEPT !.lines[v] = l] \in CartRows
         /\ [y EXCEPT !.lines[v] = l].status = y.status
<1>1. y.lines \in [Variants -> LineTypes] /\ y.status \in {"active", "checked_out"}
  BY DEF CartRows
<1> DEFINE m == [y.lines EXCEPT ![v] = l]
<1>2. m \in [Variants -> LineTypes]
  BY <1>1
<1> HIDE DEF m
<1>3. [y EXCEPT !.lines = m] \in CartRows /\ [y EXCEPT !.lines = m].status = y.status
  BY <1>1, <1>2 DEF CartRows
<1>4. [y EXCEPT !.lines[v] = l] = [y EXCEPT !.lines = m]
  BY DEF m
<1> QED
  BY <1>1, <1>3, <1>4

LEMMA CheckedOut ==
  ASSUME NEW y \in CartRows
  PROVE  /\ [y EXCEPT !.status = "checked_out"] \in CartRows
         /\ [y EXCEPT !.status = "checked_out"].status = "checked_out"
         /\ [y EXCEPT !.status = "checked_out"].lines = y.lines
BY DEF CartRows

LEMMA AddedLine ==
  ASSUME NEW l \in LineTypes, NEW q \in 0 .. MaxLine, NEW p \in Prices \cup {0}
  PROVE  /\ Added(l, q, p) \in LineTypes
         /\ [qty |-> q, atAdd |-> IF l.qty = 0 THEN p ELSE l.atAdd] \in LineTypes
<1>1. l.qty \in 0 .. MaxLine /\ l.atAdd \in Prices \cup {0} /\ MaxLine \in Nat
  BY CartAssumption DEF LineTypes
<1>2. Min({l.qty + q, MaxLine}) \in 0 .. MaxLine
  <2>1. l.qty + q \in Nat /\ MaxLine \in Nat
    BY <1>1
  <2>2. \A a, b \in Nat : Min({a, b}) \in 0 .. b
    BY LeastOfTwo
  <2> QED
    BY <2>1, <2>2
<1>3. [l EXCEPT !.qty = Min({@ + q, MaxLine})] \in LineTypes
  BY <1>2 DEF LineTypes
<1> QED
  BY <1>1, <1>3 DEF Added, LineTypes

LEMMA EmptyLines == Empty \in [Variants -> LineTypes] /\
  \A v \in Variants : Empty[v] \in LineTypes
BY CartAssumption DEF Empty, LineTypes

\* A checkout that makes an order of its cart.
LEMMA OrderIsPlaced ==
  ASSUME Shopping, NEW t \in Tabs, CheckoutCommits(t), ~signedIn
  PROVE  /\ tab[t].cart \in DOMAIN carts /\ carts[tab[t].cart].status = "active"
         /\ lock[tab[t].cart] = t
         /\ carts' \in Seq(CartRows) /\ Len(carts') = Len(carts) /\
              DOMAIN carts' = DOMAIN carts
         /\ carts'[tab[t].cart].status = "checked_out"
         /\ carts'[tab[t].cart].lines = carts[tab[t].cart].lines
         /\ \A k \in DOMAIN carts : k # tab[t].cart => carts'[k] = carts[k]
         /\ tab' \in [Tabs -> TabRows] /\ tab'[t].at = "pay" /\ tab'[t].cart = tab[t].cart
         /\ \A u \in Tabs : u # t => tab'[u] = tab[u]
<1> DEFINE c == tab[t].cart
<1>1. c \in DOMAIN carts /\ carts[c].status = "active" /\ lock[c] = t
  BY DEF CheckoutCommits, Shopping, TabsTyped, CartsAreHeld
<1>2. carts' = [carts EXCEPT ![c] = [carts[c] EXCEPT !.status = "checked_out"]]
  BY <1>1 DEF CheckoutCommits
<1> DEFINE y == [Still EXCEPT !.at = "pay", !.cart = c]
<1>3. y \in TabRows /\ y.at = "pay" /\ y.cart = c
  <2>1. c \in Nat
    BY <1>1, RowsOfTheCart
  <2>2. /\ Still = [at |-> "rest", cart |-> 0, v |-> NoTab, qty |-> 0, atAdd |-> 0]
        /\ MaxLine \in Nat
    BY CartAssumption DEF Still, NoCart
  <2> DEFINE z == [Still EXCEPT !.at = "pay"]
  <2>3. z = [at |-> "pay", cart |-> 0, v |-> NoTab, qty |-> 0, atAdd |-> 0]
    BY <2>2
  <2> HIDE DEF z, c
  <2>4. [z EXCEPT !.cart = c] = [at |-> "pay", cart |-> c, v |-> NoTab, qty |-> 0,
          atAdd |-> 0]
    BY <2>3
  <2>5. y = [z EXCEPT !.cart = c]
    BY DEF z
  <2> QED
    BY <2>1, <2>2, <2>4, <2>5 DEF TabRows
<1>4. Moves(t, y)
  BY DEF CheckoutCommits
<1> HIDE DEF y
<1>5. tab' \in [Tabs -> TabRows] /\ tab'[t] = y /\ \A u \in Tabs : u # t
        => tab'[u] = tab[u]
  BY <1>3, <1>4, TabSet
<1>6. /\ carts' \in Seq(CartRows) /\ Len(carts') = Len(carts) /\
           DOMAIN carts' = DOMAIN carts
      /\ carts'[c].status = "checked_out" /\ carts'[c].lines = carts[c].lines
      /\ \A k \in DOMAIN carts : k # c => carts'[k] = carts[k]
  BY <1>1, <1>2, RowsOfTheCart, CheckedOut, CartSet
<1> QED
  BY <1>1, <1>3, <1>5, <1>6

\* A checkout of a shopper who is signed in changes no cart.
LEMMA TabIsRefused ==
  ASSUME Shopping, NEW t \in Tabs, CheckoutCommits(t), signedIn
  PROVE  /\ carts' = carts /\ placed' = placed /\ tab' \in [Tabs -> TabRows]
         /\ tab'[t] = Still /\ \A u \in Tabs : u # t => tab'[u] = tab[u]
BY TabSet, StillRow DEF CheckoutCommits, Stops

LEMMA SignsInOrOutStep ==
  ASSUME Shopping, SignsInOrOut
  PROVE  Shopping'
<1>1. CartsTyped'
  BY DEF Shopping, SignsInOrOut, CartsTyped, CartRows, NoTab, LineTypes
<1>2. TabsTyped'
  BY DEF Shopping, SignsInOrOut, TabsTyped, TabRows, NoTab
<1>3. ShopTyped'
  BY DEF Shopping, SignsInOrOut, ShopTyped, NoCart
<1>4. PlacedTyped'
  BY DEF Shopping, SignsInOrOut, PlacedTyped
<1>5. CartsAreHeld'
  BY DEF Shopping, SignsInOrOut, CartsAreHeld
<1>6. OrdersDiffer'
  BY DEF Shopping, SignsInOrOut, OrdersDiffer
<1>7. TabsShowTheCart'
  BY DEF Shopping, SignsInOrOut, TabsShowTheCart, NotSeen, NoCart, ShownUnit
<1>8. ChargedAsShown'
  BY DEF Shopping, SignsInOrOut, ChargedAsShown, NotSeen
<1> QED
  BY <1>1, <1>2, <1>3, <1>4, <1>5, <1>6, <1>7, <1>8 DEF Shopping

LEMMA RemoveItemStep ==
  ASSUME Shopping, NEW v \in Variants, RemoveItem(v)
  PROVE  Shopping'
<1>1. CartsTyped'
  <2> DEFINE y == [carts[cookie] EXCEPT !.lines[v] = Empty[v]]
  <2>1. cookie \in DOMAIN carts /\ v \in Variants /\ Empty[v] \in LineTypes
    BY EmptyLines DEF RemoveItem, Shopping, ShopTyped
  <2>2. y \in CartRows
    BY <2>1, RowsOfTheCart, TabRowTypes
  <2>3. carts' = [carts EXCEPT ![cookie] = y]
    BY <2>1 DEF RemoveItem
  <2> HIDE DEF y
  <2>4. carts' \in Seq(CartRows) /\ Len(carts') = Len(carts)
    BY <2>1, <2>2, <2>3, CartSet
  <2> QED
    BY <2>4, RowsOfTheCart DEF RemoveItem, CartsTyped
<1>2. TabsTyped'
  BY DEF Shopping, RemoveItem, TabsTyped, NoCart, Empty, Outdated, TabRows, NotSeen,
    NoTab
<1>3. ShopTyped'
  BY DEF Shopping, RemoveItem, ShopTyped, NoCart, Empty, Outdated, NotSeen
<1>4. PlacedTyped'
  BY DEF Shopping, RemoveItem, PlacedTyped, NoCart, Empty, Outdated, NotSeen
<1>5. CartsAreHeld'
  BY DEF Shopping, RemoveItem, CartsAreHeld, NoCart, Empty, Outdated, NotSeen
<1>6. OrdersDiffer'
  BY DEF Shopping, RemoveItem, OrdersDiffer, NoCart, Empty, Outdated, NotSeen
<1>7. TabsShowTheCart'
  BY DEF Shopping, RemoveItem, TabsShowTheCart, NoCart, Empty, Outdated, NotSeen,
    ShownUnit
<1>8. ChargedAsShown'
  BY DEF Shopping, RemoveItem, ChargedAsShown, NoCart, Empty, Outdated, NotSeen
<1> QED
  BY <1>1, <1>2, <1>3, <1>4, <1>5, <1>6, <1>7, <1>8 DEF Shopping

LEMMA SetPriceStep ==
  ASSUME Shopping, NEW v \in Variants, SetPrice(v)
  PROVE  Shopping'
<1>1. CartsTyped'
  BY DEF Shopping, SetPrice, CartsTyped, Outdated, CartRows, NoTab, NotSeen, LineTypes
<1>2. TabsTyped'
  BY DEF Shopping, SetPrice, TabsTyped, Outdated, TabRows, NotSeen, NoTab
<1>3. ShopTyped'
  BY DEF Shopping, SetPrice, ShopTyped, Outdated, NoCart, NotSeen
<1>4. PlacedTyped'
  BY DEF Shopping, SetPrice, PlacedTyped, Outdated, NotSeen
<1>5. CartsAreHeld'
  BY DEF Shopping, SetPrice, CartsAreHeld, Outdated, NotSeen
<1>6. OrdersDiffer'
  BY DEF Shopping, SetPrice, OrdersDiffer, Outdated, NotSeen
<1>7. TabsShowTheCart'
  BY DEF Shopping, SetPrice, TabsShowTheCart, Outdated, NotSeen, NoCart, ShownUnit
<1>8. ChargedAsShown'
  BY DEF Shopping, SetPrice, ChargedAsShown, Outdated, NotSeen
<1> QED
  BY <1>1, <1>2, <1>3, <1>4, <1>5, <1>6, <1>7, <1>8 DEF Shopping

LEMMA AddReadsStep ==
  ASSUME Shopping, NEW t \in Tabs, NEW v \in Variants, NEW q \in 1 .. MaxLine,
         AddReads(t, v, q)
  PROVE  Shopping'
<1>1. CartsTyped'
  BY DEF Shopping, AddReads, CartsTyped, NoCart, Moves, CartRows, NoTab, LineTypes
<1>2. TabsTyped'
  BY CartAssumption DEF Shopping, AddReads, TabsTyped, CartsTyped, ShopTyped, NoCart,
    Moves, TabRows, CartRows, NoTab, LineTypes
<1>3. ShopTyped'
  BY DEF Shopping, AddReads, ShopTyped, NoCart, Moves
<1>4. PlacedTyped'
  BY DEF Shopping, AddReads, PlacedTyped, NoCart, Moves
<1>5. CartsAreHeld'
  BY DEF Shopping, AddReads, CartsAreHeld, NoCart, Moves
<1>6. OrdersDiffer'
  BY DEF Shopping, AddReads, OrdersDiffer, NoCart, Moves
<1>7. TabsShowTheCart'
  BY DEF Shopping, AddReads, TabsShowTheCart, NoCart, Moves, NotSeen, ShownUnit
<1>8. ChargedAsShown'
  BY DEF Shopping, AddReads, ChargedAsShown, NoCart, Moves, NotSeen
<1> QED
  BY <1>1, <1>2, <1>3, <1>4, <1>5, <1>6, <1>7, <1>8 DEF Shopping

LEMMA CreateCartStep ==
  ASSUME Shopping, NEW t \in Tabs, CreateCart(t)
  PROVE  Shopping'
<1>1. CartsTyped'
  <2> DEFINE y == [status |-> "active", lines |-> Empty]
  <2>1. y \in CartRows
    BY EmptyLines DEF CartRows
  <2> HIDE DEF y
  <2>2. CASE signedIn
    BY <2>2 DEF CreateCart, Shopping, CartsTyped
  <2>3. CASE ~signedIn
    <3>1. carts' = Append(carts, y) /\ lock' = Append(lock,
            NoTab) /\ Len(carts) < MaxCarts
          /\ cookie' = Len(carts) + 1
      BY <2>3 DEF CreateCart, y
    <3>2. /\ carts' \in Seq(CartRows) /\ Len(carts') = Len(carts) + 1
          /\ lock' \in Seq(Tabs \cup {NoTab}) /\ Len(lock') = Len(carts) + 1
          /\ DOMAIN carts' = 1 .. Len(carts) + 1
          /\ \A c \in DOMAIN carts : carts'[c] = carts[c] /\ lock'[c] = lock[c]
      BY <2>1, <3>1, RowsOfTheCart
    <3> QED
      BY <3>1, <3>2, RowsOfTheCart, CartAssumption DEF CartsTyped
  <2> QED
    BY <2>2, <2>3
<1>2. TabsTyped'
  BY DEF Shopping, CreateCart, TabsTyped, NoCart, Empty, NoTab, TabRows
<1>3. ShopTyped'
  <2> DEFINE y == [status |-> "active", lines |-> Empty]
  <2>1. y \in CartRows
    BY EmptyLines DEF CartRows
  <2> HIDE DEF y
  <2>2. CASE signedIn
    BY <2>2, Zenon DEF CreateCart, Shopping, ShopTyped
  <2>3. CASE ~signedIn
    <3>1. carts' = Append(carts, y) /\ lock' = Append(lock,
            NoTab) /\ Len(carts) < MaxCarts
          /\ cookie' = Len(carts) + 1
      BY <2>3 DEF CreateCart, y
    <3>2. /\ carts' \in Seq(CartRows) /\ Len(carts') = Len(carts) + 1
          /\ lock' \in Seq(Tabs \cup {NoTab}) /\ Len(lock') = Len(carts) + 1
          /\ DOMAIN carts' = 1 .. Len(carts) + 1
          /\ \A c \in DOMAIN carts : carts'[c] = carts[c] /\ lock'[c] = lock[c]
      BY <2>1, <3>1, RowsOfTheCart
    <3>3. signedIn' = signedIn /\ refused' = refused /\ price' = price /\ seen' = seen
      BY <2>3 DEF CreateCart
    <3>4. cookie' \in DOMAIN carts'
      BY <3>1, <3>2, RowsOfTheCart
    <3>5. ShopTyped
      BY DEF Shopping
    <3> QED
      BY <3>3, <3>4, <3>5 DEF ShopTyped
  <2> QED
    BY <2>2, <2>3
<1>4. PlacedTyped'
  BY DEF Shopping, CreateCart, PlacedTyped, NoCart, Empty, NoTab
<1>5. CartsAreHeld'
  <2> DEFINE y == [status |-> "active", lines |-> Empty]
  <2>1. y \in CartRows
    BY EmptyLines DEF CartRows
  <2> HIDE DEF y
  <2>2. CASE signedIn
    BY <2>2 DEF CreateCart, Shopping, CartsAreHeld
  <2>3. CASE ~signedIn
    <3>1. carts' = Append(carts, y) /\ lock' = Append(lock,
            NoTab) /\ Len(carts) < MaxCarts
          /\ cookie' = Len(carts) + 1
      BY <2>3 DEF CreateCart, y
    <3>2. /\ carts' \in Seq(CartRows) /\ Len(carts') = Len(carts) + 1
          /\ lock' \in Seq(Tabs \cup {NoTab}) /\ Len(lock') = Len(carts) + 1
          /\ DOMAIN carts' = 1 .. Len(carts) + 1
          /\ \A c \in DOMAIN carts : carts'[c] = carts[c] /\ lock'[c] = lock[c]
      BY <2>1, <3>1, RowsOfTheCart
    <3>3. /\ \A i \in DOMAIN placed : placed[i].cart \in DOMAIN carts
          /\ tab' = tab /\ placed' = placed
      BY DEF Shopping, PlacedTyped, CreateCart
    <3>4. CartsAreHeld
      BY DEF Shopping
    <3> QED
      BY <3>2, <3>3, <3>4, RowsOfTheCart DEF CartsAreHeld
  <2> QED
    BY <2>2, <2>3
<1>6. OrdersDiffer'
  BY DEF Shopping, CreateCart, OrdersDiffer, NoCart, Empty, NoTab
<1>7. TabsShowTheCart'
  BY DEF Shopping, CreateCart, TabsShowTheCart, NoCart, Empty, NoTab, NotSeen, ShownUnit
<1>8. ChargedAsShown'
  BY DEF Shopping, CreateCart, ChargedAsShown, NoCart, Empty, NoTab, NotSeen
<1> QED
  BY <1>1, <1>2, <1>3, <1>4, <1>5, <1>6, <1>7, <1>8 DEF Shopping

LEMMA AddCommitsStep ==
  ASSUME Shopping, NEW t \in Tabs, AddCommits(t)
  PROVE  Shopping'
<1>1. CartsTyped'
  <2> DEFINE y == [carts[tab[t].cart] EXCEPT !.lines[tab[t].v] =
               Added(carts[tab[t].cart].lines[tab[t].v], tab[t].qty, tab[t].atAdd)]
  <2>1. /\ tab[t].cart \in DOMAIN carts /\ tab[t].v \in Variants
        /\ Added(carts[tab[t].cart].lines[tab[t].v], tab[t].qty,
             tab[t].atAdd) \in LineTypes
    <3>1. /\ tab[t].cart \in DOMAIN carts /\ tab[t].v \in Variants
          /\ tab[t].qty \in 0 .. MaxLine /\ tab[t].atAdd \in Prices \cup {0}
      BY RowsOfTheCart DEF AddCommits, TabRows
    <3>2. carts[tab[t].cart].lines[tab[t].v] \in LineTypes
      BY <3>1, RowsOfTheCart DEF CartRows
    <3> QED
      BY <3>1, <3>2, AddedLine
  <2>2. y \in CartRows
    BY <2>1, RowsOfTheCart, TabRowTypes
  <2>3. carts' = [carts EXCEPT ![tab[t].cart] = y]
    BY <2>1 DEF AddCommits
  <2> HIDE DEF y
  <2>4. carts' \in Seq(CartRows) /\ Len(carts') = Len(carts)
    BY <2>1, <2>2, <2>3, CartSet
  <2> QED
    BY <2>4, RowsOfTheCart DEF AddCommits, CartsTyped
<1>2. TabsTyped'
  BY CartAssumption DEF Shopping, AddCommits, TabsTyped, CartsTyped, NoTab, Added,
    Stops, Outdated, TabRows, CartRows, Moves, Still, NotSeen, LineTypes, NoCart
<1>3. ShopTyped'
  BY DEF Shopping, AddCommits, ShopTyped, NoTab, Added, Stops, Outdated, NoCart, Moves,
    Still, NotSeen
<1>4. PlacedTyped'
  BY DEF Shopping, AddCommits, PlacedTyped, NoTab, Added, Stops, Outdated, Moves, Still,
    NotSeen, NoCart
<1>5. CartsAreHeld'
  <2>1. tab' = [tab EXCEPT ![t] = Still] /\ UNCHANGED <<lock, placed>>
    BY DEF AddCommits, Stops, Moves
  <2>2. tab'[t].at = "rest" /\ \A u \in Tabs : u # t => tab'[u] = tab[u]
    BY <2>1, StillRow DEF Shopping, TabsTyped
  <2>3. \A c \in DOMAIN carts : carts'[c].status = carts[c].status
    BY RowsOfTheCart DEF AddCommits, CartRows
  <2>4. /\ \A u \in Tabs : tab[u].at = "checkout" => tab[u].cart \in DOMAIN carts
        /\ \A i \in DOMAIN placed : placed[i].cart \in DOMAIN carts
        /\ CartsAreHeld
    BY RowsOfTheCart DEF Shopping, PlacedTyped
  <2> QED
    BY <2>1, <2>2, <2>3, <2>4 DEF CartsAreHeld
<1>6. OrdersDiffer'
  BY DEF Shopping, AddCommits, OrdersDiffer, NoTab, Added, Stops, Outdated, Moves,
    Still, NotSeen, NoCart
<1>7. TabsShowTheCart'
  BY DEF Shopping, AddCommits, TabsShowTheCart, NoTab, Added, Stops, Outdated, NotSeen,
    NoCart, ShownUnit, Moves, Still
<1>8. ChargedAsShown'
  BY DEF Shopping, AddCommits, ChargedAsShown, NoTab, Added, Stops, Outdated, NotSeen,
    Moves, Still, NoCart
<1> QED
  BY <1>1, <1>2, <1>3, <1>4, <1>5, <1>6, <1>7, <1>8 DEF Shopping

LEMMA ReplaceCommitsStep ==
  ASSUME Shopping, NEW t \in Tabs, ReplaceCommits(t)
  PROVE  Shopping'
<1>1. CartsTyped'
  <2> DEFINE y == [carts[tab[t].cart] EXCEPT !.lines[tab[t].v] = [qty |-> tab[t].qty,
                  atAdd |-> IF carts[tab[t].cart].lines[tab[t].v].qty =
                    0 THEN tab[t].atAdd
                            ELSE carts[tab[t].cart].lines[tab[t].v].atAdd]]
  <2>1. /\ tab[t].cart \in DOMAIN carts /\ tab[t].v \in Variants
        /\ [qty |-> tab[t].qty,
                  atAdd |-> IF carts[tab[t].cart].lines[tab[t].v].qty =
                    0 THEN tab[t].atAdd
                            ELSE carts[tab[t].cart].lines[tab[t].v].atAdd] \in LineTypes
    <3>1. /\ tab[t].cart \in DOMAIN carts /\ tab[t].v \in Variants
          /\ tab[t].qty \in 0 .. MaxLine /\ tab[t].atAdd \in Prices \cup {0}
      BY RowsOfTheCart DEF ReplaceCommits, TabRows
    <3>2. carts[tab[t].cart].lines[tab[t].v] \in LineTypes
      BY <3>1, RowsOfTheCart DEF CartRows
    <3> QED
      BY <3>1, <3>2, AddedLine
  <2>2. y \in CartRows
    BY <2>1, RowsOfTheCart, TabRowTypes
  <2>3. carts' = [carts EXCEPT ![tab[t].cart] = y]
    BY <2>1 DEF ReplaceCommits
  <2> HIDE DEF y
  <2>4. carts' \in Seq(CartRows) /\ Len(carts') = Len(carts)
    BY <2>1, <2>2, <2>3, CartSet
  <2> QED
    BY <2>4, RowsOfTheCart DEF ReplaceCommits, CartsTyped
<1>2. TabsTyped'
  BY CartAssumption DEF Shopping, ReplaceCommits, TabsTyped, CartsTyped, NoTab, Stops,
    Outdated, TabRows, CartRows, Moves, Still, NotSeen, LineTypes, NoCart
<1>3. ShopTyped'
  BY DEF Shopping, ReplaceCommits, ShopTyped, NoTab, Stops, Outdated, NoCart, Moves,
    Still, NotSeen
<1>4. PlacedTyped'
  BY DEF Shopping, ReplaceCommits, PlacedTyped, NoTab, Stops, Outdated, Moves, Still,
    NotSeen, NoCart
<1>5. CartsAreHeld'
  BY DEF Shopping, ReplaceCommits, CartsAreHeld, NoTab, Stops, Outdated, Moves, Still,
    NotSeen, NoCart
<1>6. OrdersDiffer'
  BY DEF Shopping, ReplaceCommits, OrdersDiffer, NoTab, Stops, Outdated, Moves, Still,
    NotSeen, NoCart
<1>7. TabsShowTheCart'
  BY DEF Shopping, ReplaceCommits, TabsShowTheCart, NoTab, Stops, Outdated, NotSeen,
    NoCart, ShownUnit, Moves, Still
<1>8. ChargedAsShown'
  BY DEF Shopping, ReplaceCommits, ChargedAsShown, NoTab, Stops, Outdated, NotSeen,
    Moves, Still, NoCart
<1> QED
  BY <1>1, <1>2, <1>3, <1>4, <1>5, <1>6, <1>7, <1>8 DEF Shopping

LEMMA GetCartStep ==
  ASSUME Shopping, NEW t \in Tabs, GetCart(t)
  PROVE  Shopping'
<1>1. CartsTyped'
  BY DEF Shopping, GetCart, CartsTyped, NoCart, ShownUnit, CartRows, NoTab, LineTypes
<1>2. TabsTyped'
  BY DEF Shopping, GetCart, TabsTyped, NoCart, ShownUnit, TabRows, NoTab
<1>3. ShopTyped'
  BY DEF Shopping, GetCart, ShopTyped, NoCart, ShownUnit
<1>4. PlacedTyped'
  BY DEF Shopping, GetCart, PlacedTyped, NoCart, ShownUnit
<1>5. CartsAreHeld'
  BY DEF Shopping, GetCart, CartsAreHeld, NoCart, ShownUnit
<1>6. OrdersDiffer'
  BY DEF Shopping, GetCart, OrdersDiffer, NoCart, ShownUnit
<1>7. TabsShowTheCart'
  <2> DEFINE n == Total(carts[cookie].lines, ShownUnit(carts[cookie].lines))
  <2>1. /\ tab[t].at = "rest" /\ cookie # NoCart /\ UNCHANGED <<carts, cookie, price, tab>>
        /\ seen' = [seen EXCEPT ![t] = n]
    BY DEF GetCart
  <2>2. n' = n
    BY <2>1 DEF ShownUnit
  <2> HIDE DEF n
  <2>3. seen'[t] = n /\ \A u \in Tabs : u # t => seen'[u] = seen[u]
    BY <2>1 DEF Shopping, ShopTyped
  <2>4. TabsShowTheCart
    BY DEF Shopping
  <2> QED
    BY <2>1, <2>2, <2>3, <2>4 DEF TabsShowTheCart, n
<1>8. ChargedAsShown'
  BY DEF Shopping, GetCart, ChargedAsShown, NoCart, ShownUnit, NotSeen
<1> QED
  BY <1>1, <1>2, <1>3, <1>4, <1>5, <1>6, <1>7, <1>8 DEF Shopping

LEMMA CheckoutLocksStep ==
  ASSUME Shopping, NEW t \in Tabs, CheckoutLocks(t)
  PROVE  Shopping'
<1>1. CartsTyped'
  BY CartAssumption DEF Shopping, CheckoutLocks, CartsTyped, ShopTyped, NoCart, NoTab,
    Empty, Moves, Still, CartRows, LineTypes
<1>2. TabsTyped'
  <2> DEFINE y == [Still EXCEPT !.at = "checkout", !.cart = cookie]
  <2>1. cookie \in DOMAIN carts /\ cookie \in Nat
    BY RowsOfTheCart DEF CheckoutLocks, Shopping, ShopTyped
  <2>2. y \in TabRows /\ y.at = "checkout" /\ y.cart = cookie
    <3>1. /\ Still = [at |-> "rest", cart |-> 0, v |-> NoTab, qty |-> 0, atAdd |-> 0]
          /\ MaxLine \in Nat
      BY CartAssumption DEF Still, NoCart
    <3> DEFINE z == [Still EXCEPT !.at = "checkout"]
    <3>2. z = [at |-> "checkout", cart |-> 0, v |-> NoTab, qty |-> 0, atAdd |-> 0]
      BY <3>1
    <3> HIDE DEF z
    <3>3. [z EXCEPT !.cart = cookie]
            = [at |-> "checkout", cart |-> cookie, v |-> NoTab, qty |-> 0, atAdd |-> 0]
      BY <3>2
    <3>4. y = [z EXCEPT !.cart = cookie]
      BY DEF z
    <3> QED
      BY <2>1, <3>1, <3>3, <3>4 DEF TabRows
  <2>3. Moves(t, y) /\ carts' = carts
    BY DEF CheckoutLocks
  <2> HIDE DEF y
  <2>4. tab' \in [Tabs -> TabRows] /\ tab'[t] = y /\ \A u \in Tabs : u # t
          => tab'[u] = tab[u]
    BY <2>2, <2>3, TabSet
  <2> QED
    BY <2>1, <2>2, <2>3, <2>4 DEF TabsTyped, Shopping
<1>3. ShopTyped'
  BY DEF Shopping, CheckoutLocks, ShopTyped, NoCart, NoTab, Empty, Moves, Still
<1>4. PlacedTyped'
  BY DEF Shopping, CheckoutLocks, PlacedTyped, NoCart, NoTab, Empty, Moves, Still
<1>5. CartsAreHeld'
  BY CartAssumption DEF Shopping, CheckoutLocks, CartsAreHeld, CartsTyped, ShopTyped,
    NoCart, NoTab, Empty, Moves, Still, CartRows, LineTypes
<1>6. OrdersDiffer'
  BY DEF Shopping, CheckoutLocks, OrdersDiffer, NoCart, NoTab, Empty, Moves, Still
<1>7. TabsShowTheCart'
  BY DEF Shopping, CheckoutLocks, TabsShowTheCart, NoCart, NoTab, Empty, Moves, Still,
    NotSeen, ShownUnit
<1>8. ChargedAsShown'
  BY DEF Shopping, CheckoutLocks, ChargedAsShown, NoCart, NoTab, Empty, Moves, Still,
    NotSeen
<1> QED
  BY <1>1, <1>2, <1>3, <1>4, <1>5, <1>6, <1>7, <1>8 DEF Shopping

LEMMA CheckoutCommitsStep ==
  ASSUME Shopping, BasketsAreCurrent, NEW t \in Tabs, CheckoutCommits(t)
  PROVE  Shopping'
<1>1. CartsTyped'
  <2>1. CASE signedIn
    <3>1. carts' = carts /\ lock' = [lock EXCEPT ![tab[t].cart] = NoTab]
      BY <2>1, TabIsRefused DEF CheckoutCommits
    <3>2. lock' \in Seq(Tabs \cup {NoTab}) /\ Len(lock') = Len(lock)
      <4>1. tab[t].cart \in DOMAIN carts
        BY RowsOfTheCart DEF CheckoutCommits
      <4> QED
        BY <3>1, <4>1, LockFreed
    <3> QED
      BY <3>1, <3>2, RowsOfTheCart DEF CartsTyped
  <2>2. CASE ~signedIn
    <3>1. lock' = [lock EXCEPT ![tab[t].cart] = NoTab]
      BY DEF CheckoutCommits
    <3>2. lock' \in Seq(Tabs \cup {NoTab}) /\ Len(lock') = Len(lock)
      <4>1. tab[t].cart \in DOMAIN carts
        BY RowsOfTheCart DEF CheckoutCommits
      <4> QED
        BY <3>1, <4>1, LockFreed
    <3> QED
      BY <2>2, <3>2, RowsOfTheCart, OrderIsPlaced DEF CartsTyped
  <2> QED
    BY <2>1, <2>2
<1>2. TabsTyped'
  <2>1. CASE signedIn
    BY <2>1, TabIsRefused, StillRow DEF TabsTyped, Shopping
  <2>2. CASE ~signedIn
    BY <2>2, OrderIsPlaced DEF TabsTyped, Shopping
  <2> QED
    BY <2>1, <2>2
<1>3. ShopTyped'
  <2>1. CASE signedIn
    <3>1. /\ carts' = carts /\ cookie' = cookie /\ signedIn' = signedIn /\ price' = price
          /\ seen' = seen /\ refused' = TRUE
      BY <2>1 DEF CheckoutCommits
    <3>2. refused' \in BOOLEAN
      BY <3>1, Zenon
    <3> QED
      BY <3>1, <3>2 DEF ShopTyped, Shopping
  <2>2. CASE ~signedIn
    <3>1. /\ DOMAIN carts' = DOMAIN carts /\ cookie' = cookie /\ price' = price /\
               seen' = seen
      BY <2>2, OrderIsPlaced DEF CheckoutCommits
    <3>2. signedIn' \in BOOLEAN /\ refused' \in BOOLEAN
      BY <2>2 DEF CheckoutCommits, ShopTyped, Shopping
    <3> QED
      BY <3>1, <3>2 DEF ShopTyped, Shopping
  <2> QED
    BY <2>1, <2>2
<1>4. PlacedTyped'
  <2>1. CASE signedIn
    BY <2>1, TabIsRefused DEF PlacedTyped, Shopping
  <2>2. CASE ~signedIn
    <3> DEFINE o == [cart |-> tab[t].cart, charged |-> Charged(bought[t]),
                 shown |-> seen[t],
                   volume |-> \E v \in Variants :
                                bought[t][v].qty >= VolumeMin]
    <3>1. placed' = Append(placed, o) /\ o.cart = tab[t].cart
      BY <2>2 DEF CheckoutCommits
    <3>2. PICK S : placed \in Seq(S)
      BY DEF Shopping, PlacedTyped
    <3> HIDE DEF o
    <3>3. /\ placed' \in Seq(S \cup {o}) /\ DOMAIN placed' = 1 .. Len(placed) + 1
          /\ DOMAIN placed = 1 .. Len(placed) /\ Len(placed) \in Nat
          /\ placed'[Len(placed) + 1] = o
          /\ \A i \in DOMAIN placed : placed'[i] = placed[i]
      <4>1. placed \in Seq(S \cup {o})
        BY <3>2
      <4> QED
        BY <3>1, <3>2, <4>1
    <3> QED
      BY <2>2, <3>1, <3>3, OrderIsPlaced DEF PlacedTyped, Shopping
  <2> QED
    BY <2>1, <2>2
<1>5. CartsAreHeld'
  <2>1. CASE signedIn
    <3>1. /\ lock' = [lock EXCEPT ![tab[t].cart] = NoTab] /\ tab[t].at = "checkout"
          /\ lock[tab[t].cart] = t
      BY DEF CheckoutCommits, Shopping, CartsAreHeld
    <3>2. \A u \in Tabs : tab'[u].at = "checkout" =>
             u # t /\ tab'[u] = tab[u] /\ tab[u].cart # tab[t].cart
      BY <2>1, <3>1, TabIsRefused, StillRow DEF Shopping, CartsAreHeld
    <3> QED
      BY <2>1, <3>1, <3>2, TabIsRefused, RowsOfTheCart DEF CartsAreHeld, Shopping
  <2>2. CASE ~signedIn
    <3> DEFINE o == [cart |-> tab[t].cart, charged |-> Charged(bought[t]),
                 shown |-> seen[t],
                   volume |-> \E v \in Variants :
                                bought[t][v].qty >= VolumeMin]
    <3>1. placed' = Append(placed, o) /\ o.cart = tab[t].cart
      BY <2>2 DEF CheckoutCommits
    <3>2. PICK S : placed \in Seq(S)
      BY DEF Shopping, PlacedTyped
    <3> HIDE DEF o
    <3>3. /\ placed' \in Seq(S \cup {o}) /\ DOMAIN placed' = 1 .. Len(placed) + 1
          /\ DOMAIN placed = 1 .. Len(placed) /\ Len(placed) \in Nat
          /\ placed'[Len(placed) + 1] = o
          /\ \A i \in DOMAIN placed : placed'[i] = placed[i]
      <4>1. placed \in Seq(S \cup {o})
        BY <3>2
      <4> QED
        BY <3>1, <3>2, <4>1
    <3>4. /\ lock' = [lock EXCEPT ![tab[t].cart] = NoTab] /\ tab[t].at = "checkout"
          /\ lock[tab[t].cart] = t
      BY DEF CheckoutCommits, Shopping, CartsAreHeld
    <3>5. \A u \in Tabs : tab'[u].at = "checkout" =>
             u # t /\ tab'[u] = tab[u] /\ tab[u].cart # tab[t].cart
      BY <2>2, <3>4, OrderIsPlaced DEF Shopping, CartsAreHeld
    <3>6. \A u \in Tabs : tab'[u].at = "checkout" =>
             lock'[tab'[u].cart] = u /\ carts'[tab'[u].cart].status = "active"
      BY <2>2, <3>4, <3>5, OrderIsPlaced, RowsOfTheCart DEF CartsAreHeld, Shopping
    <3>7. \A i \in DOMAIN placed' : carts'[placed'[i].cart].status = "checked_out"
      BY <2>2, <3>1, <3>3, OrderIsPlaced DEF CartsAreHeld, PlacedTyped, Shopping
    <3> QED
      BY <3>6, <3>7 DEF CartsAreHeld
  <2> QED
    BY <2>1, <2>2
<1>6. OrdersDiffer'
  <2>1. CASE signedIn
    BY <2>1, TabIsRefused DEF OrdersDiffer, Shopping
  <2>2. CASE ~signedIn
    <3> DEFINE o == [cart |-> tab[t].cart, charged |-> Charged(bought[t]),
                 shown |-> seen[t],
                   volume |-> \E v \in Variants :
                                bought[t][v].qty >= VolumeMin]
    <3>1. placed' = Append(placed, o) /\ o.cart = tab[t].cart
      BY <2>2 DEF CheckoutCommits
    <3>2. PICK S : placed \in Seq(S)
      BY DEF Shopping, PlacedTyped
    <3> HIDE DEF o
    <3>3. /\ placed' \in Seq(S \cup {o}) /\ DOMAIN placed' = 1 .. Len(placed) + 1
          /\ DOMAIN placed = 1 .. Len(placed) /\ Len(placed) \in Nat
          /\ placed'[Len(placed) + 1] = o
          /\ \A i \in DOMAIN placed : placed'[i] = placed[i]
      <4>1. placed \in Seq(S \cup {o})
        BY <3>2
      <4> QED
        BY <3>1, <3>2, <4>1
    <3>4. \A i \in DOMAIN placed : placed[i].cart # tab[t].cart
      BY <2>2, OrderIsPlaced DEF Shopping, CartsAreHeld
    <3>5. \A i \in DOMAIN placed' : i \in DOMAIN placed \/ i = Len(placed) + 1
      BY <3>3
    <3>6. OrdersDiffer
      BY DEF Shopping
    <3> QED
      BY <3>1, <3>3, <3>4, <3>5, <3>6 DEF OrdersDiffer
  <2> QED
    BY <2>1, <2>2
<1>7. TabsShowTheCart'
  <2>1. CASE signedIn
    <3>1. carts' = carts /\ price' = price /\ cookie' = cookie /\ seen' = seen
      BY <2>1 DEF CheckoutCommits
    <3> QED
      BY <2>1, <3>1, TabIsRefused, StillRow DEF TabsShowTheCart, ShownUnit, Shopping
  <2>2. CASE ~signedIn
    <3>1. price' = price /\ cookie' = cookie /\ seen' = seen
      BY <2>2 DEF CheckoutCommits
    <3>2. cookie # NoCart => carts'[cookie].lines = carts[cookie].lines
      BY <2>2, OrderIsPlaced DEF Shopping, ShopTyped
    <3>3. \A u \in Tabs : seen'[u] # NotSeen =>
             /\ cookie' # NoCart
             /\ seen'[u] = Total(carts[cookie].lines, ShownUnit(carts[cookie].lines))
      BY <3>1 DEF TabsShowTheCart, Shopping
    <3>4. cookie # NoCart => Total(carts[cookie].lines, ShownUnit(carts[cookie].lines))'
                             = Total(carts[cookie].lines, ShownUnit(carts[cookie].lines))
      BY <3>1, <3>2 DEF ShownUnit
    <3>5. \A u \in Tabs : tab'[u].at = "checkout" => tab[u] = tab'[u]
      BY <2>2, OrderIsPlaced
    <3> QED
      BY <3>1, <3>3, <3>4, <3>5 DEF TabsShowTheCart, Shopping
  <2> QED
    BY <2>1, <2>2
<1>8. ChargedAsShown'
  <2>1. CASE signedIn
    BY <2>1, TabIsRefused DEF ChargedAsShown, Shopping
  <2>2. CASE ~signedIn
    <3> DEFINE o == [cart |-> tab[t].cart, charged |-> Charged(bought[t]),
                 shown |-> seen[t],
                   volume |-> \E v \in Variants :
                                bought[t][v].qty >= VolumeMin]
    <3>1. placed' = Append(placed, o) /\ o.cart = tab[t].cart
      BY <2>2 DEF CheckoutCommits
    <3>2. PICK S : placed \in Seq(S)
      BY DEF Shopping, PlacedTyped

    <3>3. /\ placed' \in Seq(S \cup {o}) /\ DOMAIN placed' = 1 .. Len(placed) + 1
          /\ DOMAIN placed = 1 .. Len(placed) /\ Len(placed) \in Nat
          /\ placed'[Len(placed) + 1] = o
          /\ \A i \in DOMAIN placed : placed'[i] = placed[i]
      <4>1. placed \in Seq(S \cup {o})
        BY <3>2
      <4>2. placed' = Append(placed, o) /\ o \in S \cup {o}
        BY <3>1
      <4> HIDE DEF o
      <4> QED
        BY <4>1, <4>2
    <3>4. ASSUME o.shown # NotSeen, ~o.volume PROVE o.charged = o.shown
      <4>1. /\ tab[t].cart = cookie /\ cookie # NoCart
            /\ seen[t] = Total(carts[cookie].lines, ShownUnit(carts[cookie].lines))
        BY <3>4 DEF CheckoutCommits, Shopping, TabsShowTheCart
      <4>5. bought[t] = carts[cookie].lines
        BY <3>4 DEF CheckoutCommits, BasketsAreCurrent
      <4>2. \A v \in Variants : ~(carts[cookie].lines[v].qty >= VolumeMin)
        BY <3>4, <4>5
      <4>3. ShownUnit(carts[cookie].lines) = price
        BY <4>2 DEF ShownUnit, Shopping, ShopTyped
      <4> QED
        BY <4>1, <4>3, <4>5 DEF Charged
    <3> HIDE DEF o
    <3>5. \A i \in DOMAIN placed' : i \in DOMAIN placed \/ i = Len(placed) + 1
      BY <3>3
    <3> QED
      BY <3>3, <3>4, <3>5 DEF ChargedAsShown, Shopping
  <2> QED
    BY <2>1, <2>2
<1> QED
  BY <1>1, <1>2, <1>3, <1>4, <1>5, <1>6, <1>7, <1>8 DEF Shopping

LEMMA CallEndsStep ==
  ASSUME Shopping, NEW t \in Tabs, CallEnds(t)
  PROVE  Shopping'
<1>1. CartsTyped'
  <2> DEFINE S == Tabs \cup {NoTab}
             n == Len(carts)
  <2>1. n \in Nat /\ DOMAIN lock = 1 .. n /\ \A c \in 1 .. n : lock[c] \in S
    BY RowsOfTheCart
  <2>2. lock' \in [1 .. n -> S] /\ carts' = carts
    BY <2>1 DEF CallEnds
  <2> HIDE DEF S, n
  <2>3. lock' \in Seq(S) /\ Len(lock') = n
    BY <2>1, <2>2
  <2> QED
    BY <2>2, <2>3 DEF Shopping, CartsTyped, S, n
<1>2. TabsTyped'
  BY CartAssumption DEF Shopping, CallEnds, TabsTyped, CartsTyped, Stops, NoTab,
    TabRows, CartRows, Moves, Still, LineTypes, NoCart
<1>3. ShopTyped'
  BY DEF Shopping, CallEnds, ShopTyped, Stops, NoTab, NoCart, Moves, Still
<1>4. PlacedTyped'
  BY DEF Shopping, CallEnds, PlacedTyped, Stops, NoTab, Moves, Still, NoCart
<1>5. CartsAreHeld'
  BY CartAssumption DEF Shopping, CallEnds, CartsAreHeld, CartsTyped, TabsTyped, Stops,
    NoTab, CartRows, TabRows, Moves, Still, LineTypes, NoCart
<1>6. OrdersDiffer'
  BY DEF Shopping, CallEnds, OrdersDiffer, Stops, NoTab, Moves, Still, NoCart
<1>7. TabsShowTheCart'
  BY DEF Shopping, CallEnds, TabsShowTheCart, Stops, NoTab, NotSeen, NoCart, ShownUnit,
    Moves, Still
<1>8. ChargedAsShown'
  BY DEF Shopping, CallEnds, ChargedAsShown, Stops, NoTab, NotSeen, Moves, Still, NoCart
<1> QED
  BY <1>1, <1>2, <1>3, <1>4, <1>5, <1>6, <1>7, <1>8 DEF Shopping

LEMMA PaymentStartsStep ==
  ASSUME Shopping, NEW t \in Tabs, PaymentStarts(t)
  PROVE  Shopping'
<1>1. CartsTyped'
  BY DEF Shopping, PaymentStarts, CartsTyped, Stops, NoCart, Outdated, CartRows, NoTab,
    Moves, Still, NotSeen, LineTypes
<1>2. TabsTyped'
  BY CartAssumption DEF Shopping, PaymentStarts, TabsTyped, CartsTyped, Stops, NoCart,
    Outdated, TabRows, CartRows, NoTab, Moves, Still, NotSeen, LineTypes
<1>3. ShopTyped'
  BY DEF Shopping, PaymentStarts, ShopTyped, Stops, NoCart, Outdated, Moves, Still,
    NotSeen, NoTab
<1>4. PlacedTyped'
  BY DEF Shopping, PaymentStarts, PlacedTyped, Stops, NoCart, Outdated, Moves, Still,
    NotSeen, NoTab
<1>5. CartsAreHeld'
  BY DEF Shopping, PaymentStarts, CartsAreHeld, Stops, NoCart, Outdated, Moves, Still,
    NotSeen, NoTab
<1>6. OrdersDiffer'
  BY DEF Shopping, PaymentStarts, OrdersDiffer, Stops, NoCart, Outdated, Moves, Still,
    NotSeen, NoTab
<1>7. TabsShowTheCart'
  BY DEF Shopping, PaymentStarts, TabsShowTheCart, Stops, NoCart, Outdated, NotSeen,
    ShownUnit, Moves, Still, NoTab
<1>8. ChargedAsShown'
  BY DEF Shopping, PaymentStarts, ChargedAsShown, Stops, NoCart, Outdated, NotSeen,
    Moves, Still, NoTab
<1> QED
  BY <1>1, <1>2, <1>3, <1>4, <1>5, <1>6, <1>7, <1>8 DEF Shopping

LEMMA ShoppingInit == CartInit => Shopping
<1> SUFFICES ASSUME CartInit PROVE Shopping
  OBVIOUS
<1>1. CartsTyped /\ PlacedTyped
  BY CartAssumption DEF CartInit, CartsTyped, PlacedTyped
<1>2. TabsTyped
  BY StillRow DEF CartInit, TabsTyped
<1>3. ShopTyped
  BY DEF CartInit, ShopTyped
<1>4. CartsAreHeld /\ OrdersDiffer /\ TabsShowTheCart /\ ChargedAsShown
  BY StillRow DEF CartInit, CartsAreHeld, OrdersDiffer, TabsShowTheCart, ChargedAsShown
<1> QED
  BY <1>1, <1>2, <1>3, <1>4 DEF Shopping

LEMMA ShoppingStep == Shopping /\ BasketsAreCurrent /\ [CartNext]_cartVars => Shopping'
<1> SUFFICES ASSUME Shopping, BasketsAreCurrent, [CartNext]_cartVars PROVE Shopping'
  OBVIOUS
<1>1. CASE UNCHANGED cartVars
  BY <1>1 DEF Shopping, CartsTyped, TabsTyped, ShopTyped, PlacedTyped, CartsAreHeld,
     OrdersDiffer, TabsShowTheCart, ChargedAsShown, ShownUnit, cartVars
<1>2. CASE CartNext
  BY <1>2, SignsInOrOutStep, RemoveItemStep, SetPriceStep, AddReadsStep, CreateCartStep,
     AddCommitsStep, ReplaceCommitsStep, GetCartStep, CheckoutLocksStep,
     CheckoutCommitsStep, CallEndsStep, PaymentStartsStep
  DEF CartNext
<1> QED
  BY <1>1, <1>2

LEMMA BasketsInit == CartInit => BasketsAreCurrent
BY StillRow DEF CartInit, BasketsAreCurrent

\* A tab at its checkout was shown what it has read, or what it shows has changed since.
LEMMA BasketsStep ==
  ASSUME Shopping, BasketsAreCurrent, [CartNext]_cartVars
  PROVE  BasketsAreCurrent'
<1>1. CASE UNCHANGED cartVars
  BY <1>1 DEF BasketsAreCurrent, cartVars
<1>2. ASSUME Outdated, bought' = bought
      PROVE  BasketsAreCurrent'
  BY <1>2 DEF Outdated, BasketsAreCurrent
<1>3. ASSUME SignsInOrOut PROVE BasketsAreCurrent'
  BY <1>3 DEF SignsInOrOut, BasketsAreCurrent
<1>4. ASSUME NEW v \in Variants, RemoveItem(v) \/ SetPrice(v) PROVE BasketsAreCurrent'
  BY <1>2, <1>4 DEF RemoveItem, SetPrice
<1>5. ASSUME NEW t \in Tabs, AddCommits(t) \/ ReplaceCommits(t) \/ PaymentStarts(t)
      PROVE  BasketsAreCurrent'
  BY <1>2, <1>5 DEF AddCommits, ReplaceCommits, PaymentStarts
<1>6. ASSUME NEW t \in Tabs, CreateCart(t) PROVE BasketsAreCurrent'
  <2>1. seen' = seen /\ bought' = bought /\ tab' = tab /\ cookie = NoCart
    BY <1>6 DEF CreateCart
  <2>2. \A u \in Tabs : seen[u] = NotSeen
    BY <2>1 DEF Shopping, TabsShowTheCart
  <2> QED
    BY <2>1, <2>2 DEF BasketsAreCurrent
<1>7. ASSUME NEW t \in Tabs, NEW v \in Variants, NEW q \in 1 .. MaxLine, AddReads(t, v, q)
      PROVE  BasketsAreCurrent'
  <2> DEFINE y == [at |-> "add", cart |-> cookie, v |-> v, qty |-> q, atAdd |-> price[v]]
  <2>1. /\ tab' = [tab EXCEPT ![t] = y] /\ y.at = "add"
        /\ carts' = carts /\ cookie' = cookie /\ seen' = seen /\ bought' = bought
    BY <1>7 DEF AddReads, Moves
  <2> HIDE DEF y
  <2>2. \A u \in Tabs : tab'[u].at = "checkout" => tab[u].at = "checkout"
    BY <2>1 DEF Shopping, TabsTyped
  <2> QED
    BY <2>1, <2>2 DEF BasketsAreCurrent
<1>8. ASSUME NEW t \in Tabs, GetCart(t) PROVE BasketsAreCurrent'
  <2>1. /\ tab[t].at = "rest" /\ \A u \in Tabs : u # t => seen'[u] = seen[u]
        /\ carts' = carts /\ cookie' = cookie /\ tab' = tab /\ bought' = bought
    BY <1>8 DEF GetCart, Shopping, ShopTyped
  <2> QED
    BY <2>1 DEF BasketsAreCurrent
<1>9. ASSUME NEW t \in Tabs, CheckoutLocks(t) PROVE BasketsAreCurrent'
  <2>1. /\ \A u \in Tabs : u # t => tab'[u] = tab[u]
        /\ bought' = [bought EXCEPT ![t] = carts[cookie].lines]
        /\ carts' = carts /\ cookie' = cookie /\ seen' = seen
    BY <1>9 DEF CheckoutLocks, Moves, Shopping, TabsTyped
  <2> QED
    BY <2>1 DEF BasketsAreCurrent
<1>10. ASSUME NEW t \in Tabs, CheckoutCommits(t) PROVE BasketsAreCurrent'
  <2>1. /\ bought' = [bought EXCEPT ![t] = Empty] /\ cookie' = cookie /\ seen' = seen
        /\ \A u \in Tabs : u # t => tab'[u] = tab[u]
        /\ tab'[t].at # "checkout"
    BY <1>10, OrderIsPlaced, TabIsRefused, StillRow DEF CheckoutCommits
  <2>2. seen = [u \in Tabs |-> seen[u]]
    BY DEF Shopping, ShopTyped
  <2>3. cookie # NoCart => carts'[cookie].lines = carts[cookie].lines
    BY <1>10, OrderIsPlaced, TabIsRefused DEF Shopping, ShopTyped
  <2>4. \A u \in Tabs : seen[u] # NotSeen => cookie # NoCart
    BY DEF Shopping, TabsShowTheCart
  <2> QED
    BY <2>1, <2>2, <2>3, <2>4 DEF BasketsAreCurrent
<1>11. ASSUME NEW t \in Tabs, CallEnds(t) PROVE BasketsAreCurrent'
  <2>1. /\ bought' = [bought EXCEPT ![t] = Empty] /\ carts' = carts /\ cookie' = cookie
        /\ seen' = seen /\ \A u \in Tabs : u # t => tab'[u] = tab[u]
        /\ tab'[t].at # "checkout"
    BY <1>11, StillRow DEF CallEnds, Stops, Moves, Shopping, TabsTyped
  <2> QED
    BY <2>1 DEF BasketsAreCurrent
<1> QED
  BY <1>1, <1>3, <1>4, <1>5, <1>6, <1>7, <1>8, <1>9, <1>10, <1>11 DEF CartNext

LEMMA ShoppingHolds == Shopping => CartHolds
<1> SUFFICES ASSUME Shopping PROVE CartHolds
  OBVIOUS
<1>1. CartTypeOK
  BY RowsOfTheCart DEF Shopping, CartsTyped, TabsTyped, ShopTyped, PlacedTyped,
     CartTypeOK, CartRows, TabRows
<1>2. OneOrderPerCart
  BY DEF Shopping, OrdersDiffer, OneOrderPerCart, IsInjective
<1> QED
  BY <1>1, <1>2 DEF CartHolds, Shopping

\* For any tabs, variants and prices, a cart becomes at most one order, and a tab that
\* shows the cart is charged what it shows, but for volume discounts.
THEOREM OneOrderAsShown == CartSpec => []CartHolds
BY ShoppingInit, BasketsInit, ShoppingStep, BasketsStep, ShoppingHolds, PTL DEF CartSpec

-----------------------------------------------------------------------------
(* The reviews: shown when let through, verified when delivered.             *)

ReviewRows == [status : {"pending", "approved", "rejected", "removed"},
  text : 1 .. MaxTexts,
               verified : BOOLEAN, votes : SUBSET Voters, reply : BOOLEAN,
               cleared : BOOLEAN, read : 0 .. MaxTexts, shown : BOOLEAN]

Delivered == purchase \in {"delivered", "returned"}

\* A row that is shown was let through; votes and answers are of one that was shown.
RowInOrder(y) ==
  /\ y.status = "approved" => y.cleared /\ y.shown
  /\ y.votes # {} \/ y.reply => y.status # "removed" /\ y.shown

\* What a call read still holds of the rows when it sends its statement.
ClickInOrder(k) ==
  /\ k.row \in 0 .. Len(reviews) /\ k.approve \in BOOLEAN /\ k.delivered \in BOOLEAN
  /\ k.does = "judge" => k.text \in 1 .. MaxTexts
  /\ k.does = "create" /\ k.delivered => Delivered
  /\ k.does \in {"reply", "vote"} /\ k.row \in Present => reviews[k.row].shown

Reviewing ==
  /\ approval \in BOOLEAN
  /\ reviews \in Seq(ReviewRows) /\ Len(reviews) <= MaxReviews
  /\ click = [c \in Clicks |-> click[c]] /\ \A c \in Clicks : ClickInOrder(click[c])
  /\ \A i \in DOMAIN reviews : RowInOrder(reviews[i])
  /\ \A i, j \in Present : i = j
  /\ \A i \in Present : reviews[i].verified => Delivered

-----------------------------------------------------------------------------
(* Rows that change.                                                          *)

\* A change of a row that is present leaves it present, shown if it was, and in order.
Follows(z, y) ==
  /\ z \in ReviewRows /\ z.status # "removed" /\ z.verified = y.verified
  /\ y.shown => z.shown
  /\ RowInOrder(z)

LEMMA RowFields ==
  ASSUME NEW y \in ReviewRows
  PROVE  /\ y.text \in 1 .. MaxTexts /\ y.read \in 0 .. MaxTexts /\
              y.votes \subseteq Voters
         /\ y.status \in {"pending", "approved", "rejected", "removed"}
         /\ \A b \in BOOLEAN : [y EXCEPT !.cleared = b] \in ReviewRows
         /\ \A b \in BOOLEAN : [y EXCEPT !.shown = b] \in ReviewRows
         /\ \A b \in BOOLEAN : [y EXCEPT !.reply = b] \in ReviewRows
         /\ \A s \in {"pending", "approved", "rejected", "removed"} :
              [y EXCEPT !.status = s] \in ReviewRows
         /\ \A n \in 1 .. MaxTexts : [y EXCEPT !.text = n] \in ReviewRows
         /\ \A n \in 0 .. MaxTexts : [y EXCEPT !.read = n] \in ReviewRows
         /\ \A vs \in SUBSET Voters : [y EXCEPT !.votes = vs] \in ReviewRows
<1>1. /\ y.text \in 1 .. MaxTexts /\ y.read \in 0 .. MaxTexts /\ y.votes \subseteq Voters
      /\ y.status \in {"pending", "approved", "rejected", "removed"}
  BY DEF ReviewRows
<1>2. /\ \A b \in BOOLEAN : [y EXCEPT !.cleared = b] \in ReviewRows
      /\ \A b \in BOOLEAN : [y EXCEPT !.shown = b] \in ReviewRows
      /\ \A b \in BOOLEAN : [y EXCEPT !.reply = b] \in ReviewRows
  BY DEF ReviewRows
<1>3. /\ \A s \in {"pending", "approved", "rejected", "removed"} :
              [y EXCEPT !.status = s] \in ReviewRows
      /\ \A n \in 1 .. MaxTexts : [y EXCEPT !.text = n] \in ReviewRows
      /\ \A n \in 0 .. MaxTexts : [y EXCEPT !.read = n] \in ReviewRows
      /\ \A vs \in SUBSET Voters : [y EXCEPT !.votes = vs] \in ReviewRows
  BY DEF ReviewRows
<1> QED
  BY <1>1, <1>2, <1>3

LEMMA ReadyFields ==
  /\ Ready.does = "nothing" /\ Ready.row = 0
  /\ Ready.approve \in BOOLEAN /\ Ready.delivered \in BOOLEAN
<1>1. /\ Ready.does = "nothing" /\ Ready.row = 0
      /\ Ready.approve = FALSE /\ Ready.delivered = FALSE
  BY DEF Ready
<1> QED
  BY <1>1, Zenon

LEMMA RowsInOrder ==
  ASSUME Reviewing
  PROVE  /\ Len(reviews) \in Nat /\ DOMAIN reviews = 1 .. Len(reviews)
         /\ Len(reviews) <= MaxReviews
         /\ \A i \in DOMAIN reviews : reviews[i] \in ReviewRows /\ RowInOrder(reviews[i])
         /\ Present \subseteq DOMAIN reviews /\ \A i, j \in Present : i = j
BY DEF Reviewing, Present

LEMMA RowSet ==
  ASSUME Reviewing, NEW i \in DOMAIN reviews, NEW y \in ReviewRows,
         reviews' = [reviews EXCEPT ![i] = y]
  PROVE  /\ reviews' \in Seq(ReviewRows) /\ Len(reviews') = Len(reviews)
         /\ DOMAIN reviews' = DOMAIN reviews /\ reviews'[i] = y
         /\ \A k \in DOMAIN reviews : k # i => reviews'[k] = reviews[k]
BY DEF Reviewing

\* A call that sends its statement and leaves its row in order.
LEMMA RowFollows ==
  ASSUME Reviewing, NEW c \in Clicks, NEW does, NEW z, Sends(c, does, z),
         click[c].row \in Present => Follows(z, Mine(c))
  PROVE  Reviewing'
<1> DEFINE i == click[c].row
<1>1. /\ click' = [click EXCEPT ![c] = Ready] /\ purchase' = purchase /\
           approval' = approval
  BY DEF Sends
<1>2. /\ click' = [k \in Clicks |-> click'[k]] /\ click'[c] = Ready
      /\ \A k \in Clicks : k # c => click'[k] = click[k]
  BY <1>1 DEF Reviewing
<1>3. CASE i \notin Present
  <2>1. reviews' = reviews
    BY <1>3 DEF Sends
  <2>2. \A k \in Clicks : ClickInOrder(click[k])'
    BY <1>1, <1>2, <2>1, RowsInOrder, ReadyFields DEF Reviewing, ClickInOrder, Present,
       Delivered
  <2> QED
    BY <1>1, <1>2, <2>1, <2>2 DEF Reviewing, Present, Delivered, RowInOrder
<1>4. CASE i \in Present
  <2>1. /\ reviews' = [reviews EXCEPT ![i] = z] /\ z \in ReviewRows /\ Follows(z,
             reviews[i])
        /\ i \in DOMAIN reviews
    BY <1>4, RowsInOrder DEF Sends, Mine, Follows
  <2>2. /\ reviews' \in Seq(ReviewRows) /\ Len(reviews') = Len(reviews)
        /\ DOMAIN reviews' = DOMAIN reviews /\ reviews'[i] = z
        /\ \A k \in DOMAIN reviews : k # i => reviews'[k] = reviews[k]
    BY <2>1, RowSet
  <2>3. Present' = Present
    BY <1>4, <2>1, <2>2 DEF Present, Follows
  <2>4. \A k \in DOMAIN reviews : RowInOrder(reviews'[k])
    BY <2>1, <2>2, RowsInOrder DEF Follows
  <2>5. \A k \in Present : (reviews'[k].verified => Delivered) /\ (reviews[k].shown
          => reviews'[k].shown)
    BY <1>4, <2>1, <2>2, RowsInOrder DEF Reviewing, Follows
  <2>6. \A k \in Clicks : ClickInOrder(click[k])'
    BY <1>1, <1>2, <2>2, <2>3, <2>5, RowsInOrder, ReadyFields DEF Reviewing,
       ClickInOrder, Delivered
  <2> QED
    BY <1>1, <1>2, <2>2, <2>3, <2>4, <2>5, <2>6 DEF Reviewing, Delivered, RowInOrder
<1> QED
  BY <1>3, <1>4

\* A call that has read, and goes on to send.
LEMMA ClickReads ==
  ASSUME Reviewing, NEW c \in Clicks, NEW k, Reads(c, k), ClickInOrder(k)
  PROVE  Reviewing'
<1>1. /\ UNCHANGED <<purchase, approval,
           reviews>> /\ click' = [a \in Clicks |-> click'[a]]
      /\ \A a \in Clicks : click'[a] = click[a] \/ click'[a] = k
  BY DEF Reads, Reviewing
<1> QED
  BY <1>1 DEF Reviewing, ClickInOrder, RowInOrder, Present, Delivered

-----------------------------------------------------------------------------
(* The steps.                                                                 *)

LEMMA PurchaseMovesStep == Reviewing /\ PurchaseMoves => Reviewing'
BY DEF Reviewing, PurchaseMoves, ClickInOrder, RowInOrder, Present, Delivered

LEMMA SetApprovalStep == Reviewing /\ SetApproval => Reviewing'
BY DEF Reviewing, SetApproval, ClickInOrder, RowInOrder, Present, Delivered

LEMMA RemoveReviewStep == Reviewing /\ RemoveReview => Reviewing'
<1> SUFFICES ASSUME Reviewing, RemoveReview PROVE Reviewing'
  OBVIOUS
<1>1. PICK i \in Present :
        reviews' = [reviews EXCEPT ![i].status = "removed", ![i].votes = {},
          ![i].reply = FALSE]
  BY DEF RemoveReview
<1>2. i \in DOMAIN reviews /\ reviews[i] \in ReviewRows
  BY RowsInOrder
<1>3. [reviews[i] EXCEPT !.status = "removed", !.votes = {},
        !.reply = FALSE] \in ReviewRows
  <2>1. {} \in SUBSET Voters /\ FALSE \in BOOLEAN
    OBVIOUS
  <2> QED
    BY <1>2, <2>1, RowFields
<1> DEFINE z == [reviews[i] EXCEPT !.status = "removed", !.votes = {}, !.reply = FALSE]
<1>4. z.status = "removed" /\ z.votes = {} /\ z.reply = FALSE
  BY <1>2 DEF ReviewRows
<1>5. reviews' = [reviews EXCEPT ![i] = z]
  BY <1>1, <1>2
<1> HIDE DEF z
<1>6. /\ reviews' \in Seq(ReviewRows) /\ Len(reviews') = Len(reviews)
      /\ DOMAIN reviews' = DOMAIN reviews /\ reviews'[i] = z
      /\ \A k \in DOMAIN reviews : k # i => reviews'[k] = reviews[k]
  BY <1>2, <1>3, <1>5, RowSet DEF z
<1>7. Present' = Present \ {i}
  BY <1>2, <1>4, <1>6 DEF Present
<1>8. /\ UNCHANGED <<purchase, approval, click>>
      /\ \A k \in DOMAIN reviews : RowInOrder(reviews'[k])
  BY <1>4, <1>6, RowsInOrder DEF RemoveReview, RowInOrder
<1>9. \A c \in Clicks : ClickInOrder(click[c])'
  BY <1>6, <1>7, <1>8, RowsInOrder DEF Reviewing, ClickInOrder, Delivered
<1> QED
  BY <1>6, <1>7, <1>8, <1>9, RowsInOrder DEF Reviewing, Delivered, RowInOrder

LEMMA ClickDiesStep == ASSUME Reviewing, NEW c \in Clicks, ClickDies(c) PROVE Reviewing'
<1>1. /\ UNCHANGED <<purchase, approval,
           reviews>> /\ click' = [a \in Clicks |-> click'[a]]
      /\ \A a \in Clicks : click'[a] = click[a] \/ click'[a] = Ready
  BY DEF ClickDies, Reviewing
<1>2. ClickInOrder(Ready)
  BY RowsInOrder, ReadyFields DEF ClickInOrder
<1> QED
  BY <1>1, <1>2 DEF Reviewing, ClickInOrder, RowInOrder, Present, Delivered

LEMMA CreateReadsStep == ASSUME Reviewing, NEW c \in Clicks,
  CreateReads(c) PROVE Reviewing'
<1> DEFINE k == [Ready EXCEPT !.does = "create", !.approve = approval,
                              !.delivered = purchase = "delivered"]
<1>1. /\ k.does = "create" /\ k.row = 0 /\ k.approve = approval
      /\ k.delivered = (purchase = "delivered")
  BY DEF Ready
<1>2. Reads(c, k)
  BY DEF CreateReads
<1> HIDE DEF k
<1>3. k.approve \in BOOLEAN /\ k.delivered \in BOOLEAN
  BY <1>1, Zenon DEF Reviewing
<1>4. ClickInOrder(k)
  <2>1. k.delivered => Delivered
    BY <1>1 DEF Delivered
  <2>2. 0 \in 0 .. Len(reviews)
    BY RowsInOrder
  <2> QED
    BY <1>1, <1>3, <2>1, <2>2 DEF ClickInOrder
<1> QED
  BY <1>2, <1>4, ClickReads

LEMMA EditReadsStep == ASSUME Reviewing, NEW c \in Clicks, EditReads(c) PROVE Reviewing'
<1>1. PICK i \in Present : Reads(c, [Ready EXCEPT !.does = "edit", !.row = i,
        !.approve = approval])
  BY DEF EditReads
<1> DEFINE k == [Ready EXCEPT !.does = "edit", !.row = i, !.approve = approval]
<1>2. k.does = "edit" /\ k.row = i /\ k.approve = approval /\ k.delivered = FALSE
  BY DEF Ready
<1>3. Reads(c, k)
  BY <1>1
<1> HIDE DEF k
<1>4. ClickInOrder(k)
  <2>1. k.approve \in BOOLEAN /\ k.delivered \in BOOLEAN
    BY <1>2, Zenon DEF Reviewing
  <2> QED
    BY <1>2, <2>1, RowsInOrder DEF ClickInOrder
<1> QED
  BY <1>3, <1>4, ClickReads

LEMMA ModeratorReadsStep ==
  ASSUME Reviewing, NEW c \in Clicks, ModeratorReads(c) PROVE Reviewing'
<1>1. PICK i \in Present :
        Reads(c, [Ready EXCEPT !.does = "judge", !.row = i, !.text = reviews[i].text])
  BY DEF ModeratorReads
<1> DEFINE k == [Ready EXCEPT !.does = "judge", !.row = i, !.text = reviews[i].text]
<1>2. /\ k.does = "judge" /\ k.row = i /\ k.text = reviews[i].text
      /\ k.approve = FALSE /\ k.delivered = FALSE
  BY DEF Ready
<1>3. Reads(c, k)
  BY <1>1
<1> HIDE DEF k
<1>4. ClickInOrder(k)
  <2>1. k.approve \in BOOLEAN /\ k.delivered \in BOOLEAN
    BY <1>2, Zenon
  <2> QED
    <3>1. i \in 0 .. Len(reviews) /\ reviews[i].text \in 1 .. MaxTexts
      <4>1. i \in 1 .. Len(reviews) /\ reviews[i] \in ReviewRows
        BY RowsInOrder
      <4> QED
        BY <4>1, RowsInOrder DEF ReviewRows
    <3> QED
      BY <1>2, <2>1, <3>1 DEF ClickInOrder
<1> QED
  BY <1>3, <1>4, ClickReads

\* What is answered or voted on is shown while it is looked at.
LEMMA ShownReads ==
  ASSUME Reviewing, NEW c \in Clicks, NEW a \in {"reply", "vote"},
         NEW i \in Present, reviews[i].status = "approved",
         Reads(c, [Ready EXCEPT !.does = a, !.row = i])
  PROVE  Reviewing'
<1> DEFINE k == [Ready EXCEPT !.does = a, !.row = i]
<1>1. k.does = a /\ k.row = i /\ k.approve = FALSE /\ k.delivered = FALSE
  BY DEF Ready
<1>2. Reads(c, k)
  OBVIOUS
<1> HIDE DEF k
<1>3. ClickInOrder(k)
  <2>1. k.approve \in BOOLEAN /\ k.delivered \in BOOLEAN
    BY <1>1, Zenon
  <2> QED
    BY <1>1, <2>1, RowsInOrder DEF ClickInOrder, RowInOrder
<1> QED
  BY <1>2, <1>3, ClickReads

LEMMA ReplyReadsStep == ASSUME Reviewing, NEW c \in Clicks, ReplyReads(c) PROVE Reviewing'
BY ShownReads DEF ReplyReads

LEMMA VoteReadsStep == ASSUME Reviewing, NEW c \in Clicks, VoteReads(c) PROVE Reviewing'
BY ShownReads DEF VoteReads

LEMMA CreateInsertsStep == ASSUME Reviewing, NEW c \in Clicks,
  CreateInserts(c) PROVE Reviewing'
<1> DEFINE z == NewReview(c)
<1>1. /\ click' = [k \in Clicks |-> click'[k]] /\ click'[c] = Ready
      /\ \A k \in Clicks : k # c => click'[k] = click[k]
      /\ UNCHANGED <<purchase, approval>>
  BY DEF CreateInserts, Reviewing
<1>2. ClickInOrder(click[c]) /\ click[c].does = "create"
  BY DEF Reviewing, CreateInserts
<1>3. /\ z \in ReviewRows /\ RowInOrder(z) /\ (z.verified => Delivered)
  <2>1. /\ z.text = 1 /\ z.votes = {} /\ z.reply = FALSE /\
             z.verified = click[c].delivered
        /\ z.status = (IF ~click[c].approve THEN "approved" ELSE "pending")
        /\ z.cleared = ~click[c].approve /\ z.shown = ~click[c].approve
    BY DEF NewReview
  <2>2. z \in ReviewRows
    BY <1>2, ReviewsAssumption DEF NewReview, ReviewRows, ClickInOrder
  <2> HIDE DEF z
  <2>3. RowInOrder(z) /\ (z.verified => Delivered)
    BY <1>2, <2>1 DEF RowInOrder, ClickInOrder
  <2> QED
    BY <2>2, <2>3
<1> HIDE DEF z
<1>4. CASE Present # {} \/ ~(Len(reviews) < MaxReviews)
  <2>1. reviews' = reviews
    BY <1>4 DEF CreateInserts
  <2>2. \A k \in Clicks : ClickInOrder(click[k])'
    BY <1>1, <2>1, RowsInOrder, ReadyFields DEF Reviewing, ClickInOrder, Present,
       Delivered
  <2> QED
    BY <1>1, <2>1, <2>2 DEF Reviewing, Present, Delivered, RowInOrder
<1>5. CASE Present = {} /\ Len(reviews) < MaxReviews
  <2>1. reviews' = Append(reviews, z)
    BY <1>5 DEF CreateInserts, z
  <2>2. /\ reviews' \in Seq(ReviewRows) /\ Len(reviews') = Len(reviews) + 1
        /\ DOMAIN reviews' = 1 .. Len(reviews) + 1 /\ reviews'[Len(reviews) + 1] = z
        /\ \A k \in DOMAIN reviews : reviews'[k] = reviews[k]
    BY <1>3, <2>1, RowsInOrder DEF Reviewing
  <2>3. Present' \subseteq {Len(reviews) + 1}
    BY <1>5, <2>2, RowsInOrder DEF Present
  <2>4. \A k \in DOMAIN reviews' : RowInOrder(reviews'[k])
    BY <1>3, <2>2, RowsInOrder
  <2>5. \A k \in Clicks : ClickInOrder(click[k])'
    <3> SUFFICES ASSUME NEW k \in Clicks PROVE ClickInOrder(click[k])'
      OBVIOUS
    <3>1. CASE k = c
      BY <1>1, <2>2, <3>1, RowsInOrder, ReadyFields DEF ClickInOrder
    <3>2. CASE k # c
      <4>1. ClickInOrder(click[k]) /\ click'[k] = click[k]
        BY <1>1, <3>2 DEF Reviewing
      <4>2. click[k].row \notin Present'
        BY <2>3, <4>1, RowsInOrder DEF ClickInOrder
      <4> QED
        BY <1>1, <2>2, <4>1, <4>2, RowsInOrder DEF ClickInOrder, Delivered
    <3> QED
      BY <3>1, <3>2
  <2>6. \A i \in Present' : reviews'[i].verified => Delivered'
    BY <1>1, <1>3, <2>2, <2>3 DEF Delivered
  <2> QED
    <3>1. \A i, j \in Present' : i = j
      BY <2>3
    <3>2. approval' \in BOOLEAN
      BY <1>1 DEF Reviewing
    <3>3. Len(reviews') <= MaxReviews
      BY <1>5, <2>2, RowsInOrder, ReviewsAssumption
    <3> QED
      BY <1>1, <2>2, <2>4, <2>5, <2>6, <3>1, <3>2, <3>3 DEF Reviewing, RowInOrder
<1> QED
  BY <1>4, <1>5

LEMMA MineInOrder ==
  ASSUME Reviewing, NEW c \in Clicks, click[c].row \in Present
  PROVE  /\ Mine(c) \in ReviewRows /\ RowInOrder(Mine(c)) /\ Mine(c).status # "removed"
         /\ ClickInOrder(click[c])
BY RowsInOrder DEF Mine, Present, Reviewing

LEMMA EditWritesStep == ASSUME Reviewing, NEW c \in Clicks, EditWrites(c) PROVE Reviewing'
<1> SUFFICES ASSUME click[c].row \in Present PROVE Follows(Edited(c), Mine(c))
  BY RowFollows DEF EditWrites
<1> DEFINE y == Mine(c)
<1>1. y \in ReviewRows /\ RowInOrder(y) /\ y.status # "removed" /\ y.text < MaxTexts
  BY MineInOrder DEF EditWrites
<1> HIDE DEF y
<1>2. y.text + 1 \in 1 .. MaxTexts /\ y.read \in 0 .. MaxTexts
  <2>1. y.text \in 1 .. MaxTexts /\ y.read \in 0 .. MaxTexts
    BY <1>1, RowFields
  <2> QED
    BY <1>1, <2>1, ReviewsAssumption
<1>3. CASE click[c].approve
  <2> DEFINE z == [y EXCEPT !.text = @ + 1, !.status = "pending", !.cleared = FALSE]
  <2>1. Edited(c) = z
    BY <1>3 DEF Edited, y
  <2>2. z \in ReviewRows
    <3>1. FALSE \in BOOLEAN
      OBVIOUS
    <3> QED
      BY <1>1, <1>2, <3>1, RowFields
  <2>3. /\ z.status = "pending" /\ z.verified = y.verified /\ z.shown = y.shown
        /\ z.votes = y.votes /\ z.reply = y.reply
    BY <1>1 DEF ReviewRows
  <2> HIDE DEF z
  <2> QED
    BY <1>1, <2>1, <2>2, <2>3 DEF Follows, RowInOrder, y
<1>4. CASE ~click[c].approve
  <2> DEFINE z == [y EXCEPT !.text = @ + 1, !.read = IF @ = y.text THEN @ + 1 ELSE @]
  <2>1. Edited(c) = z
    BY <1>4 DEF Edited, y
  <2>2. z \in ReviewRows
    <3>1. (IF y.read = y.text THEN y.read + 1 ELSE y.read) \in 0 .. MaxTexts
      BY <1>2, ReviewsAssumption
    <3> QED
      BY <1>1, <1>2, <3>1, RowFields
  <2>3. /\ z.status = y.status /\ z.verified = y.verified /\ z.shown = y.shown
        /\ z.votes = y.votes /\ z.reply = y.reply /\ z.cleared = y.cleared
    BY <1>1 DEF ReviewRows
  <2> HIDE DEF z
  <2> QED
    BY <1>1, <2>1, <2>2, <2>3 DEF Follows, RowInOrder, y
<1> QED
  BY <1>3, <1>4

LEMMA ModerateStep == ASSUME Reviewing, NEW c \in Clicks, Moderate(c) PROVE Reviewing'
<1>1. PICK verdict \in {"approved", "rejected"} : Sends(c, "judge", Judged(c, verdict))
  BY DEF Moderate
<1> SUFFICES ASSUME click[c].row \in Present PROVE Follows(Judged(c, verdict), Mine(c))
  BY <1>1, RowFollows
<1> DEFINE y == Mine(c)
<1>2. y \in ReviewRows /\ RowInOrder(y) /\ y.status # "removed"
  BY MineInOrder
<1>3. click[c].text \in 1 .. MaxTexts
  BY <1>1, MineInOrder DEF Sends, ClickInOrder
<1> HIDE DEF y
<1>4. CASE verdict = "rejected"
  <2> DEFINE z == [y EXCEPT !.status = "rejected"]
  <2>1. Judged(c, verdict) = z
    BY <1>4 DEF Judged, y
  <2>2. /\ z \in ReviewRows /\ z.status = "rejected" /\ z.verified = y.verified
        /\ z.shown = y.shown /\ z.votes = y.votes /\ z.reply = y.reply
    BY <1>2 DEF ReviewRows
  <2> HIDE DEF z
  <2> QED
    BY <1>2, <2>1, <2>2 DEF Follows, RowInOrder, y
<1>5. CASE verdict = "approved"
  <2> DEFINE z == [y EXCEPT !.status = "approved", !.cleared = TRUE,
               !.read = click[c].text,
                            !.shown = TRUE]
  <2>1. Judged(c, verdict) = z
    BY <1>5 DEF Judged, y
  <2>2. z \in ReviewRows
    <3>1. TRUE \in BOOLEAN /\ click[c].text \in 0 .. MaxTexts
      BY <1>3
    <3> QED
      BY <1>2, <3>1, RowFields
  <2>3. z.status = "approved" /\ z.verified = y.verified /\ z.shown = TRUE /\
          z.cleared = TRUE
    BY <1>2 DEF ReviewRows
  <2> HIDE DEF z
  <2> QED
    BY <1>2, <2>1, <2>2, <2>3 DEF Follows, RowInOrder, y
<1> QED
  BY <1>4, <1>5

LEMMA ReplyStep == ASSUME Reviewing, NEW c \in Clicks, Reply(c) PROVE Reviewing'
<1> SUFFICES ASSUME click[c].row \in Present
             PROVE  Follows([Mine(c) EXCEPT !.reply = TRUE], Mine(c))
  BY RowFollows DEF Reply
<1> DEFINE y == Mine(c)
           z == [y EXCEPT !.reply = TRUE]
<1>1. y \in ReviewRows /\ RowInOrder(y) /\ y.status # "removed" /\ y.shown
  BY MineInOrder DEF Reply, Sends, ClickInOrder, Mine
<1> HIDE DEF y
<1>2. z \in ReviewRows
  <2>1. TRUE \in BOOLEAN
    OBVIOUS
  <2> QED
    BY <1>1, <2>1, RowFields
<1>3. /\ z.status = y.status /\ z.verified = y.verified /\ z.shown = y.shown
      /\ z.cleared = y.cleared
  BY <1>1 DEF ReviewRows
<1>4. Follows(z, y)
  <2> HIDE DEF z
  <2> QED
    BY <1>1, <1>2, <1>3 DEF Follows, RowInOrder
<1> QED
  BY <1>4 DEF y

LEMMA VoteStep == ASSUME Reviewing, NEW c \in Clicks, Vote(c) PROVE Reviewing'
<1>1. PICK v \in Voters : Sends(c, "vote", [Mine(c) EXCEPT !.votes = @ \cup {v}])
  BY DEF Vote
<1> SUFFICES ASSUME click[c].row \in Present
             PROVE  Follows([Mine(c) EXCEPT !.votes = @ \cup {v}], Mine(c))
  BY <1>1, RowFollows
<1> DEFINE y == Mine(c)
           z == [y EXCEPT !.votes = @ \cup {v}]
<1>2. y \in ReviewRows /\ RowInOrder(y) /\ y.status # "removed" /\ y.shown
  BY <1>1, MineInOrder DEF Sends, ClickInOrder, Mine
<1> HIDE DEF y
<1>3. z \in ReviewRows
  <2>1. y.votes \cup {v} \in SUBSET Voters
    BY <1>2, RowFields
  <2> QED
    BY <1>2, <2>1, RowFields
<1>4. /\ z.status = y.status /\ z.verified = y.verified /\ z.shown = y.shown
      /\ z.cleared = y.cleared
  BY <1>2 DEF ReviewRows
<1>5. Follows(z, y)
  <2> HIDE DEF z
  <2> QED
    BY <1>2, <1>3, <1>4 DEF Follows, RowInOrder
<1> QED
  BY <1>5 DEF y

-----------------------------------------------------------------------------
LEMMA ReviewingInit == ReviewsInit => Reviewing
<1> SUFFICES ASSUME ReviewsInit PROVE Reviewing
  OBVIOUS
<1>1. approval \in BOOLEAN
  BY DEF ReviewsInit
<1>2. reviews \in Seq(ReviewRows) /\ Len(reviews) = 0 /\ DOMAIN reviews = {} /\
        Present = {}
  BY DEF ReviewsInit, Present
<1>3. click = [c \in Clicks |-> click[c]] /\ \A c \in Clicks : click[c] = Ready
  BY DEF ReviewsInit
<1>4. ClickInOrder(Ready)
  BY <1>2, ReadyFields DEF ClickInOrder
<1> QED
  BY <1>1, <1>2, <1>3, <1>4, ReviewsAssumption DEF Reviewing

LEMMA ReviewingStep == Reviewing /\ [ReviewsNext]_reviewVars => Reviewing'
<1> SUFFICES ASSUME Reviewing, [ReviewsNext]_reviewVars PROVE Reviewing'
  OBVIOUS
<1>1. CASE UNCHANGED reviewVars
  BY <1>1 DEF Reviewing, ClickInOrder, RowInOrder, Present, Delivered, reviewVars
<1>2. CASE ReviewsNext
  BY <1>2, PurchaseMovesStep, SetApprovalStep, RemoveReviewStep, CreateReadsStep,
     CreateInsertsStep, EditReadsStep, EditWritesStep, ModeratorReadsStep, ModerateStep,
     ReplyReadsStep, ReplyStep, VoteReadsStep, VoteStep, ClickDiesStep
  DEF ReviewsNext
<1> QED
  BY <1>1, <1>2

LEMMA ReviewingHolds == Reviewing => ReviewsHold
<1> SUFFICES ASSUME Reviewing PROVE ReviewsHold
  OBVIOUS
<1>1. ReviewsTypeOK
  <2>1. approval \in BOOLEAN /\ \A c \in Clicks : click[c].row \in 0 .. Len(reviews)
    BY DEF Reviewing, ClickInOrder
  <2> QED
    BY <2>1, RowsInOrder, RowFields DEF ReviewsTypeOK
<1>2. ShownWasCleared /\ VotesFollowReviews
  BY RowsInOrder DEF ShownWasCleared, VotesFollowReviews, RowInOrder, Present
<1>3. OneReview
  <2>1. Present = {} \/ \E x : Present = {x}
    <3>1. \A i, j \in Present : i = j
      BY RowsInOrder
    <3>2. ASSUME NEW x \in Present PROVE Present = {x}
      BY <3>1
    <3> QED
      BY <3>2
  <2>2. ASSUME Present = {} PROVE Cardinality(Present) <= 1
    BY <2>2, FS_EmptySet
  <2>3. ASSUME NEW x, Present = {x} PROVE Cardinality(Present) <= 1
    BY <2>3, FS_Singleton
  <2> QED
    BY <2>1, <2>2, <2>3 DEF OneReview, Reviewing, Delivered
<1> QED
  BY <1>1, <1>2, <1>3 DEF ReviewsHold

\* For any number of calls, what is shown was let through, votes and answers are of what
\* was shown, and a customer has one review of a product, its badge earned.
THEOREM ReviewsAreInOrder == ReviewsSpec => []ReviewsHold
BY ReviewingInit, ReviewingStep, ReviewingHolds, PTL DEF ReviewsSpec

=============================================================================
