------------------------------- MODULE Shopper ------------------------------
(* The account of one mobile number (packages/shopper/src/index.ts): codes    *)
(* that are sent by SMS, the account that a code opens, and its sessions.     *)
(* Asking for a code is three statements without a transaction; entering one  *)
(* is a look, a transaction for the code and a transaction for the account.   *)
EXTENDS Integers, FiniteSetsExt, SequencesExt

CONSTANTS Devices,      \* browsers of the customer, each with one call under way
          MaxAttempts,  \* OTP_MAX_ATTEMPTS
          HourlyCodes,  \* OTP_RATE_LIMIT_PER_HOUR
          MaxCodes,     \* bound: codes ever made; no more than the LIMIT of 5 of the look
          MaxSessions   \* bound: sessions at a time

ASSUME ShopperAssumption ==
  /\ IsFiniteSet(Devices) /\ MaxAttempts \in Nat \ {0} /\ HourlyCodes \in Nat \ {0}
  /\ MaxCodes \in 0 .. 5 /\ MaxSessions \in Nat

Purposes == {"login", "register"}

\* Ages of a code: within its two minutes, within the hour, and after it.
Ages == 0 .. 2
Past == 2
Wrong == 0

VARIABLES codes,     \* the rows of customer_otps, oldest first
          call,      \* of every device: the call under way
          opened,    \* of every code: sessions it opened
          account,   \* "none", "active", "blocked"
          sessions,  \* sessions that are not revoked
          revoking   \* the panel changed the account and has its sessions to revoke

codeVars    == <<codes, opened>>
accountVars == <<account, sessions, revoking>>
shopperVars == <<codeVars, accountVars, call>>

Rest == [at |-> "rest", purpose |-> "login", code |-> Wrong, saw |-> "none"]

ShopperInit ==
  /\ codes = <<>> /\ opened = <<>> /\ call = [d \in Devices |-> Rest]
  /\ account \in {"none", "active"} /\ sessions = 0
  /\ revoking = FALSE

At(d, at) == call[d].at = at

Goes(d, at) == call' = [call EXCEPT ![d].at = at]

Ends(d) == call' = [call EXCEPT ![d] = Rest]

-----------------------------------------------------------------------------
(* Asking for a code.                                                         *)

\* Every code ages, older ones first.
CodesAge ==
  /\ \E i \in DOMAIN codes :
       /\ codes[i].age < Past
       /\ \A j \in 1 .. i - 1 : codes[j].age > codes[i].age \/ codes[j].age = Past
       /\ codes' = [codes EXCEPT ![i].age = @ + 1]
  /\ UNCHANGED <<opened, accountVars, call>>

CodesOfTheHour == {i \in DOMAIN codes : codes[i].age < Past}

RequestCounts(d, p) ==
  /\ At(d, "rest") /\ Cardinality(CodesOfTheHour) < HourlyCodes
  /\ call' = [call EXCEPT ![d] = [Rest EXCEPT !.at = "burn", !.purpose = p]]
  /\ UNCHANGED <<codeVars, accountVars>>

RequestBurns(d) ==
  /\ At(d, "burn") /\ Goes(d, "insert")
  /\ codes' = [i \in DOMAIN codes |->
       IF codes[i].purpose = call[d].purpose THEN [codes[i] EXCEPT !.consumed = TRUE]
       ELSE codes[i]]
  /\ UNCHANGED <<opened, accountVars>>

\* The unique index customer_otps_one_live: unused codes of a purpose, expired or not.
Unused(p) == {i \in DOMAIN codes : codes[i].purpose = p /\ ~codes[i].consumed}

\* An unused code makes the insert fail, and with it the request.
RequestInserts(d) ==
  /\ At(d, "insert") /\ Ends(d)
  /\ IF Unused(call[d].purpose) # {} THEN UNCHANGED codeVars
     ELSE /\ Len(codes) < MaxCodes
          /\ codes' = Append(codes, [purpose |-> call[d].purpose, consumed |-> FALSE,
                                     attempts |-> 0, age |-> 0])
          /\ opened' = Append(opened, 0)
  /\ UNCHANGED accountVars

-----------------------------------------------------------------------------
(* Entering a code.                                                           *)

\* A code that was used or burned is refused, for ten minutes, before anything is
\* counted: at least while it could have been entered.
VerifyLooks(d, p, i) ==
  /\ At(d, "rest")
  /\ i # Wrong => ~(codes[i].purpose = p /\ codes[i].consumed /\ codes[i].age = 0)
  /\ call' = [call EXCEPT ![d] = [Rest EXCEPT !.at = "code", !.purpose = p, !.code = i]]
  /\ UNCHANGED <<codeVars, accountVars>>

Enterable(p) == {i \in DOMAIN codes :
                   codes[i].purpose = p /\ ~codes[i].consumed /\ codes[i].age = 0}

\* Faulty variant: the code is used up by the transaction of the account, not by
\* its own.
VerifyCodeLeavingIt(d) ==
  /\ At(d, "code") /\ Enterable(call[d].purpose) # {}
  /\ call[d].code = Max(Enterable(call[d].purpose)) /\ Goes(d, "account")
  /\ UNCHANGED <<codeVars, accountVars>>

\* The transaction of the code: the newest that can be entered, its row locked.
VerifyCode(d) ==
  /\ At(d, "code")
  /\ IF Enterable(call[d].purpose) = {} THEN Ends(d) /\ UNCHANGED codes
     ELSE LET i == Max(Enterable(call[d].purpose)) IN
       CASE codes[i].attempts >= MaxAttempts ->
              codes' = [codes EXCEPT ![i].consumed = TRUE] /\ Ends(d)
         [] codes[i].attempts < MaxAttempts /\ call[d].code # i ->
              codes' = [codes EXCEPT ![i].attempts = @ + 1] /\ Ends(d)
         [] OTHER ->
              codes' = [codes EXCEPT ![i].consumed = TRUE] /\ Goes(d, "account")
  /\ UNCHANGED <<opened, accountVars>>

\* The transaction of the account begins: the code is used up whatever it finds.
VerifyReadsAccount(d) ==
  /\ At(d, "account")
  /\ IF account = "blocked" \/ (account = "none" /\ call[d].purpose = "login") THEN Ends(d)
     ELSE call' = [call EXCEPT ![d].at = "open", ![d].saw = account]
  /\ UNCHANGED <<codeVars, accountVars>>

\* The rest of it.  An account that came up meanwhile breaks the unique phone number,
\* and nothing is written.
VerifyOpens(d) ==
  /\ At(d, "open") /\ Ends(d)
  /\ IF call[d].saw = "none" /\ account # "none" THEN UNCHANGED <<opened, accountVars>>
     ELSE /\ sessions < MaxSessions /\ sessions' = sessions + 1
          /\ account' = IF account = "none" THEN "active" ELSE account
          /\ opened' = [opened EXCEPT ![call[d].code] = @ + 1]
          /\ UNCHANGED revoking
  /\ UNCHANGED codes

\* The server or the connection is gone between two of the steps.
CallDies(d) == ~At(d, "rest") /\ Ends(d) /\ UNCHANGED <<codeVars, accountVars>>

-----------------------------------------------------------------------------
(* Passwords, sessions and the panel.                                         *)

\* An account may have a password.
PasswordChecks(d) ==
  /\ At(d, "rest") /\ account = "active" /\ Goes(d, "password")
  /\ UNCHANGED <<codeVars, accountVars>>

PasswordOpens(d) ==
  /\ At(d, "password") /\ Ends(d)
  /\ sessions < MaxSessions /\ sessions' = sessions + 1
  /\ UNCHANGED <<codeVars, account, revoking>>

\* sessionFromToken: the session is not revoked and its account is active.
SignedIn == sessions > 0 /\ account = "active"

Logout ==
  /\ sessions > 0 /\ sessions' = sessions - 1
  /\ UNCHANGED <<codeVars, call, account, revoking>>

LogoutEverywhere ==
  /\ SignedIn /\ sessions' = 0
  /\ UNCHANGED <<codeVars, call, account, revoking>>

\* setStatus of the panel, to block or to unblock: the account, then its sessions.
SetStatus ==
  /\ account # "none" /\ ~revoking /\ revoking' = TRUE
  /\ account' \in {"active", "blocked"}
  /\ UNCHANGED <<codeVars, call, sessions>>

StatusRevokes ==
  /\ revoking /\ revoking' = FALSE /\ sessions' = 0
  /\ UNCHANGED <<codeVars, call, account>>

-----------------------------------------------------------------------------
ShopperNext ==
  \/ CodesAge \/ Logout \/ LogoutEverywhere
  \/ SetStatus \/ StatusRevokes
  \/ \E d \in Devices :
       \/ \E p \in Purposes : RequestCounts(d, p)
       \/ RequestBurns(d) \/ RequestInserts(d)
       \/ \E p \in Purposes, i \in 0 .. Len(codes) : VerifyLooks(d, p, i)
       \/ VerifyCode(d) \/ VerifyReadsAccount(d) \/ VerifyOpens(d)
       \/ CallDies(d) \/ PasswordChecks(d) \/ PasswordOpens(d)

ShopperSpec == ShopperInit /\ [][ShopperNext]_shopperVars

-----------------------------------------------------------------------------
(* Properties.                                                                *)

CallTypes == [at : {"rest", "burn", "insert", "code", "account", "open", "password"},
              purpose : Purposes, code : 0 .. MaxCodes, saw : {"none", "active"}]

CodeTypes == [purpose : Purposes, consumed : BOOLEAN, attempts : Nat, age : Ages]

\* Types; a code is entered by what opens a session, and a wrong one by nothing.
ShopperTypeOK ==
  /\ codes \in Seq(CodeTypes) /\ Len(codes) <= MaxCodes
  /\ opened \in Seq(Nat) /\ Len(opened) = Len(codes)
  /\ call \in [Devices -> CallTypes]
  /\ \A d \in Devices : call[d].at \in {"account", "open"} => call[d].code \in DOMAIN codes
  /\ account \in {"none", "active", "blocked"} /\ revoking \in BOOLEAN
  /\ sessions \in 0 .. MaxSessions

\* A code opens one session, however many devices enter it at the same time and
\* wherever their calls end.
OneSessionPerCode == \A i \in DOMAIN opened : opened[i] <= 1

\* A code is tried a bounded number of times, although the message that says so is an
\* error that follows the count.
AttemptsAreBounded == \A i \in DOMAIN codes : codes[i].attempts <= MaxAttempts

\* A new code takes the place of the one before: of each purpose at most one is
\* unused, although asking for one is not a transaction.
NewCodeBurnsOld == \A p \in Purposes : Cardinality({i \in DOMAIN codes :
                     codes[i].purpose = p /\ ~codes[i].consumed}) <= 1

\* In an hour a number is sent its codes, and at most one more for each further
\* device that asked at the same time.
HourIsBounded ==
  Cardinality({i \in DOMAIN codes : codes[i].age < Past}) <= HourlyCodes + Cardinality(Devices) - 1

\* However the calls of several devices overlap and wherever they end, asking for
\* codes and guessing them stays within its bounds, and a code opens one session.
CodesHold ==
  ShopperTypeOK /\ OneSessionPerCode /\ AttemptsAreBounded /\ NewCodeBurnsOld /\ HourIsBounded

=============================================================================
