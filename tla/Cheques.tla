------------------------------- MODULE Cheques --------------------------------
(* The cheques of one partner, packages/commerce/src/checks.ts.  Each call is *)
(* a read, a decision and a write in statements of their own, so that the     *)
(* calls of two of the staff overlap.                                         *)
EXTENDS Integers, Functions, FiniteSets

CONSTANTS Clerks,      \* concurrent calls
          Sums,        \* amounts a cheque is written for
          Ceiling,     \* customers.check_ceiling_rial
          MaxCheques   \* rows of checks, for finite checking

ASSUME ChequesAssumption ==
  /\ IsFiniteSet(Clerks) /\ Clerks # {}
  /\ Sums \subseteq Nat \ {0}
  /\ \E a \in Sums : \A b \in Sums : b <= a  \* the column is a bigint
  /\ Ceiling \in Nat
  /\ MaxCheques \in Nat

VARIABLES cheque,  \* rows of checks: amount, status, and whether the log ends with it
          clerk    \* what a call is about to write

chequeVars == <<cheque, clerk>>

\* validateTransition.
NextStatus ==
  [in_circulation |-> {"deposited", "settled", "transferred", "bounced", "void"},
   deposited      |-> {"settled", "bounced"},
   settled        |-> {},
   transferred    |-> {"bounced", "settled"},
   bounced        |-> {"settled", "void"},
   void           |-> {}]

\* Faulty variant: a cheque at the bank is not open any more.
OpenStatusesAtHand == {"in_circulation"}

\* OPEN_STATUSES.
OpenStatuses == {"in_circulation", "deposited"}

Chequebook == DOMAIN cheque

Worth == [i \in Chequebook |-> cheque[i].amount]

OpenRial == SumFunctionOnSet(Worth, {i \in Chequebook : cheque[i].status \in OpenStatuses})

Rest == [at |-> "rest"]

ChequesInit == cheque = [i \in {} |-> 0] /\ clerk = [s \in Clerks |-> Rest]

\* checkCeiling, for a partner: a cheque that bounced and was not settled makes it zero.
Allowed(amount) ==
  /\ ~ \E i \in Chequebook : cheque[i].status = "bounced"
  /\ OpenRial + amount <= Ceiling

\* registerCheck: the check, and later the row and the first line of its log.
RegisterChecks(s, amount) ==
  /\ clerk[s].at = "rest" /\ Allowed(amount)
  /\ clerk' = [clerk EXCEPT ![s] = [at |-> "insert", amount |-> amount]]
  /\ UNCHANGED cheque

RegisterInserts(s) ==
  /\ clerk[s].at = "insert" /\ Cardinality(Chequebook) < MaxCheques
  /\ cheque' = [i \in Chequebook \cup {Cardinality(Chequebook) + 1} |->
                  IF i \in Chequebook THEN cheque[i]
                  ELSE [amount |-> clerk[s].amount, status |-> "in_circulation",
                        logged |-> TRUE]]
  /\ clerk' = [clerk EXCEPT ![s] = Rest]

\* changeCheckStatus, and transferCheck around it: the read that allows the move.
ChangeReads(s, i, to) ==
  /\ clerk[s].at = "rest" /\ to \in NextStatus[cheque[i].status]
  /\ clerk' = [clerk EXCEPT ![s] = [at |-> "update", row |-> i, to |-> to]]
  /\ UNCHANGED cheque

\* The update names the row only, whatever became of it.
ChangeWrites(s) ==
  /\ clerk[s].at = "update"
  /\ LET i == clerk[s].row IN
       cheque' = [cheque EXCEPT ![i].status = clerk[s].to,
                                ![i].logged = @ /\ cheque[i].status = clerk[s].to]
  /\ clerk' = [clerk EXCEPT ![s].at = "log"]

\* logCheckStatus.
ChangeLogs(s) ==
  /\ clerk[s].at = "log"
  /\ LET i == clerk[s].row IN
       cheque' = [cheque EXCEPT ![i].logged = cheque[i].status = clerk[s].to]
  /\ clerk' = [clerk EXCEPT ![s] = Rest]

\* The process dies or a statement fails: what was written stays.
ClerkStops(s) ==
  /\ clerk[s].at # "rest"
  /\ clerk' = [clerk EXCEPT ![s] = Rest]
  /\ UNCHANGED cheque

ChequesNext ==
  \E s \in Clerks :
    \/ \E amount \in Sums : RegisterChecks(s, amount)
    \/ RegisterInserts(s)
    \/ \E i \in Chequebook : \E to \in NextStatus[cheque[i].status] : ChangeReads(s, i, to)
    \/ ChangeWrites(s) \/ ChangeLogs(s)
    \/ ClerkStops(s)

ChequesSpec == ChequesInit /\ [][ChequesNext]_chequeVars

-----------------------------------------------------------------------------
(* Properties.                                                                *)

ChequesTypeOK ==
  /\ Chequebook \subseteq 1 .. MaxCheques
  /\ \A i \in Chequebook :
       cheque[i] \in [amount : Sums, status : DOMAIN NextStatus, logged : BOOLEAN]
  /\ \A s \in Clerks : clerk[s].at \in {"rest", "insert", "update", "log"}

LargestSum == CHOOSE a \in Sums : \A b \in Sums : b <= a

\* What calls under way may still add to what is open: cheques that were checked and are
\* not inserted yet, and those that are put back to "deposited" after another call closed
\* them.
Checked == [s \in Clerks |-> IF clerk[s].at = "insert" THEN clerk[s].amount ELSE 0]

Reopens(s, i) ==
  clerk[s].at = "update" /\ clerk[s].row = i /\ clerk[s].to \in {"in_circulation", "deposited"}

OpenOrReopened ==
  {i \in Chequebook : \/ cheque[i].status \in {"in_circulation", "deposited"}
                     \/ \E s \in Clerks : Reopens(s, i)}

OpenAndComing == SumFunction(Checked) + SumFunctionOnSet(Worth, OpenOrReopened)

\* BR-36: the cheques of a partner that are not cashed stay below the ceiling; calls that
\* overlap exceed it by at most one cheque for every call but one, however often statuses
\* are changed, set back by a stale call, or left half done.
CeilingHolds ==
  ChequesTypeOK /\ OpenAndComing <= Ceiling + (Cardinality(Clerks) - 1) * LargestSum

\* BR-36 as checks.ts:11 has it, without the allowance.  It does not hold of the code.
CeilingIsKept == OpenRial <= Ceiling

\* "settled" and "void" have no successor.  It does not hold of the code.
ClosedStaysClosed ==
  [][\A i \in Chequebook : NextStatus[cheque[i].status] = {} => cheque'[i].status = cheque[i].status]_chequeVars

\* BR-62 (checks.ts:13): every change of status is logged, so that between calls the log
\* ends with the status of the row.  It does not hold of the code.
EveryChangeIsLogged ==
  (\A s \in Clerks : clerk[s] = Rest) => \A i \in Chequebook : cheque[i].logged
=============================================================================
