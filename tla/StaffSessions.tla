---------------------------- MODULE StaffSessions ----------------------------
(* The sessions of one member of the staff (packages/auth/src/service.ts): a  *)
(* browser keeps one refresh token, several of its requests use it at once,   *)
(* and every use replaces it.  Logging in is a count of the failures, a look  *)
(* at the password and an insert; refreshing is a read and, later, a          *)
(* transaction that trusts what was read.                                     *)
EXTENDS Integers, FiniteSets, Sequences

CONSTANTS Requests,      \* requests of the browser under way at once
          MaxFailed,     \* MAX_FAILED_LOGINS
          MaxTokens      \* bound: refresh tokens ever issued

ASSUME StaffAssumption ==
  IsFiniteSet(Requests) /\ MaxFailed \in Nat \ {0} /\ MaxTokens \in Nat \ {0}

None == 0

VARIABLES tokens,   \* refresh_tokens, oldest first
          kept,     \* the token the browser keeps
          request,  \* of every request: what it does, with which token
          failed,   \* failed logins of the last fifteen minutes
          ended     \* families that a logout or a token used again ended

staffVars == <<tokens, kept, request, failed, ended>>

Resting == [at |-> "rest", token |-> None]

\* A token is live, replaced within the grace of sixty seconds, replaced before it,
\* or revoked with nothing in its place.
Token(family) == [family |-> family, is |-> "live"]

\* register: the first family.
StaffInit ==
  /\ tokens = <<Token(1)>> /\ kept = 1
  /\ request = [r \in Requests |-> Resting] /\ failed = 0 /\ ended = {}

Does(r, at) == request[r].at = at

Turns(r, at, i) == request' = [request EXCEPT ![r] = [at |-> at, token |-> i]]

Families == {tokens[i].family : i \in DOMAIN tokens}

-----------------------------------------------------------------------------
(* Logging in.                                                                *)

\* assertNotLocked.
LoginChecks(r) ==
  /\ Does(r, "rest") /\ failed < MaxFailed /\ Turns(r, "password", None)
  /\ UNCHANGED <<tokens, kept, failed, ended>>

LoginFails(r) ==
  /\ Does(r, "password") /\ failed' = failed + 1 /\ Turns(r, "rest", None)
  /\ UNCHANGED <<tokens, kept, ended>>

\* issueForUser: a family of its own.
LoginOpens(r) ==
  /\ Does(r, "password") /\ Len(tokens) < MaxTokens
  /\ tokens' = Append(tokens, Token(Len(tokens) + 1))
  /\ Turns(r, "answer", Len(tokens) + 1)
  /\ UNCHANGED <<kept, failed, ended>>

FailureExpires ==
  /\ failed > 0 /\ failed' = failed - 1
  /\ UNCHANGED <<tokens, kept, request, ended>>

-----------------------------------------------------------------------------
(* Refreshing.                                                                *)

RefreshSends(r) ==
  /\ Does(r, "rest") /\ kept # None /\ Turns(r, "read", kept)
  /\ UNCHANGED <<tokens, kept, failed, ended>>

\* A token that is live, or was replaced within the grace, goes on.
RefreshReads(r) ==
  /\ Does(r, "read") /\ tokens[request[r].token].is \in {"live", "replaced"}
  /\ Turns(r, "rotate", request[r].token)
  /\ UNCHANGED <<tokens, kept, failed, ended>>

Revoked(family) ==
  [i \in DOMAIN tokens |->
     IF tokens[i].family = family /\ tokens[i].is = "live"
       THEN [tokens[i] EXCEPT !.is = "revoked"] ELSE tokens[i]]

\* Any other token ends its family.
RefreshEndsFamily(r) ==
  /\ Does(r, "read") /\ tokens[request[r].token].is \in {"late", "revoked"}
  /\ LET family == tokens[request[r].token].family IN
       /\ tokens' = Revoked(family) /\ ended' = ended \cup {family}
  /\ Turns(r, "rest", None) /\ UNCHANGED <<kept, failed>>

Rotation(i, is) ==
  Append([tokens EXCEPT ![i].is = is], Token(tokens[i].family))

\* Faulty variant: two statements without a transaction, and a crash between them.
RotateInTwo(r) ==
  /\ Does(r, "rotate") /\ Len(tokens) < MaxTokens
  /\ \/ /\ tokens' = Rotation(request[r].token, "replaced")
        /\ Turns(r, "answer", Len(tokens) + 1)
     \/ /\ tokens' = [tokens EXCEPT ![request[r].token].is = "replaced"]
        /\ Turns(r, "rest", None)
  /\ UNCHANGED <<kept, failed, ended>>

\* The transaction: a new token of the family, and the old one replaced by it, whatever
\* became of it since it was read.
Rotate(r) ==
  /\ Does(r, "rotate") /\ Len(tokens) < MaxTokens
  /\ tokens' = Rotation(request[r].token, "replaced")
  /\ Turns(r, "answer", Len(tokens) + 1)
  /\ UNCHANGED <<kept, failed, ended>>

\* The answers of the requests reach the browser in any order.
Answered(r) ==
  /\ Does(r, "answer") /\ kept' = request[r].token /\ Turns(r, "rest", None)
  /\ UNCHANGED <<tokens, failed, ended>>

\* An answer is lost, the server dies, the token has expired, the user is not active.
RequestEnds(r) ==
  /\ ~Does(r, "rest") /\ Turns(r, "rest", None)
  /\ UNCHANGED <<tokens, kept, failed, ended>>

\* Sixty seconds after a replacement.
GraceEnds(i) ==
  /\ tokens[i].is = "replaced" /\ tokens' = [tokens EXCEPT ![i].is = "late"]
  /\ UNCHANGED <<kept, request, failed, ended>>

\* logout: the token itself, and only when it is live.
LogoutStaff ==
  /\ kept # None /\ kept' = None
  /\ tokens' = IF tokens[kept].is = "live"
                 THEN [tokens EXCEPT ![kept].is = "revoked"] ELSE tokens
  /\ ended' = ended \cup {tokens[kept].family}
  /\ UNCHANGED <<request, failed>>

StaffNext ==
  \/ FailureExpires \/ LogoutStaff \/ \E i \in DOMAIN tokens : GraceEnds(i)
  \/ \E r \in Requests :
       \/ LoginChecks(r) \/ LoginFails(r) \/ LoginOpens(r)
       \/ RefreshSends(r) \/ RefreshReads(r) \/ RefreshEndsFamily(r)
       \/ Rotate(r) \/ Answered(r) \/ RequestEnds(r)

StaffSpec == StaffInit /\ [][StaffNext]_staffVars

-----------------------------------------------------------------------------
(* Properties.                                                                *)

TokenStates == {"live", "replaced", "late", "revoked"}

\* Types; the browser and its requests hold tokens that were issued.
StaffTypeOK ==
  /\ tokens \in Seq([family : Nat \ {0}, is : TokenStates]) /\ Len(tokens) <= MaxTokens
  /\ kept \in {None} \cup DOMAIN tokens /\ failed \in Nat /\ ended \subseteq Families
  /\ \A r \in Requests :
       /\ request[r].at \in {"rest", "password", "read", "rotate", "answer"}
       /\ request[r].token \in
            IF request[r].at \in {"rest", "password"} THEN {None} ELSE DOMAIN tokens

\* The lock of an account holds against logins that overlap: all that counted before
\* the limit was reached may still fail, and no more.
LockoutBound ==
  failed + Cardinality({r \in Requests : Does(r, "password")})
    <= MaxFailed + Cardinality(Requests) - 1

\* Nobody is thrown out for having two tabs: in a family that nobody ended, a token
\* is not live only because another took its place, whatever order the requests and
\* their answers came in, so that its late use within the grace goes on.
OnlyReplacedTokensAreRevoked ==
  \A i \in DOMAIN tokens : tokens[i].family \notin ended => tokens[i].is # "revoked"

\* A family that nobody ended always has a live token: no crash, lost answer or
\* overlap of two rotations leaves a session that cannot go on.
FamilyLives ==
  \A f \in Families \ ended : \E i \in DOMAIN tokens : tokens[i].family = f /\ tokens[i].is = "live"

\* A session goes on until somebody ends it: requests that refresh it at once, lost
\* answers and crashes neither revoke its tokens nor leave it without a live one.
SessionGoesOn == OnlyReplacedTokensAreRevoked /\ FamilyLives

\* What the staff's sign-in keeps, however logins and refreshes overlap.
SignInHolds == StaffTypeOK /\ LockoutBound /\ SessionGoesOn

=============================================================================
