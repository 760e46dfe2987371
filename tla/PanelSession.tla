---------------------------- MODULE PanelSession -----------------------------
(* The middleware of the web front (apps/web/src/middleware.ts) between the   *)
(* browser of one member of the staff and the sessions of the service.  A     *)
(* page that comes with a pair of tokens near its end is renewed on the way:  *)
(* one process asks once for all pages that bring the same token and remembers*)
(* the answer for a minute; several processes know nothing of each other.     *)
(* The pages reach the browser in any order, or not at all.                   *)
EXTENDS StaffSessions

CONSTANTS Webs   \* processes of the web front

VARIABLES page,    \* of every page under way: where it is, with which token
          recent,  \* of every process: answers it remembers, as <<token, pair>>
          stale,   \* the pair the browser keeps has less than two minutes left
          lost     \* ghost: families a new pair of which never reached the browser

panelVars == <<staffVars, page, recent, stale, lost>>

\* A page and the request for its renewal have one name.
Pages == Requests

Away == [at |-> "away", web |-> "no web", token |-> None, pair |-> None, data |-> FALSE]

PanelInit ==
  /\ StaffInit /\ page = [p \in Pages |-> Away] /\ recent = [w \in Webs |-> {}]
  /\ stale = FALSE /\ lost = {}

FamilyOf(token) == tokens[token].family

\* Pages of one process that bring one token.
Fellows(p) == {q \in Pages : page[q].web = page[p].web /\ page[q].token = page[p].token}

Is(p, at) == page[p].at = at

\* A page that brings what it brought, somewhere else.
Moved(p, at, pair) ==
  [at |-> at, web |-> page[p].web, token |-> page[p].token, pair |-> pair,
   data |-> page[p].data]

\* Data pages (/api/admin/...) are files: they are never sent to the login.
Opens(p, w, data) ==
  /\ Is(p, "away") /\ kept # None /\ stale
  /\ page' = [page EXCEPT ![p] = [at |-> "sent", web |-> w, token |-> kept, pair |-> None,
                                  data |-> data]]
  /\ UNCHANGED <<staffVars, recent, stale, lost>>

-----------------------------------------------------------------------------
(* refreshOnce.                                                               *)

Remembered(p) == {e \in recent[page[p].web] : e[1] = page[p].token}

RemembersPair(p) ==
  /\ Is(p, "sent")
  /\ \E e \in Remembered(p) : page' = [page EXCEPT ![p] = Moved(p, "answer", e[2])]
  /\ UNCHANGED <<staffVars, recent, stale, lost>>

JoinsRenewal(p) ==
  /\ Is(p, "sent") /\ Remembered(p) = {} /\ \E q \in Fellows(p) : Is(q, "asking")
  /\ page' = [page EXCEPT ![p] = Moved(p, "joined", None)]
  /\ UNCHANGED <<staffVars, recent, stale, lost>>

AsksForRenewal(p) ==
  /\ Is(p, "sent") /\ Remembered(p) = {} /\ \A q \in Fellows(p) : ~Is(q, "asking")
  /\ page' = [page EXCEPT ![p] = Moved(p, "asking", None)] /\ Turns(p, "read", page[p].token)
  /\ UNCHANGED <<tokens, kept, failed, ended, recent, stale, lost>>

ServiceRenews(p) ==
  /\ Is(p, "asking") /\ (RefreshReads(p) \/ Rotate(p))
  /\ UNCHANGED <<page, recent, stale, lost>>

\* Every page that waits for the renewal goes on with what came of it.
Settles(p, outcome) ==
  page' = [q \in Pages |->
             IF q \in Fellows(p) /\ page[q].at \in {"asking", "joined"}
               THEN Moved(q, "answer", outcome) ELSE page[q]]

RenewalArrives(p) ==
  /\ Is(p, "asking") /\ Does(p, "answer")
  /\ Settles(p, request[p].token) /\ Turns(p, "rest", None)
  /\ recent' = [recent EXCEPT ![page[p].web] = @ \cup {<<page[p].token, request[p].token>>}]
  /\ UNCHANGED <<tokens, kept, failed, ended, stale, lost>>

\* 401: the pages go to the login.
RenewalRejected(p) ==
  /\ Is(p, "asking") /\ RefreshEndsFamily(p) /\ Settles(p, None)
  /\ UNCHANGED <<recent, stale, lost>>

\* Faulty variant: every failure sends to the login.
RenewalLostEndsSession(p) ==
  /\ Is(p, "asking") /\ RequestEnds(p) /\ Settles(p, None)
  /\ lost' = IF Does(p, "answer") THEN lost \cup {FamilyOf(page[p].token)} ELSE lost
  /\ UNCHANGED <<recent, stale>>

\* No answer, or 5xx: the pages are shown without one, and the browser keeps its pair.
RenewalLost(p) ==
  /\ Is(p, "asking") /\ RequestEnds(p)
  /\ page' = [q \in Pages |-> IF q \in Fellows(p) /\ ~Is(q, "sent") /\ ~Is(q, "answer")
                               THEN Away ELSE page[q]]
  /\ lost' = IF Does(p, "answer") THEN lost \cup {FamilyOf(page[p].token)} ELSE lost
  /\ UNCHANGED <<recent, stale>>

\* After sixty seconds, or when there are more than two hundred; a process that starts
\* again remembers nothing.
Forgets(w, e) ==
  /\ recent' = [recent EXCEPT ![w] = @ \ {e}]
  /\ UNCHANGED <<staffVars, page, stale, lost>>

-----------------------------------------------------------------------------
(* The browser.                                                               *)

\* The answer sets the cookies; that of a page sent to the login clears them.
PageArrives(p) ==
  /\ Is(p, "answer") /\ page' = [page EXCEPT ![p] = Away]
  /\ kept' = IF page[p].pair # None THEN page[p].pair
               ELSE IF page[p].data THEN kept ELSE None
  /\ stale' = (stale /\ kept' = kept)
  /\ UNCHANGED <<tokens, request, failed, ended, recent, lost>>

PageLost(p) ==
  /\ Is(p, "answer") /\ page' = [page EXCEPT ![p] = Away]
  /\ lost' = IF page[p].pair # None THEN lost \cup {FamilyOf(page[p].pair)} ELSE lost
  /\ UNCHANGED <<staffVars, recent, stale>>

\* loginAction, and logoutAction, which clears the cookies and does not call the service.
SignsIn ==
  /\ Len(tokens) < MaxTokens /\ tokens' = Append(tokens, Token(Len(tokens) + 1))
  /\ kept' = Len(tokens) + 1 /\ stale' = FALSE
  /\ UNCHANGED <<request, failed, ended, page, recent, lost>>

SignsOut ==
  /\ kept # None /\ kept' = None /\ stale' = FALSE
  /\ UNCHANGED <<tokens, request, failed, ended, page, recent, lost>>

\* Thirteen minutes after a pair was issued, when all that was under way then is over.
PairAges ==
  /\ kept # None /\ ~stale /\ stale' = TRUE /\ \A p \in Pages : Is(p, "away")
  /\ \A w \in Webs : recent[w] = {} /\ \A i \in DOMAIN tokens : tokens[i].is # "replaced"
  /\ UNCHANGED <<staffVars, page, recent, lost>>

\* Pages that bring a token are answered within a minute after it was replaced.
GraceOfPagesEnds(i) ==
  /\ GraceEnds(i) /\ \A p \in Pages : page[p].token # i
  /\ UNCHANGED <<page, recent, stale, lost>>

PanelNext ==
  \/ SignsIn \/ SignsOut \/ PairAges \/ \E i \in DOMAIN tokens : GraceOfPagesEnds(i)
  \/ \E w \in Webs : \E e \in recent[w] : Forgets(w, e)
  \/ \E p \in Pages :
       \/ \E w \in Webs, data \in BOOLEAN : Opens(p, w, data)
       \/ RemembersPair(p) \/ JoinsRenewal(p) \/ AsksForRenewal(p) \/ ServiceRenews(p)
       \/ RenewalArrives(p) \/ RenewalRejected(p) \/ RenewalLost(p)
       \/ PageArrives(p) \/ PageLost(p)

PanelSpec == PanelInit /\ [][PanelNext]_panelVars

-----------------------------------------------------------------------------
(* Properties.                                                                *)

PanelTypeOK ==
  /\ \A p \in Pages :
       /\ page[p].at \in {"away", "sent", "joined", "asking", "answer"}
       /\ page[p].token \in {None} \cup DOMAIN tokens
       /\ page[p].pair \in {None} \cup DOMAIN tokens /\ page[p].data \in BOOLEAN
       /\ page[p] # Away => page[p].web \in Webs
  /\ \A w \in Webs : recent[w] \subseteq (DOMAIN tokens) \X (DOMAIN tokens)
  /\ stale \in BOOLEAN /\ lost \subseteq Families

\* Pages that are opened at once throw nobody out, in one process of the web front or
\* in several (the comment of refreshOnce): unless a new pair was lost on its way, no
\* page is sent to the login for its token, and the browser's token can be renewed.
NobodyIsThrownOut ==
  /\ \A p \in Pages :
       Is(p, "answer") /\ page[p].pair = None => FamilyOf(page[p].token) \in lost
  /\ kept # None => tokens[kept].is \in {"live", "replaced"} \/ FamilyOf(kept) \in lost

\* The session that a page sent to the login clears is the dead one (the comment of
\* toLogin), and not one that was begun meanwhile.
OnlyDeadSessionsAreCleared ==
  [][\A p \in Pages : PageArrives(p) /\ kept # None /\ kept' = None
       => FamilyOf(kept) = FamilyOf(page[p].token)]_panelVars

\* Who signed out stays so until the next login.
SignedOutStaysOut == [][kept = None /\ kept' # None => SignsIn]_panelVars

=============================================================================
