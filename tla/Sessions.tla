------------------------------ MODULE Sessions ------------------------------
(***************************************************************************)
(* The sessions of the console: the refresh tokens of jwt-auth.ts, the calls *)
(* of auth-routes.ts, and the pages that make them (auth-context.tsx), which *)
(* share the cookie of their browser.                                       *)
(*                                                                         *)
(* A refresh token belongs to a family and is replaced by a new one each     *)
(* time it is used; a token that comes twice ends its family. Rotation is a  *)
(* read, a create and an update with awaits between them. An access token is *)
(* whom it names; whether it has expired, and whether a refresh token has or *)
(* its user is inactive, is a choice. Whoever signs out leaves the page at   *)
(* once, whether its call was answered or not.                              *)
(***************************************************************************)
EXTENDS Naturals, Sequences

CONSTANTS
  People, Tabs,
  Requests,     \* calls under way at once
  MaxTokens,    \* bound of the model: refresh tokens ever made
  MaxLost       \* bound of the model: answers that never come

VARIABLES
  tokens,     \* RefreshToken, in the order of creation
  cookie,     \* the browser's refresh_token: a number of a token, or 0
  page,       \* the state of AuthProvider in each tab
  request,    \* the calls under way
  endings,    \* history: families that were signed out or found compromised
  escaped,    \* history: tokens made by a rotation that such an end overtook
  losses

sessionVars == <<tokens, cookie, page, request, endings, escaped, losses>>

Nobody == "nobody"
ClosedPage == [open |-> FALSE, loading |-> FALSE, access |-> Nobody, user |-> Nobody,
               timer |-> FALSE, leaving |-> FALSE, shared |-> FALSE]
NoRequest == [pc |-> "idle", kind |-> "none", tab |-> "none", who |-> Nobody, token |-> 0,
              child |-> 0, sound |-> FALSE, left |-> FALSE, answer |-> "none"]

Made == DOMAIN tokens
Live(t) == ~tokens[t].revoked
FamilyOf(t) == tokens[t].family
MakeToken(who, family) == Append(tokens, [who |-> who, family |-> family, revoked |-> FALSE])
RevokeWhere(S) == [t \in Made |-> IF t \in S THEN [tokens[t] EXCEPT !.revoked = TRUE] ELSE tokens[t]]

\* A person without a token is not shown: the second effect of AuthProvider.
Settled(p) == IF p.access = Nobody /\ ~p.loading THEN [p EXCEPT !.user = Nobody] ELSE p
SetPage(tab, p) == page' = [page EXCEPT ![tab] = Settled(p)]
SignedOut(p) == [p EXCEPT !.access = Nobody, !.user = Nobody, !.loading = FALSE]

Go(r, pc) == request' = [request EXCEPT ![r].pc = pc]
Answer(r, a) == request' = [request EXCEPT ![r] = [@ EXCEPT !.pc = "answer", !.answer = a]]

Begin(r, kind, tab, who, pc) ==
  /\ request[r].pc = "idle"
  /\ request' = [request EXCEPT ![r] = [NoRequest EXCEPT
       !.pc = pc, !.kind = kind, !.tab = tab, !.who = who, !.token = cookie]]
-----------------------------------------------------------------------------
(* The pages *)

\* A refresh is under way with a token of somebody else, whose cookie is to come.
OthersRefresh(others, who) ==
  \E r \in others : /\ request[r].kind = "refresh" /\ request[r].token # 0
                   /\ tokens[request[r].token].who # who

\* A page asks for a token when it is loaded, and a minute before its access
\* token expires.
OpenPage(r, tab) ==
  /\ ~page[tab].open
  /\ page' = [page EXCEPT ![tab] = [ClosedPage EXCEPT !.open = TRUE, !.loading = TRUE,
       !.shared = cookie # 0 /\ OthersRefresh(Requests, tokens[cookie].who)]]
  /\ Begin(r, "refresh", tab, Nobody, "read")
  /\ UNCHANGED <<tokens, cookie, endings, escaped, losses>>

TimerFires(r, tab) ==
  /\ page[tab].timer
  /\ page' = [page EXCEPT ![tab].timer = FALSE]
  /\ Begin(r, "refresh", tab, Nobody, "read")
  /\ UNCHANGED <<tokens, cookie, endings, escaped, losses>>

BeginLogin(r, tab, who) ==
  /\ page[tab].open /\ ~page[tab].loading /\ Begin(r, "login", tab, who, "create")
  /\ UNCHANGED <<tokens, cookie, page, endings, escaped, losses>>

\* The button calls logout and sends the page to /login without waiting.
SignOut(r, tab) ==
  /\ page[tab].user # Nobody /\ ~page[tab].leaving
  /\ page' = [page EXCEPT ![tab].leaving = TRUE]
  /\ Begin(r, "logout", tab, page[tab].access, "end")
  /\ UNCHANGED <<tokens, cookie, endings, escaped, losses>>

\* The page is gone, with its timer; nobody waits for its calls any more.
Unload(tab) ==
  /\ page[tab].leaving
  /\ page' = [page EXCEPT ![tab] = ClosedPage]
  /\ request' = [r \in Requests |-> [request[r] EXCEPT !.left = @ \/ request[r].tab = tab]]
  /\ UNCHANGED <<tokens, cookie, endings, escaped, losses>>
-----------------------------------------------------------------------------
(* The handlers *)

\* Mutant: a revoked token is rotated like any other.
AcceptedUnchecked(t) == TRUE

Accepted(t) == Live(t)

\* rotateRefreshToken reads the token the cookie held when the call was made.
ReadToken(r) ==
  LET t == request[r].token IN
  /\ request[r].pc = "read"
  /\ IF t = 0 THEN Answer(r, "no cookie")
     ELSE \/ /\ Accepted(t)
             /\ request' = [request EXCEPT ![r] = [@ EXCEPT
                  !.pc = "create", !.who = tokens[t].who,
                  !.sound = FamilyOf(t) \notin endings \/ t \in escaped]]
          \/ Accepted(t) /\ Answer(r, "refused")
          \/ ~Accepted(t) /\ Go(r, "compromised")
  /\ UNCHANGED <<tokens, cookie, page, endings, escaped, losses>>

\* The whole family, the tokens of rotations under way excepted
EndFamily(r) ==
  LET f == FamilyOf(request[r].token) IN
  /\ request[r].pc = "compromised"
  /\ tokens' = RevokeWhere({t \in Made : FamilyOf(t) = f})
  /\ endings' = endings \cup {f}
  /\ Answer(r, "refused")
  /\ UNCHANGED <<cookie, page, escaped, losses>>

\* createRefreshToken, in the family of the old one or in a new one
CreateToken(r) ==
  LET new == Len(tokens) + 1
      family == IF request[r].kind = "login" THEN new ELSE FamilyOf(request[r].token)
  IN
  /\ request[r].pc = "create" /\ new <= MaxTokens
  /\ tokens' = MakeToken(request[r].who, family)
  /\ escaped' = IF family \in endings /\ request[r].sound THEN escaped \cup {new} ELSE escaped
  /\ request' = [request EXCEPT ![r] = [@ EXCEPT !.child = new, !.answer = "token",
       !.pc = IF request[r].kind = "login" THEN "answer" ELSE "revoke"]]
  /\ UNCHANGED <<cookie, page, endings, losses>>

RevokeOld(r) ==
  /\ request[r].pc = "revoke"
  /\ tokens' = RevokeWhere({request[r].token})
  /\ Answer(r, "token")
  /\ UNCHANGED <<cookie, page, endings, escaped, losses>>

\* revokeAllUserTokens, when the access token is there and has not expired
EndSession(r) ==
  LET mine == {t \in Made : tokens[t].who = request[r].who} IN
  /\ request[r].pc = "end"
  /\ \/ /\ request[r].who # Nobody
        /\ tokens' = RevokeWhere(mine)
        /\ endings' = endings \cup {FamilyOf(t) : t \in mine}
     \/ UNCHANGED <<tokens, endings>>
  /\ Answer(r, "out")
  /\ UNCHANGED <<cookie, page, escaped, losses>>
-----------------------------------------------------------------------------
(* The answers; the browser keeps the cookie and the page goes on. *)

Answered(r, kind) == request[r].pc = "answer" /\ request[r].kind = kind /\ ~request[r].left

\* The pages share the cookie: the other ones have another person's from now on.
SharedBut(tab) == [t \in Tabs |-> IF t = tab THEN page[t] ELSE [page[t] EXCEPT !.shared = TRUE]]

\* A page has a token, and the next one is due in thirteen minutes.
RefreshAnswered(r) ==
  LET tab == request[r].tab
      p == page[tab]
  IN
  /\ Answered(r, "refresh")
  /\ IF request[r].answer = "token"
     THEN /\ cookie' = request[r].child
          /\ SetPage(tab, [p EXCEPT !.access = request[r].who, !.timer = TRUE])
          /\ request' = [request EXCEPT ![r] =
               IF p.loading THEN [@ EXCEPT !.pc = "me"] ELSE NoRequest]
     ELSE /\ cookie' = IF request[r].answer = "refused" THEN 0 ELSE cookie
          /\ SetPage(tab, SignedOut(p))
          /\ request' = [request EXCEPT ![r] = NoRequest]
  /\ UNCHANGED <<tokens, endings, escaped, losses>>

\* GET /auth/me ends the loading of the page, with or without a person.
MeAnswered(r) ==
  LET tab == request[r].tab IN
  /\ request[r].pc = "me" /\ ~request[r].left
  /\ \E who \in {request[r].who, page[tab].user} :
       SetPage(tab, [page[tab] EXCEPT !.user = who, !.loading = FALSE])
  /\ request' = [request EXCEPT ![r] = NoRequest]
  /\ UNCHANGED <<tokens, cookie, endings, escaped, losses>>

LoginAnswered(r) ==
  LET tab == request[r].tab
      mine == [page[tab] EXCEPT !.access = request[r].who, !.user = request[r].who,
                                !.timer = TRUE,
                                !.shared = OthersRefresh(Requests, request[r].who)]
  IN
  /\ Answered(r, "login")
  /\ cookie' = request[r].child
  /\ page' = [SharedBut(tab) EXCEPT ![tab] = mine]
  /\ request' = [request EXCEPT ![r] = NoRequest]
  /\ UNCHANGED <<tokens, endings, escaped, losses>>

\* logout: whatever the answer is
AfterLogout(p) == [SignedOut(p) EXCEPT !.loading = p.loading, !.timer = FALSE]

LogoutAnswered(r) ==
  /\ Answered(r, "logout")
  /\ cookie' = 0
  /\ SetPage(request[r].tab, AfterLogout(page[request[r].tab]))
  /\ request' = [request EXCEPT ![r] = NoRequest]
  /\ UNCHANGED <<tokens, endings, escaped, losses>>

\* The answer to a page that has left is dropped, its cookie kept or not. That of a
\* sign-in reaches the page that was opened in its place, too.
AnsweredTooLate(r) ==
  /\ request[r].left /\ request[r].pc \in {"answer", "me"}
  /\ \/ UNCHANGED <<cookie, page>>
     \/ /\ request[r].pc = "answer" /\ request[r].answer # "no cookie"
        /\ cookie' = request[r].child
        /\ page' = IF request[r].kind = "login" THEN SharedBut("none") ELSE page
  /\ request' = [request EXCEPT ![r] = NoRequest]
  /\ UNCHANGED <<tokens, endings, escaped, losses>>

\* The call ends before its answer: nothing is kept, and the page gives up.
Lose(r) ==
  LET p == page[request[r].tab] IN
  /\ request[r].pc \notin {"idle", "me"} /\ losses < MaxLost /\ losses' = losses + 1
  /\ request' = [request EXCEPT ![r] = NoRequest]
  /\ IF request[r].left \/ request[r].kind = "login" THEN UNCHANGED page
     ELSE SetPage(request[r].tab, IF request[r].kind = "logout" THEN AfterLogout(p) ELSE SignedOut(p))
  /\ UNCHANGED <<tokens, cookie, endings, escaped>>
-----------------------------------------------------------------------------
Init ==
  /\ tokens = <<>> /\ cookie = 0 /\ endings = {} /\ escaped = {} /\ losses = 0
  /\ page = [t \in Tabs |-> ClosedPage]
  /\ request = [r \in Requests |-> NoRequest]

Page(r, tab) ==
  OpenPage(r, tab) \/ TimerFires(r, tab) \/ SignOut(r, tab)
    \/ \E who \in People : BeginLogin(r, tab, who)

Handler(r) ==
  ReadToken(r) \/ EndFamily(r) \/ CreateToken(r) \/ RevokeOld(r) \/ EndSession(r)

Browser(r) ==
  RefreshAnswered(r) \/ MeAnswered(r) \/ LoginAnswered(r) \/ LogoutAnswered(r)
    \/ AnsweredTooLate(r) \/ Lose(r)

Next ==
  \/ \E tab \in Tabs : Unload(tab)
  \/ \E r \in Requests : Handler(r) \/ Browser(r) \/ \E tab \in Tabs : Page(r, tab)

Spec == Init /\ [][Next]_sessionVars
-----------------------------------------------------------------------------
(* Properties *)

TypeOK ==
  /\ \A t \in Made : tokens[t].who \in People /\ FamilyOf(t) \in 1..t
  /\ cookie \in {0} \cup Made /\ escaped \subseteq Made
  /\ \A t \in Tabs : /\ {page[t].access, page[t].user} \subseteq People \cup {Nobody}
                     /\ page[t].timer => page[t].open
  /\ \A r \in Requests : request[r].pc # "idle" => request[r].tab \in Tabs

\* A family that was ended is used no more, but for what a rotation that had
\* read its token before the end made of it.
EndedIsOver == \A t \in Made : Live(t) /\ FamilyOf(t) \in endings => t \in escaped

\* A page acts for the person it shows, as long as no other page signs in, before
\* or after it was left, and no refresh for somebody else is under way when the
\* page is opened or signs in.
SamePerson ==
  \A t \in Tabs : page[t].access # Nobody /\ page[t].user # Nobody /\ ~page[t].shared
    => page[t].access = page[t].user

SessionsKept == EndedIsOver /\ SamePerson
=============================================================================
