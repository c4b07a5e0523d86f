------------------------------ MODULE MCPortal ------------------------------
(***************************************************************************)
(* Instances for TLC of what people use: the support case, the code that      *)
(* consumers sign in with and the sessions of users, the registry of the      *)
(* streams, the screen of the chat and the desk at its other end, and the     *)
(* knowledge its answers are made from. The components share no state: a run   *)
(* of the model is of one of them, the focus, and the others have a state     *)
(* of no meaning.                                                          *)
(***************************************************************************)
EXTENDS SupportCase, TLC

CONSTANTS
  Forms, Cooldown, Lifetime, MaxAttempts, MaxCodes, MaxClock,
  Conns, MaxPerKey,
  MaxPieces, MaxBubbles,
  KnowledgeEntries, Jobs, Votes, FullWeight, DecayingAt, DormantAt, ArchiveAfter, PageSize, MaxRate, MaxDay,
  Tabs, MaxTokens, MaxLost,
  MaxChanges

ASSUME PortalAssumption ==
  /\ {Cooldown, Lifetime, MaxAttempts, MaxCodes, MaxClock} \subseteq Nat
  /\ Cooldown <= Lifetime
  /\ MaxPerKey \in Nat \ {0}
  /\ {MaxPieces, MaxBubbles} \subseteq Nat
  /\ KnowledgeEntries \subseteq Nat
  /\ {FullWeight, DecayingAt, DormantAt, ArchiveAfter, MaxDay} \subseteq Nat
  /\ {PageSize, MaxRate} \subseteq Nat \ {0}
  /\ {MaxTokens, MaxLost, MaxChanges} \subseteq Nat
  /\ {"none", "nobody"} \cap Turns = {} /\ "none" \notin Tabs

VARIABLES
  focus,
  entry, clock, made, form, tries, logins,
  kind, registry, stream, gone, early,
  connected, arrived, start, pending, timer, bubbles, typing, escalated,
  entryStatus, weight, rate, used, touched, day, job, vote, basis, pace,
  tokens, cookie, page, request, endings, escaped, losses,
  stored, selected, shown, deskStream, fetch, due, strayed, passed

SignIn == INSTANCE SignInCode
Streams == INSTANCE StreamRegistry
Screen == INSTANCE ChatScreen
Knowledge == INSTANCE KnowledgeBase WITH
  Entries <- KnowledgeEntries, Full <- FullWeight, Sixty <- ArchiveAfter, Page <- PageSize
UserSessions == INSTANCE Sessions WITH People <- Turns, Requests <- Calls
Desk == INSTANCE SupportDesk WITH
  Cases <- Turns, None <- "none", Fetches <- Calls, stream <- deskStream

codeVars == <<entry, clock, made, form, tries, logins>>
streamVars == <<kind, registry, stream, gone, early>>
chatVars == <<connected, arrived, start, pending, timer, bubbles, typing, escalated>>
baseVars == <<entryStatus, weight, rate, used, touched, day, job, vote, basis, pace>>
userVars == <<tokens, cookie, page, request, endings, escaped, losses>>
deskVars == <<stored, selected, shown, deskStream, fetch, due, strayed, passed>>

\* The state of a component that is not in focus
Off == "off"

PortalInit ==
  /\ focus \in {"case", "code", "streams", "screen", "knowledge", "sessions", "desk"}
  /\ Init
  /\ IF focus = "code" THEN SignIn!Init
     ELSE /\ entry = Off /\ clock = Off /\ made = Off /\ form = Off /\ tries = Off
          /\ logins = Off
  /\ IF focus = "streams" THEN Streams!Init
     ELSE /\ kind = Off /\ registry = Off /\ stream = Off /\ gone = Off /\ early = Off
  /\ IF focus = "screen" THEN Screen!Init
     ELSE /\ connected = Off /\ arrived = Off /\ start = Off /\ pending = Off
          /\ timer = Off /\ bubbles = Off /\ typing = Off /\ escalated = Off
  /\ IF focus = "knowledge" THEN Knowledge!Init
     ELSE /\ entryStatus = Off /\ weight = Off /\ rate = Off /\ used = Off
          /\ touched = Off /\ day = Off /\ job = Off /\ vote = Off /\ basis = Off /\ pace = Off
  /\ IF focus = "sessions" THEN UserSessions!Init
     ELSE /\ tokens = Off /\ cookie = Off /\ page = Off /\ request = Off
          /\ endings = Off /\ escaped = Off /\ losses = Off
  /\ IF focus = "desk" THEN Desk!Init
     ELSE /\ stored = Off /\ selected = Off /\ shown = Off /\ deskStream = Off
          /\ fetch = Off /\ due = Off /\ strayed = Off /\ passed = Off

\* The state of the two ends of the chat, and that of who signs in
endVars == <<chatVars, deskVars>>
peopleVars == <<codeVars, userVars>>

PortalNext ==
  \/ focus = "case" /\ Next
     /\ UNCHANGED <<focus, peopleVars, streamVars, endVars, baseVars>>
  \/ focus = "code" /\ SignIn!Next
     /\ UNCHANGED <<focus, vars, userVars, streamVars, endVars, baseVars>>
  \/ focus = "streams" /\ Streams!Next
     /\ UNCHANGED <<focus, vars, peopleVars, endVars, baseVars>>
  \/ focus = "screen" /\ Screen!Next
     /\ UNCHANGED <<focus, vars, peopleVars, streamVars, deskVars, baseVars>>
  \/ focus = "knowledge" /\ Knowledge!Next
     /\ UNCHANGED <<focus, vars, peopleVars, streamVars, endVars>>
  \/ focus = "sessions" /\ UserSessions!Next
     /\ UNCHANGED <<focus, vars, codeVars, streamVars, endVars, baseVars>>
  \/ focus = "desk" /\ Desk!Next
     /\ UNCHANGED <<focus, vars, peopleVars, streamVars, chatVars, baseVars>>

PortalSpec ==
  PortalInit /\ [][PortalNext]_<<focus, vars, peopleVars, streamVars, endVars, baseVars>>
-----------------------------------------------------------------------------
(* WritebackOnce and ClosedStaysClosed are those of SupportCase. *)

\* The types of every component
TypesOK ==
  CASE focus = "case" -> TypeOK
    [] focus = "code" -> SignIn!TypeOK
    [] focus = "streams" -> Streams!TypeOK
    [] focus = "screen" -> Screen!TypeOK
    [] focus = "knowledge" -> Knowledge!TypeOK
    [] focus = "sessions" -> UserSessions!TypeOK
    [] focus = "desk" -> Desk!TypeOK

\* A code is compared and redeemed no more often than allowed.
CodeUsedUp == focus = "code" => SignIn!CodeUsedUp

\* A code is not replaced before the cooldown is over.
YoungCodeKept == [][focus = "code" => SignIn!YoungCodeStep]_codeVars

\* Who holds a place in the registry, and who lost it
PlacesAccounted == focus = "streams" => Streams!PlacesAccounted

\* What a finished bubble shows is not changed any more.
FinishedKept == [][focus = "screen" => Screen!FinishedStep]_chatVars

\* An entry has lost no more weight than the days since the use it was judged
\* by are worth at the rate it was judged by.
NotWornTwice == focus = "knowledge" => Knowledge!NotWornTwice

\* No token of a session that was ended can be refreshed but one that a rotation
\* made meanwhile, and a page acts for the person it shows; the desk shows the case
\* that is selected, as far as its events told.
PagesKept ==
  /\ focus = "sessions" => UserSessions!SessionsKept
  /\ focus = "desk" => Desk!DeskKept
-----------------------------------------------------------------------------
\* The forms, jobs and fetches are given the values of the calls, so that one
\* symmetry does for all of them.
Symmetry == Permutations(Calls) \cup Permutations(Turns)
=============================================================================
