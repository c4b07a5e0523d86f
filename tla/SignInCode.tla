----------------------------- MODULE SignInCode -----------------------------
(***************************************************************************)
(* Signing in to the consumer portal with a code sent by mail: the store    *)
(* of codes of the API process (portal-auth.ts) and the forms that ask for  *)
(* one and present it (email-verify.tsx), for one address of one brand.     *)
(*                                                                         *)
(* A code is numbered by the order of the sends; 0 is a code nobody sent,   *)
(* and a store without an entry holds code 0. A handler of the API is one   *)
(* step up to its await. The sweep is part of the store; the mail, the      *)
(* digits of the form and the session token are left out.                   *)
(***************************************************************************)
EXTENDS Naturals

CONSTANTS
  Forms,        \* pages of one consumer, or of several who use one address
  Cooldown,     \* OTP_COOLDOWN_MS
  Lifetime,     \* OTP_TTL_MS
  MaxAttempts,  \* OTP_MAX_ATTEMPTS
  MaxCodes,     \* bound of the model: codes sent
  MaxClock      \* bound of the model: end of time

VARIABLES
  entry,    \* the entry of otpStore: code, expiresAt, attempts, and who asked
  clock,
  made,     \* codes made
  form,     \* per form: its step, its request under way, the end of its cooldown
  tries,    \* history: comparisons per code
  logins    \* history: sign-ins per code

codeVars == <<entry, clock, made, form, tries, logins>>

NoEntry == [code |-> 0, expiresAt |-> 0, attempts |-> 0, by |-> "nobody"]
FreshForm == [step |-> "email", pc |-> "idle", code |-> 0, seen |-> 0, resendAt |-> 0]

Stored == entry.code # 0
Age == clock + Lifetime - entry.expiresAt
\* The form without its request
Back(f) == [form[f] EXCEPT !.pc = "idle", !.code = 0, !.seen = 0]
-----------------------------------------------------------------------------
(* The form *)

\* handleSendCode, which looks at no cooldown
AskCode(f) ==
  /\ form[f].pc = "idle" /\ form[f].step = "email"
  /\ form' = [form EXCEPT ![f].pc = "send"]
  /\ UNCHANGED <<entry, clock, made, tries, logins>>

\* handleResend
AskAgain(f) ==
  /\ form[f].pc = "idle" /\ form[f].step = "code"
  /\ clock >= form[f].resendAt
  /\ form' = [form EXCEPT ![f].pc = "send"]
  /\ UNCHANGED <<entry, clock, made, tries, logins>>

\* handleVerifyCode, with any code that was mailed, or none of them
Submit(f) ==
  /\ form[f].pc = "idle" /\ form[f].step = "code"
  /\ \E code \in 0..made :
       form' = [form EXCEPT ![f] = [@ EXCEPT !.pc = "verify", !.code = code]]
  /\ UNCHANGED <<entry, clock, made, tries, logins>>

\* "Change Email", and the same address is typed again
ChangeEmail(f) ==
  /\ form[f].pc = "idle" /\ form[f].step = "code"
  /\ form' = [form EXCEPT ![f].step = "email"]
  /\ UNCHANGED <<entry, clock, made, tries, logins>>

\* The answer of a send: the code step, and a cooldown counted from now
Sent(f) ==
  /\ form[f].pc = "sent"
  /\ form' = [form EXCEPT ![f] = [Back(f) EXCEPT !.step = "code",
                                                   !.resendAt = clock + Cooldown]]
  /\ UNCHANGED <<entry, clock, made, tries, logins>>

\* A statement of the handler fails, or its answer is lost; the form shows an
\* error and stays where it is.
Lost(f) ==
  /\ form[f].pc \in {"look", "sent", "upsert"} /\ form' = [form EXCEPT ![f] = Back(f)]
  /\ UNCHANGED <<entry, clock, made, tries, logins>>
-----------------------------------------------------------------------------
(* The API *)

\* Mutant: the time left is taken for the time elapsed.
TooSoonByRest == Stored /\ clock < entry.expiresAt /\ entry.expiresAt - clock < Cooldown

\* A live entry younger than the cooldown
TooSoon == Stored /\ clock < entry.expiresAt /\ Age < Cooldown

\* POST /send-code up to the lookup of the brand
CheckCooldown(f) ==
  /\ form[f].pc = "send"
  /\ form' = [form EXCEPT ![f] = IF TooSoon THEN Back(f)
                                ELSE [@ EXCEPT !.pc = "look", !.seen = entry.code]]
  /\ UNCHANGED <<entry, clock, made, tries, logins>>

\* ... and after it: a new code takes the place of whatever is stored.
StoreCode(f) ==
  /\ form[f].pc = "look" /\ made < MaxCodes
  /\ made' = made + 1
  /\ entry' = [code |-> made + 1, expiresAt |-> clock + Lifetime, attempts |-> 0, by |-> f]
  /\ form' = [form EXCEPT ![f] = [@ EXCEPT !.pc = "sent", !.code = made + 1]]
  /\ UNCHANGED <<clock, tries, logins>>

\* A brand that does not exist gets the answer of one that does.
NoBrand(f) ==
  /\ form[f].pc = "look"
  /\ form' = [form EXCEPT ![f] = [@ EXCEPT !.pc = "sent", !.code = 0]]
  /\ UNCHANGED <<entry, clock, made, tries, logins>>

Exhausted == entry.attempts >= MaxAttempts

\* Mutant: a code that was compared is kept for the next statement.
AfterCompareKept(f) == [entry EXCEPT !.attempts = @ + 1]

\* The attempt is counted; a code that is right is deleted at once.
AfterCompare(f) ==
  IF form[f].code = entry.code THEN NoEntry ELSE [entry EXCEPT !.attempts = @ + 1]

\* POST /verify-code up to the write of the consumer
Verify(f) ==
  /\ form[f].pc = "verify"
  /\ IF ~Stored \/ clock > entry.expiresAt \/ Exhausted
     THEN entry' = NoEntry /\ form' = [form EXCEPT ![f] = Back(f)] /\ UNCHANGED tries
     ELSE /\ tries' = [tries EXCEPT ![entry.code] = @ + 1]
          /\ entry' = AfterCompare(f)
          /\ form' = [form EXCEPT ![f] = IF form[f].code = entry.code
                                         THEN [@ EXCEPT !.pc = "upsert"] ELSE Back(f)]
  /\ UNCHANGED <<clock, made, logins>>

\* The consumer is written, the token answered, and the form leaves.
SignIn(f) ==
  /\ form[f].pc = "upsert" /\ form' = [form EXCEPT ![f].pc = "in"]
  /\ logins' = [logins EXCEPT ![form[f].code] = @ + 1]
  /\ UNCHANGED <<entry, clock, made, tries>>

\* The timer of the store
Sweep ==
  /\ Stored /\ clock > entry.expiresAt
  /\ entry' = NoEntry
  /\ UNCHANGED <<clock, made, form, tries, logins>>

Tick ==
  /\ clock < MaxClock /\ clock' = clock + 1
  /\ UNCHANGED <<entry, made, form, tries, logins>>
-----------------------------------------------------------------------------
Init ==
  /\ entry = NoEntry /\ clock = 0 /\ made = 0
  /\ form = [f \in Forms |-> FreshForm]
  /\ tries = [k \in 1..MaxCodes |-> 0] /\ logins = [k \in 1..MaxCodes |-> 0]

Page(f) ==
  \/ AskCode(f) \/ AskAgain(f) \/ Submit(f) \/ ChangeEmail(f) \/ Sent(f) \/ Lost(f)

Handler(f) ==
  \/ CheckCooldown(f) \/ StoreCode(f) \/ NoBrand(f) \/ Verify(f) \/ SignIn(f)

Next == Sweep \/ Tick \/ \E f \in Forms : Page(f) \/ Handler(f)

Spec == Init /\ [][Next]_codeVars
-----------------------------------------------------------------------------
(* Properties *)

\* The entry and what the forms present are codes that were made.
TypeOK ==
  /\ entry.code \in 0..made /\ entry.attempts \in Nat
  /\ clock \in Nat /\ made \in 0..MaxCodes
  /\ form \in [Forms -> [step : {"email", "code"}, code : 0..made, seen : 0..made,
                         pc : {"idle", "send", "look", "sent", "verify", "upsert", "in"},
                         resendAt : Nat]]

\* A code signs in once, however many forms present it at the same time, and
\* is compared at most MaxAttempts times in its life: no resend, race or sweep
\* gives it its attempts back.
CodeUsedUp == \A k \in 1..made : logins[k] <= 1 /\ tries[k] <= MaxAttempts

Young == Stored /\ clock < entry.expiresAt - Lifetime + Cooldown

\* A code younger than the cooldown is replaced only by a send whose check
\* came before that code was stored.
YoungCodeStep == Young /\ entry'.code > entry.code => form[entry'.by].seen # entry.code
=============================================================================
