------------------------------ MODULE Session ------------------------------
(***************************************************************************)
(* Who holds the tokens, and what a request does about them: the session   *)
(* with its single refresh in the air and the generation every clear()     *)
(* bumps (api/session.ts), the one HTTP path with its bounded retries, its *)
(* one refresh per 401 and its caller's abort (api/client.ts), the sign-in *)
(* that leaves the document and comes back with a code (features/auth) and *)
(* the sign-out that has to leave the device empty.  Cognito and the API   *)
(* are external: a grant that may end, a clock that ages the id token, an  *)
(* answer that may never come.                                             *)
(***************************************************************************)
EXTENDS Integers, FiniteSets

CONSTANTS
  Requests,    \* logical requests, each used once
  Writes,      \* those that change something, and so carry an idempotency key
  MaxRetries,  \* attempts after the first
  MaxFlows,    \* sign-ins started
  MaxClock,    \* ticks of the clock
  MaxMishaps,  \* lost answers, kills, ended grants
  Windows      \* the hazards a run lets happen: "late_read", "interrupted"

VARIABLES
  clock, mishaps,
  tokens, stored,         \* in memory, and in localStorage
  generation, inFlight,   \* the session's own bookkeeping
  air,                    \* refreshes Cognito has not answered, by id
  req,                    \* the requests
  acted,                  \* the keys the API has acted on, by request
  grants, revoking,       \* refresh tokens Cognito honours; revokes sent
  refuses,                \* an API that answers 401 whatever the bearer
  where, flow,            \* "app" or "cognito"; what the gate has in flight
  asked, pending, code,   \* sign-ins started; the one remembered; a code being redeemed
  device,                 \* sign-ins whose notes are in IndexedDB
  leaving, wiped,         \* the sign-out under way
  ended                   \* history: the sign-ins that were signed out of

server == <<acted, grants, revoking, refuses>>
auth   == <<where, flow, asked, pending, code>>
exit   == <<device, leaving, wiped, ended>>
held   == <<tokens, stored, generation>>
vars   == <<clock, mishaps, held, inFlight, air, req, server, auth, exit>>

-----------------------------------------------------------------------------
(* tokens.ts *)

TokenLife == 2
Skew == 1
NoTokens == [flow |-> 0, refresh |-> FALSE, expires |-> 0]

TokenSetFromWire(wire, previous) ==
  [flow |-> wire.flow, refresh |-> wire.refresh \/ previous.refresh,
   expires |-> clock + TokenLife]

NeedsRefresh(t) == clock >= t.expires - Skew
CanRefresh(t) == t.refresh

SignedIn == tokens # NoTokens

-----------------------------------------------------------------------------
(* session.ts *)

Airs == 1..2   \* the current generation's and one it outlived
Landed == [gen |-> -1, from |-> NoTokens]
FreeAir == CHOOSE i \in Airs : air[i] = Landed

SessionSet(t) == tokens' = t /\ stored' = t /\ UNCHANGED generation

SessionClear ==
  /\ tokens' = NoTokens /\ stored' = NoTokens
  /\ generation' = generation + 1

(* A caller of refresh() joins the one in the air or puts one there. *)
Join(r, q) ==
  LET i == IF inFlight # 0 THEN inFlight ELSE FreeAir IN
    /\ req' = [req EXCEPT ![r] = [q EXCEPT !.on = i]]
    /\ inFlight' = i
    /\ air' = IF inFlight # 0 THEN air
              ELSE [air EXCEPT ![i] = [gen |-> generation, from |-> tokens]]

-----------------------------------------------------------------------------
(* client.ts *)

Pcs == {"idle", "skew", "sent", "again", "sleep", "done", "failed", "cancelled", "gone"}
Open == {"skew", "sent", "again", "sleep"}
Unsent == [pc |-> "idle", tries |-> 0, refreshed |-> FALSE, bearer |-> NoTokens,
           quit |-> FALSE, on |-> 0, key |-> 0]

(* One idempotency key for the whole logical request. *)
KeyFor(q) == 1

Sent(q, bearer) == [q EXCEPT !.pc = "sent", !.on = 0, !.bearer = bearer, !.key = KeyFor(q)]
Ended(how) == [Unsent EXCEPT !.pc = how]
Set(r, q) == req' = [req EXCEPT ![r] = q]

Due == SignedIn /\ NeedsRefresh(tokens) /\ CanRefresh(tokens)

(* The top of the retry loop. *)
Attempt(r, q) ==
  \/ /\ q.quit
     /\ Set(r, Ended("cancelled")) /\ UNCHANGED <<inFlight, air>>
  \/ /\ ~q.quit /\ Due
     /\ Join(r, [q EXCEPT !.pc = "skew"])
  \/ /\ ~q.quit /\ ~Due
     /\ Set(r, Sent(q, tokens)) /\ UNCHANGED <<inFlight, air>>

Begin(r) ==
  /\ where = "app" /\ flow # "exchanging" /\ SignedIn /\ req[r].pc = "idle"
  /\ Attempt(r, Unsent)
  /\ UNCHANGED <<clock, mishaps, held, server, auth, exit>>

Wake(r) ==
  /\ req[r].pc = "sleep"
  /\ Attempt(r, [req[r] EXCEPT !.tries = @ + 1])
  /\ UNCHANGED <<clock, mishaps, held, server, auth, exit>>

(* A caller's abort inside the proactive refresh is only noted: the *)
(* attempt has not listened for it yet.                                    *)
Listens(q) == q.pc \in {"sent", "sleep"}

Cancel(r) ==
  /\ req[r].pc \in Open /\ ~req[r].quit
  /\ Set(r, LET q == [req[r] EXCEPT !.quit = TRUE] IN
              IF Listens(q) THEN Ended("cancelled") ELSE q)
  /\ UNCHANGED <<clock, mishaps, held, inFlight, air, server, auth, exit>>

Valid(bearer) == bearer # NoTokens /\ clock < bearer.expires /\ ~refuses

Acts(r) == acted' = [acted EXCEPT ![r] = IF r \in Writes THEN @ \cup {req[r].key} ELSE @]

(* An answered read is remembered on the device, whoever is signed in now. *)
Remembers(r) ==
  device' = IF r \in Writes THEN device ELSE device \cup {req[r].bearer.flow}

Answered(r) ==
  /\ req[r].pc = "sent" /\ Valid(req[r].bearer)
  /\ "late_read" \in Windows \/ leaving = 0
  /\ Acts(r) /\ Remembers(r)
  /\ Set(r, Ended("done"))
  /\ UNCHANGED <<clock, mishaps, held, inFlight, air, grants, revoking, refuses, auth,
                 leaving, wiped, ended>>

(* A 401 is worth one refresh, which is not one of the retries. *)
RefreshesAgainMutant(q) == [q EXCEPT !.pc = "again"]
Refreshes(q) == [q EXCEPT !.pc = "again", !.refreshed = TRUE]

Unauthorized(r) ==
  /\ req[r].pc = "sent" /\ ~Valid(req[r].bearer)
  /\ IF req[r].refreshed \/ (inFlight = 0 /\ ~CanRefresh(tokens))
       THEN Set(r, Ended("failed")) /\ UNCHANGED <<inFlight, air>>
       ELSE Join(r, Refreshes(req[r]))
  /\ UNCHANGED <<clock, mishaps, held, server, auth, exit>>

Spent(q) == q.tries = MaxRetries

(* No answer, or a 5xx: the API may have acted before it was lost. *)
Lost(r) ==
  /\ req[r].pc = "sent" /\ mishaps < MaxMishaps
  /\ (Valid(req[r].bearer) /\ Acts(r)) \/ UNCHANGED acted
  /\ Set(r, LET q == req[r] IN
              IF Spent(q) THEN Ended("failed")
              ELSE IF q.quit THEN Ended("cancelled")
              ELSE [q EXCEPT !.pc = "sleep"])
  /\ mishaps' = mishaps + 1
  /\ UNCHANGED <<clock, held, inFlight, air, grants, revoking, refuses, auth, exit>>

-----------------------------------------------------------------------------
(* A refresh is answered, refused or lost, and everyone waiting goes on. *)

Resume(i, ok, bearer) ==
  req' = [r \in Requests |->
    LET q == req[r] IN
      IF q.on # i THEN q
      ELSE IF q.pc = "skew" THEN Sent(q, bearer)
      ELSE IF ~ok THEN Ended("failed")
      ELSE IF q.quit THEN Ended("cancelled")
      ELSE Sent(q, bearer)]

AnyGenerationMutant(i) == TRUE
Current(i) == air[i].gen = generation

Settles(i) ==
  /\ air[i] # Landed
  /\ air' = [air EXCEPT ![i] = Landed]
  /\ inFlight' = IF Current(i) THEN 0 ELSE inFlight
  /\ UNCHANGED <<clock, server, auth, exit>>

RefreshWire(i) == [flow |-> air[i].from.flow, refresh |-> FALSE]

Granted(i) ==
  /\ Settles(i) /\ air[i].from.flow \in grants
  /\ IF Current(i)
       THEN LET next == TokenSetFromWire(RefreshWire(i), air[i].from) IN
              SessionSet(next) /\ Resume(i, TRUE, next)
       ELSE Resume(i, FALSE, tokens) /\ UNCHANGED held
  /\ UNCHANGED mishaps

(* A 400: the one answer that ends the session. *)
Refused(i) ==
  /\ Settles(i) /\ air[i].from.flow \notin grants
  /\ IF Current(i) THEN SessionClear /\ Resume(i, FALSE, NoTokens)
                   ELSE Resume(i, FALSE, tokens) /\ UNCHANGED held
  /\ UNCHANGED mishaps

(* A timeout, a 5xx, no network: offline is not signed out. *)
AfterUnreachable == UNCHANGED held

Unreachable(i) ==
  /\ Settles(i) /\ mishaps < MaxMishaps
  /\ mishaps' = mishaps + 1
  /\ AfterUnreachable /\ Resume(i, FALSE, tokens)

-----------------------------------------------------------------------------
(* useAuth.ts, pending.ts: out to Cognito and back. *)

SignIn ==
  /\ where = "app" /\ ~SignedIn /\ flow = "idle" /\ asked < MaxFlows
  /\ asked' = asked + 1 /\ pending' = asked + 1 /\ flow' = "redirecting"
  /\ UNCHANGED <<clock, mishaps, held, inFlight, air, req, server, where, code, exit>>

(* What a document load keeps: only what was stored. *)
Unload ==
  /\ tokens' = stored /\ generation' = 0 /\ inFlight' = 0
  /\ air' = [i \in Airs |-> Landed]
  /\ req' = [r \in Requests |-> IF req[r].pc \in Open THEN Ended("gone") ELSE req[r]]
  /\ leaving' = 0 /\ wiped' = FALSE /\ UNCHANGED <<stored, device, ended>>

Redirect ==
  /\ flow = "redirecting"
  /\ "interrupted" \in Windows \/ leaving = 0
  /\ where' = "cognito" /\ flow' = "idle" /\ Unload
  /\ UNCHANGED <<clock, mishaps, server, asked, pending, code>>

(* iOS kills the app while the person reads the code in Messages. *)
SurvivesKill(p) == p

Killed ==
  /\ where = "cognito" /\ mishaps < MaxMishaps
  /\ mishaps' = mishaps + 1 /\ pending' = SurvivesKill(pending)
  /\ UNCHANGED <<clock, held, inFlight, air, req, server, where, flow, asked, code, exit>>

(* The remembered flow is read and removed as the page loads; one older    *)
(* than its ten minutes, or another's, is refused.                         *)
Return ==
  /\ where = "cognito"
  /\ where' = "app" /\ pending' = 0
  /\ flow' = IF pending = asked THEN "exchanging" ELSE "idle"
  /\ code' = IF pending = asked THEN asked ELSE 0
  /\ UNCHANGED <<clock, mishaps, held, inFlight, air, req, server, asked, exit>>

(* The hosted UI was cancelled, or the flow outlived PENDING_TTL_MS. *)
TurnedBack ==
  /\ where = "cognito" /\ mishaps < MaxMishaps
  /\ mishaps' = mishaps + 1 /\ where' = "app" /\ pending' = 0 /\ flow' = "idle"
  /\ UNCHANGED <<clock, held, inFlight, air, req, server, asked, code, exit>>

Exchanged ==
  /\ code # 0 /\ code' = 0
  /\ grants' = grants \cup {code}
  /\ SessionSet(TokenSetFromWire([flow |-> code, refresh |-> TRUE], NoTokens))
  /\ flow' = "idle"
  /\ UNCHANGED <<clock, mishaps, inFlight, air, req, acted, revoking, refuses, where,
                 asked, pending, exit>>

GateAfterFailure == "idle"

ExchangeFails ==
  /\ code # 0 /\ code' = 0 /\ mishaps < MaxMishaps
  /\ mishaps' = mishaps + 1 /\ flow' = GateAfterFailure
  /\ UNCHANGED <<clock, held, inFlight, air, req, server, where, asked, pending, exit>>

-----------------------------------------------------------------------------
(* signOut.ts *)

PerformSignOut ==
  /\ where = "app" /\ SignedIn /\ flow = "idle" /\ leaving = 0
  /\ SessionClear /\ inFlight' = 0 /\ pending' = 0
  /\ leaving' = tokens.flow /\ wiped' = FALSE /\ ended' = ended \cup {tokens.flow}
  /\ UNCHANGED <<clock, mishaps, air, req, server, where, flow, asked, code, device>>

(* clearAllLocalData: what was recorded, queued, cached. *)
AfterClear == {}

(* The device is empty: revoke, not awaited, and off to /logout. *)
Wiped ==
  /\ leaving # 0 /\ ~wiped
  /\ device' = AfterClear /\ wiped' = TRUE /\ revoking' = revoking \cup {leaving}
  /\ UNCHANGED <<clock, mishaps, held, inFlight, air, req, acted, grants, refuses, auth,
                 leaving, ended>>

Depart ==
  /\ leaving # 0 /\ wiped
  /\ flow' = "idle" /\ Unload
  /\ UNCHANGED <<clock, mishaps, server, where, asked, pending, code>>

Revoked(f) ==
  /\ f \in revoking
  /\ revoking' = revoking \ {f} /\ grants' = grants \ {f}
  /\ UNCHANGED <<clock, mishaps, held, inFlight, air, req, acted, refuses, auth, exit>>

-----------------------------------------------------------------------------
(* The world *)

Tick ==
  /\ clock < MaxClock /\ clock' = clock + 1
  /\ UNCHANGED <<mishaps, held, inFlight, air, req, server, auth, exit>>

(* The refresh token's thirty days are over, or the account is gone. *)
GrantEnds(f) ==
  /\ f \in grants /\ mishaps < MaxMishaps
  /\ mishaps' = mishaps + 1 /\ grants' = grants \ {f}
  /\ UNCHANGED <<clock, held, inFlight, air, req, acted, revoking, refuses, auth, exit>>

Reload ==
  /\ where = "app" /\ mishaps < MaxMishaps
  /\ "interrupted" \in Windows \/ leaving = 0
  /\ mishaps' = mishaps + 1 /\ flow' = "idle" /\ code' = 0 /\ Unload
  /\ UNCHANGED <<clock, server, where, asked, pending>>

Init ==
  /\ clock = 0 /\ mishaps = 0
  /\ tokens = NoTokens /\ stored = NoTokens /\ generation = 0 /\ inFlight = 0
  /\ air = [i \in Airs |-> Landed]
  /\ req = [r \in Requests |-> Unsent] /\ acted = [r \in Requests |-> {}]
  /\ grants = {} /\ revoking = {} /\ refuses \in BOOLEAN
  /\ where = "app" /\ flow = "idle" /\ asked = 0 /\ pending = 0 /\ code = 0
  /\ device = {} /\ leaving = 0 /\ wiped = FALSE /\ ended = {}

RequestStep(r) == Begin(r) \/ Wake(r) \/ Cancel(r) \/ Answered(r) \/ Unauthorized(r) \/ Lost(r)
RefreshStep(i) == Granted(i) \/ Refused(i) \/ Unreachable(i)
SignInStep == SignIn \/ Redirect \/ Killed \/ Return \/ TurnedBack \/ Exchanged \/ ExchangeFails
SignOutStep == PerformSignOut \/ Wiped \/ Depart \/ \E f \in 1..MaxFlows : Revoked(f)
WorldStep == Tick \/ Reload \/ \E f \in 1..MaxFlows : GrantEnds(f)

Next ==
  \/ \E r \in Requests : RequestStep(r)
  \/ \E i \in Airs : RefreshStep(i)
  \/ SignInStep
  \/ SignOutStep
  \/ WorldStep

Spec == Init /\ [][Next]_vars

(* Every wait of a request has a timer or an answer: the fetch and the      *)
(* refresh time out, the backoff is a timeout.                             *)
Fairness ==
  /\ \A r \in Requests : /\ WF_vars(Wake(r))
                         /\ WF_vars(Answered(r) \/ Unauthorized(r) \/ Lost(r))
  /\ \A i \in Airs : WF_vars(RefreshStep(i))
  /\ WF_vars(Wiped) /\ WF_vars(Depart)
  /\ WF_vars(Redirect) /\ WF_vars(Exchanged \/ ExchangeFails)

FairSpec == Spec /\ Fairness

-----------------------------------------------------------------------------
TokenSets == [flow : 0..MaxFlows, refresh : BOOLEAN, expires : 0..MaxClock + TokenLife]

TypeOK ==
  /\ clock \in 0..MaxClock /\ mishaps \in 0..MaxMishaps
  /\ tokens \in TokenSets /\ stored \in TokenSets
  /\ generation \in Nat /\ inFlight \in {0} \cup Airs
  /\ air \in [Airs -> [gen : Nat \cup {-1}, from : TokenSets]]
  /\ req \in [Requests -> [pc : Pcs, tries : 0..MaxRetries, refreshed : BOOLEAN,
                           bearer : TokenSets, quit : BOOLEAN, on : {0} \cup Airs, key : Nat]]
  /\ acted \in [Requests -> SUBSET Nat]
  /\ grants \subseteq 1..MaxFlows /\ revoking \subseteq 1..MaxFlows /\ refuses \in BOOLEAN
  /\ where \in {"app", "cognito"} /\ flow \in {"idle", "redirecting", "exchanging"}
  /\ asked \in 0..MaxFlows /\ pending \in 0..MaxFlows /\ code \in 0..MaxFlows
  /\ device \subseteq 1..MaxFlows /\ leaving \in 0..MaxFlows /\ wiped \in BOOLEAN
  /\ ended \subseteq 1..MaxFlows

(* A sign-in that was signed out of never comes back, in memory or in      *)
(* storage, whatever was in the air when the person tapped Sign out.       *)
SignedOutStays == tokens.flow \notin ended /\ stored.flow \notin ended

(* The session is lost to a sign-out or to Cognito's refusal, never to a   *)
(* bad network; and it always holds what the next refresh needs.           *)
KeptSignedIn ==
  SignedIn /\ tokens' = NoTokens => tokens.flow \in ended' \/ tokens.flow \notin grants
CanRenew == SignedIn => CanRefresh(tokens) /\ stored = tokens

(* However often a write is sent, the API acts on it once. *)
OneEffect == \A r \in Requests : Cardinality(acted[r]) <= 1

(* Concurrent 401s make one refresh: no two in the air for one session,    *)
(* and nobody waits on one that has landed.                                *)
OneRefresh ==
  /\ \A i, j \in Airs :
       air[i] # Landed /\ air[j] # Landed /\ Current(i) /\ Current(j) => i = j
  /\ \A r \in Requests : req[r].on # 0 => air[req[r].on] # Landed

(* A request its caller gave up is not sent again, but for the attempt     *)
(* whose token was being renewed when it was given up.                     *)
AbandonedNotReplayed ==
  \A r \in Requests :
    req[r].quit /\ req[r].pc \in {"again", "sleep"} => req'[r].pc # "sent"

(* Coming back from Cognito with the answer to the flow this device asked  *)
(* for redeems it, even if the process died meanwhile.                     *)
FlowSurvives == where = "cognito" => pending = asked

(* Signed out, and the device is clean: none of that person's notes on it. *)
LeavesNothing == \A f \in ended : f \in device => leaving = f /\ ~wiped

(* Every request is answered, refused or given up; a sign-in under way and *)
(* a sign-out under way end.                                               *)
Over(r) == req[r].pc \notin Open
GateIsOpen == flow # "exchanging" /\ leaving = 0
RequestEnds == \A r \in Requests : []<>Over(r)
GateOpens == []<>GateIsOpen

-----------------------------------------------------------------------------
(* The session and the requests made in it, through lost answers, kills,      *)
(* expiry and sign-out: all of the above, in every state and every step.      *)
SessionInv ==
  /\ TypeOK /\ SignedOutStays /\ CanRenew /\ OneEffect /\ OneRefresh /\ FlowSurvives
  /\ LeavesNothing
SessionStep == KeptSignedIn /\ AbandonedNotReplayed
SessionHolds == []SessionInv /\ [][SessionStep]_vars
=============================================================================
