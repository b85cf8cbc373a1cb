--------------------------- MODULE Session_proofs ---------------------------
(***************************************************************************)
(* The session, proved for every set of requests and every bound: what a   *)
(* person is signed in as, what is in the air for it, and what a sign-out  *)
(* leaves behind.                                                          *)
(***************************************************************************)
EXTENDS Session, FiniteSetTheorems, TLAPS

-----------------------------------------------------------------------------
(* The inductive invariant *)

NoneInAir == \A i \in Airs : air[i] = Landed
Away == flow = "redirecting" \/ where = "cognito" \/ code # 0

(* What is stored is what is held, and a session can always be renewed. *)
HeldInv ==
  /\ stored = tokens
  /\ SignedIn => tokens.flow > 0 /\ tokens.refresh

(* One refresh at most is unanswered: the session's own, or one begun by   *)
(* a session that has since been cleared, and then nobody is signed in.    *)
AirInv ==
  /\ \A i, j \in Airs : air[i] # Landed /\ air[j] # Landed => i = j
  /\ inFlight # 0 => air[inFlight] # Landed
  /\ \A i \in Airs : air[i] # Landed =>
       \/ /\ SignedIn /\ inFlight = i /\ air[i].gen = generation
          /\ air[i].from.flow = tokens.flow /\ air[i].from.refresh
       \/ ~SignedIn /\ inFlight = 0 /\ air[i].gen < generation

(* A sign-in is begun by nobody, and is a new one: never one that ended. *)
FlowInv ==
  /\ tokens.flow <= asked /\ \A f \in ended : f <= asked
  /\ Away => ~SignedIn /\ asked \notin ended /\ asked > 0
  /\ flow = "redirecting" => where = "app" /\ pending = asked
  /\ where = "cognito" => flow = "idle" /\ code = 0 /\ pending = asked /\ NoneInAir
  /\ code # 0 => flow = "exchanging" /\ where = "app" /\ code = asked /\ NoneInAir
  /\ leaving # 0 => where = "app" /\ code = 0 /\ ~SignedIn
  /\ tokens.flow \notin ended

(* Who waits, waits on a refresh that is in the air; what was sent, was    *)
(* sent under the one key and, short of a sign-out, for no ended session.  *)
ReqInv ==
  \A r \in Requests :
    /\ acted[r] \subseteq {1}
    /\ req[r].on # 0 => air[req[r].on] # Landed /\ req[r].pc \in {"skew", "again"}
    /\ req[r].pc = "sent" =>
         /\ req[r].key = 1
         /\ req[r].bearer # NoTokens => req[r].bearer.flow > 0
         /\ leaving = 0 => req[r].bearer.flow \notin ended
    /\ req[r].pc = "sleep" => req[r].tries < MaxRetries

IInv == TypeOK /\ HeldInv /\ AirInv /\ FlowInv /\ ReqInv

-----------------------------------------------------------------------------
(* The bounds are numbers, as any instance's are. *)

Bounds == MaxRetries \in Nat /\ MaxFlows \in Nat /\ MaxClock \in Nat /\ MaxMishaps \in Nat

Asked == [pc : Pcs, tries : 0..MaxRetries, refreshed : BOOLEAN, bearer : TokenSets,
          quit : BOOLEAN, on : {0} \cup Airs, key : Nat]

LEMMA Kinds ==
  ASSUME Bounds
  PROVE  /\ NoTokens \in TokenSets /\ Unsent \in Asked
         /\ \A how \in Pcs : Ended(how) \in Asked /\ Ended(how).pc = how /\ Ended(how).on = 0
<1>1. NoTokens \in TokenSets
  BY DEF Bounds, NoTokens, TokenSets, TokenLife
<1>2. Unsent \in Asked /\ Unsent.on = 0
  BY <1>1 DEF Bounds, Unsent, Asked, Pcs
<1>. QED
  BY <1>1, <1>2 DEF Ended, Asked, Unsent

LEMMA SentIs ==
  ASSUME Bounds, NEW q \in Asked, NEW b \in TokenSets
  PROVE  /\ Sent(q, b) \in Asked /\ Sent(q, b).pc = "sent" /\ Sent(q, b).on = 0
         /\ Sent(q, b).bearer = b /\ Sent(q, b).key = 1
  BY DEF Sent, Asked, KeyFor, Pcs

(* What a request may do to the air: nothing, or join or put one there for *)
(* a session that can be renewed.                                          *)
LEMMA JoinIs ==
  ASSUME Bounds, TypeOK, HeldInv, AirInv, NEW r \in Requests, NEW q \in Asked,
         q.pc \in {"skew", "again"}, inFlight # 0 \/ (SignedIn /\ tokens.refresh),
         Join(r, q), UNCHANGED <<clock, held>>
  PROVE  /\ AirInv' /\ air' \in [Airs -> [gen : Nat \cup {-1}, from : TokenSets]]
         /\ inFlight' \in Airs
         /\ \A i \in Airs : air[i] # Landed => air'[i] # Landed
         /\ \E p \in Asked : /\ req' = [req EXCEPT ![r] = p]
                             /\ p.pc = q.pc /\ p.on # 0 /\ air'[p.on] # Landed
                             /\ p.on \in Airs
<1>. DEFINE i == IF inFlight # 0 THEN inFlight ELSE FreeAir
<1>1. inFlight = 0 => FreeAir \in Airs /\ air[FreeAir] = Landed
  <2>. SUFFICES ASSUME inFlight = 0 PROVE \E j \in Airs : air[j] = Landed
    BY DEF FreeAir
  <2>. QED
    BY DEF AirInv, Airs
<1>2. i \in Airs
  BY <1>1 DEF TypeOK
<1>3. inFlight = 0 => \A j \in Airs : air[j] = Landed
  BY DEF AirInv, Airs
<1>4. inFlight = 0 => air' = [air EXCEPT ![i] = [gen |-> generation, from |-> tokens]]
  BY DEF Join
<1>5. inFlight # 0 => air' = air
  BY DEF Join
<1>6. [gen |-> generation, from |-> tokens] # Landed
  BY DEF TypeOK, Landed
<1>7. air'[i] # Landed
  BY <1>2, <1>4, <1>5, <1>6 DEF TypeOK, AirInv
<1>8. inFlight' = i
  BY DEF Join
<1>9. air' \in [Airs -> [gen : Nat \cup {-1}, from : TokenSets]]
  BY <1>2, <1>4, <1>5 DEF TypeOK
<1>10. \A j \in Airs : air[j] # Landed => air'[j] # Landed
  BY <1>3, <1>5
<1>11. \E p \in Asked : /\ req' = [req EXCEPT ![r] = p]
                        /\ p.pc = q.pc /\ p.on # 0 /\ air'[p.on] # Landed /\ p.on \in Airs
  <2>. DEFINE p == [q EXCEPT !.on = i]
  <2>1. p \in Asked /\ p.pc = q.pc /\ p.on = i
    BY <1>2 DEF Asked
  <2>2. i # 0
    BY <1>2 DEF Airs
  <2>. QED
    <3>1. req' = [req EXCEPT ![r] = p]
      BY DEF Join
    <3>2. p.on # 0 /\ air'[p.on] # Landed /\ p.on \in Airs /\ p.pc = q.pc /\ p \in Asked
      BY <1>2, <1>7, <2>1, <2>2
    <3>. HIDE DEF p
    <3>. QED
      BY <3>1, <3>2
<1>12. AirInv'
  <2>1. CASE inFlight # 0
    BY <2>1, <1>5, <1>8 DEF AirInv, held, SignedIn
  <2>2. CASE inFlight = 0
    <3>1. \A j \in Airs : air'[j] # Landed => j = i
      BY <1>2, <1>3, <1>4, <2>2 DEF TypeOK
    <3>2. air'[i].gen = generation /\ air'[i].from = tokens
      BY <1>2, <1>4, <2>2 DEF TypeOK
    <3>. QED
      BY <2>2, <3>1, <3>2, <1>7, <1>8 DEF AirInv, held, SignedIn
  <2>. QED
    BY <2>1, <2>2
<1>. QED
  BY <1>2, <1>8, <1>9, <1>10, <1>11, <1>12

(* One request changes: what must hold of its new state. *)
LEMMA OneRequest ==
  ASSUME Bounds, IInv, NEW r \in Requests, NEW p \in Asked, req' = [req EXCEPT ![r] = p],
         UNCHANGED <<tokens, ended, leaving>>,
         \A s \in Requests : acted'[s] \subseteq {1},
         \A i \in Airs : air[i] # Landed => air'[i] # Landed,
         p.on # 0 => air'[p.on] # Landed /\ p.pc \in {"skew", "again"},
         p.pc = "sent" => /\ p.key = 1
                          /\ p.bearer # NoTokens => p.bearer.flow > 0
                          /\ leaving = 0 => p.bearer.flow \notin ended,
         p.pc = "sleep" => p.tries < MaxRetries
  PROVE  ReqInv' /\ req' \in [Requests -> Asked]
<1>1. req \in [Requests -> Asked]
  BY DEF IInv, TypeOK, Asked
<1>2. req' \in [Requests -> Asked] /\ req'[r] = p
      /\ \A s \in Requests \ {r} : req'[s] = req[s]
  BY <1>1
<1>3. \A s \in Requests : req[s].on \in {0} \cup Airs
  BY <1>1 DEF Asked
<1>. SUFFICES ASSUME NEW s \in Requests
     PROVE  /\ acted'[s] \subseteq {1}
            /\ req'[s].on # 0 => air'[req'[s].on] # Landed /\ req'[s].pc \in {"skew", "again"}
            /\ req'[s].pc = "sent" =>
                 /\ req'[s].key = 1
                 /\ req'[s].bearer # NoTokens => req'[s].bearer.flow > 0
                 /\ leaving' = 0 => req'[s].bearer.flow \notin ended'
            /\ req'[s].pc = "sleep" => req'[s].tries < MaxRetries
  BY <1>2 DEF ReqInv
<1>4. CASE s = r
  BY <1>2, <1>4
<1>5. CASE s # r
  BY <1>2, <1>3, <1>5 DEF IInv, ReqInv
<1>. QED
  BY <1>4, <1>5

(* The rest of the invariant, while the session and the gate stand still. *)
LEMMA StandStill ==
  ASSUME IInv, UNCHANGED <<clock, mishaps, held, grants, revoking, refuses, auth, leaving,
                           wiped, ended>>,
         device' \subseteq 1..MaxFlows, acted' \in [Requests -> SUBSET Nat],
         AirInv', ReqInv', req' \in [Requests -> Asked], inFlight' \in {0} \cup Airs,
         air' \in [Airs -> [gen : Nat \cup {-1}, from : TokenSets]],
         NoneInAir /\ Away => NoneInAir'
  PROVE  IInv'
<1>1. TypeOK'
  BY DEF IInv, TypeOK, held, auth, Asked
<1>2. HeldInv'
  BY DEF IInv, HeldInv, held, SignedIn
<1>3. FlowInv'
  BY DEF IInv, FlowInv, held, auth, SignedIn, Away
<1>. QED
  BY <1>1, <1>2, <1>3 DEF IInv

(* The top of the retry loop. *)
LEMMA AttemptKeeps ==
  ASSUME Bounds, IInv, NEW r \in Requests, NEW q \in Asked, q.on = 0, Attempt(r, q),
         UNCHANGED <<clock, mishaps, held, server, auth, exit>>
  PROVE  IInv'
<1>1. /\ TypeOK /\ HeldInv /\ AirInv /\ FlowInv /\ ReqInv
      /\ \A s \in Requests : acted'[s] \subseteq {1}
      /\ UNCHANGED <<tokens, ended, leaving>>
  BY DEF IInv, ReqInv, server, held, exit
<1>2. CASE UNCHANGED <<inFlight, air>> /\ \E p \in Asked :
             /\ req' = [req EXCEPT ![r] = p] /\ p.on = 0 /\ p.pc # "sleep"
             /\ p.pc = "sent" => p.key = 1 /\ p.bearer = tokens
  <2>1. PICK p \in Asked : /\ req' = [req EXCEPT ![r] = p] /\ p.on = 0 /\ p.pc # "sleep"
                           /\ p.pc = "sent" => p.key = 1 /\ p.bearer = tokens
    BY <1>2
  <2>2. tokens # NoTokens => tokens.flow > 0
    BY <1>1 DEF HeldInv, SignedIn
  <2>3. tokens.flow \notin ended
    BY <1>1 DEF FlowInv
  <2>4. \A i \in Airs : air[i] # Landed => air'[i] # Landed
    BY <1>2
  <2>5. ReqInv' /\ req' \in [Requests -> Asked]
    BY <1>1, <2>1, <2>2, <2>3, <2>4, OneRequest
  <2>6. AirInv'
    BY <1>1, <1>2 DEF AirInv, held, SignedIn
  <2>. QED
    BY <1>1, <1>2, <2>5, <2>6, StandStill DEF TypeOK, server, exit, NoneInAir
<1>3. CASE q.quit /\ Set(r, Ended("cancelled")) /\ UNCHANGED <<inFlight, air>>
  BY <1>2, <1>3, Kinds DEF Set, Pcs
<1>4. CASE ~q.quit /\ ~Due /\ Set(r, Sent(q, tokens)) /\ UNCHANGED <<inFlight, air>>
  <2>1. tokens \in TokenSets
    BY <1>1 DEF TypeOK
  <2>. DEFINE p == Sent(q, tokens)
  <2>2. p \in Asked /\ p.on = 0 /\ p.key = 1 /\ p.bearer = tokens /\ p.pc # "sleep"
    BY <2>1, SentIs
  <2>3. req' = [req EXCEPT ![r] = p]
    BY <1>4 DEF Set
  <2>. QED
    BY <1>2, <1>4, <2>2, <2>3
<1>5. CASE ~q.quit /\ Due /\ Join(r, [q EXCEPT !.pc = "skew"])
  <2>. DEFINE k == [q EXCEPT !.pc = "skew"]
  <2>1. k \in Asked /\ k.pc = "skew"
    BY DEF Asked, Pcs
  <2>2. SignedIn /\ tokens.refresh
    BY <1>5 DEF Due, CanRefresh
  <2>. HIDE DEF k
  <2>3. /\ AirInv' /\ air' \in [Airs -> [gen : Nat \cup {-1}, from : TokenSets]]
        /\ inFlight' \in Airs
        /\ \A i \in Airs : air[i] # Landed => air'[i] # Landed
        /\ \E p \in Asked : /\ req' = [req EXCEPT ![r] = p]
                            /\ p.pc = k.pc /\ p.on # 0 /\ air'[p.on] # Landed
                            /\ p.on \in Airs
    <3>1. Join(r, k)
      BY <1>5 DEF k
    <3>. QED
      BY <1>1, <2>1, <2>2, <3>1, JoinIs
  <2>4. ReqInv' /\ req' \in [Requests -> Asked]
    BY <1>1, <2>1, <2>3, OneRequest
  <2>5. ~(NoneInAir /\ Away)
    BY <1>1, <2>2 DEF FlowInv
  <2>. QED
    BY <1>1, <2>3, <2>4, <2>5, StandStill DEF TypeOK, server, exit
<1>. QED
  BY <1>3, <1>4, <1>5 DEF Attempt

-----------------------------------------------------------------------------
(* The steps of a request *)

(* What the request is, before the step. *)
LEMMA ReqIs ==
  ASSUME IInv, NEW r \in Requests
  PROVE  /\ req[r] \in Asked
         /\ req[r].pc \in {"idle", "sent", "sleep", "done", "failed", "cancelled", "gone"}
              => req[r].on = 0
         /\ tokens \in TokenSets /\ acted \in [Requests -> SUBSET Nat]
         /\ device \subseteq 1..MaxFlows
         /\ req \in [Requests -> Asked] /\ inFlight \in {0} \cup Airs
         /\ air \in [Airs -> [gen : Nat \cup {-1}, from : TokenSets]]
  BY DEF IInv, ReqInv, TypeOK, Asked

(* A request that ends or waits, without touching the air. *)
LEMMA QuietKeeps ==
  ASSUME Bounds, IInv, NEW r \in Requests, NEW p \in Asked, req' = [req EXCEPT ![r] = p],
         p.pc = "sent" => p = [req[r] EXCEPT !.quit = p.quit] /\ req[r].pc = "sent",
         p.on # 0 => p.on = req[r].on /\ p.pc = req[r].pc,
         p.pc = "sleep" => p.tries < MaxRetries,
         \A s \in Requests : acted'[s] \subseteq {1}, acted' \in [Requests -> SUBSET Nat],
         device' \subseteq 1..MaxFlows,
         UNCHANGED <<clock, mishaps, held, inFlight, air, grants, revoking, refuses, auth,
                     leaving, wiped, ended>>
  PROVE  IInv'
<1>1. AirInv' /\ (NoneInAir => NoneInAir')
  BY DEF IInv, AirInv, held, SignedIn, NoneInAir
<1>2. UNCHANGED <<tokens, ended, leaving>> /\ \A i \in Airs : air[i] # Landed => air'[i] # Landed
  BY DEF held
<1>3. p.pc = "sent" => /\ p.key = 1
                       /\ p.bearer # NoTokens => p.bearer.flow > 0
                       /\ leaving = 0 => p.bearer.flow \notin ended
  <2>. SUFFICES ASSUME p.pc = "sent"
       PROVE  /\ p.key = 1
              /\ p.bearer # NoTokens => p.bearer.flow > 0
              /\ leaving = 0 => p.bearer.flow \notin ended
    OBVIOUS
  <2>1. p.key = req[r].key /\ p.bearer = req[r].bearer
    <3>. DEFINE o == req[r]
    <3>1. o \in Asked /\ p = [o EXCEPT !.quit = p.quit]
      BY ReqIs
    <3>. HIDE DEF o
    <3>2. p.key = o.key /\ p.bearer = o.bearer
      BY <3>1 DEF Asked
    <3>. QED
      BY <3>2 DEF o
  <2>. QED
    BY <2>1 DEF IInv, ReqInv
<1>4. p.on # 0 => air'[p.on] # Landed /\ p.pc \in {"skew", "again"}
  BY DEF IInv, ReqInv
<1>5. ReqInv' /\ req' \in [Requests -> Asked]
  BY <1>2, <1>3, <1>4, OneRequest
<1>6. /\ inFlight' \in {0} \cup Airs
      /\ air' \in [Airs -> [gen : Nat \cup {-1}, from : TokenSets]]
  BY ReqIs
<1>7. NoneInAir /\ Away => NoneInAir'
  BY <1>1
<1>8. UNCHANGED <<clock, mishaps, held, grants, revoking, refuses, auth, leaving, wiped, ended>>
  OBVIOUS
<1>. QED
  BY <1>1, <1>5, <1>6, <1>7, <1>8, StandStill

LEMMA BeginKeeps ==
  ASSUME Bounds, IInv, NEW r \in Requests, Begin(r) PROVE IInv'
<1>1. Unsent \in Asked /\ Unsent.on = 0
  BY Kinds DEF Unsent
<1>. QED
  BY <1>1, AttemptKeeps DEF Begin

LEMMA WakeKeeps ==
  ASSUME Bounds, IInv, NEW r \in Requests, Wake(r) PROVE IInv'
<1>. DEFINE o == req[r]  q == [o EXCEPT !.tries = @ + 1]
<1>1. o \in Asked /\ o.on = 0 /\ o.tries < MaxRetries
  BY ReqIs DEF Wake, IInv, ReqInv
<1>2. Attempt(r, q) /\ UNCHANGED <<clock, mishaps, held, server, auth, exit>>
  BY DEF Wake
<1>. HIDE DEF o
<1>3. q \in Asked /\ q.on = 0
  BY <1>1 DEF Bounds, Asked
<1>. HIDE DEF q
<1>. QED
  BY <1>2, <1>3, AttemptKeeps

LEMMA CancelKeeps ==
  ASSUME Bounds, IInv, NEW r \in Requests, Cancel(r) PROVE IInv'
<1>. DEFINE o == req[r]  q == [o EXCEPT !.quit = TRUE]
            p == IF Listens(q) THEN Ended("cancelled") ELSE q
<1>1. o \in Asked /\ (o.pc = "sleep" => o.tries < MaxRetries)
  BY ReqIs DEF IInv, ReqInv
<1>2. req' = [req EXCEPT ![r] = p]
  BY DEF Cancel, Set
<1>3. /\ UNCHANGED <<clock, mishaps, held, inFlight, air, grants, revoking, refuses, auth,
                      leaving, wiped, ended>>
      /\ \A s \in Requests : acted'[s] \subseteq {1}
      /\ acted' \in [Requests -> SUBSET Nat] /\ device' \subseteq 1..MaxFlows
  BY ReqIs DEF Cancel, server, exit, IInv, ReqInv
<1>. HIDE DEF o
<1>4. q \in Asked /\ q.on = o.on /\ q.pc = o.pc /\ q.tries = o.tries
  BY <1>1 DEF Asked
<1>5. /\ Ended("cancelled") \in Asked /\ Ended("cancelled").pc = "cancelled"
      /\ Ended("cancelled").on = 0
  BY Kinds DEF Pcs
<1>6. p \in Asked /\ p.pc # "sent" /\ (p.on # 0 => p.on = o.on /\ p.pc = o.pc)
      /\ (p.pc = "sleep" => p.tries < MaxRetries)
  BY <1>1, <1>4, <1>5 DEF Listens
<1>. HIDE DEF p
<1>. QED
  BY <1>2, <1>3, <1>6, QuietKeeps DEF o

(* What the API does for a request sent under the one key. *)
LEMMA ActsOnce ==
  ASSUME IInv, NEW r \in Requests, req[r].pc = "sent", Acts(r) \/ UNCHANGED acted
  PROVE  acted' \in [Requests -> SUBSET Nat] /\ \A s \in Requests : acted'[s] \subseteq {1}
<1>1. acted \in [Requests -> SUBSET Nat] /\ \A s \in Requests : acted[s] \subseteq {1}
  BY ReqIs DEF IInv, ReqInv
<1>2. req[r].key = 1
  BY DEF IInv, ReqInv
<1>. QED
  BY <1>1, <1>2 DEF Acts

LEMMA AnsweredKeeps ==
  ASSUME Bounds, IInv, NEW r \in Requests, Answered(r) PROVE IInv'
<1>1. /\ Ended("done") \in Asked /\ Ended("done").pc = "done" /\ Ended("done").on = 0
  BY Kinds DEF Pcs
<1>2. acted' \in [Requests -> SUBSET Nat] /\ \A s \in Requests : acted'[s] \subseteq {1}
  BY ActsOnce DEF Answered
<1>3. device' \subseteq 1..MaxFlows
  <2>1. req[r].bearer # NoTokens /\ req[r].bearer \in TokenSets
    BY ReqIs DEF Answered, Valid, Asked
  <2>2. req[r].bearer.flow \in 1..MaxFlows
    BY <2>1 DEF Bounds, TokenSets, Answered, IInv, ReqInv
  <2>. QED
    BY <2>2, ReqIs DEF Answered, Remembers
<1>4. /\ req' = [req EXCEPT ![r] = Ended("done")]
      /\ UNCHANGED <<clock, mishaps, held, inFlight, air, grants, revoking, refuses, auth,
                      leaving, wiped, ended>>
  BY DEF Answered, Set
<1>. QED
  BY <1>1, <1>2, <1>3, <1>4, QuietKeeps

LEMMA UnauthorizedKeeps ==
  ASSUME Bounds, IInv, NEW r \in Requests, Unauthorized(r) PROVE IInv'
<1>1. /\ Ended("failed") \in Asked /\ Ended("failed").pc = "failed" /\ Ended("failed").on = 0
  BY Kinds DEF Pcs
<1>2. /\ UNCHANGED <<clock, mishaps, held, grants, revoking, refuses, auth, leaving, wiped, ended>>
      /\ \A s \in Requests : acted'[s] \subseteq {1}
      /\ acted' \in [Requests -> SUBSET Nat] /\ device' \subseteq 1..MaxFlows
      /\ UNCHANGED <<tokens, clock>>
  BY ReqIs DEF Unauthorized, server, exit, held, IInv, ReqInv
<1>3. CASE Set(r, Ended("failed")) /\ UNCHANGED <<inFlight, air>>
  BY <1>1, <1>2, <1>3, QuietKeeps DEF Set
<1>4. CASE /\ ~(req[r].refreshed \/ (inFlight = 0 /\ ~CanRefresh(tokens)))
           /\ Join(r, Refreshes(req[r]))
  <2>. DEFINE o == req[r]  k == Refreshes(o)
  <2>1. o \in Asked /\ Join(r, k)
    BY <1>4, ReqIs
  <2>. HIDE DEF o
  <2>2. k \in Asked /\ k.pc = "again"
    BY <2>1 DEF Asked, Refreshes, Pcs
  <2>. HIDE DEF k
  <2>3. inFlight # 0 \/ (SignedIn /\ tokens.refresh)
    BY <1>4 DEF CanRefresh, SignedIn, NoTokens
  <2>4. /\ AirInv' /\ air' \in [Airs -> [gen : Nat \cup {-1}, from : TokenSets]]
        /\ inFlight' \in Airs
        /\ \A i \in Airs : air[i] # Landed => air'[i] # Landed
        /\ \E p \in Asked : /\ req' = [req EXCEPT ![r] = p]
                            /\ p.pc = k.pc /\ p.on # 0 /\ air'[p.on] # Landed
                            /\ p.on \in Airs
    BY <1>2, <2>1, <2>2, <2>3, JoinIs DEF IInv
  <2>5. ReqInv' /\ req' \in [Requests -> Asked]
    BY <1>2, <2>2, <2>4, OneRequest
  <2>6. ~(NoneInAir /\ Away)
    BY <2>3, ReqIs DEF IInv, FlowInv, AirInv, NoneInAir
  <2>. QED
    BY <1>2, <2>4, <2>5, <2>6, StandStill
<1>. QED
  BY <1>3, <1>4 DEF Unauthorized

LEMMA LostKeeps ==
  ASSUME Bounds, IInv, NEW r \in Requests, Lost(r) PROVE IInv'
<1>. DEFINE o == req[r]
            p == IF Spent(o) THEN Ended("failed")
                 ELSE IF o.quit THEN Ended("cancelled") ELSE [o EXCEPT !.pc = "sleep"]
<1>1. o \in Asked /\ o.on = 0 /\ req' = [req EXCEPT ![r] = p]
  BY ReqIs DEF Lost, Set
<1>2. acted' \in [Requests -> SUBSET Nat] /\ \A s \in Requests : acted'[s] \subseteq {1}
  BY ActsOnce DEF Lost
<1>. HIDE DEF o
<1>3. p \in Asked /\ p.on = 0 /\ p.pc # "sent" /\ (p.pc = "sleep" => p.tries < MaxRetries)
  <2>1. /\ Ended("failed") \in Asked /\ Ended("failed").pc = "failed" /\ Ended("failed").on = 0
        /\ Ended("cancelled") \in Asked /\ Ended("cancelled").pc = "cancelled"
        /\ Ended("cancelled").on = 0
    BY Kinds DEF Pcs
  <2>2. CASE ~Spent(o)
    BY <1>1, <2>1, <2>2 DEF Asked, Pcs, Spent, Bounds
  <2>. QED
    BY <2>1, <2>2
<1>. HIDE DEF p
<1>4. /\ mishaps' \in 0..MaxMishaps
      /\ UNCHANGED <<clock, held, inFlight, air, grants, revoking, refuses, auth, exit>>
  BY DEF Lost, Bounds, IInv, TypeOK
<1>5. ReqInv' /\ req' \in [Requests -> Asked]
  BY <1>1, <1>2, <1>3, <1>4, OneRequest DEF held, exit
<1>6. TypeOK'
  BY <1>2, <1>4, <1>5 DEF IInv, TypeOK, Asked, held, auth, exit
<1>7. HeldInv' /\ AirInv' /\ FlowInv'
  BY <1>4 DEF IInv, HeldInv, AirInv, FlowInv, held, auth, exit, SignedIn, Away, NoneInAir
<1>. QED
  BY <1>5, <1>6, <1>7 DEF IInv

-----------------------------------------------------------------------------
(* The steps of a refresh *)

(* Nothing else was in the air. *)
LEMMA SettlesIs ==
  ASSUME Bounds, IInv, NEW i \in Airs, Settles(i)
  PROVE  /\ NoneInAir' /\ inFlight' = 0
         /\ air' \in [Airs -> [gen : Nat \cup {-1}, from : TokenSets]]
         /\ Current(i) => /\ SignedIn /\ air[i].from.refresh
                          /\ air[i].from.flow = tokens.flow /\ tokens.flow > 0
         /\ air[i].from \in TokenSets
<1>1. air \in [Airs -> [gen : Nat \cup {-1}, from : TokenSets]]
  BY DEF IInv, TypeOK
<1>2. /\ air' = [air EXCEPT ![i] = Landed] /\ air[i] # Landed
      /\ inFlight' = IF Current(i) THEN 0 ELSE inFlight
      /\ \A j \in Airs : j # i => air[j] = Landed
  BY DEF Settles, IInv, AirInv
<1>3. NoneInAir'
  BY <1>1, <1>2 DEF NoneInAir
<1>4. Landed \in [gen : Nat \cup {-1}, from : TokenSets]
  BY Kinds DEF Landed
<1>5. Current(i) => SignedIn /\ inFlight = i /\ air[i].from.flow = tokens.flow /\ air[i].from.refresh
  BY <1>1, <1>2 DEF Current, IInv, AirInv, TypeOK
<1>6. inFlight' = 0
  BY <1>1, <1>2, <1>5 DEF Current, IInv, AirInv, TypeOK
<1>. QED
  BY <1>1, <1>2, <1>3, <1>4, <1>5, <1>6 DEF IInv, HeldInv

(* Everyone waiting goes on, and with what there is to go on with. *)
LEMMA ResumeIs ==
  ASSUME Bounds, IInv, NEW i \in Airs, NEW ok \in BOOLEAN, NEW b \in TokenSets,
         b # NoTokens => b.flow > 0, b.flow \notin ended, NoneInAir \/ Settles(i),
         Resume(i, ok, b), UNCHANGED <<acted, ended, leaving>>
  PROVE  ReqInv' /\ req' \in [Requests -> Asked]
<1>1. req \in [Requests -> Asked] /\ air \in [Airs -> [gen : Nat \cup {-1}, from : TokenSets]]
  BY DEF IInv, TypeOK, Asked
<1>2. \A r \in Requests : req[r].on # 0 => req[r].on = i
  BY <1>1 DEF IInv, ReqInv, AirInv, Settles, NoneInAir, Asked
<1>. SUFFICES ASSUME NEW r \in Requests
     PROVE  /\ req'[r] \in Asked /\ acted'[r] \subseteq {1} /\ req'[r].on = 0
            /\ req'[r].pc = "sent" =>
                 /\ req'[r].key = 1
                 /\ req'[r].bearer # NoTokens => req'[r].bearer.flow > 0
                 /\ leaving = 0 => req'[r].bearer.flow \notin ended
            /\ req'[r].pc = "sleep" => req'[r].tries < MaxRetries
  BY DEF ReqInv, Resume
<1>3. acted'[r] \subseteq {1}
  BY DEF IInv, ReqInv
<1>4. CASE req[r].on # i
  BY <1>1, <1>2, <1>3, <1>4 DEF Resume, IInv, ReqInv
<1>5. CASE req[r].on = i
  <2>1. /\ Ended("failed") \in Asked /\ Ended("failed").pc = "failed" /\ Ended("failed").on = 0
        /\ Ended("cancelled") \in Asked /\ Ended("cancelled").pc = "cancelled"
        /\ Ended("cancelled").on = 0
    BY Kinds DEF Pcs
  <2>. DEFINE o == req[r]
  <2>2. o \in Asked
    BY <1>1
  <2>3. req'[r] \in {Sent(o, b), Ended("failed"), Ended("cancelled")}
    BY <1>5 DEF Resume
  <2>. HIDE DEF o
  <2>4. /\ Sent(o, b) \in Asked /\ Sent(o, b).pc = "sent" /\ Sent(o, b).on = 0
        /\ Sent(o, b).bearer = b /\ Sent(o, b).key = 1
    BY <2>2, SentIs
  <2>. QED
    BY <1>3, <2>1, <2>3, <2>4
<1>. QED
  BY <1>4, <1>5

(* The air is empty and nothing is awaited. *)
LEMMA EmptyAir ==
  ASSUME NoneInAir', inFlight' = 0 PROVE AirInv'
  BY DEF NoneInAir, AirInv

LEMMA GrantedKeeps ==
  ASSUME Bounds, IInv, NEW i \in Airs, Granted(i) PROVE IInv'
<1>. DEFINE next == TokenSetFromWire(RefreshWire(i), air[i].from)
<1>1. /\ Settles(i) /\ NoneInAir' /\ inFlight' = 0
      /\ air' \in [Airs -> [gen : Nat \cup {-1}, from : TokenSets]]
      /\ Current(i) => /\ SignedIn /\ air[i].from.refresh
                       /\ air[i].from.flow = tokens.flow /\ tokens.flow > 0
      /\ air[i].from \in TokenSets
  BY SettlesIs DEF Granted
<1>2. UNCHANGED <<clock, server, auth, exit, mishaps, acted, ended, leaving>>
  BY DEF Granted, Settles, server, exit
<1>3. /\ tokens \in TokenSets /\ tokens.flow \notin ended /\ (tokens # NoTokens => tokens.flow > 0)
      /\ generation \in Nat
  BY DEF IInv, TypeOK, HeldInv, FlowInv, SignedIn
<1>4. CASE Current(i)
  <2>1. next \in TokenSets /\ next.flow = tokens.flow /\ next.refresh
    BY <1>1, <1>4 DEF TokenSetFromWire, RefreshWire, TokenSets, TokenLife, Bounds, IInv, TypeOK
  <2>2. tokens' = next /\ stored' = next /\ generation' = generation /\ Resume(i, TRUE, next)
    BY <1>4 DEF Granted, SessionSet
  <2>. HIDE DEF next
  <2>3. ReqInv' /\ req' \in [Requests -> Asked]
    BY <1>1, <1>2, <1>3, <1>4, <2>1, <2>2, ResumeIs
  <2>4. TypeOK'
    BY <1>1, <1>2, <1>3, <2>1, <2>2, <2>3 DEF IInv, TypeOK, Asked, server, auth, exit
  <2>5. HeldInv' /\ AirInv'
    BY <1>1, <1>4, <2>1, <2>2, EmptyAir DEF HeldInv
  <2>6. FlowInv'
    BY <1>1, <1>2, <1>4, <2>1, <2>2 DEF IInv, FlowInv, Away, SignedIn, NoTokens, auth, exit
  <2>. QED
    BY <2>3, <2>4, <2>5, <2>6 DEF IInv
<1>5. CASE ~Current(i)
  <2>1. UNCHANGED held /\ Resume(i, FALSE, tokens)
    BY <1>5 DEF Granted
  <2>2. ReqInv' /\ req' \in [Requests -> Asked]
    BY <1>1, <1>2, <1>3, <2>1, ResumeIs
  <2>. QED
    <3>1. /\ device' \subseteq 1..MaxFlows /\ acted' \in [Requests -> SUBSET Nat]
          /\ UNCHANGED <<clock, mishaps, held, grants, revoking, refuses, auth, leaving, wiped,
                         ended>>
      BY <1>2, <2>1 DEF server, exit, IInv, TypeOK
    <3>2. AirInv' /\ inFlight' \in {0} \cup Airs
      BY <1>1, EmptyAir
    <3>. QED
      BY <1>1, <2>2, <3>1, <3>2, StandStill
<1>. QED
  BY <1>4, <1>5

LEMMA RefusedKeeps ==
  ASSUME Bounds, IInv, NEW i \in Airs, Refused(i) PROVE IInv'
<1>1. /\ Settles(i) /\ NoneInAir' /\ inFlight' = 0
      /\ air' \in [Airs -> [gen : Nat \cup {-1}, from : TokenSets]]
      /\ Current(i) => SignedIn
  BY SettlesIs DEF Refused
<1>2. UNCHANGED <<clock, server, auth, exit, mishaps, acted, ended, leaving>>
  BY DEF Refused, Settles, server, exit
<1>3. /\ tokens \in TokenSets /\ tokens.flow \notin ended /\ (tokens # NoTokens => tokens.flow > 0)
      /\ generation \in Nat /\ NoTokens \in TokenSets /\ NoTokens.flow \notin ended
      /\ NoTokens.flow = 0
  BY Kinds DEF IInv, TypeOK, HeldInv, FlowInv, SignedIn, NoTokens
<1>4. CASE Current(i)
  <2>2. /\ tokens' = NoTokens /\ stored' = NoTokens /\ generation' = generation + 1
        /\ Resume(i, FALSE, NoTokens)
    BY <1>4 DEF Refused, SessionClear
  <2>3. ReqInv' /\ req' \in [Requests -> Asked]
    BY <1>1, <1>2, <1>3, <1>4, <2>2, ResumeIs
  <2>4. TypeOK'
    BY <1>1, <1>2, <1>3, <2>2, <2>3 DEF IInv, TypeOK, Asked, server, auth, exit
  <2>5. HeldInv' /\ AirInv'
    BY <1>1, <1>4, <2>2, EmptyAir DEF HeldInv, SignedIn
  <2>6. FlowInv'
    BY <1>1, <1>2, <1>3, <1>4, <2>2 DEF IInv, TypeOK, FlowInv, Away, SignedIn, auth, exit
  <2>. QED
    BY <2>3, <2>4, <2>5, <2>6 DEF IInv
<1>5. CASE ~Current(i)
  <2>1. UNCHANGED held /\ Resume(i, FALSE, tokens)
    BY <1>5 DEF Refused
  <2>2. ReqInv' /\ req' \in [Requests -> Asked]
    BY <1>1, <1>2, <1>3, <2>1, ResumeIs
  <2>. QED
    <3>1. /\ device' \subseteq 1..MaxFlows /\ acted' \in [Requests -> SUBSET Nat]
          /\ UNCHANGED <<clock, mishaps, held, grants, revoking, refuses, auth, leaving, wiped,
                         ended>>
      BY <1>2, <2>1 DEF server, exit, IInv, TypeOK
    <3>2. AirInv' /\ inFlight' \in {0} \cup Airs
      BY <1>1, EmptyAir
    <3>. QED
      BY <1>1, <2>2, <3>1, <3>2, StandStill
<1>. QED
  BY <1>4, <1>5

LEMMA UnreachableKeeps ==
  ASSUME Bounds, IInv, NEW i \in Airs, Unreachable(i) PROVE IInv'
<1>1. /\ Settles(i) /\ NoneInAir' /\ inFlight' = 0
      /\ air' \in [Airs -> [gen : Nat \cup {-1}, from : TokenSets]]
  BY SettlesIs DEF Unreachable
<1>2. UNCHANGED <<clock, server, auth, exit, held, acted, ended, leaving>>
  BY DEF Unreachable, AfterUnreachable, Settles, server, exit
<1>3. mishaps' \in 0..MaxMishaps
  BY DEF Unreachable, Bounds, IInv, TypeOK
<1>4. ReqInv' /\ req' \in [Requests -> Asked]
  <2>1. /\ tokens \in TokenSets /\ tokens.flow \notin ended
        /\ (tokens # NoTokens => tokens.flow > 0)
    BY DEF IInv, TypeOK, HeldInv, FlowInv, SignedIn
  <2>. QED
    BY <1>1, <1>2, <2>1, ResumeIs DEF Unreachable
<1>5. TypeOK'
  BY <1>1, <1>2, <1>3, <1>4 DEF IInv, TypeOK, Asked, server, auth, exit, held
<1>6. HeldInv' /\ AirInv' /\ FlowInv'
  BY <1>1, <1>2, EmptyAir DEF IInv, HeldInv, FlowInv, Away, SignedIn, held, auth, exit
<1>. QED
  BY <1>4, <1>5, <1>6 DEF IInv

-----------------------------------------------------------------------------
(* The steps of a sign-in, of a sign-out and of the world *)

(* What a document load leaves: no request, and nothing in the air. *)
LEMMA UnloadIs ==
  ASSUME Bounds, IInv, Unload
  PROVE  /\ NoneInAir' /\ inFlight' = 0 /\ tokens' = tokens /\ stored' = stored
         /\ generation' = 0 /\ leaving' = 0 /\ wiped' = FALSE
         /\ UNCHANGED <<device, ended>>
         /\ air' \in [Airs -> [gen : Nat \cup {-1}, from : TokenSets]]
         /\ req' \in [Requests -> Asked]
         /\ \A r \in Requests : req'[r].on = 0 /\ req'[r].pc \notin Open
<1>1. NoneInAir' /\ air' \in [Airs -> [gen : Nat \cup {-1}, from : TokenSets]]
  BY Kinds DEF Unload, NoneInAir, Landed
<1>2. req' \in [Requests -> Asked]
      /\ \A r \in Requests : req'[r].on = 0 /\ req'[r].pc \notin Open
  <2>. SUFFICES ASSUME NEW r \in Requests
       PROVE req'[r] \in Asked /\ req'[r].on = 0 /\ req'[r].pc \notin Open
    BY DEF Unload
  <2>1. /\ Ended("gone") \in Asked /\ Ended("gone").pc = "gone" /\ Ended("gone").on = 0
    BY Kinds DEF Pcs
  <2>2. req[r] \in Asked /\ (req[r].pc \notin Open => req[r].on = 0)
    BY ReqIs DEF Open, IInv, ReqInv
  <2>3. req'[r] = IF req[r].pc \in Open THEN Ended("gone") ELSE req[r]
    BY DEF Unload
  <2>. QED
    BY <2>1, <2>2, <2>3 DEF Open
<1>. QED
  BY <1>1, <1>2 DEF Unload, IInv, HeldInv

LEMMA UnloadKeeps ==
  ASSUME Bounds, IInv, Unload, UNCHANGED server
  PROVE  HeldInv' /\ AirInv' /\ ReqInv'
<1>1. HeldInv'
  BY UnloadIs DEF IInv, HeldInv, SignedIn
<1>2. AirInv'
  BY UnloadIs, EmptyAir
<1>3. ReqInv'
  BY UnloadIs DEF IInv, ReqInv, server, Open
<1>. QED
  BY <1>1, <1>2, <1>3

LEMMA UnloadTypes ==
  ASSUME Bounds, IInv, Unload, UNCHANGED <<clock, server, asked>>,
         mishaps' \in 0..MaxMishaps, where' \in {"app", "cognito"},
         flow' \in {"idle", "redirecting", "exchanging"},
         pending' \in 0..MaxFlows, code' \in 0..MaxFlows
  PROVE  TypeOK'
<1>1. /\ clock' \in 0..MaxClock /\ tokens' \in TokenSets /\ stored' \in TokenSets
      /\ acted' \in [Requests -> SUBSET Nat] /\ asked' \in 0..MaxFlows
      /\ grants' \subseteq 1..MaxFlows /\ revoking' \subseteq 1..MaxFlows /\ refuses' \in BOOLEAN
      /\ device' \subseteq 1..MaxFlows /\ ended' \subseteq 1..MaxFlows
  BY UnloadIs DEF IInv, TypeOK, server
<1>2. /\ generation' \in Nat /\ inFlight' \in {0} \cup Airs /\ leaving' \in 0..MaxFlows
      /\ wiped' \in BOOLEAN
      /\ air' \in [Airs -> [gen : Nat \cup {-1}, from : TokenSets]]
      /\ req' \in [Requests -> Asked]
  BY UnloadIs DEF Bounds
<1>. QED
  BY <1>1, <1>2 DEF TypeOK, Asked

(* No request and no refresh moves, nor does the session. *)
LEMMA Elsewhere ==
  ASSUME IInv, UNCHANGED <<tokens, stored, generation, inFlight, air, req, acted, leaving, ended>>
  PROVE  HeldInv' /\ AirInv' /\ ReqInv'
  BY DEF IInv, HeldInv, AirInv, ReqInv, SignedIn

LEMMA SignInKeeps ==
  ASSUME Bounds, IInv, SignInStep PROVE IInv'
<1>1. CASE SignIn
  <2>1. HeldInv' /\ AirInv' /\ ReqInv'
    BY <1>1, Elsewhere DEF SignIn, held, server, exit
  <2>2. TypeOK'
    BY <1>1 DEF SignIn, held, server, exit, IInv, TypeOK, Bounds
  <2>3. FlowInv'
    BY <1>1 DEF SignIn, held, server, exit, IInv, TypeOK, FlowInv, SignedIn, Away, NoneInAir,
                Bounds, NoTokens
  <2>. QED
    BY <2>1, <2>2, <2>3 DEF IInv
<1>2. CASE Redirect
  <2>1. HeldInv' /\ AirInv' /\ ReqInv'
    BY <1>2, UnloadKeeps DEF Redirect
  <2>2. TypeOK'
    <3>1. /\ mishaps' \in 0..MaxMishaps /\ where' \in {"app", "cognito"}
          /\ flow' \in {"idle", "redirecting", "exchanging"}
          /\ pending' \in 0..MaxFlows /\ code' \in 0..MaxFlows
      BY <1>2 DEF Redirect, Bounds, IInv, TypeOK
    <3>. QED
      BY <1>2, <3>1, UnloadTypes DEF Redirect
  <2>3. FlowInv'
    BY <1>2, UnloadIs DEF Redirect, IInv, FlowInv, SignedIn, Away
  <2>. QED
    BY <2>1, <2>2, <2>3 DEF IInv
<1>3. CASE Killed
  <2>1. HeldInv' /\ AirInv' /\ ReqInv'
    BY <1>3, Elsewhere DEF Killed, held, server, exit
  <2>2. TypeOK'
    BY <1>3 DEF Killed, SurvivesKill, held, server, exit, IInv, TypeOK, Bounds
  <2>3. FlowInv'
    BY <1>3 DEF Killed, SurvivesKill, held, server, exit, IInv, FlowInv, SignedIn, Away, NoneInAir
  <2>. QED
    BY <2>1, <2>2, <2>3 DEF IInv
<1>4. CASE Return
  <2>1. HeldInv' /\ AirInv' /\ ReqInv'
    BY <1>4, Elsewhere DEF Return, held, server, exit
  <2>2. TypeOK'
    BY <1>4 DEF Return, held, server, exit, IInv, TypeOK, Bounds
  <2>3. FlowInv'
    BY <1>4 DEF Return, held, server, exit, IInv, FlowInv, SignedIn, Away, NoneInAir
  <2>. QED
    BY <2>1, <2>2, <2>3 DEF IInv
<1>5. CASE TurnedBack
  <2>1. HeldInv' /\ AirInv' /\ ReqInv'
    BY <1>5, Elsewhere DEF TurnedBack, held, server, exit
  <2>2. TypeOK'
    BY <1>5 DEF TurnedBack, held, server, exit, IInv, TypeOK, Bounds
  <2>3. FlowInv'
    BY <1>5 DEF TurnedBack, held, server, exit, IInv, FlowInv, SignedIn, Away, NoneInAir
  <2>. QED
    BY <2>1, <2>2, <2>3 DEF IInv
<1>6. CASE Exchanged
  <2>. DEFINE t == TokenSetFromWire([flow |-> code, refresh |-> TRUE], NoTokens)
  <2>1. t \in TokenSets /\ t.flow = code /\ t.refresh
    <3>1. clock + TokenLife \in 0..MaxClock + TokenLife /\ code \in 0..MaxFlows
      BY DEF TokenLife, Bounds, IInv, TypeOK
    <3>. QED
      BY <3>1 DEF TokenSetFromWire, NoTokens, TokenSets
  <2>2. /\ tokens' = t /\ stored' = t /\ generation' = generation
        /\ code = asked /\ NoneInAir /\ where = "app" /\ code > 0 /\ code \notin ended
        /\ leaving = 0 /\ code' = 0 /\ flow' = "idle" /\ code \in 1..MaxFlows
    BY <1>6 DEF Exchanged, SessionSet, IInv, FlowInv, TypeOK, Away
  <2>. HIDE DEF t
  <2>3. TypeOK'
    BY <1>6, <2>1, <2>2 DEF Exchanged, server, exit, IInv, TypeOK
  <2>4. HeldInv'
    BY <2>1, <2>2 DEF HeldInv
  <2>5. NoneInAir' /\ inFlight' = 0
    <3>1. inFlight = 0
      BY <2>2 DEF IInv, AirInv, NoneInAir, TypeOK
    <3>. QED
      BY <1>6, <2>2, <3>1 DEF Exchanged, NoneInAir
  <2>6. FlowInv'
    BY <1>6, <2>1, <2>2 DEF Exchanged, exit, IInv, FlowInv, Away
  <2>7. ReqInv'
    BY <1>6 DEF Exchanged, exit, IInv, ReqInv
  <2>. QED
    BY <2>3, <2>4, <2>5, <2>6, <2>7, EmptyAir DEF IInv
<1>7. CASE ExchangeFails
  <2>1. HeldInv' /\ AirInv' /\ ReqInv'
    BY <1>7, Elsewhere DEF ExchangeFails, held, server, exit
  <2>2. TypeOK'
    BY <1>7 DEF ExchangeFails, GateAfterFailure, held, server, exit, IInv, TypeOK, Bounds
  <2>3. FlowInv'
    BY <1>7 DEF ExchangeFails, GateAfterFailure, held, server, exit, IInv, FlowInv, SignedIn, Away,
                NoneInAir
  <2>. QED
    BY <2>1, <2>2, <2>3 DEF IInv
<1>. QED
  BY <1>1, <1>2, <1>3, <1>4, <1>5, <1>6, <1>7 DEF SignInStep

LEMMA SignOutKeeps ==
  ASSUME Bounds, IInv, SignOutStep PROVE IInv'
<1>1. CASE PerformSignOut
  <2>1. /\ tokens' = NoTokens /\ stored' = NoTokens /\ generation' = generation + 1
        /\ inFlight' = 0 /\ UNCHANGED <<air, req, acted, asked, code, where, flow>>
        /\ leaving' = tokens.flow /\ ended' = ended \cup {tokens.flow} /\ wiped' = FALSE
        /\ tokens.flow \in 1..MaxFlows /\ where = "app" /\ flow = "idle"
    BY <1>1 DEF PerformSignOut, SessionClear, server, IInv, HeldInv, TypeOK, TokenSets, Bounds
  <2>2. TypeOK'
    <3>1. NoTokens \in TokenSets /\ 0 \in 0..MaxFlows /\ tokens.flow \in 0..MaxFlows
      BY <2>1, Kinds DEF Bounds
    <3>2. generation + 1 \in Nat /\ ended \cup {tokens.flow} \subseteq 1..MaxFlows
      <4>1. generation \in Nat /\ ended \subseteq 1..MaxFlows
        BY DEF IInv, TypeOK
      <4>2. generation + 1 \in Nat
        BY <4>1
      <4>3. ended \cup {tokens.flow} \subseteq 1..MaxFlows
        BY <2>1, <4>1, Zenon
      <4>. QED
        BY <4>2, <4>3
    <3>3. pending' = 0 /\ UNCHANGED <<clock, mishaps, server, device>>
      BY <1>1 DEF PerformSignOut
    <3>. QED
      BY <2>1, <3>1, <3>2, <3>3 DEF server, IInv, TypeOK
  <2>3. HeldInv'
    BY <2>1 DEF HeldInv, SignedIn
  <2>4. AirInv'
    BY <1>1, <2>1 DEF PerformSignOut, IInv, AirInv, SignedIn, TypeOK
  <2>5. FlowInv'
    <3>1. tokens'.flow = 0
      BY <2>1 DEF NoTokens
    <3>2. ~Away /\ tokens.flow <= asked /\ \A f \in ended : f <= asked /\ f > 0
      BY <1>1 DEF PerformSignOut, IInv, FlowInv, TypeOK
    <3>3. asked \in Nat
      BY DEF IInv, TypeOK
    <3>. QED
      BY <2>1, <3>1, <3>2, <3>3 DEF FlowInv, Away, SignedIn
  <2>6. ReqInv'
    BY <2>1 DEF IInv, ReqInv
  <2>. QED
    BY <2>2, <2>3, <2>4, <2>5, <2>6 DEF IInv
<1>2. CASE Wiped
  <2>1. HeldInv' /\ AirInv' /\ ReqInv'
    BY <1>2, Elsewhere DEF Wiped, held
  <2>2. TypeOK'
    BY <1>2 DEF Wiped, AfterClear, held, auth, IInv, TypeOK
  <2>3. FlowInv'
    BY <1>2 DEF Wiped, held, auth, IInv, FlowInv, SignedIn, Away, NoneInAir
  <2>. QED
    BY <2>1, <2>2, <2>3 DEF IInv
<1>3. CASE Depart
  <2>1. HeldInv' /\ AirInv' /\ ReqInv'
    BY <1>3, UnloadKeeps DEF Depart
  <2>2. TypeOK'
    <3>1. /\ mishaps' \in 0..MaxMishaps /\ where' \in {"app", "cognito"}
          /\ flow' \in {"idle", "redirecting", "exchanging"}
          /\ pending' \in 0..MaxFlows /\ code' \in 0..MaxFlows
      BY <1>3 DEF Depart, Bounds, IInv, TypeOK
    <3>. QED
      BY <1>3, <3>1, UnloadTypes DEF Depart
  <2>3. FlowInv'
    BY <1>3, UnloadIs DEF Depart, IInv, FlowInv, SignedIn, Away
  <2>. QED
    BY <2>1, <2>2, <2>3 DEF IInv
<1>4. ASSUME NEW f \in 1..MaxFlows, Revoked(f) PROVE IInv'
  <2>1. HeldInv' /\ AirInv' /\ ReqInv'
    BY <1>4, Elsewhere DEF Revoked, held, exit
  <2>2. TypeOK'
    BY <1>4 DEF Revoked, held, auth, exit, IInv, TypeOK
  <2>3. FlowInv'
    BY <1>4 DEF Revoked, held, auth, exit, IInv, FlowInv, SignedIn, Away, NoneInAir
  <2>. QED
    BY <2>1, <2>2, <2>3 DEF IInv
<1>. QED
  BY <1>1, <1>2, <1>3, <1>4 DEF SignOutStep

LEMMA WorldKeeps ==
  ASSUME Bounds, IInv, WorldStep PROVE IInv'
<1>1. CASE Tick
  <2>1. HeldInv' /\ AirInv' /\ ReqInv'
    BY <1>1, Elsewhere DEF Tick, held, server, exit
  <2>2. TypeOK'
    BY <1>1 DEF Tick, held, server, auth, exit, IInv, TypeOK, Bounds
  <2>3. FlowInv'
    BY <1>1 DEF Tick, held, auth, exit, IInv, FlowInv, SignedIn, Away, NoneInAir
  <2>. QED
    BY <2>1, <2>2, <2>3 DEF IInv
<1>2. CASE Reload
  <2>1. HeldInv' /\ AirInv' /\ ReqInv'
    BY <1>2, UnloadKeeps DEF Reload
  <2>2. TypeOK'
    <3>1. /\ mishaps' \in 0..MaxMishaps /\ where' \in {"app", "cognito"}
          /\ flow' \in {"idle", "redirecting", "exchanging"}
          /\ pending' \in 0..MaxFlows /\ code' \in 0..MaxFlows
      BY <1>2 DEF Reload, Bounds, IInv, TypeOK
    <3>. QED
      BY <1>2, <3>1, UnloadTypes DEF Reload
  <2>3. FlowInv'
    BY <1>2, UnloadIs DEF Reload, IInv, FlowInv, SignedIn, Away
  <2>. QED
    BY <2>1, <2>2, <2>3 DEF IInv
<1>3. ASSUME NEW f \in 1..MaxFlows, GrantEnds(f) PROVE IInv'
  <2>1. HeldInv' /\ AirInv' /\ ReqInv'
    BY <1>3, Elsewhere DEF GrantEnds, held, exit
  <2>2. TypeOK'
    BY <1>3 DEF GrantEnds, held, auth, exit, IInv, TypeOK, Bounds
  <2>3. FlowInv'
    BY <1>3 DEF GrantEnds, held, auth, exit, IInv, FlowInv, SignedIn, Away, NoneInAir
  <2>. QED
    BY <2>1, <2>2, <2>3 DEF IInv
<1>. QED
  BY <1>1, <1>2, <1>3 DEF WorldStep

LEMMA IdleKeeps == IInv /\ UNCHANGED vars => IInv'
  BY DEF vars, held, server, auth, exit, IInv, TypeOK, HeldInv, AirInv, FlowInv, ReqInv, SignedIn,
         Away, NoneInAir

-----------------------------------------------------------------------------
(* The invariant holds *)

LEMMA InitHolds == ASSUME Bounds PROVE Init => IInv
<1>. SUFFICES ASSUME Init PROVE IInv
  OBVIOUS
<1>1. Landed \in [gen : Nat \cup {-1}, from : TokenSets]
  BY Kinds DEF Landed
<1>2. TypeOK
  <2>1. /\ clock \in 0..MaxClock /\ mishaps \in 0..MaxMishaps
        /\ tokens \in TokenSets /\ stored \in TokenSets
        /\ generation \in Nat /\ inFlight \in {0} \cup Airs
        /\ asked \in 0..MaxFlows /\ pending \in 0..MaxFlows /\ code \in 0..MaxFlows
        /\ leaving \in 0..MaxFlows
    BY Kinds DEF Init, Bounds
  <2>2. /\ air \in [Airs -> [gen : Nat \cup {-1}, from : TokenSets]]
        /\ req \in [Requests -> Asked] /\ acted \in [Requests -> SUBSET Nat]
    BY <1>1, Kinds DEF Init
  <2>3. /\ grants \subseteq 1..MaxFlows /\ revoking \subseteq 1..MaxFlows /\ refuses \in BOOLEAN
        /\ where \in {"app", "cognito"} /\ flow \in {"idle", "redirecting", "exchanging"}
        /\ device \subseteq 1..MaxFlows /\ wiped \in BOOLEAN /\ ended \subseteq 1..MaxFlows
    BY DEF Init
  <2>. QED
    BY <2>1, <2>2, <2>3 DEF TypeOK, Asked
<1>3. HeldInv /\ AirInv /\ FlowInv /\ ReqInv
  BY DEF Init, HeldInv, AirInv, FlowInv, ReqInv, SignedIn, Away, NoTokens, Unsent
<1>. QED
  BY <1>2, <1>3 DEF IInv

LEMMA NextKeeps == ASSUME Bounds, IInv, [Next]_vars PROVE IInv'
<1>1. ASSUME NEW r \in Requests, RequestStep(r) PROVE IInv'
  BY <1>1, BeginKeeps, WakeKeeps, CancelKeeps, AnsweredKeeps, UnauthorizedKeeps, LostKeeps
     DEF RequestStep
<1>2. ASSUME NEW i \in Airs, RefreshStep(i) PROVE IInv'
  BY <1>2, GrantedKeeps, RefusedKeeps, UnreachableKeeps DEF RefreshStep
<1>. QED
  BY <1>1, <1>2, SignInKeeps, SignOutKeeps, WorldKeeps, IdleKeeps DEF Next

-----------------------------------------------------------------------------
(* What it says *)

(* The parts of the property that hold whatever timing is let in. *)
Kept ==
  TypeOK /\ SignedOutStays /\ CanRenew /\ OneEffect /\ OneRefresh /\ FlowSurvives

LEMMA IInvKept == ASSUME Bounds, IInv PROVE Kept
<1>1. SignedOutStays
  BY DEF IInv, HeldInv, FlowInv, SignedOutStays
<1>2. CanRenew
  BY DEF IInv, HeldInv, CanRenew, CanRefresh
<1>3. OneEffect
  <2>. SUFFICES ASSUME NEW r \in Requests PROVE Cardinality(acted[r]) <= 1
    BY DEF OneEffect
  <2>1. acted[r] = {} \/ acted[r] = {1}
    BY DEF IInv, ReqInv
  <2>2. Cardinality({}) = 0
    BY FS_EmptySet
  <2>3. Cardinality({1}) = 1
    BY FS_Singleton
  <2>. QED
    BY <2>1, <2>2, <2>3
<1>4. OneRefresh
  BY DEF IInv, AirInv, ReqInv, OneRefresh
<1>5. FlowSurvives
  BY DEF IInv, FlowInv, FlowSurvives
<1>. QED
  BY <1>1, <1>2, <1>3, <1>4, <1>5 DEF Kept, IInv

(* What no step may do to a session or to a request given up. *)
LEMMA StepKept == ASSUME Bounds, IInv, Next PROVE SessionStep
<1>1. KeptSignedIn
  <2>. SUFFICES ASSUME SignedIn, tokens' = NoTokens
       PROVE tokens.flow \in ended' \/ tokens.flow \notin grants
    BY DEF KeptSignedIn
  <2>0. tokens' # tokens
    BY DEF SignedIn
  <2>1. ASSUME NEW r \in Requests, RequestStep(r) PROVE FALSE
    BY <2>0, <2>1 DEF RequestStep, Begin, Wake, Cancel, Answered, Unauthorized, Lost, held
  <2>2. ASSUME NEW i \in Airs, RefreshStep(i) PROVE tokens.flow \notin grants
    <3>1. Current(i) => air[i].from.refresh /\ air[i].from.flow = tokens.flow /\ tokens.flow > 0
      BY <2>2, SettlesIs DEF RefreshStep, Granted, Refused, Unreachable
    <3>2. ~Granted(i)
      <4>. SUFFICES ASSUME Granted(i) PROVE FALSE
        OBVIOUS
      <4>1. Current(i) /\ tokens' = TokenSetFromWire(RefreshWire(i), air[i].from)
        BY <2>0 DEF Granted, SessionSet, held
      <4>. QED
        BY <3>1, <4>1 DEF TokenSetFromWire, RefreshWire, NoTokens
    <3>3. ~Unreachable(i)
      BY <2>0 DEF Unreachable, AfterUnreachable, held
    <3>4. Refused(i) /\ Current(i)
      BY <2>0, <2>2, <3>2, <3>3 DEF RefreshStep, Refused, held
    <3>. QED
      BY <3>1, <3>4 DEF Refused
  <2>3. CASE SignInStep
    <3>1. Exchanged
      BY <2>0, <2>3, UnloadIs DEF SignInStep, SignIn, Redirect, Killed, Return, TurnedBack,
                                  ExchangeFails, held
    <3>. QED
      BY <3>1 DEF Exchanged, SessionSet, TokenSetFromWire, NoTokens
  <2>4. CASE SignOutStep
    <3>1. PerformSignOut
      BY <2>0, <2>4, UnloadIs DEF SignOutStep, Wiped, Depart, Revoked, held
    <3>. QED
      BY <3>1 DEF PerformSignOut
  <2>5. CASE WorldStep
    BY <2>0, <2>5, UnloadIs DEF WorldStep, Tick, Reload, GrantEnds, held
  <2>. QED
    BY <2>1, <2>2, <2>3, <2>4, <2>5 DEF Next
<1>2. AbandonedNotReplayed
  <2>. SUFFICES ASSUME NEW r \in Requests, req[r].quit, req[r].pc \in {"again", "sleep"}
       PROVE req'[r].pc # "sent"
    BY DEF AbandonedNotReplayed
  <2>0. req \in [Requests -> Asked] /\ Ended("cancelled").pc = "cancelled"
        /\ Ended("failed").pc = "failed" /\ req[r].pc # "sent"
    BY ReqIs, Kinds DEF Pcs
  <2>1. ASSUME NEW s \in Requests, RequestStep(s) PROVE req'[r].pc # "sent"
    <3>1. CASE s # r
      <4>1. req' = [req EXCEPT ![s] = req'[s]]
        BY <2>0, <2>1 DEF RequestStep, Begin, Wake, Cancel, Answered, Unauthorized, Lost, Attempt,
                          Join, Set
      <4>. QED
        BY <2>0, <3>1, <4>1
    <3>2. CASE s = r
      <4>1. CASE Wake(r)
        <5>. DEFINE q == [req[r] EXCEPT !.tries = @ + 1]
        <5>1. q.quit
          BY <2>0 DEF Asked
        <5>2. Attempt(r, q)
          BY <4>1 DEF Wake
        <5>. HIDE DEF q
        <5>. QED
          BY <2>0, <5>1, <5>2 DEF Attempt, Set
      <4>. QED
        BY <2>0, <2>1, <3>2, <4>1 DEF RequestStep, Begin, Cancel, Answered, Unauthorized, Lost
    <3>. QED
      BY <3>1, <3>2
  <2>2. ASSUME NEW i \in Airs, RefreshStep(i) PROVE req'[r].pc # "sent"
    <3>1. PICK ok \in BOOLEAN, b \in TokenSets \cup {tokens, NoTokens, tokens'} : Resume(i, ok, b)
      BY <2>2 DEF RefreshStep, Granted, Refused, Unreachable, SessionSet
    <3>2. req'[r] = req[r] \/ req'[r] = Ended("failed") \/ req'[r] = Ended("cancelled")
      BY <3>1 DEF Resume
    <3>. QED
      BY <2>0, <3>2
  <2>3. CASE SignInStep
    BY <2>0, <2>3, UnloadIs DEF SignInStep, SignIn, Redirect, Killed, Return, TurnedBack, Exchanged,
                           ExchangeFails, Open
  <2>4. CASE SignOutStep
    BY <2>0, <2>4, UnloadIs DEF SignOutStep, PerformSignOut, Wiped, Depart, Revoked, Open
  <2>5. CASE WorldStep
    BY <2>0, <2>5, UnloadIs DEF WorldStep, Tick, Reload, GrantEnds, Open
  <2>. QED
    BY <2>1, <2>2, <2>3, <2>4, <2>5 DEF Next
<1>. QED
  BY <1>1, <1>2 DEF SessionStep

(* Signed out, and the device is clean: as long as no answer to a read     *)
(* lands between the wipe and the reload, and no reload cuts the wipe off. *)
LEMMA LeavesStep ==
  ASSUME Bounds, Windows = {}, IInv, LeavesNothing, [Next]_vars PROVE LeavesNothing'
<1>1. leaving = 0 => \A f \in ended : f \notin device
  BY DEF LeavesNothing, IInv, TypeOK
<1>2. UNCHANGED <<device, leaving, wiped, ended>> => LeavesNothing'
  BY DEF LeavesNothing
<1>3. ASSUME NEW r \in Requests, RequestStep(r) PROVE LeavesNothing'
  <2>1. CASE Answered(r)
    <3>1. /\ leaving = 0 /\ UNCHANGED <<leaving, wiped, ended>> /\ req[r].bearer.flow \notin ended
          /\ device' \subseteq device \cup {req[r].bearer.flow}
      BY <2>1 DEF Answered, Remembers, IInv, ReqInv
    <3>. QED
      BY <1>1, <3>1 DEF LeavesNothing
  <2>. QED
    BY <1>2, <1>3, <2>1 DEF RequestStep, Begin, Wake, Cancel, Unauthorized, Lost, exit
<1>4. ASSUME NEW i \in Airs, RefreshStep(i) PROVE LeavesNothing'
  BY <1>2, <1>4 DEF RefreshStep, Granted, Refused, Unreachable, Settles, exit
<1>5. CASE SignInStep
  <2>1. CASE Redirect
    <3>1. leaving = 0 /\ UNCHANGED <<device, ended>>
      BY <2>1 DEF Redirect, Unload
    <3>. QED
      BY <1>1, <3>1 DEF LeavesNothing
  <2>. QED
    BY <1>2, <1>5, <2>1 DEF SignInStep, SignIn, Killed, Return, TurnedBack, Exchanged,
                             ExchangeFails, exit
<1>6. CASE SignOutStep
  <2>1. CASE PerformSignOut
    BY <1>1, <2>1 DEF PerformSignOut, LeavesNothing
  <2>2. CASE Wiped
    BY <2>2 DEF Wiped, AfterClear, LeavesNothing
  <2>3. CASE Depart
    BY <2>3 DEF Depart, Unload, LeavesNothing
  <2>. QED
    BY <1>2, <1>6, <2>1, <2>2, <2>3 DEF SignOutStep, Revoked, exit
<1>7. CASE WorldStep
  <2>1. CASE Reload
    <3>1. leaving = 0 /\ UNCHANGED <<device, ended>>
      BY <2>1 DEF Reload, Unload
    <3>. QED
      BY <1>1, <3>1 DEF LeavesNothing
  <2>. QED
    BY <1>2, <1>7, <2>1 DEF WorldStep, Tick, GrantEnds, exit
<1>8. CASE UNCHANGED vars
  BY <1>2, <1>8 DEF vars, exit
<1>. QED
  BY <1>3, <1>4, <1>5, <1>6, <1>7, <1>8 DEF Next

-----------------------------------------------------------------------------
(* The theorems *)

(* Whatever timing is let in, for any number of requests, retries and      *)
(* sign-ins: a sign-in that was signed out of never comes back, in memory  *)
(* or in storage; a session held can always renew itself; concurrent 401s  *)
(* make one refresh; a write resent acts once; a sign-in's answer is still *)
(* expected after a kill (session.ts, client.ts, pending.ts).              *)
THEOREM SessionIsSound == ASSUME Bounds PROVE Spec => []Kept /\ [][SessionStep]_vars
<1>1. Init => IInv
  BY InitHolds
<1>2. IInv /\ [Next]_vars => IInv'
  BY NextKeeps
<1>3. IInv => Kept
  BY IInvKept
<1>4. IInv /\ [Next]_vars => [SessionStep]_vars
  BY StepKept
<1>. QED
  BY <1>1, <1>2, <1>3, <1>4, PTL DEF Spec

(* And signed out, the device holds none of that person's notes, when no   *)
(* answer to a read lands during the wipe and nothing interrupts it        *)
(* (signOut.ts): all of SessionHolds.                                      *)
THEOREM SessionAlwaysHolds == ASSUME Bounds, Windows = {} PROVE Spec => SessionHolds
<1>1. Init => IInv /\ LeavesNothing
  BY InitHolds DEF Init, LeavesNothing
<1>2. IInv /\ LeavesNothing /\ [Next]_vars => (IInv /\ LeavesNothing)'
  BY NextKeeps, LeavesStep
<1>3. IInv /\ LeavesNothing => SessionInv
  BY IInvKept DEF Kept, SessionInv
<1>4. IInv /\ [Next]_vars => [SessionStep]_vars
  BY StepKept
<1>. QED
  BY <1>1, <1>2, <1>3, <1>4, PTL DEF Spec, SessionHolds
=============================================================================
