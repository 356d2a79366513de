------------------------------ MODULE Attestation ------------------------------
(***************************************************************************)
(* The attestation of providers: attestation_challenge_loop of main.py,    *)
(* the challenge, answer and timeout methods of ProviderHub, and the       *)
(* provider's side of it.                                                  *)
(*                                                                         *)
(* Time is a count of ticks.  Nothing is stamped: a challenge, an answer   *)
(* that is awaited and accepted evidence carry their age, and Tick ages    *)
(* them all.  A step that is due happens before the next tick.  The wall   *)
(* clock of the code is taken to advance with its sleeps.                  *)
(***************************************************************************)
EXTENDS Integers, FiniteSets

CONSTANTS
  Providers,               (* connections to the hub                        *)
  NoProvider,
  Claim,                   (* the trust level that each of them registers   *)
  Honest,                  (* those that run ocip_agent on a machine that   *)
                           (* has what they claim; it has no App Attest     *)
  CHALLENGE_INTERVAL,
  TIMEOUT_CHECK_INTERVAL,
  CHALLENGE_TIMEOUT,
  Stall,                   (* how long a send may hang on a slow socket     *)
  Reply                    (* how long the agent takes to gather evidence   *)

TrustLevels == {"open", "contained", "hardened", "confidential"}

ASSUME AttestationAssumption ==
  /\ IsFiniteSet(Providers)
  /\ NoProvider \notin Providers
  /\ Claim \in [Providers -> TrustLevels]
  /\ Honest \subseteq {p \in Providers : Claim[p] # "confidential"}
  /\ TIMEOUT_CHECK_INTERVAL \in Nat \ {0}
  /\ CHALLENGE_TIMEOUT \in Nat
  /\ CHALLENGE_INTERVAL \in Nat
  /\ CHALLENGE_INTERVAL > CHALLENGE_TIMEOUT
  /\ Stall \in Nat
  /\ Reply \in Nat

VARIABLES
  connected,   (* providers in the hub                                      *)
  dead,        (* those whose socket has died, unnoticed so far             *)
  status,      (* attestation_status                                        *)
  challenge,   (* the age of pending_challenge_nonce, or None               *)
  evidence,    (* the age of the answer behind a "passed", or None          *)
  inbox,       (* how long an honest agent has had a challenge, or None     *)
  target,      (* the provider that the loop is sending to, or NoProvider   *)
               (* while it sleeps                                           *)
  rest,        (* those it has still to visit in this round                 *)
  waited,      (* how long its current send or sleep has lasted             *)
  elapsed      (* its variable of that name                                 *)

hubVars == <<connected, dead, status, challenge, evidence>>
loopVars == <<target, rest, waited, elapsed>>
vars == <<hubVars, inbox, loopVars>>

(* How long the loop's current await may last.                               *)
Patience == IF target = NoProvider THEN TIMEOUT_CHECK_INTERVAL ELSE Stall

None == -1
Age == Nat \cup {None}

TypeOK ==
  /\ connected \in SUBSET Providers
  /\ dead \in SUBSET connected
  /\ status \in [Providers -> {"pending", "passed", "degraded"}]
  /\ challenge \in [Providers -> Age]
  /\ evidence \in [Providers -> Age]
  /\ inbox \in [Providers -> Age]
  /\ target \in Providers \cup {NoProvider}
  /\ rest \in SUBSET Providers
  /\ waited \in 0 .. Patience
  /\ elapsed \in Nat
  /\ elapsed < CHALLENGE_INTERVAL

(* The coordinator starts without providers: the first round is empty.       *)
Init ==
  /\ connected = {}
  /\ dead = {}
  /\ status = [p \in Providers |-> "pending"]
  /\ challenge = [p \in Providers |-> None]
  /\ evidence = [p \in Providers |-> None]
  /\ inbox = [p \in Providers |-> None]
  /\ target = NoProvider
  /\ rest = {}
  /\ waited = 0
  /\ elapsed = 0

-----------------------------------------------------------------------------
(* Connections.  A connection has a fresh provider object: a name is used    *)
(* again only when the loop no longer refers to its last bearer.             *)

Connect(p) ==
  /\ p \notin connected \cup rest \cup {target}
  /\ connected' = connected \cup {p}
  /\ UNCHANGED <<dead, status, challenge, evidence, inbox, loopVars>>

(* The socket task ends, also on an answer that does not parse; or an        *)
(* operator disconnects the provider.                                        *)
Leave(p) ==
  /\ p \in connected
  /\ connected' = connected \ {p}
  /\ dead' = dead \ {p}
  /\ status' = [status EXCEPT ![p] = "pending"]
  /\ challenge' = [challenge EXCEPT ![p] = None]
  /\ evidence' = [evidence EXCEPT ![p] = None]
  /\ inbox' = [inbox EXCEPT ![p] = None]
  /\ UNCHANGED loopVars

SocketDies(p) ==
  /\ p \in connected \ dead
  /\ dead' = dead \cup {p}
  /\ inbox' = [inbox EXCEPT ![p] = None]
  /\ UNCHANGED <<connected, status, challenge, evidence, loopVars>>

-----------------------------------------------------------------------------
(* The loop.                                                                 *)

(* The rest of a round in which the nonces are open: send to the next        *)
(* provider that has none, or go to sleep.  send_attestation_challenge       *)
(* records the nonce and the time before it awaits the send.                 *)
GoOn(round, open) ==
  /\ waited' = 0
  /\ elapsed' = 0
  /\ \/ \E p \in round, skipped \in SUBSET {q \in round : open[q] # None} :
          /\ open[p] = None
          /\ target' = p
          /\ rest' = round \ (skipped \cup {p})
          /\ challenge' = IF p \in connected THEN [open EXCEPT ![p] = 0] ELSE open
     \/ /\ \A p \in round : open[p] # None
        /\ target' = NoProvider
        /\ rest' = {}
        /\ challenge' = open

(* A send ends: the provider has the challenge, unless its socket is dead    *)
(* or closed (the exception is logged), or it has answered already.          *)
SendEnds ==
  /\ target # NoProvider
  /\ inbox' = IF target \in Honest \cap (connected \ dead) /\ challenge[target] # None
              THEN [inbox EXCEPT ![target] = 0] ELSE inbox
  /\ GoOn(rest, challenge)
  /\ UNCHANGED <<connected, dead, status, evidence>>

(* Variant of Overdue that is one tick early.                                *)
OverdueEarly(p) == challenge[p] >= CHALLENGE_TIMEOUT

Overdue(p) == challenge[p] > CHALLENGE_TIMEOUT

(* Variant of Unanswered without "pending_challenge_nonce = None".           *)
StillOpen == challenge

(* The nonces that check_attestation_timeouts leaves.                        *)
Unanswered == [p \in Providers |-> IF Overdue(p) THEN None ELSE challenge[p]]

(* Variant of CheckTimeouts that only gives the challenges up.               *)
CheckWithoutVerdict == UNCHANGED <<status, evidence>>

(* check_attestation_timeouts.                                               *)
CheckTimeouts ==
  /\ status' = [p \in Providers |-> IF Overdue(p) THEN "degraded" ELSE status[p]]
  /\ evidence' = [p \in Providers |-> IF Overdue(p) THEN None ELSE evidence[p]]

SleepEnds == target = NoProvider /\ waited = TIMEOUT_CHECK_INTERVAL

RoundDue == SleepEnds /\ elapsed + TIMEOUT_CHECK_INTERVAL >= CHALLENGE_INTERVAL

SleepOn ==
  /\ SleepEnds /\ ~RoundDue
  /\ CheckTimeouts
  /\ challenge' = Unanswered
  /\ elapsed' = elapsed + TIMEOUT_CHECK_INTERVAL
  /\ waited' = 0
  /\ UNCHANGED <<connected, dead, inbox, target, rest>>

(* The last check of a round, and the first send of the next.                *)
StartRound ==
  /\ RoundDue
  /\ CheckTimeouts
  /\ GoOn(connected, Unanswered)
  /\ UNCHANGED <<connected, dead, inbox>>

-----------------------------------------------------------------------------
(* Answers: handle_attestation_response.                                     *)

(* An honest agent answers a challenge that it has received, once.           *)
MayAnswer(p) == p \in Honest => inbox[p] # None \/ target = p

Verdict(p, complete) ==
  IF Claim[p] \in {"hardened", "confidential"} /\ ~complete THEN "degraded"
  ELSE IF Claim[p] = "confidential" THEN "pending"
  ELSE "passed"

(* The answer has the open nonce; complete says whether the evidence that    *)
(* the claim needs is there.                                                 *)
AnswerOpen(p, complete) ==
  /\ p \in connected \ dead
  /\ challenge[p] # None
  /\ MayAnswer(p)
  /\ p \in Honest => complete
  /\ challenge' = [challenge EXCEPT ![p] = None]
  /\ status' = [status EXCEPT ![p] = Verdict(p, complete)]
  /\ evidence' = [evidence EXCEPT ![p] =
                    IF Verdict(p, complete) = "passed" THEN 0 ELSE None]
  /\ inbox' = [inbox EXCEPT ![p] = None]
  /\ UNCHANGED <<connected, dead, loopVars>>

(* Any other answer: late, repeated or made up.  Of an honest agent, an      *)
(* answer to a challenge that has been given up.                             *)
AnswerOther(p) ==
  /\ p \in connected \ dead
  /\ p \in Honest => challenge[p] = None /\ inbox[p] # None
  /\ status' = [status EXCEPT ![p] = "degraded"]
  /\ evidence' = [evidence EXCEPT ![p] = None]
  /\ inbox' = [inbox EXCEPT ![p] = None]
  /\ UNCHANGED <<connected, dead, challenge, loopVars>>

-----------------------------------------------------------------------------
Older(age) == IF age = None THEN None ELSE age + 1

Tick ==
  /\ waited < Patience
  /\ \A p \in Honest : inbox[p] < Reply
  /\ waited' = waited + 1
  /\ challenge' = [p \in Providers |-> Older(challenge[p])]
  /\ evidence' = [p \in Providers |-> Older(evidence[p])]
  /\ inbox' = [p \in Providers |-> Older(inbox[p])]
  /\ UNCHANGED <<connected, dead, status, target, rest, elapsed>>

ProviderStep(p) ==
  \/ Connect(p)
  \/ Leave(p)
  \/ SocketDies(p)
  \/ \E complete \in BOOLEAN : AnswerOpen(p, complete)
  \/ AnswerOther(p)

Next ==
  \/ \E p \in Providers : ProviderStep(p)
  \/ SendEnds
  \/ SleepOn
  \/ StartRound
  \/ Tick

Spec == Init /\ [][Next]_vars

(* Time passes, the loop runs, a send ends and an agent answers.             *)
Fairness ==
  /\ WF_vars(Tick)
  /\ WF_vars(SendEnds)
  /\ WF_vars(SleepOn \/ StartRound)
  /\ \A p \in Honest : WF_vars(AnswerOpen(p, TRUE) \/ AnswerOther(p))

FairSpec == Spec /\ Fairness

-----------------------------------------------------------------------------
(* Properties.                                                               *)

(* A round challenges every provider in the hub: the challenges of the last  *)
(* round have been answered or given up by then, so no provider escapes a    *)
(* round by leaving one unanswered.                                          *)
RoundSkipsNobody ==
  [][RoundDue /\ waited' = 0 => connected = (rest' \cup {target'}) \ {NoProvider}]_vars

(* An honest provider whose socket works is never degraded, provided that    *)
(* a hanging send and the agent's evidence together take no longer than the  *)
(* timeout: the time to respond runs from before the send.                   *)
HonestIsNotDegraded ==
  Stall + Reply <= CHALLENGE_TIMEOUT =>
    \A p \in Honest \cap (connected \ dead) : status[p] # "degraded"

(* The time that the sends of one round may take.                            *)
RoundTime == Cardinality(Providers) * Stall

(* A provider that counts as passed gave its evidence recently: at most a    *)
(* round's sleep, two rounds of sends, the timeout and one check ago.  A     *)
(* silent or dead provider does not stay passed.                             *)
EvidenceIsFresh ==
  \A p \in Providers :
    status[p] = "passed" =>
      /\ evidence[p] # None
      /\ evidence[p] <= CHALLENGE_INTERVAL + 2 * RoundTime
                        + CHALLENGE_TIMEOUT + 2 * TIMEOUT_CHECK_INTERVAL

(* A provider that claims no App Attest evidence does not stay unjudged.     *)
EveryoneIsJudged ==
  \A p \in Providers :
    p \in connected ~>
      p \notin connected \/ status[p] # "pending" \/ Claim[p] = "confidential"

-----------------------------------------------------------------------------
(* The inductive invariant behind the safety properties.                     *)

(* A provider that left took everything with it.                             *)
AbsentInv ==
  \A p \in Providers \ connected :
    challenge[p] = None /\ evidence[p] = None /\ inbox[p] = None
      /\ status[p] = "pending"

(* What is still to be visited has no open challenge; what is open while the *)
(* loop sleeps was sent before it went to sleep, and after the first check   *)
(* it was not overdue then.                                                  *)
RoundInv ==
  /\ \A p \in rest : challenge[p] = None /\ p # target
  /\ target = NoProvider =>
       /\ rest = {}
       /\ \A p \in Providers :
            challenge[p] # None =>
              /\ challenge[p] >= elapsed + waited
              /\ elapsed > 0 => challenge[p] <= CHALLENGE_TIMEOUT + waited

(* An honest agent holds every open challenge but the one on its way, and    *)
(* got it at most a stalled send after its time.                             *)
HonestInv ==
  \A p \in Honest \cap (connected \ dead) :
    /\ challenge[p] = None => inbox[p] = None
    /\ challenge[p] # None =>
         IF target = p THEN inbox[p] = None /\ challenge[p] = waited
                       ELSE inbox[p] # None /\ challenge[p] <= inbox[p] + Stall
    /\ inbox[p] <= Reply
    /\ status[p] # "degraded"

(* How long the sends of this round have taken, at most.                     *)
SentFor == (Cardinality(Providers) - Cardinality(rest) - 1) * Stall + waited

(* How old the evidence of the last round may be when this one begins.       *)
FullRound == RoundTime + CHALLENGE_INTERVAL + TIMEOUT_CHECK_INTERVAL

(* Evidence is of this round if the challenge of this round is answered, and *)
(* otherwise of the round before.                                            *)
EvidenceInv ==
  \A p \in Providers :
    status[p] = "passed" =>
      /\ evidence[p] # None
      /\ target # NoProvider =>
           evidence[p] <= SentFor
             + IF p \in rest \/ challenge[p] # None THEN FullRound ELSE 0
      /\ target = NoProvider =>
           evidence[p] <= RoundTime + elapsed + waited
             + IF challenge[p] # None THEN FullRound ELSE 0

AttestationIInv ==
  /\ AbsentInv
  /\ RoundInv
  /\ Stall + Reply <= CHALLENGE_TIMEOUT => HonestInv
  /\ EvidenceInv

=============================================================================
