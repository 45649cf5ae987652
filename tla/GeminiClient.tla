---------------------------- MODULE GeminiClient ----------------------------
(***************************************************************************)
(* The backend's client of the Gemini model (integrations/gemini): every   *)
(* call runs through one circuit breaker, which wraps a loop of attempts,  *)
(* each with a timeout.  Node runs one callback at a time, so a step is    *)
(* what happens between two awaits; the calls of concurrent requests       *)
(* interleave between their steps and share the breaker.                   *)
(*                                                                         *)
(* Time is only the breaker's: cooling counts down what is left of the     *)
(* cooldown since openedAt.  failureCount stops at the threshold, the one  *)
(* value the code compares it with.                                        *)
(***************************************************************************)
EXTENDS Naturals, FiniteSets

CONSTANTS Callers,          \* the requests that may be in the client at once
          FailureThreshold, \* GEMINI_BREAKER_THRESHOLD
          Cooldown,         \* GEMINI_BREAKER_COOLDOWN_MS, in ticks
          MaxRetries        \* GEMINI_MAX_RETRIES

ASSUME GeminiAssumption == /\ IsFiniteSet(Callers) /\ Callers # {}
                           /\ FailureThreshold \in Nat \ {0}
                           /\ Cooldown \in Nat \ {0}
                           /\ MaxRetries \in Nat

VARIABLES state,        \* the breaker's state
          failureCount, \* failed executions since the last that succeeded
          cooling,      \* what is left of the cooldown
          call,         \* per caller, where its call is
          hammered      \* attempts sent since the breaker opened, while open

geminiVars == <<state, failureCount, cooling, call, hammered>>
breaker    == <<state, failureCount, cooling>>

Phases == {"none", "attempt", "backoff", "answered", "failed"}
NoCall == [phase |-> "none", attempt |-> 0]

GeminiTypeOK == /\ state \in {"CLOSED", "OPEN", "HALF_OPEN"}
                /\ failureCount \in 0 .. FailureThreshold
                /\ cooling \in 0 .. Cooldown
                /\ call \in [Callers -> [phase : Phases, attempt : 0 .. MaxRetries]]
                /\ hammered \in Nat

GeminiInit == /\ state = "CLOSED"
              /\ failureCount = 0
              /\ cooling = 0
              /\ call = [c \in Callers |-> NoCall]
              /\ hammered = 0

-----------------------------------------------------------------------------
(* CircuitBreaker                                                          *)

\* Mutant of OnSuccess: the trial of a half-open breaker does not close it.
OnSuccessUnclosed == /\ failureCount' = 0
                     /\ state' = IF state = "HALF_OPEN" THEN state ELSE "CLOSED"
                     /\ UNCHANGED <<cooling, hammered>>

OnSuccess == /\ failureCount' = 0
             /\ state' = "CLOSED"
             /\ UNCHANGED <<cooling, hammered>>

\* Mutant of OnFailure: the breaker opens one failure early.
OnFailureEager ==
  /\ failureCount' = IF failureCount < FailureThreshold THEN failureCount + 1
                                                        ELSE failureCount
  /\ IF state = "HALF_OPEN" \/ failureCount + 2 >= FailureThreshold
     THEN /\ state' = "OPEN"
          /\ cooling' = Cooldown
          /\ hammered' = IF state = "OPEN" THEN hammered ELSE 0
     ELSE UNCHANGED <<state, cooling, hammered>>

OnFailure ==
  /\ failureCount' = IF failureCount < FailureThreshold THEN failureCount + 1
                                                        ELSE failureCount
  /\ IF state = "HALF_OPEN" \/ failureCount + 1 >= FailureThreshold
     THEN /\ state' = "OPEN"
          /\ cooling' = Cooldown
          /\ hammered' = IF state = "OPEN" THEN hammered ELSE 0
     ELSE UNCHANGED <<state, cooling, hammered>>

(* execute: CircuitOpenError (a 503) while the cooldown lasts, otherwise   *)
(* the first attempt.  Nothing counts the calls of a half-open breaker.    *)
Reject(c) ==
  /\ call[c] = NoCall
  /\ state = "OPEN" /\ cooling > 0
  /\ call' = [call EXCEPT ![c].phase = "failed"]
  /\ UNCHANGED <<breaker, hammered>>

Admit(c) ==
  /\ call[c] = NoCall
  /\ state = "OPEN" => cooling = 0
  /\ state' = IF state = "OPEN" THEN "HALF_OPEN" ELSE state
  /\ call' = [call EXCEPT ![c].phase = "attempt"]
  /\ UNCHANGED <<failureCount, cooling, hammered>>

Execute(c) == Reject(c) \/ Admit(c)

CoolDown == /\ cooling > 0
            /\ cooling' = cooling - 1
            /\ UNCHANGED <<state, failureCount, call, hammered>>

-----------------------------------------------------------------------------
(* withRetries and withTimeout                                             *)

(* parseResponse reads the answer outside the breaker: one that is no JSON *)
(* fails the request and still counts as a success.                        *)
Answered(c) ==
  /\ call[c].phase = "attempt"
  /\ \E parses \in BOOLEAN :
       call' = [call EXCEPT ![c].phase = IF parses THEN "answered" ELSE "failed"]
  /\ OnSuccess

(* How an attempt can fail: withTimeout gives up on it, or the upstream     *)
(* answers with an error, or the connection breaks.                        *)
Errors == {"timed out", "429", "5xx", "network", "4xx"}

IsRetryable(err) == err # "4xx"

\* Mutant of AttemptFails: the last attempt is followed by another.
AttemptFailsOnce(c) ==
  /\ call[c].phase = "attempt"
  /\ \E err \in Errors :
       IF IsRetryable(err) /\ call[c].attempt <= MaxRetries
       THEN /\ call' = [call EXCEPT ![c].phase = "backoff"]
            /\ UNCHANGED <<breaker, hammered>>
       ELSE /\ call' = [call EXCEPT ![c].phase = "failed"]
            /\ OnFailure

AttemptFails(c) ==
  /\ call[c].phase = "attempt"
  /\ \E err \in Errors :
       IF IsRetryable(err) /\ call[c].attempt < MaxRetries
       THEN /\ call' = [call EXCEPT ![c].phase = "backoff"]
            /\ UNCHANGED <<breaker, hammered>>
       ELSE /\ call' = [call EXCEPT ![c].phase = "failed"]
            /\ OnFailure

(* The delay is over: the next attempt is sent, whatever the breaker says. *)
Resend(c) ==
  /\ call[c].phase = "backoff"
  /\ call' = [call EXCEPT ![c] = [phase |-> "attempt",
                                  attempt |-> IF @.attempt < MaxRetries
                                              THEN @.attempt + 1 ELSE @.attempt]]
  /\ hammered' = IF state = "OPEN" THEN hammered + 1 ELSE hammered
  /\ UNCHANGED breaker

GeminiStep(c) == Answered(c) \/ AttemptFails(c) \/ Resend(c)

-----------------------------------------------------------------------------
(* Properties                                                              *)

(* The state and the counter tell the same story whichever calls end late: *)
(* the breaker is closed exactly while fewer executions in a row failed    *)
(* than the threshold, so it neither opens early nor stays closed.         *)
(* [CircuitBreaker.onSuccess, onFailure]                                   *)
TrippedByFailures == (state = "CLOSED") <=> (failureCount < FailureThreshold)

(* An open breaker does not stop the retries of the calls it had let in:   *)
(* they may send on, but no more than their retries, and never the call    *)
(* that opened it.  [circuit-breaker.ts:6, gemini.service.ts withRetries]  *)
HammeringBounded == hammered <= (Cardinality(Callers) - 1) * MaxRetries
=============================================================================
