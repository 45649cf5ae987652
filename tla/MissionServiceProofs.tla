------------------------ MODULE MissionServiceProofs ------------------------
(* The breaker, the math problems and the sleep report, for every number of *)
(* requests, every threshold, cooldown and number of retries.               *)
EXTENDS MissionService, FiniteSetTheorems, TLAPS

-----------------------------------------------------------------------------
(* MathMission: every puzzle that the builders can make is fair, for every  *)
(* draw within the bounds they ask for.                                     *)

\* The bounds as the numbers they are.
LEMMA Bounds == /\ MaxBound \in Nat /\ MaxBound = 400
                /\ MaxAnswer \in Nat /\ 2 * MaxBound < MaxAnswer
BY SMT DEF MaxBound, MaxAnswer

\* A draw lies between its bounds.
LEMMA Draws ==
  ASSUME NEW lo \in 1 .. MaxBound, NEW hi \in 1 .. MaxBound, lo <= hi
  PROVE  RandInt(lo, hi) \subseteq lo .. hi
BY RandIntAssumption, Zenon

\* The draws the builders make.
LEMMA DrawsMade ==
  /\ RandInt(1, 20) \subseteq 1 .. 20 /\ RandInt(5, 40) \subseteq 5 .. 40
  /\ RandInt(2, 12) \subseteq 2 .. 12 /\ RandInt(2, 15) \subseteq 2 .. 15
  /\ RandInt(1, 30) \subseteq 1 .. 30 /\ RandInt(3, 15) \subseteq 3 .. 15
  /\ RandInt(6, 20) \subseteq 6 .. 20 /\ RandInt(10, 60) \subseteq 10 .. 60
<1>1. /\ 1 <= 20 /\ 5 <= 40 /\ 2 <= 12 /\ 2 <= 15 /\ 1 <= 30 /\ 3 <= 15 /\ 6 <= 20 /\ 10 <= 60
      /\ {1, 2, 3, 5, 6, 10, 12, 15, 20, 30, 40, 60} \subseteq 1 .. MaxBound
  BY Bounds
<1>2. QED
  BY <1>1, Draws, Zenon

\* A third operand is a small positive number that a difference can bear.
LEMMA ThirdIsBearable ==
  ASSUME NEW op \in {"+", "-"}, NEW from \in 1 .. MaxBound, NEW draws \in SUBSET (1 .. MaxBound),
         NEW c \in Thirds(op, from, draws)
  PROVE  c \in 1 .. MaxBound /\ (op = "-" => c <= from)
<1>1. 1 \in 1 .. MaxBound /\ 1 <= from /\ 1 .. from \subseteq 1 .. MaxBound
  BY Bounds
<1>2. RandInt(1, from) \subseteq 1 .. from
  BY <1>1, Draws, Zenon
<1>3. CASE op = "+"
  BY <1>3 DEF Thirds
<1>4. CASE op = "-"
  <2>1. (c \in draws /\ c <= from) \/ c \in 1 .. from
    BY <1>2, <1>4, Zenon DEF Thirds
  <2>2. c \in 1 .. MaxBound
    BY <1>1, <2>1, Zenon
  <2>3. c <= from
    <3>1. CASE c \in draws /\ c <= from
      BY <3>1
    <3>2. CASE c \in 1 .. from
      BY <3>2, Bounds
    <3>3. QED
      BY <2>1, <3>1, <3>2
  <2>4. QED
    BY <1>4, <2>2, <2>3
<1>5. QED
  BY <1>3, <1>4

\* A puzzle of two operands is fair if its answer is what they make.
LEMMA FairPair ==
  ASSUME NEW a \in Int, NEW b \in Int, NEW op \in {"+", "-", "*"}, NEW answer \in 0 .. MaxAnswer,
         answer = Apply(op, a, b)
  PROVE  IsFair(Puzzle(<<a, b>>, <<op>>, answer))
<1> DEFINE p == Puzzle(<<a, b>>, <<op>>, answer)
<1>1. /\ p.operands[1] = a /\ p.operands[2] = b /\ p.ops = <<op>> /\ p.answer = answer
      /\ Len(p.ops) = 1 /\ DOMAIN p.ops = {1} /\ p.ops[1] = op
  BY DEF Puzzle
<1> HIDE DEF p
<1>2. BindsFromTheLeft(p)
  BY <1>1 DEF BindsFromTheLeft
<1>3. DividesExactly(p)
  BY <1>1 DEF DividesExactly
<1>4. p.answer = ReadOff(p)
  BY <1>1 DEF ReadOff
<1>5. QED
  BY <1>1, <1>2, <1>3, <1>4 DEF IsFair, p

\* So is one of three operands, if what is divided divides.
LEMMA FairTriple ==
  ASSUME NEW a \in Int, NEW b \in Int, NEW c \in Int,
         NEW first \in {"*", "/"}, NEW second \in {"+", "-", "/"},
         NEW answer \in 0 .. MaxAnswer, answer = Apply(second, Apply(first, a, b), c),
         first = "/" => a % b = 0, second = "/" => (a * b) % c = 0
  PROVE  IsFair(Puzzle(<<a, b, c>>, <<first, second>>, answer))
<1> DEFINE p == Puzzle(<<a, b, c>>, <<first, second>>, answer)
<1>1. /\ p.operands[1] = a /\ p.operands[2] = b /\ p.operands[3] = c /\ p.answer = answer
      /\ p.ops = <<first, second>> /\ Len(p.ops) = 2 /\ DOMAIN p.ops = {1, 2}
      /\ p.ops[1] = first /\ p.ops[2] = second
  BY DEF Puzzle
<1> HIDE DEF p
<1>2. BindsFromTheLeft(p)
  BY <1>1 DEF BindsFromTheLeft
<1>3. DividesExactly(p)
  <2>1. ASSUME first = "/" PROVE p.operands[1] % p.operands[2] = 0
    BY <1>1, <2>1
  <2>2. ASSUME second = "/" PROVE (p.operands[1] * p.operands[2]) % p.operands[3] = 0
    BY <1>1, <2>2
  <2>3. QED
    BY <1>1, <2>1, <2>2 DEF DividesExactly
<1>4. p.answer = ReadOff(p)
  BY <1>1 DEF ReadOff
<1>5. QED
  BY <1>1, <1>2, <1>3, <1>4 DEF IsFair, p

\* Sums and differences of positive operands are fair.
LEMMA SumsAreFair ==
  ASSUME NEW draws \in SUBSET (1 .. MaxBound), NEW p \in Sums(draws)
  PROVE  IsFair(p)
<1>1. PICK op \in {"+", "-"}, a \in draws, b \in draws :
        p = IF op = "-" /\ b > a THEN Puzzle(<<b, a>>, <<op>>, b - a)
                                 ELSE Puzzle(<<a, b>>, <<op>>, Signed(op, a, b))
  BY DEF Sums
<1>2. a \in 1 .. MaxBound /\ b \in 1 .. MaxBound
  OBVIOUS
<1>3. CASE op = "-" /\ b > a
  <2>1. b - a \in 0 .. MaxAnswer
    BY <1>2, <1>3, Bounds
  <2>. b - a = Apply(op, b, a)
    BY <1>3 DEF Apply, Signed
  <2>2. QED
    BY <1>1, <1>2, <1>3, <2>1, FairPair
<1>4. CASE ~ (op = "-" /\ b > a)
  <2>1. Signed(op, a, b) \in 0 .. MaxAnswer
    BY <1>2, <1>4, Bounds DEF Signed
  <2>2. Signed(op, a, b) = Apply(op, a, b)
    BY DEF Apply
  <2>3. IsFair(Puzzle(<<a, b>>, <<op>>, Signed(op, a, b)))
    BY <1>2, <2>1, <2>2, FairPair
  <2>4. QED
    BY <1>1, <1>4, <2>3
<1>5. QED
  BY <1>3, <1>4

\* The product of two numbers up to 20 stays within what is drawn from.
LEMMA ProductBounded ==
  ASSUME NEW a \in 1 .. 20, NEW b \in 1 .. 20
  PROVE  a * b \in 1 .. MaxBound
BY Bounds

\* A product is fair.
LEMMA ProductsAreFair ==
  ASSUME NEW factors \in SUBSET (1 .. 20), NEW p \in Products(factors)
  PROVE  IsFair(p)
<1>1. PICK a \in factors, b \in factors : p = Puzzle(<<a, b>>, <<"*">>, a * b)
  BY DEF Products
<1>2. a \in 1 .. 20 /\ b \in 1 .. 20
  OBVIOUS
<1>3. a * b \in 0 .. MaxAnswer /\ a * b = Apply("*", a, b)
  BY <1>2, ProductBounded, Bounds DEF Apply
<1>4. QED
  BY <1>1, <1>2, <1>3, FairPair

\* A third operand keeps the answer from turning negative.
LEMMA SignedBounded ==
  ASSUME NEW op \in {"+", "-"}, NEW from \in 1 .. MaxBound, NEW c \in 1 .. MaxBound,
         op = "-" => c <= from
  PROVE  Signed(op, from, c) \in 0 .. MaxAnswer
BY Bounds DEF Signed

\* A product and a third operand are fair.
LEMMA ProductsAndThirdAreFair ==
  ASSUME NEW factors \in SUBSET (1 .. 20), NEW draws \in SUBSET (1 .. MaxBound),
         NEW p \in ProductsAndThird(factors, draws)
  PROVE  IsFair(p)
<1>1. PICK a \in factors, b \in factors, op \in {"+", "-"} :
        \E c \in Thirds(op, a * b, draws) :
          p = Puzzle(<<a, b, c>>, <<"*", op>>, Signed(op, a * b, c))
  BY DEF ProductsAndThird
<1>2. PICK c \in Thirds(op, a * b, draws) :
        p = Puzzle(<<a, b, c>>, <<"*", op>>, Signed(op, a * b, c))
  BY <1>1
<1>3. a \in 1 .. 20 /\ b \in 1 .. 20 /\ a * b \in 1 .. MaxBound
  BY ProductBounded
<1>4. c \in 1 .. MaxBound /\ (op = "-" => c <= a * b)
  BY <1>3, ThirdIsBearable
<1>5. Signed(op, a * b, c) \in 0 .. MaxAnswer
  BY <1>3, <1>4, SignedBounded
<1>6. Signed(op, a * b, c) = Apply(op, Apply("*", a, b), c)
  BY DEF Apply
<1>7. /\ a \in Int /\ b \in Int /\ c \in Int /\ "*" \in {"*", "/"} /\ op \in {"+", "-", "/"}
      /\ "*" # "/" /\ op # "/"
  BY <1>3, <1>4, Bounds
<1>8. QED
  BY <1>2, <1>5, <1>6, <1>7, FairTriple, Zenon

\* A product of a divisor and a quotient divides exactly.
LEMMA ExactQuotient ==
  ASSUME NEW b \in Nat \ {0}, NEW q \in Nat
  PROVE  (b * q) % b = 0 /\ (b * q) \div b = q /\ b * q \in Int
OBVIOUS

\* A quotient and a third operand are fair.
LEMMA QuotientsAndThirdAreFair ==
  ASSUME NEW p \in QuotientsAndThird
  PROVE  IsFair(p)
<1>1. PICK b \in RandInt(2, 12), q \in RandInt(2, 15), op \in {"+", "-"} :
        \E c \in Thirds(op, q, RandInt(1, 30)) :
          p = Puzzle(<<b * q, b, c>>, <<"/", op>>, Signed(op, q, c))
  BY DEF QuotientsAndThird
<1>2. PICK c \in Thirds(op, q, RandInt(1, 30)) :
        p = Puzzle(<<b * q, b, c>>, <<"/", op>>, Signed(op, q, c))
  BY <1>1
<1>3. b \in Nat \ {0} /\ q \in Nat /\ q \in 1 .. MaxBound
  BY DrawsMade, Bounds
<1>4. c \in 1 .. MaxBound /\ (op = "-" => c <= q)
  <2>1. RandInt(1, 30) \subseteq 1 .. MaxBound
    BY DrawsMade, Bounds
  <2>2. QED
    BY <1>3, <2>1, ThirdIsBearable
<1>5. Signed(op, q, c) \in 0 .. MaxAnswer
  BY <1>3, <1>4, SignedBounded
<1>6. (b * q) % b = 0 /\ (b * q) \div b = q /\ b * q \in Int
  BY <1>3, ExactQuotient
<1>7. Signed(op, q, c) = Apply(op, Apply("/", b * q, b), c)
  BY <1>6 DEF Apply
<1>8. /\ b \in Int /\ c \in Int /\ "/" \in {"*", "/"} /\ op \in {"+", "-", "/"} /\ op # "/"
  BY <1>3, <1>4, Bounds
<1>9. QED
  BY <1>2, <1>5, <1>6, <1>7, <1>8, FairTriple, Zenon

\* A quotient is no larger than what is divided.
LEMMA QuotientBounded ==
  ASSUME NEW n \in 1 .. MaxBound, NEW d \in 1 .. MaxBound
  PROVE  n \div d \in 0 .. MaxAnswer
BY Bounds

\* A product divided by a divisor is fair.
LEMMA ProductsDividedAreFair ==
  ASSUME NEW p \in ProductsDivided
  PROVE  IsFair(p)
<1>1. PICK a \in RandInt(3, 15), b \in RandInt(3, 15) :
        \E d \in PickDivisor(a * b) : p = Puzzle(<<a, b, d>>, <<"*", "/">>, (a * b) \div d)
  BY DEF ProductsDivided
<1>2. PICK d \in PickDivisor(a * b) : p = Puzzle(<<a, b, d>>, <<"*", "/">>, (a * b) \div d)
  BY <1>1
<1>3. a \in 1 .. 20 /\ b \in 1 .. 20 /\ a * b \in 1 .. MaxBound
  <2>1. a \in 1 .. 20 /\ b \in 1 .. 20
    BY DrawsMade
  <2>2. QED
    BY <2>1, ProductBounded
<1>4. d \in 1 .. MaxBound /\ (a * b) % d = 0
  <2> DEFINE n == a * b
  <2>1. n \in 1 .. MaxBound /\ n % 1 = 0
    BY <1>3
  <2>2. d \in PickDivisor(n)
    OBVIOUS
  <2> HIDE DEF n
  <2>3. d = 1 \/ (d \in 2 .. n /\ n % d = 0)
    BY <2>2 DEF PickDivisor
  <2>4. d \in 1 .. MaxBound /\ n % d = 0
    <3>1. CASE d = 1
      BY <2>1, <3>1, Bounds
    <3>2. CASE d \in 2 .. n /\ n % d = 0
      BY <2>1, <3>2, Bounds
    <3>3. QED
      BY <2>3, <3>1, <3>2
  <2>5. QED
    BY <2>4 DEF n
<1>5. (a * b) \div d \in 0 .. MaxAnswer
  BY <1>3, <1>4, QuotientBounded
<1>6. (a * b) \div d = Apply("/", Apply("*", a, b), d)
  BY DEF Apply
<1>7. /\ a \in Int /\ b \in Int /\ d \in Int /\ "*" \in {"*", "/"} /\ "/" \in {"+", "-", "/"}
      /\ "*" # "/"
  BY <1>3, <1>4, Bounds
<1>8. QED
  BY <1>2, <1>4, <1>5, <1>6, <1>7, FairTriple, Zenon

\* Whatever is drawn, at every level of difficulty, the puzzle has one whole answer that is
\* not negative, that a reader works out from what is shown, and that is accepted.
\* [missions.service.ts buildEasy, buildMedium, buildHard]
THEOREM EveryPuzzleIsFair ==
  \A d \in Difficulties : \A p \in BuildMathProblem(d) : IsFair(p)
<1>d. /\ RandInt(1, 20) \in SUBSET (1 .. MaxBound) /\ RandInt(5, 40) \in SUBSET (1 .. MaxBound)
      /\ RandInt(10, 60) \in SUBSET (1 .. MaxBound)
      /\ RandInt(2, 12) \in SUBSET (1 .. 20) /\ RandInt(6, 20) \in SUBSET (1 .. 20)
  BY DrawsMade, Bounds
<1>1. \A p \in BuildEasy : IsFair(p)
  BY <1>d, SumsAreFair, Zenon DEF BuildEasy
<1>2. \A p \in BuildMedium : IsFair(p)
  BY <1>d, SumsAreFair, ProductsAreFair, ProductsAndThirdAreFair, Zenon DEF BuildMedium
<1>3. \A p \in BuildHard : IsFair(p)
  BY <1>d, QuotientsAndThirdAreFair, ProductsDividedAreFair, ProductsAndThirdAreFair, Zenon DEF BuildHard
<1>4. QED
  BY <1>1, <1>2, <1>3 DEF BuildMathProblem, Difficulties

-----------------------------------------------------------------------------
(* The breaker                                                              *)

Breaker == GeminiTypeOK /\ TrippedByFailures

\* Setting a call's phase or its attempt makes a call.
LEMMA CallTyped ==
  ASSUME GeminiTypeOK, NEW c \in Callers, NEW s \in Phases, NEW a \in 0 .. MaxRetries
  PROVE  /\ [call EXCEPT ![c].phase = s] \in [Callers -> [phase : Phases, attempt : 0 .. MaxRetries]]
         /\ [call EXCEPT ![c] = [phase |-> s, attempt |-> a]]
              \in [Callers -> [phase : Phases, attempt : 0 .. MaxRetries]]
         /\ [call EXCEPT ![c] = NoCall] \in [Callers -> [phase : Phases, attempt : 0 .. MaxRetries]]
<1>1. call \in [Callers -> [phase : Phases, attempt : 0 .. MaxRetries]]
  BY DEF GeminiTypeOK
<1>2. [call[c] EXCEPT !.phase = s] \in [phase : Phases, attempt : 0 .. MaxRetries]
  BY <1>1
<1>3. NoCall \in [phase : Phases, attempt : 0 .. MaxRetries]
  BY GeminiAssumption DEF NoCall, Phases
<1>4. QED
  BY <1>1, <1>2, <1>3

\* The end of an execution keeps the breaker's state and counter in agreement.
LEMMA EndsAgree ==
  ASSUME Breaker, OnSuccess \/ OnFailure
  PROVE  /\ TrippedByFailures'
         /\ state' \in {"CLOSED", "OPEN", "HALF_OPEN"} /\ failureCount' \in 0 .. FailureThreshold
         /\ cooling' \in 0 .. Cooldown /\ hammered' \in Nat
<1> USE GeminiAssumption DEF Breaker, GeminiTypeOK, TrippedByFailures
<1>1. CASE OnSuccess
  BY <1>1 DEF OnSuccess
<1>2. CASE OnFailure
  BY <1>2 DEF OnFailure
<1>3. QED
  BY <1>1, <1>2

\* Every step of the client keeps the breaker.
LEMMA BreakerStep ==
  ASSUME Breaker, NEW c \in Callers, Execute(c) \/ GeminiStep(c)
  PROVE  Breaker'
<1> USE GeminiAssumption DEF Breaker
<1>1. CASE Reject(c)
  <2>1. "failed" \in Phases
    BY DEF Phases
  <2>2. QED
    BY <1>1, <2>1, CallTyped DEF Reject, breaker, GeminiTypeOK, TrippedByFailures
<1>2. CASE Admit(c)
  <2>1. "attempt" \in Phases
    BY DEF Phases
  <2>2. call' \in [Callers -> [phase : Phases, attempt : 0 .. MaxRetries]]
    BY <1>2, <2>1, CallTyped DEF Admit
  <2>3. QED
    BY <1>2, <2>2 DEF Admit, GeminiTypeOK, TrippedByFailures
<1>3. CASE Answered(c)
  <2>1. \E s \in Phases : call' = [call EXCEPT ![c].phase = s]
    BY <1>3 DEF Answered, Phases
  <2>2. call' \in [Callers -> [phase : Phases, attempt : 0 .. MaxRetries]]
    BY <2>1, CallTyped
  <2>3. QED
    BY <1>3, <2>2, EndsAgree DEF Answered, GeminiTypeOK
<1>4. CASE AttemptFails(c)
  <2>1. \E s \in Phases : call' = [call EXCEPT ![c].phase = s]
    BY <1>4 DEF AttemptFails, Phases
  <2>2. call' \in [Callers -> [phase : Phases, attempt : 0 .. MaxRetries]]
    BY <2>1, CallTyped
  <2>3. CASE OnFailure
    BY <2>2, <2>3, EndsAgree DEF GeminiTypeOK
  <2>4. CASE UNCHANGED <<breaker, hammered>>
    BY <2>2, <2>4 DEF breaker, GeminiTypeOK, TrippedByFailures
  <2>5. QED
    BY <1>4, <2>3, <2>4 DEF AttemptFails
<1>5. CASE Resend(c)
  <2>1. call[c].attempt \in 0 .. MaxRetries
    BY DEF GeminiTypeOK
  <2> DEFINE a == IF call[c].attempt < MaxRetries THEN call[c].attempt + 1 ELSE call[c].attempt
  <2>2. call' = [call EXCEPT ![c] = [phase |-> "attempt", attempt |-> a]]
    BY <1>5 DEF Resend
  <2>3. "attempt" \in Phases /\ a \in 0 .. MaxRetries
    BY <2>1 DEF Phases
  <2> HIDE DEF a
  <2>4. call' \in [Callers -> [phase : Phases, attempt : 0 .. MaxRetries]]
    BY <2>2, <2>3, CallTyped
  <2>5. QED
    BY <1>5, <2>4 DEF Resend, breaker, GeminiTypeOK, TrippedByFailures
<1>6. QED
  BY <1>1, <1>2, <1>3, <1>4, <1>5 DEF Execute, GeminiStep

\* What is left of the cooldown is not the breaker's state.
LEMMA CoolDownKeeps ==
  ASSUME Breaker, CoolDown
  PROVE  Breaker'
BY GeminiAssumption DEF Breaker, GeminiTypeOK, TrippedByFailures, CoolDown

\* The end of a request that had asked the model leaves the breaker as it is.
LEMMA CallReturned ==
  ASSUME Breaker, NEW h \in Callers, Detected(h) \/ Designed(h) \/ Unavailable(h)
  PROVE  Breaker'
<1>1. call' = [call EXCEPT ![h] = NoCall] /\ UNCHANGED <<breaker, hammered>>
  BY DEF Detected, Designed, Unavailable
<1>2. "none" \in Phases /\ 0 \in 0 .. MaxRetries
  BY GeminiAssumption DEF Phases
<1>3. call' \in [Callers -> [phase : Phases, attempt : 0 .. MaxRetries]]
  BY <1>1, <1>2, CallTyped DEF Breaker
<1>4. QED
  BY <1>1, <1>3 DEF breaker, Breaker, GeminiTypeOK, TrippedByFailures

\* Nothing but the client moves the breaker.
LEMMA OthersKeep ==
  ASSUME \/ \E h \in Callers : Math(h) \/ Sleep(h)
         \/ \E p \in Problems : Expire(p)
         \/ UNCHANGED vars
  PROVE  UNCHANGED geminiVars
BY DEF Math, GenerateMath, StoreAnswer, Get, Del, VerifyMath, Sleep, CreateHistory, FindNight,
       ReadRate, SaveNight, Expire, vars

\* Every step keeps the breaker.
LEMMA BreakerKept ==
  ASSUME Breaker, [Next]_vars
  PROVE  Breaker'
<1>1. ASSUME UNCHANGED geminiVars PROVE Breaker'
  BY <1>1 DEF geminiVars, Breaker, GeminiTypeOK, TrippedByFailures
<1>2. ASSUME NEW h \in Callers, Photo(h) PROVE Breaker'
  BY <1>2, BreakerStep, CallReturned DEF Photo, Ask, Model
<1>3. CASE Clock
  BY <1>3, CoolDownKeeps DEF Clock
<1>4. QED
  BY <1>1, <1>2, <1>3, OthersKeep DEF Next

\* However calls and their retries interleave, also when one admitted before the breaker opened
\* ends after it: the breaker is closed exactly while fewer executions in a row failed than the
\* threshold.  [circuit-breaker.ts onSuccess, onFailure]
THEOREM BreakerTripsByFailures == Spec => []TrippedByFailures
<1>1. Init => Breaker
  BY GeminiAssumption DEF Init, GeminiInit, Breaker, GeminiTypeOK, TrippedByFailures, NoCall, Phases
<1>2. Breaker /\ [Next]_vars => Breaker'
  BY BreakerKept
<1>3. QED
  BY <1>1, <1>2, PTL DEF Spec, Breaker
-----------------------------------------------------------------------------
(* Attempts through an open breaker                                         *)

Trying == {"attempt", "backoff"}
Limit  == (Cardinality(Callers) - 1) * MaxRetries

\* The retries that the calls under way may still send: nobody is let in while the breaker is open,
\* so each one that is sent is one less.
Left == {r \in Callers \X (1 .. MaxRetries) :
           call[r[1]].phase \in Trying /\ r[2] > call[r[1]].attempt}

Hammering == /\ hammered <= Limit
             /\ state = "OPEN" => hammered + Cardinality(Left) <= Limit
             /\ \A c \in Callers : call[c].phase = "backoff" => call[c].attempt < MaxRetries

\* The limit is a number, and the retries left are finitely many.
LEMMA LimitIsNumber == Limit \in Nat /\ IsFiniteSet(Left) /\ Cardinality(Left) \in Nat
<1>1. Cardinality(Callers) \in Nat /\ Cardinality(Callers) # 0
  BY GeminiAssumption, FS_CardinalityType, FS_EmptySet
<1>2. Limit \in Nat
  BY <1>1, GeminiAssumption DEF Limit
<1>3. IsFiniteSet(Callers \X (1 .. MaxRetries))
  <2>1. IsFiniteSet(1 .. MaxRetries)
    BY GeminiAssumption, FS_Interval
  <2>2. QED
    BY <2>1, GeminiAssumption, FS_Product
<1>4. IsFiniteSet(Left)
  BY <1>3, FS_Subset DEF Left
<1>5. QED
  BY <1>2, <1>4, FS_CardinalityType

\* The calls but one have at most the limit of retries left.
LEMMA OthersLeft ==
  ASSUME NEW c \in Callers, NEW S, S \subseteq (Callers \ {c}) \X (1 .. MaxRetries)
  PROVE  IsFiniteSet(S) /\ Cardinality(S) \in Nat /\ Cardinality(S) <= Limit
<1>1. /\ IsFiniteSet(Callers \ {c}) /\ Cardinality(Callers \ {c}) = Cardinality(Callers) - 1
  BY GeminiAssumption, FS_RemoveElement
<1>2. IsFiniteSet(1 .. MaxRetries) /\ Cardinality(1 .. MaxRetries) = MaxRetries
  BY GeminiAssumption, FS_Interval
<1>3. /\ IsFiniteSet((Callers \ {c}) \X (1 .. MaxRetries))
      /\ Cardinality((Callers \ {c}) \X (1 .. MaxRetries)) = Limit
  BY <1>1, <1>2, FS_Product DEF Limit
<1>4. QED
  BY <1>3, FS_Subset, FS_CardinalityType

\* A step that sends nothing, opens nothing and leaves no call more retries keeps the bound.
LEMMA FewerLeft ==
  ASSUME Hammering, hammered \in Nat, hammered' = hammered, state' = "OPEN" => state = "OPEN" /\ Left' \subseteq Left,
         \A c \in Callers : call'[c].phase = "backoff" => call'[c].attempt < MaxRetries
  PROVE  Hammering'
<1>1. CASE state' = "OPEN"
  <2>1. Cardinality(Left') <= Cardinality(Left) /\ Cardinality(Left') \in Nat
    BY <1>1, LimitIsNumber, FS_Subset, FS_CardinalityType
  <2>2. hammered + Cardinality(Left) <= Limit
    BY <1>1 DEF Hammering
  <2>3. hammered' + Cardinality(Left') <= Limit
    BY <2>1, <2>2, LimitIsNumber
  <2>4. QED
    BY <2>3 DEF Hammering, Limit
<1>2. CASE state' # "OPEN"
  BY <1>2 DEF Hammering, Limit
<1>3. QED
  BY <1>1, <1>2

\* A call that changes its phase alone has no more retries left, and none once it is over.
LEMMA PhaseLeft ==
  ASSUME Breaker, NEW c \in Callers, NEW s, call' = [call EXCEPT ![c].phase = s],
         call[c].phase \in Trying \/ s \notin Trying
  PROVE  /\ Left' \subseteq Left
         /\ s \notin Trying => Left' \subseteq (Callers \ {c}) \X (1 .. MaxRetries)
         /\ \A d \in Callers \ {c} : call'[d] = call[d]
         /\ call'[c].phase = s /\ call'[c].attempt = call[c].attempt
<1>1. call \in [Callers -> [phase : Phases, attempt : 0 .. MaxRetries]]
  BY DEF Breaker, GeminiTypeOK
<1>2. /\ \A d \in Callers \ {c} : call'[d] = call[d]
      /\ call'[c].phase = s /\ call'[c].attempt = call[c].attempt
  BY <1>1
<1>3. ASSUME NEW r \in Left'
      PROVE  r \in Left /\ (s \notin Trying => r[1] # c)
  <2>1. r \in Callers \X (1 .. MaxRetries) /\ call'[r[1]].phase \in Trying /\ r[2] > call'[r[1]].attempt
    BY <1>3 DEF Left
  <2>2. r[1] \in Callers
    BY <2>1
  <2>3. QED
    BY <1>2, <2>1, <2>2 DEF Left
<1>4. Left' \subseteq Callers \X (1 .. MaxRetries)
  BY DEF Left
<1>5. QED
  BY <1>2, <1>3, <1>4

\* Every step of the client keeps the bound on what an open breaker lets through.
LEMMA HammeringStep ==
  ASSUME Breaker, Hammering, NEW c \in Callers, Execute(c) \/ GeminiStep(c)
  PROVE  Hammering'
<1>0. /\ call \in [Callers -> [phase : Phases, attempt : 0 .. MaxRetries]]
      /\ hammered \in Nat /\ MaxRetries \in Nat
  BY GeminiAssumption DEF Breaker, GeminiTypeOK
<1>1. CASE Reject(c)
  BY <1>0, <1>1, PhaseLeft, FewerLeft DEF Reject, breaker, Trying, Hammering
<1>2. CASE Admit(c)
  <2>1. call[c].attempt < MaxRetries \/ call'[c].phase # "backoff"
    BY <1>0, <1>2 DEF Admit
  <2>2. \A d \in Callers : call'[d].phase = "backoff" => call'[d].attempt < MaxRetries
    BY <1>0, <1>2 DEF Admit, Hammering
  <2>3. QED
    BY <1>0, <1>2, <2>2, FewerLeft DEF Admit
<1>3. CASE Answered(c)
  <2>1. \A d \in Callers : call'[d].phase = "backoff" => call'[d].attempt < MaxRetries
    BY <1>0, <1>3 DEF Answered, Hammering
  <2>2. QED
    BY <1>0, <1>3, <2>1, FewerLeft DEF Answered, OnSuccess
<1>4. CASE AttemptFails(c)
  <2>1. CASE call[c].attempt < MaxRetries /\ call' = [call EXCEPT ![c].phase = "backoff"]
             /\ UNCHANGED <<breaker, hammered>>
    BY <1>0, <1>4, <2>1, PhaseLeft, FewerLeft DEF AttemptFails, breaker, Trying, Hammering
  <2>2. CASE call' = [call EXCEPT ![c].phase = "failed"] /\ OnFailure
    <3>1. /\ Left' \subseteq Left /\ Left' \subseteq (Callers \ {c}) \X (1 .. MaxRetries)
          /\ \A d \in Callers : call'[d].phase = "backoff" => call'[d].attempt < MaxRetries
      <4>1. "failed" \notin Trying /\ call[c].phase \in Trying
        BY <1>4 DEF AttemptFails, Trying
      <4>2. /\ Left' \subseteq Left /\ Left' \subseteq (Callers \ {c}) \X (1 .. MaxRetries)
            /\ \A d \in Callers \ {c} : call'[d] = call[d]
            /\ call'[c].phase = "failed"
        BY <2>2, <4>1, PhaseLeft
      <4>3. QED
        BY <4>2 DEF Hammering
    <3>2. CASE hammered' = hammered /\ (state' = "OPEN" => state = "OPEN")
      BY <1>0, <3>1, <3>2, FewerLeft
    <3>3. CASE hammered' = 0
      BY <3>1, <3>3, OthersLeft, LimitIsNumber DEF Hammering, Limit
    <3>4. QED
      BY <2>2, <3>2, <3>3 DEF OnFailure
  <2>3. QED
    BY <1>4, <2>1, <2>2 DEF AttemptFails
<1>5. CASE Resend(c)
  <2>1. /\ call[c].phase = "backoff" /\ call[c].attempt < MaxRetries
        /\ call' = [call EXCEPT ![c] = [phase |-> "attempt", attempt |-> call[c].attempt + 1]]
    BY <1>5 DEF Resend, Hammering
  <2> DEFINE r == <<c, call[c].attempt + 1>>
  <2>2. /\ \A d \in Callers \ {c} : call'[d] = call[d]
        /\ call'[c].phase = "attempt" /\ call'[c].attempt = call[c].attempt + 1
    BY <1>0, <2>1
  <2>3. r \in Left
    BY <1>0, <2>1 DEF Left, Trying
  <2>4. Left' \subseteq Left \ {r}
    <3>1. SUFFICES ASSUME NEW q \in Left' PROVE q \in Left /\ q # r
      OBVIOUS
    <3>2. /\ q \in Callers \X (1 .. MaxRetries)
          /\ call'[q[1]].phase \in Trying /\ q[2] > call'[q[1]].attempt
      BY <3>1 DEF Left
    <3>3. q[1] \in Callers /\ q[2] \in Int
      BY <3>2
    <3>4. CASE q[1] = c
      <4>1. q[2] > call[c].attempt + 1
        BY <2>2, <3>2, <3>4
      <4>2. q[2] > call[c].attempt /\ q # r
        BY <1>0, <3>3, <4>1
      <4>3. QED
        BY <2>1, <3>2, <3>4, <4>2 DEF Left, Trying
    <3>5. CASE q[1] # c
      BY <2>2, <3>2, <3>3, <3>5 DEF Left
    <3>6. QED
      BY <3>4, <3>5
  <2>5. \A d \in Callers : call'[d].phase = "backoff" => call'[d].attempt < MaxRetries
    BY <2>2 DEF Hammering
  <2>6. CASE state = "OPEN"
    <3>1. /\ IsFiniteSet(Left \ {r}) /\ Cardinality(Left \ {r}) = Cardinality(Left) - 1
      BY <2>3, LimitIsNumber, FS_RemoveElement
    <3>2. Cardinality(Left') \in Nat /\ Cardinality(Left') <= Cardinality(Left) - 1
      BY <2>4, <3>1, FS_Subset, FS_CardinalityType
    <3>3. hammered' = hammered + 1 /\ state' = state
      BY <1>5, <2>6 DEF Resend, breaker
    <3>4. hammered + Cardinality(Left) <= Limit
      BY <2>6 DEF Hammering
    <3> HIDE DEF r
    <3>5. hammered' + Cardinality(Left') <= Limit /\ hammered' <= Limit
      BY <1>0, <3>2, <3>3, <3>4, LimitIsNumber
    <3>6. QED
      BY <2>5, <3>5 DEF Hammering, Limit
  <2>7. CASE state # "OPEN"
    BY <1>0, <1>5, <2>5, <2>7, FewerLeft DEF Resend, breaker
  <2>8. QED
    BY <2>6, <2>7
<1>6. QED
  BY <1>1, <1>2, <1>3, <1>4, <1>5 DEF Execute, GeminiStep

\* However many calls the breaker had let in when it opened: what is sent through it while it is
\* open are their retries, and never those of the call that opened it.
\* [circuit-breaker.ts, gemini.service.ts withRetries]
THEOREM RetriesAreBounded == Spec => []HammeringBounded
<1>1. Init => Breaker /\ Hammering
  <2>1. Init => Breaker
    BY GeminiAssumption DEF Init, GeminiInit, Breaker, GeminiTypeOK, TrippedByFailures, NoCall, Phases
  <2>2. Init => Hammering
    BY LimitIsNumber DEF Init, GeminiInit, Hammering, NoCall
  <2>3. QED
    BY <2>1, <2>2
<1>2. ASSUME Breaker /\ Hammering, [Next]_vars PROVE (Breaker /\ Hammering)'
  <2>1. Breaker'
    BY <1>2, BreakerKept
  <2>2. ASSUME call' = call, hammered' = hammered, state' = state PROVE Hammering'
    BY <1>2, <2>2 DEF Hammering, Left, Limit
  <2>3. ASSUME NEW h \in Callers, Photo(h) PROVE Hammering'
    <3>1. CASE Ask(h) \/ Model(h)
      BY <1>2, <3>1, HammeringStep DEF Ask, Model
    <3>2. CASE Detected(h) \/ Designed(h) \/ Unavailable(h)
      <4>1. call' = [call EXCEPT ![h] = NoCall] /\ UNCHANGED <<breaker, hammered>>
        BY <3>2 DEF Detected, Designed, Unavailable
      <4>2. call \in [Callers -> [phase : Phases, attempt : 0 .. MaxRetries]] /\ hammered \in Nat
        BY <1>2 DEF Breaker, GeminiTypeOK
      <4>3. \A d \in Callers : call'[d] = call[d] \/ call'[d].phase = "none"
        BY <4>1, <4>2 DEF NoCall
      <4>4. Left' \subseteq Left
        <5>1. SUFFICES ASSUME NEW r \in Left' PROVE r \in Left
          OBVIOUS
        <5>2. /\ r \in Callers \X (1 .. MaxRetries)
              /\ call'[r[1]].phase \in Trying /\ r[2] > call'[r[1]].attempt
          BY <5>1 DEF Left
        <5>3. r[1] \in Callers
          BY <5>2
        <5>4. QED
          BY <4>3, <5>2, <5>3 DEF Left, Trying
      <4>5. \A d \in Callers : call'[d].phase = "backoff" => call'[d].attempt < MaxRetries
        BY <1>2, <4>3 DEF Hammering
      <4>6. QED
        BY <1>2, <4>1, <4>2, <4>4, <4>5, FewerLeft DEF breaker
    <3>3. QED
      BY <2>3, <3>1, <3>2 DEF Photo
  <2>4. ASSUME Clock PROVE Hammering'
    <3>1. call' = call /\ hammered' = hammered /\ state' = state
      BY <2>4 DEF Clock, CoolDown
    <3>2. QED
      BY <2>2, <3>1
  <2>5. QED
    BY <1>2, <2>1, <2>2, <2>3, <2>4, OthersKeep DEF Next, geminiVars
<1>3. Hammering => HammeringBounded
  BY DEF Hammering, HammeringBounded, Limit
<1>4. QED
  BY <1>1, <1>2, <1>3, PTL DEF Spec

-----------------------------------------------------------------------------
(* Types                                                                    *)

\* Every draw is of a fair puzzle.
LEMMA DrawnIsFair ==
  ASSUME NEW fair \in Drawn
  PROVE  fair /\ fair \in BOOLEAN
<1>1. PICK d \in Difficulties : \E p \in BuildMathProblem(d) : fair = IsFair(p)
  BY DEF Drawn
<1>2. PICK p \in BuildMathProblem(d) : fair = IsFair(p)
  BY <1>1
<1>3. IsFair(p) /\ IsFair(p) \in BOOLEAN
  BY EveryPuzzleIsFair, Zenon DEF IsFair
<1>4. QED
  BY <1>2, <1>3, Zenon

\* What a request that is at its problem or at its report holds.
LEMMA Holding ==
  ASSUME NEW r \in Requests
  PROVE  /\ r.op = "generate" => r.id \in Problems
         /\ r.op \in {"get", "del"} => r.id \in Problems /\ r = [op |-> r.op, id |-> r.id]
         /\ r.op = "rate" => r.row \in Nights \cup {NoNight} /\ r.report \in Reports
         /\ r.op = "save" => /\ r.row \in Nights \cup {NoNight} /\ r.report \in Reports
                              /\ r.save \in Nights
BY DEF Requests, Idle

\* A save differs from the row it loaded in what its report says and in a derived duration.
SaveKeeps(save, row, report) ==
  \A f \in Fields : \/ f \in Says[report]
                    \/ save.known[f] = row.known[f]
                    \/ f = "duration" /\ save.known[f] = "derived"

\* What a report makes of a row is a night's fields, and differs from the row in what it says and
\* in a derived duration.
LEMMA ToldKeeps ==
  ASSUME NEW row \in Nights \cup {NoNight}, NEW report \in Reports
  PROVE  /\ Told(row, report) \in [Fields -> Values]
         /\ \A f \in Fields : \/ f \in Says[report]
                              \/ Told(row, report)[f] = row.known[f]
                              \/ f = "duration" /\ Told(row, report)[f] = "derived"
<1> DEFINE told == [f \in Fields |-> IF f \in Says[report] THEN report ELSE row.known[f]]
<1>1. row.known \in [Fields -> Values] /\ report \in Values /\ "derived" \in Values
  BY DEF Nights, NoNight, Values
<1>2. told \in [Fields -> Values] /\ [told EXCEPT !["duration"] = "derived"] \in [Fields -> Values]
  BY <1>1
<1>3. \A f \in Fields : f \in Says[report] \/ told[f] = row.known[f]
  OBVIOUS
<1>4. Told(row, report) = told \/ Told(row, report) = [told EXCEPT !["duration"] = "derived"]
  BY DEF Told
<1> HIDE DEF told
<1>5. QED
  BY <1>2, <1>3, <1>4

Counts == {r \in [success : 0 .. MaxRows, total : 0 .. MaxRows] : r.success <= r.total}

\* A recorded attempt keeps the counts in order.
LEMMA RowCounted ==
  ASSUME history \in Counts, NEW status \in Statuses, AddRow(status)
  PROVE  history' \in Counts
<1>1. /\ history.success \in Nat /\ history.total \in Nat
      /\ history.success <= history.total /\ history.total < MaxRows
  BY MissionAssumption DEF Counts, AddRow
<1> DEFINE more == history.success + IF status = "success" THEN 1 ELSE 0
<1>2. more \in 0 .. MaxRows /\ history.total + 1 \in 0 .. MaxRows /\ more <= history.total + 1
  BY <1>1, MissionAssumption
<1>3. history' = [success |-> more, total |-> history.total + 1]
  BY DEF AddRow
<1> HIDE DEF more
<1>4. QED
  BY <1>2, <1>3 DEF Counts

\* The rate a report reads is one of the rates, and what it is going to save keeps the row.
LEMMA RateRead ==
  ASSUME TypeOK, NEW h \in Callers, ReadRate(h)
  PROVE  /\ req' \in [Callers -> Requests]
         /\ req'[h].op = "save" /\ SaveKeeps(req'[h].save, req'[h].row, req'[h].report)
         /\ \E r \in Requests : req' = [req EXCEPT ![h] = r] /\ r.op = "save"
         /\ \A g \in Callers \ {h} : req'[g] = req[g]
<1> DEFINE row  == req[h].row
           rate == IF history.total > 0 THEN <<history.success, history.total>>
                   ELSE IF row = NoNight THEN NoRate ELSE row.rate
           report == req[h].report
           told == Told(row, report)
           next == [op |-> "save", row |-> row, report |-> report,
                    save |-> [known |-> told, rate |-> rate]]
<1>1. row \in Nights \cup {NoNight} /\ report \in Reports
  BY Holding DEF ReadRate, TypeOK
<1>2. told \in [Fields -> Values] /\ SaveKeeps([known |-> told, rate |-> rate], row, report)
  BY <1>1, ToldKeeps DEF SaveKeeps
<1>3. rate \in Rates \cup {NoRate}
  <2>1. CASE history.total > 0
    <3>1. history \in Counts
      BY DEF TypeOK, Counts
    <3>2. history.success \in 0 .. MaxRows /\ history.total \in 1 .. MaxRows /\ history.success <= history.total
      BY <2>1, <3>1, MissionAssumption DEF Counts
    <3>3. <<history.success, history.total>> \in Rates
      BY <3>2 DEF Rates
    <3>4. QED
      BY <2>1, <3>3
  <2>2. CASE ~ history.total > 0 /\ row = NoNight
    BY <2>2
  <2>3. CASE ~ history.total > 0 /\ row # NoNight
    BY <1>1, <2>3 DEF Nights
  <2>4. QED
    BY <2>1, <2>2, <2>3
<1>4. req' = [req EXCEPT ![h] = next]
  BY DEF ReadRate
<1> HIDE DEF row, rate, told, report
<1>5. [known |-> told, rate |-> rate] \in Nights
  BY <1>2, <1>3 DEF Nights
<1>6. next \in Requests
  BY <1>1, <1>5 DEF Requests
<1>7. req \in [Callers -> Requests]
  BY DEF TypeOK
<1>8. req'[h] = next
  BY <1>4, <1>7
<1>9. /\ next.op = "save" /\ next.row = row /\ next.report = report
      /\ next.save = [known |-> told, rate |-> rate]
  OBVIOUS
<1> HIDE DEF next
<1>10. QED
  BY <1>2, <1>4, <1>6, <1>7, <1>8, <1>9

\* Every step keeps the types.
LEMMA TypeStep ==
  ASSUME TypeOK, Breaker', [Next]_vars
  PROVE  TypeOK'
<1> USE DEF TypeOK, Answer
<1>g. GeminiTypeOK'
  BY DEF Breaker
<1>i. Idle \in Requests /\ [op |-> "ask"] \in Requests
  BY DEF Requests
<1>n. history \in Counts
  BY DEF Counts
<1>1. ASSUME NEW h \in Callers, Photo(h) PROVE TypeOK'
  <2>1. CASE Ask(h)
    BY <2>1, <1>g, <1>i DEF Ask
  <2>2. CASE Model(h)
    BY <2>2, <1>g DEF Model, missionVars
  <2>3. CASE Detected(h)
    <3>1. UNCHANGED history \/ \E status \in Statuses : AddRow(status)
      BY <2>3 DEF Detected, Statuses
    <3>2. history' \in Counts
      BY <3>1, <1>n, RowCounted
    <3>3. QED
      BY <2>3, <3>2, <1>g, <1>i DEF Detected, Counts
  <2>4. CASE Designed(h) \/ Unavailable(h)
    BY <2>4, <1>g, <1>i DEF Designed, Unavailable
  <2>5. QED
    BY <1>1, <2>1, <2>2, <2>3, <2>4 DEF Photo
<1>2. ASSUME NEW h \in Callers, Math(h) PROVE TypeOK'
  <2>1. CASE GenerateMath(h)
    <3>1. PICK p \in Problems, fair \in Drawn :
            req' = [req EXCEPT ![h] = [op |-> "generate", id |-> p, fair |-> fair]]
      BY <2>1 DEF GenerateMath
    <3>2. [op |-> "generate", id |-> p, fair |-> fair] \in Requests
      BY DrawnIsFair DEF Requests
    <3>3. QED
      BY <2>1, <3>1, <3>2, <1>g DEF GenerateMath
  <2>2. CASE StoreAnswer(h)
    BY <2>2, <1>g, <1>i DEF StoreAnswer
  <2>3. CASE Get(h)
    <3>1. req[h].op = "get" => [req[h] EXCEPT !.op = "del"] = [op |-> "del", id |-> req[h].id]
      BY Holding
    <3>2. [req[h] EXCEPT !.op = "del"] \in Requests
      BY <2>3, <3>1, Holding DEF Get, Requests
    <3>3. QED
      BY <2>3, <3>2, <1>g, <1>i DEF Get
  <2>4. CASE Del(h)
    <3>1. req[h].id \in Problems
      BY <2>4, Holding DEF Del
    <3>2. QED
      BY <2>4, <3>1, <1>g, <1>i DEF Del, Consume
  <2>5. ASSUME NEW p \in Problems, VerifyMath(h, p) PROVE TypeOK'
    <3>1. [op |-> "get", id |-> p] \in Requests
      BY DEF Requests
    <3>2. judged' \in [Problems -> Nat]
      BY <2>5 DEF VerifyMath, Compare
    <3>3. QED
      BY <2>5, <3>1, <3>2, <1>g, <1>i DEF VerifyMath, Consume
  <2>6. QED
    BY <1>2, <2>1, <2>2, <2>3, <2>4, <2>5 DEF Math
<1>3. ASSUME NEW h \in Callers, Sleep(h) PROVE TypeOK'
  <2>1. CASE CreateHistory(h)
    <3>1. history' \in Counts
      BY <2>1, <1>n, RowCounted DEF CreateHistory
    <3>2. QED
      BY <2>1, <3>1, <1>g DEF CreateHistory, Counts
  <2>2. CASE FindNight(h)
    BY <2>2, <1>g DEF FindNight, Requests
  <2>3. CASE ReadRate(h)
    BY <2>3, <1>g, RateRead DEF ReadRate
  <2>4. CASE SaveNight(h)
    BY <2>4, <1>g, <1>i, Holding DEF SaveNight
  <2>5. QED
    BY <1>3, <2>1, <2>2, <2>3, <2>4 DEF Sleep
<1>4. ASSUME NEW p \in Problems, Expire(p) PROVE TypeOK'
  BY <1>4, <1>g DEF Expire
<1>5. CASE Clock \/ UNCHANGED vars
  BY <1>5, <1>g DEF Clock, missionVars, vars
<1>6. QED
  BY <1>1, <1>2, <1>3, <1>4, <1>5 DEF Next

\* The first state has the types.
LEMMA TypeInit == Init => TypeOK
<1> SUFFICES ASSUME Init PROVE TypeOK
  OBVIOUS
<1>1. GeminiTypeOK
  BY GeminiAssumption DEF Init, GeminiInit, GeminiTypeOK, NoCall, Phases
<1>2. Idle \in Requests
  BY DEF Requests
<1>3. [success |-> 0, total |-> 0] \in [success : 0 .. MaxRows, total : 0 .. MaxRows]
  BY MissionAssumption
<1>4. QED
  BY <1>1, <1>2, <1>3 DEF Init, TypeOK

\* The requests, the problems, the history and the night hold what the code can put there: no
\* step of any of the requests leaves the types.  [missions.service.ts, sleep.service.ts,
\* object-detection.service.ts]
THEOREM TypeCorrect == Spec => []TypeOK
<1>1. Init => TypeOK /\ Breaker
  BY TypeInit, GeminiAssumption
     DEF Init, GeminiInit, Breaker, GeminiTypeOK, TrippedByFailures, NoCall, Phases, TypeOK
<1>2. TypeOK /\ Breaker /\ [Next]_vars => (TypeOK /\ Breaker)'
  BY TypeStep, BreakerKept
<1>3. QED
  BY <1>1, <1>2, PTL DEF Spec

-----------------------------------------------------------------------------
(* Math problems                                                            *)

\* Only a request for a puzzle begins to hold one, only a report that read the rate a save.
LEMMA ReqMoves ==
  ASSUME TypeOK, [Next]_vars
  PROVE  \/ UNCHANGED req
         \/ \E h \in Callers : GenerateMath(h) \/ ReadRate(h)
         \/ \E h \in Callers, r \in Requests : req' = [req EXCEPT ![h] = r] /\ r.op \notin {"generate", "save"}
<1> DEFINE Goal == \E h \in Callers, r \in Requests : req' = [req EXCEPT ![h] = r] /\ r.op \notin {"generate", "save"}
<1>i. Idle \in Requests /\ Idle.op \notin {"generate", "save"}
  BY DEF Requests, Idle
<1>1. ASSUME NEW h \in Callers, Answer(h) PROVE Goal
  BY <1>1, <1>i DEF Answer
<1>2. ASSUME NEW h \in Callers, Photo(h) PROVE UNCHANGED req \/ Goal
  <2>1. [op |-> "ask"] \in Requests
    BY DEF Requests
  <2>2. CASE Ask(h)
    BY <2>1, <2>2 DEF Ask
  <2>3. CASE Model(h)
    BY <2>3 DEF Model, missionVars
  <2>4. CASE Detected(h) \/ Designed(h) \/ Unavailable(h)
    BY <2>4, <1>1 DEF Detected, Designed, Unavailable
  <2>5. QED
    BY <1>2, <2>2, <2>3, <2>4 DEF Photo
<1>3. ASSUME NEW h \in Callers, Math(h) PROVE GenerateMath(h) \/ Goal
  <2>1. CASE StoreAnswer(h) \/ Del(h)
    BY <2>1, <1>1 DEF StoreAnswer, Del
  <2>2. CASE Get(h)
    <3>1. CASE Answer(h)
      BY <3>1, <1>1
    <3>2. CASE req' = [req EXCEPT ![h].op = "del"]
      <4>1. [req[h] EXCEPT !.op = "del"] = [op |-> "del", id |-> req[h].id] /\ req[h].id \in Problems
        BY <2>2, Holding DEF Get, TypeOK
      <4>2. [op |-> "del", id |-> req[h].id] \in Requests
        BY <4>1 DEF Requests
      <4>3. QED
        BY <3>2, <4>1, <4>2
    <3>3. QED
      BY <2>2, <3>1, <3>2 DEF Get
  <2>3. ASSUME NEW p \in Problems, VerifyMath(h, p) PROVE Goal
    <3>1. [op |-> "get", id |-> p] \in Requests
      BY DEF Requests
    <3>2. QED
      BY <2>3, <3>1, <1>1 DEF VerifyMath
  <2>4. QED
    BY <1>3, <2>1, <2>2, <2>3 DEF Math
<1>4. ASSUME NEW h \in Callers, Sleep(h) PROVE UNCHANGED req \/ ReadRate(h) \/ Goal
  <2>1. CASE CreateHistory(h)
    BY <2>1 DEF CreateHistory
  <2>2. CASE FindNight(h)
    <3>1. PICK report \in Reports : req' = [req EXCEPT ![h] = [op |-> "rate", row |-> night, report |-> report]]
      BY <2>2 DEF FindNight
    <3>2. [op |-> "rate", row |-> night, report |-> report] \in Requests
      BY DEF Requests, TypeOK
    <3>3. QED
      BY <3>1, <3>2
  <2>3. CASE SaveNight(h)
    BY <2>3, <1>1 DEF SaveNight
  <2>4. QED
    BY <1>4, <2>1, <2>2, <2>3 DEF Sleep
<1>5. CASE (\E p \in Problems : Expire(p)) \/ Clock \/ UNCHANGED vars
  BY <1>5 DEF Expire, Clock, missionVars, vars
<1>6. QED
  BY <1>2, <1>3, <1>4, <1>5 DEF Next

\* Whatever the draws, the puzzle that a request shows has one whole answer that is accepted.
\* [missions.service.ts buildEasy, buildMedium, buildHard]
THEOREM PuzzlesShownAreFair == Spec => []PuzzleIsFair
<1>1. Init => PuzzleIsFair
  BY DEF Init, PuzzleIsFair, Idle
<1>2. ASSUME TypeOK, PuzzleIsFair, [Next]_vars PROVE PuzzleIsFair'
  <2>0. req \in [Callers -> Requests]
    BY <1>2 DEF TypeOK
  <2>1. ASSUME NEW h \in Callers, GenerateMath(h) PROVE PuzzleIsFair'
    <3>1. PICK p \in Problems, fair \in Drawn :
            req' = [req EXCEPT ![h] = [op |-> "generate", id |-> p, fair |-> fair]]
      BY <2>1 DEF GenerateMath
    <3>2. fair
      BY DrawnIsFair
    <3>3. QED
      BY <1>2, <2>0, <3>1, <3>2 DEF PuzzleIsFair
  <2>2. ASSUME NEW h \in Callers, NEW r \in Requests, req' = [req EXCEPT ![h] = r], r.op # "generate"
        PROVE  PuzzleIsFair'
    BY <1>2, <2>0, <2>2 DEF PuzzleIsFair
  <2>3. ASSUME UNCHANGED req PROVE PuzzleIsFair'
    BY <1>2, <2>3 DEF PuzzleIsFair
  <2>4. QED
    BY <1>2, <2>1, <2>2, <2>3, ReqMoves, RateRead
<1>3. QED
  BY <1>1, <1>2, TypeCorrect, PTL DEF Spec

(* A problem is judged while its answer is in Redis, or by a request that  *)
(* is between GET and DEL.                                                 *)
Unique    == \A h, g \in Callers : /\ req[h].op = "generate" /\ req[g].op = "generate"
                                   /\ req[h].id = req[g].id
                                   => h = g
Unstored  == \A h \in Callers : req[h].op = "generate" => problem[req[h].id] = "new"
Fallen    == \A h \in Callers : req[h].op \in {"get", "del"}
                                   => req[h].id \in fellBack /\ problem[req[h].id] # "new"
Untouched == \A p \in Problems \ fellBack : /\ judged[p] <= 1
                                            /\ problem[p] \in {"new", "stored"} => judged[p] = 0
Lifecycle == Unique /\ Unstored /\ Fallen /\ Untouched

\* A step that moves no problem, and no request to one, keeps its lifecycle.
LEMMA LifecycleElsewhere ==
  ASSUME TypeOK, Lifecycle, UNCHANGED <<problem, judged, fellBack>>, NEW h \in Callers,
         \/ UNCHANGED req
         \/ \E r : req' = [req EXCEPT ![h] = r] /\ r.op \notin {"generate", "get", "del"}
  PROVE  Lifecycle'
<1>0. req \in [Callers -> Requests]
  BY DEF TypeOK
<1>1. CASE UNCHANGED req
  BY <1>1 DEF Lifecycle, Unique, Unstored, Fallen, Untouched
<1>2. ASSUME NEW r, req' = [req EXCEPT ![h] = r], r.op \notin {"generate", "get", "del"}
      PROVE  Lifecycle'
  <2>1. \A g \in Callers : req'[g] = IF g = h THEN r ELSE req[g]
    BY <1>0, <1>2
  <2>2. Unique' /\ Unstored' /\ Fallen'
    BY <1>2, <2>1 DEF Lifecycle, Unique, Unstored, Fallen
  <2>3. QED
    BY <2>2 DEF Lifecycle, Untouched
<1>3. QED
  BY <1>1, <1>2

\* The steps of the math missions keep a problem's lifecycle.
LEMMA MathLifecycle ==
  ASSUME TypeOK, Lifecycle, NEW h \in Callers, Math(h)
  PROVE  Lifecycle'
<1> USE DEF Lifecycle
<1>0. /\ req \in [Callers -> Requests] /\ judged \in [Problems -> Nat]
      /\ problem \in [Problems -> {"new", "stored", "gone"}]
  BY DEF TypeOK
<1>1. CASE GenerateMath(h)
  <2>1. PICK p \in Problems, fair \in Drawn :
          /\ problem[p] = "new"
          /\ \A g \in Callers : req[g].op = "generate" => req[g].id # p
          /\ req' = [req EXCEPT ![h] = [op |-> "generate", id |-> p, fair |-> fair]]
    BY <1>1 DEF GenerateMath
  <2>2. \A g \in Callers :
          req'[g] = IF g = h THEN [op |-> "generate", id |-> p, fair |-> fair] ELSE req[g]
    BY <1>0, <2>1
  <2>3. UNCHANGED <<problem, judged, fellBack>>
    BY <1>1 DEF GenerateMath
  <2>4. Unique'
    BY <2>1, <2>2 DEF Unique
  <2>5. Unstored' /\ Fallen' /\ Untouched'
    BY <2>1, <2>2, <2>3 DEF Unstored, Fallen, Untouched
  <2>6. QED
    BY <2>4, <2>5
<1>2. CASE StoreAnswer(h)
  <2> DEFINE p == req[h].id
  <2>1. p \in Problems /\ problem[p] = "new" /\ problem' = [problem EXCEPT ![p] = "stored"]
    BY <1>0, <1>2, Holding DEF StoreAnswer, Unstored
  <2>2. \A g \in Callers : req'[g] = IF g = h THEN Idle ELSE req[g]
    BY <1>0, <1>2 DEF StoreAnswer, Answer
  <2>3. UNCHANGED <<judged, fellBack>> /\ req[h].op = "generate"
    BY <1>2 DEF StoreAnswer
  <2>4. Unique' /\ Fallen'
    BY <1>0, <2>1, <2>2, <2>3, Holding DEF Unique, Fallen, Idle
  <2>5. \A g \in Callers : req'[g].op = "generate" => req[g].op = "generate" /\ req'[g].id = req[g].id /\ req[g].id # p
    BY <2>2, <2>3 DEF Unique, Idle
  <2>6. Unstored'
    <3> SUFFICES ASSUME NEW g \in Callers, req'[g].op = "generate" PROVE problem'[req'[g].id] = "new"
      BY DEF Unstored
    <3>1. req[g].id \in Problems /\ problem[req[g].id] = "new" /\ req'[g].id = req[g].id /\ req[g].id # p
      BY <1>0, <2>5, Holding DEF Unstored
    <3>2. QED
      BY <1>0, <2>1, <3>1
  <2>7. Untouched'
    BY <1>0, <2>1, <2>3 DEF Untouched
  <2>8. QED
    BY <2>4, <2>6, <2>7
<1>3. CASE Get(h)
  <2>1. UNCHANGED <<problem, judged, fellBack>> /\ req[h].op = "get"
    BY <1>3 DEF Get
  <2>2. CASE Answer(h)
    <3>1. req' = [req EXCEPT ![h] = Idle] /\ Idle.op \notin {"generate", "get", "del"}
      BY <2>2 DEF Answer, Idle
    <3>2. QED
      BY <2>1, <3>1, LifecycleElsewhere
  <2>3. CASE req' = [req EXCEPT ![h].op = "del"]
    <3>1. req[h] = [op |-> "get", id |-> req[h].id]
      BY <1>0, <2>1, Holding
    <3>2. \A g \in Callers : req'[g] = IF g = h THEN [op |-> "del", id |-> req[h].id] ELSE req[g]
      BY <1>0, <2>3, <3>1
    <3>3. Unique' /\ Unstored' /\ Fallen'
      BY <2>1, <3>2 DEF Unique, Unstored, Fallen
    <3>4. QED
      BY <2>1, <3>3 DEF Untouched
  <2>4. QED
    BY <1>3, <2>2, <2>3 DEF Get
<1>4. CASE Del(h)
  <2>1. req[h].id \in Problems /\ req[h].id \in fellBack /\ problem[req[h].id] # "new"
    BY <1>0, <1>4, Holding DEF Del, Fallen
  <2>2. \A g \in Callers : req'[g] = IF g = h THEN Idle ELSE req[g]
    BY <1>0, <1>4 DEF Del, Answer
  <2>3. UNCHANGED fellBack /\ \A q \in Problems : /\ q # req[h].id => problem'[q] = problem[q] /\ judged'[q] = judged[q]
                                                  /\ problem'[q] = problem[q] \/ problem'[q] = "gone"
    BY <1>0, <1>4 DEF Del, Consume
  <2>4. Untouched'
    BY <2>1, <2>3 DEF Untouched
  <2>5. Unique'
    BY <2>2 DEF Unique, Idle
  <2>6. Fallen' /\ Unstored'
    BY <1>0, <2>1, <2>2, <2>3, Holding DEF Fallen, Unstored, Idle
  <2>7. QED
    BY <2>4, <2>5, <2>6
<1>5. ASSUME NEW p \in Problems, VerifyMath(h, p) PROVE Lifecycle'
  <2>0. problem[p] # "new" /\ req[h] = Idle
    BY <1>5 DEF VerifyMath
  <2>1. \A q \in Problems : problem[q] = "new" <=> problem'[q] = "new"
    BY <1>0, <1>5, <2>0 DEF VerifyMath, Consume
  <2>2. CASE Compare(p) /\ Consume(p) /\ Answer(h) /\ UNCHANGED fellBack
    <3>1. \A g \in Callers : req'[g] = IF g = h THEN Idle ELSE req[g]
      BY <1>0, <2>2 DEF Answer
    <3>2. Unique' /\ Fallen'
      BY <1>0, <2>0, <2>1, <2>2, <3>1, Holding DEF Unique, Fallen, Idle
    <3>3. Unstored'
      BY <1>0, <2>1, <3>1, Holding DEF Unstored, Idle
    <3>4. Untouched'
      BY <1>0, <2>2 DEF Untouched, Compare, Consume
    <3>5. QED
      BY <3>2, <3>3, <3>4
  <2>3. CASE /\ Consume(p) \/ UNCHANGED problem
             /\ fellBack' = fellBack \cup {p}
             /\ req' = [req EXCEPT ![h] = [op |-> "get", id |-> p]]
             /\ UNCHANGED judged
    <3>1. \A g \in Callers : req'[g] = IF g = h THEN [op |-> "get", id |-> p] ELSE req[g]
      BY <1>0, <2>3
    <3>2. Unique' /\ Fallen'
      BY <1>0, <2>0, <2>1, <2>3, <3>1, Holding DEF Unique, Fallen
    <3>3. Unstored'
      BY <1>0, <2>1, <3>1, Holding DEF Unstored
    <3>4. Untouched'
      BY <1>0, <2>3 DEF Untouched, Consume
    <3>5. QED
      BY <3>2, <3>3, <3>4
  <2>4. QED
    BY <1>5, <2>2, <2>3 DEF VerifyMath
<1>6. QED
  BY <1>1, <1>2, <1>3, <1>4, <1>5 DEF Math

\* Every step keeps a problem's lifecycle.
LEMMA LifecycleStep ==
  ASSUME TypeOK, Lifecycle, [Next]_vars
  PROVE  Lifecycle'
<1>1. ASSUME NEW h \in Callers, Photo(h) PROVE Lifecycle'
  <2>1. UNCHANGED <<problem, judged, fellBack>>
    BY <1>1 DEF Photo, Ask, Model, Detected, Designed, Unavailable, missionVars
  <2>2. \/ UNCHANGED req
        \/ req' = [req EXCEPT ![h] = [op |-> "ask"]]
        \/ req' = [req EXCEPT ![h] = Idle]
    BY <1>1 DEF Photo, Ask, Model, Detected, Designed, Unavailable, missionVars, Answer
  <2>3. UNCHANGED req \/ \E r : req' = [req EXCEPT ![h] = r] /\ r.op \notin {"generate", "get", "del"}
    <3>1. [op |-> "ask"].op = "ask" /\ Idle.op = "idle"
      BY DEF Idle
    <3>2. ASSUME NEW r, req' = [req EXCEPT ![h] = r], r.op \in {"ask", "idle"}
          PROVE  \E q : req' = [req EXCEPT ![h] = q] /\ q.op \notin {"generate", "get", "del"}
      BY <3>2
    <3>3. QED
      BY <2>2, <3>1, <3>2
  <2>4. QED
    BY <2>1, <2>3, LifecycleElsewhere
<1>2. ASSUME NEW h \in Callers, Math(h) PROVE Lifecycle'
  BY <1>2, MathLifecycle
<1>3. ASSUME NEW h \in Callers, Sleep(h) PROVE Lifecycle'
  <2>1. UNCHANGED <<problem, judged, fellBack>>
    BY <1>3 DEF Sleep, CreateHistory, FindNight, ReadRate, SaveNight
  <2>2. CASE CreateHistory(h)
    BY <2>1, <2>2, LifecycleElsewhere DEF CreateHistory
  <2>3. ASSUME NEW r, req' = [req EXCEPT ![h] = r], r.op \in {"idle", "rate", "save"} PROVE Lifecycle'
    BY <2>1, <2>3, LifecycleElsewhere
  <2>4. CASE FindNight(h)
    <3>1. PICK report \in Reports : req' = [req EXCEPT ![h] = [op |-> "rate", row |-> night, report |-> report]]
      BY <2>4 DEF FindNight
    <3>2. QED
      BY <2>3, <3>1
  <2>5. CASE ReadRate(h)
    BY <2>3, <2>5, RateRead
  <2>6. CASE SaveNight(h)
    BY <2>3, <2>6 DEF SaveNight, Answer, Idle
  <2>7. QED
    BY <1>3, <2>2, <2>4, <2>5, <2>6 DEF Sleep
<1>4. ASSUME NEW p \in Problems, Expire(p) PROVE Lifecycle'
  <2>1. /\ UNCHANGED <<req, judged, fellBack>> /\ problem[p] = "stored"
        /\ \A q \in Problems : problem'[q] = IF q = p THEN "gone" ELSE problem[q]
    BY <1>4 DEF Expire, TypeOK
  <2>2. \A h \in Callers : req[h].op \in {"generate", "get", "del"} => req[h].id \in Problems
    BY Holding DEF TypeOK
  <2>3. QED
    BY <2>1, <2>2 DEF Lifecycle, Unique, Unstored, Fallen, Untouched
<1>5. CASE Clock \/ UNCHANGED vars
  BY <1>5 DEF Clock, missionVars, vars, Lifecycle, Unique, Unstored, Fallen, Untouched
<1>6. QED
  BY <1>1, <1>2, <1>3, <1>4, <1>5 DEF Next

\* However many verifications of a problem interleave, one answer is compared with the stored
\* one, unless a GETDEL failed.  [missions.service.ts:103 verifyMath]
THEOREM ProblemJudgedOnce == Spec => []JudgedOnce
<1>1. Init => Lifecycle
  BY DEF Init, Lifecycle, Unique, Unstored, Fallen, Untouched, Idle
<1>2. TypeOK /\ Lifecycle /\ [Next]_vars => Lifecycle'
  BY LifecycleStep
<1>3. TypeOK /\ Lifecycle => JudgedOnce
  BY DEF TypeOK, Lifecycle, Untouched, JudgedOnce
<1>4. QED
  BY <1>1, <1>2, <1>3, TypeCorrect, PTL DEF Spec

-----------------------------------------------------------------------------
(* The sleep report                                                         *)

\* What is about to be saved keeps what its request had found, as far as its report says nothing.
SavesKeep ==
  \A h \in Callers : req[h].op = "save" => SaveKeeps(req[h].save, req[h].row, req[h].report)

\* A request that saves a night keeps what it found there.
LEMMA SavesKeepStep ==
  ASSUME TypeOK, SavesKeep, [Next]_vars
  PROVE  SavesKeep'
<1>0. req \in [Callers -> Requests]
  BY DEF TypeOK
<1>1. ASSUME NEW h \in Callers, NEW r \in Requests, req' = [req EXCEPT ![h] = r], r.op # "save"
      PROVE  SavesKeep'
  BY <1>0, <1>1 DEF SavesKeep
<1>2. ASSUME NEW h \in Callers, GenerateMath(h) PROVE SavesKeep'
  <2>1. PICK p \in Problems, fair \in Drawn :
          req' = [req EXCEPT ![h] = [op |-> "generate", id |-> p, fair |-> fair]]
    BY <1>2 DEF GenerateMath
  <2>2. [op |-> "generate", id |-> p, fair |-> fair] \in Requests
    BY DrawnIsFair DEF Requests
  <2>3. QED
    BY <1>1, <2>1, <2>2
<1>3. ASSUME NEW h \in Callers, ReadRate(h) PROVE SavesKeep'
  BY <1>3, RateRead DEF SavesKeep
<1>4. CASE UNCHANGED req
  BY <1>4 DEF SavesKeep
<1>5. QED
  BY <1>1, <1>2, <1>3, <1>4, ReqMoves

\* Only the save of a report writes the night.
LEMMA NightWritten ==
  ASSUME [Next]_vars
  PROVE  UNCHANGED night \/ \E h \in Callers : SaveNight(h)
BY DEF Next, Photo, Ask, Model, Detected, Designed, Unavailable, Math, GenerateMath, StoreAnswer,
       Get, Del, VerifyMath, Sleep, CreateHistory, FindNight, ReadRate, Expire, Clock, missionVars, vars

\* What a step may change of a night: to what the saved report says, back to what this report had
\* found, and a duration to the derived one.
OnlyTold ==
  \A f \in Fields : night'.known[f] # night.known[f] =>
    \E h \in Callers :
      /\ SaveNight(h)
      /\ \/ f \in Says[req[h].report]
         \/ req[h].row.known[f] # night.known[f]
         \/ f = "duration" /\ night'.known[f] = "derived"

\* Whatever is known of a night, reported or derived, changes only as the report being saved says,
\* to the derived duration, or back to what an overlapping report had found, for all reports and
\* any number of them under way.  [sleep.service.ts:38 recordSession]
THEOREM ReportIsKept == Spec => ReportKept
<1>1. Init => SavesKeep
  BY DEF Init, SavesKeep, Idle
<1>2. ASSUME SavesKeep, [Next]_vars PROVE OnlyTold
  <2>1. CASE UNCHANGED night
    BY <2>1 DEF OnlyTold
  <2>2. ASSUME NEW h \in Callers, SaveNight(h) PROVE OnlyTold
    <3>1. req[h].op = "save" /\ (night' = night \/ night' = req[h].save)
      BY <2>2 DEF SaveNight
    <3>2. SaveKeeps(req[h].save, req[h].row, req[h].report)
      BY <1>2, <3>1 DEF SavesKeep
    <3>3. QED
      BY <2>2, <3>1, <3>2 DEF OnlyTold, SaveKeeps
  <2>3. QED
    BY <1>2, <2>1, <2>2, NightWritten
<1>3. SavesKeep /\ [Next]_vars => [OnlyTold]_vars
  BY <1>2
<1>4. TypeOK /\ SavesKeep /\ [Next]_vars => SavesKeep'
  BY SavesKeepStep
<1>5. ReportKept <=> [][OnlyTold]_vars
  BY DEF ReportKept, OnlyTold
<1>6. QED
  BY <1>1, <1>3, <1>4, <1>5, TypeCorrect, PTL DEF Spec
=============================================================================
