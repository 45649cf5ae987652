----------------------------- MODULE MathMission -----------------------------
(***************************************************************************)
(* The puzzles of the math mission (missions.service.ts): for each level,  *)
(* the set of the puzzles its builder can make, over all random draws.     *)
(* A puzzle is shown as its operands and the operators between them; the   *)
(* answer is computed by the builder, never from what is shown.            *)
(***************************************************************************)
EXTENDS Integers, Sequences

CONSTANT RandInt(_, _)   \* the draws between two bounds, both included

MaxBound == 400   \* no draw is asked for a larger number than 20 times 20

ASSUME RandIntAssumption ==
  \A lo, hi \in 1 .. MaxBound : lo <= hi => RandInt(lo, hi) \subseteq lo .. hi

Difficulties == {"easy", "medium", "hard"}

Puzzle(shown, ops, answer) == [operands |-> shown, ops |-> ops, answer |-> answer]

Signed(op, a, c) == IF op = "+" THEN a + c ELSE a - c

(* a + b or a - b, the two swapped when the difference would be negative.  *)
\* Mutant of Sums: the operands of a difference are not swapped.
SumsUnswapped(draws) ==
  {Puzzle(<<a, b>>, <<op>>, Signed(op, a, b)) : op \in {"+", "-"}, a \in draws, b \in draws}

Sums(draws) ==
  {IF op = "-" /\ b > a THEN Puzzle(<<b, a>>, <<op>>, b - a)
                        ELSE Puzzle(<<a, b>>, <<op>>, Signed(op, a, b)) :
     op \in {"+", "-"}, a \in draws, b \in draws}

(* A third operand: one that would make the difference negative is drawn   *)
(* again, from 1 to what it is taken from.                                 *)
Thirds(op, from, draws) ==
  IF op = "+" THEN draws
  ELSE {c \in draws : c <= from}
       \cup (IF \E c \in draws : c > from THEN RandInt(1, from) ELSE {})

ProductsAndThird(factors, draws) ==
  UNION {{Puzzle(<<a, b, c>>, <<"*", op>>, Signed(op, a * b, c)) : c \in Thirds(op, a * b, draws)} :
           a \in factors, b \in factors, op \in {"+", "-"}}

Products(factors) == {Puzzle(<<a, b>>, <<"*">>, a * b) : a \in factors, b \in factors}

(* a is made of the quotient: the division is exact.                       *)
QuotientsAndThird ==
  UNION {{Puzzle(<<b * q, b, c>>, <<"/", op>>, Signed(op, q, c)) :
            c \in Thirds(op, q, RandInt(1, 30))} :
           b \in RandInt(2, 12), q \in RandInt(2, 15), op \in {"+", "-"}}

PickDivisor(n) == LET divisors == {d \in 2 .. n : n % d = 0}
                  IN  IF divisors = {} THEN {1} ELSE divisors

ProductsDivided ==
  UNION {{Puzzle(<<a, b, d>>, <<"*", "/">>, (a * b) \div d) : d \in PickDivisor(a * b)} :
           a \in RandInt(3, 15), b \in RandInt(3, 15)}

BuildEasy   == Sums(RandInt(1, 20))
BuildMedium == Products(RandInt(2, 12)) \cup Sums(RandInt(5, 40))
               \cup ProductsAndThird(RandInt(2, 12), RandInt(1, 20))
BuildHard   == QuotientsAndThird \cup ProductsDivided
               \cup ProductsAndThird(RandInt(6, 20), RandInt(10, 60))

BuildMathProblem(difficulty) == CASE difficulty = "easy" -> BuildEasy
                                  [] difficulty = "medium" -> BuildMedium
                                  [] difficulty = "hard" -> BuildHard

-----------------------------------------------------------------------------
(* What a reader computes from what is shown: products and quotients bind  *)
(* before sums, and both read from the left.  No puzzle has a product or a *)
(* quotient after a sum, so reading from the left is all there is.         *)

Apply(op, x, y) == CASE op = "*" -> x * y
                     [] op = "/" -> x \div y
                     [] OTHER -> Signed(op, x, y)

ReadOff(p) == LET first == Apply(p.ops[1], p.operands[1], p.operands[2])
              IN  IF Len(p.ops) = 1 THEN first ELSE Apply(p.ops[2], first, p.operands[3])

BindsFromTheLeft(p) == Len(p.ops) = 2 => p.ops[1] \in {"*", "/"} \/ p.ops[2] \in {"+", "-"}

DividesExactly(p) ==
  \A i \in DOMAIN p.ops : p.ops[i] = "/" =>
    (IF i = 1 THEN p.operands[1] ELSE p.operands[1] * p.operands[2]) % p.operands[i + 1] = 0

MaxAnswer == 1000000   \* of VerifyMathDto

(* A puzzle has one whole answer, the one a reader works out from what is  *)
(* shown, never negative, and within what VerifyMathDto lets through.      *)
IsFair(p) == /\ BindsFromTheLeft(p) /\ DividesExactly(p)
             /\ p.answer = ReadOff(p)
             /\ p.answer \in 0 .. MaxAnswer
=============================================================================
