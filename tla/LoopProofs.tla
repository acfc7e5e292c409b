------------------------------ MODULE LoopProofs ------------------------------
(***************************************************************************)
(* The rule for the loops: what holds at the start and is preserved by a   *)
(* step that is taken holds at the end, however many turns the loop takes. *)
(* Step is a constant, so that each loop is an INSTANCE of this module.    *)
(***************************************************************************)
EXTENDS Loops, TLAPS, WellFoundedInduction

CONSTANT Step(_)

\* A set of natural numbers has a least one.
LEMMA LeastNumber ==
  ASSUME NEW T, T \subseteq Nat, T # {}
  PROVE  \E x \in T : \A y \in T : x <= y
<1>1. IsWellFoundedOn(OpToRel(<, Nat), Nat)
  BY NatLessThanWellFounded
<1>2. PICK x \in T : \A y \in T : ~ (<<y, x>> \in OpToRel(<, Nat))
  BY <1>1, WFMin
<1>3. \A y \in T : x \in Nat /\ y \in Nat /\ ~ (y < x)
  BY <1>2 DEF OpToRel
<1>4. \A y \in T : x <= y
  BY <1>3
<1> QED BY <1>4

-----------------------------------------------------------------------------
(* Functions that are defined by recursion, first with the turn of the loop  *)
(* as a function.                                                            *)

Run(turn, f, start, n) == f = [i \in 0 .. n |-> IF i = 0 THEN start ELSE turn[f[i - 1]]]

\* A step that stays in a set can be taken any number of times.
LEMMA RunExists ==
  ASSUME NEW S, NEW start \in S, NEW turn \in [S -> S], NEW n \in Nat
  PROVE  \E f \in [0 .. n -> S] : Run(turn, f, start, n)
<1> DEFINE Bad == {k \in Nat : ~ \E f \in [0 .. k -> S] : Run(turn, f, start, k)}
<1> SUFFICES ASSUME Bad # {} PROVE FALSE
  OBVIOUS
<1>1. PICK x \in Bad : \A y \in Bad : x <= y
  BY LeastNumber
<1>2. CASE x = 0
  <2> DEFINE f == [i \in 0 .. 0 |-> start]
  <2>1. f \in [0 .. 0 -> S] /\ Run(turn, f, start, 0)
    BY DEF Run
  <2> QED BY <1>1, <1>2, <2>1
<1>3. CASE x # 0
  <2>1. x \in Nat \ {0} /\ x - 1 \in Nat /\ x - 1 \notin Bad
    BY <1>1, <1>3
  <2>2. PICK f \in [0 .. x - 1 -> S] : Run(turn, f, start, x - 1)
    BY <2>1
  <2> DEFINE g == [i \in 0 .. x |-> IF i = x THEN turn[f[x - 1]] ELSE f[i]]
  <2>3. g \in [0 .. x -> S]
    BY <2>1
  <2>4. ASSUME NEW i \in 0 .. x
        PROVE  g[i] = IF i = 0 THEN start ELSE turn[g[i - 1]]
    <3>1. CASE i = x
      BY <2>1, <3>1
    <3>2. CASE i # x
      <4>1. i \in 0 .. x - 1 /\ g[i] = f[i]
        BY <2>1, <3>2
      <4>2. f[i] = IF i = 0 THEN start ELSE turn[f[i - 1]]
        BY <4>1, <2>2 DEF Run
      <4>3. i # 0 => g[i - 1] = f[i - 1]
        BY <2>1, <4>1
      <4> QED BY <4>1, <4>2, <4>3
    <3> QED BY <3>1, <3>2
  <2> HIDE DEF g
  <2>5. Run(turn, g, start, x)
    BY <2>3, <2>4 DEF Run
  <2> QED BY <2>1, <1>1, <2>3, <2>5
<1> QED BY <1>2, <1>3

\* What each turn keeps is kept by all of them.
LEMMA KeptToTheEnd ==
  ASSUME NEW S, NEW n \in Nat, NEW f, f[0] \in S,
         \A i \in 1 .. n : f[i - 1] \in S => f[i] \in S
  PROVE  f[n] \in S
<1> DEFINE Bad == {k \in 0 .. n : f[k] \notin S}
<1>1. Bad = {}
  <2> SUFFICES ASSUME Bad # {} PROVE FALSE
    OBVIOUS
  <2>1. Bad \subseteq Nat
    OBVIOUS
  <2>2. PICK x \in Bad : \A y \in Bad : x <= y
    BY <2>1, LeastNumber
  <2>3. x # 0 /\ x \in 1 .. n /\ x - 1 \notin Bad
    BY <2>2
  <2> QED BY <2>2, <2>3
<1> QED BY <1>1

-----------------------------------------------------------------------------
Turn(acc) == IF acc.ok THEN Step(acc) ELSE acc


\* Repeat is the last of such a run.
LEMMA RepeatRuns ==
  ASSUME NEW S, NEW start \in S, \A a \in S : Turn(a) \in S, NEW n \in Nat
  PROVE  \E f : /\ f[0] = start
                /\ \A i \in 1 .. n : f[i] = Turn(f[i - 1])
                /\ Repeat(Step, start, n) = f[n]
<1> DEFINE Is(f) ==
             f = [i \in 0 .. n |-> IF i = 0 THEN start
                                   ELSE LET acc == f[i - 1] IN IF acc.ok THEN Step(acc) ELSE acc]
           turn == [a \in S |-> Turn(a)]
           after == CHOOSE f : Is(f)
<1>1. \E f : Is(f)
  <2>1. turn \in [S -> S]
    OBVIOUS
  <2>2. PICK f \in [0 .. n -> S] : Run(turn, f, start, n)
    BY <2>1, RunExists
  <2>3. \A i \in 0 .. n : i # 0 => turn[f[i - 1]] = Turn(f[i - 1])
    OBVIOUS
  <2>4. Is(f)
    BY <2>2, <2>3 DEF Run, Turn
  <2> QED BY <2>4
<1>2. Is(after)
  BY <1>1
<1>3. Repeat(Step, start, n) = after[n]
  BY DEF Repeat
<1> HIDE DEF after
<1>4. after[0] = start /\ \A i \in 1 .. n : after[i] = Turn(after[i - 1])
  BY <1>2 DEF Turn
<1> QED BY <1>3, <1>4

\* Repeat stays in any set its step stays in.
LEMMA RepeatStays ==
  ASSUME NEW S, NEW start \in S, \A a \in S : Turn(a) \in S, NEW n \in Nat
  PROVE  Repeat(Step, start, n) \in S
<1> DEFINE end == Repeat(Step, start, n)
<1>1. \E f : f[0] = start /\ (\A i \in 1 .. n : f[i] = Turn(f[i - 1])) /\ end = f[n]
  BY RepeatRuns
<1> HIDE DEF end
<1>2. end \in S
  BY <1>1, KeptToTheEnd
<1> QED BY <1>2 DEF end

\* A loop that is entered takes at least one turn.
LEMMA RepeatGoesRound ==
  ASSUME NEW S, NEW start, start.ok, Step(start) \in S, \A a \in S : Turn(a) \in S,
         NEW n \in Nat \ {0}
  PROVE  Repeat(Step, start, n) \in S
<1> DEFINE end == Repeat(Step, start, n)
           T == S \cup {start}
<1>1. start \in T /\ \A a \in T : Turn(a) \in T
  BY DEF Turn
<1>2. \E f : f[0] = start /\ (\A i \in 1 .. n : f[i] = Turn(f[i - 1])) /\ end = f[n]
  <2> HIDE DEF T
  <2> QED BY <1>1, RepeatRuns
<1> HIDE DEF end
<1>3. PICK f : f[0] = start /\ (\A i \in 1 .. n : f[i] = Turn(f[i - 1])) /\ end = f[n]
  BY <1>2
<1> DEFINE g == [i \in 0 .. n - 1 |-> f[i + 1]]
<1>4. f[1] = Turn(f[0]) /\ g[0] = f[1] /\ g[n - 1] = f[n]
  BY <1>3
<1>5. g[0] \in S
  BY <1>3, <1>4 DEF Turn
<1>6. ASSUME NEW i \in 1 .. n - 1, g[i - 1] \in S PROVE g[i] \in S
  BY <1>3, <1>6
<1>7. n - 1 \in Nat
  OBVIOUS
<1> HIDE DEF g
<1>8. g[n - 1] \in S
  BY <1>5, <1>6, <1>7, KeptToTheEnd
<1> QED BY <1>3, <1>4, <1>8 DEF end

\* The loop goes in rounds, which are repeated in the same way.
Round(acc) == IF acc.ok THEN Repeat(Step, acc, 8) ELSE acc

\* WhileOk is the last of a run of rounds, each a step as long as all is well.
LEMMA LoopRuns ==
  ASSUME NEW S, NEW start \in S, \A a \in S : Round(a) \in S, NEW n \in Nat,
         NEW bound, n = bound \div 8 + 1
  PROVE  \E f : /\ f[0] = start
                /\ \A i \in 1 .. n : f[i] = Round(f[i - 1])
                /\ WhileOk(Step, start, bound) = f[n]
<1> DEFINE Eight(a) == Repeat(Step, a, 8)
           Is(f) ==
             f = [i \in 0 .. n |-> IF i = 0 THEN start
                                   ELSE LET acc == f[i - 1]
                                        IN  IF acc.ok THEN Eight(acc) ELSE acc]
           turn == [a \in S |-> Round(a)]
           after == CHOOSE f : Is(f)
<1>1. \A a : Round(a) = IF a.ok THEN Eight(a) ELSE a
  BY DEF Round
<1>2. WhileOk(Step, start, bound) = after[n]
  BY DEF WhileOk, Repeat
<1> HIDE DEF Eight
<1>3. \E f : Is(f)
  <2>1. turn \in [S -> S]
    OBVIOUS
  <2>2. PICK f \in [0 .. n -> S] : Run(turn, f, start, n)
    BY <2>1, RunExists
  <2>3. \A i \in 0 .. n : i # 0 => turn[f[i - 1]] = Round(f[i - 1])
    OBVIOUS
  <2> HIDE DEF turn
  <2>4. Is(f)
    BY <1>1, <2>2, <2>3 DEF Run
  <2> QED BY <2>4
<1>4. Is(after)
  BY <1>3
<1> HIDE DEF after
<1>5. after[0] = start /\ \A i \in 1 .. n : after[i] = Round(after[i - 1])
  BY <1>1, <1>4
<1> QED BY <1>2, <1>5

\* A loop that goes on while all is well ends in any set that its turns stay in.
THEOREM LoopStays ==
  ASSUME NEW S, NEW start \in S, NEW bound \in Nat,
         \A a \in S : a.ok => Step(a) \in S
  PROVE  WhileOk(Step, start, bound) \in S
<1> DEFINE n == bound \div 8 + 1
<1>1. n \in Nat
  OBVIOUS
<1>2. \A a \in S : Turn(a) \in S
  BY DEF Turn
<1>3. \A a \in S : Round(a) \in S
  BY <1>2, RepeatStays DEF Round
<1>4. \E f : f[0] = start /\ (\A i \in 1 .. n : f[i] = Round(f[i - 1]))
             /\ WhileOk(Step, start, bound) = f[n]
  BY <1>1, <1>3, LoopRuns
<1> DEFINE end == WhileOk(Step, start, bound)
<1>5. PICK f : f[0] = start /\ (\A i \in 1 .. n : f[i] = Round(f[i - 1])) /\ end = f[n]
  BY <1>4
<1> HIDE DEF n, end
<1>6. end \in S
  BY <1>1, <1>3, <1>5, KeptToTheEnd
<1> QED BY <1>6 DEF end

\* The same of a loop whose first turn establishes the set.
THEOREM LoopGoesRound ==
  ASSUME NEW S, NEW start, start.ok, Step(start) \in S, NEW bound \in Nat,
         \A a \in S : a.ok => Step(a) \in S
  PROVE  WhileOk(Step, start, bound) \in S
<1> DEFINE n == bound \div 8 + 1
           T == S \cup {start}
<1>1. n \in Nat \ {0} /\ n - 1 \in Nat
  OBVIOUS
<1>2. \A a \in S : Turn(a) \in S
  BY DEF Turn
<1>3. \A a \in S : Round(a) \in S
  BY <1>2, RepeatStays DEF Round
<1>4. Round(start) \in S
  <2>1. Round(start) = Repeat(Step, start, 8)
    BY DEF Round
  <2>2. 8 \in Nat \ {0}
    OBVIOUS
  <2>3. Repeat(Step, start, 8) \in S
    BY <1>2, <2>2, RepeatGoesRound, Zenon
  <2> QED BY <2>1, <2>3, Zenon
<1>5. start \in T /\ \A a \in T : Round(a) \in T
  BY <1>3, <1>4
<1> DEFINE end == WhileOk(Step, start, bound)
<1>6. \E f : f[0] = start /\ (\A i \in 1 .. n : f[i] = Round(f[i - 1]))
             /\ WhileOk(Step, start, bound) = f[n]
  <2> HIDE DEF T
  <2> QED BY <1>1, <1>5, LoopRuns
<1>7. PICK f : f[0] = start /\ (\A i \in 1 .. n : f[i] = Round(f[i - 1])) /\ end = f[n]
  BY <1>6
<1> HIDE DEF n, end
<1> DEFINE g == [i \in 0 .. n - 1 |-> f[i + 1]]
<1>8. f[1] = Round(f[0]) /\ g[0] = f[1] /\ g[n - 1] = f[n]
  BY <1>1, <1>7
<1>9. g[0] \in S
  BY <1>4, <1>7, <1>8
<1>10. ASSUME NEW i \in 1 .. n - 1, g[i - 1] \in S PROVE g[i] \in S
  BY <1>1, <1>3, <1>7, <1>10
<1> HIDE DEF g
<1>11. g[n - 1] \in S
  BY <1>1, <1>9, <1>10, KeptToTheEnd
<1> QED BY <1>7, <1>8, <1>11 DEF end

-----------------------------------------------------------------------------
(* Loops that end.                                                           *)

\* A measure that goes down by c at least with every turn that is not the last.
LEMMA CountedDown ==
  ASSUME NEW S, NEW V \in [S -> Nat], NEW n \in Nat, NEW c \in Nat, NEW f, f[0] \in S,
         \A i \in 1 .. n : f[i - 1] \in S =>
           f[i] \in S /\ (f[i].ok => f[i - 1].ok /\ V[f[i]] + c <= V[f[i - 1]])
  PROVE  f[n] \in S /\ (f[n].ok => V[f[n]] + c * n <= V[f[0]])
<1> DEFINE Down(i) == f[i] \in S /\ (f[i].ok => V[f[i]] + c * i <= V[f[0]])
           t == [i \in 0 .. n |-> IF Down(i) THEN 1 ELSE 0]
<1>1. Down(0)
  OBVIOUS
<1>2. ASSUME NEW i \in 1 .. n, Down(i - 1) PROVE Down(i)
  <2>1. PICK j \in Nat : j = i - 1
    OBVIOUS
  <2>2. f[i] \in S /\ f[j] \in S /\ (f[i].ok => f[j].ok /\ V[f[i]] + c <= V[f[j]])
    BY <1>2, <2>1
  <2>3. f[j].ok => V[f[j]] + c * j <= V[f[0]]
    BY <1>2, <2>1
  <2>4. c * i = c * j + c /\ c * j \in Nat /\ c * i \in Nat
    BY <2>1
  <2>5. PICK x, y, z \in Nat : x = V[f[i]] /\ y = V[f[j]] /\ z = V[f[0]]
    BY <2>2
  <2> QED BY <2>2, <2>3, <2>4, <2>5
<1> HIDE DEF Down
<1>3. t[0] \in {1} /\ \A i \in 1 .. n : t[i - 1] \in {1} => t[i] \in {1}
  <2>1. 0 \in 0 .. n /\ \A i \in 1 .. n : i \in 0 .. n /\ i - 1 \in 0 .. n
    OBVIOUS
  <2> QED BY <1>1, <1>2, <2>1
<1> HIDE DEF t
<1>4. PICK T : T = {1}
  OBVIOUS
<1>5. t[0] \in T /\ \A i \in 1 .. n : t[i - 1] \in T => t[i] \in T
  BY <1>3, <1>4
<1>6. PICK u : u = t
  OBVIOUS
<1>7. u[0] \in T /\ \A i \in 1 .. n : u[i - 1] \in T => u[i] \in T
  BY <1>5, <1>6
<1>8. u[n] \in T
  BY <1>7, KeptToTheEnd
<1>9. Down(n)
  <2>1. t[n] = 1
    BY <1>4, <1>6, <1>8
  <2>2. n \in 0 .. n
    OBVIOUS
  <2> QED BY <2>1, <2>2 DEF t
<1> QED BY <1>9 DEF Down

\* As many turns, each of them counted.
LEMMA RepeatCounts ==
  ASSUME NEW S, NEW V \in [S -> Nat], NEW start \in S, NEW n \in Nat,
         \A a \in S : a.ok => Step(a) \in S /\ (Step(a).ok => V[Step(a)] < V[a])
  PROVE  /\ Repeat(Step, start, n) \in S
         /\ Repeat(Step, start, n).ok => V[Repeat(Step, start, n)] + n <= V[start]
<1> DEFINE end == Repeat(Step, start, n)
<1>1. \A a \in S : Turn(a) \in S /\ (Turn(a).ok => a.ok /\ V[Turn(a)] + 1 <= V[a])
  BY DEF Turn
<1>2. \E f : f[0] = start /\ (\A i \in 1 .. n : f[i] = Turn(f[i - 1])) /\ end = f[n]
  BY <1>1, RepeatRuns
<1> HIDE DEF end
<1>3. PICK f : f[0] = start /\ (\A i \in 1 .. n : f[i] = Turn(f[i - 1])) /\ end = f[n]
  BY <1>2
<1>4. \A i \in 1 .. n : f[i - 1] \in S =>
        f[i] \in S /\ (f[i].ok => f[i - 1].ok /\ V[f[i]] + 1 <= V[f[i - 1]])
  BY <1>1, <1>3
<1>5. f[n] \in S /\ (f[n].ok => V[f[n]] + 1 * n <= V[f[0]])
  BY <1>3, <1>4, CountedDown
<1>6. end \in S /\ (end.ok => V[end] + n <= V[start])
  BY <1>3, <1>5
<1> QED BY <1>6 DEF end

\* A loop with a measure below its bound ends before the bound is reached.
THEOREM LoopEnds ==
  ASSUME NEW S, NEW V \in [S -> Nat], NEW start \in S, NEW bound \in Nat,
         \A a \in S : a.ok => Step(a) \in S /\ (Step(a).ok => V[Step(a)] < V[a]),
         V[start] <= bound
  PROVE  WhileOk(Step, start, bound) \in S /\ ~WhileOk(Step, start, bound).ok
<1> DEFINE n == bound \div 8 + 1
           end == WhileOk(Step, start, bound)
<1>1. n \in Nat /\ 8 * n > bound
  OBVIOUS
<1>2. \A a \in S : Round(a) \in S /\ (Round(a).ok => a.ok /\ V[Round(a)] + 8 <= V[a])
  <2> SUFFICES ASSUME NEW a \in S
               PROVE  Round(a) \in S /\ (Round(a).ok => a.ok /\ V[Round(a)] + 8 <= V[a])
    OBVIOUS
  <2>1. 8 \in Nat
    OBVIOUS
  <2>2. Repeat(Step, a, 8) \in S
        /\ (Repeat(Step, a, 8).ok => V[Repeat(Step, a, 8)] + 8 <= V[a])
    BY <2>1, RepeatCounts, Zenon
  <2>3. PICK e : e = Repeat(Step, a, 8)
    OBVIOUS
  <2>4. Round(a) = IF a.ok THEN e ELSE a
    BY <2>3 DEF Round
  <2>5. e \in S /\ (e.ok => V[e] + 8 <= V[a])
    BY <2>2, <2>3, Zenon
  <2> QED BY <2>4, <2>5
<1>3. \E f : f[0] = start /\ (\A i \in 1 .. n : f[i] = Round(f[i - 1])) /\ end = f[n]
  BY <1>1, <1>2, LoopRuns
<1> HIDE DEF n, end
<1>4. PICK f : f[0] = start /\ (\A i \in 1 .. n : f[i] = Round(f[i - 1])) /\ end = f[n]
  BY <1>3
<1>5. \A i \in 1 .. n : f[i - 1] \in S =>
        f[i] \in S /\ (f[i].ok => f[i - 1].ok /\ V[f[i]] + 8 <= V[f[i - 1]])
  BY <1>2, <1>4
<1>6. f[n] \in S /\ (f[n].ok => V[f[n]] + 8 * n <= V[f[0]])
  BY <1>1, <1>4, <1>5, CountedDown
<1>7. end \in S /\ ~end.ok
  <2>1. PICK v \in Nat : f[n] \in S /\ v = V[f[n]]
    BY <1>6
  <2>2. V[start] \in Nat
    OBVIOUS
  <2> QED BY <1>1, <1>4, <1>6, <2>1, <2>2
<1> QED BY <1>7 DEF end
=============================================================================
