------------------------------ MODULE ReviewProofs ------------------------------
(***************************************************************************)
(* Proofs about the parts of MCComponents behind the review of a game:     *)
(* Grading, SearchStream, Review and BoardInput.                           *)
(***************************************************************************)
EXTENDS MCComponents, SequenceTheorems, TLAPS

-----------------------------------------------------------------------------
(* Grading, for any curve that is even at 0 and never falls, any scores    *)
(* and games of any length.                                                *)

\* What GradingAssumption says of one point of the curve.
LEMMA CurveBounds ==
  ASSUME NEW n \in 0..Ceiling
  PROVE  /\ Curve[n] \in Nat /\ Curve[Ceiling] \in Nat /\ 0 <= Curve[n]
         /\ Curve[n] <= Curve[Ceiling]
BY GradingAssumption

\* The curve is odd: a point of view changes the sign of a win chance and
\* nothing else, and no score is above the ceiling or below its opposite.
LEMMA WinChanceOdd ==
  ASSUME NEW cp \in Int
  PROVE  /\ Judging!WinChance(cp) \in Int
         /\ Judging!WinChance(-cp) = -Judging!WinChance(cp)
         /\ -Curve[Ceiling] <= Judging!WinChance(cp)
         /\ Judging!WinChance(cp) <= Curve[Ceiling]
<1>0. Ceiling \in Nat /\ Curve[0] = 0 /\ Curve[Ceiling] \in Nat
  BY GradingAssumption
<1>1. CASE cp = 0
  BY <1>0, <1>1, CurveBounds DEF Judging!WinChance
<1>2. CASE cp > 0
  <2>1. PICK m \in 0..Ceiling : m = IF cp > Ceiling THEN Ceiling ELSE cp
    BY <1>0, <1>2
  <2>2. Judging!WinChance(cp) = Curve[m] /\ Judging!WinChance(-cp) = -Curve[m]
    BY <2>1, <1>0, <1>2 DEF Judging!WinChance
  <2>3. QED BY <2>2, CurveBounds
<1>3. CASE cp < 0
  <2>1. PICK m \in 0..Ceiling : m = IF cp < -Ceiling THEN Ceiling ELSE -cp
    BY <1>0, <1>3
  <2>2. Judging!WinChance(cp) = -Curve[m] /\ Judging!WinChance(-cp) = Curve[m]
    BY <2>1, <1>0, <1>3 DEF Judging!WinChance
  <2>3. QED BY <2>2, CurveBounds
<1>4. QED BY <1>1, <1>2, <1>3

LEMMA Negated ==
  ASSUME NEW s \in Judging!Scores
  PROVE  /\ s.mate \in BOOLEAN /\ s.n \in Int /\ (s.mate => s.n # 0)
         /\ [s EXCEPT !.n = -s.n] = [mate |-> s.mate, n |-> -s.n]
<1>1. /\ s.mate \in BOOLEAN /\ s.n \in Int /\ (s.mate => s.n # 0)
      /\ s = [mate |-> s.mate, n |-> s.n]
  <2>1. CASE s \in [mate : {FALSE}, n : Int]
    BY <2>1
  <2>2. CASE s \in [mate : {TRUE}, n : Int \ {0}]
    BY <2>2
  <2>3. QED BY <2>1, <2>2 DEF Judging!Scores
<1>2. [s EXCEPT !.n = -s.n] = [mate |-> s.mate, n |-> -s.n]
  BY <1>1
<1>3. QED BY <1>1, <1>2

LEMMA ScoreOdd ==
  ASSUME NEW s \in Judging!Scores
  PROVE  /\ [s EXCEPT !.n = -s.n] \in Judging!Scores
         /\ Judging!ScoreToWinChance(s) \in Int
         /\ Judging!ScoreToWinChance([s EXCEPT !.n = -s.n]) = -Judging!ScoreToWinChance(s)
         /\ Judging!ScoreToWinChance(s) <= Curve[Ceiling] /\ Curve[Ceiling] \in Nat
         /\ s.mate /\ s.n < 0 => Judging!ScoreToWinChance(s) = -Curve[Ceiling]
<1> DEFINE t == [s EXCEPT !.n = -s.n]
<1>1. /\ s.mate \in BOOLEAN /\ s.n \in Int /\ (s.mate => s.n # 0)
      /\ t = [mate |-> s.mate, n |-> -s.n]
  BY Negated
<1>2. t.mate = s.mate /\ t.n = -s.n /\ t \in Judging!Scores
  <2>1. CASE s.mate
    <3>1. s.mate = TRUE /\ -s.n \in Int \ {0}
      BY <1>1, <2>1
    <3>2. QED BY <1>1, <3>1, Zenon DEF Judging!Scores
  <2>2. CASE ~s.mate
    <3>1. s.mate = FALSE /\ -s.n \in Int
      BY <1>1, <2>2
    <3>2. QED BY <1>1, <3>1, Zenon DEF Judging!Scores
  <2>3. QED BY <1>1, <2>1, <2>2
<1>3. Ceiling \in Int /\ Ceiling \in 0..Ceiling /\ -(-Ceiling) = Ceiling
  BY GradingAssumption
<1>4. CASE ~s.mate
  BY <1>1, <1>2, <1>3, <1>4, WinChanceOdd, CurveBounds DEF Judging!ScoreToWinChance
<1>5. CASE s.mate
  <2>1. /\ Judging!WinChance(Ceiling) = Curve[Ceiling]
        /\ Judging!WinChance(-Ceiling) = -Curve[Ceiling]
    BY <1>3, WinChanceOdd, GradingAssumption DEF Judging!WinChance
  <2>2. Curve[Ceiling] \in Nat
    BY <1>3, CurveBounds
  <2>3. CASE s.n > 0
    BY <1>1, <1>2, <1>5, <2>1, <2>2, <2>3 DEF Judging!ScoreToWinChance
  <2>4. CASE s.n < 0
    BY <1>1, <1>2, <1>5, <2>1, <2>2, <2>4 DEF Judging!ScoreToWinChance
  <2>5. QED BY <1>1, <1>5, <2>3, <2>4
<1>6. QED BY <1>1, <1>2, <1>4, <1>5

\* What both ways to grade a ply come to: the loss is what the two reports,
\* each to the side to move, say together.
JudgedPlies == [category : Judging!Categories, winChanceLoss : Nat, heard : Judging!Scores, answered : Judging!Scores]
Judged(p) ==
  /\ p \in JudgedPlies
  /\ p.winChanceLoss = Judging!Cost(p)
  /\ p.answered.mate /\ p.answered.n < 0 =>
       p.winChanceLoss = 0 /\ p.category \in {"best", "good"}

LEMMA PlyJudged ==
  ASSUME mover \in Judging!Sides, said \in Judging!Scores, current = Judging!ToWhitePov(said, mover),
         NEW answer \in Judging!Scores, NEW best \in BOOLEAN
  PROVE  Judged(Judging!ClassifyPly(Judging!ToWhitePov(answer, Judging!Other(mover)), best, answer))
<1> DEFINE next == Judging!ToWhitePov(answer, Judging!Other(mover))
           loss == Judging!Lost(current, next, mover)
           sum == Judging!ScoreToWinChance(said) + Judging!ScoreToWinChance(answer)
           p == Judging!ClassifyPly(next, best, answer)
<1>1. /\ Judging!ScoreToWinChance(said) \in Int /\ Judging!ScoreToWinChance(answer) \in Int
      /\ Curve[Ceiling] \in Nat /\ Judging!ScoreToWinChance(said) <= Curve[Ceiling]
      /\ answer.mate /\ answer.n < 0 => Judging!ScoreToWinChance(answer) = -Curve[Ceiling]
  BY ScoreOdd
<1>2. loss = IF sum > 0 THEN sum ELSE 0
  <2>1. CASE mover = "white"
    <3>1. current = said /\ next = [answer EXCEPT !.n = -answer.n]
      BY <2>1 DEF Judging!ToWhitePov, Judging!Other
    <3>2. Judging!ScoreToWinChance(next) = -Judging!ScoreToWinChance(answer)
      BY <3>1, ScoreOdd
    <3>3. QED BY <1>1, <2>1, <3>1, <3>2 DEF Judging!Lost
  <2>2. CASE mover = "black"
    <3>1. current = [said EXCEPT !.n = -said.n] /\ next = answer
      BY <2>2 DEF Judging!ToWhitePov, Judging!Other
    <3>2. Judging!ScoreToWinChance(current) = -Judging!ScoreToWinChance(said)
      BY <3>1, ScoreOdd
    <3>3. QED BY <1>1, <2>2, <3>1, <3>2 DEF Judging!Lost
  <2>3. QED BY <2>1, <2>2 DEF Judging!Sides
<1>3. loss \in Nat /\ (answer.mate /\ answer.n < 0 => loss = 0)
  BY <1>1, <1>2
<1>4. p = [category |-> Judging!Category(loss, best), winChanceLoss |-> loss,
           heard |-> said, answered |-> answer]
  BY DEF Judging!ClassifyPly
<1>5. Judging!Category(loss, best) \in Judging!Categories
  BY DEF Judging!Category, Judging!Categories
<1>6. loss = 0 => Judging!Category(loss, best) \in {"best", "good"}
  BY DEF Judging!Category
<1> HIDE DEF next, loss, p
<1>7. p \in JudgedPlies
  BY <1>3, <1>4, <1>5 DEF JudgedPlies
<1>8. p.winChanceLoss = Judging!Cost(p)
  BY <1>2, <1>4 DEF Judging!Cost
<1>9. p.answered.mate /\ p.answered.n < 0 =>
        p.winChanceLoss = 0 /\ p.category \in {"best", "good"}
  BY <1>3, <1>4, <1>6
<1>10. QED BY <1>7, <1>8, <1>9 DEF p, next, Judged

\* Of the evaluation on the board and of the plies before it.
JudgedInv ==
  /\ mover \in Judging!Sides /\ said \in Judging!Scores
  /\ current = Judging!ToWhitePov(said, mover)
  /\ judged \in Seq(JudgedPlies)
  /\ \A k \in 1..Len(judged) : Judged(judged[k])

LEMMA Scored ==
  /\ Judging!Reports \subseteq Judging!Scores /\ Judging!Mate(-1) \in Judging!Scores
  /\ Judging!Plain(0) \in Judging!Scores
  /\ Judging!ToWhitePov(Judging!Mate(-1), "black") = Judging!Mate(1)
  /\ Judging!ToWhitePov(Judging!Mate(-1), "white") = Judging!Mate(-1)
  /\ Judging!ToWhitePov(Judging!Plain(0), "black") = Judging!Plain(0)
  /\ Judging!ToWhitePov(Judging!Plain(0), "white") = Judging!Plain(0)
<1>1. \A n \in Int : Judging!Plain(n) \in Judging!Scores
  BY DEF Judging!Plain, Judging!Scores
<1>2. \A n \in Int \ {0} : Judging!Mate(n) \in Judging!Scores
  BY DEF Judging!Mate, Judging!Scores
<1>3. Judging!Reports \subseteq Judging!Scores
  BY <1>1, <1>2, GradingAssumption DEF Judging!Reports
<1>4. [Judging!Mate(-1) EXCEPT !.n = -Judging!Mate(-1).n] = Judging!Mate(1)
  <2>1. /\ Judging!Mate(-1).mate = TRUE /\ Judging!Mate(-1).n \in Int
        /\ Judging!Mate(-1).n + 1 = 0
    BY DEF Judging!Mate
  <2>2. [Judging!Mate(-1) EXCEPT !.n = -Judging!Mate(-1).n] = [mate |-> Judging!Mate(-1).mate, n |-> -Judging!Mate(-1).n]
    BY <1>2, Negated
  <2>3. \A n \in Int : n + 1 = 0 => -n = 1
    OBVIOUS
  <2>4. -Judging!Mate(-1).n = 1
    BY <2>1, <2>3
  <2>5. QED BY <2>1, <2>2, <2>4 DEF Judging!Mate
<1>5. [Judging!Plain(0) EXCEPT !.n = -Judging!Plain(0).n] = Judging!Plain(0)
  <2>1. Judging!Plain(0).mate = FALSE /\ Judging!Plain(0).n = 0
    BY DEF Judging!Plain
  <2>2. [Judging!Plain(0) EXCEPT !.n = -Judging!Plain(0).n] = [mate |-> Judging!Plain(0).mate, n |-> -Judging!Plain(0).n]
    BY <1>1, Negated
  <2>3. QED BY <2>1, <2>2 DEF Judging!Plain
<1>6. QED BY <1>1, <1>2, <1>3, <1>4, <1>5 DEF Judging!ToWhitePov

\* Both ways to judge a ply, at once.
LEMMA Appended ==
  ASSUME JudgedInv, NEW answer \in Judging!Scores, NEW best \in BOOLEAN,
         judged' = Append(judged, Judging!ClassifyPly(Judging!ToWhitePov(answer, Judging!Other(mover)), best, answer)),
         said' = answer, current' = Judging!ToWhitePov(answer, Judging!Other(mover)), mover' = Judging!Other(mover)
  PROVE  JudgedInv'
<1> DEFINE p == Judging!ClassifyPly(Judging!ToWhitePov(answer, Judging!Other(mover)), best, answer)
<1>1. Judged(p)
  BY PlyJudged DEF JudgedInv
<1> HIDE DEF p
<1>2. p \in JudgedPlies
  BY <1>1 DEF Judged
<1>3. judged' = Append(judged, p)
  BY DEF p
<1>4. judged' \in Seq(JudgedPlies)
  BY <1>2, <1>3 DEF JudgedInv
<1>5. ASSUME NEW k \in 1..Len(judged') PROVE Judged(judged'[k])
  <2>1. CASE k = Len(judged) + 1
    BY <1>1, <1>2, <1>3, <2>1 DEF JudgedInv
  <2>2. CASE k \in 1..Len(judged)
    BY <1>2, <1>3, <2>2 DEF JudgedInv
  <2>3. QED BY <1>2, <1>3, <2>1, <2>2 DEF JudgedInv
<1>6. mover' \in Judging!Sides
  BY DEF JudgedInv, Judging!Sides, Judging!Other
<1>7. (\A k \in 1..Len(judged) : Judged(judged[k]))'
  BY <1>5 DEF Judged, Judging!Cost, Judging!ScoreToWinChance, Judging!WinChance, JudgedPlies
<1>8. Judging!ToWhitePov(said, mover)' = Judging!ToWhitePov(answer, Judging!Other(mover))
  BY DEF Judging!ToWhitePov
<1>9. QED BY <1>4, <1>6, <1>7, <1>8 DEF JudgedInv

LEMMA KeptInit == Judging!Init => JudgedInv
<1>1. ASSUME Judging!Init PROVE judged \in Seq(JudgedPlies) /\ Len(judged) = 0
  BY <1>1 DEF Judging!Init
<1>2. QED BY <1>1, Scored DEF Judging!Init, JudgedInv

LEMMA KeptNext ==
  ASSUME JudgedInv, [Judging!Next]_Judging!vars
  PROVE  JudgedInv'
<1>1. ASSUME NEW best \in BOOLEAN, NEW answer \in Judging!Reports, Judging!Graded(best, answer)
      PROVE  JudgedInv'
  BY <1>1, Scored, Appended DEF Judging!Graded
<1>2. ASSUME NEW best \in BOOLEAN, NEW mates \in BOOLEAN, Judging!GradedByTheRules(best, mates)
      PROVE  JudgedInv'
  <2> DEFINE heard == IF mates THEN Judging!Mate(-1) ELSE Judging!Plain(0)
  <2>1. Judging!TerminalScoreOf(IF mates THEN mover ELSE "nobody") = Judging!ToWhitePov(heard, Judging!Other(mover))
    <3>1. CASE mover = "white"
      BY <3>1, Scored DEF Judging!TerminalScoreOf, Judging!Other
    <3>2. CASE mover = "black"
      BY <3>2, Scored DEF Judging!TerminalScoreOf, Judging!Other
    <3>3. QED BY <3>1, <3>2 DEF JudgedInv, Judging!Sides
  <2>2. heard \in Judging!Scores
    BY Scored
  <2>3. QED BY <1>2, <2>1, <2>2, Appended DEF Judging!GradedByTheRules
<1>3. ASSUME Judging!NextGame PROVE JudgedInv'
  <2>1. judged' \in Seq(JudgedPlies) /\ Len(judged') = 0
    BY <1>3 DEF Judging!NextGame
  <2>2. Judging!ToWhitePov(said, mover)' = Judging!ToWhitePov(said', mover')
    BY DEF Judging!ToWhitePov
  <2>3. QED BY <1>3, <2>1, <2>2, Scored DEF Judging!NextGame, JudgedInv
<1>4. ASSUME UNCHANGED Judging!vars PROVE JudgedInv'
  <2>1. UNCHANGED <<mover, said, current, judged>>
    BY <1>4 DEF Judging!vars
  <2>2. Judging!ToWhitePov(said, mover)' = Judging!ToWhitePov(said', mover')
    BY DEF Judging!ToWhitePov
  <2>3. /\ mover' \in Judging!Sides /\ said' \in Judging!Scores
        /\ (current = Judging!ToWhitePov(said, mover))'
        /\ judged' \in Seq(JudgedPlies)
    BY <2>1, <2>2 DEF JudgedInv
  <2>4. ASSUME NEW k \in 1..Len(judged') PROVE Judged(judged[k])'
    <3>1. Judged(judged[k])
      BY <2>1 DEF JudgedInv
    <3>2. QED
      BY <2>1, <3>1 DEF Judged, Judging!Cost, Judging!ScoreToWinChance, Judging!WinChance
  <2>5. QED BY <2>3, <2>4 DEF JudgedInv
<1>5. QED BY <1>1, <1>2, <1>3, <1>4 DEF Judging!Next

LEMMA GradingPart == AllSpec => Judging!Spec
<1>1. Starts => Judging!Init
  BY DEF Starts
<1>2. [AnyStep]_allVars => [Judging!Next]_Judging!vars
  <2>1. ASSUME AnyStep PROVE [Judging!Next]_Judging!vars
    BY <2>1 DEF AnyStep, Alone, gradingVars, Judging!vars
  <2>2. ASSUME UNCHANGED allVars PROVE UNCHANGED Judging!vars
    BY <2>2 DEF allVars, gradingVars, Judging!vars
  <2>3. QED BY <2>1, <2>2
<1>3. QED BY <1>1, <1>2, PTL DEF AllSpec, Judging!Spec

\* Every ply is judged by its own mover's chances, whichever colour that is and
\* whoever scored the positions around it, and a move that mates or forces
\* mate is no mistake (classifyMove, toWhitePov, terminalScoreOf).
THEOREM FairJudgement == AllSpec => []JudgedFairly
<1>1. JudgedInv => JudgedFairly
  BY DEF JudgedInv, Judged, JudgedFairly, Judging!JudgedFairly
<1>2. QED BY GradingPart, KeptInit, KeptNext, <1>1, PTL DEF Judging!Spec

\* The evaluation kept is a score too.
LEMMA GradingTyped == JudgedInv /\ over \in BOOLEAN => Judging!TypeOK
<1> SUFFICES ASSUME JudgedInv, over \in BOOLEAN PROVE Judging!TypeOK
  OBVIOUS
<1>1. current \in Judging!Scores
  BY ScoreOdd DEF JudgedInv, Judging!ToWhitePov
<1>2. \A k \in 1..Len(judged) : judged[k] \in JudgedPlies
  BY DEF JudgedInv, Judged
<1>3. QED BY <1>1, <1>2 DEF JudgedInv, JudgedPlies, Judging!TypeOK

LEMMA GradingStaysTyped == AllSpec => []Judging!TypeOK
<1> DEFINE Inv == JudgedInv /\ over \in BOOLEAN
<1>1. Judging!Init => Inv
  BY KeptInit DEF Judging!Init
<1>2. Inv /\ [Judging!Next]_Judging!vars => Inv'
  <2> SUFFICES ASSUME Inv, [Judging!Next]_Judging!vars PROVE Inv'
    OBVIOUS
  <2>1. over' \in BOOLEAN
    BY DEF Judging!Next, Judging!Graded, Judging!GradedByTheRules, Judging!NextGame,
           Judging!vars
  <2>2. QED BY <2>1, KeptNext
<1>3. Inv => Judging!TypeOK
  BY GradingTyped
<1> HIDE DEF Inv
<1>4. QED BY GradingPart, <1>1, <1>2, <1>3, PTL DEF Judging!Spec

-----------------------------------------------------------------------------
(* The search stream, for any number of lines.                             *)

\* A search that still runs was not cancelled; only one that ended settles, and
\* the reader that was told of the end had taken every line that led to it.
StreamInv ==
  /\ Stream!TypeOK
  /\ wake <=> reader = "asleep"
  /\ reader = "asleep" => queue = <<>> /\ ~finished
  /\ got \o queue = [n \in 1..Stream!Reported |-> n]
  /\ task = "running" => ~finished
  /\ settled # "pending" => finished
  /\ settled = "answer" => task = "answered"
  /\ reader \in {"settling", "done"} => finished
  /\ reader \in {"settling", "done"} /\ task = "answered" => queue = <<>>

\* The numbers 1 to k, one more of them, one line more in the queue, and one
\* that moves from the queue to the consumer.
LEMMA Counting ==
  ASSUME NEW s \in Seq(Nat), NEW k \in Nat, Len(s) = k, \A n \in 1..k : s[n] = n
  PROVE  s = [n \in 1..k |-> n]
BY LenProperties

LEMMA CountedOn ==
  ASSUME NEW s \in Seq(Nat), NEW k \in Nat, s = [n \in 1..k |-> n]
  PROVE  Append(s, k + 1) = [n \in 1..(k + 1) |-> n]
<1>1. Len(s) = k /\ \A n \in 1..k : s[n] = n
  OBVIOUS
<1>2. /\ Append(s, k + 1) \in Seq(Nat) /\ Len(Append(s, k + 1)) = k + 1
      /\ \A n \in 1..k : Append(s, k + 1)[n] = s[n]
      /\ Append(s, k + 1)[k + 1] = k + 1
  BY <1>1, AppendProperties
<1>3. \A n \in 1..(k + 1) : Append(s, k + 1)[n] = n
  <2>1. \A n \in 1..(k + 1) : n \in 1..k \/ n = k + 1
    OBVIOUS
  <2>2. QED BY <1>1, <1>2, <2>1
<1>4. k + 1 \in Nat
  OBVIOUS
<1>5. QED BY <1>2, <1>3, <1>4, Counting

LEMMA AppendLast ==
  ASSUME NEW S, NEW g \in Seq(S), NEW q \in Seq(S), NEW x \in S
  PROVE  /\ g \o Append(q, x) = Append(g \o q, x)
         /\ Append(q, x) \in Seq(S) /\ Len(Append(q, x)) = Len(q) + 1
<1>1. <<x>> \in Seq(S) /\ g \o q \in Seq(S)
  BY ConcatProperties
<1>2. Append(q, x) = q \o <<x>> /\ Append(g \o q, x) = (g \o q) \o <<x>>
  BY <1>1, AppendIsConcat
<1>3. g \o (q \o <<x>>) = (g \o q) \o <<x>>
  BY <1>1, ConcatAssociative
<1>4. QED BY <1>2, <1>3, AppendProperties

LEMMA OneTaken ==
  ASSUME NEW S, NEW g \in Seq(S), NEW q \in Seq(S), q # <<>>
  PROVE  /\ Append(g, Head(q)) \in Seq(S) /\ Tail(q) \in Seq(S)
         /\ Append(g, Head(q)) \o Tail(q) = g \o q
         /\ Len(Append(g, Head(q))) + Len(Tail(q)) = Len(g) + Len(q)
<1>1. /\ Head(q) \in S /\ Tail(q) \in Seq(S) /\ Len(Tail(q)) = Len(q) - 1
      /\ <<Head(q)>> \in Seq(S) /\ q = <<Head(q)>> \o Tail(q)
  BY HeadTailProperties
<1>2. Append(g, Head(q)) = g \o <<Head(q)>> /\ Append(g, Head(q)) \in Seq(S)
      /\ Len(Append(g, Head(q))) = Len(g) + 1
  BY <1>1, AppendIsConcat, AppendProperties
<1>3. (g \o <<Head(q)>>) \o Tail(q) = g \o (<<Head(q)>> \o Tail(q))
  BY <1>1, ConcatAssociative
<1>4. Len(g) \in Nat /\ Len(q) \in Nat
  BY LenProperties
<1>5. QED BY <1>1, <1>2, <1>3, <1>4

LEMMA NoneYet == <<>> \o <<>> = [n \in 1..(Len(<<>>) + Len(<<>>)) |-> n]
<1>1. <<>> \in Seq(Nat) /\ Len(<<>>) = 0
  OBVIOUS
<1>2. <<>> \o <<>> = <<>>
  BY <1>1, ConcatEmptySeq
<1>3. <<>> = [n \in 1..0 |-> n]
  OBVIOUS
<1>4. Len(<<>>) + Len(<<>>) = 0
  BY <1>1
<1>5. QED BY <1>2, <1>3, <1>4

LEMMA StreamInit == Stream!Init => StreamInv
<1> SUFFICES ASSUME Stream!Init PROVE StreamInv
  OBVIOUS
<1>1. got = <<>> /\ queue = <<>>
  BY DEF Stream!Init
<1>2. got \o queue = [n \in 1..(Len(got) + Len(queue)) |-> n]
  BY <1>1, NoneYet
<1>3. /\ Stream!TypeOK /\ reader = "out" /\ task = "running" /\ settled = "pending"
      /\ ~finished /\ ~wake
  <2>1. /\ task = "running" /\ settled = "pending" /\ ~finished /\ ~wake /\ reader = "out"
        /\ finished \in BOOLEAN /\ wake \in BOOLEAN
    BY DEF Stream!Init
  <2>2. <<>> \in Seq(Stream!Lines)
    OBVIOUS
  <2>3. QED BY <1>1, <2>1, <2>2 DEF Stream!TypeOK
<1>4. QED BY <1>2, <1>3 DEF StreamInv, Stream!Reported

LEMMA StreamNext == StreamInv /\ [Stream!Next]_Stream!vars => StreamInv'
<1> SUFFICES ASSUME StreamInv, [Stream!Next]_Stream!vars PROVE StreamInv'
  OBVIOUS
<1> USE DEF StreamInv, Stream!TypeOK, Stream!Reported
<1>0. /\ queue \in Seq(Nat) /\ got \in Seq(Nat) /\ got \o queue \in Seq(Nat)
      /\ Len(queue) \in Nat /\ Len(got) \in Nat
  <2>1. Stream!Lines \subseteq Nat
    BY DEF Stream!Lines
  <2>2. queue \in Seq(Nat) /\ got \in Seq(Nat)
    BY <2>1, SeqMonotonic
  <2>3. QED BY <2>2, LenProperties, ConcatProperties
<1>1. CASE Stream!Report
  <2> DEFINE k == Len(got) + Len(queue)
  <2>1. /\ k \in Nat /\ k + 1 \in Stream!Lines
        /\ queue' = Append(queue, k + 1) /\ got' = got
    BY <1>1, <1>0, BoundsAssumption DEF Stream!Report, Stream!Lines
  <2>a. queue' \in Seq(Stream!Lines)
    BY <2>1, AppendProperties
  <2>b. got \o queue = [n \in 1..k |-> n]
    OBVIOUS
  <2> HIDE DEF k
  <2>c. got' \o queue' = Append(got \o queue, k + 1) /\ Len(queue') = Len(queue) + 1
    <3>1. k + 1 \in Nat
      BY <2>1
    <3> HIDE DEF StreamInv
    <3>2. /\ got \o Append(queue, k + 1) = Append(got \o queue, k + 1)
          /\ Len(Append(queue, k + 1)) = Len(queue) + 1
      BY <3>1, <1>0, AppendLast
    <3>3. QED BY <2>1, <3>2
  <2>d. got' \o queue' = [n \in 1..(k + 1) |-> n]
    BY <2>1, <2>b, <2>c, <1>0, CountedOn
  <2>e. Len(got') + Len(queue') = k + 1
    BY <2>1, <2>c, <1>0 DEF k
  <2>2. (got \o queue = [n \in 1..Stream!Reported |-> n])'
    BY <2>d, <2>e
  <2>3. QED BY <1>1, <2>a, <2>2 DEF Stream!Report, Stream!Notify
<1>2. CASE Stream!TaskEnds
  BY <1>2 DEF Stream!TaskEnds, Stream!Answers, Stream!Fails, Stream!Unwinds
<1>3. CASE Stream!Settle
  BY <1>3 DEF Stream!Settle, Stream!Notify
<1>4. CASE Stream!Ask
  BY <1>4 DEF Stream!Ask
<1>5. CASE Stream!Yield
  <2>1. /\ got' \in Seq(Stream!Lines) /\ queue' \in Seq(Stream!Lines)
        /\ got' \o queue' = got \o queue
        /\ Len(got') + Len(queue') = Len(got) + Len(queue)
    <3>1. got \in Seq(Stream!Lines) /\ queue \in Seq(Stream!Lines) /\ queue # <<>>
      BY <1>5, <1>0 DEF Stream!Yield
    <3>2. got' = Append(got, Head(queue)) /\ queue' = Tail(queue)
      BY <1>5 DEF Stream!Yield
    <3>3. /\ Append(got, Head(queue)) \in Seq(Stream!Lines) /\ Tail(queue) \in Seq(Stream!Lines)
          /\ Append(got, Head(queue)) \o Tail(queue) = got \o queue
          /\ Len(Append(got, Head(queue))) + Len(Tail(queue)) = Len(got) + Len(queue)
      BY <3>1, OneTaken
    <3>4. QED BY <3>2, <3>3
  <2>2. got' \o queue' = [n \in 1..(Len(got') + Len(queue')) |-> n]
    <3>1. got \o queue = [n \in 1..(Len(got) + Len(queue)) |-> n]
      BY <1>0
    <3>2. QED BY <2>1, <3>1
  <2>3. (got \o queue = [n \in 1..Stream!Reported |-> n])'
    BY <2>2
  <2>4. QED BY <1>5, <2>1, <2>3 DEF Stream!Yield
<1>6. CASE Stream!Wait
  BY <1>6 DEF Stream!Wait
<1>7. CASE Stream!Return
  BY <1>7 DEF Stream!Return
<1>8. CASE Stream!Cancel
  BY <1>8 DEF Stream!Cancel, Stream!Notify
<1>9. CASE Stream!Evaluate
  <2>1. got' = <<>> /\ queue' = <<>>
    BY <1>9 DEF Stream!Evaluate
  <2>2. got' \o queue' = [n \in 1..(Len(got') + Len(queue')) |-> n]
    BY <2>1, NoneYet
  <2>3. /\ Stream!TypeOK' /\ reader' = "out" /\ task' = "running" /\ settled' = "pending"
        /\ ~finished' /\ ~wake'
    <3>1. /\ task' = "running" /\ settled' = "pending" /\ ~finished' /\ ~wake'
          /\ reader' = "out"
          /\ finished' \in BOOLEAN /\ wake' \in BOOLEAN
      BY <1>9 DEF Stream!Evaluate
    <3>2. <<>> \in Seq(Stream!Lines)
      OBVIOUS
    <3>3. QED BY <2>1, <3>1, <3>2
  <2>4. (got \o queue = [n \in 1..Stream!Reported |-> n])'
    BY <2>2
  <2> HIDE DEF Stream!TypeOK, Stream!Reported
  <2>5. QED BY <2>3, <2>4
<1>10. CASE UNCHANGED Stream!vars
  BY <1>10 DEF Stream!vars
<1>11. QED
  BY <1>1, <1>2, <1>3, <1>4, <1>5, <1>6, <1>7, <1>8, <1>9, <1>10 DEF Stream!Next

LEMMA StreamPart == AllSpec => Stream!Spec
<1>1. Starts => Stream!Init
  BY DEF Starts
<1>2. [AnyStep]_allVars => [Stream!Next]_Stream!vars
  <2>1. ASSUME AnyStep PROVE [Stream!Next]_Stream!vars
    BY <2>1 DEF AnyStep, Alone, streamVars, Stream!vars
  <2>2. ASSUME UNCHANGED allVars PROVE UNCHANGED Stream!vars
    BY <2>2 DEF allVars, streamVars, Stream!vars
  <2>3. QED BY <2>1, <2>2
<1>3. QED BY <1>1, <1>2, PTL DEF AllSpec, Stream!Spec

\* A reader never sleeps over a line or over the end of its search, is handed
\* every line once and in order, and is given an answer only after the last
\* line that led to it (searchPosition).
THEOREM ReaderIsServed == AllSpec => []ReaderMissesNothing
<1>1. StreamInv => ReaderMissesNothing
  BY DEF StreamInv, ReaderMissesNothing, Stream!ReaderMissesNothing
<1>2. QED BY StreamPart, StreamInit, StreamNext, <1>1, PTL DEF Stream!Spec

-----------------------------------------------------------------------------
(* The review of a game, of any length, with any trial moves.              *)

\* An answer is of the position it was asked for, the best move shown is that
\* of the ply on the board, and the evaluators alive are the one referred to.
ReviewInv ==
  /\ Board!TypeOK
  /\ variation # Nothing => variation.cursor = Len(variation.moves)
  /\ answered # Nothing => answered.score = answered.fen
  /\ showBestMove => revealedAt = ply
  /\ Board!NoEvaluatorLeft

LEMMA ReviewInit == Board!Init => ReviewInv
<1> SUFFICES ASSUME Board!Init PROVE ReviewInv
  OBVIOUS
<1>1. Board!TypeOK
  <2>1. /\ ply = 0 /\ variation = Nothing /\ showBestMove \in BOOLEAN /\ revealedAt = 0
        /\ graded = 0 /\ mounted \in BOOLEAN /\ evaluating = Nothing
        /\ evaluatorRef = Nothing
        /\ evaluators = {} /\ searches = {} /\ answered = Nothing
    BY DEF Board!Init
  <2>2. QED BY <2>1, ReviewAssumption DEF Board!TypeOK
<1>2. QED BY <1>1 DEF Board!Init, ReviewInv, Board!NoEvaluatorLeft

\* What is on the board is a position, and a move more still is one.
LEMMA LineTyped ==
  ASSUME Board!TypeOK, variation # Nothing => variation.cursor = Len(variation.moves)
  PROVE  Board!Line \in Seq(Moves) /\ Board!Fen \in Board!Positions
<1>1. CASE variation = Nothing
  <2>1. Board!Line = <<>> /\ Board!Fen = <<ply, <<>>>>
    BY <1>1 DEF Board!Line, Board!InVariation, Board!Fen
  <2>2. <<>> \in Seq(Moves)
    OBVIOUS
  <2>3. QED BY <2>1, <2>2 DEF Board!Positions, Board!TypeOK
<1>2. CASE variation # Nothing
  <2>1. variation.moves \in Seq(Moves) /\ variation.cursor \in Nat \ {0}
    BY <1>2 DEF Board!TypeOK, Board!Variations
  <2>2. SubSeq(variation.moves, 1, variation.cursor) \in Seq(Moves)
    BY <1>2, <2>1, SubSeqProperties, LenProperties
  <2>3. QED BY <1>2, <2>2
            DEF Board!Line, Board!InVariation, Board!Fen, Board!Positions, Board!TypeOK
<1>3. QED BY <1>1, <1>2

LEMMA CancelledTyped == Board!TypeOK => Board!Cancelled \subseteq Board!Searches
BY DEF Board!TypeOK, Board!Cancelled, Board!Searches

LEMMA AskedTyped ==
  ASSUME NEW position \in Board!Positions, NEW e \in Evaluators
  PROVE  [fen |-> position, on |-> e, asked |-> TRUE] \in Board!Searches
BY DEF Board!Searches

LEMMA ReviewNext == ReviewInv /\ [Board!Next]_Board!vars => ReviewInv'
<1> SUFFICES ASSUME ReviewInv, [Board!Next]_Board!vars PROVE ReviewInv'
  OBVIOUS
<1> USE DEF Board!storeVars, Board!hookVars
<1>0. /\ Board!TypeOK /\ Board!NoEvaluatorLeft
      /\ Board!Line \in Seq(Moves) /\ Board!Fen \in Board!Positions
      /\ Length \in Nat /\ Nothing \notin Evaluators
  BY LineTyped, ReviewAssumption DEF ReviewInv
<1>1. ASSUME NEW target \in Int, Board!GoToPly(target) PROVE ReviewInv'
  <2>1. ply' \in 0..Length
    BY <1>0, <1>1 DEF Board!GoToPly, Board!Clamped
  <2>2. QED BY <1>0, <1>1, <2>1
            DEF ReviewInv, Board!TypeOK, Board!GoToPly, Board!NoEvaluatorLeft
<1>2. ASSUME Board!Step(1) \/ Board!Step(-1) PROVE ReviewInv'
  <2>1. ply + 1 \in Int /\ ply + (-1) \in Int
    BY <1>0 DEF Board!TypeOK
  <2>2. QED BY <1>1, <1>2, <2>1 DEF Board!Step
<1>3. ASSUME NEW m \in Moves, Board!PlayMove(m) PROVE ReviewInv'
  <2>1. /\ variation' = [moves |-> Append(Board!Line, m), cursor |-> Len(Board!Line) + 1]
        /\ UNCHANGED <<ply, showBestMove, revealedAt, graded, mounted, evaluating, evaluatorRef,
                       evaluators, searches, answered>>
    BY <1>3 DEF Board!PlayMove
  <2>2. /\ Append(Board!Line, m) \in Seq(Moves) \ {<<>>}
        /\ Len(Board!Line) + 1 \in Nat \ {0}
        /\ Len(Append(Board!Line, m)) = Len(Board!Line) + 1
    BY <1>0, AppendProperties, LenProperties
  <2>3. variation' \in Board!Variations /\ variation'.cursor = Len(variation'.moves)
    BY <2>1, <2>2 DEF Board!Variations
  <2>4. QED BY <1>0, <2>1, <2>3 DEF ReviewInv, Board!TypeOK, Board!NoEvaluatorLeft
<1>4. ASSUME Board!RevealBestMove PROVE ReviewInv'
  BY <1>0, <1>4 DEF ReviewInv, Board!TypeOK, Board!RevealBestMove, Board!NoEvaluatorLeft
<1>5. ASSUME Board!ReportChanges PROVE ReviewInv'
  <2>1. graded' \in 0..Length
    BY <1>0, <1>5 DEF Board!ReportChanges
  <2>2. QED BY <1>0, <1>5, <2>1
            DEF ReviewInv, Board!TypeOK, Board!ReportChanges, Board!NoEvaluatorLeft
<1>6. ASSUME Board!RunEffect PROVE ReviewInv'
  <2>1. /\ evaluating' = Board!VariationFen
        /\ UNCHANGED <<ply, variation, showBestMove, revealedAt, graded, mounted, answered>>
    BY <1>6 DEF Board!RunEffect
  <2>2. evaluating' \in Board!Positions \cup {Nothing}
    BY <1>0, <2>1 DEF Board!VariationFen
  <2>3. CASE Board!InVariation /\ evaluatorRef # Nothing
    <3>1. /\ evaluatorRef' = evaluatorRef /\ evaluators' = evaluators
          /\ searches' = Board!Cancelled \cup {[fen |-> Board!Fen, on |-> evaluatorRef', asked |-> TRUE]}
      BY <1>6, <2>3 DEF Board!RunEffect
    <3>2. evaluatorRef' \in Evaluators
      BY <3>1, <2>3, <1>0 DEF Board!TypeOK
    <3>3. searches' \subseteq Board!Searches
      BY <3>1, <3>2, <1>0, CancelledTyped, AskedTyped
    <3>4. QED BY <1>0, <2>1, <2>2, <3>1, <3>2, <3>3
              DEF ReviewInv, Board!TypeOK, Board!NoEvaluatorLeft
  <2>4. CASE Board!InVariation /\ evaluatorRef = Nothing
    <3>1. /\ evaluatorRef' \in Evaluators /\ evaluators' = evaluators \cup {evaluatorRef'}
          /\ searches' = Board!Cancelled \cup {[fen |-> Board!Fen, on |-> evaluatorRef', asked |-> TRUE]}
      BY <1>6, <2>4 DEF Board!RunEffect
    <3>2. evaluators' = {evaluatorRef'} \ {Nothing} /\ evaluators' \subseteq Evaluators
      BY <3>1, <2>4, <1>0 DEF Board!NoEvaluatorLeft
    <3>3. searches' \subseteq Board!Searches
      BY <3>1, <1>0, CancelledTyped, AskedTyped
    <3>4. QED BY <1>0, <2>1, <2>2, <3>1, <3>2, <3>3
              DEF ReviewInv, Board!TypeOK, Board!NoEvaluatorLeft
  <2>5. CASE ~Board!InVariation
    <3>1. searches' = Board!Cancelled /\ UNCHANGED <<evaluatorRef, evaluators>>
      BY <1>6, <2>5 DEF Board!RunEffect
    <3>2. QED
      BY <1>0, <2>1, <2>2, <3>1, CancelledTyped
      DEF ReviewInv, Board!TypeOK, Board!NoEvaluatorLeft
  <2>6. QED BY <2>3, <2>4, <2>5
<1>7. ASSUME NEW s \in searches, Board!Settles(s) \/ Board!Dies(s) PROVE ReviewInv'
  <2>1. s.fen \in Board!Positions
    BY <1>0 DEF Board!TypeOK, Board!Searches
  <2>2. /\ answered' \in Board!Answers \cup {Nothing}
        /\ answered' # Nothing => answered'.score = answered'.fen
    <3>1. CASE answered' = answered
      BY <1>0, <3>1 DEF ReviewInv, Board!TypeOK
    <3>2. CASE answered' = [fen |-> s.fen, score |-> s.fen]
      BY <2>1, <3>2 DEF Board!Answers
    <3>3. QED BY <1>7, <3>1, <3>2 DEF Board!Settles, Board!Dies
  <2>3. searches' \subseteq Board!Searches
    BY <1>0, <1>7 DEF Board!Settles, Board!Dies, Board!TypeOK
  <2>4. UNCHANGED <<ply, variation, showBestMove, revealedAt, graded, mounted, evaluating, evaluatorRef, evaluators>>
    BY <1>7 DEF Board!Settles, Board!Dies
  <2>5. QED BY <1>0, <2>2, <2>3, <2>4 DEF ReviewInv, Board!TypeOK, Board!NoEvaluatorLeft
<1>8. ASSUME Board!Unmount PROVE ReviewInv'
  <2>1. /\ mounted' \in BOOLEAN /\ evaluatorRef' = Nothing /\ evaluators' = {}
        /\ searches' \subseteq Board!Searches /\ evaluating' = Nothing
    BY <1>0, <1>8, CancelledTyped DEF Board!Unmount, Board!NoEvaluatorLeft
  <2>2. UNCHANGED <<ply, variation, showBestMove, revealedAt, graded, answered>>
    BY <1>8 DEF Board!Unmount
  <2>3. QED BY <1>0, <2>1, <2>2 DEF ReviewInv, Board!TypeOK, Board!NoEvaluatorLeft
<1>9. ASSUME Board!Mount PROVE ReviewInv'
  <2>1. /\ mounted' \in BOOLEAN
        /\ UNCHANGED <<graded, evaluating, evaluatorRef, evaluators, searches>>
        /\ \/ UNCHANGED <<ply, variation, showBestMove, revealedAt, answered>>
           \/ ply' = 0 /\ variation' = Nothing /\ ~showBestMove' /\ showBestMove' \in BOOLEAN
              /\ revealedAt' = 0 /\ answered' = Nothing
    BY <1>9 DEF Board!Mount
  <2>2. QED BY <1>0, <2>1 DEF ReviewInv, Board!TypeOK, Board!NoEvaluatorLeft
<1>10. ASSUME UNCHANGED Board!vars PROVE ReviewInv'
  BY <1>0, <1>10 DEF ReviewInv, Board!TypeOK, Board!vars, Board!NoEvaluatorLeft
<1>11. QED
  BY <1>0, <1>1, <1>2, <1>3, <1>4, <1>5, <1>6, <1>7, <1>8, <1>9, <1>10 DEF Board!Next

LEMMA ReviewPart == AllSpec => Board!Spec
<1>1. Starts => Board!Init
  BY DEF Starts
<1>2. [AnyStep]_allVars => [Board!Next]_Board!vars
  <2>1. ASSUME AnyStep PROVE [Board!Next]_Board!vars
    BY <2>1 DEF AnyStep, Alone, reviewVars, Board!vars, Board!storeVars, Board!hookVars
  <2>2. ASSUME UNCHANGED allVars PROVE UNCHANGED Board!vars
    BY <2>2 DEF allVars, reviewVars, Board!vars, Board!storeVars, Board!hookVars
  <2>3. QED BY <2>1, <2>2
<1>3. QED BY <1>1, <1>2, PTL DEF AllSpec, Board!Spec

\* Whatever is beside the board is about the position on it, however late an
\* answer comes (board-evaluation, use-variation-evaluation, use-board-review).
THEOREM BarIsOfTheBoard == AllSpec => []ShownIsOfTheBoard
<1>1. ReviewInv => ShownIsOfTheBoard
  BY DEF ReviewInv, ShownIsOfTheBoard, Board!ShownIsOfTheBoard, Board!BarReading,
         Board!VariationScore,
         Board!VariationFen, Board!Suggestion, Board!InVariation, Board!Fen, Board!Line
<1>2. QED BY ReviewPart, ReviewInit, ReviewNext, <1>1, PTL DEF Board!Spec

\* The hook asks no evaluator that was disposed of and leaves none behind
\* (use-variation-evaluation).
THEOREM EvaluatorsAreDisposed == AllSpec => []NoEvaluatorLeft
<1>1. ReviewInv => NoEvaluatorLeft
  BY DEF ReviewInv, NoEvaluatorLeft
<1>2. QED BY ReviewPart, ReviewInit, ReviewNext, <1>1, PTL DEF Board!Spec

-----------------------------------------------------------------------------
(* The gestures on the board, for any squares and any moves.               *)

LEMMA InputInit == Input!Init => Input!TypeOK
BY ReviewAssumption DEF Input!Init, Input!TypeOK

\* A move that is played is one of the position on the board, and the last.
LEMMA Played ==
  ASSUME Input!TypeOK, NEW here, NEW there, Input!PlayMove(here, there)
  PROVE  \/ trial' = trial
         \/ \E m \in Input!Legal : /\ m.from = here /\ m.to = there /\ trial' = Append(trial, m)
                                   /\ trial' \in Seq(BoardMoves) /\ trial'[Len(trial')] = m
<1>1. CASE trial' = trial
  BY <1>1
<1>2. CASE \E m \in Input!Legal : m.from = here /\ m.to = there /\ trial' = Append(trial, m)
  <2>1. PICK m \in Input!Legal : m.from = here /\ m.to = there /\ trial' = Append(trial, m)
    BY <1>2
  <2>2. m \in BoardMoves /\ trial \in Seq(BoardMoves)
    BY DEF Input!Legal, Input!TypeOK
  <2>3. trial' \in Seq(BoardMoves) /\ trial'[Len(trial')] = m
    BY <2>1, <2>2, AppendProperties
  <2>4. QED BY <2>1, <2>3
<1>3. QED BY <1>1, <1>2 DEF Input!PlayMove

LEMMA InputNext == Input!TypeOK /\ [Input!Next]_Input!vars => Input!TypeOK'
<1> SUFFICES ASSUME Input!TypeOK, [Input!Next]_Input!vars PROVE Input!TypeOK'
  OBVIOUS
<1>1. Input!Position \in (0..Length) \X Seq(BoardMoves)
  BY DEF Input!TypeOK, Input!Position
<1>2. ASSUME NEW target \in 0..Length, Input!GoToPly(target) PROVE Input!TypeOK'
  BY <1>2 DEF Input!GoToPly, Input!TypeOK
<1>3. ASSUME NEW s \in Squares, NEW piece \in BOOLEAN, Input!SelectOrMove(s, piece)
      PROVE  Input!TypeOK'
  <2>1. trial' \in Seq(BoardMoves)
    BY <1>3, Played DEF Input!SelectOrMove, Input!TypeOK
  <2>2. /\ picked' \in {Nothing, [fen |-> Input!Position, square |-> s]}
        /\ UNCHANGED <<place, dragged>>
    BY <1>3 DEF Input!SelectOrMove
  <2>3. QED BY <1>1, <2>1, <2>2 DEF Input!TypeOK
<1>4. ASSUME NEW s \in Squares, Input!PieceDrag(s) PROVE Input!TypeOK'
  BY <1>1, <1>4 DEF Input!PieceDrag, Input!TypeOK
<1>5. ASSUME NEW s \in Squares, Input!PieceDrop(s) PROVE Input!TypeOK'
  BY <1>5, Played DEF Input!PieceDrop, Input!TypeOK
<1>6. CASE Input!PieceDragCancel
  BY <1>6 DEF Input!PieceDragCancel, Input!TypeOK
<1>7. CASE UNCHANGED Input!vars
  BY <1>7 DEF Input!vars, Input!TypeOK
<1>8. QED BY <1>2, <1>3, <1>4, <1>5, <1>6, <1>7 DEF Input!Next

LEMMA InputPart == AllSpec => Input!Spec
<1>1. Starts => Input!Init
  BY DEF Starts
<1>2. [AnyStep]_allVars => [Input!Next]_Input!vars
  <2>1. ASSUME AnyStep PROVE [Input!Next]_Input!vars
    BY <2>1 DEF AnyStep, Alone, inputVars, Input!vars
  <2>2. ASSUME UNCHANGED allVars PROVE UNCHANGED Input!vars
    BY <2>2 DEF allVars, inputVars, Input!vars
  <2>3. QED BY <2>1, <2>2
<1>3. QED BY <1>1, <1>2, PTL DEF AllSpec, Input!Spec

\* However the position changes between the two halves of a gesture, a move
\* that is played is one the position on the board allows, and two clicks play
\* it only from a piece picked in that very position (board.tsx,
\* playVariationMove).
THEOREM GesturePlaysTheBoard == AllSpec => PlaysWhatIsShown
<1> DEFINE Grows == Len(trial') > Len(trial)
           Shown == /\ Input!LastMove \in Input!Legal
                    /\ dragged = Nothing =>
                         picked = [fen |-> Input!Position, square |-> Input!LastMove.from]
<1>1. Input!TypeOK /\ [Input!Next]_Input!vars => [Grows => Shown]_Input!vars
  <2> SUFFICES ASSUME Input!TypeOK, Input!Next, Grows PROVE Shown
    OBVIOUS
  <2>0. trial \in Seq(BoardMoves) /\ Len(trial) \in Nat /\ trial' # trial /\ trial' # <<>>
    BY LenProperties DEF Input!TypeOK
  <2>1. ASSUME NEW s \in Squares, NEW piece \in BOOLEAN, Input!SelectOrMove(s, piece) PROVE Shown
    <3>1. Input!Selected # Nothing /\ Input!PlayMove(Input!Selected, s)
      BY <2>0, <2>1 DEF Input!SelectOrMove
    <3>2. PICK m \in Input!Legal : m.from = Input!Selected /\ trial'[Len(trial')] = m
      BY <3>1, <2>0, Played
    <3>3. picked # Nothing /\ picked.fen = Input!Position /\ Input!Selected = picked.square
      BY <3>1 DEF Input!Selected
    <3>4. picked = [fen |-> Input!Position, square |-> Input!Selected]
      BY <3>3 DEF Input!TypeOK
    <3>5. QED BY <3>2, <3>4 DEF Input!LastMove
  <2>2. ASSUME NEW s \in Squares, Input!PieceDrop(s) PROVE Shown
    <3>1. dragged # Nothing /\ Input!PlayMove(dragged, s)
      BY <2>2 DEF Input!PieceDrop
    <3>2. PICK m \in Input!Legal : trial'[Len(trial')] = m
      BY <3>1, <2>0, Played
    <3>3. QED BY <3>1, <3>2 DEF Input!LastMove
  <2>3. QED BY <2>0, <2>1, <2>2
    DEF Input!Next, Input!GoToPly, Input!PieceDrag, Input!PieceDragCancel
<1>2. QED
  BY InputPart, InputInit, InputNext, <1>1, PTL
  DEF Input!Spec, PlaysWhatIsShown, Input!PlaysWhatIsShown
===============================================================================
