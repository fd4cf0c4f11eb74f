---------------------------- MODULE PartsProofs -----------------------------
(***************************************************************************)
(* Proofs about the parts of MCParts that stand by themselves, for every    *)
(* value of their constants: what antispam.c promises (AntiSpam), the       *)
(* exchange of extensions at login (Handshake), the mutex file (RobustLock)  *)
(* and the commands on whole levels (LevelAdmin).  Each part has its own     *)
(* inductive invariant, one lemma or more for each of its actions, and then  *)
(* its theorems.                                                           *)
(***************************************************************************)
EXTENDS RobustLock, Handshake, LevelAdmin, AntiSpam, WellFoundedInduction, TLAPS

-----------------------------------------------------------------------------
(* AntiSpam: arithmetic *)


LEMMA DivBounds ==
  ASSUME NEW n \in Nat, NEW c \in Nat \ {0}
  PROVE  /\ n \div c \in Int
         /\ c * (n \div c) <= n /\ n < c * (n \div c) + c
OBVIOUS

LEMMA Distributes ==
  ASSUME NEW a \in Int, NEW b \in Int, NEW c \in Int
  PROVE  /\ c * (a + b) = c * a + c * b /\ (a + b) * c = a * c + b * c
         /\ c * (a - b) = c * a - c * b /\ (a - b) * c = a * c - b * c
         /\ c * a \in Int /\ a * c = c * a
OBVIOUS

LEMMA TimesLess ==
  ASSUME NEW a \in Int, NEW b \in Int, NEW c \in Nat \ {0}, c * a < c * b
  PROVE  a < b
OBVIOUS

LEMMA TimesLeq ==
  ASSUME NEW a \in Int, NEW b \in Int, NEW c \in Nat, a <= b
  PROVE  c * a <= c * b
OBVIOUS

LEMMA LessOver ==
  ASSUME NEW a \in Nat, NEW b \in Nat, NEW c \in Nat, NEW s \in Nat, a <= b
  PROVE  (a - c - 1) * s <= (b - c - 1) * s
<1>1. a - c - 1 \in Int /\ b - c - 1 \in Int /\ a - c - 1 <= b - c - 1
  OBVIOUS
<1> QED
  BY <1>1, TimesLeq, Distributes

LEMMA MaxOfTwo ==
  ASSUME NEW a \in Int, NEW b \in Int
  PROVE  Max({a, b}) = IF a >= b THEN a ELSE b
<1> DEFINE m == IF a >= b THEN a ELSE b
<1>1. m \in {a, b} /\ \A y \in {a, b} : m >= y
  OBVIOUS
<1>2. \A x \in {a, b} : (\A y \in {a, b} : x >= y) => x = m
  OBVIOUS
<1>3. Max({a, b}) = CHOOSE x \in {a, b} : \A y \in {a, b} : x >= y
  BY DEF Max
<1> QED
  BY <1>1, <1>2, <1>3

LEMMA MinOfTwo ==
  ASSUME NEW a \in Int, NEW b \in Int
  PROVE  Min({a, b}) = IF a <= b THEN a ELSE b
<1> DEFINE m == IF a <= b THEN a ELSE b
<1>1. m \in {a, b} /\ \A y \in {a, b} : m <= y
  OBVIOUS
<1>2. \A x \in {a, b} : (\A y \in {a, b} : x <= y) => x = m
  OBVIOUS
<1>3. Min({a, b}) = CHOOSE x \in {a, b} : \A y \in {a, b} : x <= y
  BY DEF Min
<1> QED
  BY <1>1, <1>2, <1>3

LEMMA Floor ==
  ASSUME NEW c \in Nat \ {0}, NEW t \in Nat, NEW e \in Nat, NEW a \in Int
  PROVE  /\ (e * t) \div c - a \in Int /\ e * t - a * c \in Int
         /\ c * ((e * t) \div c - a) <= e * t - a * c
         /\ e * t - a * c < c * ((e * t) \div c - a) + c
<1> DEFINE q == (e * t) \div c
<1>1. e * t \in Nat
  OBVIOUS
<1>2. q \in Int /\ c * q <= e * t /\ e * t < c * q + c
  BY <1>1, DivBounds
<1> HIDE DEF q
<1>3. c * (q - a) = c * q - c * a /\ c * a = a * c /\ c * a \in Int
  BY <1>2, Distributes
<1>4. /\ q - a \in Int /\ e * t - a * c \in Int
      /\ c * (q - a) <= e * t - a * c
      /\ e * t - a * c < c * (q - a) + c
  BY <1>1, <1>2, <1>3
<1> QED
  BY <1>4 DEF q

\* The deadline is as far away as the debt takes to be paid, rounded down.
LEMMA AheadIsDebt ==
  ASSUME SpamConstants, SpamTypeOK
  PROVE  /\ Ahead \in Int /\ Debt \in Int
         /\ Count * Ahead <= Debt /\ Debt < Count * Ahead + Count
BY Floor DEF SpamConstants, SpamTypeOK, Ahead, Debt

LEMMA AheadNotNegative ==
  ASSUME SpamConstants, SpamTypeOK, ShareInv
  PROVE  Ahead >= 0
<1>1. Count \in Nat \ {0} /\ Count * (0 - 1) = 0 - Count
  BY Distributes DEF SpamConstants
<1>2. Ahead \in Int /\ Debt \in Int /\ Debt < Count * Ahead + Count /\ Debt >= 0 /\ Count * Ahead \in Int
  BY <1>1, AheadIsDebt DEF ShareInv
<1>3. Count * (0 - 1) < Count * Ahead
  BY <1>1, <1>2
<1> QED
  BY <1>1, <1>2, <1>3, TimesLess

LEMMA ShareIs ==
  ASSUME SpamConstants
  PROVE  /\ Share \in Nat \ {0} /\ Count * Share <= Time
         /\ Time < Count * Share + Count
<1>1. Share \in Int /\ Count * Share <= Time /\ Time < Count * Share + Count
  BY DivBounds DEF SpamConstants, Share
<1>2. Share > 0
  <2>1. Count \in Nat \ {0} /\ Count <= Time /\ Time \in Nat
    BY DEF SpamConstants
  <2>2. Count * 0 = 0 /\ Count * (Share + 1) = Count * Share + Count
    BY <1>1, <2>1, Distributes
  <2>3. Count * 1 < Count * (Share + 1)
    BY <1>1, <2>1, <2>2
  <2> QED
    BY <1>1, <2>1, <2>3, TimesLess
<1> QED
  BY <1>1, <1>2

LEMMA SpamInitHolds == ASSUME SpamConstants, SpamInit PROVE SpamIInv
<1>1. /\ Count \in Nat \ {0} /\ Time \in Nat \ {0} /\ Second \in Nat \ {0} /\ Bans \subseteq Nat
      /\ Count <= Time
  BY DEF SpamConstants
<1>2. SpamTypeOK
  <2>1. passed \in [Recent -> Nat]
    BY DEF SpamInit
  <2>2. spam_ban \in Nat
    BY <1>1 DEF SpamInit
  <2>3. msec \in 0 .. Second - 1 /\ age \in Int /\ events \in Nat /\ cheater \in 0 .. 3 /\ banned \in Nat
    BY <1>1 DEF SpamInit
  <2>4. refused \in BOOLEAN /\ over \in BOOLEAN
    BY DEF SpamInit
  <2> QED
    BY <2>1, <2>2, <2>3, <2>4 DEF SpamTypeOK
<1>3. events = 0 /\ age = 0 /\ \A a \in Recent : passed[a] = 0
  BY DEF SpamInit
<1>4. Debt = 0
  BY <1>1, <1>3 DEF Debt
<1>5. Ahead = 0
  <2>1. 0 * Time = 0 /\ 0 \div Count = 0
    BY <1>1
  <2> QED
    BY <1>3, <2>1 DEF Ahead
<1>6. Share \in Nat \ {0}
  BY ShareIs
<1>7. PassedInv /\ ShareInv
  <2>1. Share * 0 = 0
    BY <1>6
  <2> QED
    BY <1>3, <1>4, <1>5, <2>1 DEF PassedInv, ShareInv, Recent
<1>8. CostInv
  <2>1. Time * 0 = 0 /\ Count * 0 = 0 /\ Share * (0 - 0) = 0
    BY <1>1, <1>6
  <2>2. SUFFICES ASSUME NEW a \in Recent
                 PROVE  /\ Time * passed[0] <= Debt + Count * 0
                        /\ Share * (passed[a] - passed[0]) <= a - 0
    BY DEF CostInv, Recent
  <2>3. passed[0] = 0 /\ passed[a] = 0
    BY <1>1, <1>3 DEF Recent
  <2> QED
    BY <1>4, <2>1, <2>3 DEF Recent
<1>9. KeptInv
  BY <1>1, <1>3, <1>5 DEF SpamInit, KeptInv
<1>10. AsAllowed
  <2>1. Total = 0
    BY <1>1, <1>3 DEF Total, Recent
  <2>2. (0 - Count - 1) * Share < 0
    BY <1>1, <1>6
  <2> QED
    BY <1>1, <2>1, <2>2, <1>6 DEF SpamInit, AsAllowed
<1> QED
  BY <1>2, <1>7, <1>8, <1>9, <1>10 DEF SpamIInv

LEMMA TickHolds == ASSUME SpamConstants, SpamIInv, Tick PROVE SpamIInv'
<1>1. /\ Count \in Nat \ {0} /\ Time \in Nat \ {0} /\ Second \in Nat \ {0} /\ Count <= Time
      /\ 0 \in Recent /\ Time - 1 \in Recent
  BY DEF SpamConstants, Recent
<1>2. SpamTypeOK /\ PassedInv /\ ShareInv /\ CostInv /\ KeptInv /\ AsAllowed
  BY DEF SpamIInv
<1>3. /\ Ahead \in Int /\ Debt \in Int
      /\ Count * Ahead <= Debt /\ Debt < Count * Ahead + Count
  BY <1>2, AheadIsDebt
<1>4. Share \in Nat \ {0}
  BY ShareIs
<1>5. passed' \in [Recent -> Nat] /\ \A a \in Recent : passed'[a] = IF a = 0 THEN 0 ELSE passed[a - 1]
  BY <1>1, <1>2 DEF Tick, Recent, SpamTypeOK
<1>6. \A a \in Recent : passed'[a] <= passed[a] /\ passed[a] \in Nat /\ passed'[a] \in Nat
  BY <1>1, <1>2, <1>5 DEF PassedInv, Recent, SpamTypeOK
<1>7. /\ Ahead' = IF Ahead > 0 THEN Ahead - 1 ELSE Ahead
      /\ Debt' = IF Ahead > 0 THEN Debt - Count ELSE Debt
      /\ age' \in Int /\ events' = events
  <2>1. age \in Int /\ events \in Nat /\ events' = events
    BY <1>2 DEF SpamTypeOK, Tick
  <2>2. age' = IF Ahead > 0 THEN age + 1 ELSE age
    BY DEF Tick
  <2>3. (age + 1) * Count = age * Count + Count /\ age * Count \in Int /\ events * Time \in Int
    BY <1>1, <2>1
  <2>4. (events * Time) \div Count \in Int
    BY <1>1, <2>1, DivBounds
  <2> QED
    BY <1>1, <2>1, <2>2, <2>3, <2>4 DEF Ahead, Debt
<1>8. SpamTypeOK'
  <2>1. msec' \in 0 .. Second - 1
    BY <1>1, <1>2 DEF Tick, SpamTypeOK
  <2>2. banned' \in Nat
    BY <1>2, MaxOfTwo DEF Tick, SpamTypeOK
  <2> QED
    BY <1>2, <1>5, <1>7, <2>1, <2>2 DEF Tick, SpamTypeOK
<1>9. PassedInv'
  <2> SUFFICES ASSUME NEW a \in Recent, NEW b \in Recent, a <= b PROVE passed'[a] <= passed'[b]
    BY DEF PassedInv
  <2>1. CASE a = 0
    BY <1>5, <1>6, <2>1
  <2>2. CASE a # 0
    <3>1. a - 1 \in Recent /\ b - 1 \in Recent /\ a - 1 <= b - 1 /\ b # 0
      BY <1>1, <2>2 DEF Recent
    <3> QED
      BY <1>2, <1>5, <2>2, <3>1 DEF PassedInv
  <2> QED
    BY <2>1, <2>2
<1>10. Debt >= 0 /\ Ahead >= 0 /\ Debt' >= 0 /\ Ahead' >= 0 /\ Ahead' \in Int /\ Debt' \in Int
  <2>1. Debt >= 0
    BY <1>2 DEF ShareInv
  <2>2. Count * (0 - 1) = 0 - Count
    BY <1>1
  <2>3. Ahead >= 0
    <3>1. Count * (0 - 1) < Count * Ahead
      BY <1>1, <1>3, <2>1, <2>2
    <3> QED
      BY <1>1, <1>3, <3>1, TimesLess
  <2>4. Ahead > 0 => Debt - Count >= 0
    <3>1. Count * 1 = Count
      BY <1>1
    <3>2. Ahead >= 1 => Count * 1 <= Count * Ahead
      BY <1>1, <1>3, TimesLeq
    <3>3. Count * Ahead \in Int
      BY <1>1, <1>3
    <3> QED
      BY <1>1, <1>3, <3>1, <3>2, <3>3
  <2> QED
    BY <1>1, <1>3, <1>7, <2>1, <2>3, <2>4
<1>11. ShareInv'
  <2> SUFFICES ASSUME NEW a \in Recent PROVE Share * passed'[a] <= Ahead' + a
    BY <1>10 DEF ShareInv, Share
  <2>1. CASE a = 0
    BY <1>4, <1>5, <1>10, <2>1
  <2>2. CASE a # 0
    <3>1. a - 1 \in Recent /\ passed'[a] = passed[a - 1] /\ a \in Int
      BY <1>1, <1>5, <2>2 DEF Recent
    <3>2. Share * passed[a - 1] <= Ahead + a - 1
      BY <1>2, <1>3, <3>1 DEF ShareInv
    <3>3. Share * passed[a - 1] \in Int
      BY <1>4, <1>6, <3>1
    <3> QED
      BY <1>3, <1>7, <3>1, <3>2, <3>3
  <2> QED
    BY <2>1, <2>2
<1>12. CostInv'
  <2> SUFFICES ASSUME NEW a \in Recent
               PROVE  \E b \in 0 .. a : /\ Time * passed'[b] <= Debt' + Count * b
                                        /\ Share * (passed'[a] - passed'[b]) <= a - b
    BY DEF CostInv, Share
  <2>1. CASE a = 0
    <3>1. passed'[0] = 0 /\ Time * 0 = 0 /\ Count * 0 = 0 /\ Share * (0 - 0) = 0
      BY <1>1, <1>4, <1>5
    <3> QED
      BY <1>10, <2>1, <3>1
  <2>2. CASE a # 0
    <3>1. a - 1 \in Recent /\ passed'[a] = passed[a - 1] /\ a \in Int
      BY <1>1, <1>5, <2>2 DEF Recent
    <3>2. PICK b \in 0 .. a - 1 : /\ Time * passed[b] <= Debt + Count * b
                                  /\ Share * (passed[a - 1] - passed[b]) <= a - 1 - b
      BY <1>2, <3>1 DEF CostInv
    <3>3. b + 1 \in 0 .. a /\ b + 1 \in Recent /\ passed'[b + 1] = passed[b] /\ b \in Int
      BY <1>1, <1>5, <3>1, <3>2 DEF Recent
    <3>4. Count * (b + 1) = Count * b + Count /\ Count * b \in Int
      <4>1. Count * (b + 1) = Count * b + Count * 1 /\ Count * b \in Int /\ Count * 1 = Count
        BY <1>1, <3>3, Distributes
      <4> QED
        BY <4>1
    <3>5. Time * passed[b] \in Int
      BY <1>1, <1>6, <3>3 DEF Recent
    <3>6. Time * passed'[b + 1] <= Debt' + Count * (b + 1)
      BY <1>1, <1>3, <1>7, <3>2, <3>3, <3>4, <3>5
    <3>7. Share * (passed'[a] - passed'[b + 1]) <= a - (b + 1)
      BY <3>1, <3>2, <3>3
    <3> QED
      BY <3>3, <3>6, <3>7
  <2> QED
    BY <2>1, <2>2
<1>13. KeptInv'
  <2> SUFFICES ASSUME ~over
               PROVE  /\ ~refused' /\ cheater' = 0 /\ banned' = 0
                      /\ age' >= 0 /\ events' <= Count
                      /\ Ahead' > 0 => age' < Time /\ events' <= passed'[age']
    BY DEF KeptInv, Tick
  <2>1. /\ ~refused /\ cheater = 0 /\ banned = 0 /\ age >= 0 /\ events <= Count
        /\ Ahead > 0 => age < Time /\ events <= passed[age]
    BY <1>2 DEF KeptInv
  <2>2. ~refused' /\ cheater' = 0 /\ banned' = 0
    BY <2>1, MaxOfTwo DEF Tick
  <2>3. age \in Int /\ events \in Nat
    BY <1>2 DEF SpamTypeOK
  <2>4. age' >= 0 /\ events' <= Count
    BY <2>1, <2>3 DEF Tick
  <2>5. ASSUME Ahead' > 0 PROVE age' < Time /\ events' <= passed'[age']
    <3>1. Ahead > 0 /\ age' = age + 1 /\ events' = events
      BY <1>3, <1>7, <2>5 DEF Tick
    <3>2. Count * Time < Count * Time + 1 /\ Count * Time \in Int /\ events * Time <= Count * Time
      BY <1>1, <2>1, <2>3
    <3>3. age' < Time
      <4>1. Count * 1 <= Count * (Ahead - 1)
        BY <1>1, <1>3, <1>7, <2>5, <3>1, TimesLeq
      <4>2. Count * 1 = Count /\ Count * (Ahead - 1) = Count * Ahead - Count /\ Count * Ahead \in Int
        BY <1>1, <1>3, Distributes
      <4>3. Debt = events * Time - age * Count /\ age * Count = Count * age
            /\ Count * age \in Int /\ events * Time \in Int
        BY <1>1, <2>3 DEF Debt
      <4>4. Count * (age + 1) = Count * age + Count
        BY <1>1, <2>3
      <4>5. Count * (age + 1) < Count * Time
        BY <1>1, <1>3, <3>2, <4>1, <4>2, <4>3, <4>4
      <4> QED
        BY <1>1, <2>3, <3>1, <4>5, TimesLess
    <3>4. age' \in Recent /\ passed'[age'] = passed[age]
      BY <1>1, <1>5, <2>1, <2>3, <3>1, <3>3 DEF Recent
    <3> QED
      BY <2>1, <3>1, <3>3, <3>4
  <2> QED
    BY <2>2, <2>4, <2>5
<1>14. AsAllowed'
  <2>1. refused' => over'
    BY <1>2 DEF Tick, AsAllowed
  <2>2. Total' <= Total /\ Total \in Nat /\ Total' \in Nat
    BY <1>1, <1>6 DEF Total
  <2>3. (Total' - Count - 1) * Share <= (Total - Count - 1) * Share
    BY <1>1, <1>4, <2>2, LessOver
  <2>4. (Total' - Count - 1) * Share \in Int /\ (Total - Count - 1) * Share \in Int
    BY <1>1, <1>4, <2>2
  <2> QED
    BY <1>1, <1>2, <2>1, <2>3, <2>4 DEF AsAllowed, Share
<1> QED
  BY <1>8, <1>9, <1>11, <1>12, <1>13, <1>14 DEF SpamIInv

\* What is passed goes up by one everywhere, or nothing is.
LEMMA HappenedAdds ==
  ASSUME SpamTypeOK, refused' \in BOOLEAN,
         passed' = [a \in Recent |-> IF refused' THEN passed[a] ELSE passed[a] + 1]
  PROVE  /\ passed' \in [Recent -> Nat]
         /\ \E k \in {0, 1} :
              /\ \A a \in Recent : passed'[a] = passed[a] + k
              /\ k = IF refused' THEN 0 ELSE 1
<1>1. passed \in [Recent -> Nat]
  BY DEF SpamTypeOK
<1>2. CASE refused'
  <2>1. passed' = [a \in Recent |-> passed[a]]
    BY <1>2
  <2>2. passed' \in [Recent -> Nat] /\ \A a \in Recent : passed'[a] = passed[a] + 0
    BY <1>1, <2>1
  <2> QED
    BY <1>2, <2>2
<1>3. CASE ~refused'
  <2>1. passed' = [a \in Recent |-> passed[a] + 1]
    BY <1>3
  <2>2. passed' \in [Recent -> Nat] /\ \A a \in Recent : passed'[a] = passed[a] + 1
    BY <1>1, <2>1
  <2> QED
    BY <1>3, <2>2
<1> QED
  BY <1>2, <1>3

LEMMA EventAloneHolds == ASSUME SpamConstants, SpamIInv, EventAlone PROVE SpamIInv'
<1>1. /\ Count \in Nat \ {0} /\ Time \in Nat \ {0} /\ Second \in Nat \ {0} /\ Count <= Time
      /\ 0 \in Recent /\ Time - 1 \in Recent
  BY DEF SpamConstants, Recent
<1>2. SpamTypeOK /\ PassedInv /\ ShareInv
  BY DEF SpamIInv
<1>3. Ahead = 0
  BY <1>2, AheadIsDebt, AheadNotNegative DEF EventAlone
<1>4. Share \in Nat \ {0} /\ Count * Share <= Time
  BY ShareIs
<1>5. /\ refused' = (banned > 0) /\ refused' \in BOOLEAN
      /\ passed' = [a \in Recent |-> IF refused' THEN passed[a] ELSE passed[a] + 1]
      /\ spam_ban' = spam_ban /\ msec' = msec
  BY DEF EventAlone, Happened
<1>51. passed' \in [Recent -> Nat]
  BY <1>2, <1>5, HappenedAdds
<1>6. PICK k \in {0, 1} : /\ \A a \in Recent : passed'[a] = passed[a] + k
                          /\ k = IF refused' THEN 0 ELSE 1
  BY <1>2, <1>5, HappenedAdds
<1>7. age' = 0 /\ events' = 1 /\ cheater' = 0 /\ banned' = banned /\ over' = (banned > 0)
  BY DEF EventAlone
<1>8. Ahead' = Share /\ Debt' = Time
  <2>1. 1 * Time = Time /\ 0 * Count = 0
    BY <1>1
  <2>2. Time \div Count - 0 = Time \div Count
    BY <1>4 DEF Share
  <2> QED
    BY <1>1, <1>7, <2>1, <2>2 DEF Ahead, Debt, Share
<1>9. SpamTypeOK'
  <2>1. spam_ban' \in Nat /\ msec' \in 0 .. Second - 1 /\ banned' \in Nat
    BY <1>2, <1>5, <1>7 DEF SpamTypeOK
  <2>2. refused' \in BOOLEAN /\ over' \in BOOLEAN
    BY <1>5, <1>7
  <2>3. age' \in Int /\ events' \in Nat /\ cheater' \in 0 .. 3
    BY <1>7
  <2> QED
    BY <1>51, <2>1, <2>2, <2>3 DEF SpamTypeOK, Recent
<1>10. \A a \in Recent : a \in Int /\ passed[a] \in Nat /\ Share * passed[a] <= a
  BY <1>1, <1>2, <1>3 DEF SpamTypeOK, ShareInv, Recent
<1>11. passed[0] = 0 /\ passed'[0] = k
  <2>1. Share * passed[0] <= 0 /\ passed[0] \in Nat
    BY <1>1, <1>10
  <2>2. Share * 0 = 0 /\ Share * 1 = Share
    BY <1>4
  <2>3. passed[0] >= 1 => Share * 1 <= Share * passed[0]
    BY <1>4, <2>1, TimesLeq
  <2>4. Share * passed[0] \in Int
    BY <1>4, <2>1
  <2> QED
    BY <1>1, <1>4, <1>6, <2>1, <2>2, <2>3, <2>4
<1>12. PassedInv'
  BY <1>2, <1>6, <1>10 DEF PassedInv, Recent
<1>13. ShareInv'
  <2> SUFFICES ASSUME NEW a \in Recent PROVE Share * passed'[a] <= Ahead' + a
    BY <1>1, <1>8 DEF ShareInv, Share, Recent
  <2>1. Share * (passed[a] + k) = Share * passed[a] + Share * k /\ Share * passed[a] \in Int
    BY <1>4, <1>6, <1>10, Distributes
  <2>2. Share * k <= Share
    BY <1>4
  <2>3. Share * k \in Int
    BY <1>4
  <2> QED
    BY <1>4, <1>6, <1>8, <1>10, <2>1, <2>2, <2>3
<1>14. CostInv'
  <2> SUFFICES ASSUME NEW a \in Recent
               PROVE  /\ Time * passed'[0] <= Debt' + Count * 0
                      /\ Share * (passed'[a] - passed'[0]) <= a - 0
    BY <1>1 DEF CostInv, Share, Recent
  <2>1. Time * k <= Time /\ Count * 0 = 0
    BY <1>1
  <2>2. passed'[a] - passed'[0] = passed[a]
    BY <1>6, <1>10, <1>11
  <2> QED
    BY <1>1, <1>8, <1>10, <1>11, <2>1, <2>2
<1>15. KeptInv'
  <2> SUFFICES ASSUME ~over'
               PROVE  /\ ~refused' /\ cheater' = 0 /\ banned' = 0
                      /\ age' >= 0 /\ events' <= Count
                      /\ age' < Time /\ events' <= passed'[age']
    BY DEF KeptInv
  <2>1. ~(banned > 0) /\ banned \in Nat
    BY <1>2, <1>7 DEF SpamTypeOK
  <2>2. ~refused' /\ banned' = 0
    BY <1>5, <1>7, <2>1
  <2>3. passed'[0] = 1
    BY <1>6, <1>11, <2>2
  <2> QED
    BY <1>1, <1>7, <2>2, <2>3
<1>16. AsAllowed'
  <2>1. refused' => over'
    BY <1>5, <1>7
  <2>2. Total \in Nat /\ Total' = Total + k /\ Share * Total <= Time - 1
    BY <1>1, <1>6, <1>10 DEF Total
  <2>3. PICK n \in Nat : n = Total + 1 /\ Total' \in Nat /\ Total' <= n
    BY <2>2
  <2>4. (Total' - Count - 1) * Share <= (n - Count - 1) * Share
    BY <1>1, <1>4, <2>3, LessOver
  <2>5. (n - Count - 1) * Share = Share * Total - Count * Share
    <3>1. n - Count - 1 = Total - Count
      BY <1>1, <2>2, <2>3
    <3> QED
      BY <1>1, <1>4, <2>2, <3>1, Distributes
  <2>6. 1 <= Count * Share /\ Count * Share \in Int /\ Share * Total \in Int
    BY <1>1, <1>4, <2>2
  <2>7. (Total' - Count - 1) * Share \in Int
    BY <1>1, <1>4, <2>3
  <2>8. (Total' - Count - 1) * Share < Time - 1
    BY <1>1, <2>2, <2>4, <2>5, <2>6, <2>7
  <2> QED
    BY <2>1, <2>8 DEF AsAllowed, Share
<1> QED
  BY <1>9, <1>12, <1>13, <1>14, <1>15, <1>16 DEF SpamIInv

\* Events that cost their Time each since b ticks ago have got their share of it since.
LEMMA CostIsShare ==
  ASSUME NEW t \in Nat \ {0}, NEW c \in Nat \ {0}, NEW s \in Nat \ {0}, c * s <= t,
         NEW d \in Int, NEW b \in Nat, t * d < c * b
  PROVE  s * d < b
<1>1. CASE d >= 1
  <2>1. d \in Nat /\ s * d \in Int /\ c * s \in Int
    BY <1>1
  <2>2. d * (c * s) <= d * t
    BY <2>1, TimesLeq
  <2>3. d * (c * s) = c * (s * d) /\ d * t = t * d
    OBVIOUS
  <2>4. c * (s * d) < c * b
    BY <2>2, <2>3
  <2> QED
    BY <2>1, <2>4, TimesLess
<1>2. CASE d <= 0 /\ b > 0
  <2>1. s * d <= s * 0 /\ s * 0 = 0
    BY <1>2, TimesLeq
  <2> QED
    BY <1>2, <2>1
<1>3. CASE d <= 0 /\ b = 0
  <2>1. t * d < t * 0 /\ s * 0 = 0
    BY <1>3
  <2>2. d < 0
    BY <2>1, TimesLess
  <2>3. s * d <= s * (0 - 1) /\ s * (0 - 1) = 0 - s
    BY <2>2, TimesLeq
  <2> QED
    BY <1>3, <2>3
<1> QED
  BY <1>1, <1>2, <1>3

\* An event adds its Time to the debt, and its share at least to the deadline.
LEMMA EventCosts ==
  ASSUME SpamConstants, SpamTypeOK, Event
  PROVE  /\ age' \in Int /\ events' \in Nat /\ Debt' = Debt + Time
         /\ Ahead' \in Int /\ Ahead' >= Ahead + Share
<1>1. Count \in Nat \ {0} /\ Time \in Nat \ {0} /\ Count <= Time
  BY DEF SpamConstants
<1>2. age \in Int /\ events \in Nat
  BY DEF SpamTypeOK
<1>3. /\ events' = IF events >= Count THEN events - Count + 1 ELSE events + 1
      /\ age' = IF events >= Count THEN age - Time ELSE age
  BY DEF Event, StartMoved
<1>4. age' \in Int /\ events' \in Nat
  BY <1>1, <1>2, <1>3
<1>5. events' * Time - age' * Count = events * Time - age * Count + Time
  <2>1. /\ (events + 1) * Time = events * Time + Time /\ events * Time \in Int
        /\ age * Count \in Int /\ Count * Time \in Int
    BY <1>1, <1>2
  <2>2. (events - Count + 1) * Time = events * Time - Count * Time + Time
    BY <1>1, <1>2
  <2>3. (age - Time) * Count = age * Count - Count * Time
    BY <1>1, <1>2
  <2>4. CASE events >= Count
    <3>1. events' = events - Count + 1 /\ age' = age - Time
      BY <1>3, <2>4
    <3> QED
      BY <1>1, <2>1, <2>2, <2>3, <3>1
  <2>5. CASE ~(events >= Count)
    <3>1. events' = events + 1 /\ age' = age
      BY <1>3, <2>5
    <3> QED
      BY <1>1, <2>1, <3>1
  <2> QED
    BY <2>4, <2>5
<1>6. /\ Ahead' \in Int
      /\ Debt' < Count * Ahead' + Count
  BY <1>1, <1>4, Floor DEF Ahead, Debt
<1>7. Debt' = Debt + Time
  BY <1>5 DEF Debt
<1>8. Ahead \in Int /\ Debt \in Int /\ Count * Ahead <= Debt
  BY AheadIsDebt
<1>9. Share \in Nat /\ Count * Share <= Time
  BY ShareIs
<1>10. Ahead' >= Ahead + Share
  <2>1. PICK x \in Int, y \in Int, s \in Nat : x = Ahead /\ y = Ahead' /\ s = Share
    BY <1>6, <1>8, <1>9
  <2>2. Count * (x + s) = Count * x + Count * s /\ Count * (y + 1) = Count * y + Count
    BY <1>1
  <2>3. Count * x \in Int /\ Count * s \in Int /\ Count * y \in Int
    BY <1>1
  <2>4. Count * x <= Debt /\ Count * s <= Time /\ Debt + Time < Count * y + Count
    BY <1>6, <1>7, <1>8, <1>9, <2>1
  <2>5. Count * (x + s) < Count * (y + 1)
    BY <1>1, <1>8, <2>2, <2>3, <2>4
  <2>6. x + s < y + 1
    BY <1>1, <2>5, TimesLess
  <2> QED
    <3>1. y >= x + s /\ s \in Int
      BY <2>6
    <3> QED
      BY <2>1, <3>1
<1> QED
  BY <1>4, <1>6, <1>7, <1>10

LEMMA EventHolds == ASSUME SpamConstants, SpamIInv, Event PROVE SpamIInv'
<1>1. /\ Count \in Nat \ {0} /\ Time \in Nat \ {0} /\ Second \in Nat \ {0} /\ Count <= Time
      /\ 0 \in Recent /\ Time - 1 \in Recent
  BY DEF SpamConstants, Recent
<1>2. SpamTypeOK /\ PassedInv /\ ShareInv /\ CostInv /\ KeptInv /\ AsAllowed
  BY DEF SpamIInv
<1>3. /\ Ahead \in Int /\ Ahead > 0 /\ Debt \in Int
      /\ Count * Ahead <= Debt /\ Debt < Count * Ahead + Count
  BY <1>2, AheadIsDebt DEF Event
<1>4. Share \in Nat \ {0} /\ Count * Share <= Time
  BY ShareIs
<1>5. /\ age' \in Int /\ events' \in Nat /\ Debt' = Debt + Time
      /\ Ahead' \in Int /\ Ahead' >= Ahead + Share
  BY <1>2, EventCosts
<1>6. cheater' \in 0 .. 3 /\ (events < Count => cheater' = cheater)
  BY <1>1, <1>2, MinOfTwo DEF Event, SpamTypeOK
<1>7. PICK delayed \in BOOLEAN : /\ delayed = (Ahead >= Time \/ cheater' >= 3)
                              /\ Happened(delayed)
                              /\ banned' = IF delayed THEN Banned(banned, Ahead) ELSE banned
  BY DEF Event
<1>8. /\ refused' = (delayed \/ banned > 0) /\ refused' \in BOOLEAN
      /\ passed' = [a \in Recent |-> IF refused' THEN passed[a] ELSE passed[a] + 1]
      /\ spam_ban' = spam_ban /\ msec' = msec
  BY <1>7 DEF Happened
<1>9. passed' \in [Recent -> Nat]
  BY <1>2, <1>8, HappenedAdds
<1>10. PICK k \in {0, 1} : /\ \A a \in Recent : passed'[a] = passed[a] + k
                           /\ k = IF refused' THEN 0 ELSE 1
  BY <1>2, <1>8, HappenedAdds
<1>11. over' = (over \/ Total + 1 > Count) /\ over' \in BOOLEAN
  BY DEF Event
<1>12. \A a \in Recent : a \in Int /\ passed[a] \in Nat /\ Share * passed[a] <= Ahead + a
  BY <1>1, <1>2 DEF SpamTypeOK, ShareInv, Recent
<1>13. SpamTypeOK'
  <2>1. spam_ban' \in Nat /\ msec' \in 0 .. Second - 1
    BY <1>2, <1>8 DEF SpamTypeOK
  <2>2. banned' \in Nat
    <3>1. spam_ban \in Nat /\ banned \in Nat /\ msec \in Nat
      BY <1>1, <1>2 DEF SpamTypeOK
    <3>2. (msec + Ahead) \div Second \in Int
      BY <1>1, <1>3, <3>1, DivBounds
    <3>3. CASE delayed
      <4>1. PICK m \in Nat : m = IF banned = 0 THEN spam_ban ELSE banned
        BY <3>1
      <4>2. banned' = Max({m, (msec + Ahead) \div Second})
        BY <1>7, <3>3, <4>1 DEF Banned
      <4> QED
        BY <3>2, <4>2, MaxOfTwo
    <3> QED
      BY <1>7, <3>1, <3>3
  <2> QED
    BY <1>5, <1>6, <1>8, <1>9, <1>11, <2>1, <2>2 DEF SpamTypeOK, Recent
<1>14. PassedInv'
  BY <1>2, <1>10, <1>12 DEF PassedInv, Recent
<1>15. ShareInv'
  <2>1. Debt' >= 0
    BY <1>1, <1>2, <1>3, <1>5 DEF ShareInv
  <2> SUFFICES ASSUME NEW a \in Recent PROVE Share * passed'[a] <= Ahead' + a
    BY <2>1 DEF ShareInv, Share, Recent
  <2>2. Share * (passed[a] + k) = Share * passed[a] + Share * k /\ Share * passed[a] \in Int
    BY <1>4, <1>12, Distributes
  <2>3. Share * k <= Share /\ Share * k \in Int
    BY <1>4
  <2> QED
    BY <1>3, <1>4, <1>5, <1>10, <1>12, <2>2, <2>3
<1>16. CostInv'
  <2> SUFFICES ASSUME NEW a \in Recent
               PROVE  \E b \in 0 .. a : /\ Time * passed'[b] <= Debt' + Count * b
                                        /\ Share * (passed'[a] - passed'[b]) <= a - b
    BY DEF CostInv, Share, Recent
  <2>1. PICK b \in 0 .. a : /\ Time * passed[b] <= Debt + Count * b
                            /\ Share * (passed[a] - passed[b]) <= a - b
    BY <1>2 DEF CostInv
  <2>2. b \in Recent /\ b \in Int
    BY <1>1, <2>1 DEF Recent
  <2>3. Time * (passed[b] + k) = Time * passed[b] + Time * k /\ Time * passed[b] \in Int
    BY <1>1, <1>12, <2>2, Distributes
  <2>4. Time * k <= Time /\ Time * k \in Int /\ Count * b \in Int
    BY <1>1, <2>2
  <2>5. Time * passed'[b] <= Debt' + Count * b
    BY <1>1, <1>3, <1>5, <1>10, <2>1, <2>2, <2>3, <2>4
  <2>6. passed'[a] - passed'[b] = passed[a] - passed[b]
    BY <1>10, <1>12, <2>2
  <2> QED
    BY <2>1, <2>5, <2>6
<1>17. Total \in Nat /\ Total' = Total + k /\ passed[Time - 1] = Total
  BY <1>1, <1>10, <1>12 DEF Total
<1>18. KeptInv'
  <2> SUFFICES ASSUME ~over'
               PROVE  /\ ~refused' /\ cheater' = 0 /\ banned' = 0
                      /\ age' >= 0 /\ events' <= Count
                      /\ age' < Time /\ events' <= passed'[age']
    BY DEF KeptInv
  <2>1. ~over /\ Total + 1 <= Count
    <3>1. ~over /\ ~(Total + 1 > Count)
      BY <1>11, Zenon
    <3> QED
      BY <1>1, <1>17, <3>1
  <2>2. /\ cheater = 0 /\ banned = 0 /\ age >= 0 /\ events <= Count
        /\ age < Time /\ events <= passed[age]
    BY <1>2, <1>3, <2>1 DEF KeptInv
  <2>3. age \in Int /\ events \in Nat
    BY <1>2 DEF SpamTypeOK
  <2>4. age \in Recent
    BY <1>1, <2>2, <2>3 DEF Recent
  <2>5. passed[age] <= Total /\ passed[age] \in Nat
    <3>1. age <= Time - 1
      BY <1>1, <2>2, <2>3
    <3> QED
      BY <1>1, <1>2, <1>12, <1>17, <2>4, <3>1 DEF PassedInv
  <2>6. events < Count
    BY <1>1, <1>17, <2>1, <2>2, <2>3, <2>5
  <2>7. events' = events + 1 /\ age' = age
    BY <1>1, <2>3, <2>6 DEF Event
  <2>8. cheater' = 0
    BY <1>6, <2>2, <2>6
  <2>9. Ahead < Time
    <3>1. Debt = events * Time - age * Count
      BY DEF Debt
    <3>2. age * Count >= 0 /\ age * Count \in Int /\ events * Time \in Int
      BY <1>1, <2>2, <2>3
    <3>3. Time * (events + 1) <= Time * Count /\ Time * (events + 1) = events * Time + Time
      BY <1>1, <2>3, <2>6, TimesLeq
    <3>4. Time * Count = Count * Time /\ Count * Time \in Int
      BY <1>1
    <3>5. Count * Ahead < Count * Time
      BY <1>1, <1>3, <3>1, <3>2, <3>3, <3>4
    <3> QED
      BY <1>1, <1>3, <3>5, TimesLess
  <2>10. ~delayed
    <3>1. ~(Ahead >= Time) /\ ~(cheater' >= 3)
      BY <1>1, <1>3, <2>8, <2>9
    <3> QED
      BY <1>7, <3>1, Zenon
  <2>11. ~refused' /\ banned' = 0
    <3>1. ~(banned > 0) /\ banned' = banned
      BY <1>7, <2>2, <2>10
    <3> QED
      BY <1>8, <2>2, <2>10, <3>1
  <2>12. passed'[age'] = passed[age] + 1
    BY <1>10, <2>4, <2>7, <2>11
  <2> QED
    BY <1>1, <2>2, <2>3, <2>5, <2>6, <2>7, <2>8, <2>11, <2>12
<1>19. AsAllowed'
  <2>1. refused' => over'
    BY <1>8, <1>11, <1>18 DEF KeptInv
  <2>2. CASE refused'
    <3>1. Total' = Total
      BY <1>10, <1>17, <2>2
    <3> QED
      BY <1>2, <2>1, <3>1 DEF AsAllowed, Share
  <2>3. CASE ~refused'
    <3>1. Ahead < Time
      <4>1. ~(Ahead >= Time)
        BY <1>7, <1>8, <2>3, Zenon
      <4> QED
        BY <1>1, <1>3, <4>1
    <3>2. Debt < Count * Time
      <4>1. Count * (Ahead + 1) <= Count * Time
        BY <1>1, <1>3, <3>1, TimesLeq
      <4>2. Count * (Ahead + 1) = Count * Ahead + Count /\ Count * Time \in Int /\ Count * Ahead \in Int
        BY <1>1, <1>3
      <4> QED
        BY <1>1, <1>3, <4>1, <4>2
    <3>3. PICK b \in 0 .. Time - 1 : /\ Time * passed[b] <= Debt + Count * b
                                     /\ Share * (passed[Time - 1] - passed[b]) <= Time - 1 - b
      BY <1>1, <1>2 DEF CostInv
    <3>4. b \in Recent /\ b \in Nat
      BY <1>1, <3>3 DEF Recent
    <3>5. PICK d \in Int, e \in Int : d = passed[b] - Count /\ e = Total - passed[b]
      BY <1>1, <1>12, <1>17, <3>4
    <3>6. Time * d < Count * b
      <4>1. Time * d = Time * passed[b] - Time * Count
        BY <1>1, <1>12, <3>4, <3>5, Distributes
      <4>2. Time * Count = Count * Time /\ Time * passed[b] \in Int /\ Count * b \in Int /\ Count * Time \in Int
        BY <1>1, <1>12, <3>4
      <4> QED
        BY <1>3, <3>2, <3>3, <4>1, <4>2
    <3>7. Share * d < b
      BY <1>1, <1>4, <3>4, <3>6, CostIsShare
    <3>8. Share * e <= Time - 1 - b
      BY <1>17, <3>3, <3>5
    <3>9. Total' - Count - 1 = d + e
      BY <1>1, <1>10, <1>12, <1>17, <2>3, <3>4, <3>5
    <3>10. (d + e) * Share = Share * d + Share * e /\ Share * d \in Int /\ Share * e \in Int
      BY <1>4
    <3>11. (Total' - Count - 1) * Share < Time - 1
      BY <1>1, <3>4, <3>7, <3>8, <3>9, <3>10
    <3> QED
      BY <2>1, <3>11 DEF AsAllowed, Share
  <2> QED
    BY <2>2, <2>3
<1> QED
  BY <1>13, <1>14, <1>15, <1>16, <1>18, <1>19 DEF SpamIInv

LEMMA SpamStepHolds == ASSUME SpamConstants, SpamIInv, [SpamNext]_spamVars PROVE SpamIInv'
<1>1. CASE Tick
  BY <1>1, TickHolds
<1>2. CASE EventAlone
  BY <1>2, EventAloneHolds
<1>3. CASE Event
  BY <1>3, EventHolds
<1>4. CASE UNCHANGED spamVars
  <2>1. Ahead' = Ahead /\ Debt' = Debt /\ Share' = Share /\ Total' = Total
    BY <1>4 DEF spamVars, Ahead, Debt, Share, Total
  <2> QED
    BY <1>4, <2>1 DEF spamVars, SpamIInv, SpamTypeOK, PassedInv, ShareInv, CostInv, KeptInv, AsAllowed, Recent
<1> QED
  BY <1>1, <1>2, <1>3, <1>4 DEF SpamNext

\* For every limit, and however time passes: the deadline is as far away as the events have cost,
\* what was let through is paid for, and who kept to the limit has nothing held against him
\* (add_antispam_event in antispam.c).
THEOREM SpamInvariant == ASSUME SpamConstants PROVE SpamSpec => []SpamIInv
<1>1. SpamInit => SpamIInv
  BY SpamInitHolds
<1>2. SpamIInv /\ [SpamNext]_spamVars => SpamIInv'
  BY SpamStepHolds
<1> QED
  BY <1>1, <1>2, PTL DEF SpamSpec

\* Who never has more than Count events in a Time is not refused, and who was let through has
\* not had more than a share above that, whatever the count, the time and the length of a second
\* of the clock (add_antispam_event).
THEOREM KeepersNotRefused == ASSUME SpamConstants PROVE SpamSpec => []AsAllowed
<1>1. SpamIInv => AsAllowed
  BY DEF SpamIInv
<1> QED
  BY <1>1, SpamInvariant, PTL

\* The state of a limit is of its type: what is taken off the events when they are many, or off a
\* ban as time passes, leaves no negative number (add_antispam_event).
THEOREM SpamTypes == ASSUME SpamConstants PROVE SpamSpec => []SpamTypeOK
<1>1. SpamIInv => SpamTypeOK
  BY DEF SpamIInv
<1> QED
  BY <1>1, SpamInvariant, PTL

----------------------------------------------------------------------------
(* Handshake.  First the table, by itself: what process_extentry makes of it again and again is *)
(* what it would make of it at once from all the extensions enabled by then (AdjustedAgain), so  *)
(* that TableInv is inductive and each length can be compared for all sets of extensions.  Then  *)
(* the exchange: how far the list is, for client and server, and who waits for what.            *)

\* Assignments over others have the keys of both.
LEMMA OverDomain ==
  ASSUME NEW f, NEW g
  PROVE  DOMAIN (f ++ g) = DOMAIN f \cup DOMAIN g
BY DEF ++

\* The extensions that resize packets, and the packets they resize
Resized == {"extendblockno", "extendtexno", "extentityposn", "fastmap"}

BlockKeys == {"setblock", "srvblock", "posn", "heldblock", "blockundef", "invorder", "hotbar",
              "blockdef", "blockdef2"}
EntityKeys == {"spawn", "posn", "addent", "setspawn"}

\* The packets resized, by what is enabled
OfBlocks(e) ==
  IF "extendblockno" \in e THEN BlockKeys
  ELSE IF "extendtexno" \in e THEN {"blockdef", "blockdef2"} ELSE {}
OfEntities(e) == IF "extentityposn" \in e THEN EntityKeys ELSE {}
OfMaps(e) == IF "fastmap" \in e THEN {"lvlinit"} ELSE {}

\* The packets whose lengths each part of process_extentry assigns
LEMMA LayerDomains ==
  ASSUME NEW e
  PROVE  /\ DOMAIN ForBlockNumbers(e) = BlockKeys
         /\ DOMAIN ForTextures(e) = {"blockdef", "blockdef2"}
         /\ DOMAIN ForEntityPosn(e) = EntityKeys
         /\ DOMAIN ForFastMap(e) = {"lvlinit"}
         /\ DOMAIN <<>> = {}
BY DEF ForBlockNumbers, ForTextures, ForEntityPosn, ForFastMap, BlockKeys, EntityKeys

\* The packets whose lengths process_extentry assigns, by what is enabled
LEMMA ChangesDomain ==
  ASSUME NEW e
  PROVE  DOMAIN Changes(e) = (OfBlocks(e) \cup OfEntities(e)) \cup OfMaps(e)
<1> DEFINE a == When(e, "extendblockno", ForBlockNumbers(e),
                     When(e, "extendtexno", ForTextures(e), <<>>))
           b == When(e, "extentityposn", ForEntityPosn(e), <<>>)
           c == When(e, "fastmap", ForFastMap(e), <<>>)
<1>1. DOMAIN a = OfBlocks(e)
  BY LayerDomains DEF When, OfBlocks
<1>2. DOMAIN b = OfEntities(e)
  BY LayerDomains DEF When, OfEntities
<1>3. DOMAIN c = OfMaps(e)
  BY LayerDomains DEF When, OfMaps
<1>4. Changes(e) = (a ++ b) ++ c
  BY DEF Changes
<1> HIDE DEF a, b, c
<1>5. DOMAIN Changes(e) = (DOMAIN a \cup DOMAIN b) \cup DOMAIN c
  <2>1. DOMAIN (a ++ b) = DOMAIN a \cup DOMAIN b
    BY OverDomain
  <2>2. DOMAIN ((a ++ b) ++ c) = DOMAIN (a ++ b) \cup DOMAIN c
    BY OverDomain
  <2> QED BY <1>4, <2>1, <2>2
<1> QED BY <1>1, <1>2, <1>3, <1>5

\* With more extensions enabled at least the same lengths are assigned: none is left as an
\* earlier entry made it.
LEMMA ChangesGrow ==
  ASSUME NEW e, NEW f, e \cap Resized \subseteq f
  PROVE  DOMAIN Changes(e) \subseteq DOMAIN Changes(f)
<1>1. \A x \in Resized : x \in e => x \in f
  OBVIOUS
<1>2. /\ "extendblockno" \in e => "extendblockno" \in f
      /\ "extendtexno" \in e => "extendtexno" \in f
      /\ "extentityposn" \in e => "extentityposn" \in f
      /\ "fastmap" \in e => "fastmap" \in f
  BY <1>1 DEF Resized
<1>3. {"blockdef", "blockdef2"} \subseteq BlockKeys
  BY DEF BlockKeys
<1>4. OfBlocks(e) \subseteq OfBlocks(f)
  BY <1>2, <1>3 DEF OfBlocks
<1>5. OfEntities(e) \subseteq OfEntities(f) /\ OfMaps(e) \subseteq OfMaps(f)
  BY <1>2 DEF OfEntities, OfMaps
<1> QED BY <1>4, <1>5, ChangesDomain

\* So process_extentry, run for each entry, leaves what it would leave if it ran once.
LEMMA AdjustedAgain ==
  ASSUME NEW e, NEW f, NEW len, e \cap Resized \subseteq f
  PROVE  Adjusted(f, Adjusted(e, len)) = Adjusted(f, len)
<1> DEFINE b == Changes(f)
           a == Changes(e)
<1>1. DOMAIN a \subseteq DOMAIN b
  BY ChangesGrow
<1> HIDE DEF a, b
<1>2. b ++ (a ++ len) = b ++ len
  BY <1>1 DEF ++
<1> QED BY <1>2 DEF a, b, Adjusted

\* With no extension the table stays what it is.
LEMMA NothingAdjusted ==
  ASSUME NEW len, len = [k \in DOMAIN len |-> len[k]]
  PROVE  Adjusted({}, len) = len
<1> DEFINE b == Changes({})
<1>1. DOMAIN b = {}
  BY ChangesDomain DEF OfBlocks, OfEntities, OfMaps
<1> HIDE DEF b
<1>2. b ++ len = len
  BY <1>1 DEF ++
<1> QED BY <1>2 DEF b, Adjusted

\* The length of one packet after process_extentry: the last assignment that there is, or the
\* one it had.
LEMMA AdjustedAt ==
  ASSUME NEW e, NEW len, NEW k
  PROVE  /\ k \in OfBlocks(e) =>
              Adjusted(e, len)[k] = When(e, "extendblockno", ForBlockNumbers(e)[k], ForTextures(e)[k])
         /\ k \notin OfBlocks(e) /\ k \in OfEntities(e) => Adjusted(e, len)[k] = ForEntityPosn(e)[k]
         /\ k \notin OfBlocks(e) \cup OfEntities(e) /\ k \in OfMaps(e) =>
              Adjusted(e, len)[k] = ForFastMap(e)[k]
         /\ k \notin (OfBlocks(e) \cup OfEntities(e)) \cup OfMaps(e) /\ k \in DOMAIN len =>
              Adjusted(e, len)[k] = len[k]
<1> DEFINE a == When(e, "extendblockno", ForBlockNumbers(e),
                     When(e, "extendtexno", ForTextures(e), <<>>))
           b == When(e, "extentityposn", ForEntityPosn(e), <<>>)
           c == When(e, "fastmap", ForFastMap(e), <<>>)
<1>1. DOMAIN a = OfBlocks(e)
  BY LayerDomains DEF When, OfBlocks
<1>2. DOMAIN b = OfEntities(e)
  BY LayerDomains DEF When, OfEntities
<1>3. DOMAIN c = OfMaps(e)
  BY LayerDomains DEF When, OfMaps
<1>4. Adjusted(e, len) = ((a ++ b) ++ c) ++ len
  BY DEF Changes, Adjusted
<1>5. k \in OfBlocks(e) => a[k] = When(e, "extendblockno", ForBlockNumbers(e)[k], ForTextures(e)[k])
  BY DEF When, OfBlocks
<1>6. k \in OfEntities(e) => b[k] = ForEntityPosn(e)[k]
  BY DEF When, OfEntities
<1>7. k \in OfMaps(e) => c[k] = ForFastMap(e)[k]
  BY DEF When, OfMaps
<1> HIDE DEF a, b, c
<1>8. DOMAIN (a ++ b) = DOMAIN a \cup DOMAIN b
  BY OverDomain
<1>9. DOMAIN ((a ++ b) ++ c) = DOMAIN (a ++ b) \cup DOMAIN c
  BY OverDomain
<1>10. /\ k \in DOMAIN a => (((a ++ b) ++ c) ++ len)[k] = a[k]
       /\ k \notin DOMAIN a /\ k \in DOMAIN b => (((a ++ b) ++ c) ++ len)[k] = b[k]
       /\ k \notin DOMAIN a \cup DOMAIN b /\ k \in DOMAIN c => (((a ++ b) ++ c) ++ len)[k] = c[k]
       /\ k \notin (DOMAIN a \cup DOMAIN b) \cup DOMAIN c /\ k \in DOMAIN len =>
            (((a ++ b) ++ c) ++ len)[k] = len[k]
  BY <1>8, <1>9 DEF ++
<1> QED BY <1>1, <1>2, <1>3, <1>4, <1>5, <1>6, <1>7, <1>10

\* The table for the extensions e and the protocol p
Listed(e, p) == Adjusted(e, PeekPacket(p, BaseLength))

\* login_peek_packet changes the length of the first packet only.
LEMMA PeekedAt ==
  ASSUME NEW p \in 3 .. 7
  PROVE  /\ DOMAIN PeekPacket(p, BaseLength) = DOMAIN BaseLength
         /\ PeekPacket(p, BaseLength)["ident"] = IF p < 6 THEN 130 ELSE 131
         /\ \A k \in DOMAIN BaseLength \ {"ident"} : PeekPacket(p, BaseLength)[k] = BaseLength[k]
BY DEF PeekPacket, BaseLength

\* Packets no extension resizes have the length of the table.
LEMMA PlainAt ==
  ASSUME NEW p \in 3 .. 7, NEW e, NEW k \in DOMAIN BaseLength,
         k \notin (BlockKeys \cup EntityKeys) \cup {"lvlinit", "ident"}
  PROVE  Listed(e, p)[k] = BaseLength[k]
<1>1. {"blockdef", "blockdef2"} \subseteq BlockKeys
  BY DEF BlockKeys
<1>2. k \notin (OfBlocks(e) \cup OfEntities(e)) \cup OfMaps(e)
  BY <1>1 DEF OfBlocks, OfEntities, OfMaps
<1>3. k \in DOMAIN PeekPacket(p, BaseLength) /\ PeekPacket(p, BaseLength)[k] = BaseLength[k]
  BY PeekedAt
<1> QED BY <1>2, <1>3, AdjustedAt DEF Listed

\* What only wide block numbers change
OnlyBlocks == {"setblock", "srvblock", "heldblock", "blockundef", "invorder", "hotbar"}

\* Packets that have a block number in them
LEMMA BlocksAt ==
  ASSUME NEW p \in 3 .. 7, NEW e, NEW k \in OnlyBlocks
  PROVE  Listed(e, p)[k] = When(e, "extendblockno", ForBlockNumbers(e)[k], BaseLength[k])
<1>1. k \in OfBlocks(e) <=> "extendblockno" \in e
  BY DEF OnlyBlocks, OfBlocks, BlockKeys
<1>2. k \notin OfEntities(e) /\ k \notin OfMaps(e)
  BY DEF OnlyBlocks, OfEntities, EntityKeys, OfMaps
<1>3. k \in DOMAIN BaseLength \ {"ident"}
  BY DEF OnlyBlocks, BaseLength
<1>4. k \in DOMAIN PeekPacket(p, BaseLength) /\ PeekPacket(p, BaseLength)[k] = BaseLength[k]
  BY <1>3, PeekedAt
<1>5. CASE "extendblockno" \in e
  BY <1>1, <1>5, AdjustedAt DEF Listed, When
<1>6. CASE "extendblockno" \notin e
  <2>1. k \notin (OfBlocks(e) \cup OfEntities(e)) \cup OfMaps(e)
    BY <1>1, <1>2, <1>6
  <2>2. Listed(e, p)[k] = BaseLength[k]
    BY <1>4, <2>1, AdjustedAt DEF Listed
  <2> QED BY <1>6, <2>2 DEF When
<1> QED BY <1>5, <1>6

\* What only wide positions change
OnlyEntities == {"spawn", "addent", "setspawn"}

\* Packets that have a position in them
LEMMA EntitiesAt ==
  ASSUME NEW p \in 3 .. 7, NEW e, NEW k \in OnlyEntities
  PROVE  Listed(e, p)[k] = When(e, "extentityposn", ForEntityPosn(e)[k], BaseLength[k])
<1>1. k \in OfEntities(e) <=> "extentityposn" \in e
  BY DEF OnlyEntities, OfEntities, EntityKeys
<1>2. k \notin OfBlocks(e) /\ k \notin OfMaps(e)
  BY DEF OnlyEntities, OfBlocks, BlockKeys, OfMaps
<1>3. k \in DOMAIN BaseLength \ {"ident"}
  BY DEF OnlyEntities, BaseLength
<1>4. k \in DOMAIN PeekPacket(p, BaseLength) /\ PeekPacket(p, BaseLength)[k] = BaseLength[k]
  BY <1>3, PeekedAt
<1>5. CASE "extentityposn" \in e
  BY <1>1, <1>2, <1>5, AdjustedAt DEF Listed, When
<1>6. CASE "extentityposn" \notin e
  <2>1. k \notin (OfBlocks(e) \cup OfEntities(e)) \cup OfMaps(e)
    BY <1>1, <1>2, <1>6
  <2>2. Listed(e, p)[k] = BaseLength[k]
    BY <1>4, <2>1, AdjustedAt DEF Listed
  <2> QED BY <1>6, <2>2 DEF When
<1> QED BY <1>5, <1>6

\* The packet of a position, as it comes from a client: both extensions resize it.
LEMMA PosnAt ==
  ASSUME NEW p \in 3 .. 7, NEW e
  PROVE  Listed(e, p)["posn"] =
           When(e, "extendblockno", When(e, "extentityposn", 17, 11), When(e, "extentityposn", 16, 10))
<1>1. "posn" \in OfBlocks(e) <=> "extendblockno" \in e
  BY DEF OfBlocks, BlockKeys
<1>2. "posn" \in OfEntities(e) <=> "extentityposn" \in e
  BY DEF OfEntities, EntityKeys
<1>3. "posn" \notin OfMaps(e)
  BY DEF OfMaps
<1>4. "posn" \in DOMAIN PeekPacket(p, BaseLength) /\ PeekPacket(p, BaseLength)["posn"] = 10
  BY PeekedAt DEF BaseLength
<1>5. CASE "extendblockno" \in e
  <2>1. Listed(e, p)["posn"] = ForBlockNumbers(e)["posn"]
    BY <1>1, <1>5, AdjustedAt DEF Listed, When
  <2>2. ForBlockNumbers(e)["posn"] = When(e, "extentityposn", 17, 11)
    BY DEF ForBlockNumbers
  <2> QED BY <1>5, <2>1, <2>2 DEF When
<1>6. CASE "extendblockno" \notin e /\ "extentityposn" \in e
  BY <1>1, <1>2, <1>6, AdjustedAt DEF Listed, When, ForEntityPosn
<1>7. CASE "extendblockno" \notin e /\ "extentityposn" \notin e
  <2>1. "posn" \notin (OfBlocks(e) \cup OfEntities(e)) \cup OfMaps(e)
    BY <1>1, <1>2, <1>3, <1>7
  <2>2. Listed(e, p)["posn"] = 10
    BY <1>4, <2>1, AdjustedAt DEF Listed
  <2> QED BY <1>7, <2>2 DEF When
<1> QED BY <1>5, <1>6, <1>7

\* The definitions of blocks: wide block numbers and wide textures resize them.
LEMMA BlockDefsAt ==
  ASSUME NEW p \in 3 .. 7, NEW e
  PROVE  /\ Listed(e, p)["blockdef"] =
              When(e, "extendblockno", 81, 80) + When(e, "extendtexno", 3, 0)
         /\ Listed(e, p)["blockdef2"] =
              When(e, "extendblockno", 89, 88) + When(e, "extendtexno", 6, 0)
<1> DEFINE ks == {"blockdef", "blockdef2"}
<1>1. \A k \in ks : k \in OfBlocks(e) <=> "extendblockno" \in e \/ "extendtexno" \in e
  BY DEF OfBlocks, BlockKeys
<1>2. \A k \in ks : k \notin OfEntities(e) /\ k \notin OfMaps(e)
  BY DEF OfEntities, EntityKeys, OfMaps
<1>3. \A k \in ks : k \in DOMAIN PeekPacket(p, BaseLength) /\ PeekPacket(p, BaseLength)[k] = BaseLength[k]
  BY PeekedAt DEF BaseLength
<1>4. BaseLength["blockdef"] = 80 /\ BaseLength["blockdef2"] = 88
  BY DEF BaseLength
<1>5. CASE "extendblockno" \in e
  <2>1. \A k \in ks : Listed(e, p)[k] = ForBlockNumbers(e)[k]
    BY <1>1, <1>5, AdjustedAt DEF Listed, When
  <2>2. ForBlockNumbers(e)["blockdef"] = 81 + When(e, "extendtexno", 3, 0)
    BY DEF ForBlockNumbers
  <2>3. ForBlockNumbers(e)["blockdef2"] = 89 + When(e, "extendtexno", 6, 0)
    BY DEF ForBlockNumbers
  <2> QED BY <1>5, <2>1, <2>2, <2>3 DEF When
<1>6. CASE "extendblockno" \notin e /\ "extendtexno" \in e
  <2>1. \A k \in ks : Listed(e, p)[k] = ForTextures(e)[k]
    BY <1>1, <1>6, AdjustedAt DEF Listed, When
  <2> QED BY <1>6, <2>1 DEF When, ForTextures
<1>7. CASE "extendblockno" \notin e /\ "extendtexno" \notin e
  <2>1. \A k \in ks : k \notin (OfBlocks(e) \cup OfEntities(e)) \cup OfMaps(e)
    BY <1>1, <1>2, <1>7
  <2>2. \A k \in ks : Listed(e, p)[k] = BaseLength[k]
    BY <1>3, <2>1, AdjustedAt DEF Listed
  <2> QED BY <1>4, <1>7, <2>2 DEF When
<1> QED BY <1>5, <1>6, <1>7

\* The beginning of a map, and the identification
LEMMA OthersAt ==
  ASSUME NEW p \in 3 .. 7, NEW e
  PROVE  /\ Listed(e, p)["lvlinit"] = When(e, "fastmap", 5, 1)
         /\ Listed(e, p)["ident"] = IF p < 6 THEN 130 ELSE 131
<1>1. \A k \in {"lvlinit", "ident"} : k \notin OfBlocks(e) /\ k \notin OfEntities(e)
  BY DEF OfBlocks, OfEntities, BlockKeys, EntityKeys
<1>2. "ident" \notin OfMaps(e) /\ ("lvlinit" \in OfMaps(e) <=> "fastmap" \in e)
  BY DEF OfMaps
<1>3. "lvlinit" \in DOMAIN PeekPacket(p, BaseLength) /\ PeekPacket(p, BaseLength)["lvlinit"] = 1
  BY PeekedAt DEF BaseLength
<1>4. "ident" \in DOMAIN PeekPacket(p, BaseLength)
  BY PeekedAt DEF BaseLength
<1>5. Listed(e, p)["ident"] = IF p < 6 THEN 130 ELSE 131
  <2>1. "ident" \notin (OfBlocks(e) \cup OfEntities(e)) \cup OfMaps(e)
    BY <1>1, <1>2
  <2>2. Listed(e, p)["ident"] = PeekPacket(p, BaseLength)["ident"]
    BY <1>4, <2>1, AdjustedAt DEF Listed
  <2> QED BY <2>2, PeekedAt
<1>6. CASE "fastmap" \in e
  <2>1. Listed(e, p)["lvlinit"] = 5
    BY <1>1, <1>2, <1>6, AdjustedAt DEF Listed, ForFastMap
  <2> QED BY <1>5, <1>6, <2>1 DEF When
<1>7. CASE "fastmap" \notin e
  <2>1. "lvlinit" \notin (OfBlocks(e) \cup OfEntities(e)) \cup OfMaps(e)
    BY <1>1, <1>2, <1>7
  <2>2. Listed(e, p)["lvlinit"] = 1
    BY <1>3, <2>1, AdjustedAt DEF Listed
  <2> QED BY <1>5, <1>7, <2>2 DEF When
<1> QED BY <1>6, <1>7

\* send_lvlinit_pkt to send_setblock_pkt write as much as the table says.
LEMMA LevelLengths ==
  ASSUME NEW p \in 3 .. 7, NEW e, NEW k \in DOMAIN SentLevel(e)
  PROVE  k \in DOMAIN BaseLength /\ SentLevel(e)[k] = Listed(e, p)[k]
<1>1. k \in {"lvlinit", "lvldata", "lvldone", "srvblock"}
  BY DEF SentLevel
<1>2. k \in DOMAIN BaseLength
  BY <1>1 DEF BaseLength
<1>3. CASE k = "lvlinit"
  BY <1>2, <1>3, OthersAt DEF SentLevel, When, Byte, Long
<1>4. CASE k = "srvblock"
  <2>1. Listed(e, p)["srvblock"] = When(e, "extendblockno", 9, 8)
    BY BlocksAt DEF OnlyBlocks, ForBlockNumbers, BaseLength
  <2> QED BY <1>2, <1>4, <2>1 DEF SentLevel, When, Byte, Short, Block
<1>5. CASE k \in {"lvldata", "lvldone"}
  <2>1. k \notin (BlockKeys \cup EntityKeys) \cup {"lvlinit", "ident"}
    BY <1>5 DEF BlockKeys, EntityKeys
  <2>2. SentLevel(e)[k] = BaseLength[k]
    BY <1>5 DEF SentLevel, BaseLength, Byte, Short
  <2> QED BY <1>2, <2>1, <2>2, PlainAt
<1> QED BY <1>1, <1>3, <1>4, <1>5

\* The packets of entities are as long as the table says, but for the position with wide block
\* numbers.
LEMMA EntityLengths ==
  ASSUME NEW p \in 3 .. 7, NEW e, NEW k \in DOMAIN SentEntity(e),
         k = "posn" => "extendblockno" \notin e
  PROVE  k \in DOMAIN BaseLength /\ SentEntity(e)[k] = Listed(e, p)[k]
<1>1. k \in {"spawn", "posn", "posn1", "posn2", "posn3", "despawn"}
  BY DEF SentEntity
<1>2. k \in DOMAIN BaseLength
  BY <1>1 DEF BaseLength
<1>3. CASE k = "spawn"
  <2>1. Listed(e, p)["spawn"] = When(e, "extentityposn", 80, 74)
    BY EntitiesAt DEF OnlyEntities, ForEntityPosn, BaseLength
  <2> QED BY <1>2, <1>3, <2>1 DEF SentEntity, When, Byte, Short, Long, Str, EntCoord, Posn
<1>4. CASE k = "posn"
  <2>1. Listed(e, p)["posn"] = When(e, "extentityposn", 16, 10)
    BY <1>4, PosnAt DEF When
  <2> QED BY <1>2, <1>4, <2>1 DEF SentEntity, When, Byte, Short, Long, EntCoord, Posn
<1>5. CASE k \in {"posn1", "posn2", "posn3", "despawn"}
  <2>1. k \notin (BlockKeys \cup EntityKeys) \cup {"lvlinit", "ident"}
    BY <1>5 DEF BlockKeys, EntityKeys
  <2>2. SentEntity(e)[k] = BaseLength[k]
    BY <1>5 DEF SentEntity, BaseLength, Byte
  <2> QED BY <1>2, <2>1, <2>2, PlainAt
<1> QED BY <1>1, <1>3, <1>4, <1>5

\* The packets of the session are as long as the table says, whatever the protocol.
LEMMA SessionLengths ==
  ASSUME NEW p \in 3 .. 7, NEW e, NEW k \in DOMAIN SentSession(e, p)
  PROVE  k \in DOMAIN BaseLength /\ SentSession(e, p)[k] = Listed(e, p)[k]
<1>1. k \in {"ident", "ping", "message", "discon", "oper", "extinfo", "extentry", "custblock",
             "pingpong"}
  BY DEF SentSession
<1>2. k \in DOMAIN BaseLength
  BY <1>1 DEF BaseLength
<1>3. CASE k = "ident"
  <2>1. SentSession(e, p)["ident"] = IF p >= 6 THEN 131 ELSE 130
    BY DEF SentSession, Byte, Str
  <2>2. Listed(e, p)["ident"] = IF p < 6 THEN 130 ELSE 131
    BY OthersAt
  <2> QED BY <1>2, <1>3, <2>1, <2>2
<1>4. CASE k # "ident"
  <2>1. k \notin (BlockKeys \cup EntityKeys) \cup {"lvlinit", "ident"}
    BY <1>1, <1>4 DEF BlockKeys, EntityKeys
  <2>2. SentSession(e, p)[k] = BaseLength[k]
    BY <1>1, <1>4 DEF SentSession, BaseLength, Byte, Short, Long, Str
  <2> QED BY <1>2, <2>1, <2>2, PlainAt
<1> QED BY <1>3, <1>4

\* The packets of the look of a level are as long as the table says.
LEMMA LookLengths ==
  ASSUME NEW p \in 3 .. 7, NEW e, NEW k \in DOMAIN SentLook(e), k # "mapappear"
  PROVE  k \in DOMAIN BaseLength /\ SentLook(e)[k] = Listed(e, p)[k]
<1>1. k \in {"clickdist", "heldblock", "mapcolour", "texurl", "mapprop", "weather", "hackctl",
             "textcolour", "setspawn"}
  BY DEF SentLook
<1>2. k \in DOMAIN BaseLength
  BY <1>1 DEF BaseLength
<1>3. CASE k = "heldblock"
  <2>1. Listed(e, p)["heldblock"] = When(e, "extendblockno", 4, 3)
    BY BlocksAt DEF OnlyBlocks, ForBlockNumbers, BaseLength
  <2> QED BY <1>2, <1>3, <2>1 DEF SentLook, When, Byte, Short, Block
<1>4. CASE k = "setspawn"
  <2>1. Listed(e, p)["setspawn"] = When(e, "extentityposn", 15, 9)
    BY EntitiesAt DEF OnlyEntities, ForEntityPosn, BaseLength
  <2> QED BY <1>2, <1>4, <2>1 DEF SentLook, When, Byte, Short, Long, EntCoord, Posn
<1>5. CASE k \notin {"heldblock", "setspawn"}
  <2>1. k \notin (BlockKeys \cup EntityKeys) \cup {"lvlinit", "ident"}
    BY <1>1, <1>5 DEF BlockKeys, EntityKeys
  <2>2. SentLook(e)[k] = BaseLength[k]
    BY <1>1, <1>5 DEF SentLook, BaseLength, Byte, Short, Long, Str
  <2> QED BY <1>2, <2>1, <2>2, PlainAt
<1> QED BY <1>3, <1>4, <1>5

\* The packets on blocks are as long as the table says.
LEMMA BlockLengths ==
  ASSUME NEW p \in 3 .. 7, NEW e, NEW k \in DOMAIN SentBlocks(e),
         k = "blockperm" => "extendblockno" \notin e
  PROVE  k \in DOMAIN BaseLength /\ SentBlocks(e)[k] = Listed(e, p)[k]
<1>1. k \in {"blockdef", "blockdef2", "blockundef", "invorder", "hotbar", "blockperm"}
  BY DEF SentBlocks
<1>2. k \in DOMAIN BaseLength
  BY <1>1 DEF BaseLength
<1>3. CASE k \in {"blockdef", "blockdef2"}
  BY <1>2, <1>3, BlockDefsAt DEF SentBlocks, BlockDef, TexId, When, Byte, Short, Str, Block
<1>4. CASE k \in {"blockundef", "invorder", "hotbar"}
  <2>1. /\ Listed(e, p)["blockundef"] = When(e, "extendblockno", 3, 2)
        /\ Listed(e, p)["invorder"] = When(e, "extendblockno", 5, 3)
        /\ Listed(e, p)["hotbar"] = When(e, "extendblockno", 4, 3)
    BY BlocksAt DEF OnlyBlocks, ForBlockNumbers, BaseLength
  <2> QED BY <1>2, <1>4, <2>1 DEF SentBlocks, When, Byte, Short, Block
<1>5. CASE k = "blockperm"
  <2>1. k \notin (BlockKeys \cup EntityKeys) \cup {"lvlinit", "ident"}
    BY <1>5 DEF BlockKeys, EntityKeys
  <2>2. SentBlocks(e)[k] = BaseLength[k]
    BY <1>5 DEF SentBlocks, BaseLength, Byte, Short, Block, When
  <2> QED BY <1>2, <2>1, <2>2, PlainAt
<1> QED BY <1>1, <1>3, <1>4, <1>5

\* The packets on players are as long as the table says.
LEMMA PlayerLengths ==
  ASSUME NEW p \in 3 .. 7, NEW e, NEW k \in DOMAIN SentPlayers(e)
  PROVE  k \in DOMAIN BaseLength /\ SentPlayers(e)[k] = Listed(e, p)[k]
<1>1. k \in {"playername", "rmplayer", "addent", "changemdl", "addcuboid", "rmcuboid"}
  BY DEF SentPlayers
<1>2. k \in DOMAIN BaseLength
  BY <1>1 DEF BaseLength
<1>3. CASE k = "addent"
  <2>1. Listed(e, p)["addent"] = When(e, "extentityposn", 144, 138)
    BY EntitiesAt DEF OnlyEntities, ForEntityPosn, BaseLength
  <2> QED BY <1>2, <1>3, <2>1 DEF SentPlayers, When, Byte, Short, Long, Str, EntCoord, Posn
<1>4. CASE k # "addent"
  <2>1. k \notin (BlockKeys \cup EntityKeys) \cup {"lvlinit", "ident"}
    BY <1>1, <1>4 DEF BlockKeys, EntityKeys
  <2>2. SentPlayers(e)[k] = BaseLength[k]
    BY <1>1, <1>4 DEF SentPlayers, BaseLength, Byte, Short, Str
  <2> QED BY <1>2, <2>1, <2>2, PlainAt
<1> QED BY <1>3, <1>4

\* What is in one record over another is from one of them.
LEMMA EitherOf ==
  ASSUME NEW f, NEW g, NEW h, h = f ++ g, NEW k
  PROVE  k \in DOMAIN h => \/ k \in DOMAIN f /\ h[k] = f[k]
                           \/ k \in DOMAIN g /\ h[k] = g[k]
BY DEF ++

\* A packet that is sent is of one of the groups.
LEMMA OneOfGroups ==
  ASSUME NEW e, NEW p, NEW k \in DOMAIN SentLength(e, p)
  PROVE  \/ k \in DOMAIN SentLevel(e) /\ SentLength(e, p)[k] = SentLevel(e)[k]
         \/ k \in DOMAIN SentEntity(e) /\ SentLength(e, p)[k] = SentEntity(e)[k]
         \/ k \in DOMAIN SentSession(e, p) /\ SentLength(e, p)[k] = SentSession(e, p)[k]
         \/ k \in DOMAIN SentLook(e) /\ SentLength(e, p)[k] = SentLook(e)[k]
         \/ k \in DOMAIN SentBlocks(e) /\ SentLength(e, p)[k] = SentBlocks(e)[k]
         \/ k \in DOMAIN SentPlayers(e) /\ SentLength(e, p)[k] = SentPlayers(e)[k]
<1> DEFINE f == SentLevel(e) ++ SentEntity(e) ++ SentSession(e, p) ++ SentLook(e) ++ SentBlocks(e)
           g == SentLevel(e) ++ SentEntity(e) ++ SentSession(e, p) ++ SentLook(e)
           h == SentLevel(e) ++ SentEntity(e) ++ SentSession(e, p)
           i == SentLevel(e) ++ SentEntity(e)
<1>1. k \in DOMAIN (f ++ SentPlayers(e)) /\ SentLength(e, p) = f ++ SentPlayers(e)
  BY DEF SentLength
<1>2. f = g ++ SentBlocks(e) /\ g = h ++ SentLook(e) /\ h = i ++ SentSession(e, p)
      /\ i = SentLevel(e) ++ SentEntity(e)
  OBVIOUS
<1> HIDE DEF f, g, h, i
<1>3. \/ k \in DOMAIN f /\ SentLength(e, p)[k] = f[k]
      \/ k \in DOMAIN SentPlayers(e) /\ SentLength(e, p)[k] = SentPlayers(e)[k]
  BY <1>1, EitherOf
<1>4. k \in DOMAIN f => \/ k \in DOMAIN g /\ f[k] = g[k]
                        \/ k \in DOMAIN SentBlocks(e) /\ f[k] = SentBlocks(e)[k]
  BY <1>2, EitherOf
<1>5. k \in DOMAIN g => \/ k \in DOMAIN h /\ g[k] = h[k]
                        \/ k \in DOMAIN SentLook(e) /\ g[k] = SentLook(e)[k]
  BY <1>2, EitherOf
<1>6. k \in DOMAIN h => \/ k \in DOMAIN i /\ h[k] = i[k]
                        \/ k \in DOMAIN SentSession(e, p) /\ h[k] = SentSession(e, p)[k]
  BY <1>2, EitherOf
<1>7. k \in DOMAIN i => \/ k \in DOMAIN SentLevel(e) /\ i[k] = SentLevel(e)[k]
                        \/ k \in DOMAIN SentEntity(e) /\ i[k] = SentEntity(e)[k]
  BY <1>2, EitherOf
<1> QED BY <1>3, <1>4, <1>5, <1>6, <1>7

\* Each send function writes as much as the table says, for every set of extensions.
LEMMA SentIsListed ==
  ASSUME NEW e, NEW p \in 3 .. 7, NEW k \in DOMAIN SentLength(e, p) \ OneWay(e)
  PROVE  k \in DOMAIN BaseLength /\ SentLength(e, p)[k] = Listed(e, p)[k]
<1>1. k # "mapappear" /\ (k \in {"posn", "blockperm"} => "extendblockno" \notin e)
  BY DEF OneWay
<1> QED BY <1>1, OneOfGroups, LevelLengths, EntityLengths, SessionLengths, LookLengths, BlockLengths,
           PlayerLengths

\* process_client_message reads as much as the table says, for every set of extensions.
LEMMA ReadIsListed ==
  ASSUME NEW e, NEW p \in 3 .. 7, "extendblockno" \notin e \/ "heldblock" \in e,
         NEW k \in DOMAIN ReadLength(e)
  PROVE  ReadLength(e)[k] = Listed(e, p)[k]
<1>1. k \in {"setblock", "posn", "message", "extinfo", "extentry", "custblock", "playerclk",
             "pingpong", "pluginmsg"}
  BY DEF ReadLength
<1>2. CASE k = "setblock"
  <2>1. Listed(e, p)["setblock"] = When(e, "extendblockno", 10, 9)
    BY BlocksAt DEF OnlyBlocks, ForBlockNumbers, BaseLength
  <2> QED BY <1>2, <2>1 DEF ReadLength, When, Byte, Short, Block
<1>3. CASE k = "posn"
  BY <1>3, PosnAt DEF ReadLength, When, Byte, Short, Long, HeldBlock, Block, EntCoord, Posn
<1>4. CASE k \notin {"setblock", "posn"}
  <2>1. k \in DOMAIN BaseLength /\ k \notin (BlockKeys \cup EntityKeys) \cup {"lvlinit", "ident"}
    BY <1>1, <1>4 DEF BaseLength, BlockKeys, EntityKeys
  <2>2. ReadLength(e)[k] = BaseLength[k]
    BY <1>1, <1>4 DEF ReadLength, BaseLength, Byte, Short, Long, Str
  <2> QED BY <2>1, <2>2, PlainAt
<1> QED BY <1>2, <1>3, <1>4

----------------------------------------------------------------------------
(* The exchange, step by step *)

\* What is given up at the end of the list resizes no packet in the table, and is not CustomBlocks.
LEMMA SettledKeeps ==
  ASSUME NEW e, NEW r
  PROVE  /\ Settled(e, r) \subseteq e
         /\ e \cap Resized \subseteq Settled(e, r)
         /\ "customblocks" \in Settled(e, r) <=> "customblocks" \in e
BY DEF Settled, Resized

\* process_extentry keeps the table in step with the extensions.
LEMMA TableContinue ==
  ASSUME TableInv, NEW e, NEW r, exts \subseteq e, Continue(e, r), UNCHANGED protocol
  PROVE  TableInv'
<1> DEFINE f == Settled(e, r)
           t == PeekPacket(protocol, BaseLength)
<1>1. exts \cap Resized \subseteq f
  BY SettledKeeps
<1>2. msglen = Adjusted(exts, t) /\ msglen' = Adjusted(f, msglen) /\ exts' = f
  BY DEF TableInv, Continue
<1>3. PeekPacket(protocol', BaseLength) = t
  OBVIOUS
<1> HIDE DEF f, t
<1>4. Adjusted(f, Adjusted(exts, t)) = Adjusted(f, t)
  BY <1>1, AdjustedAgain
<1> QED BY <1>2, <1>3, <1>4 DEF TableInv

\* login_peek_packet leaves a table.
LEMMA PeekIsTable ==
  ASSUME NEW p, NEW len, len = [k \in DOMAIN len |-> len[k]]
  PROVE  PeekPacket(p, len) = [k \in DOMAIN PeekPacket(p, len) |-> PeekPacket(p, len)[k]]
BY DEF PeekPacket

\* After the login the table is in step with no extensions.
LEMMA TableLogin ==
  ASSUME NEW p, msglen = BaseLength, exts = {}, UNCHANGED exts,
         msglen' = PeekPacket(p, msglen), protocol' = p
  PROVE  TableInv'
<1> DEFINE t == PeekPacket(p, BaseLength)
<1>1. BaseLength = [k \in DOMAIN BaseLength |-> BaseLength[k]]
  BY DEF BaseLength
<1>2. t = [k \in DOMAIN t |-> t[k]]
  BY <1>1, PeekIsTable
<1> HIDE DEF t
<1>3. Adjusted({}, t) = t
  BY <1>2, NothingAdjusted
<1> QED BY <1>3 DEF t, TableInv

\* complete_connection is called once the list and the answer are both there.
LEMMA ContinueExchange ==
  ASSUME HandshakeConstants, HandshakeTypeOK, CustomBlocksInv, phase = "cpe", cpe_pending = 1, completed = 0,
         owes = IF customblock_pkt_sent THEN 1 ELSE 0,
         NEW e, NEW r \in -1 .. MaxCount, exts \subseteq e, Continue(e, r)
  PROVE  /\ CustomBlocksInv' /\ customblock_pkt_sent' \in BOOLEAN
         /\ owes' = IF customblock_pkt_sent' THEN 1 ELSE 0
         /\ \/ phase' = "cpe" /\ cpe_pending' = 1 /\ completed' = 0 /\ (r <= 0 => owes' = 1)
            \/ phase' = "gone" /\ cpe_pending' = 3 /\ completed' = 0 /\ r <= 0
            \/ phase' = "in" /\ cpe_pending' = 0 /\ completed' = 1 /\ owes' = 0 /\ r <= 0
<1>1. CustomBlocksInv'
  BY SettledKeeps DEF Continue, CustomBlocksInv
<1>2. customblock_pkt_sent' <=> "customblocks" \in e
  BY SettledKeeps DEF Continue, CustomBlocksInv
<1>3. customblock_pkt_sent' \in BOOLEAN /\ owes' = IF customblock_pkt_sent' THEN 1 ELSE 0
  BY DEF Continue, HandshakeTypeOK
<1>4. Complete(e, Finished(e, r))
  BY DEF Continue
<1>5. CASE r > 0
  <2>1. Finished(e, r) = 1
    BY <1>5 DEF Finished
  <2> QED BY <1>1, <1>3, <1>4, <1>5, <2>1 DEF Complete
<1>6. CASE r <= 0 /\ "customblocks" \in e
  <2>1. Finished(e, r) = 1
    BY <1>6 DEF Finished
  <2> QED BY <1>1, <1>2, <1>3, <1>4, <1>6, <2>1 DEF Complete
<1>7. CASE r <= 0 /\ "customblocks" \notin e
  <2>1. Finished(e, r) = 3
    BY <1>7 DEF Finished
  <2>2. owes' = 0
    BY <1>2, <1>3, <1>7
  <2>3. CASE "evilbastard" \in e
    BY <1>1, <1>3, <1>4, <1>7, <2>1, <2>3 DEF Complete
  <2>4. CASE "evilbastard" \notin e
    BY <1>1, <1>3, <1>4, <1>7, <2>1, <2>2, <2>4 DEF Complete
  <2> QED BY <2>3, <2>4
<1> QED BY <1>5, <1>6, <1>7

\* Once in, an entry can only complete again an exchange that an answer had made pending.
LEMMA ContinueIn ==
  ASSUME HandshakeTypeOK, CustomBlocksInv, InInv, phase = "in",
         NEW e, NEW r \in -1 .. MaxCount, exts \subseteq e, Continue(e, r)
  PROVE  /\ CustomBlocksInv' /\ customblock_pkt_sent' \in BOOLEAN
         /\ phase' \in {"in", "gone"} /\ completed' \in Nat /\ completed' >= 1
         /\ cpe_pending' \in {0, 2, 3} /\ owes' \in 0 .. 1
         /\ phase' = "in" => cpe_pending' \in {0, 2}
         /\ customblock_pkt_sent => customblock_pkt_sent' /\ owes' = owes
         /\ cpe_pending = 0 => phase' = "in" /\ cpe_pending' = 0 /\ completed' = completed
<1>1. CustomBlocksInv'
  BY SettledKeeps DEF Continue, CustomBlocksInv
<1>2. Complete(e, Finished(e, r))
  BY DEF Continue
<1>3. /\ customblock_pkt_sent' = (customblock_pkt_sent \/ "customblocks" \in e)
      /\ owes' = IF ~customblock_pkt_sent /\ "customblocks" \in e THEN 1 ELSE owes
  BY DEF Continue
<1>4. /\ customblock_pkt_sent' \in BOOLEAN /\ owes' \in 0 .. 1
      /\ customblock_pkt_sent => customblock_pkt_sent' /\ owes' = owes
  BY <1>3 DEF HandshakeTypeOK
<1>5. completed \in Nat /\ completed >= 1 /\ cpe_pending \in {0, 2}
  BY DEF InInv, HandshakeTypeOK
<1>6. CASE cpe_pending = 0
  <2>1. Finished(e, r) = 0
    BY <1>6 DEF Finished
  <2>2. cpe_pending' = 0 /\ phase' = "in" /\ completed' = completed
    BY <1>2, <2>1 DEF Complete
  <2> QED BY <1>1, <1>4, <1>5, <2>2
<1>7. CASE cpe_pending = 2
  <2>1. Finished(e, r) = IF r <= 0 THEN 3 ELSE 2
    BY <1>7 DEF Finished
  <2>2. \/ phase' = "in" /\ cpe_pending' = 2 /\ completed' = completed
        \/ phase' = "gone" /\ cpe_pending' = 3 /\ completed' = completed
        \/ phase' = "in" /\ cpe_pending' = 0 /\ completed' = completed + 1
    BY <1>2, <2>1 DEF Complete
  <2> QED BY <1>1, <1>4, <1>5, <1>7, <2>2
<1> QED BY <1>5, <1>6, <1>7

\* The table has lengths for the same packets, whatever is enabled.
LEMMA ListedDomain ==
  ASSUME NEW e, NEW p \in 3 .. 7
  PROVE  DOMAIN Adjusted(e, PeekPacket(p, BaseLength)) = DOMAIN BaseLength
<1>1. DOMAIN Changes(e) \subseteq DOMAIN BaseLength
  <2>1. BlockKeys \subseteq DOMAIN BaseLength
    BY DEF BlockKeys, BaseLength
  <2>2. EntityKeys \subseteq DOMAIN BaseLength
    BY DEF EntityKeys, BaseLength
  <2>3. {"lvlinit", "blockdef", "blockdef2"} \subseteq DOMAIN BaseLength
    BY DEF BaseLength
  <2>4. OfBlocks(e) \subseteq DOMAIN BaseLength
    BY <2>1, <2>3 DEF OfBlocks
  <2>5. OfEntities(e) \subseteq DOMAIN BaseLength /\ OfMaps(e) \subseteq DOMAIN BaseLength
    BY <2>2, <2>3 DEF OfEntities, OfMaps
  <2> QED BY <2>4, <2>5, ChangesDomain
<1> DEFINE a == Changes(e)
           t == PeekPacket(p, BaseLength)
<1>2. DOMAIN t = DOMAIN BaseLength
  BY PeekedAt
<1>3. DOMAIN a \subseteq DOMAIN BaseLength
  BY <1>1
<1>4. Adjusted(e, t) = a ++ t
  BY DEF Adjusted
<1> HIDE DEF a, t
<1>5. DOMAIN (a ++ t) = DOMAIN a \cup DOMAIN t
  BY OverDomain
<1> QED BY <1>2, <1>3, <1>4, <1>5 DEF t

\* HandshakeTypeOK but for the table, of which TableInv says more
Rest ==
  /\ phase \in {"login", "cpe", "in", "gone"}
  /\ protocol \in 3 .. 7 /\ cpe_requested \in BOOLEAN
  /\ exts \subseteq enabled /\ enabled \subseteq ClientExt \ Disabled
  /\ cpe_pending \in 0 .. 3 /\ cpe_extn_remaining \in -1 .. MaxCount
  /\ customblock_pkt_sent \in BOOLEAN /\ repeated \in BOOLEAN /\ early \in BOOLEAN
  /\ completed \in Nat /\ toSend \in -1 .. MaxCount /\ late \in 0 .. MaxLate
  /\ owes \in 0 .. 1

\* With TableInv the rest of the types is all that has to be shown.
LEMMA RestIsEnough == Rest' /\ TableInv' => HandshakeTypeOK'
<1> SUFFICES ASSUME Rest', TableInv' PROVE HandshakeTypeOK'
  OBVIOUS
<1>1. DOMAIN msglen' = DOMAIN BaseLength
  BY ListedDomain DEF Rest, TableInv
<1> QED BY <1>1 DEF Rest, HandshakeTypeOK

\* To be asked is to owe an answer.
LEMMA AskedContinue ==
  ASSUME AskedInv, HandshakeTypeOK, UNCHANGED early, NEW e, NEW n, Continue(e, n)
  PROVE  AskedInv'
<1>1. /\ customblock_pkt_sent' = (customblock_pkt_sent \/ "customblocks" \in e)
      /\ owes' = IF ~customblock_pkt_sent /\ "customblocks" \in e THEN 1 ELSE owes
  BY DEF Continue
<1>2. CASE customblock_pkt_sent \/ "customblocks" \in e
  BY <1>1, <1>2 DEF AskedInv
<1>3. CASE ~(customblock_pkt_sent \/ "customblocks" \in e)
  BY <1>1, <1>3 DEF AskedInv
<1> QED BY <1>2, <1>3

\* What the lemmas about the steps start from
HandshakeHeld == HandshakeConstants /\ HandshakeIInv

\* login, and process_connection after it
LEMMA LoginStep ==
  ASSUME HandshakeHeld, NEW p \in 3 .. 7, NEW cpe \in BOOLEAN, NEW disabled \in BOOLEAN, Login(p, cpe, disabled)
  PROVE  HandshakeIInv'
<1>1. /\ phase = "login" /\ exts = {} /\ msglen = BaseLength /\ completed = 0 /\ toSend = -1 /\ owes = 0
      /\ cpe_extn_remaining = 0 /\ ~customblock_pkt_sent /\ ~early
  BY DEF Login, HandshakeHeld, HandshakeIInv, HandshakeTypeOK, LoginInv, CustomBlocksInv, AskedInv
<1>2. UNCHANGED <<enabled, exts, cpe_extn_remaining, customblock_pkt_sent, toSend, late, owes, repeated, early>>
  BY DEF Login, flags, client
<1>3. /\ phase' = (IF cpe /\ ~disabled THEN "cpe" ELSE "in")
      /\ cpe_pending' = (IF cpe /\ ~disabled THEN 1 ELSE 0)
      /\ completed' = (IF cpe /\ ~disabled THEN 0 ELSE 1)
      /\ protocol' = p /\ cpe_requested' = cpe /\ msglen' = PeekPacket(p, msglen)
  BY DEF Login, Welcome
<1>4. TableInv'
  BY <1>1, <1>2, <1>3, TableLogin
<1>5. Rest'
  <2>1. phase' \in {"cpe", "in"} /\ cpe_pending' \in 0 .. 3 /\ completed' \in Nat
    BY <1>3
  <2> QED BY <1>2, <1>3, <2>1 DEF HandshakeHeld, HandshakeIInv, HandshakeTypeOK, Rest
<1>6. CustomBlocksInv'
  BY <1>2 DEF HandshakeHeld, HandshakeIInv, CustomBlocksInv
<1>7. LoginInv' /\ GoneInv' /\ AskedInv'
  BY <1>1, <1>2, <1>3 DEF LoginInv, GoneInv, AskedInv, HandshakeHeld, HandshakeIInv
<1>8. ExchangeInv'
  BY <1>1, <1>2, <1>3 DEF ExchangeInv
<1>9. InInv'
  BY <1>1, <1>2, <1>3 DEF InInv
<1> QED BY <1>4, <1>5, <1>6, <1>7, <1>8, <1>9, RestIsEnough DEF HandshakeIInv

\* The connection ends: nothing else changes.
LEMMA GoneStep ==
  ASSUME HandshakeHeld, phase' = "gone",
         late = 0 => completed <= 1 /\ (completed = 1 => early /\ owes = 0),
         UNCHANGED <<login, flags, cpe_pending, cpe_extn_remaining, customblock_pkt_sent, msglen, completed, client>>
  PROVE  HandshakeIInv'
<1>1. HandshakeTypeOK'
  BY DEF HandshakeHeld, HandshakeIInv, HandshakeTypeOK, login, flags, client
<1>2. TableInv' /\ CustomBlocksInv'
  BY DEF HandshakeHeld, HandshakeIInv, TableInv, CustomBlocksInv, login, flags
<1>3. LoginInv' /\ ExchangeInv' /\ InInv' /\ GoneInv' /\ AskedInv'
  BY DEF HandshakeHeld, HandshakeIInv, LoginInv, ExchangeInv, InInv, GoneInv, AskedInv, client
<1> QED BY <1>1, <1>2, <1>3 DEF HandshakeIInv

\* login fails.
LEMMA RejectedStep == ASSUME HandshakeHeld, Rejected PROVE HandshakeIInv'
BY GoneStep DEF Rejected, HandshakeHeld, HandshakeIInv, LoginInv

\* on_select_timeout ends an exchange that takes a minute.
LEMMA PendingTimeoutStep == ASSUME HandshakeHeld, PendingTimeout PROVE HandshakeIInv'
<1>1. late = 0 => completed <= 1 /\ (completed = 1 => early /\ owes = 0)
  BY DEF PendingTimeout, HandshakeHeld, HandshakeIInv, ExchangeInv, InInv
<1> QED BY <1>1, GoneStep DEF PendingTimeout

\* The answer to CustomBlocks: it completes the exchange, or makes it pending again.
LEMMA CustBlockStep == ASSUME HandshakeHeld, CustBlock PROVE HandshakeIInv'
<1>1. /\ UNCHANGED <<protocol, cpe_requested, enabled, exts, cpe_extn_remaining, customblock_pkt_sent>>
      /\ UNCHANGED <<msglen, toSend, repeated>>
  BY DEF CustBlock, login, flags
<1>2. Complete(exts, WithAnswer(cpe_pending))
  BY DEF CustBlock
<1>3. TableInv' /\ CustomBlocksInv'
  BY <1>1 DEF HandshakeHeld, HandshakeIInv, TableInv, CustomBlocksInv
<1>4. \/ owes = 1 /\ owes' = 0 /\ early' = (early \/ toSend > 0) /\ late' = late
      \/ owes = 0 /\ owes' = 0 /\ early' = early /\ late' = late + 1 /\ late < MaxLate
  BY DEF CustBlock, HandshakeHeld, HandshakeIInv, HandshakeTypeOK
<1>5. late \in 0 .. MaxLate /\ MaxLate \in Nat /\ early \in BOOLEAN /\ toSend \in -1 .. MaxCount
  BY DEF HandshakeHeld, HandshakeConstants, HandshakeIInv, HandshakeTypeOK
<1>6. late' \in 0 .. MaxLate /\ owes' = 0 /\ (late' = 0 => owes = 1 /\ late = 0)
  BY <1>4, <1>5
<1>7. PICK b \in BOOLEAN : early' = b /\ (~b => toSend <= 0 \/ late' # 0) /\ (b => early \/ owes = 1)
  <2>1. CASE owes = 1 /\ owes' = 0 /\ early' = (early \/ toSend > 0) /\ late' = late
    <3>1. CASE early
      BY <1>5, <2>1, <3>1
    <3>2. CASE ~early /\ toSend > 0
      BY <1>5, <2>1, <3>2
    <3>3. CASE ~early /\ ~(toSend > 0)
      BY <1>5, <2>1, <3>3
    <3> QED BY <3>1, <3>2, <3>3
  <2>2. CASE owes = 0 /\ owes' = 0 /\ early' = early /\ late' = late + 1 /\ late < MaxLate
    BY <1>5, <2>2
  <2> QED BY <1>4, <2>1, <2>2
<1>8. CASE phase = "cpe"
  <2>1. /\ cpe_pending = 1 /\ completed = 0 /\ ~early
        /\ owes = IF customblock_pkt_sent THEN 1 ELSE 0
    BY <1>8 DEF HandshakeHeld, HandshakeIInv, ExchangeInv
  <2>2. WithAnswer(cpe_pending) = 3
    BY <2>1 DEF WithAnswer
  <2>3. \/ phase' = "gone" /\ cpe_pending' = 3 /\ completed' = 0
        \/ phase' = "in" /\ cpe_pending' = 0 /\ completed' = 1
    BY <1>2, <2>1, <2>2 DEF Complete
  <2>4. Rest'
    BY <1>1, <1>6, <1>7, <2>3 DEF HandshakeHeld, HandshakeIInv, HandshakeTypeOK, Rest
  <2>5. LoginInv' /\ ExchangeInv' /\ GoneInv'
    BY <2>3 DEF LoginInv, ExchangeInv, GoneInv
  <2>6. AskedInv'
    BY <1>1, <1>6, <1>7 DEF HandshakeHeld, HandshakeIInv, AskedInv
  <2>7. InInv'
    BY <1>1, <1>6, <1>7, <2>3 DEF InInv
  <2> QED BY <1>3, <2>4, <2>5, <2>6, <2>7, RestIsEnough DEF HandshakeIInv
<1>9. CASE phase = "in"
  <2>1. cpe_pending \in {0, 2} /\ completed >= 1 /\ completed \in Nat /\ (late = 0 => owes = 0)
    BY <1>9 DEF HandshakeHeld, HandshakeIInv, HandshakeTypeOK, InInv
  <2>2. WithAnswer(cpe_pending) = 2
    BY <2>1 DEF WithAnswer
  <2>3. phase' = "in" /\ cpe_pending' = 2 /\ completed' = completed
    BY <1>2, <1>9, <2>1, <2>2 DEF Complete
  <2>4. Rest'
    BY <1>1, <1>6, <1>7, <2>1, <2>3 DEF HandshakeHeld, HandshakeIInv, HandshakeTypeOK, Rest
  <2>5. LoginInv' /\ ExchangeInv' /\ GoneInv'
    BY <2>3 DEF LoginInv, ExchangeInv, GoneInv
  <2>6. AskedInv'
    BY <1>1, <1>6, <1>7 DEF HandshakeHeld, HandshakeIInv, AskedInv
  <2>7. InInv'
    BY <1>6, <2>1, <2>3 DEF InInv
  <2> QED BY <1>3, <2>4, <2>5, <2>6, <2>7, RestIsEnough DEF HandshakeIInv
<1> QED BY <1>8, <1>9 DEF CustBlock

\* The number of entries a client advertises: without any the exchange is complete.
LEMMA ExtInfoInExchange ==
  ASSUME HandshakeHeld, NEW count \in -1 .. MaxCount, ExtInfo(count), phase = "cpe"
  PROVE  HandshakeIInv'
<1>1. /\ phase = "cpe" /\ toSend = -1 /\ exts = {} /\ completed = 0 /\ cpe_pending = 1 /\ ~early
      /\ owes = IF customblock_pkt_sent THEN 1 ELSE 0
  BY DEF ExtInfo, HandshakeHeld, HandshakeIInv, ExchangeInv
<1>2. /\ toSend' = (IF count > 0 THEN count ELSE 0) /\ cpe_extn_remaining' = count
      /\ UNCHANGED <<protocol, cpe_requested, enabled, late, repeated, early>>
  BY <1>1 DEF ExtInfo, login
<1>3. MaxCount \in Nat /\ toSend' \in -1 .. MaxCount /\ cpe_extn_remaining' \in -1 .. MaxCount
  BY <1>2 DEF HandshakeHeld, HandshakeConstants
<1>4. CASE count > 0
  <2>1. UNCHANGED <<phase, exts, cpe_pending, customblock_pkt_sent, msglen, completed, owes>>
    BY <1>4 DEF ExtInfo
  <2>2. TableInv' /\ CustomBlocksInv' /\ AskedInv'
    BY <1>2, <2>1 DEF HandshakeHeld, HandshakeIInv, TableInv, CustomBlocksInv, AskedInv
  <2>3. Rest'
    BY <1>2, <1>3, <2>1 DEF HandshakeHeld, HandshakeIInv, HandshakeTypeOK, Rest
  <2>4. LoginInv' /\ InInv' /\ GoneInv'
    BY <1>1, <2>1 DEF LoginInv, InInv, GoneInv
  <2>5. ExchangeInv'
    BY <1>1, <1>2, <1>4, <2>1 DEF ExchangeInv
  <2> QED BY <2>2, <2>3, <2>4, <2>5, RestIsEnough DEF HandshakeIInv
<1>5. CASE count <= 0
  <2>1. Continue(exts, count)
    BY <1>1, <1>5 DEF ExtInfo
  <2>2. TableInv'
    BY <1>2, <2>1, TableContinue DEF HandshakeHeld, HandshakeIInv
  <2>3. /\ CustomBlocksInv' /\ customblock_pkt_sent' \in BOOLEAN
        /\ owes' = IF customblock_pkt_sent' THEN 1 ELSE 0
        /\ \/ phase' = "cpe" /\ cpe_pending' = 1 /\ completed' = 0 /\ owes' = 1
           \/ phase' = "gone" /\ cpe_pending' = 3 /\ completed' = 0
           \/ phase' = "in" /\ cpe_pending' = 0 /\ completed' = 1 /\ owes' = 0
    BY <1>1, <1>5, <2>1, ContinueExchange DEF HandshakeHeld, HandshakeIInv
  <2>4. exts' \subseteq exts
    BY <2>1, SettledKeeps DEF Continue
  <2>5. Rest'
    <3>1. phase' \in {"cpe", "gone", "in"} /\ cpe_pending' \in 0 .. 3 /\ completed' \in Nat
      BY <2>3
    <3>2. owes' \in 0 .. 1
      BY <2>3
    <3> QED BY <1>2, <1>3, <2>3, <2>4, <3>1, <3>2 DEF HandshakeHeld, HandshakeIInv, HandshakeTypeOK, Rest
  <2>6. LoginInv' /\ GoneInv' /\ AskedInv'
    BY <1>1, <1>2, <2>3 DEF LoginInv, GoneInv, AskedInv
  <2>7. ExchangeInv'
    BY <1>1, <1>2, <1>5, <2>3 DEF ExchangeInv
  <2>8. InInv'
    BY <1>2, <1>5, <2>3 DEF InInv
  <2> QED BY <2>2, <2>3, <2>5, <2>6, <2>7, <2>8, RestIsEnough DEF HandshakeIInv
<1> QED BY <1>4, <1>5

\* A client that is in before it has named its extensions: the number is not counted down,
\* or completes the exchange that a second answer had made pending.
LEMMA ExtInfoIn ==
  ASSUME HandshakeHeld, NEW count \in -1 .. MaxCount, ExtInfo(count), phase = "in", late > 0
  PROVE  HandshakeIInv'
<1>1. /\ toSend' = (IF count > 0 THEN count ELSE 0)
      /\ cpe_extn_remaining' = (IF cpe_pending = 0 THEN 0 ELSE count)
      /\ UNCHANGED <<protocol, cpe_requested, enabled, late, repeated, early>>
  BY DEF ExtInfo, login
<1>2. /\ late \in 0 .. MaxLate /\ late # 0 /\ cpe_pending \in {0, 2} /\ completed \in Nat
      /\ completed >= 1
  BY DEF HandshakeHeld, HandshakeIInv, HandshakeTypeOK, InInv
<1>3. MaxCount \in Nat /\ toSend' \in -1 .. MaxCount /\ cpe_extn_remaining' \in -1 .. MaxCount
  BY <1>1 DEF HandshakeHeld, HandshakeConstants
<1>4. CASE cpe_pending = 0 \/ count > 0
  <2>1. UNCHANGED <<phase, exts, cpe_pending, customblock_pkt_sent, msglen, completed, owes>>
    BY <1>4 DEF ExtInfo
  <2>2. TableInv' /\ CustomBlocksInv' /\ AskedInv'
    BY <1>1, <2>1 DEF HandshakeHeld, HandshakeIInv, TableInv, CustomBlocksInv, AskedInv
  <2>3. Rest'
    BY <1>1, <1>3, <2>1 DEF HandshakeHeld, HandshakeIInv, HandshakeTypeOK, Rest
  <2>4. LoginInv' /\ ExchangeInv' /\ GoneInv'
    BY <2>1 DEF LoginInv, ExchangeInv, GoneInv
  <2>5. InInv'
    BY <1>1, <1>2, <2>1 DEF InInv
  <2> QED BY <2>2, <2>3, <2>4, <2>5, RestIsEnough DEF HandshakeIInv
<1>5. CASE cpe_pending # 0 /\ count <= 0
  <2>1. Continue(exts, count)
    BY <1>5 DEF ExtInfo
  <2>2. TableInv'
    BY <1>1, <2>1, TableContinue DEF HandshakeHeld, HandshakeIInv
  <2>3. /\ CustomBlocksInv' /\ customblock_pkt_sent' \in BOOLEAN
        /\ phase' \in {"in", "gone"} /\ completed' \in Nat /\ completed' >= 1
        /\ cpe_pending' \in {0, 2, 3} /\ owes' \in 0 .. 1
        /\ phase' = "in" => cpe_pending' \in {0, 2}
        /\ customblock_pkt_sent => customblock_pkt_sent' /\ owes' = owes
    BY <2>1, ContinueIn DEF HandshakeHeld, HandshakeIInv
  <2>4. exts' \subseteq exts
    BY <2>1, SettledKeeps DEF Continue
  <2>5. Rest'
    <3>1. phase' \in {"gone", "in"} /\ cpe_pending' \in 0 .. 3
      BY <2>3
    <3> QED BY <1>1, <1>3, <2>3, <2>4, <3>1 DEF HandshakeHeld, HandshakeIInv, HandshakeTypeOK, Rest
  <2>6. LoginInv' /\ ExchangeInv' /\ GoneInv'
    BY <1>1, <1>2, <2>3 DEF LoginInv, ExchangeInv, GoneInv
  <2>7. AskedInv'
    BY <1>1, <2>1, AskedContinue DEF HandshakeHeld, HandshakeIInv
  <2>8. InInv'
    BY <1>1, <1>2, <2>3 DEF InInv
  <2> QED BY <2>2, <2>3, <2>5, <2>6, <2>7, <2>8, RestIsEnough DEF HandshakeIInv
<1> QED BY <1>2, <1>4, <1>5

\* PKID_EXTINFO
LEMMA ExtInfoStep ==
  ASSUME HandshakeHeld, NEW count \in -1 .. MaxCount, ExtInfo(count)
  PROVE  HandshakeIInv'
BY ExtInfoInExchange, ExtInfoIn DEF ExtInfo

\* The number of entries that remain goes down with what the client has still to send.
LEMMA LessIn ==
  ASSUME HandshakeConstants, NEW n \in -1 .. MaxCount
  PROVE  Less(n) \in -1 .. MaxCount /\ (n > 0 => Less(n) = n - 1) /\ (n <= 0 => Less(n) = n)
BY DEF HandshakeConstants, Less

\* What an entry does to the counts, whatever else
LEMMA EntryCounts ==
  ASSUME HandshakeHeld, NEW x \in ClientExt, ExtEntry(x)
  PROVE  /\ toSend' \in -1 .. MaxCount /\ late' \in 0 .. MaxLate
         /\ cpe_extn_remaining' = Less(cpe_extn_remaining) /\ cpe_extn_remaining' \in -1 .. MaxCount
         /\ \/ toSend > 0 /\ toSend' = toSend - 1 /\ late' = late
            \/ toSend = 0 /\ toSend' = 0 /\ late' = late + 1
         /\ UNCHANGED <<protocol, cpe_requested, early>>
         /\ repeated' \in BOOLEAN
         /\ enabled \subseteq enabled' /\ enabled' \subseteq ClientExt \ Disabled
<1>1. cpe_extn_remaining \in -1 .. MaxCount /\ toSend \in -1 .. MaxCount /\ late \in 0 .. MaxLate
  BY DEF HandshakeHeld, HandshakeIInv, HandshakeTypeOK
<1>2. MaxCount \in Nat /\ MaxLate \in Nat
  BY DEF HandshakeHeld, HandshakeConstants
<1>3. \/ toSend > 0 /\ toSend' = toSend - 1 /\ late' = late
      \/ toSend = 0 /\ late < MaxLate /\ toSend' = 0 /\ late' = late + 1
  BY DEF ExtEntry
<1>4. toSend' \in -1 .. MaxCount /\ late' \in 0 .. MaxLate
  BY <1>1, <1>2, <1>3
<1>5. cpe_extn_remaining' = Less(cpe_extn_remaining) /\ cpe_extn_remaining' \in -1 .. MaxCount
  BY <1>1, LessIn DEF ExtEntry, HandshakeHeld
<1>6. repeated' = (x \in enabled) /\ UNCHANGED <<protocol, cpe_requested, early>>
  BY DEF ExtEntry, login
<1>7. repeated' \in BOOLEAN
  BY <1>6
<1>8. enabled \subseteq enabled' /\ enabled' \subseteq ClientExt \ Disabled
  BY DEF ExtEntry, Enabled, HandshakeHeld, HandshakeIInv, HandshakeTypeOK
<1> QED BY <1>3, <1>4, <1>5, <1>6, <1>7, <1>8

\* "Don't repeat it": the entry is passed over, and with it the end of the list.
LEMMA RepeatedStep ==
  ASSUME HandshakeHeld, NEW x \in ClientExt, ExtEntry(x), x \in enabled,
         UNCHANGED <<phase, exts, cpe_pending, customblock_pkt_sent, msglen, completed, owes>>
  PROVE  HandshakeIInv'
<1>1. repeated' = TRUE
  BY DEF ExtEntry
<1>2. TableInv' /\ CustomBlocksInv'
  BY EntryCounts DEF HandshakeHeld, HandshakeIInv, TableInv, CustomBlocksInv
<1>3. Rest'
  <2>1. exts' \subseteq enabled'
    BY EntryCounts DEF HandshakeHeld, HandshakeIInv, HandshakeTypeOK
  <2> QED BY <2>1, EntryCounts DEF HandshakeHeld, HandshakeIInv, HandshakeTypeOK, Rest
<1>4. toSend \in -1 .. MaxCount /\ late \in 0 .. MaxLate /\ cpe_extn_remaining \in -1 .. MaxCount
  BY DEF HandshakeHeld, HandshakeIInv, HandshakeTypeOK
<1>5. LoginInv'
  BY DEF ExtEntry, LoginInv
<1>6. ExchangeInv'
  <2>1. phase = "cpe" => \/ toSend > 0 /\ cpe_extn_remaining = toSend
                         \/ toSend = 0 /\ cpe_extn_remaining <= 0
    BY EntryCounts DEF HandshakeHeld, HandshakeIInv, ExchangeInv
  <2>2. phase = "cpe" => /\ toSend' # -1 /\ (toSend' > 0 => cpe_extn_remaining' = toSend')
                         /\ (toSend' = 0 => cpe_extn_remaining' <= 0)
    BY <1>4, <2>1, EntryCounts, LessIn DEF HandshakeHeld, HandshakeConstants
  <2> QED BY <1>1, <2>2, EntryCounts DEF HandshakeHeld, HandshakeIInv, ExchangeInv
<1>7. InInv'
  <2>1. phase = "in" => late' # 0 \/ early
    BY <1>4, EntryCounts DEF HandshakeHeld, HandshakeIInv, InInv
  <2>2. late' = 0 => late = 0
    BY <1>4, EntryCounts
  <2> QED BY <2>1, <2>2, EntryCounts DEF HandshakeHeld, HandshakeIInv, InInv
<1>8. GoneInv' /\ AskedInv'
  BY EntryCounts DEF ExtEntry, GoneInv, AskedInv, HandshakeHeld, HandshakeIInv
<1> QED BY <1>2, <1>3, <1>5, <1>6, <1>7, <1>8, RestIsEnough DEF HandshakeIInv

\* "cannot be enabled late": a client that is in has sent more than it advertised.
LEMMA TooLateStep ==
  ASSUME HandshakeHeld, NEW x \in ClientExt, ExtEntry(x), TooLate(x), phase' = "gone",
         UNCHANGED <<exts, cpe_pending, customblock_pkt_sent, msglen, completed, owes>>
  PROVE  HandshakeIInv'
<1>1. TableInv' /\ CustomBlocksInv'
  BY EntryCounts DEF HandshakeHeld, HandshakeIInv, TableInv, CustomBlocksInv
<1>2. Rest'
  <2>1. exts' \subseteq enabled'
    BY EntryCounts DEF HandshakeHeld, HandshakeIInv, HandshakeTypeOK
  <2> QED BY <2>1, EntryCounts DEF HandshakeHeld, HandshakeIInv, HandshakeTypeOK, Rest
<1>3. LoginInv' /\ ExchangeInv' /\ InInv' /\ AskedInv'
  BY EntryCounts DEF LoginInv, ExchangeInv, InInv, AskedInv, HandshakeHeld, HandshakeIInv
<1>4. GoneInv'
  <2>1. late \in 0 .. MaxLate /\ toSend \in -1 .. MaxCount
    BY DEF HandshakeHeld, HandshakeIInv, HandshakeTypeOK
  <2>2. phase = "in"
    BY DEF ExtEntry, TooLate, HandshakeHeld, HandshakeIInv, ExchangeInv
  <2>3. late' = 0 => late = 0 /\ early
    BY <2>1, <2>2, EntryCounts DEF HandshakeHeld, HandshakeIInv, InInv
  <2>4. late = 0 => completed = 1 /\ owes = 0
    BY <2>2 DEF HandshakeHeld, HandshakeIInv, InInv
  <2>5. early' = early /\ completed' = completed /\ owes' = owes
    BY EntryCounts
  <2>6. late' = 0 => completed' = 1 /\ early' /\ owes' = 0
    BY <2>3, <2>4, <2>5
  <2> QED BY <2>6 DEF GoneInv
<1> QED BY <1>1, <1>2, <1>3, <1>4, RestIsEnough DEF HandshakeIInv

\* An entry of the list: if it is the last one and there is no answer to wait for, the client is in.
LEMMA NewInExchange ==
  ASSUME HandshakeHeld, NEW x \in ClientExt, ExtEntry(x), x \notin enabled, phase = "cpe",
         Continue(exts \cup Enabled(x), Less(cpe_extn_remaining))
  PROVE  HandshakeIInv'
<1> DEFINE e == exts \cup Enabled(x)
           r == Less(cpe_extn_remaining)
<1>1. /\ completed = 0 /\ cpe_pending = 1 /\ owes = IF customblock_pkt_sent THEN 1 ELSE 0
      /\ ~early
      /\ toSend > 0 => cpe_extn_remaining = toSend
      /\ toSend = 0 => cpe_extn_remaining <= 0
  BY DEF HandshakeHeld, HandshakeIInv, ExchangeInv
<1>2. cpe_extn_remaining \in -1 .. MaxCount /\ toSend \in -1 .. MaxCount /\ MaxCount \in Nat
  BY DEF HandshakeHeld, HandshakeConstants, HandshakeIInv, HandshakeTypeOK
<1>3. cpe_extn_remaining' = r /\ r \in -1 .. MaxCount
  BY EntryCounts
<1>4. toSend' >= 0 /\ (toSend' > 0 => r = toSend') /\ (toSend' = 0 <=> r <= 0)
  BY <1>1, <1>2, EntryCounts, LessIn DEF HandshakeHeld
<1>5. exts \subseteq e /\ Continue(e, r)
  OBVIOUS
<1> HIDE DEF r
<1>6. TableInv'
  BY <1>5, EntryCounts, TableContinue DEF HandshakeHeld, HandshakeIInv
<1>7. e \subseteq enabled'
  <2>1. ~TooLate(x)
    BY <1>1 DEF TooLate
  <2>2. enabled' = enabled \cup Enabled(x)
    BY <2>1 DEF ExtEntry
  <2> QED BY <2>2 DEF HandshakeHeld, HandshakeIInv, HandshakeTypeOK
<1> HIDE DEF e
<1>8. exts' \subseteq enabled'
  BY <1>5, <1>7, SettledKeeps DEF Continue
<1>9. /\ CustomBlocksInv' /\ customblock_pkt_sent' \in BOOLEAN
      /\ owes' = IF customblock_pkt_sent' THEN 1 ELSE 0
      /\ \/ phase' = "cpe" /\ cpe_pending' = 1 /\ completed' = 0 /\ (r <= 0 => owes' = 1)
         \/ phase' = "gone" /\ cpe_pending' = 3 /\ completed' = 0 /\ r <= 0
         \/ phase' = "in" /\ cpe_pending' = 0 /\ completed' = 1 /\ owes' = 0 /\ r <= 0
  BY <1>1, <1>3, <1>5, ContinueExchange DEF HandshakeHeld, HandshakeIInv
<1>10. Rest'
  <2>1. phase' \in {"cpe", "gone", "in"} /\ cpe_pending' \in 0 .. 3 /\ completed' \in Nat
    BY <1>9
  <2>2. owes' \in 0 .. 1
    BY <1>9
  <2> QED BY <1>8, <1>9, <2>1, <2>2, EntryCounts DEF HandshakeHeld, HandshakeIInv, HandshakeTypeOK, Rest
<1>11. LoginInv' /\ GoneInv' /\ AskedInv'
  BY <1>1, <1>9, EntryCounts DEF LoginInv, GoneInv, AskedInv
<1>12. ExchangeInv'
  BY <1>1, <1>3, <1>4, <1>9, EntryCounts DEF ExchangeInv
<1>13. InInv'
  BY <1>3, <1>4, <1>9 DEF InInv
<1> QED BY <1>6, <1>9, <1>10, <1>11, <1>12, <1>13, RestIsEnough DEF HandshakeIInv

\* "Client enabled extension %s late -- Okay."
LEMMA NewLate ==
  ASSUME HandshakeHeld, NEW x \in ClientExt, ExtEntry(x), x \notin enabled, ~TooLate(x), phase = "in",
         Continue(exts \cup Enabled(x), Less(cpe_extn_remaining))
  PROVE  HandshakeIInv'
<1> DEFINE e == exts \cup Enabled(x)
           r == Less(cpe_extn_remaining)
<1>1. /\ toSend \in -1 .. MaxCount /\ late \in 0 .. MaxLate
      /\ late = 0 => completed = 1 /\ cpe_pending = 0 /\ owes = 0 /\ (toSend <= 0 \/ early)
  BY DEF HandshakeHeld, HandshakeIInv, HandshakeTypeOK, InInv
<1>2. late' = 0 => late = 0 /\ early
  BY <1>1, EntryCounts
<1>3. cpe_extn_remaining' = r /\ r \in -1 .. MaxCount
  BY EntryCounts
<1>4. exts \subseteq e /\ Continue(e, r)
  OBVIOUS
<1> HIDE DEF r
<1>5. TableInv'
  BY <1>4, EntryCounts, TableContinue DEF HandshakeHeld, HandshakeIInv
<1>6. e \subseteq enabled'
  <2>1. enabled' = enabled \cup Enabled(x)
    BY DEF ExtEntry
  <2> QED BY <2>1 DEF HandshakeHeld, HandshakeIInv, HandshakeTypeOK
<1> HIDE DEF e
<1>7. exts' \subseteq enabled'
  BY <1>4, <1>6, SettledKeeps DEF Continue
<1>8. /\ CustomBlocksInv' /\ customblock_pkt_sent' \in BOOLEAN
      /\ phase' \in {"in", "gone"} /\ completed' \in Nat /\ completed' >= 1
      /\ cpe_pending' \in {0, 2, 3} /\ owes' \in 0 .. 1
      /\ phase' = "in" => cpe_pending' \in {0, 2}
      /\ customblock_pkt_sent => customblock_pkt_sent' /\ owes' = owes
      /\ cpe_pending = 0 => phase' = "in" /\ cpe_pending' = 0 /\ completed' = completed
  BY <1>3, <1>4, ContinueIn DEF HandshakeHeld, HandshakeIInv
<1>9. Rest'
  <2>1. phase' \in {"gone", "in"} /\ cpe_pending' \in 0 .. 3
    BY <1>8
  <2> QED BY <1>7, <1>8, <2>1, EntryCounts DEF HandshakeHeld, HandshakeIInv, HandshakeTypeOK, Rest
<1>10. AskedInv'
  BY <1>4, EntryCounts, AskedContinue DEF HandshakeHeld, HandshakeIInv
<1>11. early => customblock_pkt_sent
  BY DEF HandshakeHeld, HandshakeIInv, AskedInv
<1>12. LoginInv' /\ ExchangeInv' /\ GoneInv'
  BY <1>1, <1>2, <1>8 DEF LoginInv, ExchangeInv, GoneInv
<1>13. InInv'
  BY <1>1, <1>2, <1>8, <1>11, EntryCounts DEF InInv
<1> QED BY <1>5, <1>8, <1>9, <1>10, <1>12, <1>13, RestIsEnough DEF HandshakeIInv

\* process_extentry
LEMMA ExtEntryStep ==
  ASSUME HandshakeHeld, NEW x \in ClientExt, ExtEntry(x)
  PROVE  HandshakeIInv'
<1>1. CASE x \in enabled
  BY <1>1, RepeatedStep DEF ExtEntry
<1>2. CASE x \notin enabled /\ TooLate(x)
  BY <1>2, TooLateStep DEF ExtEntry
<1>3. CASE x \notin enabled /\ ~TooLate(x)
  BY <1>3, NewInExchange, NewLate DEF ExtEntry
<1> QED BY <1>1, <1>2, <1>3

----------------------------------------------------------------------------
(* The invariant *)

\* A client that connects: no extension, no length changed.
LEMMA HandshakeInitHolds == HandshakeConstants /\ HandshakeInit => HandshakeIInv
<1> SUFFICES ASSUME HandshakeConstants, HandshakeInit PROVE HandshakeIInv
  OBVIOUS
<1>1. HandshakeTypeOK
  <2>1. /\ phase = "login" /\ protocol = 7 /\ cpe_requested = FALSE /\ enabled = {} /\ exts = {}
        /\ cpe_pending = 0 /\ cpe_extn_remaining = 0 /\ customblock_pkt_sent = FALSE /\ msglen = BaseLength
        /\ completed = 0 /\ toSend = -1 /\ late = 0 /\ owes = 0 /\ repeated = FALSE
        /\ early = FALSE
    BY DEF HandshakeInit
  <2>2. MaxCount \in Nat /\ MaxLate \in Nat
    BY DEF HandshakeConstants
  <2>3. /\ protocol \in 3 .. 7 /\ cpe_pending \in 0 .. 3 /\ cpe_extn_remaining \in -1 .. MaxCount
        /\ completed \in Nat /\ toSend \in -1 .. MaxCount /\ late \in 0 .. MaxLate /\ owes \in 0 .. 1
    BY <2>1, <2>2
  <2>4. /\ phase \in {"login", "cpe", "in", "gone"} /\ DOMAIN msglen = DOMAIN BaseLength
        /\ exts \subseteq enabled /\ enabled \subseteq ClientExt \ Disabled
    BY <2>1
  <2>5. cpe_requested \in BOOLEAN /\ customblock_pkt_sent \in BOOLEAN /\ repeated \in BOOLEAN /\ early \in BOOLEAN
    BY <2>1
  <2> QED BY <2>3, <2>4, <2>5 DEF HandshakeTypeOK
<1>2. TableInv
  <2>1. BaseLength = [k \in DOMAIN BaseLength |-> BaseLength[k]]
    BY DEF BaseLength
  <2>2. PeekPacket(7, BaseLength) = BaseLength
    BY DEF PeekPacket, BaseLength
  <2>3. Adjusted({}, BaseLength) = BaseLength
    BY <2>1, NothingAdjusted
  <2> QED BY <2>2, <2>3 DEF HandshakeInit, TableInv
<1>3. CustomBlocksInv /\ LoginInv /\ ExchangeInv /\ InInv /\ AskedInv /\ GoneInv
  BY DEF HandshakeInit, CustomBlocksInv, LoginInv, ExchangeInv, InInv, AskedInv, GoneInv
<1> QED BY <1>1, <1>2, <1>3 DEF HandshakeIInv

\* The invariant is inductive: no packet of the client and no timeout breaks it.
LEMMA HandshakeNextHolds ==
  HandshakeConstants /\ HandshakeIInv /\ [HandshakeNext]_handshakeVars => HandshakeIInv'
<1> SUFFICES ASSUME HandshakeConstants, HandshakeIInv, [HandshakeNext]_handshakeVars PROVE HandshakeIInv'
  OBVIOUS
<1>1. HandshakeHeld
  BY DEF HandshakeHeld
<1>2. CASE UNCHANGED handshakeVars
  <2>1. HandshakeTypeOK' /\ TableInv' /\ CustomBlocksInv'
    BY <1>2 DEF handshakeVars, HandshakeIInv, HandshakeTypeOK, TableInv, CustomBlocksInv
  <2>2. LoginInv' /\ ExchangeInv' /\ InInv' /\ AskedInv' /\ GoneInv'
    BY <1>2 DEF handshakeVars, HandshakeIInv, LoginInv, ExchangeInv, InInv, AskedInv, GoneInv
  <2> QED BY <2>1, <2>2 DEF HandshakeIInv
<1>3. CASE HandshakeNext
  BY <1>1, <1>3, LoginStep, RejectedStep, ExtInfoStep, ExtEntryStep, CustBlockStep, PendingTimeoutStep
     DEF HandshakeNext
<1> QED BY <1>2, <1>3

\* The invariant holds in every state of the handshake, for every list of extensions of a
\* client, however long, and whatever the server has disabled.
THEOREM HandshakeInvariant == ASSUME HandshakeConstants PROVE HandshakeSpec => []HandshakeIInv
<1>1. HandshakeInit => HandshakeIInv
  BY HandshakeInitHolds
<1>2. HandshakeIInv /\ [HandshakeNext]_handshakeVars => HandshakeIInv'
  BY HandshakeNextHolds
<1> QED BY <1>1, <1>2, PTL DEF HandshakeSpec

\* "Message packet sizes, send and receive use the same list" (packet.c:126): each send
\* function writes as many bytes as msglen has for the packet, whatever was negotiated, and in
\* whatever order.
THEOREM LengthsSent == ASSUME HandshakeConstants PROVE HandshakeSpec => []SendsWhatIsListed
<1>1. HandshakeIInv => SendsWhatIsListed
  BY SentIsListed DEF HandshakeIInv, HandshakeTypeOK, TableInv, SendsWhatIsListed, Listed
<1> QED BY <1>1, HandshakeInvariant, PTL

\* The stream is cut where process_client_message stops to read, from the list's first entry on
\* and whatever was negotiated, unless wide block numbers come without HeldBlock.
THEOREM LengthsRead == ASSUME HandshakeConstants PROVE HandshakeSpec => []ReadsWhatIsCut
<1>1. HandshakeIInv => ReadsWhatIsCut
  BY ReadIsListed DEF HandshakeIInv, HandshakeTypeOK, TableInv, ReadsWhatIsCut, Listed
<1> QED BY <1>1, HandshakeInvariant, PTL

\* complete_connection runs once for a client that sends what it advertised and answers, however
\* its list is ordered, and whatever it repeats in it; not before it has sent the list, unless it
\* answers in the middle of it, and not twice even then.
THEOREM LetInOnce == ASSUME HandshakeConstants PROVE HandshakeSpec => []CompletedInTheEnd
<1>1. HandshakeIInv => CompletedInTheEnd
  <2> SUFFICES ASSUME HandshakeIInv, late = 0 PROVE CompletedInTheEnd
    BY DEF CompletedInTheEnd
  <2>1. toSend \in -1 .. MaxCount /\ phase \in {"login", "cpe", "in", "gone"} /\ early \in BOOLEAN
    BY DEF HandshakeIInv, HandshakeTypeOK
  <2>2. CASE phase = "login"
    BY <2>2 DEF HandshakeIInv, LoginInv, CompletedInTheEnd
  <2>3. CASE phase = "cpe"
    BY <2>3 DEF HandshakeIInv, ExchangeInv, CompletedInTheEnd
  <2>4. CASE phase = "in"
    BY <2>1, <2>4 DEF HandshakeIInv, InInv, CompletedInTheEnd
  <2>5. CASE phase = "gone"
    BY <2>5 DEF HandshakeIInv, GoneInv, CompletedInTheEnd
  <2> QED BY <2>1, <2>2, <2>3, <2>4, <2>5
<1> QED BY <1>1, HandshakeInvariant, PTL

-----------------------------------------------------------------------------
(* RobustLock: LockIInv is inductive *)

USE DEF File, NoFile, Set

\* There is no file, or a broken one, and nobody has it mapped.
LEMMA LockInitHolds ==
  ASSUME LockConstants, LockInit
  PROVE  LockIInv
<1>1. LockTypeOK
  BY DEF LockConstants, LockInit, LockTypeOK
<1>2. FileInv /\ CountInv /\ NameInv /\ HolderInv
  BY DEF LockConstants, LockInit, FileInv, CountInv, NameInv, HolderInv
<1>3. QED
  BY <1>1, <1>2 DEF LockIInv

\* lock_start_try begins its rounds: nothing is mapped yet.
LEMMA LockStartKeeps ==
  ASSUME LockConstants, LockIInv, NEW p \in Proc, LockStart(p)
  PROVE  LockIInv'
<1>1. LockTypeOK'
  BY DEF LockConstants, LockIInv, LockTypeOK, FileInv, CountInv, LockStart, fileVars
<1>2. FileInv'
  BY DEF LockConstants, LockIInv, LockTypeOK, FileInv, LockStart, fileVars
<1>3. CountInv'
  BY DEF LockConstants, LockIInv, LockTypeOK, CountInv, LockStart, fileVars
<1>4. NameInv'
  BY DEF LockConstants, LockIInv, LockTypeOK, FileInv, NameInv, LockStart, fileVars
<1>5. HolderInv'
  BY DEF LockConstants, LockIInv, LockTypeOK, FileInv, HolderInv, LockStart, fileVars
<1>6. QED
  BY <1>1, <1>2, <1>3, <1>4, <1>5 DEF LockIInv

\* What is opened is what the name stands for.
LEMMA OpenKeeps ==
  ASSUME LockConstants, LockIInv, NEW p \in Proc, Open(p)
  PROVE  LockIInv'
<1>1. LockTypeOK'
  BY DEF LockConstants, LockIInv, LockTypeOK, FileInv, CountInv, Open, fileVars
<1>2. FileInv'
  BY DEF LockConstants, LockIInv, LockTypeOK, FileInv, Open, fileVars
<1>3. CountInv'
  BY DEF LockConstants, LockIInv, LockTypeOK, CountInv, Open, fileVars
<1>4. NameInv'
  BY DEF LockConstants, LockIInv, LockTypeOK, FileInv, NameInv, Open, fileVars
<1>5. HolderInv'
  BY DEF LockConstants, LockIInv, LockTypeOK, FileInv, HolderInv, Open, fileVars
<1>6. QED
  BY <1>1, <1>2, <1>3, <1>4, <1>5 DEF LockIInv

\* A sound file is mapped: it is the one of the others, and its mutex is only taken from the dead.
LEMMA MapFileKeeps ==
  ASSUME LockConstants, LockIInv, NEW p \in Proc, MapFile(p)
  PROVE  LockIInv'
<1>1. LockTypeOK'
  BY DEF LockConstants, LockIInv, LockTypeOK, FileInv, CountInv, MapFile, Recovered
<1>2. FileInv'
  BY DEF LockConstants, LockIInv, LockTypeOK, FileInv, MapFile, Recovered
<1>3. CountInv'
  BY DEF LockConstants, LockIInv, LockTypeOK, CountInv, MapFile, Recovered
<1>4. NameInv'
  BY DEF LockConstants, LockIInv, LockTypeOK, FileInv, NameInv, MapFile, Recovered
<1>5. HolderInv'
  BY DEF LockConstants, LockIInv, LockTypeOK, FileInv, HolderInv, MapFile, Recovered
<1>6. QED
  BY <1>1, <1>2, <1>3, <1>4, <1>5 DEF LockIInv

\* A broken file is told from a sound one for good: no file becomes sound.
LEMMA BrokenKeeps ==
  ASSUME LockConstants, LockIInv, NEW p \in Proc, Broken(p)
  PROVE  LockIInv'
<1>1. LockTypeOK'
  <2>1. ecount' \in [Proc -> 0 .. MaxTries + MaxFiles + 1]
    <3>1. MaxTries \in Nat /\ MaxFiles \in Nat /\ files \in 0 .. MaxFiles
      BY DEF LockConstants, LockIInv, LockTypeOK
    <3>2. ecount \in [Proc -> 0 .. MaxTries + MaxFiles + 1] /\ ecount[p] \in 0 .. MaxTries + MaxFiles + 1
      BY DEF LockIInv, LockTypeOK
    <3>3. ecount[p] <= MaxTries + files
      BY DEF LockIInv, CountInv, Broken
    <3>4. ecount[p] + 1 \in 0 .. MaxTries + MaxFiles + 1
      BY <3>1, <3>2, <3>3
    <3>5. QED
      BY <3>2, <3>4 DEF Broken
  <2>2. QED
    BY <2>1 DEF LockIInv, LockTypeOK, Broken, fileVars
<1>2. FileInv'
  BY DEF LockConstants, LockIInv, LockTypeOK, FileInv, Broken, fileVars
<1>3. CountInv'
  BY DEF LockConstants, LockIInv, LockTypeOK, CountInv, Broken, fileVars
<1>4. NameInv'
  BY DEF LockConstants, LockIInv, LockTypeOK, FileInv, NameInv, Broken, fileVars
<1>5. HolderInv'
  BY DEF LockConstants, LockIInv, LockTypeOK, FileInv, HolderInv, Broken, fileVars
<1>6. QED
  BY <1>1, <1>2, <1>3, <1>4, <1>5 DEF LockIInv

\* Only the name goes: who has a sound file mapped loses it, and lost says so.
LEMMA RemoveKeeps ==
  ASSUME LockConstants, LockIInv, NEW p \in Proc, Remove(p)
  PROVE  LockIInv'
<1>1. LockTypeOK'
  BY DEF LockConstants, LockIInv, LockTypeOK, FileInv, CountInv, Remove
<1>2. FileInv'
  BY DEF LockConstants, LockIInv, LockTypeOK, FileInv, Remove
<1>3. CountInv'
  BY DEF LockConstants, LockIInv, LockTypeOK, CountInv, Remove
<1>4. NameInv'
  BY DEF LockConstants, LockIInv, LockTypeOK, FileInv, NameInv, Remove
<1>5. HolderInv'
  BY DEF LockConstants, LockIInv, LockTypeOK, FileInv, HolderInv, Remove
<1>6. QED
  BY <1>1, <1>2, <1>3, <1>4, <1>5 DEF LockIInv

\* A new file is nobody's, whether it was written or not.
LEMMA MakeKeeps ==
  ASSUME LockConstants, LockIInv, NEW p \in Proc, NEW written \in BOOLEAN, Make(p, written)
  PROVE  LockIInv'
<1>1. LockTypeOK'
  <2>1. ecount' \in [Proc -> 0 .. MaxTries + MaxFiles + 1]
    <3>1. MaxTries \in Nat /\ MaxFiles \in Nat /\ files \in 0 .. MaxFiles
      BY DEF LockConstants, LockIInv, LockTypeOK
    <3>2. ecount \in [Proc -> 0 .. MaxTries + MaxFiles + 1] /\ ecount[p] \in 0 .. MaxTries + MaxFiles + 1
      BY DEF LockIInv, LockTypeOK
    <3>3. ecount[p] <= MaxTries + files
      BY DEF LockIInv, CountInv, Make
    <3>4. ecount[p] + 1 \in 0 .. MaxTries + MaxFiles + 1
      BY <3>1, <3>2, <3>3
    <3>5. QED
      BY <3>2, <3>4 DEF Make
  <2>2. files + 1 \in File /\ files + 1 \in 0 .. MaxFiles
    BY DEF LockConstants, LockIInv, LockTypeOK, Make
  <2>3. QED
    BY <2>1, <2>2 DEF LockIInv, LockTypeOK, Make
<1>2. FileInv'
  BY DEF LockConstants, LockIInv, LockTypeOK, FileInv, Make
<1>3. CountInv'
  BY DEF LockConstants, LockIInv, LockTypeOK, CountInv, Make
<1>4. NameInv'
  BY DEF LockConstants, LockIInv, LockTypeOK, FileInv, NameInv, Make
<1>5. HolderInv'
  BY DEF LockConstants, LockIInv, LockTypeOK, FileInv, HolderInv, Make
<1>6. QED
  BY <1>1, <1>2, <1>3, <1>4, <1>5 DEF LockIInv

\* link() gives the name a file only if it has none: nobody has one mapped then.
LEMMA LinkKeeps ==
  ASSUME LockConstants, LockIInv, NEW p \in Proc, Link(p)
  PROVE  LockIInv'
<1>1. LockTypeOK'
  BY DEF LockConstants, LockIInv, LockTypeOK, FileInv, CountInv, Link, Linked
<1>2. FileInv'
  BY DEF LockConstants, LockIInv, LockTypeOK, FileInv, Link, Linked
<1>3. CountInv'
  BY DEF LockConstants, LockIInv, LockTypeOK, CountInv, Link, Linked
<1>4. NameInv'
  BY DEF LockConstants, LockIInv, LockTypeOK, FileInv, NameInv, Link, Linked
<1>5. HolderInv'
  BY DEF LockConstants, LockIInv, LockTypeOK, FileInv, HolderInv, Link, Linked
<1>6. QED
  BY <1>1, <1>2, <1>3, <1>4, <1>5 DEF LockIInv

\* The mutex is had when nobody has it, or only the dead.
LEMMA LockFnKeeps ==
  ASSUME LockConstants, LockIInv, NEW p \in Proc, LockFn(p)
  PROVE  LockIInv'
<1>1. LockTypeOK'
  BY DEF LockConstants, LockIInv, LockTypeOK, FileInv, CountInv, LockFn, Available
<1>2. FileInv'
  BY DEF LockConstants, LockIInv, LockTypeOK, FileInv, LockFn, Available
<1>3. CountInv'
  BY DEF LockConstants, LockIInv, LockTypeOK, CountInv, LockFn, Available
<1>4. NameInv'
  BY DEF LockConstants, LockIInv, LockTypeOK, FileInv, NameInv, LockFn, Available
<1>5. HolderInv'
  BY DEF LockConstants, LockIInv, LockTypeOK, FileInv, HolderInv, LockFn, Available
<1>6. QED
  BY <1>1, <1>2, <1>3, <1>4, <1>5 DEF LockIInv

\* It is given up by its holder.
LEMMA UnlockFnKeeps ==
  ASSUME LockConstants, LockIInv, NEW p \in Proc, UnlockFn(p)
  PROVE  LockIInv'
<1>1. LockTypeOK'
  BY DEF LockConstants, LockIInv, LockTypeOK, FileInv, CountInv, UnlockFn, Released
<1>2. FileInv'
  BY DEF LockConstants, LockIInv, LockTypeOK, FileInv, UnlockFn, Released
<1>3. CountInv'
  BY DEF LockConstants, LockIInv, LockTypeOK, CountInv, UnlockFn, Released
<1>4. NameInv'
  BY DEF LockConstants, LockIInv, LockTypeOK, FileInv, NameInv, UnlockFn, Released
<1>5. HolderInv'
  BY DEF LockConstants, LockIInv, LockTypeOK, FileInv, HolderInv, UnlockFn, Released
<1>6. QED
  BY <1>1, <1>2, <1>3, <1>4, <1>5 DEF LockIInv

\* So it is when the file is unmapped.
LEMMA LockStopKeeps ==
  ASSUME LockConstants, LockIInv, NEW p \in Proc, LockStop(p)
  PROVE  LockIInv'
<1>1. LockTypeOK'
  BY DEF LockConstants, LockIInv, LockTypeOK, FileInv, CountInv, LockStop, Released
<1>2. FileInv'
  BY DEF LockConstants, LockIInv, LockTypeOK, FileInv, LockStop, Released
<1>3. CountInv'
  BY DEF LockConstants, LockIInv, LockTypeOK, CountInv, LockStop, Released
<1>4. NameInv'
  BY DEF LockConstants, LockIInv, LockTypeOK, FileInv, NameInv, LockStop, Released
<1>5. HolderInv'
  BY DEF LockConstants, LockIInv, LockTypeOK, FileInv, HolderInv, LockStop, Released
<1>6. QED
  BY <1>1, <1>2, <1>3, <1>4, <1>5 DEF LockIInv

\* A holder that dies leaves it to the next.
LEMMA DieKeeps ==
  ASSUME LockConstants, LockIInv, NEW p \in Proc, Die(p)
  PROVE  LockIInv'
<1>1. LockTypeOK'
  BY DEF LockConstants, LockIInv, LockTypeOK, FileInv, CountInv, Die
<1>2. FileInv'
  BY DEF LockConstants, LockIInv, LockTypeOK, FileInv, Die
<1>3. CountInv'
  BY DEF LockConstants, LockIInv, LockTypeOK, CountInv, Die
<1>4. NameInv'
  BY DEF LockConstants, LockIInv, LockTypeOK, FileInv, NameInv, Die
<1>5. HolderInv'
  BY DEF LockConstants, LockIInv, LockTypeOK, FileInv, HolderInv, Die
<1>6. QED
  BY <1>1, <1>2, <1>3, <1>4, <1>5 DEF LockIInv

\* Every step keeps all of it.
LEMMA LockStepHolds ==
  ASSUME LockConstants, LockIInv, [LockNext]_lockVars
  PROVE  LockIInv'
<1>1. CASE LockNext
  BY <1>1, LockStartKeeps, OpenKeeps, MapFileKeeps, BrokenKeeps, RemoveKeeps, MakeKeeps, LinkKeeps,
     LockFnKeeps, UnlockFnKeeps, LockStopKeeps, DieKeeps DEF LockNext
<1>2. CASE UNCHANGED lockVars
  BY <1>2 DEF lockVars, fileVars, LockIInv, LockTypeOK, FileInv, CountInv, NameInv, HolderInv
<1>3. QED
  BY <1>1, <1>2

\* Whoever makes, maps, removes, locks or dies (lock_start_try, lock_fn, unlock_fn,
\* lock_stop), for any number of processes: the parts of LockIInv hold.
THEOREM LockInvariant ==
  ASSUME LockConstants
  PROVE  LockSpec => []LockIInv
<1>1. LockInit => LockIInv
  BY LockInitHolds
<1>2. LockIInv /\ [LockNext]_lockVars => LockIInv'
  BY LockStepHolds
<1>3. QED
  BY <1>1, <1>2, PTL DEF LockSpec

\* All that have the lock file mapped use one mutex, and one of them has it, until a
\* sound file is removed (lock_start_try, lock_fn).
THEOREM MutexIsOne ==
  ASSUME LockConstants
  PROVE  LockSpec => []OneMutex
<1>1. LockIInv => OneMutex
  BY DEF LockIInv, OneMutex, NameInv, HolderInv
<1>2. QED
  BY <1>1, LockInvariant, PTL

\* A mapped mutex can be had, or its holder is alive and knows that he has it: a
\* process that dies with it does not take it along (lock_fn, EOWNERDEAD).
THEOREM MutexIsNotStuck ==
  ASSUME LockConstants
  PROVE  LockSpec => []NeverStuck
<1>1. LockIInv => NeverStuck
  BY DEF LockIInv, LockTypeOK, NeverStuck, Available, HolderInv
<1>2. QED
  BY <1>1, LockInvariant, PTL

HIDE DEF File, NoFile, Set

-----------------------------------------------------------------------------
(* LevelAdmin.  AsOrdered is not inductive by itself: that the saver may forget a level, and that a *)
(* command may write a file while a level of that name is open, rest on SavedInv (what is not to be *)
(* saved is what the file has); that what is put in place is what was ordered, on TmpInv (who       *)
(* writes a file is alone with it).  Each action has a lemma on its types, one on its data if it    *)
(* touches a map, a step that touches none being covered by SameData, and is a case of one on who   *)
(* writes, where NoOther covers a step that writes nothing.                                         *)

\* What the lemmas about the steps start from
AdminHeld == AdminConstants /\ AdminTypeOK /\ ProcessorInv /\ SavingInv

Below == {p \in Nat \X Nat : p[1] < p[2]}

\* The order of the numbers is well founded.
LEMMA NumbersEnd == IsWellFoundedOn(Below, Nat)
<1>1. OpToRel(<, Nat) = Below
  BY Zenon DEF OpToRel, Below
<1> QED BY <1>1, NatLessThanWellFounded

\* The least slot that start_level and check_level look for is one of those they look among.
LEMMA LeastIn ==
  ASSUME NEW S, S \subseteq Nat, S # {}
  PROVE  Min(S) \in S
<1>1. \E x \in S : \A y \in S : <<y, x>> \notin Below
  BY WFMin, NumbersEnd, Zenon
<1>2. PICK x \in S : \A y \in S : <<y, x>> \notin Below
  BY <1>1
<1>3. ASSUME NEW y \in S PROVE x <= y
  <2>1. <<y, x>> \notin Below
    BY <1>2
  <2>2. x \in Nat /\ y \in Nat
    OBVIOUS
  <2>3. y < x => <<y, x>> \in Below
    BY <2>2, Zenon DEF Below
  <2> QED BY <2>1, <2>2, <2>3
<1> QED BY <1>3 DEF Min

\* The slots of the table are numbers, and Nowhere is none of them.
LEMMA SlotsAreNumbers == AdminConstants => Slot \subseteq Nat /\ 0 \notin Slot
BY DEF AdminConstants, Slot

\* start_level has a slot for a level, if the table has room for it.
LEMMA SlotForIn ==
  ASSUME AdminConstants, NEW l, NEW museum, Room(l, museum)
  PROVE  SlotFor(l, museum) \in Slot
<1>1. CASE Entry(l, museum) # {}
  <2>1. Entry(l, museum) \subseteq Slot
    BY DEF Entry, Entries
  <2>2. Min(Entry(l, museum)) \in Entry(l, museum)
    BY <1>1, <2>1, LeastIn, SlotsAreNumbers
  <2> QED BY <1>1, <2>1, <2>2 DEF SlotFor
<1>2. CASE Entry(l, museum) = {}
  <2> DEFINE free == {i \in Slot : ~Loaded(i)}
  <2>1. free # {} /\ free \subseteq Slot
    BY <1>2 DEF Room
  <2>2. Min(free) \in free
    BY <2>1, LeastIn, SlotsAreNumbers
  <2> QED BY <1>2, <2>1, <2>2 DEF SlotFor
<1> QED BY <1>1, <1>2

\* A summons leads to a slot, or where else it was to lead.
LEMMA PlaceIn ==
  ASSUME AdminConstants, NEW l, NEW museum, NEW otherwise \in Slot \cup {0}
  PROVE  Place(l, museum, otherwise) \in Slot \cup {0}
BY SlotForIn DEF Place

\* A slot that is free is an entry of no level.
LEMMA FreeIsEntry == Free \in Entry_t
BY DEF Free, LevelEntry, Entry_t

\* The entry start_level makes is one.
LEMMA EntryIn ==
  ASSUME NEW l \in Level \cup {""}, NEW museum \in BOOLEAN
  PROVE  LevelEntry(l, museum) \in Entry_t
BY DEF LevelEntry, Entry_t

\* start_level leaves a table of entries.
LEMMA RegisterType ==
  ASSUME AdminHeld, NEW l \in Level \cup {""}, NEW museum \in BOOLEAN, Register(l, museum)
  PROVE  levels' \in [Slot -> Entry_t]
<1> DEFINE new == LevelEntry(l, museum)
<1>1. new \in Entry_t
  BY EntryIn
<1>2. levels \in [Slot -> Entry_t]
  BY DEF AdminHeld, AdminTypeOK, writing
<1> HIDE DEF new
<1>3. CASE ~Room(l, museum)
  BY <1>2, <1>3 DEF Register
<1>4. CASE Room(l, museum)
  <2> DEFINE i == SlotFor(l, museum)
  <2>1. levels' = [levels EXCEPT ![i] = IF Loaded(i) THEN levels[i] ELSE new]
    BY <1>4 DEF Register, new
  <2>2. i \in Slot
    BY <1>4, SlotForIn DEF AdminHeld
  <2> HIDE DEF i
  <2> QED BY <1>1, <1>2, <2>1, <2>2
<1> QED BY <1>3, <1>4

\* A step that touches no map and no file of a level leaves what is in them as ordered.
LEMMA SameData ==
  ASSUME SavedInv, AsOrdered, UNCHANGED <<cw, backups, memory, want, deleted>>, raced => raced'
  PROVE  SavedInv' /\ AsOrdered'
BY DEF SavedInv, AsOrdered, memory, Current

\* open_level_files puts a map in memory.
LEMMA OpenFilesType ==
  ASSUME AdminHeld, NEW l \in Level, OpenFiles(l)
  PROVE  /\ mem' \in [Level -> Nat] /\ dirty_save' \in [Level -> BOOLEAN]
         /\ made' \in Nat /\ raced' \in BOOLEAN
<1>1. CASE mem[l] # None
  BY <1>1 DEF OpenFiles, memory, AdminHeld, AdminTypeOK, writing
<1>2. CASE mem[l] = None
  <2>1. Fresh \in Nat
    BY DEF AdminHeld, AdminTypeOK, Fresh, writing
  <2>2. (cw[l] = None) \in BOOLEAN
    OBVIOUS
  <2> QED BY <1>2, <2>1, <2>2 DEF OpenFiles, AdminHeld, AdminTypeOK, writing
<1> QED BY <1>1, <1>2

\* open_level_files shows what the file has; it makes a new map only if there is no file, which
\* then was removed since it was looked for.
LEMMA OpenFilesStep ==
  ASSUME AdminHeld, SavedInv, AsOrdered, NEW l \in Level, OpenFiles(l),
         UNCHANGED <<cw, backups, want, deleted>>
  PROVE  SavedInv' /\ AsOrdered'
<1>1. CASE mem[l] # None
  BY <1>1, SameData DEF OpenFiles, memory
<1>2. CASE mem[l] = None
  <2>1. /\ mem' = [mem EXCEPT ![l] = IF cw[l] = None THEN Fresh ELSE cw[l]]
        /\ dirty_save' = [dirty_save EXCEPT ![l] = cw[l] = None]
        /\ raced' = (raced \/ cw[l] = None)
    BY <1>2 DEF OpenFiles
  <2>2. Fresh # None
    BY DEF AdminHeld, AdminTypeOK, Fresh, None
  <2>3. SavedInv'
    BY <1>2, <2>1, <2>2 DEF SavedInv, AdminHeld, AdminTypeOK
  <2>4. AsOrdered'
    BY <1>2, <2>1, <2>2 DEF AsOrdered, Current, AdminHeld, AdminTypeOK
  <2> QED BY <2>3, <2>4
<1> QED BY <1>1, <1>2

----------------------------------------------------------------------------
(* The steps, one by one *)

\* What a step leaves of the types when it changes only the table's part, the loaders
\* and the processors
LEMMA TableType ==
  ASSUME AdminHeld, UNCHANGED <<cw, backups, writing, memory, want, deleted, raced, made, acts>>,
         levels' \in [Slot -> Entry_t],
         on_level' \in [Client -> Slot \cup {Nowhere}],
         summon_level_id' \in [Client -> Slot \cup {Nowhere}],
         loader' \in [Client -> Loader_t], processor' \in [Client -> Processor_t]
  PROVE  AdminTypeOK'
BY DEF AdminHeld, AdminTypeOK, memory, writing

\* start_level and open_level_files leave a table, a map and a place for the client.
LEMMA EnterType ==
  ASSUME AdminHeld, NEW c \in Client, NEW l \in Level, NEW museum \in BOOLEAN, Enter(c, l, museum)
  PROVE  /\ levels' \in [Slot -> Entry_t]
         /\ on_level' \in [Client -> Slot \cup {Nowhere}]
         /\ mem' \in [Level -> Nat] /\ dirty_save' \in [Level -> BOOLEAN]
         /\ made' \in Nat /\ raced' \in BOOLEAN
<1>1. levels' \in [Slot -> Entry_t]
  BY RegisterType DEF Enter
<1>2. on_level' \in [Client -> Slot \cup {Nowhere}]
  <2>1. Place(l, museum, Nowhere) \in Slot \cup {Nowhere}
    BY PlaceIn DEF AdminHeld, Nowhere
  <2> QED BY <2>1 DEF Enter, AdminHeld, AdminTypeOK, writing
<1>3. CASE museum \/ ~Room(l, museum)
  BY <1>1, <1>2, <1>3 DEF Enter, AdminHeld, AdminTypeOK, memory, writing
<1>4. CASE ~(museum \/ ~Room(l, museum))
  BY <1>1, <1>2, <1>4, OpenFilesType DEF Enter
<1> QED BY <1>3, <1>4

\* Entering a level changes nothing of what is in any.
LEMMA EnterStep ==
  ASSUME AdminHeld, SavedInv, AsOrdered,
         NEW c \in Client, NEW l \in Level, NEW museum \in BOOLEAN, Enter(c, l, museum),
         UNCHANGED <<cw, backups, want, deleted>>
  PROVE  SavedInv' /\ AsOrdered'
<1>1. CASE museum \/ ~Room(l, museum)
  BY <1>1, SameData DEF Enter
<1>2. CASE ~(museum \/ ~Room(l, museum))
  BY <1>2, OpenFilesStep DEF Enter
<1> QED BY <1>1, <1>2

\* cmd_goto and cmd_museum keep the types.
LEMMA GotoType ==
  ASSUME AdminHeld, NEW c \in Client, NEW l \in Level, NEW museum \in BOOLEAN, Goto(c, l, museum)
  PROVE  AdminTypeOK' /\ ProcessorInv'
<1>1. acts' \in 0 .. MaxActs
  BY DEF Goto, Acts, AdminHeld, AdminTypeOK, AdminConstants, writing
<1>2. CASE Fork(c, l, museum) /\ UNCHANGED <<levels, on_level, memory, made, raced>>
  <2>1. LoaderOf(l, museum) \in Loader_t
    BY DEF LoaderOf, Loader_t
  <2>2. loader' \in [Client -> Loader_t]
    BY <1>2, <2>1 DEF Fork, AdminHeld, AdminTypeOK, writing
  <2> QED BY <1>1, <1>2, <2>2 DEF Goto, AdminHeld, AdminTypeOK, ProcessorInv, memory, writing
<1>3. CASE Enter(c, l, museum) /\ UNCHANGED loader
  <2>1. /\ levels' \in [Slot -> Entry_t]
        /\ on_level' \in [Client -> Slot \cup {Nowhere}]
        /\ mem' \in [Level -> Nat] /\ dirty_save' \in [Level -> BOOLEAN]
        /\ made' \in Nat /\ raced' \in BOOLEAN
    BY <1>3, EnterType
  <2>2. UNCHANGED <<cw, backups, writing, summon_level_id, loader, processor, want, deleted>>
    BY <1>3 DEF Goto
  <2> QED BY <1>1, <2>1, <2>2 DEF AdminHeld, AdminTypeOK, ProcessorInv, writing
<1> QED BY <1>2, <1>3 DEF Goto, Teleport

\* cmd_goto and cmd_museum change no level.
LEMMA GotoStep ==
  ASSUME AdminHeld, SavedInv, AsOrdered,
         NEW c \in Client, NEW l \in Level, NEW museum \in BOOLEAN, Goto(c, l, museum)
  PROVE  SavedInv' /\ AsOrdered'
<1>1. CASE Fork(c, l, museum) /\ UNCHANGED <<levels, on_level, memory, made, raced>>
  BY <1>1, SameData DEF Goto
<1>2. CASE Enter(c, l, museum) /\ UNCHANGED loader
  BY <1>2, EnterStep DEF Goto
<1> QED BY <1>1, <1>2 DEF Goto, Teleport

\* direct_load_level keeps the types when it opens the files.
LEMMA LoadType ==
  ASSUME AdminHeld, NEW c \in Client, Load(c)
  PROVE  AdminTypeOK' /\ ProcessorInv'
<1>1. loader[c].level \in Level
  BY DEF Load, AdminHeld, AdminTypeOK, Loader_t, writing
<1>2. loader' \in [Client -> Loader_t]
  BY DEF Load, AdminHeld, AdminTypeOK, Loader_t, writing
<1>3. CASE loader[c].museum
  BY <1>2, <1>3 DEF Load, AdminHeld, AdminTypeOK, ProcessorInv, memory, table, writing
<1>4. CASE ~loader[c].museum
  BY <1>1, <1>2, <1>4, OpenFilesType DEF Load, AdminHeld, AdminTypeOK, ProcessorInv, table, writing
<1> QED BY <1>3, <1>4

\* direct_load_level changes no level.
LEMMA LoadStep ==
  ASSUME AdminHeld, SavedInv, AsOrdered, NEW c \in Client, Load(c)
  PROVE  SavedInv' /\ AsOrdered'
<1>1. loader[c].level \in Level
  BY DEF Load, AdminHeld, AdminTypeOK, Loader_t
<1>2. CASE loader[c].museum
  BY <1>2, SameData DEF Load
<1>3. CASE ~loader[c].museum
  BY <1>1, <1>3, OpenFilesStep DEF Load
<1> QED BY <1>2, <1>3

\* direct_load_level keeps the types when it summons the client.
LEMMA SummonType ==
  ASSUME AdminHeld, NEW c \in Client, Summon(c)
  PROVE  AdminTypeOK' /\ ProcessorInv'
<1> DEFINE l == loader[c].level
           museum == loader[c].museum
<1>1. l \in Level \cup {""} /\ museum \in BOOLEAN
  BY DEF AdminHeld, AdminTypeOK, Loader_t, writing
<1>2. levels' \in [Slot -> Entry_t]
  BY <1>1, RegisterType DEF Summon
<1>3. summon_level_id' \in [Client -> Slot \cup {Nowhere}]
  <2>1. Place(l, museum, Nowhere) \in Slot \cup {Nowhere}
    BY PlaceIn DEF AdminHeld, Nowhere
  <2> QED BY <2>1 DEF Summon, AdminHeld, AdminTypeOK, writing
<1>4. loader' \in [Client -> Loader_t]
  BY DEF Summon, AdminHeld, AdminTypeOK, Loader_t, NoLoader, LoaderOf, writing
<1> QED BY <1>2, <1>3, <1>4, TableType DEF Summon, AdminHeld, AdminTypeOK, ProcessorInv, history, writing

\* check_user_summon keeps the types.
LEMMA CheckUserSummonType ==
  ASSUME AdminHeld, NEW c \in Client, CheckUserSummon(c)
  PROVE  AdminTypeOK' /\ ProcessorInv'
<1> DEFINE e == levels[summon_level_id[c]]
<1>1. summon_level_id' \in [Client -> Slot \cup {Nowhere}]
  BY DEF CheckUserSummon, AdminHeld, AdminTypeOK, Nowhere, writing
<1>2. CASE /\ e.level # "" /\ MayEnter(e.level, e.museum)
           /\ Enter(c, e.level, e.museum)
  <2>1. summon_level_id[c] \in Slot
    BY DEF CheckUserSummon, AdminHeld, AdminTypeOK, writing
  <2>2. e.level \in Level /\ e.museum \in BOOLEAN
    BY <1>2, <2>1 DEF AdminHeld, AdminTypeOK, Entry_t, writing
  <2>3. /\ levels' \in [Slot -> Entry_t]
        /\ on_level' \in [Client -> Slot \cup {Nowhere}]
        /\ mem' \in [Level -> Nat] /\ dirty_save' \in [Level -> BOOLEAN]
        /\ made' \in Nat /\ raced' \in BOOLEAN
    BY <1>2, <2>2, EnterType
  <2>4. UNCHANGED <<cw, backups, writing, loader, processor, want, deleted, acts>>
    BY DEF CheckUserSummon
  <2> QED BY <1>1, <2>3, <2>4 DEF AdminHeld, AdminTypeOK, ProcessorInv, writing
<1>3. CASE UNCHANGED <<levels, on_level, memory, made, raced>>
  BY <1>1, <1>3 DEF CheckUserSummon, AdminHeld, AdminTypeOK, ProcessorInv, memory, writing
<1> QED BY <1>2, <1>3 DEF CheckUserSummon

\* check_user_summon changes no level.
LEMMA CheckUserSummonStep ==
  ASSUME AdminHeld, SavedInv, AsOrdered, NEW c \in Client, CheckUserSummon(c)
  PROVE  SavedInv' /\ AsOrdered'
<1> DEFINE e == levels[summon_level_id[c]]
<1>1. CASE /\ e.level # "" /\ MayEnter(e.level, e.museum)
           /\ Enter(c, e.level, e.museum)
  <2>1. summon_level_id[c] \in Slot
    BY DEF CheckUserSummon, AdminHeld, AdminTypeOK
  <2>2. e.level \in Level /\ e.museum \in BOOLEAN
    BY <1>1, <2>1 DEF AdminHeld, AdminTypeOK, Entry_t
  <2> QED BY <1>1, <2>2, EnterStep DEF CheckUserSummon
<1>2. CASE UNCHANGED <<levels, on_level, memory, made, raced>>
  BY <1>2, SameData DEF CheckUserSummon
<1> QED BY <1>1, <1>2 DEF CheckUserSummon

\* A client that leaves its level keeps the types.
LEMMA LeaveType ==
  ASSUME AdminHeld, NEW c \in Client, Leave(c)
  PROVE  AdminTypeOK' /\ ProcessorInv'
BY DEF Leave, AdminHeld, AdminTypeOK, ProcessorInv, memory, history, Nowhere, writing

\* send_update keeps the types.
LEMMA EditType ==
  ASSUME AdminHeld, NEW c \in Client, Edit(c)
  PROVE  AdminTypeOK' /\ ProcessorInv'
<1>1. Fresh \in Nat
  BY DEF AdminHeld, AdminTypeOK, Fresh, writing
<1>2. acts' \in 0 .. MaxActs
  BY DEF Edit, Acts, AdminHeld, AdminTypeOK, AdminConstants, writing
<1>3. raced' \in BOOLEAN
  BY DEF Edit, AdminHeld, AdminTypeOK
<1> QED BY <1>1, <1>2, <1>3 DEF Edit, AdminHeld, AdminTypeOK, ProcessorInv, table, writing

\* send_update puts the edit in memory, where it is found, and marks it to be saved.
LEMMA EditStep ==
  ASSUME AdminHeld, SavedInv, AsOrdered, NEW c \in Client, Edit(c)
  PROVE  SavedInv' /\ AsOrdered'
<1>1. Fresh # None
  BY DEF AdminHeld, AdminTypeOK, Fresh, None
<1> DEFINE k == levels[on_level[c]].level
<1>2. /\ mem' = [mem EXCEPT ![k] = Fresh] /\ want' = [want EXCEPT ![k] = Fresh]
      /\ dirty_save' = [dirty_save EXCEPT ![k] = TRUE] /\ (raced => raced')
      /\ UNCHANGED <<cw, backups, deleted>>
  BY DEF Edit
<1> HIDE DEF k
<1>3. SavedInv'
  BY <1>1, <1>2 DEF SavedInv, AdminHeld, AdminTypeOK
<1>4. AsOrdered'
  BY <1>1, <1>2 DEF AsOrdered, Current, AdminHeld, AdminTypeOK
<1> QED BY <1>3, <1>4

----------------------------------------------------------------------------
(* The saver *)

\* A file that is written keeps the types.
LEMMA WriteTmpType ==
  ASSUME AdminHeld, NEW t \in Level, NEW n \in Nat, WriteTmp(t, n)
  PROVE  tmp' \in [Level -> Nat] /\ made' \in Nat /\ raced' \in BOOLEAN
<1>1. Fresh \in Nat
  BY DEF AdminHeld, AdminTypeOK, Fresh
<1>2. PICK x \in {n, IF tmp[t] = None THEN n ELSE Fresh} : tmp' = [tmp EXCEPT ![t] = x]
  BY DEF WriteTmp
<1>3. x \in Nat
  BY <1>1, <1>2
<1>4. tmp' \in [Level -> Nat]
  BY <1>2, <1>3 DEF AdminHeld, AdminTypeOK
<1>5. made' \in Nat
  BY <1>1 DEF WriteTmp, AdminHeld, AdminTypeOK
<1>6. raced' \in BOOLEAN
  BY DEF WriteTmp, AdminHeld, AdminTypeOK
<1> QED BY <1>4, <1>5, <1>6

\* A file that is put in place keeps the types.
LEMMA PutTmpType ==
  ASSUME AdminHeld, NEW t \in Level, PutTmp(t)
  PROVE  cw' \in [Level -> Nat] /\ tmp' \in [Level -> Nat]
BY DEF PutTmp, AdminHeld, AdminTypeOK, None

\* One that is no more does, too.
LEMMA NoTmpType ==
  ASSUME AdminHeld, NEW t \in Level, NEW n \in Nat, NoTmp(t, n)
  PROVE  cw' \in [Level -> Nat]
<1>1. PICK x \in {cw[t], IF cw[t] = None THEN None ELSE n} : cw' = [cw EXCEPT ![t] = x]
  BY DEF NoTmp
<1>2. x \in Nat
  BY <1>1 DEF AdminHeld, AdminTypeOK, None
<1> QED BY <1>1, <1>2 DEF AdminHeld, AdminTypeOK

\* save_level keeps the types when it writes the file ...
LEMMA SaveOpenType ==
  ASSUME AdminHeld, NEW i \in Slot, SaveOpen(i)
  PROVE  AdminTypeOK' /\ ProcessorInv'
<1> DEFINE l == levels[i].level
<1>1. l \in Level
  BY DEF SaveOpen, Loaded, AdminHeld, AdminTypeOK, Entry_t
<1>2. mem[l] \in Nat
  BY <1>1 DEF AdminHeld, AdminTypeOK
<1>3. tmp' \in [Level -> Nat] /\ made' \in Nat /\ raced' \in BOOLEAN
  BY <1>1, <1>2, WriteTmpType DEF SaveOpen
<1>4. saving' \in Slot \cup {Nowhere}
  BY DEF SaveOpen
<1> QED BY <1>3, <1>4 DEF SaveOpen, AdminHeld, AdminTypeOK, ProcessorInv, table, memory

\* What is being saved is a level.
LEMMA SavedLevel ==
  ASSUME AdminHeld, saving # Nowhere
  PROVE  saving \in Slot /\ levels[saving].level \in Level /\ mem[levels[saving].level] \in Nat
<1>1. saving \in Slot
  BY DEF AdminHeld, AdminTypeOK
<1>2. levels[saving] \in Entry_t /\ levels[saving].level # ""
  BY <1>1 DEF AdminHeld, AdminTypeOK, SavingInv
<1>3. levels[saving].level \in Level
  BY <1>2 DEF Entry_t
<1> QED BY <1>1, <1>3 DEF AdminHeld, AdminTypeOK

\* ... and when it puts it in place, or does not.
LEMMA SavePutType ==
  ASSUME AdminHeld, NEW bkp \in BOOLEAN, SavePut(bkp)
  PROVE  AdminTypeOK' /\ ProcessorInv'
<1> DEFINE l == levels[saving].level
<1>1. l \in Level /\ mem[l] \in Nat
  BY SavedLevel DEF SavePut
<1>2. saving' = Nowhere /\ UNCHANGED <<mem, table, loader, processor, history, acts>>
  BY DEF SavePut
<1>3. CASE /\ PutTmp(l)
           /\ backups' = [backups EXCEPT ![l] =
                            IF bkp /\ cw[l] # None THEN backups[l] \cup {cw[l]} ELSE backups[l]]
           /\ dirty_save' = [dirty_save EXCEPT ![l] = FALSE]
  <2> HIDE DEF l
  <2>1. cw' \in [Level -> Nat] /\ tmp' \in [Level -> Nat]
    BY <1>1, <1>3, PutTmpType
  <2>2. backups' \in [Level -> SUBSET Nat] /\ dirty_save' \in [Level -> BOOLEAN]
    BY <1>1, <1>3 DEF AdminHeld, AdminTypeOK
  <2> QED BY <1>2, <2>1, <2>2 DEF AdminHeld, AdminTypeOK, ProcessorInv, table, history
<1>4. CASE NoTmp(l, mem[l]) /\ UNCHANGED <<tmp, backups, dirty_save>>
  <2> HIDE DEF l
  <2>1. cw' \in [Level -> Nat]
    BY <1>1, <1>4, NoTmpType
  <2> QED BY <1>2, <1>4, <2>1 DEF AdminHeld, AdminTypeOK, ProcessorInv, table, history
<1> QED BY <1>3, <1>4 DEF SavePut

\* A file that is gone was taken by another who had it open.
LEMMA NoTmpRaced ==
  ASSUME AdminHeld, SavedInv, TmpInv,
         \/ saving # Nowhere /\ tmp[levels[saving].level] = None
         \/ \E c \in Client : Copying(c) /\ tmp[Target(processor[c])] = None
  PROVE  raced
<1>1. CASE saving # Nowhere /\ tmp[levels[saving].level] = None
  BY <1>1, SavedLevel DEF AdminHeld, SavingInv, SavedInv, TmpInv
<1>2. CASE \E c \in Client : Copying(c) /\ tmp[Target(processor[c])] = None
  BY <1>2 DEF TmpInv
<1> QED BY <1>1, <1>2

\* save_level puts in the file what is in memory, so that the file has what was ordered.
LEMMA SavePutStep ==
  ASSUME AdminHeld, SavedInv, TmpInv, AsOrdered, NEW bkp \in BOOLEAN, SavePut(bkp)
  PROVE  SavedInv' /\ AsOrdered'
<1> DEFINE l == levels[saving].level
<1>1. l \in Level /\ dirty_save[l]
  BY SavedLevel DEF SavePut, AdminHeld, SavingInv
<1>2. UNCHANGED <<mem, want, deleted, raced>>
  BY DEF SavePut, history
<1>3. raced \/ tmp[l] = mem[l]
  BY DEF SavePut, TmpInv
<1>4. CASE /\ PutTmp(l)
           /\ backups' = [backups EXCEPT ![l] =
                            IF bkp /\ cw[l] # None THEN backups[l] \cup {cw[l]} ELSE backups[l]]
           /\ dirty_save' = [dirty_save EXCEPT ![l] = FALSE]
  <2> HIDE DEF l
  <2>1. cw' = [cw EXCEPT ![l] = tmp[l]]
    BY <1>4 DEF PutTmp
  <2>2. \A k \in Level : backups[k] \subseteq backups'[k]
    BY <1>4 DEF AdminHeld, AdminTypeOK
  <2>3. SavedInv'
    BY <1>1, <1>2, <1>3, <1>4, <2>1 DEF SavedInv, AdminHeld, AdminTypeOK
  <2>4. AsOrdered'
    BY <1>1, <1>2, <1>3, <1>4, <2>1, <2>2 DEF AsOrdered, SavedInv, Current, AdminHeld, AdminTypeOK
  <2> QED BY <2>3, <2>4
<1>5. CASE NoTmp(l, mem[l]) /\ UNCHANGED <<tmp, backups, dirty_save>>
  <2>1. raced
    BY <1>5, NoTmpRaced DEF SavePut, NoTmp
  <2> QED BY <1>2, <1>5, <2>1 DEF SavedInv, AsOrdered
<1> QED BY <1>4, <1>5 DEF SavePut

\* Unloading keeps the types.
LEMMA UnloadType ==
  ASSUME AdminHeld, NEW i \in Slot, Unload(i)
  PROVE  AdminTypeOK' /\ ProcessorInv'
<1>1. mem' \in [Level -> Nat]
  BY DEF Unload, AdminHeld, AdminTypeOK, None, writing
<1>2. levels' \in [Slot -> Entry_t]
  BY FreeIsEntry DEF Unload, AdminHeld, AdminTypeOK, writing
<1> QED BY <1>1, <1>2 DEF Unload, AdminHeld, AdminTypeOK, ProcessorInv, history, writing

\* What is unloaded had been saved, so that the file has what was ordered.
LEMMA UnloadStep ==
  ASSUME AdminHeld, SavedInv, AsOrdered, NEW i \in Slot, Unload(i)
  PROVE  SavedInv' /\ AsOrdered'
<1> DEFINE l == levels[i].level
<1>1. UNCHANGED <<cw, backups, writing, dirty_save, want, deleted, raced>>
  BY DEF Unload, history
<1>2. CASE levels[i].museum
  BY <1>1, <1>2, SameData DEF Unload, memory
<1>3. CASE ~levels[i].museum
  <2>1. mem' = [mem EXCEPT ![l] = None] /\ ~dirty_save[l]
    BY <1>3 DEF Unload
  <2> HIDE DEF l
  <2>2. SavedInv'
    BY <1>1, <2>1 DEF SavedInv, AdminHeld, AdminTypeOK
  <2>3. AsOrdered'
    BY <1>1, <2>1 DEF AsOrdered, SavedInv, Current, AdminHeld, AdminTypeOK
  <2> QED BY <2>2, <2>3
<1> QED BY <1>2, <1>3

----------------------------------------------------------------------------
(* The commands *)

\* A client with no process has the record of none.
LEMMA NoProcessorType == NoProcessor \in Processor_t
BY DEF NoProcessor, Processor_t, Op, Stage, None

\* A process that goes on to its next stage works on the same levels.
LEMMA NextStage ==
  ASSUME NEW j \in Processor_t, NEW s \in Stage
  PROVE  LET k == [j EXCEPT !.stage = s] IN
         /\ k \in Processor_t
         /\ k.from = j.from /\ k.to = j.to /\ k.op = j.op /\ k.content = j.content /\ k.stage = s
BY DEF Processor_t

\* A process that goes on keeps the types.
LEMMA StepType ==
  ASSUME AdminHeld, NEW c \in Client, NEW s \in Stage, processor[c].stage # "", Step(c, s)
  PROVE  processor' \in [Client -> Processor_t] /\ ProcessorInv'
<1> DEFINE j == [processor[c] EXCEPT !.stage = s]
<1>1. processor' = [processor EXCEPT ![c] = j]
  BY DEF Step
<1>2. processor \in [Client -> Processor_t]
  BY DEF AdminHeld, AdminTypeOK, writing
<1>3. /\ j \in Processor_t /\ j.from = processor[c].from /\ j.to = processor[c].to
      /\ j.op = processor[c].op /\ j.content = processor[c].content
  BY <1>2, NextStage
<1> HIDE DEF j
<1>4. processor' \in [Client -> Processor_t]
  BY <1>1, <1>2, <1>3
<1>5. ProcessorInv'
  BY <1>1, <1>2, <1>3 DEF ProcessorInv, AdminHeld
<1> QED BY <1>4, <1>5

\* A process that ends keeps the types.
LEMMA DoneType ==
  ASSUME AdminHeld, NEW c \in Client, Done(c)
  PROVE  processor' \in [Client -> Processor_t] /\ ProcessorInv'
<1>1. processor' \in [Client -> Processor_t]
  BY NoProcessorType DEF Done, AdminHeld, AdminTypeOK, writing
<1>2. NoProcessor.stage = ""
  BY DEF NoProcessor
<1>3. ProcessorInv'
  BY <1>2 DEF Done, AdminHeld, AdminTypeOK, ProcessorInv, writing
<1> QED BY <1>1, <1>3

\* cmd_newlvl keeps the types.
LEMMA NewlvlType ==
  ASSUME AdminHeld, NEW l \in Level, Newlvl(l)
  PROVE  AdminTypeOK' /\ ProcessorInv'
<1>1. Fresh \in Nat
  BY DEF AdminHeld, AdminTypeOK, Fresh, writing
<1>2. acts' \in 0 .. MaxActs
  BY DEF Newlvl, Acts, AdminHeld, AdminTypeOK, AdminConstants, writing
<1>3. raced' \in BOOLEAN
  BY DEF Newlvl
<1> QED BY <1>1, <1>2, <1>3 DEF Newlvl, AdminHeld, AdminTypeOK, ProcessorInv, table, memory, writing

\* cmd_newlvl makes a file where there was none; the level is what it wrote unless somebody has
\* opened that name since.
LEMMA NewlvlStep ==
  ASSUME AdminHeld, SavedInv, AsOrdered, NEW l \in Level, Newlvl(l)
  PROVE  SavedInv' /\ AsOrdered'
<1>1. /\ cw' = [cw EXCEPT ![l] = Fresh] /\ want' = [want EXCEPT ![l] = Fresh]
      /\ raced' = (raced \/ mem[l] # None)
      /\ UNCHANGED <<backups, mem, dirty_save, deleted>>
  BY DEF Newlvl, memory
<1>2. SavedInv'
  BY <1>1 DEF SavedInv, AdminHeld, AdminTypeOK
<1>3. AsOrdered'
  BY <1>1 DEF AsOrdered, Current, AdminHeld, AdminTypeOK
<1> QED BY <1>2, <1>3

\* An entry that is to be forced out is an entry.
LEMMA ForcedEntry ==
  ASSUME NEW e \in Entry_t, NEW n \in {0, 1, 2}
  PROVE  [e EXCEPT !.force_unload = n] \in Entry_t
BY DEF Entry_t

\* cmd_unload keeps the types.
LEMMA UnloadCmdType ==
  ASSUME AdminHeld, NEW l \in Level, UnloadCmd(l)
  PROVE  AdminTypeOK' /\ ProcessorInv'
<1>1. acts' \in 0 .. MaxActs
  BY DEF UnloadCmd, Acts, AdminHeld, AdminTypeOK, AdminConstants, writing
<1>2. levels' \in [Slot -> Entry_t]
  <2> DEFINE i == Min(Entries(l))
  <2>1. Entries(l) \subseteq Slot /\ Entries(l) # {}
    BY DEF Entries, UnloadCmd
  <2>2. i \in Slot
    BY <2>1, LeastIn, SlotsAreNumbers DEF AdminHeld
  <2>3. levels' = [levels EXCEPT ![i] = [levels[i] EXCEPT !.force_unload = 1]]
    BY DEF UnloadCmd
  <2> HIDE DEF i
  <2>4. levels \in [Slot -> Entry_t]
    BY DEF AdminHeld, AdminTypeOK
  <2>5. [levels[i] EXCEPT !.force_unload = 1] \in Entry_t
    BY <2>2, <2>4, ForcedEntry
  <2> QED BY <2>2, <2>3, <2>4, <2>5
<1> QED BY <1>1, <1>2 DEF UnloadCmd, AdminHeld, AdminTypeOK, ProcessorInv, history, memory, writing

\* A command that begins keeps the types.
LEMMA CommandType ==
  ASSUME AdminHeld, NEW c \in Client, NEW op \in Op, NEW from \in Level, NEW to \in Level,
         Command(c, op, from, to)
  PROVE  AdminTypeOK' /\ ProcessorInv'
<1>1. acts' \in 0 .. MaxActs
  BY DEF Command, Acts, AdminHeld, AdminTypeOK, AdminConstants, writing
<1>2. PICK b \in backups[from] \cup {None} :
             /\ (op = "restore") = (b # None)
             /\ processor' = [processor EXCEPT ![c] = Job(op, from, to, On(c, from), b)]
  BY DEF Command
<1>3. b \in Nat
  BY <1>2 DEF AdminHeld, AdminTypeOK, None, writing
<1> DEFINE j == Job(op, from, to, On(c, from), b)
<1>4. On(c, from) \in BOOLEAN
  BY DEF On
<1>5. j \in Processor_t /\ j.from \in Level /\ j.to \in Level /\ (j.op = "restore" => j.content # None)
  <2>1. \A h \in BOOLEAN : Job(op, from, to, h, b) \in Processor_t
    BY <1>3 DEF Job, Processor_t, Stage
  <2>2. op = "restore" => b # None
    BY <1>2
  <2> QED BY <1>4, <2>1, <2>2 DEF Job
<1> HIDE DEF j
<1>6. processor' = [processor EXCEPT ![c] = j]
  BY <1>2 DEF j
<1>7. processor' \in [Client -> Processor_t]
  BY <1>5, <1>6 DEF AdminHeld, AdminTypeOK, writing
<1>8. ProcessorInv'
  BY <1>5, <1>6 DEF ProcessorInv, AdminHeld, AdminTypeOK, writing
<1> QED BY <1>1, <1>7, <1>8 DEF Command, AdminHeld, AdminTypeOK, table, memory, history, writing

\* The record of a process that waits for the level in slot i
LEMMA NextJob ==
  ASSUME NEW j \in Processor_t, NEW s \in Stage, NEW i \in Slot, NEW us \in SUBSET Client
  PROVE  [j EXCEPT !.stage = s, !.slot = i, !.users = us] \in Processor_t
BY DEF Processor_t

\* The record of a process that has read what it copies
LEMMA NextContent ==
  ASSUME NEW j \in Processor_t, NEW s \in Stage, NEW n \in Nat
  PROVE  [j EXCEPT !.content = n, !.stage = s] \in Processor_t
BY DEF Processor_t

\* A process whose record changes keeps the types if it works on the same levels.
LEMMA JobType ==
  ASSUME AdminHeld, NEW c \in Client, NEW j \in Processor_t, processor[c].stage # "",
         j.from = processor[c].from, j.to = processor[c].to, j.op = processor[c].op,
         j.op = "restore" => j.content # None,
         processor' = [processor EXCEPT ![c] = j]
  PROVE  processor' \in [Client -> Processor_t] /\ ProcessorInv'
<1>1. processor \in [Client -> Processor_t]
  BY DEF AdminHeld, AdminTypeOK, writing
<1>2. processor' \in [Client -> Processor_t]
  BY <1>1
<1>3. \A d \in Client : processor[d].stage # "" =>
             /\ processor[d].from \in Level /\ processor[d].to \in Level
             /\ processor[d].op = "restore" => processor[d].content # None
  BY DEF AdminHeld, ProcessorInv
<1>4. processor[c].from \in Level /\ processor[c].to \in Level
  BY <1>3
<1>5. \A d \in Client : processor'[d] = IF d = c THEN j ELSE processor[d]
  BY <1>1
<1>6. ProcessorInv'
  BY <1>3, <1>4, <1>5 DEF ProcessorInv
<1> QED BY <1>2, <1>6

\* A process that acts has levels to act on.
LEMMA ActingType ==
  ASSUME AdminHeld, NEW c \in Client, NEW op, Acting(c, op)
  PROVE  processor[c].stage # "" /\ processor[c].from \in Level /\ processor[c].to \in Level
BY DEF Acting, AdminHeld, ProcessorInv

\* wait_for_forced_unload keeps the types when it marks the entry it found ...
LEMMA ForceUnloadType ==
  ASSUME AdminHeld, NEW c \in Client, NEW i \in Slot, ForceUnload(c, i), processor[c].stage # ""
  PROVE  levels' \in [Slot -> Entry_t] /\ processor' \in [Client -> Processor_t] /\ ProcessorInv'
<1> DEFINE n == IF processor[c].op = "delete" THEN 1 ELSE 2
           j == processor[c]
           us == Users(c, i)
<1>1. n \in {0, 1, 2} /\ us \in SUBSET Client
  BY DEF Users
<1>2. /\ levels \in [Slot -> Entry_t]
      /\ levels' = [levels EXCEPT ![i] = [levels[i] EXCEPT !.force_unload = n]]
  BY DEF ForceUnload, AdminHeld, AdminTypeOK, writing
<1>3. processor' = [processor EXCEPT ![c] = [j EXCEPT !.stage = "wait", !.slot = i, !.users = us]]
  BY DEF ForceUnload
<1>4. j \in Processor_t /\ "wait" \in Stage
  BY DEF AdminHeld, AdminTypeOK, Stage, writing
<1> HIDE DEF n, us
<1>5. levels' \in [Slot -> Entry_t]
  BY <1>1, <1>2, ForcedEntry
<1>6. j = processor[c]
  OBVIOUS
<1> HIDE DEF j
<1> DEFINE k == [j EXCEPT !.stage = "wait", !.slot = i, !.users = us]
<1>7. k \in Processor_t /\ k.from = j.from /\ k.to = j.to /\ k.op = j.op /\ k.content = j.content
  <2>1. "wait" \in Stage /\ i \in Slot
    BY <1>4
  <2>2. \A s \in Stage : [j EXCEPT !.stage = s, !.slot = i, !.users = us] \in Processor_t
    BY <1>1, <1>4, NextJob
  <2>3. k \in Processor_t
    BY <2>1, <2>2
  <2>4. k.from = j.from
    BY <1>4 DEF Processor_t
  <2>5. k.to = j.to
    BY <1>4 DEF Processor_t
  <2>6. k.op = j.op /\ k.content = j.content
    BY <1>4 DEF Processor_t
  <2> QED BY <2>3, <2>4, <2>5, <2>6
<1> HIDE DEF k
<1>8. k.op = "restore" => k.content # None
  BY <1>6, <1>7 DEF AdminHeld, ProcessorInv
<1> QED BY <1>3, <1>5, <1>6, <1>7, <1>8, JobType DEF k

\* ... which is an entry of the table ...
LEMMA ForceAwaySomeType ==
  ASSUME AdminHeld, NEW c \in Client, ForceAway(c), Entries(processor[c].from) # {}
  PROVE  levels' \in [Slot -> Entry_t] /\ processor' \in [Client -> Processor_t] /\ ProcessorInv'
<1>1. Entries(processor[c].from) \subseteq Slot
  BY DEF Entries
<1>2. Min(Entries(processor[c].from)) \in Slot
  BY <1>1, LeastIn, SlotsAreNumbers DEF AdminHeld
<1>3. ForceUnload(c, Min(Entries(processor[c].from))) /\ processor[c].stage # ""
  BY DEF ForceAway
<1> QED BY <1>2, <1>3, ForceUnloadType

\* ... and when it finds none ...
LEMMA ForceAwayNoneType ==
  ASSUME AdminHeld, NEW c \in Client, ForceAway(c), Entries(processor[c].from) = {}
  PROVE  levels' \in [Slot -> Entry_t] /\ processor' \in [Client -> Processor_t] /\ ProcessorInv'
<1>1. Step(c, "act") /\ levels' = levels /\ processor[c].stage # ""
  BY DEF ForceAway
<1>2. "act" \in Stage
  BY DEF Stage
<1>3. processor' \in [Client -> Processor_t] /\ ProcessorInv'
  BY <1>1, <1>2, StepType
<1> QED BY <1>1, <1>3 DEF AdminHeld, AdminTypeOK, writing

\* ... so that it does in each case.
LEMMA ForceAwayType ==
  ASSUME AdminHeld, NEW c \in Client, ForceAway(c)
  PROVE  AdminTypeOK' /\ ProcessorInv'
<1>1. UNCHANGED <<cw, backups, writing, memory, on_level, summon_level_id, loader, history, acts>>
  BY DEF ForceAway
<1>2. levels' \in [Slot -> Entry_t] /\ processor' \in [Client -> Processor_t] /\ ProcessorInv'
  BY ForceAwaySomeType, ForceAwayNoneType
<1> QED BY <1>1, <1>2, TableType DEF history, AdminHeld, AdminTypeOK, writing

\* wait_for_forced_unload keeps the types when the level is out.
LEMMA WaitType ==
  ASSUME AdminHeld, NEW c \in Client, Wait(c)
  PROVE  AdminTypeOK' /\ ProcessorInv'
<1>1. processor' \in [Client -> Processor_t] /\ ProcessorInv'
  BY StepType DEF Wait, Stage
<1> QED BY <1>1, TableType DEF Wait, history, table, AdminHeld, AdminTypeOK, writing

\* What a process ends with, if there may be somebody to bring back, keeps the types.
LEMMA ReturnType ==
  ASSUME AdminHeld, NEW c \in Client, processor[c].stage # "", Return(c)
  PROVE  processor' \in [Client -> Processor_t] /\ ProcessorInv'
<1>1. "open" \in Stage
  BY DEF Stage
<1> QED BY <1>1, StepType, DoneType DEF Return

\* A command that fails keeps the types, whether it forks a process or ends.
LEMMA FailType ==
  ASSUME AdminHeld, NEW c \in Client, processor[c].stage # "", Fail(c),
         tmp' \in [Level -> Nat], raced' \in BOOLEAN
  PROVE  AdminTypeOK' /\ ProcessorInv'
<1>1. "force" \in Stage
  BY DEF Stage
<1>2. processor' \in [Client -> Processor_t] /\ ProcessorInv'
  BY <1>1, StepType, DoneType, ReturnType DEF Fail
<1>3. summon_level_id' \in [Client -> Slot \cup {Nowhere}]
  BY DEF Fail, AdminHeld, AdminTypeOK
<1>4. UNCHANGED <<cw, backups, saving, memory, levels, on_level, loader, want, deleted, made, acts>>
  BY DEF Fail
<1> QED BY <1>2, <1>3, <1>4 DEF AdminHeld, AdminTypeOK, memory

\* What delete, rename and copy refuse keeps the types.
LEMMA RefusedType ==
  ASSUME AdminHeld, NEW c \in Client, Refused(c)
  PROVE  AdminTypeOK' /\ ProcessorInv'
<1>1. processor[c].stage # ""
  BY DEF Refused, Acting
<1>2. tmp' \in [Level -> Nat] /\ raced' \in BOOLEAN
  BY DEF Refused, AdminHeld, AdminTypeOK
<1> QED BY <1>1, <1>2, FailType DEF Refused

\* do_direct_delete keeps the types.
LEMMA DeleteType ==
  ASSUME AdminHeld, NEW c \in Client, Delete(c)
  PROVE  AdminTypeOK' /\ ProcessorInv'
<1>1. processor' \in [Client -> Processor_t] /\ ProcessorInv'
  BY DoneType DEF Delete
<1> DEFINE l == processor[c].from
<1>2. l \in Level
  BY ActingType DEF Delete
<1>3. /\ backups' = [backups EXCEPT ![l] = backups[l] \cup {cw[l]}] /\ cw' = [cw EXCEPT ![l] = None]
      /\ deleted' = [deleted EXCEPT ![l] = deleted[l] \cup {want[l]}]
      /\ want' = [want EXCEPT ![l] = None]
      /\ raced' = (raced \/ (mem[l] # None /\ ~Live(l)))
      /\ UNCHANGED <<writing, memory, table, loader, made, acts>>
  BY DEF Delete
<1> HIDE DEF l
<1>4. /\ cw' \in [Level -> Nat] /\ want' \in [Level -> Nat] /\ raced' \in BOOLEAN
      /\ backups' \in [Level -> SUBSET Nat] /\ deleted' \in [Level -> SUBSET Nat]
  BY <1>2, <1>3 DEF AdminHeld, AdminTypeOK, None, writing
<1> QED BY <1>1, <1>3, <1>4 DEF AdminHeld, AdminTypeOK, memory, table, writing

\* do_direct_delete makes the file a backup of the level.  The level is not in the table: what
\* it was ordered to be is in the file, unless a loader has just opened it.
LEMMA DeleteStep ==
  ASSUME AdminHeld, SavedInv, AsOrdered, NEW c \in Client, Delete(c)
  PROVE  SavedInv' /\ AsOrdered'
<1> DEFINE l == processor[c].from
<1>1. l \in Level
  BY ActingType DEF Delete
<1>2. /\ backups' = [backups EXCEPT ![l] = backups[l] \cup {cw[l]}] /\ cw' = [cw EXCEPT ![l] = None]
      /\ deleted' = [deleted EXCEPT ![l] = deleted[l] \cup {want[l]}]
      /\ want' = [want EXCEPT ![l] = None]
      /\ raced' = (raced \/ (mem[l] # None /\ ~Live(l)))
      /\ UNCHANGED <<mem, dirty_save>>
  BY DEF Delete, memory
<1>3. ~Live(l)
  BY DEF Delete, Acting, InMemory, Live, Entry
<1> HIDE DEF l
<1>4. SavedInv'
  BY <1>1, <1>2, <1>3 DEF SavedInv, AdminHeld, AdminTypeOK
<1>5. AsOrdered'
  BY <1>1, <1>2, <1>3 DEF AsOrdered, Current, AdminHeld, AdminTypeOK
<1> QED BY <1>4, <1>5

\* do_direct_rename keeps the types.
LEMMA RenameType ==
  ASSUME AdminHeld, NEW c \in Client, Rename(c)
  PROVE  AdminTypeOK' /\ ProcessorInv'
<1>1. processor' \in [Client -> Processor_t] /\ ProcessorInv'
  <2>1. processor[c].stage # ""
    BY ActingType DEF Rename
  <2> QED BY <2>1, ReturnType DEF Rename
<1> DEFINE l == processor[c].from t == processor[c].to
<1>2. l \in Level /\ t \in Level
  BY ActingType DEF Rename
<1>3. /\ cw' = [cw EXCEPT ![l] = None, ![t] = cw[l]]
      /\ want' = [want EXCEPT ![l] = None, ![t] = want[l]]
      /\ raced' = (raced \/ (mem[l] # None /\ ~Live(l)) \/ mem[t] # None \/ cw[t] # None)
      /\ UNCHANGED <<backups, writing, memory, table, loader, deleted, made, acts>>
  BY DEF Rename
<1> HIDE DEF l, t
<1>4. cw' \in [Level -> Nat] /\ want' \in [Level -> Nat] /\ raced' \in BOOLEAN
  BY <1>2, <1>3 DEF AdminHeld, AdminTypeOK, None, writing
<1> QED BY <1>1, <1>3, <1>4 DEF AdminHeld, AdminTypeOK, memory, table, writing

\* do_direct_rename moves what the level was ordered to be, unless a loader has just opened it
\* or the new name has been taken since.
LEMMA RenameStep ==
  ASSUME AdminHeld, SavedInv, AsOrdered, NEW c \in Client, Rename(c)
  PROVE  SavedInv' /\ AsOrdered'
<1> DEFINE l == processor[c].from t == processor[c].to
<1>1. l \in Level /\ t \in Level
  BY ActingType DEF Rename
<1>2. /\ cw' = [cw EXCEPT ![l] = None, ![t] = cw[l]]
      /\ want' = [want EXCEPT ![l] = None, ![t] = want[l]]
      /\ raced' = (raced \/ (mem[l] # None /\ ~Live(l)) \/ mem[t] # None \/ cw[t] # None)
      /\ UNCHANGED <<backups, mem, dirty_save, deleted>>
  BY DEF Rename, memory
<1>3. ~Live(l)
  BY DEF Rename, Acting, InMemory, Live, Entry
<1> HIDE DEF l, t
<1>4. SavedInv'
  BY <1>1, <1>2, <1>3 DEF SavedInv, AdminHeld, AdminTypeOK
<1>5. AsOrdered'
  BY <1>1, <1>2, <1>3 DEF AsOrdered, Current, AdminHeld, AdminTypeOK
<1> QED BY <1>4, <1>5

\* A copy that is written keeps the types ...
LEMMA CopyType ==
  ASSUME AdminHeld, NEW c \in Client, NEW t \in Level, NEW n \in Nat, NEW s \in Stage,
         WriteTmp(t, n), Copy(c, n, s), processor[c].stage # "",
         processor[c].op = "restore" => n # None
  PROVE  AdminTypeOK' /\ ProcessorInv'
<1> DEFINE j == processor[c]
           k == [j EXCEPT !.content = n, !.stage = s]
<1>1. j \in Processor_t
  BY DEF AdminHeld, AdminTypeOK
<1>2. processor' = [processor EXCEPT ![c] = k]
  BY DEF Copy
<1>3. k \in Processor_t
  BY <1>1, NextContent
<1>4. k.from = j.from /\ k.to = j.to /\ k.op = j.op /\ k.content = n
  BY <1>1 DEF Processor_t
<1> HIDE DEF k
<1>5. processor' \in [Client -> Processor_t] /\ ProcessorInv'
  BY <1>2, <1>3, <1>4, JobType
<1>6. tmp' \in [Level -> Nat] /\ made' \in Nat /\ raced' \in BOOLEAN
  BY WriteTmpType
<1>7. UNCHANGED <<cw, backups, saving, memory, table, loader, want, deleted, acts>>
  BY DEF Copy
<1> QED BY <1>5, <1>6, <1>7 DEF AdminHeld, AdminTypeOK, memory, table

\* ... that of do_direct_copy ...
LEMMA ReadType ==
  ASSUME AdminHeld, NEW c \in Client, Read(c)
  PROVE  AdminTypeOK' /\ ProcessorInv'
<1>1. processor[c].stage # "" /\ processor[c].from \in Level /\ processor[c].to \in Level
  BY ActingType DEF Read
<1>2. cw[processor[c].from] \in Nat
  BY <1>1 DEF AdminHeld, AdminTypeOK
<1>3. "put" \in Stage /\ "putback" \in Stage
  BY DEF Stage
<1>4. processor[c].op # "restore"
  BY DEF Read, Acting
<1> QED BY <1>1, <1>2, <1>3, <1>4, CopyType DEF Read

\* ... and that of copy_backup_to_map.
LEMMA RestoreType ==
  ASSUME AdminHeld, NEW c \in Client, Restore(c)
  PROVE  AdminTypeOK' /\ ProcessorInv'
<1>1. processor[c].stage # "" /\ processor[c].from \in Level
  BY ActingType DEF Restore
<1>2. processor[c].content \in Nat /\ "putback" \in Stage
  BY DEF AdminHeld, AdminTypeOK, Processor_t, Stage
<1>3. processor[c].content # None
  BY <1>1 DEF AdminHeld, ProcessorInv, Restore, Acting
<1> QED BY <1>1, <1>2, <1>3, CopyType DEF Restore

\* Writing a copy changes no level.
LEMMA CopyStep ==
  ASSUME SavedInv, AsOrdered, NEW c \in Client, Read(c) \/ Restore(c)
  PROVE  SavedInv' /\ AsOrdered'
<1>1. /\ raced => raced'
      /\ UNCHANGED <<cw, backups, memory, want, deleted>>
  BY DEF Read, Restore, Copy, WriteTmp
<1> QED BY <1>1, SameData

\* What a process copies to is a level.
LEMMA TargetIn ==
  ASSUME AdminHeld, NEW c \in Client, processor[c].stage # ""
  PROVE  Target(processor[c]) \in Level /\ processor[c].content \in Nat
BY DEF AdminHeld, AdminTypeOK, ProcessorInv, Processor_t, Target

\* The copy that is put in place keeps the types, ...
LEMMA CopyPutType ==
  ASSUME AdminHeld, NEW c \in Client, CopyPut(c)
  PROVE  AdminTypeOK' /\ ProcessorInv'
<1> DEFINE t == Target(processor[c])
           n == processor[c].content
<1>1. processor[c].stage # ""
  BY DEF CopyPut
<1>2. t \in Level /\ n \in Nat
  BY <1>1, TargetIn
<1>3. processor' \in [Client -> Processor_t] /\ ProcessorInv'
  BY <1>1, ReturnType DEF CopyPut
<1>4. /\ PutTmp(t) /\ want' = [want EXCEPT ![t] = n] /\ raced' \in BOOLEAN
      /\ UNCHANGED <<backups, saving, memory, table, loader, deleted, made, acts>>
  BY DEF CopyPut, AdminHeld, AdminTypeOK
<1> HIDE DEF t, n
<1>5. cw' \in [Level -> Nat] /\ tmp' \in [Level -> Nat]
  BY <1>2, <1>4, PutTmpType
<1>6. want' \in [Level -> Nat]
  BY <1>2, <1>4 DEF AdminHeld, AdminTypeOK
<1> QED BY <1>3, <1>4, <1>5, <1>6 DEF AdminHeld, AdminTypeOK, memory, table

\* ... and makes the level what was read, unless it is, or was since, in memory or the name taken.
LEMMA CopyPutStep ==
  ASSUME AdminHeld, SavedInv, TmpInv, AsOrdered, NEW c \in Client, CopyPut(c)
  PROVE  SavedInv' /\ AsOrdered'
<1> DEFINE t == Target(processor[c])
           n == processor[c].content
<1>1. t \in Level
  BY TargetIn DEF CopyPut
<1>2. raced \/ tmp[t] = n
  BY DEF CopyPut, Copying, TmpInv
<1>3. /\ cw' = [cw EXCEPT ![t] = tmp[t]] /\ want' = [want EXCEPT ![t] = n]
      /\ raced \/ mem[t] # None => raced'
      /\ UNCHANGED <<backups, mem, dirty_save, deleted>>
  BY DEF CopyPut, PutTmp, memory
<1> HIDE DEF t, n
<1>4. SavedInv'
  BY <1>1, <1>2, <1>3 DEF SavedInv, AdminHeld, AdminTypeOK
<1>5. AsOrdered'
  BY <1>1, <1>2, <1>3 DEF AsOrdered, Current, AdminHeld, AdminTypeOK
<1> QED BY <1>4, <1>5

\* A copy that cannot be put in place keeps the types ...
LEMMA CopyFailsType ==
  ASSUME AdminHeld, NEW c \in Client, CopyFails(c)
  PROVE  AdminTypeOK' /\ ProcessorInv'
<1>1. processor[c].stage # "" /\ "undo" \in Stage /\ "undoback" \in Stage
  BY DEF CopyFails, Stage
<1>2. processor' \in [Client -> Processor_t] /\ ProcessorInv'
  BY <1>1, StepType DEF CopyFails
<1>3. cw' \in [Level -> Nat]
  BY <1>1, TargetIn, NoTmpType DEF CopyFails
<1>4. UNCHANGED <<backups, writing, memory, table, loader, history, acts>>
  BY DEF CopyFails
<1> QED BY <1>2, <1>3, <1>4 DEF AdminHeld, AdminTypeOK, writing, memory, table, history

\* ... and is not alone with the file.
LEMMA CopyFailsStep ==
  ASSUME AdminHeld, SavedInv, TmpInv, AsOrdered, NEW c \in Client, CopyFails(c)
  PROVE  SavedInv' /\ AsOrdered'
<1>1. raced
  BY NoTmpRaced DEF CopyFails, NoTmp, Copying
<1>2. UNCHANGED <<mem, dirty_save, raced>>
  BY DEF CopyFails, memory, history
<1> QED BY <1>1, <1>2 DEF SavedInv, AsOrdered

\* The file that is removed then, or when there is nothing to copy, keeps the types.
LEMMA UndoType ==
  ASSUME AdminHeld, NEW c \in Client, Undo(c)
  PROVE  AdminTypeOK' /\ ProcessorInv'
<1>1. processor[c].stage # ""
  BY DEF Undo
<1>2. tmp' \in [Level -> Nat] /\ raced' \in BOOLEAN
  BY DEF Undo, AdminHeld, AdminTypeOK, None
<1> QED BY <1>1, <1>2, FailType DEF Undo

\* A copy of nothing keeps the types.
LEMMA NoSourceType ==
  ASSUME AdminHeld, NEW c \in Client, NoSource(c)
  PROVE  AdminTypeOK' /\ ProcessorInv'
<1>1. processor[c].stage # "" /\ "undo" \in Stage /\ "undoback" \in Stage
  BY DEF NoSource, Acting, Stage
<1>2. processor' \in [Client -> Processor_t] /\ ProcessorInv'
  BY <1>1, StepType DEF NoSource
<1>3. UNCHANGED <<cw, backups, writing, memory, table, loader, history, acts>>
  BY DEF NoSource
<1> QED BY <1>2, <1>3 DEF AdminHeld, AdminTypeOK, writing, memory, table, history

\* return_users_to_level keeps the types when it opens the level.
LEMMA ReturnOpenType ==
  ASSUME AdminHeld, NEW c \in Client, ReturnOpen(c)
  PROVE  AdminTypeOK' /\ ProcessorInv'
<1> DEFINE l == Back(processor[c])
<1>1. processor[c].stage # "" /\ l \in Level
  BY DEF ReturnOpen, Back, AdminHeld, ProcessorInv
<1>2. UNCHANGED <<cw, backups, writing, table, loader, want, deleted, acts>>
  BY DEF ReturnOpen
<1>3. CASE cw[l] = None
  <2>1. Done(c) /\ UNCHANGED <<memory, made, raced>>
    BY <1>3 DEF ReturnOpen
  <2>2. processor' \in [Client -> Processor_t] /\ ProcessorInv'
    BY <2>1, DoneType
  <2> QED BY <1>2, <2>1, <2>2 DEF AdminHeld, AdminTypeOK, memory, table, writing
<1>4. CASE cw[l] # None
  <2>1. Step(c, "register") /\ OpenFiles(l)
    BY <1>4 DEF ReturnOpen
  <2> HIDE DEF l
  <2>2. processor' \in [Client -> Processor_t] /\ ProcessorInv'
    BY <1>1, <2>1, StepType DEF Stage
  <2>3. /\ mem' \in [Level -> Nat] /\ dirty_save' \in [Level -> BOOLEAN]
        /\ made' \in Nat /\ raced' \in BOOLEAN
    BY <1>1, <2>1, OpenFilesType
  <2> QED BY <1>2, <2>2, <2>3 DEF AdminHeld, AdminTypeOK, table, writing
<1> QED BY <1>3, <1>4

\* return_users_to_level changes no level when it opens one.
LEMMA ReturnOpenStep ==
  ASSUME AdminHeld, SavedInv, AsOrdered, NEW c \in Client, ReturnOpen(c)
  PROVE  SavedInv' /\ AsOrdered'
<1> DEFINE l == Back(processor[c])
<1>1. l \in Level
  BY DEF ReturnOpen, Back, AdminHeld, ProcessorInv
<1>2. CASE cw[l] = None
  BY <1>2, SameData DEF ReturnOpen
<1>3. CASE cw[l] # None
  BY <1>1, <1>3, OpenFilesStep DEF ReturnOpen
<1> QED BY <1>2, <1>3

\* return_users_to_level keeps the types when it summons the users.
LEMMA ReturnRegisterType ==
  ASSUME AdminHeld, NEW c \in Client, ReturnRegister(c)
  PROVE  AdminTypeOK' /\ ProcessorInv'
<1> DEFINE j == processor[c]
           l == Back(processor[c])
<1>1. l \in Level /\ j.slot \in Slot \cup {0}
  BY DEF ReturnRegister, Back, AdminHeld, ProcessorInv, AdminTypeOK, Processor_t, writing
<1>2. /\ Register(l, FALSE) /\ Done(c)
      /\ summon_level_id' =
           [u \in Client |-> IF u \in j.users THEN Place(l, FALSE, j.slot) ELSE summon_level_id[u]]
      /\ UNCHANGED <<cw, backups, writing, memory, on_level, loader, history, acts>>
  BY DEF ReturnRegister
<1> HIDE DEF l, j
<1>3. levels' \in [Slot -> Entry_t]
  BY <1>1, <1>2, RegisterType
<1>4. processor' \in [Client -> Processor_t] /\ ProcessorInv'
  BY <1>2, DoneType
<1>5. summon_level_id' \in [Client -> Slot \cup {Nowhere}]
  <2>1. Place(l, FALSE, j.slot) \in Slot \cup {Nowhere}
    BY <1>1, PlaceIn DEF AdminHeld, Nowhere
  <2> QED BY <1>2, <2>1 DEF AdminHeld, AdminTypeOK, writing
<1> QED BY <1>2, <1>3, <1>4, <1>5, TableType DEF history, AdminHeld, AdminTypeOK, writing

----------------------------------------------------------------------------
(* Who writes a file is alone with it *)

\* What a step leaves of the level that is being saved
StillSaving ==
  saving # Nowhere =>
    LET l == levels[saving].level IN
    /\ levels'[saving].level = l /\ levels'[saving].museum = levels[saving].museum
    /\ mem'[l] = mem[l] /\ dirty_save'[l] = dirty_save[l]

\* No process begins to copy in a step.
NoMoreCopies ==
  \A d \in Client : processor'[d].stage \in {"put", "putback"} => processor'[d] = processor[d]

\* A step that disturbs no writer leaves the writers alone.
LEMMA NoOther ==
  ASSUME SavingInv, TmpInv, UNCHANGED <<tmp, saving>>, raced => raced',
         raced' \/ StillSaving, StillSaving \/ (raced' /\ SavingInv'), NoMoreCopies
  PROVE  SavingInv' /\ TmpInv'
<1>1. SavingInv'
  BY DEF SavingInv, StillSaving
<1>2. ASSUME ~raced' PROVE TmpInv'
  <2>1. ~raced /\ StillSaving
    BY <1>2
  <2>2. \A d \in Client : Copying(d)' => Copying(d) /\ processor'[d] = processor[d]
    BY DEF NoMoreCopies, Copying
  <2>3. saving' # Nowhere => tmp'[levels'[saving'].level] = mem'[levels'[saving'].level]
    BY <2>1 DEF TmpInv, StillSaving
  <2>4. ASSUME NEW d \in Client, Copying(d)'
        PROVE  LET t == Target(processor'[d]) IN
               /\ processor'[d].content # None /\ tmp'[t] = processor'[d].content
               /\ saving' # Nowhere => levels'[saving'].level # t
               /\ \A e \in Client \ {d} : Copying(e)' => Target(processor'[e]) # t
    <3>1. Copying(d) /\ processor'[d] = processor[d]
      BY <2>2, <2>4
    <3>2. LET t == Target(processor[d]) IN
          /\ processor[d].content # None /\ tmp[t] = processor[d].content
          /\ saving # Nowhere => levels[saving].level # t
          /\ \A e \in Client \ {d} : Copying(e) => Target(processor[e]) # t
      BY <2>1, <3>1 DEF TmpInv
    <3>3. saving # Nowhere => levels'[saving].level = levels[saving].level
      BY <2>1 DEF StillSaving
    <3> QED BY <2>2, <3>1, <3>2, <3>3
  <2> QED BY <2>3, <2>4 DEF TmpInv
<1>3. raced' => TmpInv'
  BY DEF TmpInv
<1> QED BY <1>1, <1>2, <1>3

\* A process that goes on, or ends, copies no more than it did.
LEMMA StepCopies ==
  ASSUME AdminHeld, NEW c \in Client, Done(c) \/ \E s \in Stage \ {"put", "putback"} : Step(c, s)
  PROVE  NoMoreCopies
<1>1. processor \in [Client -> Processor_t]
  BY DEF AdminHeld, AdminTypeOK
<1>2. \A d \in Client \ {c} : processor'[d] = processor[d]
  BY <1>1 DEF Done, Step
<1>3. processor'[c].stage \notin {"put", "putback"}
  <2>1. CASE Done(c)
    BY <1>1, <2>1 DEF Done, NoProcessor
  <2>2. ASSUME NEW s \in Stage \ {"put", "putback"}, Step(c, s)
        PROVE  processor'[c].stage = s
    <3>1. processor'[c] = [processor[c] EXCEPT !.stage = s]
      BY <1>1, <2>2 DEF Step
    <3>2. processor[c] \in Processor_t
      BY <1>1
    <3> QED BY <3>1, <3>2, NextStage
  <2> QED BY <2>1, <2>2
<1> QED BY <1>2, <1>3 DEF NoMoreCopies

\* start_level takes no entry that is used.
LEMMA RegisterStill ==
  ASSUME AdminHeld, NEW l, NEW museum, Register(l, museum)
  PROVE  saving # Nowhere => levels'[saving] = levels[saving]
<1> SUFFICES ASSUME saving # Nowhere PROVE levels'[saving] = levels[saving]
  OBVIOUS
<1>1. saving \in Slot /\ Loaded(saving)
  BY SavedLevel DEF AdminHeld, SavingInv, Loaded
<1>2. levels \in [Slot -> Entry_t]
  BY DEF AdminHeld, AdminTypeOK
<1>3. CASE ~Room(l, museum)
  BY <1>3 DEF Register
<1>4. CASE Room(l, museum)
  <2> DEFINE i == SlotFor(l, museum)
  <2>1. levels' = [levels EXCEPT ![i] = IF Loaded(i) THEN levels[i] ELSE LevelEntry(l, museum)]
    BY <1>4 DEF Register
  <2>2. i \in Slot
    BY <1>4, SlotForIn DEF AdminHeld
  <2> HIDE DEF i
  <2> QED BY <1>1, <1>2, <2>1, <2>2
<1> QED BY <1>3, <1>4

\* open_level_files opens no level that is in memory, as one that is being saved is.
LEMMA OpenFilesStill ==
  ASSUME AdminHeld, SavedInv, NEW l \in Level, OpenFiles(l), saving # Nowhere
  PROVE  LET k == levels[saving].level IN mem'[k] = mem[k] /\ dirty_save'[k] = dirty_save[k]
<1> DEFINE k == levels[saving].level
<1>1. k \in Level /\ mem[k] # None
  BY SavedLevel DEF AdminHeld, SavingInv, SavedInv
<1> HIDE DEF k
<1>2. CASE mem[l] # None
  BY <1>2 DEF OpenFiles, memory, k
<1>3. CASE mem[l] = None
  <2>1. l # k
    BY <1>1, <1>3
  <2>2. /\ mem' = [mem EXCEPT ![l] = IF cw[l] = None THEN Fresh ELSE cw[l]]
        /\ dirty_save' = [dirty_save EXCEPT ![l] = cw[l] = None]
    BY <1>3 DEF OpenFiles
  <2>3. mem'[k] = mem[k] /\ dirty_save'[k] = dirty_save[k]
    BY <1>1, <2>1, <2>2 DEF AdminHeld, AdminTypeOK
  <2> QED BY <2>3 DEF k
<1> QED BY <1>2, <1>3

\* Nor does open_level_files forget that there was a race.
LEMMA OpenFilesRaced == ASSUME NEW l, OpenFiles(l), raced PROVE raced'
BY DEF OpenFiles

\* Entering a level disturbs nobody that writes one.
LEMMA EnterStill ==
  ASSUME AdminHeld, SavedInv, NEW c \in Client, NEW l \in Level, NEW museum \in BOOLEAN,
         Enter(c, l, museum)
  PROVE  StillSaving /\ (raced => raced')
<1>1. saving # Nowhere => levels'[saving] = levels[saving]
  BY RegisterStill DEF Enter
<1>2. CASE museum \/ ~Room(l, museum)
  BY <1>1, <1>2 DEF Enter, StillSaving, memory
<1>3. CASE ~(museum \/ ~Room(l, museum))
  <2>1. OpenFiles(l)
    BY <1>3 DEF Enter
  <2>2. raced => raced'
    BY <2>1, OpenFilesRaced
  <2> QED BY <1>1, <2>1, <2>2, OpenFilesStill DEF StillSaving
<1> QED BY <1>2, <1>3

\* What a client, or a loader for it, does disturbs nobody that writes a level, except with an
\* edit of the level that is being saved.
LEMMA ClientTmp ==
  ASSUME AdminHeld, SavedInv, TmpInv, NEW c \in Client,
         \/ \E l \in Level, museum \in BOOLEAN : Goto(c, l, museum)
         \/ Load(c) \/ Summon(c) \/ CheckUserSummon(c) \/ Leave(c) \/ Edit(c)
  PROVE  SavingInv' /\ TmpInv'
<1>0. SavingInv
  BY DEF AdminHeld
<1>1. ASSUME NEW l \in Level, NEW museum \in BOOLEAN, Goto(c, l, museum)
      PROVE  SavingInv' /\ TmpInv'
  <2>1. UNCHANGED <<tmp, saving>> /\ NoMoreCopies
    BY <1>1 DEF Goto, writing, NoMoreCopies
  <2>2. CASE Fork(c, l, museum) /\ UNCHANGED <<levels, on_level, memory, made, raced>>
    BY <1>0, <2>1, <2>2, NoOther DEF StillSaving, memory
  <2>3. CASE Enter(c, l, museum)
    BY <1>0, <2>1, <2>3, EnterStill, NoOther
  <2> QED BY <1>1, <2>2, <2>3 DEF Goto, Teleport
<1>2. CASE Load(c)
  <2>1. UNCHANGED <<tmp, saving, levels>> /\ NoMoreCopies /\ loader[c].level \in Level
    BY <1>2 DEF Load, writing, table, NoMoreCopies, AdminHeld, AdminTypeOK, Loader_t
  <2>2. CASE loader[c].museum
    BY <1>0, <1>2, <2>1, <2>2, NoOther DEF Load, StillSaving, memory
  <2>3. CASE ~loader[c].museum
    <3>1. OpenFiles(loader[c].level)
      BY <1>2, <2>3 DEF Load
    <3>2. StillSaving /\ (raced => raced')
      BY <2>1, <3>1, OpenFilesStill, OpenFilesRaced DEF StillSaving
    <3> QED BY <1>0, <2>1, <3>2, NoOther
  <2> QED BY <2>2, <2>3
<1>3. CASE Summon(c)
  <2>1. UNCHANGED <<tmp, saving, mem, dirty_save, raced>> /\ NoMoreCopies
    BY <1>3 DEF Summon, writing, memory, history, NoMoreCopies
  <2>2. saving # Nowhere => levels'[saving] = levels[saving]
    BY <1>3, RegisterStill DEF Summon
  <2> QED BY <1>0, <2>1, <2>2, NoOther DEF StillSaving
<1>4. CASE CheckUserSummon(c)
  <2> DEFINE e == levels[summon_level_id[c]]
  <2>1. UNCHANGED <<tmp, saving>> /\ NoMoreCopies
    BY <1>4 DEF CheckUserSummon, writing, NoMoreCopies
  <2>2. CASE e.level # "" /\ MayEnter(e.level, e.museum) /\ Enter(c, e.level, e.museum)
    <3>1. summon_level_id[c] \in Slot
      BY <1>4 DEF CheckUserSummon, AdminHeld, AdminTypeOK
    <3>2. e.level \in Level /\ e.museum \in BOOLEAN
      BY <2>2, <3>1 DEF AdminHeld, AdminTypeOK, Entry_t
    <3> QED BY <1>0, <2>1, <2>2, <3>2, EnterStill, NoOther
  <2>3. CASE UNCHANGED <<levels, on_level, memory, made, raced>>
    BY <1>0, <2>1, <2>3, NoOther DEF StillSaving, memory
  <2> QED BY <1>4, <2>2, <2>3 DEF CheckUserSummon
<1>5. CASE Leave(c)
  BY <1>0, <1>5, NoOther DEF Leave, StillSaving, NoMoreCopies, writing, memory, history
<1>6. CASE Edit(c)
  <2> DEFINE l == levels[on_level[c]].level
  <2>1. /\ UNCHANGED <<tmp, saving, levels>> /\ NoMoreCopies
        /\ mem' = [mem EXCEPT ![l] = Fresh] /\ dirty_save' = [dirty_save EXCEPT ![l] = TRUE]
        /\ raced' = (raced \/ (saving # Nowhere /\ levels[saving].level = l))
    BY <1>6 DEF Edit, writing, table, NoMoreCopies
  <2> HIDE DEF l
  <2>2. raced' \/ StillSaving
    BY <2>1, SavedLevel DEF StillSaving, AdminHeld, AdminTypeOK
  <2>3. SavingInv'
    BY <1>0, <2>1, SavedLevel DEF SavingInv, AdminHeld, AdminTypeOK
  <2> QED BY <1>0, <2>1, <2>2, <2>3, NoOther
<1> QED BY <1>1, <1>2, <1>3, <1>4, <1>5, <1>6

\* The beginning of a command disturbs nobody.
LEMMA CommandTmp ==
  ASSUME AdminHeld, TmpInv, NEW c \in Client, NEW op, NEW from, NEW to, Command(c, op, from, to)
  PROVE  SavingInv' /\ TmpInv'
<1>1. PICK b \in backups[from] \cup {None} :
             processor' = [processor EXCEPT ![c] = Job(op, from, to, On(c, from), b)]
  BY DEF Command
<1>2. Job(op, from, to, On(c, from), b).stage \notin {"put", "putback"}
  BY DEF Job
<1>3. NoMoreCopies
  BY <1>1, <1>2 DEF NoMoreCopies, AdminHeld, AdminTypeOK
<1>4. UNCHANGED <<tmp, saving, raced>> /\ StillSaving
  BY DEF Command, writing, memory, table, history, StillSaving
<1> QED BY <1>3, <1>4, NoOther DEF AdminHeld

\* A file that is written is nobody else's, unless there is a race.
LEMMA WriteTmpFree ==
  ASSUME AdminHeld, SavedInv, TmpInv, NEW t \in Level, NEW n, WriteTmp(t, n), ~raced'
  PROVE  /\ tmp' = [tmp EXCEPT ![t] = n] /\ ~raced
         /\ saving # Nowhere => levels[saving].level # t
         /\ \A d \in Client : Copying(d) => Target(processor[d]) # t
<1>1. tmp[t] = None /\ ~raced
  BY DEF WriteTmp
<1>2. tmp' = [tmp EXCEPT ![t] = n]
  BY <1>1 DEF WriteTmp
<1>3. saving # Nowhere => levels[saving].level # t
  BY <1>1, SavedLevel DEF AdminHeld, SavingInv, SavedInv, TmpInv
<1>4. \A d \in Client : Copying(d) => Target(processor[d]) # t
  BY <1>1 DEF TmpInv
<1> QED BY <1>1, <1>2, <1>3, <1>4

\* Who begins to copy is alone with the file, unless there is a race.
LEMMA CopyTmp ==
  ASSUME AdminHeld, SavedInv, TmpInv, NEW c \in Client, NEW n \in Nat,
         NEW s \in {"put", "putback"}, Target(processor[c]) \in Level,
         WriteTmp(Target(processor[c]), n), Copy(c, n, s), n # None
  PROVE  SavingInv' /\ TmpInv'
<1> DEFINE t == Target(processor[c])
           k == [processor[c] EXCEPT !.content = n, !.stage = s]
<1>1. processor' = [processor EXCEPT ![c] = k] /\ UNCHANGED <<saving, mem, dirty_save, levels>>
  BY DEF Copy, memory, table
<1>2. processor \in [Client -> Processor_t] /\ tmp \in [Level -> Nat]
  BY DEF AdminHeld, AdminTypeOK
<1>3. k.content = n /\ Target(k) = t
  <2>1. processor[c] \in Processor_t
    BY <1>2
  <2>2. k.content = n /\ k.op = processor[c].op /\ k.to = processor[c].to /\ k.from = processor[c].from
    BY <2>1 DEF Processor_t
  <2> QED BY <2>2 DEF Target
<1> HIDE DEF k
<1>4. SavingInv'
  BY <1>1 DEF AdminHeld, SavingInv
<1>5. ASSUME ~raced' PROVE TmpInv'
  <2>1. /\ tmp' = [tmp EXCEPT ![t] = n] /\ ~raced
        /\ saving # Nowhere => levels[saving].level # t
        /\ \A d \in Client : Copying(d) => Target(processor[d]) # t
    BY <1>5, WriteTmpFree
  <2>2. processor'[c] = k /\ \A d \in Client \ {c} : processor'[d] = processor[d]
    BY <1>1, <1>2
  <2>3. Target(processor'[c]) = t /\ processor'[c].content = n
    BY <1>3, <2>2
  <2> HIDE DEF t
  <2>4. tmp'[t] = n /\ \A l \in Level \ {t} : tmp'[l] = tmp[l]
    BY <1>2, <2>1 DEF t
  <2>5. saving' # Nowhere => tmp'[levels'[saving'].level] = mem'[levels'[saving'].level]
    BY <1>1, <2>1, <2>4, SavedLevel DEF TmpInv
  <2>6. ASSUME NEW d \in Client, Copying(d)'
        PROVE  /\ processor'[d].content # None
               /\ tmp'[Target(processor'[d])] = processor'[d].content
               /\ saving' # Nowhere => levels'[saving'].level # Target(processor'[d])
               /\ \A e \in Client \ {d} :
                    Copying(e)' => Target(processor'[e]) # Target(processor'[d])
    <3>1. \A e \in Client \ {c} : Copying(e)' => Copying(e) /\ Target(processor'[e]) = Target(processor[e])
      BY <2>2 DEF Copying
    <3>2. CASE d = c
      BY <1>1, <2>1, <2>3, <2>4, <3>1, <3>2
    <3>3. CASE d # c
      <4>1. Copying(d) /\ processor'[d] = processor[d]
        BY <2>2, <2>6, <3>3 DEF Copying
      <4>2. Target(processor[d]) # t /\ Target(processor[d]) \in Level
        BY <2>1, <4>1, TargetIn DEF Copying
      <4>3. /\ processor[d].content # None /\ tmp[Target(processor[d])] = processor[d].content
            /\ saving # Nowhere => levels[saving].level # Target(processor[d])
            /\ \A e \in Client \ {d} : Copying(e) => Target(processor[e]) # Target(processor[d])
        BY <2>1, <4>1 DEF TmpInv
      <4>4. tmp'[Target(processor[d])] = processor[d].content
        BY <2>4, <4>2, <4>3
      <4>5. \A e \in Client \ {d} : Copying(e)' => Target(processor'[e]) # Target(processor'[d])
        BY <2>3, <3>1, <4>1, <4>2, <4>3
      <4> QED BY <1>1, <4>1, <4>3, <4>4, <4>5
    <3> QED BY <3>2, <3>3
  <2> QED BY <2>5, <2>6 DEF TmpInv
<1>6. raced' => TmpInv'
  BY DEF TmpInv
<1> QED BY <1>4, <1>5, <1>6

\* do_direct_copy and copy_backup_to_map begin to copy.
LEMMA ReadTmp ==
  ASSUME AdminHeld, SavedInv, TmpInv, NEW c \in Client, Read(c) \/ Restore(c)
  PROVE  SavingInv' /\ TmpInv'
<1>1. CASE Read(c)
  <2>1. Target(processor[c]) = processor[c].to
    BY <1>1 DEF Read, Acting, Target
  <2>2. processor[c].from \in Level /\ processor[c].to \in Level
    BY <1>1, ActingType DEF Read
  <2>3. cw[processor[c].from] \in Nat /\ cw[processor[c].from] # None
    BY <1>1, <2>2 DEF Read, AdminHeld, AdminTypeOK
  <2>4. \E s \in {"put", "putback"} : Copy(c, cw[processor[c].from], s)
    BY <1>1 DEF Read
  <2> QED BY <1>1, <2>1, <2>2, <2>3, <2>4, CopyTmp DEF Read
<1>2. CASE Restore(c)
  <2>1. Target(processor[c]) = processor[c].from
    BY <1>2 DEF Restore, Acting, Target
  <2>2. processor[c].from \in Level /\ processor[c].stage # ""
    BY <1>2, ActingType DEF Restore
  <2>3. processor[c].content \in Nat /\ processor[c].content # None
    BY <1>2, <2>2, TargetIn DEF Restore, Acting, AdminHeld, ProcessorInv
  <2>4. Copy(c, processor[c].content, "putback") /\ WriteTmp(processor[c].from, processor[c].content)
    BY <1>2 DEF Restore
  <2> QED BY <2>1, <2>2, <2>3, <2>4, CopyTmp
<1> QED BY <1>1, <1>2

\* The file that is put in place, or removed, is no other's that writes, unless there is a race.
LEMMA TakenTmp ==
  ASSUME AdminHeld, TmpInv, NEW c \in Client, NEW t \in Level,
         tmp' = [tmp EXCEPT ![t] = None], raced => raced', NoMoreCopies, ~Copying(c)',
         ~raced' => \/ tmp[t] = None
                    \/ Copying(c) /\ t = Target(processor[c]),
         UNCHANGED <<saving, mem, dirty_save, levels>>
  PROVE  SavingInv' /\ TmpInv'
<1>1. SavingInv'
  BY DEF AdminHeld, SavingInv
<1>2. ASSUME ~raced', tmp[t] = None PROVE TmpInv'
  <2>1. tmp' = tmp
    BY <1>2 DEF AdminHeld, AdminTypeOK
  <2> QED BY <2>1, NoOther DEF AdminHeld, StillSaving
<1>3. ASSUME ~raced', Copying(c), t = Target(processor[c]) PROVE TmpInv'
  <2>1. ~raced
    BY <1>3
  <2>2. /\ saving # Nowhere => levels[saving].level # t
        /\ \A e \in Client \ {c} : Copying(e) => Target(processor[e]) # t
    BY <1>3, <2>1 DEF TmpInv
  <2>3. \A l \in Level \ {t} : tmp'[l] = tmp[l]
    BY DEF AdminHeld, AdminTypeOK
  <2>4. saving' # Nowhere => tmp'[levels'[saving'].level] = mem'[levels'[saving'].level]
    BY <2>1, <2>2, <2>3, SavedLevel DEF TmpInv
  <2>5. \A e \in Client : Copying(e)' => e # c /\ Copying(e) /\ processor'[e] = processor[e]
    BY DEF NoMoreCopies, Copying
  <2>6. ASSUME NEW d \in Client, Copying(d)'
        PROVE  /\ processor'[d].content # None
               /\ tmp'[Target(processor'[d])] = processor'[d].content
               /\ saving' # Nowhere => levels'[saving'].level # Target(processor'[d])
               /\ \A e \in Client \ {d} :
                    Copying(e)' => Target(processor'[e]) # Target(processor'[d])
    <3>1. Copying(d) /\ processor'[d] = processor[d] /\ Target(processor[d]) # t
      BY <2>2, <2>5, <2>6
    <3>2. Target(processor[d]) \in Level
      BY <3>1, TargetIn DEF Copying
    <3>3. /\ processor[d].content # None /\ tmp[Target(processor[d])] = processor[d].content
          /\ saving # Nowhere => levels[saving].level # Target(processor[d])
          /\ \A e \in Client \ {d} : Copying(e) => Target(processor[e]) # Target(processor[d])
      BY <2>1, <3>1 DEF TmpInv
    <3>4. tmp'[Target(processor[d])] = processor[d].content
      BY <2>3, <3>1, <3>2, <3>3
    <3>5. \A e \in Client \ {d} : Copying(e)' => Target(processor'[e]) # Target(processor'[d])
      BY <2>5, <3>1, <3>3
    <3> QED BY <3>1, <3>3, <3>4, <3>5
  <2> QED BY <2>4, <2>6 DEF TmpInv
<1>4. raced' => TmpInv'
  BY DEF TmpInv
<1> QED BY <1>1, <1>2, <1>3, <1>4

\* What a process ends with copies nothing.
LEMMA ReturnCopies ==
  ASSUME AdminHeld, NEW c \in Client, Return(c)
  PROVE  NoMoreCopies
<1>1. "open" \in Stage \ {"put", "putback"}
  BY DEF Stage
<1> QED BY <1>1, StepCopies DEF Return

\* Nor does what it does then copy.
LEMMA NotCopying ==
  ASSUME AdminHeld, NEW c \in Client,
         Done(c) \/ \E s \in Stage \ {"put", "putback"} : Step(c, s)
  PROVE  ~Copying(c)'
<1>1. processor \in [Client -> Processor_t]
  BY DEF AdminHeld, AdminTypeOK
<1>2. CASE Done(c)
  BY <1>1, <1>2 DEF Done, NoProcessor, Copying
<1>3. ASSUME NEW s \in Stage \ {"put", "putback"}, Step(c, s) PROVE ~Copying(c)'
  <2>1. processor'[c] = [processor[c] EXCEPT !.stage = s]
    BY <1>1, <1>3 DEF Step
  <2>2. processor[c] \in Processor_t
    BY <1>1
  <2>3. processor'[c].stage = s
    BY <2>1, <2>2, NextStage
  <2> QED BY <2>3 DEF Copying
<1> QED BY <1>2, <1>3

\* How a command fails
LEMMA FailEnds ==
  ASSUME NEW c \in Client, Fail(c)
  PROVE  /\ Done(c) \/ \E s \in Stage \ {"put", "putback"} : Step(c, s)
         /\ UNCHANGED <<saving, mem, dirty_save, levels>>
<1>1. {"open", "force"} \subseteq Stage \ {"put", "putback"}
  BY DEF Stage
<1> QED BY <1>1 DEF Fail, Return, memory

\* The process of a command is alone with what it writes, unless there is a race.
LEMMA ProcessTmp ==
  ASSUME AdminHeld, SavedInv, TmpInv, NEW c \in Client,
         \/ ForceAway(c) \/ Wait(c) \/ Delete(c) \/ Rename(c) \/ Read(c) \/ Restore(c)
         \/ CopyPut(c) \/ CopyFails(c) \/ Undo(c) \/ NoSource(c) \/ Refused(c)
         \/ ReturnOpen(c) \/ ReturnRegister(c)
  PROVE  SavingInv' /\ TmpInv'
<1>0. SavingInv
  BY DEF AdminHeld
<1>s. {"act", "undo", "undoback", "open", "force", "register"} \subseteq Stage \ {"put", "putback"}
  BY DEF Stage
<1>1. CASE ForceAway(c)
  <2>1. UNCHANGED <<tmp, saving, mem, dirty_save, raced>>
    BY <1>1 DEF ForceAway, writing, memory, history
  <2>2. CASE Entries(processor[c].from) = {}
    <3>1. Step(c, "act") /\ UNCHANGED levels
      BY <1>1, <2>2 DEF ForceAway
    <3>2. NoMoreCopies
      BY <1>s, <3>1, StepCopies
    <3> QED BY <1>0, <2>1, <3>1, <3>2, NoOther DEF StillSaving
  <2>3. CASE Entries(processor[c].from) # {}
    <3> DEFINE i == Min(Entries(processor[c].from))
    <3>1. ForceUnload(c, i)
      BY <1>1, <2>3 DEF ForceAway
    <3> HIDE DEF i
    <3>2. NoMoreCopies
      <4>1. processor \in [Client -> Processor_t]
        BY DEF AdminHeld, AdminTypeOK
      <4>2. \A d \in Client \ {c} : processor'[d] = processor[d]
        BY <3>1, <4>1 DEF ForceUnload
      <4>3. processor'[c].stage = "wait"
        <5> DEFINE us == Users(c, i)
        <5>1. processor[c] \in Processor_t
          BY <4>1
        <5>2. processor' = [processor EXCEPT ![c] =
                              [processor[c] EXCEPT !.stage = "wait", !.slot = i, !.users = us]]
          BY <3>1 DEF ForceUnload
        <5> HIDE DEF us
        <5>3. processor'[c] = [processor[c] EXCEPT !.stage = "wait", !.slot = i, !.users = us]
          BY <4>1, <5>2
        <5> QED BY <5>1, <5>3 DEF Processor_t
      <4> QED BY <4>2, <4>3 DEF NoMoreCopies
    <3>3. saving # Nowhere => /\ levels'[saving].level = levels[saving].level
                              /\ levels'[saving].museum = levels[saving].museum
      BY <3>1, SavedLevel DEF ForceUnload, AdminHeld, AdminTypeOK, Entry_t
    <3> QED BY <1>0, <2>1, <3>2, <3>3, NoOther DEF StillSaving
  <2> QED BY <2>2, <2>3
<1>2. CASE Wait(c)
  <2>1. NoMoreCopies
    BY <1>2, <1>s, StepCopies DEF Wait
  <2> QED BY <1>0, <1>2, <2>1, NoOther DEF Wait, writing, memory, table, history, StillSaving
<1>3. CASE Delete(c)
  <2>1. NoMoreCopies
    BY <1>3, StepCopies DEF Delete
  <2> QED BY <1>0, <1>3, <2>1, NoOther DEF Delete, writing, memory, table, StillSaving
<1>4. CASE Rename(c)
  <2>1. NoMoreCopies
    BY <1>4, ReturnCopies DEF Rename
  <2> QED BY <1>0, <1>4, <2>1, NoOther DEF Rename, writing, memory, table, StillSaving
<1>5. CASE CopyPut(c)
  <2>1. NoMoreCopies /\ ~Copying(c)'
    BY <1>5, <1>s, ReturnCopies, NotCopying DEF CopyPut, Return
  <2>2. /\ Target(processor[c]) \in Level /\ Copying(c)
        /\ tmp' = [tmp EXCEPT ![Target(processor[c])] = None] /\ (raced => raced')
        /\ UNCHANGED <<saving, mem, dirty_save, levels>>
    BY <1>5, TargetIn DEF CopyPut, PutTmp, Copying, memory, table
  <2> QED BY <2>1, <2>2, TakenTmp
<1>6. CASE CopyFails(c)
  <2>1. NoMoreCopies
    BY <1>6, <1>s, StepCopies DEF CopyFails
  <2> QED BY <1>0, <1>6, <2>1, NoOther DEF CopyFails, writing, memory, table, history, StillSaving
<1>7. CASE Undo(c)
  <2>1. /\ Done(c) \/ \E s \in Stage \ {"put", "putback"} : Step(c, s)
        /\ UNCHANGED <<saving, mem, dirty_save, levels>>
    BY <1>7, FailEnds DEF Undo
  <2>2. NoMoreCopies /\ ~Copying(c)'
    BY <2>1, StepCopies, NotCopying
  <2>3. /\ Target(processor[c]) \in Level
        /\ tmp' = [tmp EXCEPT ![Target(processor[c])] = None]
        /\ raced' = (raced \/ tmp[Target(processor[c])] # None)
    BY <1>7, TargetIn DEF Undo
  <2> QED BY <2>1, <2>2, <2>3, TakenTmp
<1>8. CASE NoSource(c)
  <2>1. NoMoreCopies
    BY <1>8, <1>s, StepCopies DEF NoSource
  <2> QED BY <1>0, <1>8, <2>1, NoOther DEF NoSource, writing, memory, table, history, StillSaving
<1>9. CASE Refused(c)
  <2>1. /\ Done(c) \/ \E s \in Stage \ {"put", "putback"} : Step(c, s)
        /\ UNCHANGED <<saving, mem, dirty_save, levels>>
    BY <1>9, FailEnds DEF Refused
  <2>2. NoMoreCopies
    BY <2>1, StepCopies
  <2> QED BY <1>0, <1>9, <2>1, <2>2, NoOther DEF Refused, StillSaving
<1>10. CASE ReturnOpen(c)
  <2> DEFINE l == Back(processor[c])
  <2>1. UNCHANGED <<tmp, saving, levels>> /\ l \in Level
    BY <1>10 DEF ReturnOpen, writing, table, Back, AdminHeld, ProcessorInv
  <2>2. CASE cw[l] = None
    <3>1. NoMoreCopies
      BY <1>10, <2>2, StepCopies DEF ReturnOpen
    <3> QED BY <1>0, <1>10, <2>1, <2>2, <3>1, NoOther DEF ReturnOpen, memory, StillSaving
  <2>3. CASE cw[l] # None
    <3>1. Step(c, "register") /\ OpenFiles(l)
      BY <1>10, <2>3 DEF ReturnOpen
    <3> HIDE DEF l
    <3>2. NoMoreCopies
      BY <1>s, <3>1, StepCopies
    <3>3. StillSaving /\ (raced => raced')
      BY <2>1, <3>1, OpenFilesStill, OpenFilesRaced DEF StillSaving
    <3> QED BY <1>0, <2>1, <3>2, <3>3, NoOther
  <2> QED BY <2>2, <2>3
<1>11. CASE ReturnRegister(c)
  <2>1. NoMoreCopies
    BY <1>11, StepCopies DEF ReturnRegister
  <2>2. saving # Nowhere => levels'[saving] = levels[saving]
    BY <1>11, RegisterStill DEF ReturnRegister
  <2>3. UNCHANGED <<tmp, saving, mem, dirty_save, raced>>
    BY <1>11 DEF ReturnRegister, writing, memory, history
  <2> QED BY <1>0, <2>1, <2>2, <2>3, NoOther DEF StillSaving
<1> QED BY <1>1, <1>2, <1>3, <1>4, <1>5, <1>6, <1>7, <1>8, <1>9, <1>10, <1>11, ReadTmp

\* save_level is alone with what it writes, unless there is a race ...
LEMMA SaveOpenTmp ==
  ASSUME AdminHeld, SavedInv, TmpInv, NEW i \in Slot, SaveOpen(i)
  PROVE  SavingInv' /\ TmpInv'
<1> DEFINE l == levels[i].level
<1>1. l \in Level /\ ~levels[i].museum /\ dirty_save[l] /\ l # "" /\ i # Nowhere
  BY SlotsAreNumbers DEF SaveOpen, Loaded, AdminHeld, AdminTypeOK, Entry_t, Nowhere
<1>2. saving = Nowhere /\ saving' = i /\ UNCHANGED <<mem, dirty_save, levels, processor>>
  BY DEF SaveOpen, memory, table
<1>3. SavingInv'
  BY <1>1, <1>2 DEF SavingInv
<1>4. WriteTmp(l, mem[l])
  BY DEF SaveOpen
<1> HIDE DEF l
<1>5. ASSUME ~raced' PROVE TmpInv'
  <2>1. /\ tmp' = [tmp EXCEPT ![l] = mem[l]] /\ ~raced
        /\ \A d \in Client : Copying(d) => Target(processor[d]) # l
    BY <1>1, <1>4, <1>5, WriteTmpFree
  <2>2. tmp'[l] = mem[l] /\ \A k \in Level \ {l} : tmp'[k] = tmp[k]
    BY <1>1, <2>1 DEF AdminHeld, AdminTypeOK
  <2>3. ASSUME NEW d \in Client, Copying(d)
        PROVE  /\ processor[d].content # None
               /\ tmp'[Target(processor[d])] = processor[d].content
               /\ l # Target(processor[d])
               /\ \A e \in Client \ {d} : Copying(e) => Target(processor[e]) # Target(processor[d])
    <3>1. Target(processor[d]) \in Level /\ Target(processor[d]) # l
      BY <2>1, <2>3, TargetIn DEF Copying
    <3> QED BY <2>1, <2>2, <2>3, <3>1 DEF TmpInv
  <2>4. \A d \in Client : Copying(d)' = Copying(d)
    BY <1>2 DEF Copying
  <2> QED BY <1>1, <1>2, <2>2, <2>3, <2>4 DEF TmpInv, l
<1>6. raced' => TmpInv'
  BY DEF TmpInv
<1> QED BY <1>3, <1>5, <1>6

\* ... and to the end.
LEMMA SavePutTmp ==
  ASSUME AdminHeld, SavedInv, TmpInv, NEW bkp, SavePut(bkp)
  PROVE  SavingInv' /\ TmpInv'
<1> DEFINE l == levels[saving].level
<1>1. l \in Level
  BY SavedLevel DEF SavePut
<1>2. saving # Nowhere /\ saving' = Nowhere /\ UNCHANGED <<processor, raced>>
  BY DEF SavePut, history
<1>3. SavingInv'
  BY <1>2 DEF SavingInv
<1>4. ASSUME ~raced PROVE TmpInv'
  <2>1. tmp' = [tmp EXCEPT ![l] = None]
    BY <1>4, NoTmpRaced DEF SavePut, PutTmp, NoTmp
  <2> HIDE DEF l
  <2>2. \A k \in Level \ {l} : tmp'[k] = tmp[k]
    BY <2>1 DEF AdminHeld, AdminTypeOK
  <2>3. ASSUME NEW d \in Client, Copying(d)
        PROVE  /\ processor[d].content # None
               /\ tmp'[Target(processor[d])] = processor[d].content
               /\ \A e \in Client \ {d} : Copying(e) => Target(processor[e]) # Target(processor[d])
    <3>1. Target(processor[d]) \in Level /\ Target(processor[d]) # l
      BY <1>2, <1>4, <2>3, TargetIn DEF Copying, TmpInv, l
    <3> QED BY <1>4, <2>2, <2>3, <3>1 DEF TmpInv
  <2>4. \A d \in Client : Copying(d)' = Copying(d)
    BY <1>2 DEF Copying
  <2> QED BY <1>2, <2>3, <2>4 DEF TmpInv
<1>5. raced => TmpInv'
  BY <1>2 DEF TmpInv
<1> QED BY <1>3, <1>4, <1>5

\* What is unloaded is not being saved: it needs not, or somebody is at it.
LEMMA UnloadTmp ==
  ASSUME AdminHeld, SavedInv, TmpInv, NEW i \in Slot, Unload(i)
  PROVE  SavingInv' /\ TmpInv'
<1>1. UNCHANGED <<tmp, saving, dirty_save, processor, raced>> /\ saving # i
  BY DEF Unload, writing, history
<1>2. NoMoreCopies
  BY <1>1 DEF NoMoreCopies
<1>3. StillSaving
  <2> SUFFICES ASSUME saving # Nowhere PROVE StillSaving
    BY DEF StillSaving
  <2>1. saving \in Slot /\ levels[saving].level \in Level /\ dirty_save[levels[saving].level]
    BY SavedLevel DEF AdminHeld, SavingInv
  <2>2. levels'[saving] = levels[saving]
    BY <1>1, <2>1 DEF Unload, AdminHeld, AdminTypeOK
  <2>3. mem'[levels[saving].level] = mem[levels[saving].level]
    BY <2>1 DEF Unload, AdminHeld, AdminTypeOK
  <2> QED BY <1>1, <2>2, <2>3 DEF StillSaving
<1> QED BY <1>1, <1>2, <1>3, NoOther DEF AdminHeld

\* cmd_newlvl and cmd_unload write no such file.
LEMMA OthersTmp ==
  ASSUME AdminHeld, TmpInv, NEW l \in Level, Newlvl(l) \/ UnloadCmd(l)
  PROVE  SavingInv' /\ TmpInv'
<1>1. UNCHANGED <<tmp, saving, mem, dirty_save>> /\ (raced => raced') /\ NoMoreCopies
  <2>1. CASE Newlvl(l)
    BY <2>1 DEF Newlvl, writing, memory, NoMoreCopies
  <2>2. CASE UnloadCmd(l)
    BY <2>2 DEF UnloadCmd, writing, memory, history, NoMoreCopies
  <2> QED BY <2>1, <2>2
<1>2. StillSaving
  <2>1. saving # Nowhere => /\ levels'[saving].level = levels[saving].level
                            /\ levels'[saving].museum = levels[saving].museum
    <3>1. CASE Newlvl(l)
      BY <3>1 DEF Newlvl, table
    <3>2. CASE UnloadCmd(l)
      <4> DEFINE i == Min(Entries(l))
      <4>1. levels' = [levels EXCEPT ![i] = [levels[i] EXCEPT !.force_unload = 1]]
        BY <3>2 DEF UnloadCmd
      <4> HIDE DEF i
      <4> QED BY <4>1, SavedLevel DEF AdminHeld, AdminTypeOK, Entry_t
    <3> QED BY <3>1, <3>2
  <2> QED BY <1>1, <2>1 DEF StillSaving
<1> QED BY <1>1, <1>2, NoOther DEF AdminHeld

----------------------------------------------------------------------------
(* The invariant *)

\* The invariant holds of a server that starts with some of its levels there, and none loaded.
LEMMA AdminInitHolds == AdminConstants /\ AdminInit => AdminIInv
<1> SUFFICES ASSUME AdminConstants, AdminInit PROVE AdminIInv
  OBVIOUS
<1>1. cw \in [Level -> Nat]
  BY DEF AdminInit, None
<1>2. levels \in [Slot -> Entry_t]
  BY FreeIsEntry DEF AdminInit
<1>3. loader \in [Client -> Loader_t]
  BY DEF AdminInit, NoLoader, LoaderOf, Loader_t
<1>4. processor \in [Client -> Processor_t]
  BY NoProcessorType DEF AdminInit
<1>5. AdminTypeOK
  <2>1. mem \in [Level -> Nat] /\ want \in [Level -> Nat] /\ dirty_save \in [Level -> BOOLEAN]
    BY <1>1 DEF AdminInit, None
  <2>2. deleted \in [Level -> SUBSET Nat] /\ backups \in [Level -> SUBSET Nat]
    <3>1. {3} \subseteq Nat
      OBVIOUS
    <3> QED BY <3>1 DEF AdminInit
  <2>3. /\ on_level \in [Client -> Slot \cup {Nowhere}]
        /\ summon_level_id \in [Client -> Slot \cup {Nowhere}]
    BY DEF AdminInit
  <2>4. made \in Nat /\ acts \in 0 .. MaxActs
    <3>1. made = 3 /\ acts = 0 /\ MaxActs \in Nat
      BY DEF AdminInit, AdminConstants
    <3> QED BY <3>1
  <2>5. raced \in BOOLEAN /\ tmp \in [Level -> Nat] /\ saving \in Slot \cup {Nowhere}
    BY DEF AdminInit, None
  <2> QED BY <1>1, <1>2, <1>3, <1>4, <2>1, <2>2, <2>3, <2>4, <2>5 DEF AdminTypeOK
<1>6. ProcessorInv
  BY DEF AdminInit, ProcessorInv, NoProcessor
<1>7. SavedInv /\ SavingInv /\ TmpInv
  BY DEF AdminInit, SavedInv, SavingInv, TmpInv, Copying, NoProcessor
<1>8. AsOrdered
  BY DEF AdminInit, AsOrdered, Current
<1> QED BY <1>5, <1>6, <1>7, <1>8 DEF AdminIInv

\* What a client, or a loader for it, does keeps the types.
LEMMA ClientTypes ==
  ASSUME AdminHeld, NEW c \in Client,
         \/ \E l \in Level, museum \in BOOLEAN : Goto(c, l, museum)
         \/ Load(c) \/ Summon(c) \/ CheckUserSummon(c) \/ Leave(c) \/ Edit(c)
  PROVE  AdminTypeOK' /\ ProcessorInv'
BY GotoType, LoadType, SummonType, CheckUserSummonType, LeaveType, EditType

\* What a client, or a loader for it, does leaves the levels as ordered.
LEMMA ClientSteps ==
  ASSUME AdminHeld, SavedInv, AsOrdered, NEW c \in Client,
         \/ \E l \in Level, museum \in BOOLEAN : Goto(c, l, museum)
         \/ Load(c) \/ Summon(c) \/ CheckUserSummon(c) \/ Leave(c) \/ Edit(c)
  PROVE  SavedInv' /\ AsOrdered'
<1>1. CASE Summon(c)
  BY <1>1, SameData DEF Summon, history
<1>2. CASE Leave(c)
  BY <1>2, SameData DEF Leave, history
<1> QED BY <1>1, <1>2, GotoStep, LoadStep, CheckUserSummonStep, EditStep

\* The beginning of each command keeps the types.
LEMMA CommandTypes ==
  ASSUME AdminHeld, NEW c \in Client,
         \/ \E l \in Level : Command(c, "delete", l, l) \/ Command(c, "restore", l, l)
         \/ \E l, t \in Level : l # t /\ (Command(c, "rename", l, t) \/ Command(c, "copy", l, t))
  PROVE  AdminTypeOK' /\ ProcessorInv'
<1>1. {"delete", "restore", "rename", "copy"} \subseteq Op
  BY DEF Op
<1> QED BY <1>1, CommandType

\* The beginning of a command changes no level.
LEMMA CommandSteps ==
  ASSUME AdminHeld, SavedInv, AsOrdered, NEW c \in Client, NEW op, NEW from, NEW to,
         Command(c, op, from, to)
  PROVE  SavedInv' /\ AsOrdered'
BY SameData DEF Command, history

\* What the process of a command does keeps the types.
LEMMA ProcessTypes ==
  ASSUME AdminHeld, NEW c \in Client,
         \/ ForceAway(c) \/ Wait(c) \/ Delete(c) \/ Rename(c) \/ Read(c) \/ Restore(c)
         \/ CopyPut(c) \/ CopyFails(c) \/ Undo(c) \/ NoSource(c) \/ Refused(c)
         \/ ReturnOpen(c) \/ ReturnRegister(c)
  PROVE  AdminTypeOK' /\ ProcessorInv'
BY ForceAwayType, WaitType, DeleteType, RenameType, ReadType, RestoreType, CopyPutType,
   CopyFailsType, UndoType, NoSourceType, RefusedType, ReturnOpenType, ReturnRegisterType

\* What the process of a command does leaves the levels as ordered.
LEMMA ProcessSteps ==
  ASSUME AdminHeld, SavedInv, TmpInv, AsOrdered, NEW c \in Client,
         \/ ForceAway(c) \/ Wait(c) \/ Delete(c) \/ Rename(c) \/ Read(c) \/ Restore(c)
         \/ CopyPut(c) \/ CopyFails(c) \/ Undo(c) \/ NoSource(c) \/ Refused(c)
         \/ ReturnOpen(c) \/ ReturnRegister(c)
  PROVE  SavedInv' /\ AsOrdered'
<1>1. CASE ForceAway(c)
  BY <1>1, SameData DEF ForceAway, history
<1>2. CASE Wait(c)
  BY <1>2, SameData DEF Wait, history
<1>3. CASE Refused(c) \/ Undo(c)
  <2>1. Refused(c) => Fail(c) /\ raced' = raced
    BY DEF Refused
  <2>2. Undo(c) => Fail(c) /\ (raced => raced')
    BY DEF Undo
  <2> QED BY <1>3, <2>1, <2>2, SameData DEF Fail
<1>4. CASE ReturnRegister(c)
  BY <1>4, SameData DEF ReturnRegister, history
<1>5. CASE NoSource(c)
  BY <1>5, SameData DEF NoSource, history
<1> QED BY <1>1, <1>2, <1>3, <1>4, <1>5, DeleteStep, RenameStep, CopyStep, CopyPutStep,
           CopyFailsStep, ReturnOpenStep

\* What the saver, cmd_newlvl and cmd_unload do keeps the types.
LEMMA SaverTypes ==
  ASSUME AdminHeld,
         \/ \E i \in Slot : SaveOpen(i) \/ Unload(i)
         \/ \E bkp \in BOOLEAN : SavePut(bkp)
         \/ \E l \in Level : Newlvl(l) \/ UnloadCmd(l)
  PROVE  AdminTypeOK' /\ ProcessorInv'
BY UnloadType, SaveOpenType, SavePutType, NewlvlType, UnloadCmdType

\* What the saver, cmd_newlvl and cmd_unload do leaves the levels as ordered.
LEMMA SaverSteps ==
  ASSUME AdminHeld, SavedInv, TmpInv, AsOrdered,
         \/ \E i \in Slot : SaveOpen(i) \/ Unload(i)
         \/ \E bkp \in BOOLEAN : SavePut(bkp)
         \/ \E l \in Level : Newlvl(l) \/ UnloadCmd(l)
  PROVE  SavedInv' /\ AsOrdered'
<1>1. ASSUME NEW l \in Level, UnloadCmd(l) PROVE SavedInv' /\ AsOrdered'
  BY <1>1, SameData DEF UnloadCmd, history
<1>2. ASSUME NEW i \in Slot, SaveOpen(i) PROVE SavedInv' /\ AsOrdered'
  BY <1>2, SameData DEF SaveOpen, WriteTmp
<1> QED BY <1>1, <1>2, UnloadStep, SavePutStep, NewlvlStep

\* The saver, cmd_newlvl and cmd_unload leave who writes a file alone with it.
LEMMA SaverTmp ==
  ASSUME AdminHeld, SavedInv, TmpInv,
         \/ \E i \in Slot : SaveOpen(i) \/ Unload(i)
         \/ \E bkp \in BOOLEAN : SavePut(bkp)
         \/ \E l \in Level : Newlvl(l) \/ UnloadCmd(l)
  PROVE  SavingInv' /\ TmpInv'
BY SaveOpenTmp, UnloadTmp, SavePutTmp, OthersTmp

\* The invariant is inductive: no step of a client, a loader, the saver or a process breaks it.
LEMMA AdminStepHolds == AdminConstants /\ AdminIInv /\ [AdminNext]_adminVars => AdminIInv'
<1> SUFFICES ASSUME AdminConstants, AdminIInv, [AdminNext]_adminVars PROVE AdminIInv'
  OBVIOUS
<1>1. AdminHeld /\ SavedInv /\ TmpInv /\ AsOrdered
  BY DEF AdminIInv, AdminHeld
<1>2. CASE UNCHANGED adminVars
  <2>1. AdminTypeOK'
    BY <1>1, <1>2 DEF adminVars, writing, memory, table, history, AdminHeld, AdminTypeOK
  <2>2. ProcessorInv'
    BY <1>1, <1>2 DEF adminVars, AdminHeld, ProcessorInv
  <2>3. SavedInv' /\ AsOrdered'
    BY <1>1, <1>2, SameData DEF adminVars, history
  <2>4. SavingInv' /\ TmpInv'
    BY <1>1, <1>2, NoOther DEF adminVars, writing, memory, table, history, AdminHeld, StillSaving, NoMoreCopies
  <2> QED BY <2>1, <2>2, <2>3, <2>4 DEF AdminIInv
<1>3. CASE AdminNext
  <2>1. AdminTypeOK' /\ ProcessorInv'
    BY <1>1, <1>3, ClientTypes, CommandTypes, ProcessTypes, SaverTypes DEF AdminNext
  <2>2. SavedInv' /\ AsOrdered'
    BY <1>1, <1>3, ClientSteps, CommandSteps, ProcessSteps, SaverSteps DEF AdminNext
  <2>3. SavingInv' /\ TmpInv'
    BY <1>1, <1>3, ClientTmp, CommandTmp, ProcessTmp, SaverTmp DEF AdminNext
  <2> QED BY <2>1, <2>2, <2>3 DEF AdminIInv
<1> QED BY <1>2, <1>3

\* The invariant holds in every state of the commands on levels, for every set of levels and
\* clients and a table of any size.
THEOREM AdminInvariant == ASSUME AdminConstants PROVE AdminSpec => []AdminIInv
<1>1. AdminInit => AdminIInv
  BY AdminInitHolds
<1>2. AdminIInv /\ [AdminNext]_adminVars => AdminIInv'
  BY AdminStepHolds
<1> QED BY <1>1, <1>2, PTL DEF AdminSpec

\* Every variable stays of its type: no entry, summons or client points outside of the table.
THEOREM AdminTypes == ASSUME AdminConstants PROVE AdminSpec => []AdminTypeOK
<1>1. AdminIInv => AdminTypeOK
  BY DEF AdminIInv
<1> QED BY <1>1, AdminInvariant, PTL

\* What is in a level is what the last command or edit put there, and what a deleted level was
\* is among its backups, for every set of levels and clients and a table of any size: the
\* commands of cmddeletelvl.c, cmdrenamelvl.c, cmdcopylvl.c and cmdrestorelvl.c, the loaders and
\* the saver never undo each other except as AsOrdered says.
THEOREM LevelsAreAsOrdered == ASSUME AdminConstants PROVE AdminSpec => []AsOrdered
<1>1. AdminIInv => AsOrdered
  BY DEF AdminIInv
<1> QED BY <1>1, AdminInvariant, PTL
=============================================================================
