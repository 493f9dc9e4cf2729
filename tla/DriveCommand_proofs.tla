------------------------- MODULE DriveCommand_proofs -------------------------
(***************************************************************************)
(* Proofs about DriveCommand and WheelKinematics, for every set of twists, *)
(* every timeout and every gain.                                           *)
(***************************************************************************)
EXTENDS DriveCommand, TLAPS

(* What _compute_chassis_feedback_locked makes of the wheel speeds of a     *)
(* twist, up to the factors the code divides by: the rotation and the       *)
(* forward speed come back, the lateral speed is 0 for every twist.         *)
THEOREM FeedbackLosesLateralSpeed ==
  ASSUME NEW c \in TwistType
  PROVE  ForwardKinematics(InverseKinematics(c)) = Twist(4 * c.vx, 0, 4 * c.wz)
<1>1. c.vx \in Int /\ c.vy \in Int /\ c.wz \in Int
  BY DEF TwistType
<1>2. /\ InverseKinematics(c)["lf"] = c.vx - c.vy - c.wz
      /\ InverseKinematics(c)["lr"] = c.vx + c.vy - c.wz
      /\ InverseKinematics(c)["rf"] = -c.vx + c.vy - c.wz
      /\ InverseKinematics(c)["rr"] = -c.vx - c.vy - c.wz
  BY DEF InverseKinematics, WHEEL_NAMES
<1>. DEFINE s == InverseKinematics(c)
<1>3. s["lf"] + s["lr"] - s["rf"] - s["rr"] = 4 * c.vx
  BY <1>1, <1>2
<1>4. s["lr"] - s["lf"] - s["rf"] + s["rr"] = 0
  BY <1>1, <1>2
<1>5. -(s["lf"] + s["lr"] + s["rf"] + s["rr"]) = 4 * c.wz
  BY <1>1, <1>2
<1>. HIDE DEF s
<1>6. ForwardKinematics(s) = Twist(4 * c.vx, 0, 4 * c.wz)
  BY <1>3, <1>4, <1>5 DEF ForwardKinematics
<1>. QED BY <1>6 DEF s

-----------------------------------------------------------------------------
\* What a quotient by a positive divisor leaves.
LEMMA Division ==
  ASSUME NEW a \in Int, NEW b \in Nat, b > 0
  PROVE  /\ a \div b \in Int
         /\ b * (a \div b) <= a /\ a < b * (a \div b) + b
OBVIOUS

\* The rounded quotient is off by half a unit at most.
LEMMA Rounding ==
  ASSUME NEW a \in Int, NEW b \in Nat, b > 0
  PROVE  /\ RoundedQuotient(a, b) \in Int
         /\ 2 * (b * RoundedQuotient(a, b) - a) <= b
         /\ 2 * (a - b * RoundedQuotient(a, b)) <= b
<1>. DEFINE q == a \div b
            r == a - q * b
            x == b * q
<1>1. q \in Int /\ x \in Int /\ x <= a /\ a < x + b /\ r = a - x
  BY Division
<1>2. b * (q + 1) = x + b
  BY <1>1
<1>3. RoundedQuotient(a, b) = IF 2 * r < b \/ (2 * r = b /\ q % 2 = 0) THEN q ELSE q + 1
  BY DEF RoundedQuotient
<1>. HIDE DEF q, r
<1>4. CASE 2 * r < b \/ (2 * r = b /\ q % 2 = 0)
  <2>1. RoundedQuotient(a, b) = q
    BY <1>3, <1>4
  <2>2. r \in Int /\ 2 * r <= b /\ 0 <= r
    BY <1>1, <1>4
  <2>3. b * RoundedQuotient(a, b) = x
    BY <2>1
  <2>. HIDE DEF x
  <2>. QED BY <1>1, <2>1, <2>2, <2>3
<1>5. CASE ~(2 * r < b \/ (2 * r = b /\ q % 2 = 0))
  <2>1. RoundedQuotient(a, b) = q + 1
    BY <1>3, <1>5
  <2>2. r \in Int /\ 2 * r >= b /\ r < b
    BY <1>1, <1>5
  <2>3. b * RoundedQuotient(a, b) = x + b
    BY <1>2, <2>1
  <2>. HIDE DEF x
  <2>. QED BY <1>1, <2>1, <2>2, <2>3
<1>. QED BY <1>4, <1>5

\* Products keep an order, and what is between 0 and the factor decides about 0.
LEMMA Scaling ==
  ASSUME NEW b \in Nat, b > 0, NEW x \in Int, NEW y \in Int
  PROVE  b * x <= b * y <=> x <= y
<1>1. ASSUME x < y PROVE b * x < b * y
  <2>1. b * (y - x) > 0 /\ b * (y - x) = b * y - b * x
    BY <1>1
  <2>2. b * x \in Int /\ b * y \in Int
    OBVIOUS
  <2>. QED BY <2>1, <2>2
<1>2. ASSUME y < x PROVE b * y < b * x
  <2>1. b * (x - y) > 0 /\ b * (x - y) = b * x - b * y
    BY <1>2
  <2>2. b * x \in Int /\ b * y \in Int
    OBVIOUS
  <2>. QED BY <2>1, <2>2
<1>3. b * x \in Int /\ b * y \in Int
  OBVIOUS
<1>. QED BY <1>1, <1>2, <1>3

\* A product with what lies in -p..p lies in -p * m..p * m.
LEMMA Bounded ==
  ASSUME NEW p \in Nat, NEW m \in Nat, NEW a \in Int, -p <= a, a <= p
  PROVE  a * m <= p * m /\ -(p * m) <= a * m /\ a * m \in Int /\ p * m \in Nat
<1>1. (p - a) * m >= 0 /\ (p + a) * m >= 0
  BY p - a \in Nat, p + a \in Nat
<1>2. (p - a) * m = p * m - a * m /\ (p + a) * m = p * m + a * m
  OBVIOUS
<1>3. a * m \in Int /\ p * m \in Nat
  OBVIOUS
<1>. QED BY <1>1, <1>2, <1>3

\* A wheel of a twist above the limit: scaled by limit m over peak p.
LEMMA ScaledWheel ==
  ASSUME NEW p \in Nat, NEW m \in Nat, m > 0, p > 0, NEW a \in Int, -p <= a, a <= p
  PROVE  LET r == RoundedQuotient(a * m, p)
         IN  /\ r \in (-m)..m
             /\ a >= 0 => r >= 0
             /\ a <= 0 => r <= 0
             /\ a = p \/ a = -p => r # 0
             /\ 2 * (p * r - a * m) <= p /\ 2 * (a * m - p * r) <= p
<1>. DEFINE r == RoundedQuotient(a * m, p)
            x == a * m
            y == p * m
            z == p * r
<1>1. x \in Int /\ y \in Nat /\ x <= y /\ -y <= x
  BY Bounded
<1>2. r \in Int /\ 2 * (z - x) <= p /\ 2 * (x - z) <= p
  <2>. HIDE DEF x
  <2>. QED BY <1>1, Rounding DEF x
<1>. HIDE DEF r
<1>3. z \in Int
  BY <1>2
<1>4. ASSUME NEW k \in Int, r > k PROVE z >= p * k + p
  <2>1. p * (k + 1) <= p * r
    BY <1>2, <1>4, Scaling
  <2>2. p * (k + 1) = p * k + p
    OBVIOUS
  <2>. QED BY <2>1, <2>2
<1>5. ASSUME NEW k \in Int, r < k PROVE z <= p * k - p
  <2>1. p * r <= p * (k - 1)
    BY <1>2, <1>5, Scaling
  <2>2. p * (k - 1) = p * k - p
    OBVIOUS
  <2>. QED BY <2>1, <2>2
<1>6. r <= m
  <2>. SUFFICES ASSUME r > m PROVE FALSE
    BY <1>2
  <2>1. z >= y + p
    BY <1>4
  <2>. HIDE DEF x, y, z
  <2>. QED BY <2>1, <1>1, <1>2, <1>3
<1>7. r >= -m
  <2>. SUFFICES ASSUME r < -m PROVE FALSE
    BY <1>2
  <2>1. z <= p * (-m) - p /\ p * (-m) = -y
    BY <1>5
  <2>2. z <= -y - p
    BY <2>1
  <2>. HIDE DEF x, y, z
  <2>. QED BY <2>2, <1>1, <1>2, <1>3
<1>8. ASSUME a >= 0 PROVE r >= 0
  <2>. SUFFICES ASSUME r < 0 PROVE FALSE
    BY <1>2
  <2>1. z <= -p
    <3>1. z <= p * 0 - p
      BY <1>5
    <3>. QED BY <3>1
  <2>2. x >= 0
    BY <1>8
  <2>. HIDE DEF x, y, z
  <2>. QED BY <2>1, <2>2, <1>1, <1>2, <1>3
<1>9. ASSUME a <= 0 PROVE r <= 0
  <2>. SUFFICES ASSUME r > 0 PROVE FALSE
    BY <1>2
  <2>1. z >= p
    <3>1. z >= p * 0 + p
      BY <1>4
    <3>. QED BY <3>1
  <2>2. x <= 0
    <3>1. -a \in Nat
      BY <1>9
    <3>2. (-a) * m >= 0 /\ (-a) * m = -(a * m)
      BY <3>1
    <3>. QED BY <3>2, <1>1
  <2>. HIDE DEF x, y, z
  <2>. QED BY <2>1, <2>2, <1>1, <1>2, <1>3
<1>10. ASSUME a = p \/ a = -p PROVE r # 0
  <2>. SUFFICES ASSUME r = 0 PROVE FALSE
    OBVIOUS
  <2>1. z = 0 /\ (x = y \/ x = -y)
    BY <1>10
  <2>2. y >= p
    <3>1. p * 1 <= p * m
      BY Scaling
    <3>. QED BY <3>1
  <2>. HIDE DEF x, y, z
  <2>. QED BY <2>1, <2>2, <1>1, <1>2
<1>11. r \in (-m)..m
  BY <1>2, <1>6, <1>7
<1>. QED BY <1>2, <1>8, <1>9, <1>10, <1>11 DEF r

\* Two wheels that are each off by half a unit keep their proportion that far.
LEMMA Proportion ==
  ASSUME NEW p \in Nat, p > 0, NEW m \in Nat,
         NEW a \in Int, NEW b \in Int, NEW r \in Int, NEW s \in Int,
         2 * (p * r - a * m) <= p, 2 * (a * m - p * r) <= p,
         2 * (p * s - b * m) <= p, 2 * (b * m - p * s) <= p
  PROVE  2 * Abs(r * b - s * a) <= Abs(a) + Abs(b)
<1>. DEFINE d == 2 * (p * r - a * m)
            e == 2 * (p * s - b * m)
            n == Abs(a) + Abs(b)
            x == r * b - s * a
<1>1. d \in Int /\ e \in Int /\ -p <= d /\ d <= p /\ -p <= e /\ e <= p
  <2>1. a * m \in Int /\ b * m \in Int /\ p * r \in Int /\ p * s \in Int
    OBVIOUS
  <2>. QED BY <2>1
<1>2. p * (2 * x) = d * b - e * a
  <2>1. d * b = 2 * (p * r) * b - 2 * (a * m) * b
    OBVIOUS
  <2>2. e * a = 2 * (p * s) * a - 2 * (b * m) * a
    OBVIOUS
  <2>3. 2 * (a * m) * b = 2 * (b * m) * a
    OBVIOUS
  <2>4. p * (2 * x) = 2 * (p * r) * b - 2 * (p * s) * a
    OBVIOUS
  <2>. QED BY <2>1, <2>2, <2>3, <2>4
<1>. HIDE DEF d, e
<1>3. ASSUME NEW c \in Int, NEW f \in Int, -p <= f, f <= p
      PROVE  f * c <= p * Abs(c) /\ -(p * Abs(c)) <= f * c /\ f * c \in Int /\ p * Abs(c) \in Nat
  <2>1. CASE c >= 0
    BY <1>3, <2>1, Bounded DEF Abs
  <2>2. CASE c < 0
    <3>1. -c \in Nat /\ Abs(c) = -c
      BY <2>2 DEF Abs
    <3>2. f * (-c) <= p * (-c) /\ -(p * (-c)) <= f * (-c) /\ f * (-c) \in Int /\ p * (-c) \in Nat
      BY <1>3, <3>1, Bounded
    <3>3. f * (-c) = -(f * c) /\ f * c \in Int
      BY <1>3
    <3>. QED BY <3>1, <3>2, <3>3
  <2>. QED BY <2>1, <2>2
<1>4. Abs(a) \in Nat /\ Abs(b) \in Nat
  BY DEF Abs
<1>5. p * n = p * Abs(a) + p * Abs(b) /\ n \in Nat
  BY <1>4
<1>6. p * (2 * x) <= p * n /\ p * (-n) <= p * (2 * x)
  <2>1. d * b <= p * Abs(b) /\ -(p * Abs(b)) <= d * b /\ d * b \in Int /\ p * Abs(b) \in Nat
    BY <1>1, <1>3
  <2>2. e * a <= p * Abs(a) /\ -(p * Abs(a)) <= e * a /\ e * a \in Int /\ p * Abs(a) \in Nat
    BY <1>1, <1>3
  <2>3. p * (-n) = -(p * n)
    BY <1>5
  <2>. HIDE DEF n, x
  <2>. QED BY <1>2, <1>5, <2>1, <2>2, <2>3
<1>7. x \in Int /\ 2 * x \in Int /\ -n \in Int
  BY <1>5
<1>8. 2 * x <= n /\ -n <= 2 * x
  <2>. HIDE DEF n, x
  <2>. QED BY <1>5, <1>6, <1>7, Scaling
<1>. HIDE DEF n, x
<1>9. 2 * Abs(x) <= n
  BY <1>5, <1>7, <1>8 DEF Abs
<1>. QED BY <1>9 DEF n, x

\* A wheel command survives its byte.
LEMMA ByteRoundTrip == ASSUME NEW x \in -127..127 PROVE Int8(Byte(x)) = x
<1>1. CASE x >= 0
  <2>1. x % 256 = x
    BY <1>1
  <2>. QED BY <1>1, <2>1 DEF Int8, Byte
<1>2. CASE x < 0
  <2>1. x % 256 = x + 256
    BY <1>2
  <2>. QED BY <1>2, <2>1 DEF Int8, Byte
<1>. QED BY <1>1, <1>2

\* The greatest of four wheel speeds is one of them.
LEMMA Peak ==
  ASSUME NEW s \in [WHEEL_NAMES -> Int]
  PROVE  LET peak == Max({Abs(s[w]) : w \in WHEEL_NAMES})
         IN  /\ peak \in Nat
             /\ \A w \in WHEEL_NAMES : -peak <= s[w] /\ s[w] <= peak
             /\ \E w \in WHEEL_NAMES : s[w] = peak \/ s[w] = -peak
<1>. DEFINE A == {Abs(s[w]) : w \in WHEEL_NAMES}
            peak == Max(A)
<1>1. \A w \in WHEEL_NAMES : Abs(s[w]) \in Nat
  BY DEF Abs
<1>2. \E x \in A : \A y \in A : x >= y
  <2>1. A = {Abs(s["lf"]), Abs(s["lr"]), Abs(s["rf"]), Abs(s["rr"])}
    BY DEF WHEEL_NAMES
  <2>2. /\ Abs(s["lf"]) \in Nat /\ Abs(s["lr"]) \in Nat
        /\ Abs(s["rf"]) \in Nat /\ Abs(s["rr"]) \in Nat
    BY <1>1 DEF WHEEL_NAMES
  <2>3. ASSUME NEW a \in Nat, NEW b \in Nat, NEW c \in Nat, NEW d \in Nat
        PROVE  \E x \in {a, b, c, d} : \A y \in {a, b, c, d} : x >= y
    <3>1. PICK e \in {a, b} : e >= a /\ e >= b
      <4>1. CASE a >= b BY <4>1
      <4>2. CASE b >= a BY <4>2
      <4>. QED BY <4>1, <4>2
    <3>2. PICK f \in {c, d} : f >= c /\ f >= d
      <4>1. CASE c >= d BY <4>1
      <4>2. CASE d >= c BY <4>2
      <4>. QED BY <4>1, <4>2
    <3>3. CASE e >= f
      BY <3>1, <3>2, <3>3
    <3>4. CASE f >= e
      BY <3>1, <3>2, <3>4
    <3>. QED BY <3>1, <3>2, <3>3, <3>4
  <2>. HIDE DEF A
  <2>. QED BY <2>1, <2>2, <2>3
<1>3. peak \in A /\ \A y \in A : peak >= y
  <2>. HIDE DEF A
  <2>. QED BY <1>2 DEF Max
<1>4. PICK w \in WHEEL_NAMES : peak = Abs(s[w])
  BY <1>3
<1>5. \A v \in WHEEL_NAMES : peak >= Abs(s[v])
  BY <1>3
<1>. HIDE DEF peak
<1>6. s[w] = peak \/ s[w] = -peak
  BY <1>4 DEF Abs
<1>7. \A v \in WHEEL_NAMES : -peak <= s[v] /\ s[v] <= peak
  BY <1>1, <1>4, <1>5 DEF Abs
<1>. QED BY <1>1, <1>4, <1>6, <1>7 DEF peak

\* The wheels stand still for no motion and for nothing else.
LEMMA Standstill ==
  ASSUME NEW c \in TwistType
  PROVE  /\ InverseKinematics(c) \in [WHEEL_NAMES -> Int]
         /\ (\A w \in WHEEL_NAMES : InverseKinematics(c)[w] = 0) <=> c = Zero
<1>1. c.vx \in Int /\ c.vy \in Int /\ c.wz \in Int /\ c = Twist(c.vx, c.vy, c.wz)
  BY DEF TwistType, Twist
<1>2. /\ InverseKinematics(c)["lf"] = c.vx - c.vy - c.wz
      /\ InverseKinematics(c)["lr"] = c.vx + c.vy - c.wz
      /\ InverseKinematics(c)["rf"] = -c.vx + c.vy - c.wz
      /\ InverseKinematics(c)["rr"] = -c.vx - c.vy - c.wz
  BY DEF InverseKinematics, WHEEL_NAMES
<1>3. \A w \in WHEEL_NAMES : InverseKinematics(c)[w] \in Int
  BY <1>1, <1>2 DEF WHEEL_NAMES
<1>4. InverseKinematics(c) \in [WHEEL_NAMES -> Int]
  <2>. DEFINE f(w) == CASE w = "lf" ->  c.vx - c.vy - c.wz
                        [] w = "lr" ->  c.vx + c.vy - c.wz
                        [] w = "rf" -> -c.vx + c.vy - c.wz
                        [] w = "rr" -> -c.vx - c.vy - c.wz
  <2>1. InverseKinematics(c) = [w \in WHEEL_NAMES |-> f(w)]
    BY DEF InverseKinematics
  <2>2. \A w \in WHEEL_NAMES : f(w) \in Int
    BY <1>1 DEF WHEEL_NAMES
  <2>. HIDE DEF f
  <2>. QED BY <2>1, <2>2
<1>5. ASSUME \A w \in WHEEL_NAMES : InverseKinematics(c)[w] = 0 PROVE c = Zero
  <2>. DEFINE x == c.vx
              y == c.vy
              z == c.wz
  <2>2. x - y - z = 0 /\ x + y - z = 0 /\ -x + y - z = 0
    BY <1>2, <1>5 DEF WHEEL_NAMES
  <2>3. x \in Int /\ y \in Int /\ z \in Int
    BY <1>1
  <2>1. x = 0 /\ y = 0 /\ z = 0
    <3>. HIDE DEF x, y, z
    <3>. QED BY <2>2, <2>3
  <2>. QED BY <1>1, <2>1 DEF Zero
<1>6. ASSUME c = Zero PROVE \A w \in WHEEL_NAMES : InverseKinematics(c)[w] = 0
  <2>1. c.vx = 0 /\ c.vy = 0 /\ c.wz = 0
    BY <1>6 DEF Zero, Twist
  <2>. QED BY <1>2, <2>1 DEF WHEEL_NAMES
<1>. QED BY <1>4, <1>5, <1>6

\* A product with something of the same sign is not negative.
LEMMA SameSign ==
  ASSUME NEW r \in Int, NEW a \in Int, a >= 0 => r >= 0, a <= 0 => r <= 0
  PROVE  r * a >= 0
<1>1. CASE a >= 0
  BY <1>1
<1>2. CASE a < 0
  <2>1. -r \in Nat /\ -a \in Nat
    BY <1>2
  <2>2. (-r) * (-a) >= 0 /\ (-r) * (-a) = r * a
    BY <2>1
  <2>. QED BY <2>2
<1>. QED BY <1>1, <1>2

\* The speeds a wheel obeys: the twist's own up to the limit, scaled by the peak above it.
LEMMA SentSpeed ==
  ASSUME NEW c \in TwistType, NEW w \in WHEEL_NAMES
  PROVE  LET s    == InverseKinematics(c)
             peak == Max({Abs(s[v]) : v \in WHEEL_NAMES})
         IN  /\ peak <= MaxMotorSpeedCmd => WheelSpeeds(c)[w] = s[w]
             /\ peak > MaxMotorSpeedCmd =>
                  WheelSpeeds(c)[w] = RoundedQuotient(s[w] * MaxMotorSpeedCmd, peak)
<1>. DEFINE s    == InverseKinematics(c)
            peak == Max({Abs(s[v]) : v \in WHEEL_NAMES})
            m    == MaxMotorSpeedCmd
            r    == RoundedQuotient(s[w] * m, peak)
            e    == IF peak > m THEN r ELSE s[w]
<1>1. s \in [WHEEL_NAMES -> Int] /\ s[w] \in Int
  BY Standstill
<1>2. peak \in Nat /\ -peak <= s[w] /\ s[w] <= peak
  <2>. HIDE DEF s
  <2>. QED BY <1>1, Peak
<1>3. m \in Nat /\ m > 0 /\ m <= 127
  BY MotorAssumption
<1>4. WheelSpeeds(c)[w] = Int8(Byte(Clamp(e, -m, m)))
  BY DEF WheelSpeeds, ScaleWheelCommands
<1>. HIDE DEF s, peak
<1>5. e \in Int /\ -m <= e /\ e <= m
  <2>1. CASE peak > m
    <3>1. r \in (-m)..m
      <4>. HIDE DEF m, r
      <4>1. s[w] \in Int /\ -peak <= s[w] /\ s[w] <= peak /\ peak > 0
        BY <1>1, <1>2, <1>3, <2>1
      <4>. QED BY <1>2, <1>3, <4>1, ScaledWheel DEF r
    <3>. HIDE DEF r, m
    <3>. QED BY <1>3, <2>1, <3>1
  <2>2. CASE ~(peak > m)
    <3>. HIDE DEF r, m
    <3>. QED BY <1>1, <1>2, <1>3, <2>2
  <2>. QED BY <2>1, <2>2
<1>. HIDE DEF r, m
<1>6. Clamp(e, -m, m) = e /\ e \in -127..127
  <2>. HIDE DEF e
  <2>. QED BY <1>3, <1>5 DEF Clamp
<1>7. WheelSpeeds(c)[w] = e
  <2>. HIDE DEF e
  <2>. QED BY <1>4, <1>6, ByteRoundTrip
<1>. QED BY <1>2, <1>3, <1>7 DEF s, peak, m, r

\* Every twist is followed by the wheels: WheelsFollowTwist of a twist c.
LEMMA TwistIsFollowed ==
  ASSUME NEW c \in TwistType
  PROVE  LET speed == InverseKinematics(c)
             sent  == WheelSpeeds(c)
         IN  /\ \A w \in WHEEL_NAMES :
                  /\ Abs(sent[w]) <= MaxMotorSpeedCmd
                  /\ sent[w] * speed[w] >= 0
                  /\ \A v \in WHEEL_NAMES :
                       2 * Abs(sent[v] * speed[w] - sent[w] * speed[v])
                         <= Abs(speed[v]) + Abs(speed[w])
             /\ (\A w \in WHEEL_NAMES : sent[w] = 0) <=> c = Zero
<1>. DEFINE s    == InverseKinematics(c)
            sent == WheelSpeeds(c)
            peak == Max({Abs(s[v]) : v \in WHEEL_NAMES})
            m    == MaxMotorSpeedCmd
<1>1. /\ s \in [WHEEL_NAMES -> Int]
      /\ (\A w \in WHEEL_NAMES : s[w] = 0) <=> c = Zero
  BY Standstill
<1>2. /\ peak \in Nat
      /\ \A w \in WHEEL_NAMES : -peak <= s[w] /\ s[w] <= peak
      /\ \E w \in WHEEL_NAMES : s[w] = peak \/ s[w] = -peak
  <2>. HIDE DEF s
  <2>. QED BY <1>1, Peak
<1>3. m \in Nat /\ m > 0
  BY MotorAssumption
<1>4. CASE peak <= m
  <2>1. \A w \in WHEEL_NAMES : sent[w] = s[w]
    BY <1>4, SentSpeed
  <2>. HIDE DEF s, sent, peak, m
  <2>2. ASSUME NEW w \in WHEEL_NAMES, NEW v \in WHEEL_NAMES
        PROVE  /\ Abs(sent[w]) <= m /\ sent[w] * s[w] >= 0
               /\ 2 * Abs(sent[v] * s[w] - sent[w] * s[v]) <= Abs(s[v]) + Abs(s[w])
    <3>. DEFINE a == s[w]
                b == s[v]
    <3>1. a \in Int /\ b \in Int /\ sent[w] = a /\ sent[v] = b /\ -m <= a /\ a <= m
      BY <1>1, <1>2, <1>3, <1>4, <2>1
    <3>. HIDE DEF a, b
    <3>2. a * a >= 0
      BY <3>1, SameSign
    <3>3. b * a - a * b = 0
      BY <3>1
    <3>4. Abs(a) <= m /\ Abs(a) \in Nat /\ Abs(b) \in Nat /\ Abs(0) = 0
      BY <1>3, <3>1 DEF Abs
    <3>5. 2 * Abs(b * a - a * b) <= Abs(b) + Abs(a)
      BY <3>3, <3>4
    <3>. QED BY <3>1, <3>2, <3>4, <3>5 DEF a, b
  <2>3. (\A w \in WHEEL_NAMES : sent[w] = 0) <=> c = Zero
    BY <1>1, <2>1
  <2>. QED BY <2>2, <2>3 DEF s, sent, m
<1>5. CASE peak > m
  <2>1. \A w \in WHEEL_NAMES : sent[w] = RoundedQuotient(s[w] * m, peak)
    BY <1>5, SentSpeed
  <2>. HIDE DEF s, sent, peak, m
  <2>2. \A w \in WHEEL_NAMES :
          /\ s[w] \in Int /\ sent[w] \in (-m)..m
          /\ s[w] >= 0 => sent[w] >= 0
          /\ s[w] <= 0 => sent[w] <= 0
          /\ s[w] = peak \/ s[w] = -peak => sent[w] # 0
          /\ 2 * (peak * sent[w] - s[w] * m) <= peak /\ 2 * (s[w] * m - peak * sent[w]) <= peak
    <3>. TAKE w \in WHEEL_NAMES
    <3>1. s[w] \in Int /\ -peak <= s[w] /\ s[w] <= peak /\ peak > 0
      BY <1>1, <1>2, <1>3, <1>5
    <3>2. sent[w] = RoundedQuotient(s[w] * m, peak)
      BY <2>1
    <3>. QED BY <1>2, <1>3, <3>1, <3>2, ScaledWheel
  <2>3. ASSUME NEW w \in WHEEL_NAMES, NEW v \in WHEEL_NAMES
        PROVE  /\ Abs(sent[w]) <= m /\ sent[w] * s[w] >= 0
               /\ 2 * Abs(sent[v] * s[w] - sent[w] * s[v]) <= Abs(s[v]) + Abs(s[w])
    <3>1. sent[w] \in Int /\ sent[v] \in Int /\ s[w] \in Int /\ s[v] \in Int /\ peak > 0
      BY <1>2, <1>3, <1>5, <2>2
    <3>2. Abs(sent[w]) <= m
      BY <1>3, <2>2 DEF Abs
    <3>3. sent[w] * s[w] >= 0
      BY <2>2, <3>1, SameSign
    <3>4. 2 * Abs(sent[v] * s[w] - sent[w] * s[v]) <= Abs(s[v]) + Abs(s[w])
      BY <1>2, <1>3, <2>2, <3>1, Proportion
    <3>. QED BY <3>2, <3>3, <3>4
  <2>4. (\A w \in WHEEL_NAMES : sent[w] = 0) <=> c = Zero
    <3>1. ASSUME c = Zero PROVE \A w \in WHEEL_NAMES : sent[w] = 0
      <4>1. \A w \in WHEEL_NAMES : s[w] = 0
        BY <1>1, <3>1
      <4>. QED BY <1>3, <2>2, <4>1
    <3>2. ASSUME \A w \in WHEEL_NAMES : sent[w] = 0 PROVE FALSE
      BY <1>2, <2>2, <3>2
    <3>. QED BY <3>1, <3>2
  <2>. QED BY <2>3, <2>4 DEF s, sent, m
<1>. QED BY <1>2, <1>3, <1>4, <1>5

-----------------------------------------------------------------------------
\* What a command and a heading may have aged to by the age of the send timer: a
\* cycle looks at both ages, and the next cycle comes when sendAge = SendPeriod.
AgeInv ==
  /\ held => yawAge <= YawTimeout + sendAge
  /\ cmdAge > CommandTimeout + sendAge => out = Zero /\ yawLock = None

Inv == TypeOK /\ AgeInv /\ NoLockAcrossTurn

LEMMA ZeroType == Zero \in TwistType
BY DEF Zero, Twist, TwistType

LEMMA RequestedType == TypeOK => Requested \in TwistType
BY ZeroType, CmdVelAssumption DEF TypeOK, Requested

LEMMA NormalizeType == ASSUME NEW d \in Int PROVE NormalizeAngle(d) \in Int
<1>1. d % YawSteps \in Int
  BY YawAssumption
<1>. QED BY <1>1, YawAssumption DEF NormalizeAngle

LEMMA YawType == TypeOK /\ YawAvailable => currentYaw \in Yaw /\ HeldYaw \in Yaw
BY DEF TypeOK, YawAvailable, HeldYaw

LEMMA CorrectionType == TypeOK /\ YawAvailable => Correction \in Int
<1>. SUFFICES ASSUME TypeOK, YawAvailable PROVE Correction \in Int
  OBVIOUS
<1>1. HeldYaw \in Int /\ currentYaw \in Int
  BY YawType, YawAssumption DEF Yaw
<1>2. HeldYaw - currentYaw \in Int
  BY <1>1
<1>. DEFINE error == NormalizeAngle(HeldYaw - currentYaw)
<1>3. error \in Int
  BY <1>2, NormalizeType
<1>. HIDE DEF error
<1>4. -Kp * error \in Int
  BY <1>3, HoldAssumption
<1>. DEFINE raw == -Kp * error
<1>5. Correction = Clamp(raw, -MaxWz, MaxWz)
  BY DEF Correction, error
<1>6. raw \in Int
  BY <1>4
<1>. HIDE DEF raw
<1>. QED BY <1>5, <1>6, HoldAssumption DEF Clamp

-----------------------------------------------------------------------------
LEMMA InitInv == Init => Inv
<1>. SUFFICES ASSUME Init PROVE Inv
  OBVIOUS
<1>1. TypeOK
  <2>1. cmdAge \in 0..CmdCap /\ sendAge \in 0..SendPeriod /\ yawAge \in 0..YawCap
    BY TimeAssumption DEF Init, CmdCap, YawCap
  <2>2. active \in BOOLEAN /\ held \in BOOLEAN /\ turned \in BOOLEAN
    BY DEF Init
  <2>3. out \in TwistType /\ target \in CmdVel \cup {Zero}
    BY ZeroType DEF Init
  <2>4. currentYaw \in Yaw \cup {None} /\ yawLock \in Yaw \cup {None}
    BY DEF Init
  <2>. QED BY <2>1, <2>2, <2>3, <2>4 DEF TypeOK
<1>. QED BY <1>1, TimeAssumption DEF Init, Inv, AgeInv, NoLockAcrossTurn

LEMMA CmdVelInv == ASSUME NEW c \in CmdVel, Inv, CmdVelCallback(c) PROVE Inv'
<1>. USE TimeAssumption DEF Inv, TypeOK, CmdVelCallback, ResetHeadingHold
<1>1. turned' \in BOOLEAN /\ active' \in BOOLEAN /\ yawLock' \in Yaw \cup {None}
  BY DEF lock
<1>2. TypeOK'
  BY <1>1 DEF heading, CmdCap
<1>3. AgeInv'
  BY DEF AgeInv, heading
<1>4. NoLockAcrossTurn'
  BY DEF NoLockAcrossTurn, lock
<1>. QED BY <1>2, <1>3, <1>4

LEMMA OdomInv == ASSUME NEW yaw \in Yaw, Inv, OdomCallback(yaw) PROVE Inv'
BY TimeAssumption DEF Inv, TypeOK, OdomCallback, AgeInv, NoLockAcrossTurn, lock, history, YawCap

LEMMA TickInv == Inv /\ Tick => Inv'
<1>. SUFFICES ASSUME Inv, Tick PROVE Inv'
  OBVIOUS
<1>. USE TimeAssumption DEF Inv, TypeOK, Tick, Saturating, CmdCap, YawCap
<1>1. TypeOK'
  BY DEF lock, history
<1>2. AgeInv'
  BY DEF AgeInv, lock, history
<1>3. NoLockAcrossTurn'
  BY DEF NoLockAcrossTurn, lock, history
<1>. QED BY <1>1, <1>2, <1>3

LEMMA PassInv == Inv /\ SendCycle /\ PassThrough => Inv'
<1>. SUFFICES ASSUME Inv, SendCycle, PassThrough PROVE Inv'
  OBVIOUS
<1>. USE TimeAssumption DEF Inv, TypeOK
<1>1. /\ sendAge' = 0 /\ UNCHANGED <<target, cmdAge, currentYaw, yawAge, turned>>
      /\ yawLock' = None /\ active' = FALSE /\ held' = FALSE /\ out' = Requested
  BY DEF SendCycle, PassThrough, ResetHeadingHold, heading
<1>2. active' \in BOOLEAN /\ held' \in BOOLEAN
  BY <1>1
<1>3. out' \in TwistType
  BY <1>1, RequestedType
<1>4. TypeOK'
  BY <1>1, <1>2, <1>3
<1>5. cmdAge > CommandTimeout => Requested = Zero
  BY DEF Requested, Expired
<1>. QED BY <1>1, <1>4, <1>5 DEF AgeInv, NoLockAcrossTurn

LEMMA HoldInv == Inv /\ SendCycle /\ HoldHeading => Inv'
<1>. SUFFICES ASSUME Inv, SendCycle, HoldHeading PROVE Inv'
  OBVIOUS
<1>. USE TimeAssumption DEF Inv, TypeOK
<1>1. /\ sendAge' = 0 /\ UNCHANGED <<target, cmdAge, currentYaw, yawAge>>
      /\ yawLock' = HeldYaw /\ active' = TRUE /\ held' = TRUE
      /\ out' = [Requested EXCEPT !.wz = Correction]
      /\ turned' = (turned /\ yawLock # None)
      /\ YawAvailable /\ ~Expired
  BY DEF SendCycle, HoldHeading, HoldRefused, heading
<1>2. active' \in BOOLEAN /\ held' \in BOOLEAN /\ turned' \in BOOLEAN
  BY <1>1
<1>3. out' \in TwistType
  BY <1>1, RequestedType, CorrectionType DEF TwistType
<1>4. yawLock' \in Yaw
  BY <1>1, YawType
<1>5. TypeOK'
  BY <1>1, <1>2, <1>3, <1>4
<1>6. ~turned'
  BY <1>1 DEF NoLockAcrossTurn
<1>7. yawAge <= YawTimeout /\ ~(cmdAge > CommandTimeout)
  BY <1>1 DEF YawAvailable, Expired
<1>. QED BY <1>1, <1>5, <1>6, <1>7 DEF AgeInv, NoLockAcrossTurn

(* The invariant of the drive command: every step keeps it.                 *)
LEMMA InvIsInvariant == Spec => []Inv
<1>1. Inv /\ [Next]_vars => Inv'
  <2>. SUFFICES ASSUME Inv, [Next]_vars PROVE Inv'
    OBVIOUS
  <2>1. CASE UNCHANGED vars
    BY <2>1 DEF vars, heading, lock, history, Inv, TypeOK, AgeInv, NoLockAcrossTurn
  <2>2. CASE SendCycle
    BY <2>2, PassInv, HoldInv DEF SendCycle
  <2>. QED BY <2>1, <2>2, CmdVelInv, OdomInv, TickInv DEF Next
<1>. QED BY InitInv, <1>1, PTL DEF Spec

(* Every attribute keeps to its type: a correction is a number whatever the *)
(* gain, and a lock is a heading (ChassisCanNode).                          *)
THEOREM TypeCorrect == Spec => []TypeOK
BY InvIsInvariant, PTL DEF Inv

(* No heading locked before a rotation is ever steered back to, however     *)
(* commands and cycles interleave (cmd_vel_callback).                       *)
THEOREM NoLockSurvivesATurn == Spec => []NoLockAcrossTurn
BY InvIsInvariant, PTL DEF Inv

(* The wheels obey neither a heading nor a command older than its timeout   *)
(* and one send period, for all timeouts (_send_cmd_loop).                  *)
THEOREM NoStaleInputIsObeyed == Spec => []NoStaleInput
<1>1. Inv => NoStaleInput
  BY TimeAssumption DEF Inv, TypeOK, AgeInv, NoStaleInput
<1>. QED BY InvIsInvariant, <1>1, PTL

(* What goes out is the commanded motion, for every twist and every limit   *)
(* an int8 holds: no wheel is beyond the limit or runs against its command, *)
(* the proportions are kept but for rounding, and no motion becomes a stop  *)
(* (_scale_wheel_commands, _encode_scaled_commands).                        *)
THEOREM MotionReachesTheWheels == Spec => []WheelsFollowTwist
<1>1. TypeOK => WheelsFollowTwist
  <2>1. TypeOK => out \in TwistType
    BY DEF TypeOK
  <2>. QED BY <2>1, TwistIsFollowed DEF WheelsFollowTwist
<1>. QED BY TypeCorrect, <1>1, PTL

==============================================================================
