------------------------------ MODULE WizProofs ------------------------------
(***************************************************************************)
(* Reading a growing counter byte by byte, twice, is as good as reading it *)
(* at once, whatever the size of a byte.  And the ring of a socket is a    *)
(* queue of bytes, whatever its size and the width of its pointers,        *)
(* because the ring's size divides the number of pointers.                 *)
(***************************************************************************)
EXTENDS WizBuffer, SequenceTheorems, TLAPS

-----------------------------------------------------------------------------
(* The counter: if the high byte is the same before and after the low byte *)
(* was read, it was the same in between.                                   *)

\* The low byte l was read when the high byte was h, which lies between the
\* two reads of the high byte.
ReadBetween(l, first, last) == \E h \in Byte : <<h, l>> \in was /\ first <= h /\ h <= last

ReadInOrder ==
    /\ <<hi, lo>> \in was
    /\ pc # "val1Hi" => h1 <= hi /\ \E l \in Byte : <<h1, l>> \in was
    /\ pc = "valHi" => ReadBetween(l1, h1, hi)
    /\ pc = "valLo" => h2 <= hi /\ ReadBetween(l1, h1, h2)

RegReadInv ==
    RegReadTypeOK /\ ReadInOrder /\ ResultWasThere /\ ZeroOnlyAcrossBoundary

LEMMA RegReadStart == Init => RegReadInv
  BY RegReadAssumption
     DEF Init, RegReadInv, RegReadTypeOK, ReadInOrder, ResultWasThere, ZeroOnlyAcrossBoundary, Byte

LEMMA RegReadTypeStep == RegReadTypeOK /\ [Next]_vars => RegReadTypeOK'
  <1> SUFFICES ASSUME RegReadTypeOK, [Next]_vars PROVE RegReadTypeOK'
    OBVIOUS
  <1> USE DEF RegReadTypeOK
  <1>1. CASE Grow
    BY <1>1 DEF Grow
  <1>2. CASE Read
    BY <1>2 DEF Read, ReadVal1Hi, ReadVal1Lo, ReadValHi, ReadValLo
  <1>3. CASE Call
    BY <1>3, RegReadAssumption DEF Call, Byte
  <1>4. CASE UNCHANGED vars
    BY <1>4 DEF vars
  <1> QED BY <1>1, <1>2, <1>3, <1>4 DEF Next

\* The counter grows: what was read of it stays what it was.
LEMMA GrowKeeps ==
    ASSUME RegReadInv, Grow
    PROVE  ReadInOrder' /\ ResultWasThere' /\ ZeroOnlyAcrossBoundary'
  <1>1. hi <= hi' /\ was \subseteq was' /\ <<hi', lo'>> \in was'
        /\ UNCHANGED <<h1, l1, h2, l2, pc>>
    BY DEF Grow, RegReadInv, RegReadTypeOK, Byte
  <1>2. ASSUME NEW l, NEW first \in Byte, NEW last \in Byte, NEW end \in Byte,
               ReadBetween(l, first, last), last <= end
        PROVE  \E h \in Byte : <<h, l>> \in was' /\ first <= h /\ h <= end
    BY <1>1, <1>2 DEF ReadBetween, Byte
  <1>3. hi \in Byte /\ hi' \in Byte /\ h1 \in Byte /\ h2 \in Byte
    BY DEF RegReadInv, RegReadTypeOK, Grow
  <1>4. pc # "val1Hi" => h1 <= hi' /\ \E l \in Byte : <<h1, l>> \in was'
    BY <1>1, <1>3 DEF RegReadInv, ReadInOrder, Byte
  <1>5. pc = "valHi" => \E h \in Byte : <<h, l1>> \in was' /\ h1 <= h /\ h <= hi'
    BY <1>1, <1>2, <1>3 DEF RegReadInv, ReadInOrder
  <1>6. pc = "valLo" => h2 <= hi' /\ \E h \in Byte : <<h, l1>> \in was' /\ h1 <= h /\ h <= h2
    BY <1>1, <1>3 DEF RegReadInv, ReadInOrder, ReadBetween, Byte
  <1>7. ReadInOrder'
    BY <1>1, <1>4, <1>5, <1>6 DEF ReadInOrder, ReadBetween
  <1>8. hi > 0 => hi' > 0
    BY <1>1, <1>3 DEF Byte
  <1> QED BY <1>1, <1>7, <1>8 DEF RegReadInv, ResultWasThere, ZeroOnlyAcrossBoundary

LEMMA ReadKeeps ==
    ASSUME RegReadInv, Read
    PROVE  ReadInOrder' /\ ResultWasThere' /\ ZeroOnlyAcrossBoundary'
  <1> USE DEF RegReadInv, RegReadTypeOK, ReadInOrder
  <1>1. UNCHANGED <<hi, lo, was>> /\ hi \in Nat /\ h1 \in Nat /\ h2 \in Nat
        /\ lo \in Nat /\ l1 \in Nat /\ l2 \in Nat
    BY DEF Read, ReadVal1Hi, ReadVal1Lo, ReadValHi, ReadValLo, Byte
  <1>2. CASE ReadVal1Hi
    BY <1>1, <1>2 DEF ReadVal1Hi, ResultWasThere, ZeroOnlyAcrossBoundary
  <1>3. CASE ReadVal1Lo
    <2>1. ReadInOrder'
      BY <1>1, <1>3 DEF ReadVal1Lo, ReadBetween
    <2>2. CASE pc' # "done"
      BY <2>1, <2>2 DEF ResultWasThere, ZeroOnlyAcrossBoundary
    <2>3. CASE pc' = "done"
      <3>1. h1 = 0 /\ lo = 0 /\ h2 = 0 /\ l2 = 0 /\ UNCHANGED <<h1, h2, l2>>
        BY <1>3, <2>3 DEF ReadVal1Lo
      <3>2. \E l \in Byte : <<0, l>> \in was
        BY <1>3, <3>1 DEF ReadVal1Lo
      <3>3. <<0, 0>> \in was \/ hi > 0
        BY <1>1, <3>1
      <3> QED BY <1>1, <2>1, <3>1, <3>2, <3>3 DEF ResultWasThere, ZeroOnlyAcrossBoundary
    <2> QED BY <2>2, <2>3
  <1>4. CASE ReadValHi
    BY <1>1, <1>4 DEF ReadValHi, ReadBetween, ResultWasThere, ZeroOnlyAcrossBoundary
  <1>5. CASE ReadValLo
    <2>1. ReadInOrder'
      BY <1>1, <1>5 DEF ReadValLo
    <2>2. CASE pc' # "done"
      BY <2>1, <2>2 DEF ResultWasThere, ZeroOnlyAcrossBoundary
    <2>3. CASE pc' = "done"
      <3>1. h2 = h1 /\ lo = l1 /\ l2' = lo /\ UNCHANGED h2
        BY <1>5, <2>3 DEF ReadValLo
      <3>2. PICK h \in Byte : <<h, l1>> \in was /\ h1 <= h /\ h <= h2
        BY <1>5 DEF ReadValLo, ReadBetween
      <3>3. h = h2
        BY <1>1, <3>1, <3>2 DEF Byte
      <3>4. <<h2', l2'>> \in was'
        BY <1>1, <3>1, <3>2, <3>3
      <3> QED BY <2>1, <3>4 DEF ResultWasThere, ZeroOnlyAcrossBoundary
    <2> QED BY <2>2, <2>3
  <1> QED BY <1>2, <1>3, <1>4, <1>5 DEF Read

LEMMA RegReadStep == RegReadInv /\ [Next]_vars => RegReadInv'
  <1> SUFFICES ASSUME RegReadInv, [Next]_vars
               PROVE  ReadInOrder' /\ ResultWasThere' /\ ZeroOnlyAcrossBoundary'
    BY RegReadTypeStep DEF RegReadInv
  <1>1. CASE Call
    BY <1>1 DEF Call, ReadInOrder, ResultWasThere, ZeroOnlyAcrossBoundary
  <1>2. CASE UNCHANGED vars
    BY <1>2 DEF vars, RegReadInv, ReadInOrder, ReadBetween, ResultWasThere,
                ZeroOnlyAcrossBoundary
  <1> QED BY <1>1, <1>2, GrowKeeps, ReadKeeps DEF Next

LEMMA RegReadAlways == Spec => []RegReadInv
  BY RegReadStart, RegReadStep, PTL DEF Spec

\* The value that getSn_RX_RSR or getSn_TX_FSR answers was in the register
\* during the call (w5500.c:188-221).
THEOREM RegResultWasThere == Spec => []ResultWasThere
  BY RegReadAlways, PTL DEF RegReadInv

\* An answer of 0 is wrong only if the high byte left 0 during the call.
THEOREM RegZeroOnlyAcrossBoundary == Spec => []ZeroOnlyAcrossBoundary
  BY RegReadAlways, PTL DEF RegReadInv

\* The bytes are bytes (w5500.c:188-221).
THEOREM RegReadTypeCorrect == Spec => []RegReadTypeOK
  BY RegReadAlways, PTL DEF RegReadInv

-----------------------------------------------------------------------------
(* Arithmetic of remainders.                                               *)

LEMMA NumberIn ==
    ASSUME NEW h \in Nat, NEW l \in Nat, NEW m \in Nat
    PROVE  h * m + l \in Nat
  <1>1. h * m \in Nat
    OBVIOUS
  <1> QED BY <1>1

LEMMA DivRest ==
    ASSUME NEW x \in Nat, NEW m \in Nat \ {0}
    PROVE  x \div m \in Nat /\ x % m \in 0 .. m - 1 /\ x = (m * (x \div m)) + (x % m)
  <1>1. x % m \in 0 .. m - 1 /\ x \div m \in Nat
    OBVIOUS
  <1>2. x = (m * (x \div m)) + (x % m)
    OBVIOUS
  <1> QED BY <1>1, <1>2

LEMMA RestUnique ==
    ASSUME NEW x \in Nat, NEW m \in Nat \ {0}, NEW q \in Nat, NEW r \in 0 .. m - 1,
           x = (m * q) + r
    PROVE  x % m = r
  OBVIOUS

LEMMA SmallRest ==
    ASSUME NEW m \in Nat \ {0}, NEW x \in 0 .. m - 1
    PROVE  (x + 0) % m = x
  <1>1. x + 0 = (m * 0) + x /\ x + 0 \in Nat
    OBVIOUS
  <1> QED BY <1>1, RestUnique

LEMMA RestOfMultiple ==
    ASSUME NEW a \in Nat, NEW q \in Nat, NEW m \in Nat \ {0}
    PROVE  (a + m * q) % m = a % m
  <1> DEFINE d == a \div m
             r == a % m
  <1>1. d \in Nat /\ r \in 0 .. m - 1 /\ a = (m * d) + r
    BY DivRest
  <1>2. a + m * q \in Nat /\ d + q \in Nat
    BY <1>1
  <1> HIDE DEF d, r
  <1>3. m * (d + q) = m * d + m * q
    BY <1>1
  <1>4. a + m * q = (m * (d + q)) + r
    BY <1>1, <1>3
  <1>5. (a + m * q) % m = r
    BY <1>1, <1>2, <1>4, RestUnique
  <1> QED BY <1>5 DEF r

\* A remainder may be taken of a multiple first, and before an addition.
LEMMA RestOfSum ==
    ASSUME NEW a \in Nat, NEW b \in Nat, NEW m \in Nat \ {0}, NEW k \in Nat \ {0}
    PROVE  ((a % (m * k)) + b) % m = (a + b) % m
  <1> DEFINE n == m * k
             d == a \div n
             r == a % n
  <1>1. n \in Nat \ {0}
    OBVIOUS
  <1> HIDE DEF n
  <1>2. d \in Nat /\ r \in Nat /\ a = (n * d) + r
    BY <1>1, DivRest
  <1> HIDE DEF d, r
  <1>3. n * d = m * (k * d) /\ k * d \in Nat
    <2>1. n * d = (m * k) * d
      BY DEF n
    <2>2. (m * k) * d = m * (k * d) /\ k * d \in Nat
      BY <1>2
    <2> QED BY <2>1, <2>2
  <1>4. a + b = (r + b) + m * (k * d)
    <2>1. m * (k * d) \in Nat
      BY <1>3
    <2> QED BY <1>2, <1>3, <2>1
  <1>5. (a + b) % m = (r + b) % m
    <2>1. r + b \in Nat
      BY <1>2
    <2>2. ((r + b) + m * (k * d)) % m = (r + b) % m
      BY <1>3, <2>1, RestOfMultiple
    <2> QED BY <1>4, <2>2
  <1> QED BY <1>5 DEF r, n

\* Less than m apart, two numbers have different remainders.
LEMMA RestInjective ==
    ASSUME NEW a \in Nat, NEW b \in Nat, NEW m \in Nat \ {0}, a < b, b < a + m
    PROVE  a % m # b % m
  <1> SUFFICES ASSUME a % m = b % m PROVE FALSE
    OBVIOUS
  <1>1. a = (m * (a \div m)) + (a % m) /\ b = (m * (b \div m)) + (b % m)
        /\ a \div m \in Nat /\ b \div m \in Nat
    BY DivRest
  <1>2. m * ((b \div m) - (a \div m)) = b - a
    BY <1>1
  <1>3. (b \div m) - (a \div m) = 0
    BY <1>1, <1>2
  <1> QED BY <1>2, <1>3

\* A number of two digits.
LEMMA HighIn ==
    ASSUME NEW x \in Nat, NEW m \in Nat \ {0}, x < m * m
    PROVE  x \div m \in 0 .. m - 1
  <1>1. x \div m \in Nat /\ x % m \in Nat /\ x = (m * (x \div m)) + (x % m)
    BY DivRest
  <1>2. ASSUME NEW d \in Nat, d >= m PROVE m * d >= m * m
    BY <1>2
  <1> QED BY <1>1, <1>2

LEMMA NumberOf ==
    ASSUME NEW m \in Nat \ {0}, NEW h \in 0 .. m - 1, NEW l \in 0 .. m - 1
    PROVE  h * m + l \in 0 .. m * m - 1 /\ (h * m + l) \div m = h
  <1>1. h * m <= (m - 1) * m /\ (m - 1) * m = m * m - m /\ h * m \in Nat
    OBVIOUS
  <1>2. h * m + l \in 0 .. m * m - 1
    BY <1>1
  <1> DEFINE x == h * m + l
  <1>3. x \in Nat /\ x \div m \in Nat /\ x % m \in 0 .. m - 1 /\ x = (m * (x \div m)) + (x % m)
    <2>1. x \in Nat
      BY NumberIn
    <2> HIDE DEF x
    <2> QED BY <2>1, DivRest
  <1>4. x % m = l
    <2>1. x = (m * h) + l
      OBVIOUS
    <2> HIDE DEF x
    <2> QED BY <1>3, <2>1, RestUnique
  <1>5. m * (x \div m) = m * h
    BY <1>3, <1>4
  <1>6. x \div m = h
    <2> HIDE DEF x
    <2> QED BY <1>3, <1>5
  <1> QED BY <1>2, <1>6

\* How far a pointer has moved can be told if it is less than a round.
LEMMA RestDifference ==
    ASSUME NEW m \in Nat \ {0}, NEW x \in 0 .. m - 1, NEW n \in 0 .. m - 1
    PROVE  (((x + n) % m) + m - x) % m = n
  <1>1. CASE x + n < m
    <2>1. (x + n) % m = x + n
      BY <1>1, RestUnique
    <2>2. (x + n) + m - x = (m * 1) + n
      OBVIOUS
    <2> QED BY <2>1, <2>2, RestUnique
  <1>2. CASE x + n >= m
    <2>1. x + n = (m * 1) + (x + n - m) /\ x + n - m \in 0 .. m - 1
      BY <1>2
    <2>2. (x + n) % m = x + n - m
      BY <2>1, RestUnique
    <2>3. (x + n - m) + m - x = (m * 0) + n
      OBVIOUS
    <2> QED BY <2>2, <2>3, RestUnique
  <1> QED BY <1>1, <1>2

-----------------------------------------------------------------------------
(* Pointers and cells.                                                     *)

LEMMA Sizes ==
    /\ Mod \in Nat \ {0} /\ Size \in Nat \ {0} /\ Size < Mod
    /\ Radix \in Nat \ {0} /\ MaxLen \in 1 .. Size
    /\ \E k \in Nat \ {0} : Mod = Size * k
  <1>1. PICK k \in 2 .. Mod : Mod = Size * k
    BY WizBufferAssumption
  <1>2. Size \in Nat \ {0} /\ Mod \in Nat /\ k \in Nat \ {0} /\ k >= 2
    BY WizBufferAssumption
  <1>3. Size * k >= Size * 2
    BY <1>2
  <1>4. Mod \in Nat \ {0} /\ Size < Mod
    BY <1>1, <1>2, <1>3
  <1> QED BY <1>1, <1>2, <1>4, WizBufferAssumption, RegReadAssumption DEF Radix

LEMMA CellIn == ASSUME NEW a \in Nat PROVE Cell(a) \in 0 .. Size - 1
  BY Sizes, DivRest DEF Cell

LEMMA CellApart ==
    ASSUME NEW a \in Nat, NEW b \in Nat, a < b, b < a + Size
    PROVE  Cell(a) # Cell(b)
  BY Sizes, RestInjective DEF Cell

\* Wrapping a pointer does not change what cell it selects.
LEMMA CellOfPointer ==
    ASSUME NEW a \in Nat, NEW b \in Nat
    PROVE  Cell((a % Mod) + b) = Cell(a + b)
  <1>1. PICK k \in Nat \ {0} : Mod = Size * k
    BY Sizes
  <1>2. Size \in Nat \ {0}
    BY Sizes
  <1>3. ((a % (Size * k)) + b) % Size = (a + b) % Size
    BY <1>2, RestOfSum
  <1> QED BY <1>1, <1>3 DEF Cell

LEMMA PointerOfPointer ==
    ASSUME NEW a \in Nat, NEW b \in Nat
    PROVE  ((a % Mod) + b) % Mod = (a + b) % Mod
  <1>1. ASSUME NEW m \in Nat \ {0}, NEW k \in Nat \ {0}, m * k = m
        PROVE  ((a % m) + b) % m = (a + b) % m
    <2>1. ((a % (m * k)) + b) % m = (a + b) % m
      BY RestOfSum
    <2> QED BY <1>1, <2>1
  <1>2. PICK k \in Nat \ {0} : k = 1
    OBVIOUS
  <1>3. Mod \in Nat \ {0} /\ Mod * k = Mod
    BY <1>2, Sizes
  <1> QED BY <1>1, <1>3

LEMMA PointerIn == ASSUME NEW a \in Nat PROVE a % Mod \in 0 .. Mod - 1
  BY Sizes, DivRest

LEMMA MessageLen ==
    ASSUME NEW m \in Messages
    PROVE  m \in Seq(Value) /\ Len(m) \in 1 .. MaxLen /\ DOMAIN m = 1 .. Len(m)
  <1>1. PICK n \in 1 .. MaxLen : m \in [1 .. n -> Value]
    BY DEF Messages
  <1>2. n \in Nat
    BY Sizes
  <1> QED BY <1>1, <1>2

LEMMA LevelFacts ==
    ASSUME WizTypeOK
    PROVE  /\ Counter \in 0 .. Size /\ Filled \in 0 .. Size /\ Result \in Nat
           /\ Filled = IF dir = "rx" THEN Counter ELSE Size - Counter
           /\ rd \in Nat /\ Known \in 0 .. Mod - 1
  <1>1. hi \in Nat /\ lo \in Nat /\ h2 \in Nat /\ l2 \in Nat /\ Radix \in Nat
    BY Sizes, RegReadAssumption DEF WizTypeOK, RegReadTypeOK, Byte
  <1>2. Counter \in Nat /\ Result \in Nat
    BY <1>1 DEF Counter, Result
  <1>3. Counter \in 0 .. Size /\ Filled \in 0 .. Size
    BY <1>2, Sizes DEF WizTypeOK, Filled
  <1>4. rd \in 0 .. Mod - 1 /\ rd + Filled \in Nat
    BY <1>3, Sizes DEF WizTypeOK
  <1>5. Known \in 0 .. Mod - 1
    BY <1>4, PointerIn DEF Known
  <1> QED BY <1>2, <1>3, <1>4, <1>5, Sizes DEF Filled

-----------------------------------------------------------------------------
(* The inductive invariant.                                                *)

\* What was read of the counter is not more than it is now.
CountInv == RegReadInv /\ \A w \in was : w[1] * Radix + w[2] <= Counter

PointerInv ==
    /\ step = "count" => reg = Known
    /\ step # "count" =>
           /\ pc = "done"
           /\ Len(data) > 0 /\ Len(data) <= Counter
           /\ ptr = (Known + Len(data)) % Mod
    /\ step = "ptrLo" => reg \div Radix = ptr \div Radix
    /\ step = "command" => reg = ptr

\* What is moved stands in the ring, behind the pointer the chip knows.
DataInv ==
    /\ dir = "rx" /\ step = "count" => data = <<>>
    /\ dir = "tx" => data \in Messages
    /\ step # "count" => \A i \in 1 .. Len(data) : data[i] = ring[Cell(Known + i - 1)]

WizInv == WizTypeOK /\ CountInv /\ PointerInv /\ DataInv

LEMMA WizStart == WizInit => WizInv
  <1> SUFFICES ASSUME WizInit PROVE WizInv
    OBVIOUS
  <1>1. RegReadInv
    BY RegReadStart DEF WizInit
  <1>2. WizTypeOK
    <2>1. Counter <= Size
      BY Sizes, RegReadAssumption DEF WizInit, Init, Byte, Filled, Counter, Radix
    <2>2. reg \in 0 .. Radix * Radix - 1
      BY WizBufferAssumption, Sizes DEF WizInit
    <2> QED BY <1>1, <2>1, <2>2, Sizes DEF WizInit, WizTypeOK, RegReadInv, Idle
  <1>3. CountInv
    BY <1>1, <1>2, LevelFacts DEF CountInv, WizInit, Init, Counter
  <1>4. PointerInv
    <2>1. rd % Mod = rd
      <3>1. rd = (Mod * 0) + rd /\ rd \in 0 .. Mod - 1 /\ rd \in Nat
        BY Sizes DEF WizInit
      <3> QED BY <3>1, Sizes, RestUnique
    <2> QED BY <2>1, Sizes DEF WizInit, PointerInv, Known
  <1> QED BY <1>2, <1>3, <1>4 DEF WizInv, DataInv, WizInit, Idle

\* Seen from the counter, every step is one of RegRead16.
LEMMA WizReads ==
    ASSUME [WizNext]_wizVars
    PROVE  [Next]_vars
  BY DEF WizNext, wizVars, PeerSends, PeerTakes, Driver, ReadCounter, Retry, wiz_recv_data,
         wiz_send_data, SetPointerHi, SetPointerLo, Command, Reopen, Next

\* What getSn_RX_RSR or getSn_TX_FSR returned is still there.
LEMMA ResultLow ==
    ASSUME WizTypeOK, CountInv, pc = "done"
    PROVE  Result <= Counter
  <1>1. hi \in Nat /\ lo \in Nat /\ Radix \in Nat
    BY Sizes DEF WizTypeOK, RegReadTypeOK, Byte
  <1>2. CASE h2 # 0 \/ l2 # 0
    <2>1. <<h2, l2>> \in was
      BY <1>2 DEF CountInv, RegReadInv, ResultWasThere
    <2>2. <<h2, l2>>[1] * Radix + <<h2, l2>>[2] <= Counter
      BY <2>1 DEF CountInv
    <2> QED BY <2>2 DEF Result
  <1>3. CASE h2 = 0 /\ l2 = 0
    BY <1>1, <1>3, LevelFacts DEF Result
  <1> QED BY <1>2, <1>3

LEMMA CountStep ==
    ASSUME WizTypeOK, CountInv, [WizNext]_wizVars
    PROVE  CountInv'
  <1>1. RegReadInv'
    BY WizReads, RegReadStep DEF CountInv
  <1>2. Counter' = hi' * Radix + lo'
    BY DEF Counter
  <1>3. Counter' \in Nat /\ Counter \in Nat
    <2>1. hi' \in Nat /\ lo' \in Nat
      BY <1>1 DEF RegReadInv, RegReadTypeOK, Byte
    <2>2. Radix \in Nat /\ Counter \in Nat
      BY Sizes, LevelFacts
    <2>3. hi' * Radix + lo' \in Nat
      BY <2>1, <2>2, NumberIn
    <2> QED BY <1>2, <2>2, <2>3
  <1>4. CASE PeerSends \/ PeerTakes
    <2>1. Counter' = Counter + 1 /\ was' = was \cup {<<hi', lo'>>}
      BY <1>4 DEF PeerSends, PeerTakes, Grow
    <2>2. ASSUME NEW w \in was PROVE w[1] * Radix + w[2] <= Counter'
      <3>1. w[1] \in Nat /\ w[2] \in Nat /\ w[1] * Radix + w[2] <= Counter
        BY Sizes DEF CountInv, WizTypeOK, RegReadTypeOK, Byte
      <3>2. w[1] * Radix + w[2] \in Nat
        BY <3>1, Sizes, NumberIn
      <3> QED BY <1>3, <2>1, <3>1, <3>2
    <2>3. \A w \in was' : w[1] * Radix + w[2] <= Counter'
      BY <1>2, <1>3, <2>1, <2>2
    <2> QED BY <1>1, <2>3 DEF CountInv
  <1>5. CASE Call
    <2>1. \A w \in was' : w[1] * Radix + w[2] = Counter'
      BY <1>2, <1>5 DEF Call
    <2> QED BY <1>1, <1>3, <2>1 DEF CountInv
  <1>6. CASE UNCHANGED <<hi, lo, was>>
    BY <1>1, <1>6 DEF CountInv, Counter
  <1>7. Read => UNCHANGED <<hi, lo, was>>
    BY DEF Read, ReadVal1Hi, ReadVal1Lo, ReadValHi, ReadValLo
  <1> QED BY <1>4, <1>5, <1>6, <1>7
          DEF WizNext, wizVars, vars, Driver, ReadCounter, Retry, wiz_recv_data, wiz_send_data,
              SetPointerHi, SetPointerLo, Command, Reopen

-----------------------------------------------------------------------------
(* The steps of the chip.                                                  *)

LEMMA PeerSendsKeeps ==
    ASSUME WizInv, PeerSends
    PROVE  WizTypeOK' /\ PointerInv' /\ DataInv'
  <1> USE DEF WizInv
  <1>1. dir = "rx" /\ Counter < Size /\ Filled = Counter /\ Counter' = Counter + 1
        /\ UNCHANGED <<dir, rd, reg, ptr, data, step, pc>> /\ Known = rd /\ Known' = rd
        /\ Counter \in Nat /\ rd \in Nat
    BY LevelFacts, Sizes DEF PeerSends, Filled, Grow, Known
  <1>2. PICK v \in Value : ring' = [ring EXCEPT ![Cell(rd + Filled)] = v]
    BY DEF PeerSends
  <1>3. WizTypeOK'
    <2>1. RegReadTypeOK'
      BY RegReadTypeStep DEF PeerSends, Next, WizTypeOK
    <2>2. Counter' <= Size
      BY <1>1, Sizes
    <2> QED BY <1>1, <1>2, <2>1, <2>2 DEF WizTypeOK
  <1>4. PointerInv'
    BY <1>1 DEF PointerInv, WizTypeOK, Messages
  <1>5. ASSUME step # "count", NEW i \in 1 .. Len(data)
        PROVE  data[i] = ring'[Cell(rd + i - 1)]
    <2>1. Len(data) <= Counter /\ data[i] = ring[Cell(rd + i - 1)]
      BY <1>1, <1>5 DEF PointerInv, DataInv
    <2>2. Len(data) \in Nat
      BY MessageLen, Sizes DEF WizTypeOK
    <2>3. rd + i - 1 \in Nat /\ rd + i - 1 < rd + Filled /\ rd + Filled < rd + i - 1 + Size
      BY <1>1, <2>1, <2>2, Sizes
    <2>4. Cell(rd + i - 1) # Cell(rd + Filled)
      BY <1>1, <2>3, CellApart
    <2> QED BY <1>2, <2>1, <2>3, <2>4, CellIn DEF WizTypeOK
  <1>6. DataInv'
    BY <1>1, <1>5 DEF DataInv
  <1> QED BY <1>3, <1>4, <1>6

LEMMA PeerTakesKeeps ==
    ASSUME WizInv, PeerTakes
    PROVE  WizTypeOK' /\ PointerInv' /\ DataInv' /\ Known' = Known /\ Filled' = Filled - 1
  <1> USE DEF WizInv
  <1>1. dir = "tx" /\ Filled > 0 /\ Filled = Size - Counter /\ Counter' = Counter + 1
        /\ UNCHANGED <<dir, ring, reg, ptr, data, step, pc>> /\ rd' = (rd + 1) % Mod
        /\ Counter \in Nat /\ Filled \in Nat /\ rd \in Nat
    BY LevelFacts, Sizes DEF PeerTakes, Grow
  <1>2. Filled' = Filled - 1
    BY <1>1, Sizes DEF Filled
  <1>3. Known' = Known
    <2>1. (((rd + 1) % Mod) + (Filled - 1)) % Mod = (rd + 1 + (Filled - 1)) % Mod
      BY <1>1, PointerOfPointer
    <2>2. rd + 1 + (Filled - 1) = rd + Filled
      BY <1>1
    <2> QED BY <1>1, <1>2, <2>1, <2>2 DEF Known
  <1>4. WizTypeOK'
    <2>1. RegReadTypeOK'
      BY RegReadTypeStep DEF PeerTakes, Next, WizTypeOK
    <2>2. Counter' <= Size
      BY <1>1, Sizes
    <2>3. rd' \in 0 .. Mod - 1
      BY <1>1, PointerIn
    <2> QED BY <1>1, <2>1, <2>2, <2>3 DEF WizTypeOK
  <1>5. PointerInv'
    BY <1>1, <1>3 DEF PointerInv, WizTypeOK, Messages
  <1>6. DataInv'
    BY <1>1, <1>3 DEF DataInv
  <1> QED BY <1>2, <1>3, <1>4, <1>5, <1>6

-----------------------------------------------------------------------------
(* The steps of the driver.                                                *)

LEMMA CountingKeeps ==
    ASSUME WizInv, ReadCounter \/ Retry
    PROVE  WizTypeOK' /\ PointerInv' /\ DataInv' /\ UNCHANGED <<dir, Known, Filled, ring, rd, data>>
  <1> USE DEF WizInv
  <1>1. step = "count" /\ UNCHANGED <<hi, lo, dir, ring, rd, reg, ptr, data, step>>
    BY DEF ReadCounter, Read, ReadVal1Hi, ReadVal1Lo, ReadValHi, ReadValLo, Retry
  <1>2. UNCHANGED <<Known, Filled, Counter>>
    BY <1>1 DEF Known, Filled, Counter
  <1>3. RegReadTypeOK'
    BY RegReadTypeStep DEF ReadCounter, Retry, Next, WizTypeOK
  <1> QED BY <1>1, <1>2, <1>3 DEF WizTypeOK, PointerInv, DataInv

LEMMA RecvKeeps ==
    ASSUME WizInv, wiz_recv_data
    PROVE  WizTypeOK' /\ PointerInv' /\ DataInv'
  <1> USE DEF WizInv
  <1> DEFINE n == IF Result < MaxLen THEN Result ELSE MaxLen
  <1>1. dir = "rx" /\ pc = "done" /\ step = "count" /\ Result > 0 /\ step' = "ptrHi"
        /\ UNCHANGED <<vars, dir, ring, rd, reg>>
        /\ data' = [i \in 1 .. n |-> ring[Cell(reg + i - 1)]] /\ ptr' = (reg + n) % Mod
    BY DEF wiz_recv_data
  <1>2. reg = rd /\ Known = rd /\ UNCHANGED <<Known, Counter>>
    BY <1>1 DEF Known, PointerInv, vars, Counter
  <1>3. n \in 1 .. MaxLen /\ n <= Result /\ n <= Counter /\ n \in Nat
    BY <1>1, Sizes, ResultLow, LevelFacts
  <1> HIDE DEF n
  <1>4. \A i \in 1 .. n : ring[Cell(reg + i - 1)] \in Value
    <2>1. ASSUME NEW i \in 1 .. n PROVE ring[Cell(reg + i - 1)] \in Value
      <3>1. reg + i - 1 \in Nat
        BY <1>2, <1>3, LevelFacts
      <3> QED BY <3>1, CellIn DEF WizTypeOK
    <2> QED BY <2>1
  <1>5. data' \in Messages /\ Len(data') = n
    BY <1>1, <1>3, <1>4 DEF Messages
  <1>6. WizTypeOK'
    <2>1. RegReadTypeOK'
      BY <1>1 DEF WizTypeOK, RegReadTypeOK, vars
    <2>2. ptr' \in 0 .. Mod - 1
      BY <1>1, <1>2, <1>3, LevelFacts, PointerIn
    <2> QED BY <1>1, <1>2, <1>5, <2>1, <2>2 DEF WizTypeOK
  <1>7. PointerInv'
    BY <1>1, <1>2, <1>3, <1>5 DEF PointerInv, vars
  <1>8. DataInv'
    BY <1>1, <1>2, <1>3, <1>5 DEF DataInv
  <1> QED BY <1>6, <1>7, <1>8

\* The bytes written by send stand one behind the other, and nowhere else.
LEMMA SendWrites ==
    ASSUME WizInv, wiz_send_data
    PROVE  /\ dir = "tx" /\ reg = Known /\ Len(data) \in 1 .. Counter
           /\ Known' = Known /\ Filled' = Filled /\ Counter' = Counter
           /\ ring' \in [0 .. Size - 1 -> Value]
           /\ \A i \in 1 .. Len(data) : ring'[Cell(Known + i - 1)] = data[i]
           /\ \A c \in 0 .. Size - 1 :
                  (\A i \in 1 .. Len(data) : c # Cell(Known + i - 1)) => ring'[c] = ring[c]
  <1> USE DEF WizInv
  <1> DEFINE n == Len(data)
             At(i) == Cell(reg + i - 1)
  <1>1. dir = "tx" /\ pc = "done" /\ step = "count" /\ n <= Result
        /\ UNCHANGED <<vars, dir, rd, reg, data>>
        /\ ring' = [c \in DOMAIN ring |->
                       IF \E i \in 1 .. n : c = At(i)
                       THEN data[CHOOSE i \in 1 .. n : c = At(i)]
                       ELSE ring[c]]
    BY DEF wiz_send_data
  <1>2. reg = Known /\ Known' = Known /\ Filled' = Filled /\ Counter' = Counter
    BY <1>1 DEF Known, Filled, PointerInv, vars, Counter
  <1>3. data \in Messages
    BY <1>1 DEF DataInv
  <1>4. n \in 1 .. Counter /\ n <= Size /\ Known \in Nat /\ n \in Nat /\ Size \in Nat
    BY <1>1, <1>3, MessageLen, LevelFacts, ResultLow, Sizes
  <1>5. DOMAIN ring = 0 .. Size - 1 /\ \A i \in 1 .. n : data[i] \in Value
    BY <1>3, MessageLen DEF WizTypeOK
  <1> HIDE DEF n
  <1>6. ASSUME NEW i \in 1 .. n, NEW j \in 1 .. n, At(i) = At(j)
        PROVE  i = j
    <2>1. reg + i - 1 \in Nat /\ reg + j - 1 \in Nat
          /\ reg + i - 1 < reg + j - 1 + Size /\ reg + j - 1 < reg + i - 1 + Size
      BY <1>2, <1>4
    <2>2. ~ (reg + i - 1 < reg + j - 1) /\ ~ (reg + j - 1 < reg + i - 1)
      BY <1>6, <2>1, CellApart
    <2> QED BY <1>2, <1>4, <2>2
  <1>7. ASSUME NEW i \in 1 .. n
        PROVE  ring'[At(i)] = data[i]
    <2>1. At(i) \in DOMAIN ring
      BY <1>2, <1>4, <1>5, CellIn
    <2>2. ring'[At(i)] = data[CHOOSE j \in 1 .. n : At(i) = At(j)]
      BY <1>1, <2>1
    <2>3. (CHOOSE j \in 1 .. n : At(i) = At(j)) = i
      <3> DEFINE k == CHOOSE j \in 1 .. n : At(i) = At(j)
      <3>1. k \in 1 .. n /\ At(i) = At(k)
        OBVIOUS
      <3> HIDE DEF k, At
      <3> QED BY <1>6, <3>1 DEF k
    <2> QED BY <2>2, <2>3
  <1>8. ASSUME NEW c \in 0 .. Size - 1, \A i \in 1 .. n : c # At(i)
        PROVE  ring'[c] = ring[c]
    BY <1>1, <1>5, <1>8
  <1>9. ring' \in [0 .. Size - 1 -> Value]
    <2>1. ASSUME NEW c \in 0 .. Size - 1 PROVE ring'[c] \in Value
      <3>1. CASE \E i \in 1 .. n : c = At(i)
        BY <1>5, <1>7, <3>1
      <3>2. CASE \A i \in 1 .. n : c # At(i)
        BY <1>8, <3>2 DEF WizTypeOK
      <3> QED BY <3>1, <3>2
    <2>2. ring' = [c \in 0 .. Size - 1 |-> ring'[c]]
      BY <1>1, <1>5
    <2> QED BY <2>1, <2>2
  <1> QED BY <1>1, <1>2, <1>4, <1>7, <1>8, <1>9 DEF n

LEMMA SendKeeps ==
    ASSUME WizInv, wiz_send_data
    PROVE  WizTypeOK' /\ PointerInv' /\ DataInv'
  <1> USE DEF WizInv
  <1>1. pc = "done" /\ step' = "ptrHi" /\ ptr' = (reg + Len(data)) % Mod
        /\ UNCHANGED <<vars, dir, rd, reg, data>>
    BY DEF wiz_send_data
  <1>2. reg + Len(data) \in Nat
    BY SendWrites, LevelFacts
  <1>3. WizTypeOK'
    BY <1>1, <1>2, SendWrites, PointerIn DEF WizTypeOK, RegReadTypeOK, vars
  <1>4. PointerInv'
    BY <1>1, SendWrites, LevelFacts DEF PointerInv, vars
  <1>5. DataInv'
    BY <1>1, SendWrites DEF DataInv
  <1> QED BY <1>3, <1>4, <1>5

\* The pointer is written byte by byte.
LEMMA SetPointerKeeps ==
    ASSUME WizInv, SetPointerHi \/ SetPointerLo
    PROVE  WizTypeOK' /\ PointerInv' /\ DataInv' /\ UNCHANGED <<dir, Known, Filled, ring, rd, data>>
  <1> USE DEF WizInv
  <1>1. step # "count" /\ UNCHANGED <<vars, dir, ring, rd, ptr, data>>
        /\ step' \in {"ptrLo", "command"}
    BY DEF SetPointerHi, SetPointerLo
  <1>2. UNCHANGED <<Known, Filled, Counter>>
    BY <1>1 DEF Known, Filled, Counter, vars
  <1>3. ptr \in Nat /\ reg \in Nat /\ Radix \in Nat \ {0} /\ ptr < Radix * Radix
    BY Sizes, WizBufferAssumption DEF WizTypeOK
  <1>4. /\ ptr \div Radix \in 0 .. Radix - 1 /\ ptr % Radix \in 0 .. Radix - 1
        /\ reg \div Radix \in Nat /\ reg % Radix \in 0 .. Radix - 1
        /\ ptr = (ptr \div Radix) * Radix + (ptr % Radix)
    <2>1. ptr \div Radix \in 0 .. Radix - 1
      BY <1>3, HighIn
    <2>2. ptr % Radix \in 0 .. Radix - 1 /\ ptr = (Radix * (ptr \div Radix)) + (ptr % Radix)
      BY <1>3, DivRest
    <2>3. reg \div Radix \in Nat /\ reg % Radix \in 0 .. Radix - 1
      BY <1>3, DivRest
    <2>4. Radix * (ptr \div Radix) = (ptr \div Radix) * Radix
      BY <1>3, <2>1
    <2> QED BY <2>1, <2>2, <2>3, <2>4
  <1>5. reg' \in 0 .. Radix * Radix - 1 /\ (step' = "ptrLo" => reg' \div Radix = ptr \div Radix)
        /\ (step' = "command" => reg' = ptr)
    <2>1. CASE SetPointerHi
      <3>1. reg' = (ptr \div Radix) * Radix + (reg % Radix) /\ step' = "ptrLo"
        BY <2>1 DEF SetPointerHi
      <3> QED BY <1>3, <1>4, <3>1, NumberOf
    <2>2. CASE SetPointerLo
      <3>1. reg' = (reg \div Radix) * Radix + (ptr % Radix) /\ step' = "command"
            /\ reg \div Radix = ptr \div Radix
        BY <2>2 DEF SetPointerLo, PointerInv
      <3>2. reg' = ptr
        BY <1>4, <3>1
      <3> QED BY <1>3, <3>1, <3>2
    <2> QED BY <2>1, <2>2
  <1>6. RegReadTypeOK'
    BY <1>1 DEF WizTypeOK, RegReadTypeOK, vars
  <1>7. WizTypeOK'
    BY <1>1, <1>2, <1>5, <1>6 DEF WizTypeOK
  <1>8. PointerInv' /\ DataInv'
    BY <1>1, <1>2, <1>5 DEF PointerInv, DataInv, vars
  <1> QED BY <1>1, <1>2, <1>7, <1>8

\* The chip sees by how much the pointer has moved.
LEMMA CommandMoves ==
    ASSUME WizInv, Command
    PROVE  /\ Len(data) \in 1 .. Counter /\ Counter' = Counter - Len(data)
           /\ reg = (Known + Len(data)) % Mod /\ reg' = reg /\ Known' = reg
           /\ rd' = (IF dir = "rx" THEN reg ELSE rd) /\ ring' = ring /\ dir' = dir
           /\ Filled' = IF dir = "rx" THEN Filled - Len(data) ELSE Filled + Len(data)
           /\ \A i \in 1 .. Len(data) : data[i] = ring[Cell(Known + i - 1)]
  <1> USE DEF WizInv
  <1> DEFINE n == Len(data)
  <1>1. step = "command" /\ UNCHANGED <<dir, ring, reg, ptr>>
        /\ rd' = (IF dir = "rx" THEN reg ELSE rd) /\ Counter' = (Counter + Mod - Moved) % Mod
    BY DEF Command
  <1>2. n > 0 /\ n <= Counter /\ reg = (Known + n) % Mod
    BY <1>1 DEF PointerInv
  <1>3. n \in Nat
    BY <1>2, MessageLen, Sizes DEF WizTypeOK
  <1>4. Counter \in 0 .. Size /\ Size \in Nat /\ Mod \in Nat \ {0} /\ Size < Mod
        /\ Known \in 0 .. Mod - 1 /\ rd \in Nat
    BY LevelFacts, Sizes
  <1> HIDE DEF n
  <1>5. n \in 0 .. Mod - 1
    BY <1>2, <1>3, <1>4
  <1>6. Moved = n
    BY <1>2, <1>4, <1>5, RestDifference DEF Moved
  <1>7. Counter' = Counter - n
    <2>1. Counter + Mod - n = (Mod * 1) + (Counter - n) /\ Counter - n \in 0 .. Mod - 1
          /\ Counter + Mod - n \in Nat
      BY <1>2, <1>3, <1>4
    <2>2. (Counter + Mod - n) % Mod = Counter - n
      BY <1>4, <2>1, RestUnique
    <2> QED BY <1>1, <1>6, <2>2
  <1>8. Filled' = IF dir = "rx" THEN Filled - n ELSE Filled + n
    <2>1. dir = "rx" => Filled' = Counter' /\ Filled = Counter
      BY <1>1 DEF Filled
    <2>2. dir # "rx" => Filled' = Size - Counter' /\ Filled = Size - Counter
      BY <1>1 DEF Filled
    <2> QED BY <1>2, <1>3, <1>4, <1>7, <2>1, <2>2
  <1>9. Known' = reg
    <2>1. CASE dir = "rx"
      BY <1>1, <2>1 DEF Known
    <2>2. CASE dir # "rx"
      <3> rd + Filled \in Nat
        BY <1>4, LevelFacts
      <3>1. (((rd + Filled) % Mod) + n) % Mod = (rd + Filled + n) % Mod
        BY <1>3, PointerOfPointer
      <3>2. rd + (Filled + n) = rd + Filled + n
        BY <1>3, <1>4, LevelFacts
      <3> QED BY <1>1, <1>2, <1>8, <2>2, <3>1, <3>2 DEF Known
    <2> QED BY <2>1, <2>2
  <1>10. n \in 1 .. Counter
    BY <1>2, <1>3, <1>4
  <1>11. \A i \in 1 .. n : data[i] = ring[Cell(Known + i - 1)]
    BY <1>1 DEF DataInv, n
  <1> QED BY <1>1, <1>2, <1>7, <1>8, <1>9, <1>10, <1>11 DEF n

LEMMA CommandKeeps ==
    ASSUME WizInv, Command
    PROVE  WizTypeOK' /\ PointerInv' /\ DataInv'
  <1> USE DEF WizInv
  <1>1. step' = "count" /\ ptr' = ptr /\ data' \in Idle
    BY DEF Command
  <1>2. reg \in 0 .. Mod - 1
    BY CommandMoves, LevelFacts, PointerIn
  <1>3. Counter' <= Size
    BY CommandMoves, LevelFacts, Sizes
  <1>4. RegReadTypeOK'
    BY RegReadTypeStep DEF Command, Next, WizTypeOK
  <1>5. WizTypeOK'
    BY <1>1, <1>2, <1>3, <1>4, CommandMoves DEF WizTypeOK, Idle
  <1>6. PointerInv' /\ DataInv'
    BY <1>1, CommandMoves DEF PointerInv, DataInv, Idle
  <1> QED BY <1>5, <1>6

LEMMA ReopenKeeps ==
    ASSUME WizInv, Reopen
    PROVE  WizTypeOK' /\ PointerInv' /\ DataInv'
  <1> USE DEF WizInv
  <1>1. step = "count" /\ UNCHANGED <<dir, ring, ptr, step>> /\ rd' \in 0 .. Mod - 1
        /\ reg' = rd' /\ data' \in Idle /\ Filled' = 0
    BY DEF Reopen
  <1>2. RegReadTypeOK'
    BY RegReadTypeStep DEF Reopen, Next, WizTypeOK
  <1>3. Counter' \in Nat
    <2>1. hi' \in Nat /\ lo' \in Nat /\ Radix \in Nat
      BY <1>2, Sizes DEF RegReadTypeOK, Byte
    <2> QED BY <2>1, NumberIn DEF Counter
  <1>4. Counter' <= Size
    <2>1. Filled' = IF dir = "rx" THEN Counter' ELSE Size - Counter'
      BY <1>1 DEF Filled
    <2>2. Size \in Nat
      BY Sizes
    <2>3. (IF dir = "rx" THEN Counter' ELSE Size - Counter') = 0
      BY <1>1, <2>1
    <2>4. CASE dir = "rx"
      BY <1>3, <2>2, <2>3, <2>4
    <2>5. CASE dir # "rx"
      <3>1. Size - Counter' = 0
        BY <2>3, <2>5
      <3>2. ASSUME NEW s \in Nat, NEW c \in Nat, s - c = 0 PROVE c <= s
        BY <3>2
      <3> QED BY <1>3, <2>2, <3>1, <3>2
    <2> QED BY <2>4, <2>5
  <1>5. reg' \in 0 .. Radix * Radix - 1
    BY <1>1, WizBufferAssumption, Sizes
  <1>6. WizTypeOK'
    BY <1>1, <1>2, <1>4, <1>5 DEF WizTypeOK, Idle
  <1>7. Known' = reg'
    <2>1. Mod \in Nat \ {0} /\ rd' \in 0 .. Mod - 1 /\ rd' \in Nat
      BY <1>1, Sizes
    <2>2. (rd' + 0) % Mod = rd'
      BY <2>1, SmallRest
    <2> QED BY <1>1, <2>2 DEF Known
  <1>8. PointerInv' /\ DataInv'
    BY <1>1, <1>7 DEF PointerInv, DataInv, Idle
  <1> QED BY <1>6, <1>8

LEMMA WizStep == WizInv /\ [WizNext]_wizVars => WizInv'
  <1> SUFFICES ASSUME WizInv, [WizNext]_wizVars
               PROVE  WizTypeOK' /\ PointerInv' /\ DataInv'
    BY CountStep DEF WizInv
  <1>1. CASE UNCHANGED wizVars
    BY <1>1 DEF wizVars, vars, WizInv, WizTypeOK, RegReadTypeOK, PointerInv, DataInv, Known,
                Filled, Counter
  <1> QED BY <1>1, PeerSendsKeeps, PeerTakesKeeps, CountingKeeps, RecvKeeps, SendKeeps,
             SetPointerKeeps, CommandKeeps, ReopenKeeps DEF WizNext, Driver

LEMMA WizAlways == WizSpec => []WizInv
  BY WizStart, WizStep, PTL DEF WizSpec

-----------------------------------------------------------------------------
(* The bytes of the ring g from pointer r on, as a queue.                  *)

QueueOf(g, r, f) == [i \in 1 .. f |-> g[Cell(r + i - 1)]]

LEMMA QueueOfIs ==
    ASSUME NEW g \in [0 .. Size - 1 -> Value], NEW r \in Nat, NEW f \in Nat
    PROVE  /\ QueueOf(g, r, f) \in Seq(Value) /\ Len(QueueOf(g, r, f)) = f
           /\ \A i \in 1 .. f : QueueOf(g, r, f)[i] = g[Cell(r + i - 1)]
  <1>1. ASSUME NEW i \in 1 .. f PROVE g[Cell(r + i - 1)] \in Value
    <2>1. r + i - 1 \in Nat
      OBVIOUS
    <2> QED BY <2>1, CellIn
  <1>2. QueueOf(g, r, f) \in [1 .. f -> Value]
    BY <1>1 DEF QueueOf
  <1>3. QueueOf(g, r, f) \in Seq(Value) /\ Len(QueueOf(g, r, f)) = f
    BY <1>2
  <1> QED BY <1>3 DEF QueueOf

LEMMA QueueSame ==
    ASSUME NEW g, NEW h, NEW r \in Nat, NEW f \in Nat,
           \A i \in 1 .. f : h[Cell(r + i - 1)] = g[Cell(r + i - 1)]
    PROVE  QueueOf(h, r, f) = QueueOf(g, r, f)
  BY DEF QueueOf

LEMMA QueuePut ==
    ASSUME NEW g \in [0 .. Size - 1 -> Value], NEW r \in Nat, NEW f \in Nat, f < Size,
           NEW v \in Value
    PROVE  QueueOf([g EXCEPT ![Cell(r + f)] = v], r, f + 1) = Append(QueueOf(g, r, f), v)
  <1> DEFINE h == [g EXCEPT ![Cell(r + f)] = v]
             q == QueueOf(g, r, f)
             s == QueueOf(h, r, f + 1)
  <1>1. h \in [0 .. Size - 1 -> Value] /\ f + 1 \in Nat /\ h[Cell(r + f)] = v
    BY CellIn
  <1>2. q \in Seq(Value) /\ Len(q) = f /\ \A i \in 1 .. f : q[i] = g[Cell(r + i - 1)]
    BY QueueOfIs
  <1>3. s \in Seq(Value) /\ Len(s) = f + 1 /\ \A i \in 1 .. f + 1 : s[i] = h[Cell(r + i - 1)]
    BY <1>1, QueueOfIs
  <1>4. ASSUME NEW i \in 1 .. f PROVE h[Cell(r + i - 1)] = g[Cell(r + i - 1)]
    <2>1. r + i - 1 \in Nat /\ r + i - 1 < r + f /\ r + f < r + i - 1 + Size
      BY Sizes
    <2> QED BY <2>1, CellApart, CellIn
  <1> HIDE DEF h, q, s
  <1>5. /\ Append(q, v) \in Seq(Value) /\ Len(Append(q, v)) = f + 1
        /\ \A i \in 1 .. f : Append(q, v)[i] = q[i]
        /\ Append(q, v)[f + 1] = v
    BY <1>2, AppendProperties
  <1>6. s[f + 1] = v
    <2>1. r + (f + 1) - 1 = r + f
      OBVIOUS
    <2> QED BY <1>1, <1>3, <2>1
  <1>7. ASSUME NEW i \in 1 .. f + 1 PROVE s[i] = Append(q, v)[i]
    BY <1>2, <1>3, <1>4, <1>5, <1>6
  <1>8. s = Append(q, v)
    BY <1>3, <1>5, <1>7, SeqEqual
  <1> QED BY <1>8 DEF s, q, h

LEMMA QueueDrop ==
    ASSUME NEW g \in [0 .. Size - 1 -> Value], NEW r \in Nat, NEW f \in Nat, NEW n \in 1 .. f
    PROVE  QueueOf(g, (r + n) % Mod, f - n) = SubSeq(QueueOf(g, r, f), n + 1, f)
  <1> DEFINE q == QueueOf(g, r, f)
             s == QueueOf(g, (r + n) % Mod, f - n)
             t == SubSeq(q, n + 1, f)
  <1>1. q \in Seq(Value) /\ Len(q) = f /\ \A i \in 1 .. f : q[i] = g[Cell(r + i - 1)]
    BY QueueOfIs
  <1>2. (r + n) % Mod \in Nat /\ f - n \in Nat /\ r + n \in Nat
    BY PointerIn
  <1>3. s \in Seq(Value) /\ Len(s) = f - n
        /\ \A i \in 1 .. f - n : s[i] = g[Cell(((r + n) % Mod) + i - 1)]
    BY <1>2, QueueOfIs
  <1> HIDE DEF q, s
  <1>4. t \in Seq(Value) /\ Len(t) = f - n /\ \A i \in 1 .. f - n : t[i] = q[n + i]
    <2>1. \A i \in n + 1 .. f : q[i] \in Value
      BY <1>1
    <2> QED BY <2>1, SubSeqProperties
  <1>5. ASSUME NEW i \in 1 .. f - n PROVE s[i] = t[i]
    <2>1. i - 1 \in Nat /\ n + i \in 1 .. f
      OBVIOUS
    <2>2. Cell(((r + n) % Mod) + (i - 1)) = Cell(r + n + (i - 1))
      BY <1>2, <2>1, CellOfPointer
    <2>3. ((r + n) % Mod) + (i - 1) = ((r + n) % Mod) + i - 1 /\ r + n + (i - 1) = r + (n + i) - 1
      BY <1>2
    <2> QED BY <1>1, <1>3, <1>4, <2>1, <2>2, <2>3
  <1> HIDE DEF t
  <1>6. s = t
    BY <1>3, <1>4, <1>5, SeqEqual
  <1> QED BY <1>6 DEF s, t, q

LEMMA QueueTake ==
    ASSUME NEW g \in [0 .. Size - 1 -> Value], NEW r \in Nat, NEW f \in Nat, f > 0
    PROVE  QueueOf(g, r, f) # <<>>
           /\ QueueOf(g, (r + 1) % Mod, f - 1) = Tail(QueueOf(g, r, f))
  <1> DEFINE q == QueueOf(g, r, f)
  <1>1. q \in Seq(Value) /\ Len(q) = f
    BY QueueOfIs
  <1> HIDE DEF q
  <1>2. q # <<>> /\ Tail(q) = SubSeq(q, 2, f)
    <2>1. q # <<>>
      BY <1>1
    <2> QED BY <1>1, <2>1, TailIsSubSeq
  <1>3. QueueOf(g, (r + 1) % Mod, f - 1) = SubSeq(QueueOf(g, r, f), 1 + 1, f)
    BY QueueDrop
  <1> QED BY <1>2, <1>3 DEF q

LEMMA QueueFirst ==
    ASSUME NEW g \in [0 .. Size - 1 -> Value], NEW r \in Nat, NEW f \in Nat, NEW n \in 1 .. f
    PROVE  QueueOf(g, r, n) = SubSeq(QueueOf(g, r, f), 1, n)
  <1> DEFINE q == QueueOf(g, r, f)
             s == QueueOf(g, r, n)
             t == SubSeq(q, 1, n)
  <1>1. /\ q \in Seq(Value) /\ Len(q) = f /\ \A i \in 1 .. f : q[i] = g[Cell(r + i - 1)]
        /\ s \in Seq(Value) /\ Len(s) = n /\ \A i \in 1 .. n : s[i] = g[Cell(r + i - 1)]
    <2>1. n \in Nat
      OBVIOUS
    <2>2. q \in Seq(Value) /\ Len(q) = f /\ \A i \in 1 .. f : q[i] = g[Cell(r + i - 1)]
      BY QueueOfIs
    <2>3. s \in Seq(Value) /\ Len(s) = n /\ \A i \in 1 .. n : s[i] = g[Cell(r + i - 1)]
      BY <2>1, QueueOfIs
    <2> QED BY <2>2, <2>3
  <1> HIDE DEF q, s
  <1>2. t \in Seq(Value) /\ Len(t) = n /\ \A i \in 1 .. n : t[i] = q[i]
    <2>1. \A i \in 1 .. n : q[i] \in Value
      BY <1>1
    <2> QED BY <2>1, SubSeqProperties
  <1> HIDE DEF t
  <1>3. s = t
    BY <1>1, <1>2, SeqEqual
  <1> QED BY <1>3 DEF s, t, q

LEMMA QueueAdd ==
    ASSUME NEW g \in [0 .. Size - 1 -> Value], NEW r \in Nat, NEW f \in Nat,
           NEW d \in Seq(Value),
           \A i \in 1 .. Len(d) : d[i] = g[Cell(((r + f) % Mod) + i - 1)]
    PROVE  QueueOf(g, r, f + Len(d)) = QueueOf(g, r, f) \o d
  <1> DEFINE q == QueueOf(g, r, f)
             s == QueueOf(g, r, f + Len(d))
  <1>1. Len(d) \in Nat /\ f + Len(d) \in Nat /\ r + f \in Nat /\ (r + f) % Mod \in Nat
    BY PointerIn
  <1>2. /\ q \in Seq(Value) /\ Len(q) = f /\ \A i \in 1 .. f : q[i] = g[Cell(r + i - 1)]
        /\ s \in Seq(Value) /\ Len(s) = f + Len(d)
        /\ \A i \in 1 .. f + Len(d) : s[i] = g[Cell(r + i - 1)]
    BY <1>1, QueueOfIs
  <1> HIDE DEF q, s
  <1>3. q \o d \in Seq(Value) /\ Len(q \o d) = f + Len(d)
        /\ \A i \in 1 .. f + Len(d) : (q \o d)[i] = IF i <= f THEN q[i] ELSE d[i - f]
    BY <1>2, ConcatProperties
  <1>4. ASSUME NEW i \in 1 .. f + Len(d) PROVE s[i] = (q \o d)[i]
    <2>1. CASE i <= f
      <3>1. i \in 1 .. f
        BY <2>1
      <3>2. (q \o d)[i] = q[i]
        BY <1>3, <2>1
      <3>3. s[i] = g[Cell(r + i - 1)]
        BY <1>2
      <3> QED BY <1>2, <3>1, <3>2, <3>3
    <2>2. CASE i > f
      <3>1. i - f \in 1 .. Len(d) /\ i - f - 1 \in Nat
        BY <1>1, <2>2
      <3>2. Cell(((r + f) % Mod) + (i - f - 1)) = Cell(r + f + (i - f - 1))
        BY <1>1, <3>1, CellOfPointer
      <3>3. ((r + f) % Mod) + (i - f - 1) = ((r + f) % Mod) + (i - f) - 1
            /\ r + f + (i - f - 1) = r + i - 1
        BY <1>1
      <3> QED BY <1>2, <1>3, <2>2, <3>1, <3>2, <3>3
    <2>3. i <= f \/ i > f
      <3>1. i \in Nat
        BY <1>1
      <3> QED BY <3>1
    <2> QED BY <2>1, <2>2, <2>3
  <1>5. s = q \o d
    BY <1>2, <1>3, <1>4, SeqEqual
  <1> QED BY <1>5 DEF s, q

-----------------------------------------------------------------------------
(* Every step is one of the queue, or none.                                *)

LEMMA QueueIs == Queue = QueueOf(ring, rd, Filled)
  BY DEF Queue, QueueOf

LEMMA QueueNext == Queue' = QueueOf(ring', rd', Filled')
  BY DEF Queue, QueueOf

LEMMA StreamStart ==
    ASSUME WizInit
    PROVE  Stream!StreamInit
  <1>1. Queue = <<>>
    BY DEF WizInit, Queue
  <1> QED BY <1>1 DEF WizInit, Stream!StreamInit, Idle, Stream!Idle

LEMMA StreamStep ==
    ASSUME WizInv, [WizNext]_wizVars
    PROVE  [Stream!StreamNext]_Stream!streamVars
  <1> USE DEF WizInv
  <1> DEFINE q == QueueOf(ring, rd, Filled)
  <1>1. Filled \in Nat /\ rd \in Nat /\ ring \in [0 .. Size - 1 -> Value] /\ Filled <= Size
        /\ Size \in Nat /\ Counter \in 0 .. Size
    BY LevelFacts, Sizes DEF WizTypeOK
  <1>2. Queue = q /\ Len(q) = Filled
    BY <1>1, QueueIs, QueueOfIs
  <1>3. CASE PeerSends
    <2>1. PICK v \in Value : ring' = [ring EXCEPT ![Cell(rd + Filled)] = v]
      BY <1>3 DEF PeerSends
    <2>2. dir = "rx" /\ Filled < Size /\ UNCHANGED <<dir, rd, data>> /\ Counter' = Counter + 1
      BY <1>3 DEF PeerSends
    <2>3. Filled' = Filled + 1
      BY <2>2 DEF Filled
    <2>4. Queue' = Append(q, v)
      BY <1>1, <2>1, <2>2, <2>3, QueuePut, QueueNext
    <2>5. Stream!PeerPuts
      BY <1>2, <2>2, <2>4 DEF Stream!PeerPuts
    <2> QED BY <2>5 DEF Stream!StreamNext
  <1>4. CASE PeerTakes
    <2>1. dir = "tx" /\ Filled > 0 /\ UNCHANGED <<dir, ring, data>> /\ rd' = (rd + 1) % Mod
      BY <1>4 DEF PeerTakes
    <2>2. Filled' = Filled - 1
      BY <1>4, PeerTakesKeeps
    <2>3. q # <<>> /\ Queue' = Tail(q)
      BY <1>1, <2>1, <2>2, QueueTake, QueueNext
    <2>4. Stream!PeerGets
      BY <1>2, <2>1, <2>3 DEF Stream!PeerGets
    <2> QED BY <2>4 DEF Stream!StreamNext
  <1>5. CASE ReadCounter \/ Retry \/ SetPointerHi \/ SetPointerLo
    <2>1. UNCHANGED <<dir, Filled, ring, rd, data>>
      BY <1>5, CountingKeeps, SetPointerKeeps
    <2>2. Queue' = Queue
      BY <2>1, QueueIs, QueueNext
    <2> QED BY <2>1, <2>2 DEF Stream!streamVars
  <1>6. CASE wiz_recv_data
    <2> DEFINE n == IF Result < MaxLen THEN Result ELSE MaxLen
    <2>1. dir = "rx" /\ pc = "done" /\ step = "count" /\ Result > 0
          /\ UNCHANGED <<vars, dir, ring, rd>>
          /\ data' = [i \in 1 .. n |-> ring[Cell(reg + i - 1)]]
      BY <1>6 DEF wiz_recv_data
    <2>2. reg = rd /\ Filled' = Filled /\ Filled = Counter /\ data = <<>>
      BY <2>1 DEF PointerInv, DataInv, Known, Filled, Counter, vars
    <2>3. Result \in Nat /\ Result <= Counter /\ MaxLen \in 1 .. Size
      BY <2>1, LevelFacts, ResultLow, Sizes
    <2>4. n \in 1 .. Filled
      BY <1>1, <2>1, <2>2, <2>3
    <2> HIDE DEF n
    <2>5. data' = QueueOf(ring, rd, n)
      BY <2>1, <2>2 DEF QueueOf
    <2>6. data' = SubSeq(q, 1, n)
      BY <1>1, <2>4, <2>5, QueueFirst
    <2>7. Queue' = Queue
      BY <2>1, <2>2, QueueIs, QueueNext
    <2>8. Stream!ReadOldest
      BY <1>2, <2>1, <2>2, <2>4, <2>6, <2>7 DEF Stream!ReadOldest
    <2> QED BY <2>8 DEF Stream!StreamNext
  <1>7. CASE wiz_send_data
    <2>1. UNCHANGED <<dir, rd, data>> /\ dir = "tx"
      BY <1>7 DEF wiz_send_data
    <2>2. Filled' = Filled /\ Len(data) \in 1 .. Counter
          /\ \A c \in 0 .. Size - 1 :
                 (\A j \in 1 .. Len(data) : c # Cell(Known + j - 1)) => ring'[c] = ring[c]
      BY <1>7, SendWrites
    <2>3. ASSUME NEW i \in 1 .. Filled, NEW j \in 1 .. Len(data)
          PROVE  Cell(rd + i - 1) # Cell(Known + j - 1)
      <3>1. Known = (rd + Filled) % Mod /\ Filled = Size - Counter
        BY <2>1 DEF Known, Filled
      <3>2. Cell(((rd + Filled) % Mod) + (j - 1)) = Cell(rd + Filled + (j - 1))
        <4>1. rd + Filled \in Nat /\ j - 1 \in Nat
          BY <1>1, <2>2
        <4> QED BY <4>1, CellOfPointer
      <3>3. ((rd + Filled) % Mod) + (j - 1) = Known + j - 1
        BY <1>1, <2>2, <3>1, LevelFacts
      <3>4. rd + i - 1 \in Nat /\ rd + Filled + (j - 1) \in Nat
            /\ rd + i - 1 < rd + Filled + (j - 1)
            /\ rd + Filled + (j - 1) < rd + i - 1 + Size
        BY <1>1, <2>2, <3>1
      <3> QED BY <3>2, <3>3, <3>4, CellApart
    <2>4. ASSUME NEW i \in 1 .. Filled PROVE ring'[Cell(rd + i - 1)] = ring[Cell(rd + i - 1)]
      <3>1. rd + i - 1 \in Nat
        BY <1>1
      <3> QED BY <2>2, <2>3, <3>1, CellIn
    <2>5. Queue' = Queue
      BY <1>1, <2>1, <2>2, <2>4, QueueSame, QueueIs, QueueNext
    <2> QED BY <2>1, <2>5 DEF Stream!streamVars
  <1>8. CASE Command
    <2> DEFINE n == Len(data)
    <2>1. n \in 1 .. Counter /\ reg = (Known + n) % Mod /\ ring' = ring /\ dir' = dir
          /\ rd' = (IF dir = "rx" THEN reg ELSE rd)
          /\ Filled' = (IF dir = "rx" THEN Filled - n ELSE Filled + n)
          /\ \A i \in 1 .. n : data[i] = ring[Cell(Known + i - 1)]
      BY <1>8, CommandMoves
    <2>2. data' \in Idle /\ data \in Messages \cup {<<>>}
      BY <1>8 DEF Command, WizTypeOK
    <2>3. CASE dir = "rx"
      <3>1. Known = rd /\ Filled = Counter
        BY <2>3 DEF Known, Filled
      <3>2. n \in 1 .. Filled
        BY <2>1, <3>1
      <3> HIDE DEF n
      <3>3. Queue' = QueueOf(ring, (rd + n) % Mod, Filled - n)
        BY <2>1, <2>3, <3>1, QueueNext
      <3>4. Queue' = SubSeq(q, n + 1, Filled)
        BY <1>1, <3>2, <3>3, QueueDrop
      <3>5. data # <<>>
        BY <3>2, <1>1 DEF n
      <3>6. Stream!Release
        BY <1>2, <2>1, <2>2, <2>3, <3>4, <3>5 DEF Stream!Release, Idle, n
      <3> QED BY <3>6 DEF Stream!StreamNext
    <2>4. CASE dir # "rx"
      <3>1. Known = (rd + Filled) % Mod /\ Filled = Size - Counter /\ dir = "tx"
        BY <2>4 DEF Known, Filled, WizTypeOK
      <3>2. data \in Messages /\ data \in Seq(Value)
        BY <3>1, MessageLen DEF DataInv
      <3>3. Queue' = q \o data
        BY <1>1, <2>1, <3>1, <3>2, QueueAdd, QueueNext
      <3>4. Filled + n <= Size
        BY <1>1, <2>1, <3>1
      <3>5. Stream!Write
        BY <1>2, <2>1, <2>2, <3>1, <3>3, <3>4 DEF Stream!Write, Idle
      <3> QED BY <3>5 DEF Stream!StreamNext
    <2> QED BY <2>3, <2>4
  <1>9. CASE Reopen
    <2>1. dir' = dir /\ Filled' = 0 /\ data' \in Idle
      BY <1>9 DEF Reopen
    <2>2. Queue' = <<>>
      BY <2>1, QueueNext DEF QueueOf
    <2>3. Stream!Reset
      BY <2>1, <2>2 DEF Stream!Reset, Idle, Stream!Idle
    <2> QED BY <2>3 DEF Stream!StreamNext
  <1>10. CASE UNCHANGED wizVars
    <2>1. UNCHANGED <<dir, Filled, ring, rd, data>>
      BY <1>10 DEF wizVars, vars, Filled, Counter
    <2> QED BY <2>1, QueueIs, QueueNext DEF Stream!streamVars
  <1> QED BY <1>3, <1>4, <1>5, <1>6, <1>7, <1>8, <1>9, <1>10 DEF WizNext, Driver

-----------------------------------------------------------------------------
(* The theorems.                                                           *)

\* Every byte lies in the ring, every pointer has 16 bits, and the chip never
\* has more bytes than its ring (w5500.c:223-253).
THEOREM WizTypeCorrect == WizSpec => []WizTypeOK
  BY WizAlways, PTL DEF WizInv

\* With wiz_recv_data and wiz_send_data a socket is a queue of bytes: none is
\* lost, doubled, reordered or overwritten where a pointer or the ring wraps
\* (w5500.c:223-253, socket.c:409-547).
THEOREM WizImplementsByteStream == WizSpec => ImplementsByteStream
  <1>1. WizInit => Stream!StreamInit
    BY StreamStart
  <1>2. WizInv /\ [WizNext]_wizVars => [Stream!StreamNext]_Stream!streamVars
    BY StreamStep
  <1> QED BY <1>1, <1>2, WizAlways, PTL DEF WizSpec, ImplementsByteStream, Stream!StreamSpec

\* In the driver the counter is what RegRead16 takes it for, so what recv and
\* send compare is a value it has had (w5500.c:188-221).
THEOREM WizResultWasThere == WizSpec => []ResultWasThere
  BY WizAlways, PTL DEF WizInv, CountInv, RegReadInv

\* A socket with data says 0 only while its high byte leaves 0.
THEOREM WizZeroOnlyAcrossBoundary == WizSpec => []ZeroOnlyAcrossBoundary
  BY WizAlways, PTL DEF WizInv, CountInv, RegReadInv
=============================================================================
