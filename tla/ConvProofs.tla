----------------------------- MODULE ConvProofs -----------------------------
(***************************************************************************)
(* The ring of convolution inputs, for any kernel width, any tile that is  *)
(* a multiple of it, and any prompts.  The argument is about positions     *)
(* modulo the kernel width: a launch may run at a wrong position as long   *)
(* as it is wrong by a multiple of the width.                              *)
(***************************************************************************)
EXTENDS ConvHistory, TLAPS

-----------------------------------------------------------------------------
\* Remainders.

\* A number of turns and a slot determine a position.
LEMMA Remainder ==
    ASSUME NEW q \in Nat, NEW d \in Nat \ {0}, NEW r \in 0 .. d - 1
    PROVE  (q * d + r) % d = r
  BY Z3

\* The quotient.
LEMMA Division ==
    ASSUME NEW n \in Nat, NEW d \in Nat \ {0}
    PROVE  /\ n \div d \in Nat
           /\ (n \div d) * d <= n
           /\ n < (n \div d) * d + d
  BY Z3

\* Products are natural, distribute and grow.
LEMMA ProductType ==
    ASSUME NEW a \in Nat, NEW b \in Nat
    PROVE  a * b \in Nat
  BY Z3

LEMMA Distribute ==
    ASSUME NEW a \in Nat, NEW b \in Nat, NEW d \in Nat
    PROVE  (a + b) * d = a * d + b * d
  BY Z3

LEMMA ProductStep ==
    ASSUME NEW a \in Nat, NEW b \in Nat, NEW d \in Nat, a < b
    PROVE  a * d + d <= b * d
  BY Z3

\* A position is a number of turns and a slot.
LEMMA Decompose ==
    ASSUME NEW n \in Nat, NEW d \in Nat \ {0}
    PROVE  /\ n % d \in 0 .. d - 1
           /\ \E q \in Nat : q * d \in Nat /\ n = q * d + (n % d)
<1>1. PICK q \in Nat : q * d <= n /\ n < q * d + d
  BY Division
<1>2. q * d \in Nat
  BY ProductType
<1>3. PICK r \in 0 .. d - 1 : n = q * d + r
  BY <1>1, <1>2
<1> DEFINE m == n % d
<1>4. m = r
  BY <1>3, Remainder
<1> HIDE DEF m
<1>5. m \in 0 .. d - 1 /\ n = q * d + m
  BY <1>3, <1>4
<1> QED
  BY <1>2, <1>5 DEF m

\* Whole turns do not change the slot.
LEMMA WholeTurns ==
    ASSUME NEW n \in Nat, NEW q \in Nat, NEW d \in Nat \ {0}
    PROVE  (n + q * d) % d = n % d
<1> DEFINE r == n % d
<1>1. PICK p \in Nat : p * d \in Nat /\ n = p * d + r
  BY Decompose
<1>2. r \in 0 .. d - 1
  BY Decompose
<1> HIDE DEF r
<1>3. (p + q) * d = p * d + q * d /\ q * d \in Nat
  BY Distribute, ProductType
<1>4. n + q * d = (p + q) * d + r
  BY <1>1, <1>2, <1>3
<1>5. p + q \in Nat
  OBVIOUS
<1>6. ((p + q) * d + r) % d = r
  BY <1>2, <1>5, Remainder
<1> QED
  BY <1>4, <1>6 DEF r

\* Positions in one slot are whole turns apart.
LEMMA TurnsBetween ==
    ASSUME NEW a \in Nat, NEW b \in Nat, NEW d \in Nat \ {0},
           a % d = b % d, a <= b
    PROVE  \E q \in Nat : b = a + q * d
<1> DEFINE r == a % d
<1>1. PICK x \in Nat : x * d \in Nat /\ a = x * d + r
  BY Decompose
<1>2. PICK y \in Nat : y * d \in Nat /\ b = y * d + r
  BY Decompose
<1>3. r \in 0 .. d - 1
  BY Decompose
<1> HIDE DEF r
<1>4. x * d <= y * d
  BY <1>1, <1>2, <1>3
<1>5. x <= y
  BY <1>1, <1>2, <1>4, ProductStep
<1>6. PICK q \in Nat : y = x + q
  BY <1>5
<1>7. y * d = x * d + q * d /\ q * d \in Nat
  BY <1>6, Distribute, ProductType
<1> QED
  BY <1>1, <1>2, <1>3, <1>7

\* Different positions in one slot are at least a turn apart.
LEMMA TurnApart ==
    ASSUME NEW a \in Nat, NEW b \in Nat, NEW d \in Nat \ {0},
           a % d = b % d, a < b
    PROVE  a + d <= b
<1>0. a <= b
  OBVIOUS
<1>1. PICK q \in Nat : b = a + q * d
  BY <1>0, TurnsBetween, Zenon
<1>2. 0 * d = 0 /\ q * d \in Nat
  BY ProductType
<1>3. 0 < q
  BY <1>1, <1>2
<1>4. 0 * d + d <= q * d
  BY <1>3, ProductStep
<1> QED
  BY <1>1, <1>2, <1>4

\* The first positions are their own slots.
LEMMA FirstTurn ==
    ASSUME NEW d \in Nat \ {0}, NEW r \in 0 .. d - 1
    PROVE  r % d = r
<1>1. 0 * d + r = r
  OBVIOUS
<1> QED
  BY <1>1, Remainder

-----------------------------------------------------------------------------
\* The kernel width and the tile.
LEMMA Widths ==
    /\ Kernel \in Nat \ {0} /\ Kernel - 1 \in Nat
    /\ Tile \in Nat \ {0}
    /\ Kernel <= Tile
<1>1. Kernel \in Nat \ {0} /\ Tile \in Nat \ {0} /\ Tile % Kernel = 0
  BY ConvAssumption
<1>2. 0 % Kernel = 0
  BY <1>1, FirstTurn
<1>3. 0 \in Nat /\ 0 < Tile /\ 0 % Kernel = Tile % Kernel
  BY <1>1, <1>2
<1>4. 0 + Kernel <= Tile
  BY <1>1, <1>3, TurnApart
<1> QED
  BY <1>1, <1>4, ConvAssumption

\* Positions that are whole tiles apart are whole turns apart.
LEMMA TilesAreTurns ==
    ASSUME NEW a \in Nat, NEW b \in Nat, a % Tile = b % Tile, a <= b
    PROVE  \E q \in Nat : b = a + q * Kernel
<1>1. PICK n \in Nat : b = a + n * Tile
  BY Widths, TurnsBetween, Zenon
<1>2. PICK p \in Nat : Tile = p * Kernel
  <2>1. PICK p \in Nat : Tile = p * Kernel + (Tile % Kernel) /\ p * Kernel \in Nat
    BY Widths, Decompose
  <2> QED
    BY <2>1, ConvAssumption
<1>3. n * (p * Kernel) = (n * p) * Kernel /\ n * p \in Nat
  BY Widths, Z3
<1> QED
  BY <1>1, <1>2, <1>3

-----------------------------------------------------------------------------
\* One launch.

\* Reading the ring at another position that is whole turns behind.
LEMMA RingRead ==
    ASSUME length \in Nat, Aligned(ring, length),
           NEW base \in Nat, NEW q \in Nat, length = base + q * Kernel,
           NEW lag \in 1 .. Kernel, lag <= base
    PROVE  ring[(base - lag) % Kernel] = length + 1 - lag
<1>1. base - lag \in Nat /\ q * Kernel \in Nat
  BY Widths, ProductType
<1>2. ((base - lag) + q * Kernel) % Kernel = (base - lag) % Kernel
  BY <1>1, Widths, WholeTurns
<1>3. (base - lag) + q * Kernel = length - lag
  BY <1>1
<1>4. lag <= length
  BY <1>1
<1>5. ring[(length - lag) % Kernel] = length + 1 - lag
  BY <1>4 DEF Aligned
<1> QED
  BY <1>2, <1>3, <1>5

\* A tap is right unless the position hides a predecessor that exists.
LEMMA TapCorrect ==
    ASSUME length \in Nat, Aligned(ring, length),
           NEW base \in Nat, NEW q \in Nat, length = base + q * Kernel,
           NEW j \in Nat, NEW lag \in 1 .. Kernel - 1,
           base + j < lag => length + j < lag
    PROVE  Tap(base, j, lag) = Predecessor(j, lag)
<1>1. q * Kernel \in Nat /\ base <= length
  BY Widths, ProductType
<1>2. CASE base + j < lag
  BY <1>2 DEF Tap, Predecessor
<1>3. CASE lag <= j
  <2>1. ~ (base + j < lag) /\ ~ (length + j < lag)
    BY <1>3
  <2> QED
    BY <1>3, <2>1 DEF Tap, Predecessor
<1>4. CASE ~ (base + j < lag) /\ ~ (lag <= j)
  <2>1. lag - j \in 1 .. Kernel /\ lag - j <= base
    BY <1>4, Widths
  <2>2. ring[(base - (lag - j)) % Kernel] = length + 1 - (lag - j)
    BY <2>1, RingRead
  <2>3. base - (lag - j) = base + j - lag /\ length + 1 - (lag - j) = length + j + 1 - lag
    BY Widths
  <2>4. ~ (length + j < lag)
    BY <1>1, <1>4
  <2> QED
    BY <1>4, <2>2, <2>3, <2>4 DEF Tap, Predecessor
<1> QED
  BY <1>2, <1>3, <1>4

Written(base, count, s) == {j \in 0 .. count - 1 : (base + j) % Kernel = s}

\* The ring keeps the last of the inputs that share a slot.
LEMMA LastWritten ==
    ASSUME NEW base \in Nat, NEW count \in Nat, NEW s, Written(base, count, s) # {}
    PROVE  \E last \in Written(base, count, s) :
              \A i \in Written(base, count, s) : i <= last
<1>1. PICK j \in 0 .. count - 1 : (base + j) % Kernel = s
  BY DEF Written
<1> DEFINE rest == count - 1 - j
           r == rest % Kernel
<1>2. rest \in Nat
  BY <1>1
<1>3. PICK x \in Nat : x * Kernel \in Nat /\ rest = x * Kernel + r
  BY <1>2, Widths, Decompose
<1>4. r \in 0 .. Kernel - 1
  BY <1>2, Widths, Decompose
<1> HIDE DEF r
<1> DEFINE last == j + x * Kernel
<1>5. last \in 0 .. count - 1 /\ last = count - 1 - r /\ base + last = (base + j) + x * Kernel
  BY <1>1, <1>3, <1>4, Widths
<1>6. ((base + j) + x * Kernel) % Kernel = (base + j) % Kernel
  <2>1. base + j \in Nat
    BY <1>1
  <2> QED
    BY <2>1, Widths, WholeTurns
<1>7. last \in Written(base, count, s)
  BY <1>1, <1>5, <1>6 DEF Written
<1> HIDE DEF last
<1>8. ASSUME NEW i \in Written(base, count, s), last < i
      PROVE  FALSE
  <2>1. /\ i \in 0 .. count - 1
        /\ (base + last) % Kernel = (base + i) % Kernel
        /\ base + last \in Nat /\ base + i \in Nat /\ base + last < base + i
    BY <1>5, <1>7, <1>8 DEF Written
  <2>2. base + last + Kernel <= base + i
    BY <2>1, Widths, TurnApart
  <2> QED
    BY <1>4, <1>5, <2>1, <2>2, Widths
<1>9. \A i \in Written(base, count, s) : i \in Nat
  BY DEF Written
<1> QED
  BY <1>5, <1>7, <1>8, <1>9

\* A slot after a launch.
LEMMA SlotAfter ==
    ASSUME NEW base \in Nat, NEW count \in Nat, Convolve(base, count), NEW s \in Slots
    PROVE  /\ Written(base, count, s) = {} => ring'[s] = ring[s]
           /\ \A last \in Written(base, count, s) :
                 (\A i \in Written(base, count, s) : i <= last) =>
                     ring'[s] = length + last + 1
<1> DEFINE chosen == CHOOSE j \in Written(base, count, s) :
                        \A i \in Written(base, count, s) : i <= j
<1>1. ring'[s] = IF Written(base, count, s) = {} THEN ring[s] ELSE length + chosen + 1
  BY DEF Convolve, Written
<1>2. ASSUME NEW last \in Written(base, count, s),
             \A i \in Written(base, count, s) : i <= last
      PROVE  chosen = last
  <2>1. /\ chosen \in Written(base, count, s)
        /\ \A i \in Written(base, count, s) : i <= chosen
    BY <1>2
  <2>2. Written(base, count, s) \subseteq Nat
    BY DEF Written
  <2> HIDE DEF chosen
  <2>3. last <= chosen /\ chosen <= last
    BY <1>2, <2>1
  <2> QED
    BY <1>2, <2>1, <2>2, <2>3
<1> HIDE DEF chosen
<1> QED
  BY <1>1, <1>2

\* A launch at a position that is whole turns behind leaves the newest inputs
\* in their slots.
LEMMA RingAfter ==
    ASSUME length \in Nat, Aligned(ring, length),
           NEW base \in Nat, NEW q \in Nat, length = base + q * Kernel,
           NEW count \in Nat, Convolve(base, count)
    PROVE  Aligned(ring', length')
<1>1. length' = length + count /\ q * Kernel \in Nat
  BY Widths, ProductType DEF Convolve
<1> SUFFICES ASSUME NEW lag \in 1 .. Kernel, lag <= length + count
             PROVE  ring'[(length + count - lag) % Kernel] = length + count + 1 - lag
  BY <1>1 DEF Aligned
<1> DEFINE s == (length + count - lag) % Kernel
<1>2. length + count - lag \in Nat /\ s \in Slots
  <2>1. length + count - lag \in Nat
    BY Widths
  <2> QED
    BY <2>1, Widths, Decompose DEF Slots
<1>3. CASE lag <= count
  <2> DEFINE j == count - lag
  <2>1. j \in 0 .. count - 1 /\ base + j \in Nat /\ length + count - lag = (base + j) + q * Kernel
    BY <1>1, <1>3, Widths
  <2>2. ((base + j) + q * Kernel) % Kernel = (base + j) % Kernel
    BY <2>1, Widths, WholeTurns
  <2>3. j \in Written(base, count, s)
    BY <2>1, <2>2 DEF Written
  <2>4. ASSUME NEW i \in Written(base, count, s) PROVE i <= j
    <3>1. i \in 0 .. count - 1 /\ (base + i) % Kernel = (base + j) % Kernel
      BY <2>1, <2>2, <2>4 DEF Written
    <3> HIDE DEF s
    <3>2. CASE j < i
      <4>1. base + i \in Nat /\ base + j < base + i
        BY <2>1, <3>1, <3>2
      <4>2. base + j + Kernel <= base + i
        BY <2>1, <3>1, <4>1, Widths, TurnApart
      <4> QED
        BY <3>1, <4>2, Widths
    <3> QED
      BY <2>1, <3>1, <3>2
  <2>5. ring'[s] = length + j + 1
    BY <1>2, <2>3, <2>4, SlotAfter
  <2> QED
    BY <2>5, Widths
<1>4. CASE count < lag
  <2> DEFINE m == lag - count
  <2>1. m \in 1 .. Kernel /\ m <= length /\ length + count - lag = length - m
    BY <1>4, Widths
  <2>2. Written(base, count, s) = {}
    <3> SUFFICES ASSUME NEW j \in Written(base, count, s) PROVE FALSE
      OBVIOUS
    <3>1. j \in 0 .. count - 1 /\ (base + j) % Kernel = s /\ base + j \in Nat
      BY DEF Written
    <3>2. ((base + j) + q * Kernel) % Kernel = (base + j) % Kernel
      BY <3>1, Widths, WholeTurns
    <3>3. (base + j) + q * Kernel = length + j
      BY <1>1, <3>1
    <3>4. (length + j) % Kernel = (length - m) % Kernel
      BY <2>1, <3>1, <3>2, <3>3
    <3>5. length - m \in Nat /\ length + j \in Nat /\ length - m < length + j
      BY <2>1, <3>1
    <3> HIDE DEF s, m
    <3>6. length - m + Kernel <= length + j
      BY <3>4, <3>5, Widths, TurnApart
    <3> QED
      BY <1>4, <3>1, <3>6, Widths DEF m
  <2>3. ring'[s] = ring[s]
    BY <1>2, <2>2, SlotAfter
  <2>4. ring[(length - m) % Kernel] = length + 1 - m
    BY <2>1 DEF Aligned
  <2> QED
    BY <2>1, <2>3, <2>4, Widths
<1> QED
  BY <1>3, <1>4, Widths

\* Every input a launch computes with a wrong predecessor sits at a seam.
LEMMA MisreadAtSeam ==
    ASSUME length \in Nat, Aligned(ring, length),
           NEW base \in Nat, base % Tile = length % Tile, base <= length,
           NEW count \in 0 .. Tile, Convolve(base, count),
           NEW i \in misread', i \notin misread
    PROVE  AtSeam(i) /\ (base = length => FALSE)
<1>1. PICK j \in 0 .. count - 1 :
         /\ i = length + j + 1
         /\ \E lag \in 1 .. Kernel - 1 : Tap(base, j, lag) # Predecessor(j, lag)
  BY DEF Convolve
<1>2. PICK lag \in 1 .. Kernel - 1 : Tap(base, j, lag) # Predecessor(j, lag)
  BY <1>1
<1>3. PICK q \in Nat : length = base + q * Kernel
  BY TilesAreTurns
<1>4. base + j < lag /\ ~ (length + j < lag)
  BY <1>1, <1>2, <1>3, TapCorrect
<1>5. base < length /\ base + j \in 0 .. Tile - 1 /\ j \in Nat
  BY <1>1, <1>4, Widths
<1>6. base + Tile <= length
  BY <1>5, Widths, TurnApart, Zenon
<1>7. PICK n \in Nat : length = base + n * Tile
  BY Widths, TurnsBetween, Zenon
<1>8. ((base + j) + n * Tile) % Tile = (base + j) % Tile /\ n * Tile \in Nat
  <2>1. base + j \in Nat
    BY <1>5
  <2>2. n * Tile \in Nat
    BY Widths, ProductType
  <2> QED
    BY <2>1, <2>2, Widths, WholeTurns
<1>9. (base + j) + n * Tile = i - 1
  BY <1>1, <1>5, <1>7, <1>8
<1>10. (base + j) % Tile = base + j
  BY <1>5, Widths, FirstTurn
<1>11. (i - 1) % Tile < Kernel - 1
  BY <1>4, <1>5, <1>8, <1>9, <1>10, Widths
<1>12. i > Tile
  BY <1>1, <1>5, <1>6, Widths
<1> QED
  BY <1>5, <1>11, <1>12 DEF AtSeam

\* Types after a launch.
LEMMA LaunchTypes ==
    ASSUME ring \in Rings, length \in Nat, misread \subseteq 1 .. length,
           NEW base \in Nat, NEW count \in Nat, Convolve(base, count)
    PROVE  ring' \in Rings /\ length' \in Nat /\ misread' \subseteq 1 .. length'
<1>1. length' = length + count
  BY DEF Convolve
<1>2. ASSUME NEW i \in misread' PROVE i \in 1 .. length'
  <2>1. CASE i \in misread
    BY <1>1, <2>1
  <2>2. CASE i \notin misread
    <3>1. PICK j \in 0 .. count - 1 : i = length + j + 1
      BY <2>2 DEF Convolve
    <3> QED
      BY <1>1, <3>1
  <2> QED
    BY <2>1, <2>2
<1>3. ASSUME NEW s \in Slots PROVE ring'[s] \in Nat
  <2>1. CASE Written(base, count, s) = {}
    BY <2>1, SlotAfter DEF Rings
  <2>2. CASE Written(base, count, s) # {}
    <3>1. PICK last \in Written(base, count, s) :
             \A i \in Written(base, count, s) : i <= last
      BY <2>2, LastWritten
    <3>2. last \in Nat
      BY DEF Written
    <3>3. ring'[s] = length + last + 1
      BY <3>1, SlotAfter
    <3> QED
      BY <3>2, <3>3
  <2> QED
    BY <2>1, <2>2
<1>4. ring' \in Rings
  <2>1. ring' = [s \in Slots |-> ring'[s]]
    BY DEF Convolve
  <2> QED
    BY <1>3, <2>1 DEF Rings
<1> QED
  BY <1>1, <1>2, <1>4

-----------------------------------------------------------------------------
Seams(inputs) == \A i \in inputs : AtSeam(i)

\* The inputs the host loop has written since its first step.
HostAligned ==
    \A lag \in 1 .. Kernel - 1 :
        lag < length - goal => ring[(length - lag) % Kernel] = length + 1 - lag

\* Where each phase finds the ring and the position of the storage object.
Phases ==
    /\ pc \in {"cold", "suffix"} =>
          /\ position <= length /\ position % Tile = length % Tile
          /\ Aligned(ring, length) /\ Seams(misread)
    /\ pc = "save" => length = goal /\ Aligned(ring, length) /\ Seams(misread)
    /\ pc = "decode" /\ graph =>
          goal <= length /\ Aligned(ring, length) /\ Seams(misread)
    /\ pc = "decode" /\ ~graph =>
          \/ length = goal
          \/ goal < length /\ position = length /\ HostAligned
    /\ pc = "suffix" => position = checkpoint.length

ConvInv == TypeOK /\ CheckpointSound /\ MisreadIsConfined /\ Phases

\* Nothing has been run.
LEMMA ConvInit == Init => ConvInv
<1> SUFFICES ASSUME Init PROVE ConvInv
  OBVIOUS
<1>1. Zeroed \in Rings /\ \A r : Aligned(r, 0)
  BY DEF Zeroed, Rings, Aligned
<1> QED
  BY <1>1, ConvAssumption
  DEF Init, ConvInv, TypeOK, CheckpointSound, MisreadIsConfined, Phases, NoCheckpoint

\* The length of a tile.
LEMMA ChunkBounds ==
    ASSUME goal \in Nat, length \in Nat, length < goal
    PROVE  /\ Chunk \in 1 .. Tile
           /\ length + Chunk <= goal
           /\ length + Chunk # goal => Chunk = Tile
  BY Widths DEF Chunk

\* A prefill tile at a position that is whole tiles behind.
LEMMA TileStep ==
    ASSUME ConvInv, pc \in {"cold", "suffix"},
           NEW base \in Nat, base % Tile = length % Tile, base <= length,
           Convolve(base, Chunk)
    PROVE  /\ ring' \in Rings /\ length' \in Nat /\ misread' \subseteq 1 .. length'
           /\ length' = length + Chunk
           /\ Aligned(ring', length') /\ Seams(misread')
           /\ length' # goal => length' < goal /\ length' % Tile = length % Tile
<1>1. /\ length \in Nat /\ goal \in Nat /\ length < goal
      /\ Aligned(ring, length) /\ Seams(misread)
      /\ ring \in Rings /\ misread \subseteq 1 .. length
  BY DEF ConvInv, TypeOK, Phases
<1>2. /\ Chunk \in 1 .. Tile /\ Chunk \in Nat /\ Chunk \in 0 .. Tile
      /\ length + Chunk <= goal
      /\ length + Chunk # goal => Chunk = Tile
  BY <1>1, ChunkBounds, Widths
<1> HIDE DEF Chunk
<1>3. length' = length + Chunk
  BY DEF Convolve
<1>4. ring' \in Rings /\ length' \in Nat /\ misread' \subseteq 1 .. length'
  BY <1>1, <1>2, LaunchTypes
<1>5. Aligned(ring', length')
  <2>1. PICK q \in Nat : length = base + q * Kernel
    BY <1>1, TilesAreTurns
  <2> QED
    BY <1>1, <1>2, <2>1, RingAfter
<1>6. ASSUME NEW i \in misread' PROVE AtSeam(i)
  <2>1. CASE i \in misread
    BY <1>1, <2>1 DEF Seams
  <2>2. CASE i \notin misread
    BY <1>1, <1>2, <2>2, MisreadAtSeam
  <2> QED
    BY <2>1, <2>2
<1>7. length' # goal => length' < goal /\ length' % Tile = length % Tile
  <2>1. (length + 1 * Tile) % Tile = length % Tile
    BY <1>1, Widths, WholeTurns
  <2>2. 1 * Tile = Tile
    BY Widths
  <2> QED
    BY <1>1, <1>2, <1>3, <2>1, <2>2
<1> QED
  BY <1>3, <1>4, <1>5, <1>6, <1>7 DEF Seams

\* A step of the decode graph, at the position of the next token.
LEMMA GraphStep ==
    ASSUME ConvInv, Aligned(ring, length), Convolve(length, 1)
    PROVE  /\ ring' \in Rings /\ length' \in Nat /\ misread' \subseteq 1 .. length'
           /\ length' = length + 1 /\ Aligned(ring', length') /\ misread' = misread
<1>1. length \in Nat /\ ring \in Rings /\ misread \subseteq 1 .. length
  BY DEF ConvInv, TypeOK
<1>2. length = length + 0 * Kernel /\ 1 \in Nat /\ 1 \in 0 .. Tile
  BY <1>1, Widths
<1>3. length' = length + 1
  BY DEF Convolve
<1>4. ring' \in Rings /\ misread' \subseteq 1 .. length'
  BY <1>1, <1>2, LaunchTypes
<1>5. Aligned(ring', length')
  BY <1>1, <1>2, RingAfter
<1>6. misread' = misread
  <2>1. misread \subseteq misread'
    BY DEF Convolve
  <2>2. ASSUME NEW i \in misread', i \notin misread PROVE FALSE
    <3>1. length <= length
      BY <1>1
    <3> QED
      BY <1>1, <1>2, <2>2, <3>1, MisreadAtSeam
  <2> QED
    BY <2>1, <2>2
<1> QED
  BY <1>1, <1>3, <1>4, <1>5, <1>6

\* A step of the host loop.  The first may run at a stale position; the others
\* find what the loop has written, and misread only while older inputs are
\* within the kernel's reach.
LEMMA HostStep ==
    ASSUME ConvInv, pc = "decode", ~graph, Convolve(position, 1)
    PROVE  /\ ring' \in Rings /\ length' \in Nat /\ misread' \subseteq 1 .. length'
           /\ length' = length + 1 /\ goal < length'
           /\ \A lag \in 1 .. Kernel - 1 :
                 lag < length' - goal => ring'[(length' - lag) % Kernel] = length' + 1 - lag
           /\ \A i \in misread' : AtSeam(i) \/ i \in goal + 1 .. goal + Kernel
<1>1. /\ length \in Nat /\ position \in Nat /\ goal \in Nat
      /\ ring \in Rings /\ misread \subseteq 1 .. length
      /\ \A i \in misread : AtSeam(i) \/ i \in goal + 1 .. goal + Kernel
  BY DEF ConvInv, TypeOK, MisreadIsConfined
<1>2. length' = length + 1
  BY DEF Convolve
<1>3. ring' \in Rings /\ misread' \subseteq 1 .. length'
  BY <1>1, LaunchTypes
<1>4. ASSUME NEW i \in misread', i \notin misread
      PROVE  /\ i = length + 1
             /\ \E lag \in 1 .. Kernel - 1 : Tap(position, 0, lag) # Predecessor(0, lag)
  <2>1. PICK j \in 0 .. 1 - 1 :
           /\ i = length + j + 1
           /\ \E lag \in 1 .. Kernel - 1 : Tap(position, j, lag) # Predecessor(j, lag)
    BY <1>4 DEF Convolve
  <2>2. j = 0
    OBVIOUS
  <2> QED
    BY <1>1, <2>1, <2>2
<1>5. CASE length = goal
  <2>1. ASSUME NEW i \in misread' PROVE AtSeam(i) \/ i \in goal + 1 .. goal + Kernel
    <3>1. CASE i \in misread
      BY <1>1, <3>1
    <3>2. CASE i \notin misread
      BY <1>1, <1>4, <1>5, <3>2, Widths
    <3> QED
      BY <3>1, <3>2
  <2>2. \A lag \in 1 .. Kernel - 1 : ~ (lag < length' - goal)
    BY <1>1, <1>2, <1>5, Widths
  <2> QED
    BY <1>1, <1>2, <1>3, <1>5, <2>1, <2>2
<1>6. CASE goal < length /\ position = length /\ HostAligned
  <2>1. ASSUME NEW lag \in 1 .. Kernel - 1, lag < length' - goal
        PROVE  ring'[(length' - lag) % Kernel] = length' + 1 - lag
    <3> DEFINE s == (length + 1 - lag) % Kernel
    <3>1. length + 1 - lag \in Nat /\ length' - lag = length + 1 - lag
      BY <1>1, <1>2, <2>1, Widths
    <3>2. s \in Slots
      BY <3>1, Widths, Decompose DEF Slots
    <3>3. CASE lag = 1
      <4>1. length + 0 = length /\ length + 1 - 1 = length
        BY <1>1
      <4>2. 0 \in Written(length, 1, s) /\ \A i \in Written(length, 1, s) : i <= 0
        BY <3>3, <4>1 DEF Written
      <4>3. ring'[s] = length + 0 + 1
        BY <1>1, <1>6, <3>2, <4>2, SlotAfter
      <4> QED
        BY <1>1, <1>2, <3>1, <3>3, <4>3
    <3>4. CASE lag # 1
      <4>1. lag - 1 \in 1 .. Kernel - 1 /\ lag - 1 < length - goal
            /\ length + 1 - lag = length - (lag - 1)
        BY <1>1, <1>2, <2>1, <3>4, Widths
      <4>2. ring[(length - (lag - 1)) % Kernel] = length + 1 - (lag - 1)
        BY <1>6, <4>1 DEF HostAligned
      <4>3. Written(length, 1, s) = {}
        <5>1. ASSUME NEW j \in Written(length, 1, s) PROVE FALSE
          <6>1. j = 0 /\ (length + j) % Kernel = s
            BY DEF Written
          <6>2. length % Kernel = (length + 1 - lag) % Kernel
            BY <1>1, <6>1
          <6>3. length + 1 - lag < length
            BY <1>1, <3>1, <4>1, Widths
          <6> HIDE DEF s
          <6>4. length + 1 - lag + Kernel <= length
            BY <1>1, <3>1, <6>2, <6>3, Widths, TurnApart
          <6> QED
            BY <1>1, <6>4, Widths
        <5> QED
          BY <5>1
      <4>4. ring'[s] = ring[s]
        BY <1>1, <1>6, <3>2, <4>3, SlotAfter
      <4> QED
        BY <1>1, <1>2, <3>1, <4>1, <4>2, <4>4, Widths
    <3> QED
      BY <3>3, <3>4
  <2>2. ASSUME NEW i \in misread' PROVE AtSeam(i) \/ i \in goal + 1 .. goal + Kernel
    <3>1. CASE i \in misread
      BY <1>1, <3>1
    <3>2. CASE i \notin misread
      <4>1. i = length + 1
        BY <1>4, <3>2
      <4>2. PICK lag \in 1 .. Kernel - 1 : Tap(length, 0, lag) # Predecessor(0, lag)
        BY <1>4, <1>6, <3>2
      <4>3. CASE length < goal + Kernel
        BY <1>1, <1>6, <4>1, <4>3, Widths
      <4>4. CASE ~ (length < goal + Kernel)
        <5>1. lag < length - goal /\ ~ (length + 0 < lag) /\ ~ (lag <= 0)
              /\ length + 0 - lag = length - lag /\ length + 0 + 1 - lag = length + 1 - lag
          BY <1>1, <4>4, Widths
        <5>2. ring[(length - lag) % Kernel] = length + 1 - lag
          BY <1>6, <5>1 DEF HostAligned
        <5> QED
          BY <4>2, <5>1, <5>2 DEF Tap, Predecessor
      <4> QED
        BY <4>3, <4>4
    <3> QED
      BY <3>1, <3>2
  <2> QED
    BY <1>1, <1>2, <1>3, <1>6, <2>1, <2>2
<1> QED
  BY <1>5, <1>6 DEF ConvInv, Phases

\* Every action keeps the invariant.
LEMMA ConvNext == ConvInv /\ [Next]_vars => ConvInv'
<1> SUFFICES ASSUME ConvInv, [Next]_vars PROVE ConvInv'
  OBVIOUS
<1> USE DEF state
<1>0. Zeroed \in Rings /\ \A r : Aligned(r, 0)
  BY DEF Zeroed, Rings, Aligned
<1>1. ASSUME NEW len \in Prompts, NEW g \in Graph, Cold(len, g) PROVE ConvInv'
  <2>1. len \in Nat \ {0} /\ g \in BOOLEAN
    BY ConvAssumption
  <2> QED
    BY <1>0, <1>1, <2>1
    DEF Cold, ConvInv, TypeOK, CheckpointSound, MisreadIsConfined, Phases, Seams
<1>2. ASSUME NEW len \in Prompts, NEW g \in Graph, Resume(len, g) PROVE ConvInv'
  <2>1. len \in Nat \ {0} /\ g \in BOOLEAN
    BY ConvAssumption
  <2> QED
    BY <1>2, <2>1
    DEF Resume, ConvInv, TypeOK, CheckpointSound, MisreadIsConfined, Phases, Seams, AtSeam
<1>3. CASE ColdTile
  <2>1. /\ position \in Nat /\ position % Tile = length % Tile /\ position <= length
        /\ Convolve(position, Chunk) /\ pc = "cold" /\ goal \in Nat
    BY <1>3 DEF ColdTile, ConvInv, TypeOK, Phases
  <2>2. /\ ring' \in Rings /\ length' \in Nat /\ misread' \subseteq 1 .. length'
        /\ length' = length + Chunk
        /\ Aligned(ring', length') /\ Seams(misread')
        /\ length' # goal => length' < goal /\ length' % Tile = length % Tile
    BY <2>1, TileStep
  <2>3. Phases' /\ TypeOK'
    <3>1. /\ UNCHANGED <<position, checkpoint, goal, graph>>
          /\ pc' = IF length' = goal THEN "save" ELSE "cold"
      BY <1>3, <2>2 DEF ColdTile
    <3>2. length' # goal => position <= length'
      BY <2>1, <2>2, ChunkBounds DEF ConvInv, TypeOK
    <3> QED
      BY <2>1, <2>2, <3>1, <3>2 DEF Phases, ConvInv, TypeOK
  <2> QED
    BY <1>3, <2>2, <2>3 DEF ColdTile, ConvInv, CheckpointSound, MisreadIsConfined, Seams, AtSeam
<1>4. CASE SuffixTile
  <2>1. /\ SuffixBase \in Nat /\ SuffixBase % Tile = length % Tile /\ SuffixBase <= length
        /\ Convolve(SuffixBase, Chunk) /\ pc = "suffix" /\ goal \in Nat
    BY <1>4 DEF SuffixTile, SuffixBase, ConvInv, TypeOK, Phases
  <2>2. /\ ring' \in Rings /\ length' \in Nat /\ misread' \subseteq 1 .. length'
        /\ length' = length + Chunk
        /\ Aligned(ring', length') /\ Seams(misread')
        /\ length' # goal => length' < goal /\ length' % Tile = length % Tile
    BY <2>1, TileStep
  <2>3. Phases' /\ TypeOK'
    <3>1. /\ UNCHANGED <<checkpoint, goal, graph>>
          /\ IF length' = goal THEN pc' = "save" /\ position' = goal
             ELSE pc' = "suffix" /\ position' = position
      BY <1>4, <2>2 DEF SuffixTile
    <3>2. length' # goal => position <= length' /\ position % Tile = length' % Tile
      BY <2>1, <2>2, ChunkBounds DEF ConvInv, TypeOK, Phases
    <3> QED
      BY <2>1, <2>2, <3>1, <3>2 DEF Phases, ConvInv, TypeOK
  <2> QED
    BY <1>4, <2>2, <2>3 DEF SuffixTile, ConvInv, CheckpointSound, MisreadIsConfined, Seams, AtSeam
<1>5. CASE Save
  BY <1>5 DEF Save, ConvInv, TypeOK, CheckpointSound, MisreadIsConfined, Phases, Seams, AtSeam
<1>6. CASE DoNotSave
  BY <1>6 DEF DoNotSave, ConvInv, TypeOK, CheckpointSound, MisreadIsConfined, Phases, Seams, AtSeam
<1>7. CASE StopAtFirst \/ EndHostDecode
  <2>1. pc' = "idle" /\ UNCHANGED <<ring, position, length, misread, checkpoint, goal, graph>>
    BY <1>7 DEF StopAtFirst, EndHostDecode
  <2> QED
    BY <2>1 DEF ConvInv, TypeOK, CheckpointSound, MisreadIsConfined, Phases, AtSeam
<1>8. CASE DecodeGraph
  <2>1. /\ Aligned(ring, length) /\ Seams(misread) /\ Convolve(length, 1)
        /\ goal <= length /\ length \in Nat /\ goal \in Nat
        /\ pc = "decode" /\ graph = TRUE
    BY <1>8 DEF DecodeGraph, ConvInv, Phases, TypeOK
  <2>2. /\ ring' \in Rings /\ length' \in Nat /\ misread' \subseteq 1 .. length'
        /\ length' = length + 1 /\ Aligned(ring', length') /\ misread' = misread
    BY <2>1, GraphStep
  <2>3. UNCHANGED <<position, checkpoint, pc, goal, graph>>
    BY <1>8 DEF DecodeGraph
  <2> QED
    BY <2>1, <2>2, <2>3
    DEF ConvInv, TypeOK, CheckpointSound, MisreadIsConfined, Phases, Seams, AtSeam
<1>9. CASE EndGraphDecode
  BY <1>9 DEF EndGraphDecode, ConvInv, TypeOK, CheckpointSound, MisreadIsConfined, Phases, AtSeam
<1>10. CASE DecodeHost
  <2>1. pc = "decode" /\ ~graph /\ Convolve(position, 1)
    BY <1>10 DEF DecodeHost
  <2>2. /\ ring' \in Rings /\ length' \in Nat /\ misread' \subseteq 1 .. length'
        /\ length' = length + 1 /\ goal < length'
        /\ \A lag \in 1 .. Kernel - 1 :
              lag < length' - goal => ring'[(length' - lag) % Kernel] = length' + 1 - lag
        /\ \A i \in misread' : AtSeam(i) \/ i \in goal + 1 .. goal + Kernel
    BY <2>1, HostStep
  <2>3. /\ UNCHANGED <<checkpoint, goal, graph>>
        /\ \/ position' = length' /\ pc' = "decode"
           \/ position' = position /\ pc' = "idle"
    BY <1>10, <2>1, <2>2 DEF DecodeHost
  <2>4. pc' = "decode" => HostAligned'
    BY <2>2, <2>3 DEF HostAligned
  <2>5. TypeOK'
    BY <2>2, <2>3 DEF ConvInv, TypeOK
  <2>6. Phases'
    BY <2>1, <2>2, <2>3, <2>4 DEF Phases
  <2> QED
    BY <2>1, <2>2, <2>3, <2>5, <2>6 DEF ConvInv, CheckpointSound, MisreadIsConfined, AtSeam
<1>11. CASE UNCHANGED vars
  <2>1. UNCHANGED <<ring, position, length, misread, checkpoint, pc, goal, graph>>
    BY <1>11 DEF vars
  <2>2. TypeOK' /\ CheckpointSound' /\ MisreadIsConfined'
    BY <2>1 DEF ConvInv, TypeOK, CheckpointSound, MisreadIsConfined, AtSeam
  <2>3. HostAligned => HostAligned'
    BY <2>1 DEF HostAligned
  <2>4. Phases'
    BY <2>1, <2>3 DEF ConvInv, Phases
  <2> QED
    BY <2>2, <2>4 DEF ConvInv
<1> QED
  BY <1>1, <1>2, <1>3, <1>4, <1>5, <1>6, <1>7, <1>8, <1>9, <1>10, <1>11 DEF Next

\* Every reachable state satisfies it.
LEMMA ConvInvariant == Spec => []ConvInv
  BY ConvInit, ConvNext, PTL DEF Spec

-----------------------------------------------------------------------------
\* Every variable keeps its type.
THEOREM ConvTypeCorrect == Spec => []TypeOK
<1>1. ConvInv => TypeOK
  BY DEF ConvInv
<1> QED
  BY <1>1, ConvInvariant, PTL

\* In every loop but the host's the ring holds the newest inputs where the next
\* launch looks for them.
THEOREM RingCorrect == Spec => []RingFollowsSequence
<1>1. ConvInv => RingFollowsSequence
  BY DEF ConvInv, Phases, RingFollowsSequence
<1> QED
  BY <1>1, ConvInvariant, PTL

\* The ring of a checkpoint is complete, and damaged at seams only.
THEOREM CheckpointRingCorrect == Spec => []CheckpointSound
<1>1. ConvInv => CheckpointSound
  BY DEF ConvInv
<1> QED
  BY <1>1, ConvInvariant, PTL

\* Damage is confined to seams and to the first steps of the host loop.
THEOREM DamageConfined == Spec => []MisreadIsConfined
<1>1. ConvInv => MisreadIsConfined
  BY DEF ConvInv
<1> QED
  BY <1>1, ConvInvariant, PTL

\* A suffix tile at a position that is not smaller than the kernel reads true
\* predecessors.
LEMMA SuffixStep ==
    ASSUME ConvInv, pc = "suffix", checkpoint.length >= Kernel - 1, SuffixTile
    PROVE  misread' = misread
<1>1. /\ length \in Nat /\ Aligned(ring, length)
      /\ SuffixBase \in Nat /\ SuffixBase % Tile = length % Tile /\ SuffixBase <= length
      /\ Kernel - 1 <= SuffixBase
  BY Widths DEF SuffixBase, ConvInv, TypeOK, Phases
<1>2. PICK q \in Nat : length = SuffixBase + q * Kernel
  BY <1>1, TilesAreTurns
<1>3. ASSUME NEW j \in 0 .. Chunk - 1, NEW lag \in 1 .. Kernel - 1
      PROVE  Tap(SuffixBase, j, lag) = Predecessor(j, lag)
  <2>1. j \in Nat /\ ~ (SuffixBase + j < lag)
    BY <1>1, Widths
  <2> QED
    BY <1>1, <1>2, <2>1, TapCorrect
<1> QED
  BY <1>3 DEF SuffixTile, Convolve

\* Suffix tiles and replays of the decode graph read true predecessors.
THEOREM WarmStepsCorrect == Spec => WarmStepsReadHistory
<1> DEFINE Warm == (pc = "suffix" /\ checkpoint.length >= Kernel - 1) \/ (pc = "decode" /\ graph)
<1>1. ConvInv /\ [Next]_vars => [Warm => misread' = misread]_vars
  <2> SUFFICES ASSUME ConvInv, Next, Warm PROVE misread' = misread
    OBVIOUS
  <2>1. CASE SuffixTile
    <3>1. pc = "suffix"
      BY <2>1 DEF SuffixTile
    <3> QED
      BY <2>1, <3>1, SuffixStep
  <2>2. CASE DecodeGraph
    <3>1. Aligned(ring, length) /\ Convolve(length, 1)
      BY <2>2 DEF DecodeGraph, ConvInv, Phases
    <3> QED
      BY <3>1, GraphStep
  <2>3. CASE ~SuffixTile /\ ~DecodeGraph
    BY <2>3 DEF Next, Cold, Resume, ColdTile, Save, DoNotSave, StopAtFirst,
       EndGraphDecode, DecodeHost, EndHostDecode, state
  <2> QED
    BY <2>1, <2>2, <2>3
<1> QED
  BY <1>1, ConvInvariant, PTL DEF Spec, WarmStepsReadHistory

=============================================================================
