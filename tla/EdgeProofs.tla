----------------------------- MODULE EdgeProofs -----------------------------
(***************************************************************************)
(* Proofs about EdgeDetection, for every size of image, every set of       *)
(* images, every team of threads, every way of sharing the iterations out  *)
(* and every pair of thresholds.                                           *)
(*                                                                         *)
(* The argument: the suppression clears the border, so no pixel of it is   *)
(* weak, so no call goes on from it, so no call leaves the matrix.  A      *)
(* pixel that is not yet what it will be (weak and not strong, or not weak *)
(* and not cleared) is one some thread still has to visit; the barrier     *)
(* finds no such pixel.                                                    *)
(***************************************************************************)
EXTENDS EdgeDetection, FiniteSetTheorems, TLAPS

Calls == [at : Coordinates, from : Coordinates]

BorderCleared ==
  stage \in {"threshold", "link", "saved"} => \A p \in Pixels \ Interior : edges[p] = 0

MarksInOrder ==
  stage \in {"link", "saved"} =>
    /\ weak \subseteq Interior
    /\ strong \subseteq weak
    /\ \A p \in Pixels : edges[p] >= LowThreshold <=> p \in weak

Around(p) == {q \in Pixels : /\ q[1] \in p[1] - 1 .. p[1] + 1
                             /\ q[2] \in p[2] - 1 .. p[2] + 1}

Peak(p) ==
  /\ \A q \in Around(p) : magnitude[p] >= magnitude[q]
  /\ Root(magnitude[p]) \in LowThreshold..255

PeaksKept ==
  stage \in {"threshold", "link", "saved"} =>
    \A p \in Interior : Peak(p) => edges[p] = Root(magnitude[p])

Near(c) == c.at[1] - c.from[1] \in -1..1 /\ c.at[2] - c.from[2] \in -1..1

CallsAreNear == \A t \in Threads : \A i \in DOMAIN calls[t] : Near(calls[t][i])

ReadersHaveCalls == \A t \in Threads : read[t] => calls[t] # <<>>

InCalls(p, s) == \E i \in DOMAIN s : s[i].at = p

Pending(p) == \E t \in Threads : p \in left[t] \/ InCalls(p, calls[t])

Unsettled(p) == (p \in weak /\ p \notin strong) \/ (p \notin weak /\ edges[p] # 0)

UnsettledArePending ==
  stage \in {"link", "saved"} => \A p \in Pixels : Unsettled(p) => Pending(p)

\* Threads have nothing to do outside the second loop.
OnlyLinking ==
  stage # "link" => \A t \in Threads : left[t] = {} /\ calls[t] = <<>>

IInv ==
  /\ TypeOK
  /\ StaysInside
  /\ BorderCleared
  /\ MarksInOrder
  /\ PeaksKept
  /\ CallsAreNear
  /\ ReadersHaveCalls
  /\ OnlyLinking
  /\ UnsettledArePending

-----------------------------------------------------------------------------
\* Pixels and the arithmetic of the stages.

\* The neighbours of an interior pixel are pixels.
LEMMA NeighboursAreInside ==
  ASSUME NEW p \in Interior, NEW i \in -1..1, NEW j \in -1..1
  PROVE  <<p[1] + i, p[2] + j>> \in Pixels
BY SizeAssumption DEF Interior, Pixels

\* Every interior pixel is a pixel, and a pixel is a pair of coordinates.
LEMMA InteriorIsInside == Interior \subseteq Pixels /\ Pixels \subseteq Coordinates
BY SizeAssumption DEF Interior, Pixels, Coordinates

\* A zero of the border is a byte, as every pixel is.
LEMMA PaddedIsAByte ==
  ASSUME NEW img \in [Pixels -> Bytes], NEW r, NEW c
  PROVE  Padded(img, r, c) \in 0..255
<1>1. CASE <<r, c>> \in Pixels
  BY <1>1 DEF Padded, Bytes
<1>2. CASE <<r, c>> \notin Pixels
  BY <1>2 DEF Padded
<1> QED
  BY <1>1, <1>2

\* The blur makes bytes of bytes.
LEMMA BlurMakesBytes ==
  ASSUME NEW img \in [Pixels -> Bytes], NEW p \in Pixels
  PROVE  Blurred(img, p) \in Bytes
<1> DEFINE At(i, j) == Padded(img, p[1] + i, p[2] + j)
<1>1. ASSUME NEW i, NEW j
      PROVE  At(i, j) \in 0..255
  BY PaddedIsAByte
<1>2. Blurred(img, p) =
        (Centre * At(0, 0)
         + Side * (At(-1, 0) + At(1, 0) + At(0, -1) + At(0, 1))
         + Corner * (At(-1, -1) + At(-1, 1) + At(1, -1) + At(1, 1))) \div Total
  BY DEF Blurred
<1> HIDE DEF At
<1>b0. PICK b0 \in 0..255 : b0 = At(0, 0)    BY <1>1
<1>b1. PICK b1 \in 0..255 : b1 = At(-1, 0)   BY <1>1
<1>b2. PICK b2 \in 0..255 : b2 = At(1, 0)    BY <1>1
<1>b3. PICK b3 \in 0..255 : b3 = At(0, -1)   BY <1>1
<1>b4. PICK b4 \in 0..255 : b4 = At(0, 1)    BY <1>1
<1>b5. PICK b5 \in 0..255 : b5 = At(-1, -1)  BY <1>1
<1>b6. PICK b6 \in 0..255 : b6 = At(-1, 1)   BY <1>1
<1>b7. PICK b7 \in 0..255 : b7 = At(1, -1)   BY <1>1
<1>b8. PICK b8 \in 0..255 : b8 = At(1, 1)    BY <1>1
<1> DEFINE n == 20418 * b0 + 12384 * (b1 + b2 + b3 + b4) + 7511 * (b5 + b6 + b7 + b8)
<1>3. n \in Int /\ 0 <= n /\ n <= 255 * 99998
  OBVIOUS
<1>4. Total = 99998
  BY DEF Total, Centre, Side, Corner
<1>5. n = Centre * b0 + Side * (b1 + b2 + b3 + b4) + Corner * (b5 + b6 + b7 + b8)
  BY DEF Centre, Side, Corner
<1> HIDE DEF n
<1>6. Blurred(img, p) = n \div 99998
  BY <1>2, <1>4, <1>5, <1>b0, <1>b1, <1>b2, <1>b3, <1>b4, <1>b5, <1>b6, <1>b7, <1>b8
<1>7. n \div 99998 \in 0..255
  BY <1>3
<1> QED
  BY <1>6, <1>7 DEF Bytes

\* The squared length of a gradient is an integer.
LEMMA SquaresAreIntegers ==
  ASSUME NEW e \in [Pixels -> Bytes], NEW p \in Interior
  PROVE  Squared(e, p) \in Int
<1>1. ASSUME NEW i \in -1..1, NEW j \in -1..1
      PROVE  e[<<p[1] + i, p[2] + j>>] \in Int
  <2>1. <<p[1] + i, p[2] + j>> \in Pixels
    BY NeighboursAreInside
  <2> QED
    BY <2>1 DEF Bytes
<1>2. p[1] \in Int /\ p[2] \in Int
  BY SizeAssumption DEF Interior
<1>3. /\ e[<<p[1] - 1, p[2] - 1>>] \in Int /\ e[<<p[1] - 1, p[2] + 0>>] \in Int
      /\ e[<<p[1] - 1, p[2] + 1>>] \in Int
      /\ e[<<p[1] + 1, p[2] - 1>>] \in Int /\ e[<<p[1] + 1, p[2] + 0>>] \in Int
      /\ e[<<p[1] + 1, p[2] + 1>>] \in Int
      /\ e[<<p[1], p[2] - 1>>] \in Int /\ e[<<p[1], p[2] + 1>>] \in Int
  <2>1. /\ p[1] + (-1) = p[1] - 1 /\ p[2] + (-1) = p[2] - 1
        /\ p[1] + 0 = p[1] /\ p[2] + 0 = p[2]
    BY <1>2
  <2> QED
    BY <1>1, <2>1
<1>4. GradientX(e, p) \in Int
  <2>1. /\ p[2] + (-1) = p[2] - 1
        /\ GradientX(e, p) = (e[<<p[1] - 1, p[2] + 1>>] + 2 * e[<<p[1], p[2] + 1>>]
                              + e[<<p[1] + 1, p[2] + 1>>])
                             - (e[<<p[1] - 1, p[2] + (-1)>>] + 2 * e[<<p[1], p[2] + (-1)>>]
                              + e[<<p[1] + 1, p[2] + (-1)>>])
    BY <1>2 DEF GradientX
  <2> QED
    BY <1>3, <2>1
<1>5. GradientY(e, p) \in Int
  <2>1. /\ p[1] + (-1) = p[1] - 1
        /\ p[2] + 0 = p[2]
        /\ GradientY(e, p) = (e[<<p[1] + (-1), p[2] - 1>>] + 2 * e[<<p[1] + (-1), p[2]>>]
                              + e[<<p[1] + (-1), p[2] + 1>>])
                             - (e[<<p[1] + 1, p[2] - 1>>] + 2 * e[<<p[1] + 1, p[2]>>]
                              + e[<<p[1] + 1, p[2] + 1>>])
    BY <1>2 DEF GradientY
  <2> QED
    BY <1>3, <2>1
<1> QED
  BY <1>4, <1>5 DEF Squared

\* What a magnitude leaves in a uint8_t is a byte.
LEMMA RootsAreBytes ==
  ASSUME NEW n
  PROVE  Byte(Root(n)) \in Bytes
<1>0. 1 \in Int /\ MaxMagnitude \in Int
  BY DEF MaxMagnitude
<1>1. IsFiniteSet(1..MaxMagnitude)
  BY <1>0, FS_Interval
<1>2. IsFiniteSet({m \in 1..MaxMagnitude : m * m <= n})
  BY <1>1, FS_Subset
<1>3. Root(n) \in Nat
  BY <1>2, FS_CardinalityType DEF Root
<1> QED
  BY <1>3 DEF Byte, Bytes

-----------------------------------------------------------------------------
\* Sequences of calls.

\* The head and the tail of a sequence that is not empty.
LEMMA HeadAndTail ==
  ASSUME NEW s \in Seq(Calls), s # <<>>
  PROVE  /\ Head(s) \in Calls
         /\ Head(s) = s[1]
         /\ 1 \in DOMAIN s
         /\ Tail(s) \in Seq(Calls)
         /\ \A i \in DOMAIN Tail(s) : i + 1 \in DOMAIN s /\ Tail(s)[i] = s[i + 1]
         /\ \A i \in DOMAIN s : i = 1 \/ (i - 1 \in DOMAIN Tail(s) /\ Tail(s)[i - 1] = s[i])
OBVIOUS

\* The elements of a concatenation are those of its parts.
LEMMA Joined ==
  ASSUME NEW s \in Seq(Calls), NEW u \in Seq(Calls)
  PROVE  /\ s \o u \in Seq(Calls)
         /\ \A i \in DOMAIN (s \o u) :
              \/ i \in DOMAIN s /\ (s \o u)[i] = s[i]
              \/ i - Len(s) \in DOMAIN u /\ (s \o u)[i] = u[i - Len(s)]
         /\ \A i \in DOMAIN u : i + Len(s) \in DOMAIN (s \o u) /\ (s \o u)[i + Len(s)] = u[i]
OBVIOUS

\* A call goes on to calls of pixels next to its own, which stay in the matrix
\* when its own is an interior one.
LEMMA OnwardStaysNear ==
  ASSUME NEW c \in Calls, c.at \in Interior, Near(c)
  PROVE  /\ Onward(c) \in Seq(Calls)
         /\ \A i \in DOMAIN Onward(c) : Onward(c)[i].at \in Pixels /\ Near(Onward(c)[i])
<1> DEFINE To(i, j) == Call(<<c.at[1] + i, c.at[2] + j>>, c.at)
<1>0. c.at \in Coordinates /\ c.from \in Coordinates /\ c.at[1] \in Int /\ c.at[2] \in Int
      /\ c.from[1] \in Int /\ c.from[2] \in Int
  BY DEF Calls, Coordinates
<1>1. ASSUME NEW i \in -1..1, NEW j \in -1..1
      PROVE  To(i, j) \in Calls /\ To(i, j).at \in Pixels /\ Near(To(i, j))
  <2>1. <<c.at[1] + i, c.at[2] + j>> \in Pixels
    BY NeighboursAreInside
  <2>2. <<c.at[1] + i, c.at[2] + j>> \in Coordinates
    BY <2>1, InteriorIsInside
  <2>3. /\ To(i, j).at = <<c.at[1] + i, c.at[2] + j>>
        /\ To(i, j).from = c.at
        /\ To(i, j) \in Calls
    BY <1>0, <2>2 DEF Call, Calls
  <2>4. Near(To(i, j))
    BY <1>0, <2>3 DEF Near
  <2> QED
    BY <2>1, <2>3, <2>4
<1> HIDE DEF To
<1>2. CASE c.at = c.from
  <2>1. Onward(c) = <<To(-1, -1), To(-1, 1), To(1, -1), To(1, 1)>>
    BY <1>2 DEF Onward, To
  <2>2. /\ To(-1, -1) \in Calls /\ To(-1, -1).at \in Pixels /\ Near(To(-1, -1))
        /\ To(-1, 1) \in Calls /\ To(-1, 1).at \in Pixels /\ Near(To(-1, 1))
        /\ To(1, -1) \in Calls /\ To(1, -1).at \in Pixels /\ Near(To(1, -1))
        /\ To(1, 1) \in Calls /\ To(1, 1).at \in Pixels /\ Near(To(1, 1))
    BY <1>1
  <2>3. Onward(c) \in Seq(Calls)
    BY <2>1, <2>2
  <2>4. ASSUME NEW i \in DOMAIN Onward(c)
        PROVE  Onward(c)[i] \in {To(-1, -1), To(-1, 1), To(1, -1), To(1, 1)}
    BY <2>1
  <2> QED
    BY <2>2, <2>3, <2>4
<1>3. CASE c.at # c.from
  <2> DEFINE d == To(c.at[1] - c.from[1], c.at[2] - c.from[2])
  <2>1. Onward(c) = <<d>>
    BY <1>3 DEF Onward, To
  <2>2. d \in Calls /\ d.at \in Pixels /\ Near(d)
    BY <1>1 DEF Near
  <2> HIDE DEF d
  <2>3. /\ Onward(c) \in Seq(Calls)
        /\ \A i \in DOMAIN Onward(c) : Onward(c)[i] = d
    BY <2>1, <2>2
  <2> QED
    BY <2>2, <2>3
<1> QED
  BY <1>2, <1>3

-----------------------------------------------------------------------------
\* The invariant is inductive.

LEMMA InitInv == Init => IInv
<1> SUFFICES ASSUME Init PROVE IInv
  OBVIOUS
<1>1. <<>> \in Seq(Calls)
  OBVIOUS
<1>2. TypeOK
  BY <1>1 DEF Init, TypeOK, Bytes, Calls
<1> QED
  BY <1>2 DEF Init, IInv, StaysInside, BorderCleared, MarksInOrder, PeaksKept, CallsAreNear,
              ReadersHaveCalls, OnlyLinking, UnsettledArePending

\* The first three stages only write matrices.
LEMMA StagesKeep ==
  ASSUME IInv, Load \/ applyGaussianBlur \/ sobelOperator
  PROVE  IInv'
<1> USE DEF threads
<1>1. UNCHANGED <<strong, weak, threads>> /\ stage' \notin {"threshold", "link", "saved"}
      /\ stage # "link"
  BY DEF Load, applyGaussianBlur, sobelOperator
<1>2. TypeOK'
  <2>1. CASE Load
    BY <2>1, ImagesAssumption DEF Load, IInv, TypeOK
  <2>2. CASE applyGaussianBlur
    <3>1. \A p \in Pixels : Blurred(image, p) \in Bytes
      BY BlurMakesBytes DEF IInv, TypeOK
    <3> QED
      BY <2>2, <3>1 DEF applyGaussianBlur, IInv, TypeOK
  <2>3. CASE sobelOperator
    <3>1. \A p \in Interior : Squared(edges, p) \in Int
      BY SquaresAreIntegers DEF IInv, TypeOK
    <3>2. magnitude' = [p \in Pixels |-> IF p \in Interior THEN Squared(edges, p) ELSE 0]
      BY <2>3 DEF sobelOperator
    <3>3. magnitude' \in [Pixels -> Int]
      BY <3>1, <3>2
    <3> QED
      BY <2>3, <3>3 DEF sobelOperator, IInv, TypeOK
  <2> QED
    BY <2>1, <2>2, <2>3
<1> QED
  BY <1>1, <1>2 DEF IInv, StaysInside, BorderCleared, MarksInOrder, PeaksKept, CallsAreNear,
              ReadersHaveCalls, OnlyLinking, UnsettledArePending

\* A peak is a maximum along every sector.
LEMMA PeaksAreMaxima ==
  ASSUME TypeOK, NEW p \in Interior, Peak(p), NEW d \in Sectors
  PROVE  IsMaximum(p, d)
<1>1. d[1] \in -1..1 /\ d[2] \in -1..1
  BY DEF Sectors
<1>2. p[1] \in Int /\ p[2] \in Int
  BY SizeAssumption DEF Interior
<1>3. ASSUME NEW i \in -1..1, NEW j \in -1..1
      PROVE  magnitude[p] >= magnitude[<<p[1] + i, p[2] + j>>]
  <2> DEFINE q == <<p[1] + i, p[2] + j>>
  <2>0. q \in Pixels /\ q[1] = p[1] + i /\ q[2] = p[2] + j
    BY NeighboursAreInside
  <2>1. q \in Around(p)
    BY <1>2, <2>0 DEF Around
  <2> QED
    BY <2>1 DEF Peak
<1>4. -d[1] \in -1..1 /\ -d[2] \in -1..1
      /\ p[1] + (-d[1]) = p[1] - d[1] /\ p[2] + (-d[2]) = p[2] - d[2]
  BY <1>1, <1>2
<1>5. magnitude[p] >= magnitude[<<p[1] + d[1], p[2] + d[2]>>]
  BY <1>1, <1>3
<1>6. magnitude[p] >= magnitude[<<p[1] + (-d[1]), p[2] + (-d[2])>>]
  BY <1>3, <1>4
<1> QED
  BY <1>4, <1>5, <1>6 DEF IsMaximum

\* The suppression clears the border.
LEMMA SuppressionKeeps ==
  ASSUME IInv, nonMaximumSuppression
  PROVE  IInv'
<1> USE DEF threads
<1>1. /\ UNCHANGED <<image, magnitude, strong, weak, left, calls, read>>
      /\ stage = "suppress" /\ stage' = "threshold"
  BY DEF nonMaximumSuppression
<1>2. PICK kept \in SUBSET Interior :
        /\ \A p \in Interior \ kept : \E d \in Sectors : ~IsMaximum(p, d)
        /\ edges' = [p \in Pixels |-> IF p \in kept THEN Byte(Root(magnitude[p])) ELSE 0]
  BY DEF nonMaximumSuppression
<1>3. edges' \in [Pixels -> Bytes]
  <2>1. \A p \in Pixels : Byte(Root(magnitude[p])) \in Bytes
    BY RootsAreBytes
  <2>2. 0 \in Bytes
    BY DEF Bytes
  <2> QED
    BY <1>2, <2>1, <2>2
<1>4. BorderCleared'
  BY <1>2 DEF BorderCleared
<1>5. ASSUME NEW p \in Interior, Peak(p)
      PROVE  edges'[p] = Root(magnitude[p])
  <2>1. ASSUME NEW d \in Sectors
        PROVE  IsMaximum(p, d)
    BY <1>5, PeaksAreMaxima DEF IInv
  <2>2. p \in kept /\ p \in Pixels
    BY <1>2, <2>1, InteriorIsInside
  <2>3. Root(magnitude[p]) \in LowThreshold..255
    BY <1>5 DEF Peak
  <2>4. Byte(Root(magnitude[p])) = Root(magnitude[p])
    BY <2>3, ThresholdsAssumption DEF Byte
  <2> QED
    BY <1>2, <2>2, <2>4
<1>6. PeaksKept'
  BY <1>1, <1>5 DEF PeaksKept, Peak, Around, Root
<1> QED
  BY <1>1, <1>3, <1>4, <1>6 DEF IInv, TypeOK, StaysInside, MarksInOrder, CallsAreNear,
              ReadersHaveCalls, OnlyLinking, UnsettledArePending

\* Peaks stay where the edges and the magnitudes do.
LEMMA PeaksStay ==
  ASSUME PeaksKept, UNCHANGED <<magnitude, edges>>,
         stage' \in {"threshold", "link", "saved"} => stage \in {"threshold", "link", "saved"}
  PROVE  PeaksKept'
BY DEF PeaksKept, Peak, Around

\* A weak pixel is an interior one, and every pixel is given to some thread.
LEMMA ThresholdKeeps ==
  ASSUME IInv, Threshold
  PROVE  IInv'
<1> USE DEF threads
<1>1. /\ UNCHANGED <<image, edges, magnitude, calls, read>>
      /\ stage = "threshold" /\ stage' = "link"
      /\ strong' = {p \in Pixels : edges[p] >= HighThreshold}
      /\ weak' = {p \in Pixels : edges[p] >= LowThreshold}
      /\ left' = [t \in Threads |-> {p \in Pixels : Owner[p] = t}]
  BY DEF Threshold
<1>2. \A p \in Pixels : edges[p] \in Int
  <2>1. edges \in [Pixels -> Bytes]
    BY DEF IInv, TypeOK
  <2> QED
    BY <2>1 DEF Bytes
<1>3. TypeOK'
  BY <1>1 DEF IInv, TypeOK
<1>4. MarksInOrder'
  <2>1. \A p \in Pixels \ Interior : edges[p] = 0
    BY <1>1 DEF IInv, BorderCleared
  <2> QED
    BY <1>1, <1>2, <2>1, ThresholdsAssumption DEF MarksInOrder
<1>5. \A p \in Pixels : Pending(p)'
  BY <1>1, OwnerAssumption DEF Pending
<1>6. PeaksKept'
  BY <1>1, PeaksStay DEF IInv
<1> QED
  BY <1>1, <1>3, <1>4, <1>5, <1>6 DEF IInv, StaysInside, BorderCleared, CallsAreNear,
              ReadersHaveCalls, OnlyLinking, UnsettledArePending

\* The barrier is passed when no thread has anything left.
LEMMA JoinKeeps ==
  ASSUME IInv, Join
  PROVE  IInv'
<1> USE DEF threads, matrices
<1>1. PeaksKept'
  BY PeaksStay DEF Join, IInv
<1> QED
  BY <1>1 DEF Join, IInv, TypeOK, StaysInside, BorderCleared, MarksInOrder, CallsAreNear,
         ReadersHaveCalls, OnlyLinking, UnsettledArePending, Unsettled, Pending, InCalls

\* An iteration that begins is a call of its pixel.
LEMMA BeginKeeps ==
  ASSUME IInv, NEW t \in Threads, Begin(t)
  PROVE  IInv'
<1> USE DEF matrices
<1>1. PICK p \in left[t] :
        /\ left' = [left EXCEPT ![t] = @ \ {p}]
        /\ calls' = [calls EXCEPT ![t] = <<Call(p, p)>>]
  BY DEF Begin
<1>2. /\ stage = "link" /\ calls[t] = <<>>
      /\ UNCHANGED <<stage, image, edges, magnitude, strong, weak, read>>
  BY DEF Begin
<1>3. p \in Pixels /\ p \in Coordinates
  BY InteriorIsInside DEF IInv, TypeOK
<1>4. /\ Call(p, p) \in Calls /\ Call(p, p).at = p /\ Near(Call(p, p))
  BY <1>3 DEF Call, Calls, Near, Coordinates
<1>5. /\ <<Call(p, p)>> \in Seq(Calls)
      /\ \A i \in DOMAIN <<Call(p, p)>> : <<Call(p, p)>>[i] = Call(p, p)
      /\ <<Call(p, p)>> # <<>>
      /\ 1 \in DOMAIN <<Call(p, p)>>
      /\ <<Call(p, p)>>[1] = Call(p, p)
  BY <1>4
<1>6. TypeOK'
  BY <1>1, <1>2, <1>5 DEF IInv, TypeOK, Calls
<1>7. /\ calls'[t] = <<Call(p, p)>>
      /\ left'[t] = left[t] \ {p}
      /\ \A u \in Threads \ {t} : calls'[u] = calls[u] /\ left'[u] = left[u]
  BY <1>1 DEF IInv, TypeOK
<1>8. StaysInside' /\ CallsAreNear'
  BY <1>3, <1>4, <1>5, <1>7 DEF IInv, StaysInside, CallsAreNear
<1>9. ReadersHaveCalls'
  BY <1>2, <1>5, <1>7 DEF IInv, ReadersHaveCalls
<1>10. ASSUME NEW q \in Pixels, Pending(q)
       PROVE  Pending(q)'
  <2>1. PICK u \in Threads : q \in left[u] \/ InCalls(q, calls[u])
    BY <1>10 DEF Pending
  <2>2. CASE u # t
    BY <2>1, <2>2, <1>7 DEF Pending
  <2>3. CASE u = t /\ q # p
    <3>1. q \in left'[t]
      BY <2>1, <2>3, <1>2, <1>7 DEF InCalls
    <3> QED
      BY <3>1 DEF Pending
  <2>4. CASE q = p
    <3>1. InCalls(q, calls'[t])
      BY <2>4, <1>4, <1>5, <1>7 DEF InCalls
    <3> QED
      BY <3>1 DEF Pending
  <2> QED
    BY <2>2, <2>3, <2>4
<1>11. UnsettledArePending'
  BY <1>2, <1>10 DEF IInv, UnsettledArePending, Unsettled
<1>12. PeaksKept'
  BY <1>2, PeaksStay DEF IInv
<1> QED
  BY <1>2, <1>6, <1>8, <1>9, <1>11, <1>12 DEF IInv, BorderCleared, MarksInOrder, OnlyLinking

\* A call of a strong pixel returns; any other has read its pixel.
LEMMA CheckKeeps ==
  ASSUME IInv, NEW t \in Threads, Check(t)
  PROVE  IInv'
<1> USE DEF matrices
<1>1. /\ stage = "link" /\ calls[t] # <<>> /\ ~read[t]
      /\ UNCHANGED <<stage, image, edges, magnitude, strong, weak, left>>
  BY DEF Check
<1>2. calls[t] \in Seq(Calls)
  BY DEF IInv, TypeOK, Calls
<1>3. CASE Head(calls[t]).at \in strong
  <2>1. calls' = [calls EXCEPT ![t] = Tail(@)] /\ read' = read
    BY <1>3 DEF Check
  <2>2. /\ calls'[t] = Tail(calls[t])
        /\ \A u \in Threads \ {t} : calls'[u] = calls[u]
    BY <2>1 DEF IInv, TypeOK
  <2>3. TypeOK'
    <3>1. calls' \in [Threads -> Seq(Calls)]
      <4>1. Tail(calls[t]) \in Seq(Calls)
        BY <1>1, <1>2, HeadAndTail
      <4> QED
        BY <2>1, <4>1 DEF IInv, TypeOK, Calls
    <3>2. TypeOK
      BY DEF IInv
    <3>3. UNCHANGED <<stage, image, edges, magnitude, strong, weak, left, read>>
      BY <1>1, <2>1
    <3> QED
      BY <3>1, <3>2, <3>3 DEF TypeOK, Calls
  <2>4. StaysInside' /\ CallsAreNear'
    <3>1. \A i \in DOMAIN Tail(calls[t]) :
            i + 1 \in DOMAIN calls[t] /\ Tail(calls[t])[i] = calls[t][i + 1]
      BY <1>1, <1>2, HeadAndTail
    <3>2. ASSUME NEW i \in DOMAIN calls'[t]
          PROVE  calls'[t][i].at \in Pixels /\ Near(calls'[t][i])
      BY <2>2, <3>1 DEF IInv, StaysInside, CallsAreNear
    <3> QED
      BY <2>2, <3>2 DEF IInv, StaysInside, CallsAreNear
  <2>5. ReadersHaveCalls'
    BY <1>1, <2>1, <2>2 DEF IInv, ReadersHaveCalls
  <2>6. ASSUME NEW q \in Pixels, Unsettled(q), Pending(q)
        PROVE  Pending(q)'
    <3>1. q # Head(calls[t]).at
      BY <1>1, <1>3, <2>6 DEF Unsettled, IInv, MarksInOrder
    <3>2. PICK u \in Threads : q \in left[u] \/ InCalls(q, calls[u])
      BY <2>6 DEF Pending
    <3>3. CASE u # t \/ q \in left[u]
      BY <1>1, <2>2, <3>2, <3>3 DEF Pending
    <3>4. CASE u = t /\ InCalls(q, calls[t])
      <4>1. PICK i \in DOMAIN calls[t] : calls[t][i].at = q
        BY <3>4 DEF InCalls
      <4>2. i - 1 \in DOMAIN Tail(calls[t]) /\ Tail(calls[t])[i - 1] = calls[t][i]
        BY <1>1, <1>2, <3>1, <4>1, HeadAndTail
      <4> QED
        BY <2>2, <4>1, <4>2 DEF Pending, InCalls
    <3> QED
      BY <3>2, <3>3, <3>4
  <2>7. UnsettledArePending'
    BY <1>1, <2>6 DEF IInv, UnsettledArePending, Unsettled
  <2>8. PeaksKept'
    BY <1>1, PeaksStay DEF IInv
  <2> QED
    BY <1>1, <2>3, <2>4, <2>5, <2>7, <2>8 DEF IInv, BorderCleared, MarksInOrder, OnlyLinking
<1>4. CASE Head(calls[t]).at \notin strong
  <2>1. read' = [read EXCEPT ![t] = TRUE] /\ calls' = calls
    BY <1>4 DEF Check
  <2>2. TypeOK'
    BY <1>1, <2>1 DEF IInv, TypeOK
  <2>3. ReadersHaveCalls'
    BY <1>1, <2>1 DEF IInv, TypeOK, ReadersHaveCalls
  <2>4. PeaksKept'
    BY <1>1, PeaksStay DEF IInv
  <2> QED
    BY <1>1, <2>1, <2>2, <2>3, <2>4 DEF IInv, StaysInside, BorderCleared, MarksInOrder,
         CallsAreNear, OnlyLinking, UnsettledArePending, Unsettled, Pending
<1> QED
  BY <1>3, <1>4

\* What marking a pixel leaves pending, given what it adds to the calls.
LEMMA PopKeepsPending ==
  ASSUME IInv, NEW t \in Threads, calls[t] # <<>>,
         NEW more \in Seq(Calls),
         calls' = [calls EXCEPT ![t] = more \o Tail(@)], left' = left,
         NEW q \in Pixels, q # Head(calls[t]).at, Pending(q)
  PROVE  Pending(q)'
<1>1. calls[t] \in Seq(Calls)
  BY DEF IInv, TypeOK, Calls
<1>2. /\ calls'[t] = more \o Tail(calls[t])
      /\ \A u \in Threads \ {t} : calls'[u] = calls[u]
  BY DEF IInv, TypeOK
<1>3. PICK u \in Threads : q \in left[u] \/ InCalls(q, calls[u])
  BY DEF Pending
<1>4. CASE u # t \/ q \in left[u]
  BY <1>2, <1>3, <1>4 DEF Pending
<1>5. CASE u = t /\ InCalls(q, calls[t])
  <2>1. PICK i \in DOMAIN calls[t] : calls[t][i].at = q
    BY <1>5 DEF InCalls
  <2>2. /\ Tail(calls[t]) \in Seq(Calls)
        /\ i - 1 \in DOMAIN Tail(calls[t])
        /\ Tail(calls[t])[i - 1] = calls[t][i]
    BY <1>1, <2>1, HeadAndTail
  <2> DEFINE j == (i - 1) + Len(more)
  <2>3. /\ j \in DOMAIN (more \o Tail(calls[t]))
        /\ (more \o Tail(calls[t]))[j] = Tail(calls[t])[i - 1]
    BY <2>2, Joined
  <2> HIDE DEF j
  <2>4. j \in DOMAIN calls'[t] /\ calls'[t][j].at = q
    BY <1>2, <2>1, <2>2, <2>3, Zenon
  <2> QED
    BY <2>4 DEF Pending, InCalls
<1> QED
  BY <1>3, <1>4, <1>5

\* A weak pixel becomes strong and its diagonals are called; another is cleared.
LEMMA MarkKeeps ==
  ASSUME IInv, NEW t \in Threads, Mark(t)
  PROVE  IInv'
<1> DEFINE c == Head(calls[t])
<1>1. /\ stage = "link" /\ read[t]
      /\ read' = [read EXCEPT ![t] = FALSE]
      /\ UNCHANGED <<stage, image, magnitude, weak, left>>
  BY DEF Mark
<1>2. calls[t] \in Seq(Calls) /\ calls[t] # <<>>
  BY <1>1 DEF IInv, TypeOK, Calls, ReadersHaveCalls
<1>3. /\ c \in Calls /\ c = calls[t][1] /\ 1 \in DOMAIN calls[t]
      /\ Tail(calls[t]) \in Seq(Calls)
      /\ \A i \in DOMAIN Tail(calls[t]) :
           i + 1 \in DOMAIN calls[t] /\ Tail(calls[t])[i] = calls[t][i + 1]
  BY <1>2, HeadAndTail
<1>4. c.at \in Pixels /\ Near(c)
  BY <1>3 DEF IInv, StaysInside, CallsAreNear
<1>5. PICK more \in Seq(Calls) :
        /\ calls' = [calls EXCEPT ![t] = more \o Tail(@)]
        /\ \A i \in DOMAIN more : more[i].at \in Pixels /\ Near(more[i])
  <2>1. CASE c.at \in weak
    <3>1. c.at \in Interior
      BY <1>1, <2>1 DEF IInv, MarksInOrder
    <3>2. /\ Onward(c) \in Seq(Calls)
          /\ \A i \in DOMAIN Onward(c) : Onward(c)[i].at \in Pixels /\ Near(Onward(c)[i])
      BY <1>3, <1>4, <3>1, OnwardStaysNear
    <3>3. calls' = [calls EXCEPT ![t] = Onward(c) \o Tail(@)]
      BY <2>1 DEF Mark
    <3> QED
      BY <3>2, <3>3
  <2>2. CASE c.at \notin weak
    <3>1. calls' = [calls EXCEPT ![t] = Tail(@)]
      BY <2>2 DEF Mark
    <3>2. <<>> \o Tail(calls[t]) = Tail(calls[t]) /\ <<>> \in Seq(Calls)
      BY <1>3
    <3>3. calls' = [calls EXCEPT ![t] = <<>> \o Tail(@)]
      BY <3>1, <3>2
    <3>4. \A i \in DOMAIN <<>> : <<>>[i].at \in Pixels /\ Near(<<>>[i])
      OBVIOUS
    <3> QED
      BY <3>2, <3>3, <3>4
  <2> QED
    BY <2>1, <2>2
<1>6. /\ calls'[t] = more \o Tail(calls[t])
      /\ \A u \in Threads \ {t} : calls'[u] = calls[u]
      /\ \A u \in Threads \ {t} : read'[u] = read[u]
      /\ read'[t] = FALSE
  BY <1>1, <1>5 DEF IInv, TypeOK
<1>7. /\ calls'[t] \in Seq(Calls)
      /\ \A i \in DOMAIN calls'[t] :
           \/ i \in DOMAIN more /\ calls'[t][i] = more[i]
           \/ /\ i - Len(more) \in DOMAIN Tail(calls[t])
              /\ calls'[t][i] = Tail(calls[t])[i - Len(more)]
  BY <1>3, <1>6, Joined
<1>8. StaysInside' /\ CallsAreNear'
  <2>1. ASSUME NEW i \in DOMAIN calls'[t]
        PROVE  calls'[t][i].at \in Pixels /\ Near(calls'[t][i])
    BY <1>3, <1>5, <1>7 DEF IInv, StaysInside, CallsAreNear
  <2> QED
    BY <1>6, <2>1 DEF IInv, StaysInside, CallsAreNear
<1>9. ReadersHaveCalls'
  BY <1>6 DEF IInv, ReadersHaveCalls
<1>10. ASSUME NEW q \in Pixels, q # c.at, Pending(q)
       PROVE  Pending(q)'
  BY <1>1, <1>2, <1>5, <1>10, PopKeepsPending
<1>11. /\ weak \subseteq Interior /\ weak \subseteq Pixels /\ strong \subseteq weak
       /\ \A q \in Pixels : Unsettled(q) => Pending(q)
       /\ \A q \in Pixels : edges[q] >= LowThreshold <=> q \in weak
       /\ edges \in [Pixels -> Bytes]
  BY <1>1 DEF IInv, TypeOK, MarksInOrder, UnsettledArePending
<1>12. calls' \in [Threads -> Seq(Calls)] /\ read' \in [Threads -> BOOLEAN]
  BY <1>1, <1>5, <1>6, <1>7 DEF IInv, TypeOK, Calls
<1> HIDE DEF c
<1>13. CASE c.at \in weak
  <2>1. strong' = strong \cup {c.at} /\ edges' = edges
    BY <1>13 DEF Mark, c
  <2>2. TypeOK'
    BY <1>1, <1>4, <1>12, <2>1 DEF IInv, TypeOK, Calls
  <2>3. MarksInOrder'
    BY <1>1, <1>11, <1>13, <2>1 DEF MarksInOrder
  <2>4. ASSUME NEW q \in Pixels, Unsettled(q)'
        PROVE  Pending(q)'
    <3>1. q # c.at /\ Unsettled(q)
      BY <1>1, <1>13, <2>1, <2>4 DEF Unsettled
    <3> QED
      BY <1>10, <1>11, <3>1
  <2>5. UnsettledArePending'
    BY <2>4 DEF UnsettledArePending
  <2>6. PeaksKept'
    BY <1>1, <2>1, PeaksStay DEF IInv
  <2> QED
    BY <1>1, <1>8, <1>9, <2>1, <2>2, <2>3, <2>5, <2>6 DEF IInv, BorderCleared, OnlyLinking
<1>14. CASE c.at \notin weak
  <2>1. strong' = strong \ {c.at} /\ edges' = [edges EXCEPT ![c.at] = 0]
    BY <1>14 DEF Mark, c
  <2>2. edges' \in [Pixels -> Bytes] /\ edges'[c.at] = 0
        /\ \A q \in Pixels \ {c.at} : edges'[q] = edges[q]
    BY <1>4, <1>11, <2>1 DEF Bytes
  <2>3. TypeOK'
    BY <1>1, <1>12, <2>1, <2>2 DEF IInv, TypeOK, Calls
  <2>4. MarksInOrder'
    <3>1. ~(edges'[c.at] >= LowThreshold)
      BY <2>2, ThresholdsAssumption
    <3>2. \A q \in Pixels : edges'[q] >= LowThreshold <=> q \in weak
      BY <1>11, <1>14, <2>2, <3>1
    <3> QED
      BY <1>1, <1>11, <1>14, <2>1, <3>2 DEF MarksInOrder
  <2>5. ASSUME NEW q \in Pixels, Unsettled(q)'
        PROVE  Pending(q)'
    <3>1. q # c.at /\ Unsettled(q)
      BY <1>1, <1>14, <2>1, <2>2, <2>5 DEF Unsettled
    <3> QED
      BY <1>10, <1>11, <3>1
  <2>6. UnsettledArePending'
    BY <2>5 DEF UnsettledArePending
  <2>7. BorderCleared'
    BY <1>1, <2>2 DEF IInv, BorderCleared
  <2>8. ASSUME NEW q \in Interior, Peak(q)
        PROVE  edges'[q] = Root(magnitude[q])
    <3>1. edges[q] = Root(magnitude[q]) /\ Root(magnitude[q]) \in LowThreshold..255
      BY <1>1, <2>8 DEF IInv, PeaksKept, Peak
    <3>2. q \in weak
      BY <1>11, <3>1, InteriorIsInside, ThresholdsAssumption
    <3> QED
      BY <1>14, <2>2, <3>1, <3>2, InteriorIsInside
  <2>9. PeaksKept'
    BY <1>1, <2>8 DEF PeaksKept, Peak, Around
  <2> QED
    BY <1>1, <1>8, <1>9, <2>3, <2>4, <2>6, <2>7, <2>9 DEF IInv, OnlyLinking
<1> QED
  BY <1>13, <1>14

\* Every step keeps the invariant.
LEMMA StepInv == IInv /\ [Next]_vars => IInv'
<1> SUFFICES ASSUME IInv, [Next]_vars PROVE IInv'
  OBVIOUS
<1>1. CASE Filter
  BY <1>1, StagesKeep, SuppressionKeeps, ThresholdKeeps, JoinKeeps DEF Filter
<1>2. ASSUME NEW t \in Threads, Thread(t)
      PROVE  IInv'
  BY <1>2, BeginKeeps, CheckKeeps, MarkKeeps DEF Thread
<1>3. CASE UNCHANGED vars
  <2>1. PeaksKept'
    BY <1>3, PeaksStay DEF vars, matrices, IInv
  <2> QED
    BY <1>3, <2>1 DEF vars, matrices, threads, IInv, TypeOK, StaysInside, BorderCleared,
       MarksInOrder, CallsAreNear, ReadersHaveCalls, OnlyLinking, UnsettledArePending, Unsettled, Pending
<1> QED
  BY <1>1, <1>2, <1>3 DEF Next

-----------------------------------------------------------------------------
\* The theorems.

\* Every variable keeps its type: a matrix of uint8_t never holds anything but
\* bytes, whatever the image (cannyEdgeFilter.cpp 12-312).
THEOREM TypeCorrect == Spec => []TypeOK
<1>1. IInv => TypeOK
  BY DEF IInv
<1> QED
  BY InitInv, StepInv, <1>1, PTL DEF Spec

\* No call of checkContours reads or writes outside the matrix, for any image,
\* any threads and any schedule (cannyEdgeFilter.cpp 245-272).
THEOREM RecursionStaysInside == Spec => []StaysInside
<1>1. IInv => StaysInside
  BY DEF IInv
<1> QED
  BY InitInv, StepInv, <1>1, PTL DEF Spec

\* The saved image does not depend on the schedule of the threads: its pixels
\* are those of at least the low threshold (cannyEdgeFilter.cpp 274-312).
THEOREM RacesDoNotShow == Spec => []SavedAreTheWeak
<1>1. IInv => SavedAreTheWeak
  <2> SUFFICES ASSUME IInv, stage = "saved"
               PROVE  /\ strong = weak
                      /\ \A p \in Pixels : /\ edges[p] # 0 <=> p \in weak
                                           /\ edges[p] >= LowThreshold <=> p \in weak
    BY DEF SavedAreTheWeak
  <2>1. \A q \in Pixels : ~Pending(q)
    BY DEF IInv, OnlyLinking, Pending, InCalls
  <2>2. \A q \in Pixels : ~Unsettled(q)
    BY <2>1 DEF IInv, UnsettledArePending
  <2>3. /\ strong \subseteq weak /\ weak \subseteq Pixels
        /\ \A p \in Pixels : edges[p] >= LowThreshold <=> p \in weak
        /\ edges \in [Pixels -> Bytes]
    BY DEF IInv, MarksInOrder, TypeOK
  <2>4. strong = weak
    BY <2>2, <2>3 DEF Unsettled
  <2>5. ASSUME NEW p \in Pixels
        PROVE  /\ edges[p] # 0 <=> p \in weak
               /\ edges[p] >= LowThreshold <=> p \in weak
    <3>1. edges[p] \in Int
      BY <2>3 DEF Bytes
    <3>2. CASE p \in weak
      BY <2>3, <3>1, <3>2, ThresholdsAssumption
    <3>3. CASE p \notin weak
      <4>1. edges[p] = 0
        BY <2>2, <3>3 DEF Unsettled
      <4> QED
        BY <3>3, <4>1, ThresholdsAssumption
    <3> QED
      BY <3>2, <3>3
  <2> QED
    BY <2>4, <2>5
<1> QED
  BY InitInv, StepInv, <1>1, PTL DEF Spec

\* A peak of the gradient that fits a byte and reaches the low threshold is
\* in the saved image, whatever the threads do (cannyEdgeFilter.cpp 182-312).
THEOREM PeaksAreSaved == Spec => []PeaksSurvive
<1>1. IInv => PeaksSurvive
  BY DEF IInv, PeaksKept, PeaksSurvive, Peak, Around
<1> QED
  BY InitInv, StepInv, <1>1, PTL DEF Spec

\* The offsets of a call are those the code's condition lets through, in any
\* order (cannyEdgeFilter.cpp 262-270).
THEOREM OnwardIsTheCondition ==
  ASSUME NEW c \in Calls, Near(c), NEW q \in Coordinates,
         c.at = c.from \/ (c.at[1] # c.from[1] /\ c.at[2] # c.from[2])
  PROVE  GoesOn(c, q) <=> InCalls(q, Onward(c))
<1> DEFINE To(i, j) == Call(<<c.at[1] + i, c.at[2] + j>>, c.at)
<1>1. PICK r \in Int, k \in Int : c.at = <<r, k>>
  BY DEF Calls, Coordinates
<1>2. PICK pr \in Int, pk \in Int : c.from = <<pr, pk>>
  BY DEF Calls, Coordinates
<1>3. PICK x \in Int, y \in Int : q = <<x, y>>
  BY DEF Coordinates
<1>4. c.at[1] = r /\ c.at[2] = k /\ c.from[1] = pr /\ c.from[2] = pk /\ q[1] = x /\ q[2] = y
  BY <1>1, <1>2, <1>3
<1>5. GoesOn(c, q) <=> /\ x \in r - 1 .. r + 1 /\ y \in k - 1 .. k + 1
                       /\ y # pk /\ x # pr /\ y # k /\ x # r
  BY <1>4 DEF GoesOn
<1> HIDE DEF To
<1>6. CASE c.at = c.from
  <2>1. Onward(c) = <<To(-1, -1), To(-1, 1), To(1, -1), To(1, 1)>>
    BY <1>6 DEF Onward, To
  <2>2. InCalls(q, Onward(c)) <=> \/ q = <<r + (-1), k + (-1)>> \/ q = <<r + (-1), k + 1>>
                                  \/ q = <<r + 1, k + (-1)>> \/ q = <<r + 1, k + 1>>
    <3>1. /\ To(-1, -1).at = <<r + (-1), k + (-1)>> /\ To(-1, 1).at = <<r + (-1), k + 1>>
          /\ To(1, -1).at = <<r + 1, k + (-1)>> /\ To(1, 1).at = <<r + 1, k + 1>>
      BY <1>4 DEF To, Call
    <3>2. /\ DOMAIN Onward(c) = 1..4
          /\ Onward(c)[1] = To(-1, -1) /\ Onward(c)[2] = To(-1, 1)
          /\ Onward(c)[3] = To(1, -1) /\ Onward(c)[4] = To(1, 1)
      BY <2>1
    <3>3. 1..4 = {1, 2, 3, 4}
      OBVIOUS
    <3> QED
      BY <3>1, <3>2, <3>3 DEF InCalls
  <2>3. pr = r /\ pk = k
    BY <1>4, <1>6
  <2> QED
    BY <1>3, <1>5, <2>2, <2>3
<1>7. CASE c.at # c.from
  <2>1. pr # r /\ pk # k
    BY <1>4, <1>7
  <2>2. r - pr \in -1..1 /\ k - pk \in -1..1
    BY <1>4 DEF Near
  <2>3. Onward(c) = <<To(r - pr, k - pk)>>
    BY <1>4, <1>7 DEF Onward, To
  <2>4. To(r - pr, k - pk).at = <<r + (r - pr), k + (k - pk)>>
    BY <1>4 DEF To, Call
  <2>5. DOMAIN Onward(c) = {1} /\ Onward(c)[1] = To(r - pr, k - pk)
    BY <2>3
  <2>6. InCalls(q, Onward(c)) <=> q = <<r + (r - pr), k + (k - pk)>>
    BY <2>4, <2>5 DEF InCalls
  <2> QED
    BY <1>3, <1>5, <2>1, <2>2, <2>6
<1> QED
  BY <1>6, <1>7
=============================================================================
