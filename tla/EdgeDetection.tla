--------------------------- MODULE EdgeDetection ---------------------------
(***************************************************************************)
(* The Canny edge filter an image request runs (cannyEdgeFilter.cpp).      *)
(*                                                                         *)
(* The loops of the first four stages write each pixel once, from matrices *)
(* no iteration writes: whatever the threads, such a stage is one step.    *)
(* The loop of the hysteresis is not of that kind.  Its iterations recurse *)
(* into pixels of other threads, reading strongEdges and writing it back   *)
(* with nothing to order them; here a thread's read and its write are two  *)
(* steps, and every iteration is given to some thread in advance.          *)
(*                                                                         *)
(* A matrix is a function of the pixels, a matrix of bool the set of those *)
(* that are true.  Doubles are integers of a fixed scale; a magnitude is   *)
(* kept as its square, which orders the pixels alike.  The direction of a  *)
(* gradient is stretched to the range of the whole image before it is cut  *)
(* into sectors, so here any pixel may fall into any sector.               *)
(***************************************************************************)
EXTENDS Integers, FiniteSets, Sequences

CONSTANTS
  Rows, Cols,       \* the size of the image
  Images,           \* the images a request may name: matrices of bytes
  Threads,          \* the OpenMP team
  Owner,            \* the thread each iteration of the last loop is given to
  LowThreshold,
  HighThreshold

Pixels   == (0..Rows - 1) \X (0..Cols - 1)
Interior == (1..Rows - 2) \X (1..Cols - 2)
Bytes    == 0..255

ASSUME SizeAssumption == Rows \in Nat \ {0} /\ Cols \in Nat \ {0}
ASSUME ImagesAssumption == Images \subseteq [Pixels -> Bytes]
ASSUME OwnerAssumption == Owner \in [Pixels -> Threads]
ASSUME ThresholdsAssumption ==
  /\ LowThreshold \in Nat \ {0}
  /\ HighThreshold \in Nat
  /\ LowThreshold <= HighThreshold

VARIABLES
  stage,      \* the stage that comes next
  image,      \* m_originalImage
  edges,      \* m_cannyEdges
  magnitude,  \* m_magnitude, squared
  strong,     \* strongEdges
  weak,       \* weakEdges
  left,       \* the iterations each thread has still to begin
  calls,      \* each thread's calls of checkContours, the current one first
  read        \* the current call has read its pixel and found it not strong

matrices == <<image, edges, magnitude, strong, weak>>
threads  == <<left, calls, read>>
vars     == <<stage, matrices, threads>>

-----------------------------------------------------------------------------
\* The blur: a 3 x 3 kernel for sigma = 1, over an image bordered by zeros.

Padded(img, r, c) == IF <<r, c>> \in Pixels THEN img[<<r, c>>] ELSE 0

Centre == 20418
Side   == 12384
Corner == 7511
Total  == Centre + 4 * Side + 4 * Corner

Blurred(img, p) ==
  LET At(i, j) == Padded(img, p[1] + i, p[2] + j) IN
  (  Centre * At(0, 0)
   + Side   * (At(-1, 0) + At(1, 0) + At(0, -1) + At(0, 1))
   + Corner * (At(-1, -1) + At(-1, 1) + At(1, -1) + At(1, 1))) \div Total

\* The Sobel gradients of an interior pixel, and their length squared.
GradientX(e, p) ==
  LET Column(j) == e[<<p[1] - 1, p[2] + j>>] + 2 * e[<<p[1], p[2] + j>>]
                   + e[<<p[1] + 1, p[2] + j>>]
  IN  Column(1) - Column(-1)

GradientY(e, p) ==
  LET Row(i) == e[<<p[1] + i, p[2] - 1>>] + 2 * e[<<p[1] + i, p[2]>>]
                + e[<<p[1] + i, p[2] + 1>>]
  IN  Row(-1) - Row(1)

Squared(e, p) ==
  GradientX(e, p) * GradientX(e, p) + GradientY(e, p) * GradientY(e, p)

\* A sector of directions, by the offset to one of its two neighbours.
Sectors == {<<0, 1>>, <<1, -1>>, <<1, 0>>, <<-1, -1>>}

\* Whether an interior pixel is a maximum along a sector.  Mutant: a strict one.
IsStrictMaximum(p, d) ==
  /\ magnitude[p] > magnitude[<<p[1] + d[1], p[2] + d[2]>>]
  /\ magnitude[p] > magnitude[<<p[1] - d[1], p[2] - d[2]>>]
IsMaximum(p, d) ==
  /\ magnitude[p] >= magnitude[<<p[1] + d[1], p[2] + d[2]>>]
  /\ magnitude[p] >= magnitude[<<p[1] - d[1], p[2] - d[2]>>]

\* The whole part of a magnitude, from its square; no gradient of bytes is longer.
MaxMagnitude == 1442
Root(n) == Cardinality({m \in 1..MaxMagnitude : m * m <= n})

\* A float in a uint8_t: out of range is undefined, and the build keeps the low
\* byte.  Mutant: no byte.
Unwrapped(n) == n
Byte(n) == n % 256

-----------------------------------------------------------------------------
\* The stages.

\* An image that cannot be read is an exception.
Load ==
  /\ stage = "load"
  /\ \/ /\ image' \in Images
        /\ stage' = "blur"
     \/ /\ stage' = "thrown"
        /\ UNCHANGED image
  /\ UNCHANGED <<edges, magnitude, strong, weak, threads>>

applyGaussianBlur ==
  /\ stage = "blur"
  /\ edges' = [p \in Pixels |-> Blurred(image, p)]
  /\ stage' = "sobel"
  /\ UNCHANGED <<image, magnitude, strong, weak, threads>>

sobelOperator ==
  /\ stage = "sobel"
  /\ magnitude' = [p \in Pixels |-> IF p \in Interior THEN Squared(edges, p) ELSE 0]
  /\ stage' = "suppress"
  /\ UNCHANGED <<image, edges, strong, weak, threads>>

\* Mutant: the borders are left as the blur made them.
SuppressInteriorOnly ==
  /\ stage = "suppress"
  /\ \E kept \in SUBSET Interior :
       /\ \A p \in kept : \E d \in Sectors : IsMaximum(p, d)
       /\ \A p \in Interior \ kept : \E d \in Sectors : ~IsMaximum(p, d)
       /\ edges' = [p \in Pixels |->
                      IF p \in kept THEN Byte(Root(magnitude[p]))
                      ELSE IF p \in Interior THEN 0 ELSE edges[p]]
  /\ stage' = "threshold"
  /\ UNCHANGED <<image, magnitude, strong, weak, threads>>

nonMaximumSuppression ==
  /\ stage = "suppress"
  /\ \E kept \in SUBSET Interior :
       /\ \A p \in kept : \E d \in Sectors : IsMaximum(p, d)
       /\ \A p \in Interior \ kept : \E d \in Sectors : ~IsMaximum(p, d)
       /\ edges' = [p \in Pixels |-> IF p \in kept THEN Byte(Root(magnitude[p])) ELSE 0]
  /\ stage' = "threshold"
  /\ UNCHANGED <<image, magnitude, strong, weak, threads>>

\* The first loop of applyLinkingAndHysteresis, and the start of the second.
Threshold ==
  /\ stage = "threshold"
  /\ strong' = {p \in Pixels : edges[p] >= HighThreshold}
  /\ weak'   = {p \in Pixels : edges[p] >= LowThreshold}
  /\ left'   = [t \in Threads |-> {p \in Pixels : Owner[p] = t}]
  /\ stage'  = "link"
  /\ UNCHANGED <<image, edges, magnitude, calls, read>>

-----------------------------------------------------------------------------
\* The second loop.

Before(p, q) == p[1] < q[1] \/ (p[1] = q[1] /\ p[2] < q[2])

Call(p, from) == [at |-> p, from |-> from]

\* The cells a call goes on to, by the condition of the code: never the row or
\* the column of its pixel, nor those of the pixel it came from.
GoesOn(c, q) ==
  /\ q[1] \in c.at[1] - 1 .. c.at[1] + 1 /\ q[2] \in c.at[2] - 1 .. c.at[2] + 1
  /\ q[2] # c.from[2] /\ q[1] # c.from[1]
  /\ q[2] # c.at[2] /\ q[1] # c.at[1]

\* In the code's order: the four diagonals for the first call, after that the
\* one that goes straight on.
Onward(c) ==
  LET To(i, j) == Call(<<c.at[1] + i, c.at[2] + j>>, c.at) IN
  IF c.at = c.from
  THEN <<To(-1, -1), To(-1, 1), To(1, -1), To(1, 1)>>
  ELSE <<To(c.at[1] - c.from[1], c.at[2] - c.from[2])>>

Begin(t) ==
  /\ stage = "link"
  /\ calls[t] = <<>>
  /\ \E p \in left[t] :
       /\ \A q \in left[t] \ {p} : Before(p, q)
       /\ left' = [left EXCEPT ![t] = @ \ {p}]
       /\ calls' = [calls EXCEPT ![t] = <<Call(p, p)>>]
  /\ UNCHANGED <<stage, matrices, read>>

\* Mutant: a call waits on a pixel another one has marked.
CheckWaits(t) ==
  /\ stage = "link"
  /\ calls[t] # <<>>
  /\ ~read[t]
  /\ Head(calls[t]).at \notin strong
  /\ read' = [read EXCEPT ![t] = TRUE]
  /\ UNCHANGED <<stage, matrices, left, calls>>

\* The first test of checkContours; a strong pixel ends the call.
Check(t) ==
  /\ stage = "link"
  /\ calls[t] # <<>>
  /\ ~read[t]
  /\ IF Head(calls[t]).at \in strong
     THEN calls' = [calls EXCEPT ![t] = Tail(@)] /\ UNCHANGED read
     ELSE read' = [read EXCEPT ![t] = TRUE] /\ UNCHANGED calls
  /\ UNCHANGED <<stage, matrices, left>>

\* Mutant: a weak pixel is cleared unless it was strong.
MarkStrongOnly(t) ==
  /\ stage = "link"
  /\ read[t]
  /\ LET c == Head(calls[t]) IN
       /\ edges' = [edges EXCEPT ![c.at] = IF c.at \in strong THEN @ ELSE 0]
       /\ calls' = [calls EXCEPT ![t] = Tail(@)]
       /\ UNCHANGED strong
  /\ read' = [read EXCEPT ![t] = FALSE]
  /\ UNCHANGED <<stage, image, magnitude, weak, left>>

\* The rest of it: the weak bit is copied to the strong one, whatever that has
\* become since it was read; a pixel that is not weak is cleared.
Mark(t) ==
  /\ stage = "link"
  /\ read[t]
  /\ LET c == Head(calls[t]) IN
     IF c.at \in weak
     THEN /\ strong' = strong \cup {c.at}
          /\ calls' = [calls EXCEPT ![t] = Onward(c) \o Tail(@)]
          /\ UNCHANGED edges
     ELSE /\ strong' = strong \ {c.at}
          /\ edges' = [edges EXCEPT ![c.at] = 0]
          /\ calls' = [calls EXCEPT ![t] = Tail(@)]
  /\ read' = [read EXCEPT ![t] = FALSE]
  /\ UNCHANGED <<stage, image, magnitude, weak, left>>

Thread(t) == Begin(t) \/ Check(t) \/ Mark(t)

\* The barrier at the end of the loop; the image is then saved.
Join ==
  /\ stage = "link"
  /\ \A t \in Threads : left[t] = {} /\ calls[t] = <<>>
  /\ stage' = "saved"
  /\ UNCHANGED <<matrices, threads>>

-----------------------------------------------------------------------------
Init ==
  /\ stage = "load"
  /\ image = [p \in Pixels |-> 0]
  /\ edges = [p \in Pixels |-> 0]
  /\ magnitude = [p \in Pixels |-> 0]
  /\ strong = {}
  /\ weak = {}
  /\ left = [t \in Threads |-> {}]
  /\ calls = [t \in Threads |-> <<>>]
  /\ read = [t \in Threads |-> FALSE]

Filter ==
  Load \/ applyGaussianBlur \/ sobelOperator \/ nonMaximumSuppression \/ Threshold \/ Join

Next == Filter \/ \E t \in Threads : Thread(t)

Spec == Init /\ [][Next]_vars

\* The operating system runs every thread of the team.
FairSpec == Spec /\ WF_vars(Filter) /\ \A t \in Threads : WF_vars(Thread(t))

-----------------------------------------------------------------------------
Coordinates == Int \X Int

\* Every variable has its type; a matrix of uint8_t holds bytes.
TypeOK ==
  /\ stage \in {"load", "thrown", "blur", "sobel", "suppress", "threshold", "link", "saved"}
  /\ image \in [Pixels -> Bytes]
  /\ edges \in [Pixels -> Bytes]
  /\ magnitude \in [Pixels -> Int]
  /\ strong \subseteq Pixels
  /\ weak \subseteq Pixels
  /\ left \in [Threads -> SUBSET Pixels]
  /\ calls \in [Threads -> Seq([at : Coordinates, from : Coordinates])]
  /\ read \in [Threads -> BOOLEAN]

\* checkContours has no test of the bounds: it stays inside the matrix because
\* the suppression has cleared the border, which no recursion then crosses
\* (cannyEdgeFilter.cpp 236-240, 262-270).
StaysInside ==
  \A t \in Threads : \A i \in DOMAIN calls[t] : calls[t][i].at \in Pixels

\* Whatever the threads read of each other's unordered writes, the image that
\* is saved has exactly the pixels of at least the low threshold, and all of
\* them are strong in the end (cannyEdgeFilter.cpp 245-312).  So the image does
\* not depend on the threads, nor on the high threshold: see WeakOnlyIfConnected.
SavedAreTheWeak ==
  stage = "saved" =>
    /\ strong = weak
    /\ \A p \in Pixels : /\ edges[p] # 0 <=> p \in weak
                         /\ edges[p] >= LowThreshold <=> p \in weak

\* lib/cannyEdgeFilter/README.md 146: the hysteresis "includes weak edges only if
\* they are connected to strong edges".  The saved pixels fall apart into
\* connected sets, and in each of them one has at least the high threshold.
WeakOnlyIfConnected ==
  stage = "saved" =>
    LET kept == {p \in Pixels : edges[p] # 0}
        Beside(p, q) == q[1] \in p[1] - 1 .. p[1] + 1 /\ q[2] \in p[2] - 1 .. p[2] + 1
    IN  \A s \in SUBSET kept :
          s # {} /\ (\A p \in s, q \in kept : Beside(p, q) => q \in s)
            => \E p \in s : edges[p] >= HighThreshold

\* A peak of the gradient between the low threshold and the largest byte is in
\* the saved image with its magnitude; longer gradients lose their high bits in
\* the conversion, and may vanish (cannyEdgeFilter.cpp 224-228, 291-292).
PeaksSurvive ==
  stage = "saved" =>
    \A p \in Interior :
      LET around == {q \in Pixels : /\ q[1] \in p[1] - 1 .. p[1] + 1
                                    /\ q[2] \in p[2] - 1 .. p[2] + 1}
      IN  /\ \A q \in around : magnitude[p] >= magnitude[q]
          /\ Root(magnitude[p]) \in LowThreshold..255
          => edges[p] = Root(magnitude[p])

\* The recursion ends and every image is saved or refused: threads that run
\* into each other's pixels neither wait nor go round in circles
\* (cannyEdgeFilter.cpp 245-272).
FilterFinishes == <>(stage \in {"saved", "thrown"})
=============================================================================
