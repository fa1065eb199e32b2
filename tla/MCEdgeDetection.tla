------------------------- MODULE MCEdgeDetection -------------------------
(* The instance of EdgeDetection that TLC checks: a team of two, to whom    *)
(* the iterations are given in two halves, as a static schedule does.       *)
EXTENDS EdgeDetection

Halves ==
  [p \in Pixels |-> IF p[1] * Cols + p[2] < (Rows * Cols) \div 2 THEN 1 ELSE 2]

Drawn(bright, level) == [p \in Pixels |-> IF p \in bright THEN level ELSE 0]

\* A corner, a diagonal, a column, a dot and a wall of light: sharp edges and
\* faint ones.
Pictures ==
  { Drawn({<<0, 0>>, <<0, 1>>, <<1, 0>>}, 200),
    Drawn({p \in Pixels : p[1] = p[2]}, 120),
    Drawn({p \in Pixels : p[1] + p[2] = 3}, 60),
    Drawn({p \in Pixels : p[2] = 2}, 90),
    Drawn({<<2, 2>>}, 255),
    Drawn({p \in Pixels : p[2] >= 2}, 255),
    Drawn(Pixels, 100) }
=============================================================================
