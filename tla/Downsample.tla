----------------------------- MODULE Downsample -----------------------------
(***************************************************************************)
(* downsample_points (routers/agents.py): of the points of a trend a limit *)
(* is taken at evenly spaced indexes, rounded.                             *)
(*                                                                         *)
(* round(step * index) is computed in floating point and rounds halves to  *)
(* the even number.  The exact value is a fraction with the denominator    *)
(* limit - 1, at most 119: unless it is half-way between two integers the  *)
(* error is too small to change what it is rounded to, and if it is, the   *)
(* error may decide.  A Rounding is any outcome of that.                   *)
(***************************************************************************)
EXTENDS Integers, Sequences, TLAPS

\* r is an integer nearest to index * (size - 1) / (limit - 1).
Nearest(r, index, size, limit) ==
  /\ 2 * (r * (limit - 1) - index * (size - 1)) =< limit - 1
  /\ 2 * (index * (size - 1) - r * (limit - 1)) =< limit - 1

Roundings(size, limit) ==
  { f \in [0 .. limit - 1 -> Int] :
      \A index \in 0 .. limit - 1 : Nearest(f[index], index, size, limit) }

\* With increasing indexes, sorted({...}) is the sequence of them.
DownsamplePoints(points, limit, round) ==
  IF Len(points) =< limit THEN points
  ELSE IF limit =< 1 THEN << points[Len(points)] >>
  ELSE [i \in 1 .. limit |-> points[round[i - 1] + 1]]
-----------------------------------------------------------------------------
\* The first and the last point are taken, whatever the limit.
LEMMA Ends ==
  ASSUME NEW size \in Nat, NEW limit \in Nat, limit > 1, size > limit,
         NEW round \in Roundings(size, limit)
  PROVE  round[0] = 0 /\ round[limit - 1] = size - 1
<1> DEFINE d == limit - 1
           m == size - 1
<1>1. d \in Nat /\ m \in Nat /\ d >= 1 /\ 0 \in 0 .. d /\ d \in 0 .. d
  OBVIOUS
<1>2. \A i \in 0 .. d : round[i] \in Int /\ Nearest(round[i], i, size, limit)
  BY DEF Roundings
<1>3. round[0] = 0
  <2> DEFINE r == round[0]
  <2>1. r \in Int /\ 2 * (r * d) =< d /\ 2 * (0 - r * d) =< d
    BY <1>1, <1>2 DEF Nearest
  <2>2. r >= 1 => r * d >= d
    BY <1>1, <2>1
  <2>3. r =< -1 => r * d =< -d
    BY <1>1, <2>1
  <2> HIDE DEF r, d
  <2> QED
    BY <1>1, <2>1, <2>2, <2>3 DEF r
<1>4. round[d] = m
  <2> DEFINE r == round[d]
             e == r - m
  <2>1. r \in Int /\ 2 * (r * d - d * m) =< d /\ 2 * (d * m - r * d) =< d
    BY <1>1, <1>2 DEF Nearest
  <2>2. e \in Int /\ r * d - d * m = e * d
    BY <1>1, <2>1
  <2>3. e >= 1 => e * d >= d
    BY <1>1, <2>2
  <2>4. e =< -1 => e * d =< -d
    BY <1>1, <2>2
  <2>5. e * d \in Int /\ r * d \in Int /\ d * m \in Int
    BY <1>1, <2>1, <2>2
  <2>6. e = 0
    <3> DEFINE x == e * d
               y == r * d - d * m
    <3>1. x \in Int /\ y = x /\ 2 * y =< d /\ 2 * (-y) =< d
      BY <1>1, <2>1, <2>2, <2>5
    <3> HIDE DEF x, y, e, d
    <3> QED
      BY <1>1, <2>2, <2>3, <2>4, <3>1 DEF x
  <2> QED
    BY <1>1, <2>1, <2>6
<1> QED
  BY <1>3, <1>4

\* No index is taken twice, and they are in order: there are more points than the
\* limit, so that the step is longer than one.
LEMMA Increasing ==
  ASSUME NEW size \in Nat, NEW limit \in Nat, limit > 1, size > limit,
         NEW round \in Roundings(size, limit),
         NEW i \in 0 .. limit - 1, NEW j \in 0 .. limit - 1, i < j
  PROVE  round[i] < round[j]
<1> DEFINE d == limit - 1
           m == size - 1
           a == round[i]
           b == round[j]
<1>1. d \in Nat /\ m \in Nat /\ d >= 1 /\ m > d /\ i \in Nat /\ j \in Nat
  OBVIOUS
<1>2. a \in Int /\ b \in Int /\ 2 * (a * d - i * m) =< d /\ 2 * (j * m - b * d) =< d
  BY <1>1 DEF Roundings, Nearest
<1>3. a * d \in Int /\ b * d \in Int /\ i * m \in Int /\ j * m \in Int
  BY <1>1, <1>2
<1>4. j * m - i * m >= m
  <2>1. j * m - i * m = (j - i) * m
    BY <1>1
  <2>2. j - i >= 1
    BY <1>1
  <2>3. (j - i) * m >= m
    BY <1>1, <2>2
  <2> QED
    BY <2>1, <2>3
<1>5. a * d < b * d
  <2> HIDE DEF a, b
  <2> DEFINE p == a * d  q == b * d  s == i * m  t == j * m
  <2>1. p \in Int /\ q \in Int /\ s \in Int /\ t \in Int
    BY <1>3
  <2>2. 2 * (p - s) =< d /\ 2 * (t - q) =< d /\ t - s >= m
    BY <1>2, <1>4
  <2> HIDE DEF p, q, s, t, d, m
  <2>3. p < q
    BY <1>1, <2>1, <2>2
  <2> QED
    BY <2>3 DEF p, q
<1>6. a >= b => a * d >= b * d
  <2>1. a * d - b * d = (a - b) * d
    BY <1>1, <1>2
  <2>2. a >= b => (a - b) * d >= 0
    BY <1>1, <1>2
  <2> QED
    BY <1>3, <2>1, <2>2
<1> QED
  BY <1>2, <1>3, <1>5, <1>6

\* No index leaves the list.
LEMMA InRange ==
  ASSUME NEW size \in Nat, NEW limit \in Nat, limit > 1, size > limit,
         NEW round \in Roundings(size, limit), NEW i \in 0 .. limit - 1
  PROVE  round[i] \in 0 .. size - 1
<1>1. round[0] = 0 /\ round[limit - 1] = size - 1
  BY Ends
<1>2. round[i] \in Int
  BY DEF Roundings
<1>3. 0 \in 0 .. limit - 1 /\ limit - 1 \in 0 .. limit - 1
  OBVIOUS
<1>4. i = 0 \/ round[0] < round[i]
  <2>1. CASE i # 0
    BY <2>1, <1>3, Increasing
  <2> QED
    BY <2>1
<1>5. i = limit - 1 \/ round[i] < round[limit - 1]
  <2>1. CASE i # limit - 1
    <3>1. i < limit - 1
      BY <2>1
    <3> QED
      BY <3>1, <1>3, Increasing
  <2> QED
    BY <2>1
<1> QED
  BY <1>1, <1>2, <1>4, <1>5

\* Of more points than the limit exactly the limit is returned, taken in order
\* from the list, the first and the last among them, however ties are rounded
\* (downsample_points).
THEOREM Downsampled ==
  ASSUME NEW S, NEW points \in Seq(S), NEW limit \in Nat, limit > 1, Len(points) > limit,
         NEW round \in Roundings(Len(points), limit)
  PROVE  LET taken == DownsamplePoints(points, limit, round)
         IN  /\ taken \in Seq(S) /\ Len(taken) = limit
             /\ taken[1] = points[1] /\ taken[limit] = points[Len(points)]
             /\ \E from \in [1 .. limit -> 1 .. Len(points)] :
                  /\ \A i, j \in 1 .. limit : i < j => from[i] < from[j]
                  /\ \A i \in 1 .. limit : taken[i] = points[from[i]]
<1> DEFINE taken == DownsamplePoints(points, limit, round)
           from == [i \in 1 .. limit |-> round[i - 1] + 1]
<1>1. taken = [i \in 1 .. limit |-> points[round[i - 1] + 1]]
  BY DEF DownsamplePoints
<1>2. Len(points) \in Nat
  OBVIOUS
<1>3. \A i \in 1 .. limit : round[i - 1] \in 0 .. Len(points) - 1
  BY <1>2, InRange
<1>4. from \in [1 .. limit -> 1 .. Len(points)]
  BY <1>2, <1>3
<1>5. \A i \in 1 .. limit : taken[i] = points[from[i]]
  BY <1>1
<1>6. \A i, j \in 1 .. limit : i < j => from[i] < from[j]
  <2> SUFFICES ASSUME NEW i \in 1 .. limit, NEW j \in 1 .. limit, i < j
               PROVE  round[i - 1] + 1 < round[j - 1] + 1
    OBVIOUS
  <2>1. round[i - 1] < round[j - 1]
    BY <1>2, Increasing
  <2> QED
    BY <2>1, <1>2, <1>3
<1>7. taken \in Seq(S) /\ Len(taken) = limit
  <2>1. \A i \in 1 .. limit : points[from[i]] \in S
    BY <1>4
  <2>2. taken \in [1 .. limit -> S]
    BY <1>1, <1>5, <2>1
  <2> HIDE DEF taken
  <2> QED
    BY <2>2
<1>8. taken[1] = points[1] /\ taken[limit] = points[Len(points)]
  <2>1. round[0] = 0 /\ round[limit - 1] = Len(points) - 1
    BY <1>2, Ends
  <2>2. from[1] = 1 /\ from[limit] = Len(points)
    BY <1>2, <2>1
  <2> HIDE DEF taken, from
  <2> QED
    BY <1>5, <2>2
<1> HIDE DEF taken, from
<1> QED
  BY <1>4, <1>5, <1>6, <1>7, <1>8 DEF taken
=============================================================================
