------------------------ MODULE ReuseDistanceProofs ------------------------
(***************************************************************************)
(* Proofs about ReuseDistance, for any set of lines, any distance of the   *)
(* skip nodes and any threshold.  All rest on one invariant, ListInv: there *)
(* is one sequence s of lines such that head, next and prev are the doubly *)
(* linked list of s, prev_skip, next_skip and depth are the skip list at   *)
(* the places Skips(Len(s)), the gate is at GatePlace(Len(s)) and the time *)
(* stamps fall from the front to the back.  add_to_front turns s into      *)
(* <<x>> \o s and move_to_front into ToFront(s, p), each in all of these at *)
(* once.  In this order: what the loops of the code visit (Walk), the      *)
(* places of the skip nodes, the loop of move_to_front (FoldLeft), the     *)
(* invariant, add_to_front, move_to_front, and the theorems.               *)
(***************************************************************************)
EXTENDS ReuseDistance, NumberFacts

\* A short name for the distance of the skip nodes, kept folded in most steps.
K == SkipDistance

----------------------------------------------------------------------------
(* Walks.                                                                  *)

\* The nodes a loop visits from each node on, when f has those visited from
\* the node after it.
WalkStep(link, within, f) ==
  [x \in Node |-> IF x \in within THEN <<x>> \o f[link[x]] ELSE <<>>]

\* A walk exists: no loop of the code goes around in circles along link.
Unfolds(link, within) ==
  \A x \in Node :
    /\ Walk(x, link, within) \in Seq(Tag)
    /\ Walk(x, link, within) =
         IF x \in within THEN <<x>> \o Walk(link[x], link, within) ELSE <<>>

\* Each loop of the code goes towards one end of the list, so that there is
\* what the recursion defines.
LEMMA WalkUnfolds ==
  ASSUME NEW link \in [Tag -> Node], NEW within \in SUBSET Tag,
         NEW b \in Nat, NEW rank \in [Tag -> 0..b],
         \A x \in within :
           link[x] \in within => rank[link[x]] < rank[x]
  PROVE  Unfolds(link, within)
<1> DEFINE Right(f, x) == f[x] = <<x>> \o f[link[x]]
           Good == {n \in Nat : \E f \in [Node -> Seq(Tag)] :
                      /\ \A x \in Node \ within : f[x] = <<>>
                      /\ \A x \in within : rank[x] < n => Right(f, x)}
<1>1. 0 \in Good
  <2>1. [x \in Node |-> <<>>] \in [Node -> Seq(Tag)]
    OBVIOUS
  <2>2. \A x \in within : ~(rank[x] < 0)
    OBVIOUS
  <2> QED
    BY <2>1, <2>2
<1>2. \A n \in 0..b : n \in Good => n + 1 \in Good
  <2> SUFFICES ASSUME NEW n \in 0..b, n \in Good
               PROVE  n + 1 \in Good
    OBVIOUS
  <2>1. PICK f \in [Node -> Seq(Tag)] :
          /\ \A x \in Node \ within : f[x] = <<>>
          /\ \A x \in within : rank[x] < n => Right(f, x)
    OBVIOUS
  <2> DEFINE g == [x \in Node |-> IF x \in within /\ rank[x] = n
                                  THEN <<x>> \o f[link[x]] ELSE f[x]]
  <2>2. \A x \in within : x \in Tag /\ x \in Node /\ link[x] \in Node
                            /\ <<x>> \o f[link[x]] \in Seq(Tag)
    BY DEF Node
  <2>3. g \in [Node -> Seq(Tag)]
    BY <2>2
  <2>4. \A x \in Node \ within : g[x] = <<>>
    BY <2>1
  <2>5. ASSUME NEW x \in within, rank[x] < n + 1
        PROVE  g[x] = <<x>> \o g[link[x]]
    <3>1. g[link[x]] = f[link[x]]
      BY <2>2, <2>5
    <3>2. CASE rank[x] = n
      BY <2>2, <3>1, <3>2
    <3>3. CASE rank[x] < n
      BY <2>1, <2>2, <3>1, <3>3
    <3>4. rank[x] < n \/ rank[x] = n
      BY <2>5
    <3> QED
      BY <3>2, <3>3, <3>4
  <2> HIDE DEF g
  <2>6. \A x \in within : rank[x] < n + 1 => Right(g, x)
    BY <2>5
  <2>7. n + 1 \in Nat
    OBVIOUS
  <2> QED
    BY <2>3, <2>4, <2>6, <2>7
<1>3. b + 1 \in Good
  <2> HIDE DEF Good
  <2> DEFINE c == b + 1
  <2>1. c \in Nat /\ \A i \in 0..(c - 1) : i \in Good => i + 1 \in Good
    BY <1>2
  <2> HIDE DEF c
  <2>2. \A n \in 0..c : n \in Good
    BY <1>1, <2>1, UpTo
  <2> QED
    BY <2>1, <2>2 DEF c
<1>4. PICK f \in [Node -> Seq(Tag)] :
        /\ \A x \in Node \ within : f[x] = <<>>
        /\ \A x \in within : rank[x] < b + 1 => Right(f, x)
  BY <1>3
<1>5. \A x \in within : rank[x] < b + 1 /\ x \in Node /\ link[x] \in Node
  BY DEF Node
<1>6. f = WalkStep(link, within, f)
  BY <1>4, <1>5 DEF WalkStep
<1> DEFINE w == CHOOSE g : g = WalkStep(link, within, g)
<1>7. w = WalkStep(link, within, w)
  BY <1>6
<1>8. \A x : Walk(x, link, within) = w[x]
  BY DEF Walk, WalkStep
<1>9. \A x \in Node : w[x] = IF x \in within THEN <<x>> \o w[link[x]]
                             ELSE <<>>
  BY <1>7 DEF WalkStep
<1> HIDE DEF w
<1> DEFINE Same == {n \in Nat : \A x \in within : rank[x] < n => w[x] = f[x]}
<1>10. 0 \in Same
  OBVIOUS
<1>11. \A n \in 0..b : n \in Same => n + 1 \in Same
  <2> SUFFICES ASSUME NEW n \in 0..b, n \in Same,
                      NEW x \in within, rank[x] < n + 1
               PROVE  w[x] = f[x]
    OBVIOUS
  <2>1. link[x] \in Node
    OBVIOUS
  <2>2. CASE link[x] \in within
    <3>1. rank[link[x]] < n
      BY <2>2
    <3> QED
      BY <1>4, <1>5, <1>9, <2>2, <3>1
  <2>3. CASE link[x] \notin within
    BY <1>4, <1>5, <1>9, <2>1, <2>3
  <2> QED
    BY <1>4, <1>5, <1>9, <2>2, <2>3
<1>12. b + 1 \in Same
  <2> HIDE DEF Same
  <2> DEFINE c == b + 1
  <2>1. c \in Nat /\ \A i \in 0..(c - 1) : i \in Same => i + 1 \in Same
    BY <1>11
  <2> HIDE DEF c
  <2>2. \A n \in 0..c : n \in Same
    BY <1>10, <2>1, UpTo
  <2> QED
    BY <2>1, <2>2 DEF c
<1>13. \A x \in Node : w[x] = f[x]
  BY <1>4, <1>5, <1>9, <1>12
<1> QED
  BY <1>5, <1>8, <1>9, <1>13 DEF Unfolds

\* A sequence with one more element in front.
LEMMA InFront ==
  ASSUME NEW S, NEW x \in S, NEW q \in Seq(S)
  PROVE  /\ <<x>> \o q \in Seq(S)
         /\ Len(<<x>> \o q) = Len(q) + 1
         /\ (<<x>> \o q)[1] = x
         /\ \A j \in 1..Len(q) : (<<x>> \o q)[j + 1] = q[j]
         /\ <<x>> \o q = [j \in 1..(Len(q) + 1) |->
                             IF j = 1 THEN x ELSE q[j - 1]]
<1>1. <<x>> \in Seq(S) /\ Len(<<x>>) = 1 /\ <<x>>[1] = x
  OBVIOUS
<1>2. /\ <<x>> \o q \in Seq(S)
      /\ Len(<<x>> \o q) = Len(q) + 1
      /\ \A j \in 1..(Len(q) + 1) :
           (<<x>> \o q)[j] = IF j <= 1 THEN <<x>>[j] ELSE q[j - 1]
  BY <1>1
<1>3. <<x>> \o q = [j \in 1..(Len(q) + 1) |->
                      IF j = 1 THEN x ELSE q[j - 1]]
  BY <1>1, <1>2
<1> QED
  BY <1>1, <1>2, <1>3

\* A walk goes from one node to the next along link, and does not stop before
\* it comes to a node that is not within.
LEMMA Walked ==
  ASSUME NEW link \in [Tag -> Node], NEW within \in SUBSET Tag,
         Unfolds(link, within), NEW start \in Node,
         NEW c, c = Walk(start, link, within)
  PROVE  /\ c \in Seq(Tag)
         /\ c = <<>> <=> start \notin within
         /\ c # <<>> => c[1] = start /\ link[c[Len(c)]] \notin within
         /\ \A i \in 1..Len(c) : c[i] \in within
         /\ \A i \in 1..(Len(c) - 1) : c[i + 1] = link[c[i]]
<1>1. \A x \in Node :
        /\ Walk(x, link, within) \in Seq(Tag)
        /\ x \notin within => Walk(x, link, within) = <<>>
        /\ x \in within =>
             /\ link[x] \in Node
             /\ Len(Walk(x, link, within)) =
                  Len(Walk(link[x], link, within)) + 1
             /\ Walk(x, link, within)[1] = x
             /\ \A j \in 1..Len(Walk(link[x], link, within)) :
                  Walk(x, link, within)[j + 1] =
                    Walk(link[x], link, within)[j]
  <2> SUFFICES ASSUME NEW x \in Node
               PROVE  /\ Walk(x, link, within) \in Seq(Tag)
                      /\ x \notin within => Walk(x, link, within) = <<>>
                      /\ x \in within =>
                           /\ link[x] \in Node
                           /\ Len(Walk(x, link, within)) =
                                Len(Walk(link[x], link, within)) + 1
                           /\ Walk(x, link, within)[1] = x
                           /\ \A j \in 1..Len(Walk(link[x], link, within)) :
                                Walk(x, link, within)[j + 1] =
                                  Walk(link[x], link, within)[j]
    OBVIOUS
  <2>1. CASE x \notin within
    BY <2>1 DEF Unfolds
  <2>2. CASE x \in within
    <3> DEFINE q == Walk(link[x], link, within)
    <3>1. x \in Tag /\ link[x] \in Node
      BY <2>2
    <3>2. /\ q \in Seq(Tag)
          /\ Walk(x, link, within) = <<x>> \o q
          /\ Walk(x, link, within) \in Seq(Tag)
      BY <2>2, <3>1 DEF Unfolds
    <3> HIDE DEF q
    <3>3. /\ Len(<<x>> \o q) = Len(q) + 1
          /\ (<<x>> \o q)[1] = x
          /\ \A j \in 1..Len(q) : (<<x>> \o q)[j + 1] = q[j]
      BY <3>1, <3>2, InFront
    <3> QED
      BY <2>2, <3>1, <3>2, <3>3 DEF q
  <2> QED
    BY <2>1, <2>2
<1> DEFINE m == Len(c)
           W(x) == Walk(x, link, within)
           S == {k \in Nat : k + 1 <= m =>
                   /\ c[k + 1] \in within
                   /\ Len(W(c[k + 1])) = m - k
                   /\ \A j \in 1..(m - k) : W(c[k + 1])[j] = c[k + j]}
<1>2. c \in Seq(Tag) /\ m \in Nat
  BY <1>1
<1>3. 0 \in S
  BY <1>1, <1>2
<1>4. \A k \in 0..(m - 1) :
        k \in S =>
          /\ k + 1 \in S
          /\ c[k + 1] \in within
          /\ k + 1 = m => link[c[m]] \notin within
          /\ k + 1 < m => c[k + 2] = link[c[k + 1]]
  <2> SUFFICES ASSUME NEW k \in 0..(m - 1), k \in S
               PROVE  /\ k + 1 \in S
                      /\ c[k + 1] \in within
                      /\ k + 1 = m => link[c[m]] \notin within
                      /\ k + 1 < m => c[k + 2] = link[c[k + 1]]
    OBVIOUS
  <2> DEFINE x == c[k + 1]
             y == link[x]
  <2>1. /\ x \in within /\ Len(W(x)) = m - k
        /\ \A j \in 1..(m - k) : W(x)[j] = c[k + j]
    BY <1>2
  <2>2. /\ y \in Node /\ Len(W(x)) = Len(W(y)) + 1
        /\ W(y) \in Seq(Tag)
        /\ \A j \in 1..Len(W(y)) : W(x)[j + 1] = W(y)[j]
        /\ y \notin within => W(y) = <<>>
        /\ y \in within => Len(W(y)) >= 1 /\ W(y)[1] = y
    <3>1. x \in Node
      BY <2>1 DEF Node
    <3>2. /\ y \in Node /\ Len(W(x)) = Len(W(y)) + 1
          /\ \A j \in 1..Len(W(y)) : W(x)[j + 1] = W(y)[j]
      BY <1>1, <2>1, <3>1
    <3>3. W(y) \in Seq(Tag) /\ (y \notin within => W(y) = <<>>)
      BY <1>1, <3>2
    <3>4. ASSUME y \in within
          PROVE  Len(W(y)) >= 1 /\ W(y)[1] = y
      <4>1. /\ link[y] \in Node /\ Len(W(y)) = Len(W(link[y])) + 1
            /\ W(y)[1] = y
        BY <1>1, <3>2, <3>4
      <4>2. Len(W(link[y])) \in Nat
        BY <1>1, <4>1
      <4> QED
        BY <4>1, <4>2
    <3> QED
      BY <3>2, <3>3, <3>4
  <2> HIDE DEF W, y
  <2>3. Len(W(y)) = m - k - 1
    BY <1>2, <2>1, <2>2
  <2>4. CASE k + 1 = m
    BY <1>2, <2>1, <2>2, <2>3, <2>4 DEF y
  <2>5. CASE k + 1 < m
    <3>1. y \in within /\ W(y)[1] = y
      <4>1. W(y) # <<>>
        BY <1>2, <2>2, <2>3, <2>5
      <4> QED
        BY <2>2, <4>1
    <3>2. \A j \in 1..(m - k - 1) : W(y)[j] = c[k + 1 + j]
      <4> SUFFICES ASSUME NEW j \in 1..(m - k - 1)
                   PROVE  W(y)[j] = c[k + 1 + j]
        OBVIOUS
      <4>1. j + 1 \in 1..(m - k) /\ k + (j + 1) = k + 1 + j
        BY <1>2
      <4>2. W(x)[j + 1] = c[k + (j + 1)]
        BY <2>1, <4>1
      <4>3. W(x)[j + 1] = W(y)[j]
        BY <2>2, <2>3
      <4> QED
        BY <4>1, <4>2, <4>3
    <3>3. c[k + 2] = y
      <4>1. 1 \in 1..(m - k - 1) /\ k + 1 + 1 = k + 2
        BY <1>2, <2>5
      <4> QED
        BY <3>1, <3>2, <4>1
    <3> DEFINE l == k + 1
    <3>4. /\ l \in Nat /\ c[l + 1] = y /\ y \in within
          /\ Len(W(c[l + 1])) = m - l
          /\ \A j \in 1..(m - l) : W(c[l + 1])[j] = c[l + j]
      <4>1. l \in Nat /\ l + 1 = k + 2 /\ m - l = m - k - 1
        BY <1>2
      <4>2. c[l + 1] = y
        BY <3>3, <4>1
      <4>3. \A j \in 1..(m - l) : W(y)[j] = c[l + j]
        BY <3>2, <4>1
      <4> QED
        BY <2>3, <3>1, <4>1, <4>2, <4>3
    <3>5. l < m
      BY <2>5
    <3> HIDE DEF l
    <3>6. l \in S
      BY <3>4
    <3>7. k + 1 \in S /\ k + 1 # m /\ c[k + 1] \in within
      BY <2>1, <3>5, <3>6 DEF l
    <3>8. c[k + 2] = link[c[k + 1]]
      BY <3>3 DEF y
    <3> HIDE DEF S, x
    <3> QED
      BY <3>7, <3>8
  <2> QED
    BY <1>2, <2>4, <2>5
<1>5. \A k \in 0..m : k \in S
  <2> HIDE DEF S, m
  <2>1. \A k \in 0..(m - 1) : k \in S => k + 1 \in S
    BY <1>4
  <2> QED
    BY <1>2, <1>3, <2>1, UpTo
<1> HIDE DEF S
<1>6. \A i \in 1..m :
        /\ c[i] \in within
        /\ i = m => link[c[i]] \notin within
        /\ i < m => c[i + 1] = link[c[i]]
  <2> SUFFICES ASSUME NEW i \in 1..m
               PROVE  /\ c[i] \in within
                      /\ i = m => link[c[i]] \notin within
                      /\ i < m => c[i + 1] = link[c[i]]
    OBVIOUS
  <2> DEFINE k == i - 1
  <2>1. k \in 0..(m - 1) /\ k \in 0..m /\ k + 1 = i /\ k + 2 = i + 1
    BY <1>2
  <2>2. k \in S
    BY <1>5, <2>1
  <2> HIDE DEF k, m, W
  <2>3. /\ c[k + 1] \in within
        /\ k + 1 = m => link[c[m]] \notin within
        /\ k + 1 < m => c[k + 2] = link[c[k + 1]]
    BY <1>4, <2>1, <2>2
  <2> QED
    BY <2>1, <2>3
<1>7. c = <<>> <=> start \notin within
  <2>1. start \in within => Len(c) >= 1
    <3> SUFFICES ASSUME start \in within
                 PROVE  Len(c) >= 1
      OBVIOUS
    <3>1. link[start] \in Node /\ Len(c) = Len(W(link[start])) + 1
      BY <1>1
    <3>2. Len(W(link[start])) \in Nat
      BY <1>1, <3>1
    <3> QED
      BY <3>1, <3>2
  <2> QED
    BY <1>1, <2>1
<1>8. c # <<>> => c[1] = start /\ m \in 1..m
  BY <1>1, <1>2, <1>7
<1>9. c # <<>> => link[c[m]] \notin within
  BY <1>6, <1>8
<1>10. \A i \in 1..(m - 1) : i \in 1..m /\ i < m
  BY <1>2
<1> HIDE DEF m, W
<1>11. \A i \in 1..(m - 1) : c[i + 1] = link[c[i]]
  BY <1>6, <1>10
<1> QED
  BY <1>2, <1>6, <1>7, <1>8, <1>9, <1>11 DEF m

\* The nodes from start on, along link, up to stop, which is not within.
Chain(c, start, link, within, stop) ==
  /\ c \in Seq(within)
  /\ stop \in Node /\ stop \notin within
  /\ start = IF c = <<>> THEN stop ELSE c[1]
  /\ \A i \in 1..Len(c) :
       link[c[i]] = IF i = Len(c) THEN stop ELSE c[i + 1]

\* That is the walk.
LEMMA WalkIs ==
  ASSUME NEW link \in [Tag -> Node], NEW within \in SUBSET Tag,
         Unfolds(link, within), NEW start, NEW stop, NEW c,
         Chain(c, start, link, within, stop)
  PROVE  Walk(start, link, within) = c /\ StopOf(c, start, link) = stop
<1> DEFINE w == Walk(start, link, within)
           n == Len(w)
           m == Len(c)
<1>0. w = Walk(start, link, within)
  OBVIOUS
<1>1. /\ c \in Seq(within)
      /\ stop \in Node /\ stop \notin within
      /\ start = IF c = <<>> THEN stop ELSE c[1]
      /\ \A i \in 1..Len(c) :
           link[c[i]] = IF i = Len(c) THEN stop ELSE c[i + 1]
  BY DEF Chain
<1>2. start \in Node
  <2>1. \A i \in 1..Len(c) : c[i] \in within
    BY <1>1
  <2>2. c # <<>> => 1 \in 1..Len(c)
    BY <1>1
  <2> QED
    BY <1>1, <2>1, <2>2 DEF Node
<1> HIDE DEF w
<1>3. /\ w \in Seq(Tag)
      /\ w = <<>> <=> start \notin within
      /\ w # <<>> => w[1] = start /\ link[w[n]] \notin within
      /\ \A i \in 1..n : w[i] \in within
      /\ \A i \in 1..(n - 1) : w[i + 1] = link[w[i]]
  BY <1>0, <1>2, Walked
<1>4. n \in Nat /\ m \in Nat
  BY <1>3, <1>1
<1>5. StopOf(c, start, link) = stop
  BY <1>4, <1>1, <1>1 DEF StopOf, Last
<1>6. CASE c = <<>>
  BY <1>0, <1>3, <1>5, <1>6, <1>1
<1>7. CASE c # <<>>
  <2>1. start \in within /\ w # <<>> /\ m >= 1 /\ n >= 1
    BY <1>3, <1>4, <1>1, <1>7
  <2> DEFINE S == {k \in Nat : k + 1 <= m => k + 1 <= n
                                               /\ w[k + 1] = c[k + 1]}
  <2>2. 0 \in S
    BY <1>3, <1>7, <1>1, <2>1
  <2>3. \A k \in 0..(m - 1) : k \in S => k + 1 \in S
    <3> SUFFICES ASSUME NEW k \in 0..(m - 1), k \in S, k + 2 <= m
                 PROVE  k + 2 <= n /\ w[k + 2] = c[k + 2]
      BY <1>4
    <3> DEFINE i == k + 1
    <3>1. i \in 1..m /\ i # m /\ i <= n /\ w[i] = c[i] /\ i + 1 = k + 2
      BY <1>4
    <3> HIDE DEF i
    <3>2. link[w[i]] = c[i + 1] /\ c[i + 1] \in within
      BY <1>4, <1>1, <3>1
    <3>3. i # n
      BY <1>3, <1>4, <1>1, <2>1, <3>1, <3>2
    <3>4. i \in 1..(n - 1)
      BY <1>4, <1>1, <3>1, <3>3
    <3> QED
      BY <1>3, <1>4, <1>1, <3>1, <3>2, <3>4
  <2>4. \A k \in 0..m : k \in S
    <3> HIDE DEF S
    <3> QED
      BY <1>4, <2>2, <2>3, UpTo
  <2>5. \A i \in 1..m : i <= n /\ w[i] = c[i]
    <3> SUFFICES ASSUME NEW i \in 1..m
                 PROVE  i <= n /\ w[i] = c[i]
      OBVIOUS
    <3> DEFINE k == i - 1
    <3>1. k \in 0..m /\ k + 1 = i
      BY <1>4
    <3>2. k \in S
      <4> HIDE DEF S, k
      <4> QED
        BY <2>4, <3>1
    <3> HIDE DEF k
    <3> QED
      BY <1>4, <1>1, <3>1, <3>2
  <2>6. ~(m < n)
    <3> SUFFICES ASSUME m < n
                 PROVE  FALSE
      OBVIOUS
    <3>1. m \in 1..(n - 1) /\ m + 1 \in 1..n
      BY <1>4, <1>1, <2>1
    <3>2. w[m + 1] = stop
      BY <1>3, <1>4, <1>1, <2>1, <2>5, <3>1
    <3> QED
      BY <1>3, <1>1, <3>1, <3>2
  <2>7. m = n
    BY <1>4, <1>1, <2>1, <2>5, <2>6
  <2>8. w = c
    BY <1>3, <1>1, <2>5, <2>7
  <2> QED
    BY <1>0, <1>5, <2>8
<1> QED
  BY <1>6, <1>7

----------------------------------------------------------------------------
(* The list as a sequence.                                                 *)

\* Sequences in which no line is twice.
Lists == {s \in Seq(Tag) :
            \A i, j \in 1..Len(s) : s[i] = s[j] => i = j}

\* The node at place i of list s, if there is one.
At(s, i) == IF i \in 1..Len(s) THEN s[i] ELSE NULL

\* Links that lead from any place of a list to a later one do not go around
\* in circles: next, next_skip.
LEMMA WalksBack ==
  ASSUME NEW s \in Lists, NEW link \in [Tag -> Node],
         NEW within \in SUBSET Tag,
         \A x \in within : link[x] \in within =>
           \E i, j \in 1..Len(s) : i < j /\ x = s[i] /\ link[x] = s[j]
  PROVE  Unfolds(link, within)
<1> DEFINE n == Len(s)
           place(x) == CHOOSE i \in 1..n : s[i] = x
           rank == [x \in Tag |-> IF \E i \in 1..n : s[i] = x
                                  THEN n - place(x) ELSE 0]
<1>1. n \in Nat /\ s \in Seq(Tag)
  BY DEF Lists
<1>2. \A i \in 1..n : s[i] \in Tag /\ place(s[i]) = i
  <2> SUFFICES ASSUME NEW i \in 1..n
               PROVE  s[i] \in Tag /\ place(s[i]) = i
    OBVIOUS
  <2>1. place(s[i]) \in 1..n /\ s[place(s[i])] = s[i]
    OBVIOUS
  <2> QED
    BY <1>1, <2>1 DEF Lists
<1> HIDE DEF place
<1>3. \A i \in 1..n : rank[s[i]] = n - i
  BY <1>2
<1>4. rank \in [Tag -> 0..n]
  <2> SUFFICES ASSUME NEW x \in Tag
               PROVE  rank[x] \in 0..n
    OBVIOUS
  <2>1. CASE \E i \in 1..n : s[i] = x
    <3>1. PICK i \in 1..n : s[i] = x
      BY <2>1
    <3>2. rank[x] = n - i
      BY <1>3, <3>1
    <3> HIDE DEF rank
    <3> QED
      BY <1>1, <3>2
  <2>2. CASE ~\E i \in 1..n : s[i] = x
    BY <1>1, <2>2
  <2> QED
    BY <2>1, <2>2
<1> HIDE DEF rank
<1>5. \A x \in within : link[x] \in within => rank[link[x]] < rank[x]
  BY <1>1, <1>3
<1> QED
  BY <1>1, <1>4, <1>5, WalkUnfolds

\* Nor do links that lead to an earlier place: prev, prev_skip.
LEMMA WalksToFront ==
  ASSUME NEW s \in Lists, NEW link \in [Tag -> Node],
         NEW within \in SUBSET Tag,
         \A x \in within : link[x] \in within =>
           \E i, j \in 1..Len(s) : j < i /\ x = s[i] /\ link[x] = s[j]
  PROVE  Unfolds(link, within)
<1> DEFINE n == Len(s)
           place(x) == CHOOSE i \in 1..n : s[i] = x
           rank == [x \in Tag |-> IF \E i \in 1..n : s[i] = x
                                  THEN place(x) ELSE 0]
<1>1. n \in Nat /\ s \in Seq(Tag)
  BY DEF Lists
<1>2. \A i \in 1..n : s[i] \in Tag /\ place(s[i]) = i
  <2> SUFFICES ASSUME NEW i \in 1..n
               PROVE  s[i] \in Tag /\ place(s[i]) = i
    OBVIOUS
  <2>1. place(s[i]) \in 1..n /\ s[place(s[i])] = s[i]
    OBVIOUS
  <2> QED
    BY <1>1, <2>1 DEF Lists
<1> HIDE DEF place
<1>3. \A i \in 1..n : rank[s[i]] = i
  BY <1>2
<1>4. rank \in [Tag -> 0..n]
  <2> SUFFICES ASSUME NEW x \in Tag
               PROVE  rank[x] \in 0..n
    OBVIOUS
  <2>1. CASE \E i \in 1..n : s[i] = x
    <3>1. PICK i \in 1..n : s[i] = x
      BY <2>1
    <3>2. rank[x] = i
      BY <1>3, <3>1
    <3> HIDE DEF rank
    <3> QED
      BY <1>1, <3>2
  <2>2. CASE ~\E i \in 1..n : s[i] = x
    BY <1>1, <2>2
  <2> QED
    BY <2>1, <2>2
<1> HIDE DEF rank
<1>5. \A x \in within : link[x] \in within => rank[link[x]] < rank[x]
  BY <1>1, <1>3
<1> QED
  BY <1>1, <1>4, <1>5, WalkUnfolds

\* The links of the list have the nodes of s in their order.
InOrder(s, nx, pv) ==
  /\ \A i \in 1..Len(s) : nx[s[i]] = At(s, i + 1) /\ pv[s[i]] = At(s, i - 1)
  /\ \A x \in Tag : (\A i \in 1..Len(s) : s[i] # x)
                      => nx[x] = NULL /\ pv[x] = NULL

\* Then the walk from its first node visits s: List is s.
LEMMA ListIs ==
  ASSUME NEW s \in Lists, NEW nx \in [Tag -> Node], NEW pv \in [Tag -> Node],
         InOrder(s, nx, pv)
  PROVE  Walk(At(s, 1), nx, Tag) = s
<1> DEFINE n == Len(s)
<1>1. s \in Seq(Tag) /\ n \in Nat /\ NULL \notin Tag
  BY NullAssumption DEF Lists
<1>2. ASSUME NEW x \in Tag, nx[x] \in Tag
      PROVE  \E i, j \in 1..n : i < j /\ x = s[i] /\ nx[x] = s[j]
  <2>1. PICK i \in 1..n : s[i] = x
    BY <1>1, <1>2 DEF InOrder
  <2>2. nx[x] = At(s, i + 1)
    BY <2>1 DEF InOrder
  <2>3. i + 1 \in 1..n /\ nx[x] = s[i + 1]
    BY <1>1, <1>2, <2>2 DEF At
  <2> QED
    BY <2>1, <2>3
<1>3. Unfolds(nx, Tag)
  BY <1>2, WalksBack
<1>4. At(s, 1) = IF s = <<>> THEN NULL ELSE s[1]
  BY <1>1 DEF At
<1>5. \A i \in 1..n : nx[s[i]] = IF i = n THEN NULL ELSE s[i + 1]
  BY <1>1 DEF InOrder, At
<1>6. At(s, 1) \in Node /\ NULL \in Node
  BY <1>1 DEF At, Node
<1>7. Chain(s, At(s, 1), nx, Tag, NULL)
  BY <1>1, <1>4, <1>5, <1>6 DEF Chain
<1> QED
  BY <1>3, <1>7, WalkIs

----------------------------------------------------------------------------
(* The skip list.                                                          *)

\* The places of the skip nodes in a list of n nodes.
Skips(n) == {q \in K..(n + 1 - K) : Rem(n + 1 - q, K) = 0}

\* Two skip nodes are K apart or more, and K further there is one as long as
\* it is within the range.
LEMMA SkipsApart ==
  ASSUME NEW n \in Nat
  PROVE  /\ K \in Nat /\ K >= 2
         /\ Skips(n) \in SUBSET (1..n)
         /\ \A q \in Skips(n) : K <= q /\ q <= n + 1 - K
         /\ \A q, r \in Skips(n) : q < r => q + K <= r
         /\ \A q \in Skips(n) : q + K <= n + 1 - K => q + K \in Skips(n)
         /\ \A q \in Skips(n) : q - K >= K => q - K \in Skips(n)
<1>1. K \in Nat /\ K >= 2 /\ K \in Nat \ {0}
  BY SkipAssumption DEF K
<1>2. /\ Skips(n) \in SUBSET (1..n)
      /\ \A q \in Skips(n) : K <= q /\ q <= n + 1 - K
  BY <1>1 DEF Skips
<1> HIDE DEF K
<1>3. ASSUME NEW q \in Skips(n), NEW r \in Skips(n), q < r
      PROVE  q + K <= r
  <2>1. SUFFICES ASSUME r < q + K
                 PROVE  FALSE
    BY <1>1, <1>2
  <2> DEFINE m == n + 1 - r
             j == r - q
             l == n + 1 - q
  <2>2. /\ m \in Int /\ j \in 1..(K - 1) /\ m + j = l
        /\ Rem(m, K) = 0 /\ Rem(l, K) = 0
    BY <1>1, <1>2, <1>3, <2>1 DEF Skips
  <2> HIDE DEF m, j, l
  <2>3. Rem(m + j, K) # 0
    BY <1>1, <2>2, RemainderOnce
  <2> QED
    BY <2>2, <2>3
<1>4. ASSUME NEW q \in Skips(n), q + K <= n + 1 - K
      PROVE  q + K \in Skips(n)
  <2> DEFINE m == n + 1 - (q + K)
             l == n + 1 - q
             r == q + K
  <2>1. /\ m \in Int /\ m + K = l /\ Rem(l, K) = 0 /\ r \in K..(n + 1 - K)
        /\ m = n + 1 - r
    BY <1>1, <1>2, <1>4 DEF Skips
  <2> HIDE DEF m, l, r
  <2>2. Rem(m + K, K) = Rem(m, K)
    BY <1>1, <2>1, RemainderShift
  <2>3. r \in Skips(n)
    BY <2>1, <2>2 DEF Skips
  <2> QED
    BY <2>3 DEF r
<1>5. ASSUME NEW q \in Skips(n), q - K >= K
      PROVE  q - K \in Skips(n)
  <2> DEFINE m == n + 1 - q
             l == n + 1 - (q - K)
             r == q - K
  <2>1. /\ m \in Int /\ m + K = l /\ Rem(m, K) = 0 /\ r \in K..(n + 1 - K)
        /\ l = n + 1 - r
    BY <1>1, <1>2, <1>5 DEF Skips
  <2> HIDE DEF m, l, r
  <2>2. Rem(m + K, K) = Rem(m, K)
    BY <1>1, <2>1, RemainderShift
  <2>3. r \in Skips(n)
    BY <2>1, <2>2 DEF Skips
  <2> QED
    BY <2>3 DEF r
<1> QED
  BY <1>1, <1>2, <1>3, <1>4, <1>5

\* A list of 2 * K - 1 nodes or more has skip nodes, the first of them within
\* the first 2 * K - 1; a shorter one has none.
LEMMA FirstSkip ==
  ASSUME NEW n \in Nat
  PROVE  /\ n < 2 * K - 1 => Skips(n) = {}
         /\ n >= 2 * K - 1 => \E q \in Skips(n) : q <= 2 * K - 1
<1>1. K \in Nat /\ K >= 2 /\ K \in Nat \ {0}
  BY SkipAssumption DEF K
<1> HIDE DEF K
<1>2. n < 2 * K - 1 => Skips(n) = {}
  BY <1>1 DEF Skips
<1>3. ASSUME n >= 2 * K - 1
      PROVE  \E q \in Skips(n) : q <= 2 * K - 1
  <2> DEFINE m == n + 1 - K
  <2>1. m \in Int
    BY <1>1
  <2> HIDE DEF m
  <2>2. PICK j \in 0..(K - 1) : Rem(m - j, K) = 0
    BY <1>1, <2>1, RemainderBelow
  <2> DEFINE q == K + j
  <2>3. /\ q \in Int /\ K <= q /\ q <= 2 * K - 1
        /\ n + 1 - q = m - j
    BY <1>1 DEF m
  <2> DEFINE x == m - j
  <2>4. x >= K
    <3>1. x \in Int /\ x >= 1 /\ Rem(x, K) = 0
      BY <1>1, <1>3, <2>2 DEF m
    <3> HIDE DEF x
    <3> DEFINE zero == 0
    <3>2. /\ zero = K * zero + zero /\ zero \in Int /\ zero \in 0..(K - 1)
          /\ zero + x = x
      BY <1>1, <3>1
    <3> HIDE DEF zero
    <3>3. Rem(zero, K) = zero
      BY <1>1, <3>2, RemainderIs
    <3>4. x < K => x \in 1..(K - 1)
      BY <1>1, <3>1
    <3>5. x < K => Rem(zero + x, K) # 0
      BY <1>1, <3>2, <3>3, <3>4, RemainderOnce DEF zero
    <3> QED
      BY <1>1, <3>1, <3>2, <3>5
  <2>5. q <= n + 1 - K
    BY <1>1, <2>1, <2>3, <2>4
  <2> HIDE DEF q
  <2>6. q \in Skips(n)
    BY <1>1, <2>2, <2>3, <2>5 DEF Skips
  <2> QED
    BY <2>3, <2>6
<1> QED
  BY <1>2, <1>3

\* The skip nodes of a list that gets a node in front: the old ones, and the
\* one at K if the first is now 2 * K away from the front or would be.
LEMMA SkipsGrow ==
  ASSUME NEW n \in Nat
  PROVE  /\ \A q \in Skips(n) : q + 1 \in Skips(n + 1)
         /\ \A q \in Skips(n + 1) : q = K \/ q - 1 \in Skips(n)
         /\ K \in Skips(n + 1) <=>
              IF Skips(n) = {} THEN n = 2 * K - 2 ELSE 2 * K - 1 \in Skips(n)
<1>1. K \in Nat /\ K >= 2 /\ K \in Nat \ {0}
  BY SkipAssumption DEF K
<1> HIDE DEF K
<1>2. ASSUME NEW q \in Skips(n)
      PROVE  q + 1 \in Skips(n + 1)
  <2> DEFINE r == q + 1
             l == n + 1 - q
  <2>1. r \in K..(n + 1 + 1 - K) /\ n + 1 + 1 - r = l /\ Rem(l, K) = 0
    BY <1>1 DEF Skips
  <2> HIDE DEF r, l
  <2>2. r \in Skips(n + 1)
    BY <2>1 DEF Skips
  <2> QED
    BY <2>2 DEF r
<1>3. ASSUME NEW q \in Skips(n + 1), q # K
      PROVE  q - 1 \in Skips(n)
  <2> DEFINE r == q - 1
             l == n + 1 + 1 - q
  <2>1. r \in K..(n + 1 - K) /\ n + 1 - r = l /\ Rem(l, K) = 0
    BY <1>1, <1>3 DEF Skips
  <2> HIDE DEF r, l
  <2>2. r \in Skips(n)
    BY <2>1 DEF Skips
  <2> QED
    BY <2>2 DEF r
<1> DEFINE m == n + 1 - (2 * K - 1)
           l == n + 1 + 1 - K
<1>4. m \in Int /\ m + K = l
  BY <1>1
<1>5. Rem(l, K) = Rem(m, K)
  <2> HIDE DEF m, l
  <2>1. Rem(m + K, K) = Rem(m, K)
    BY <1>1, <1>4, RemainderShift
  <2> QED
    BY <1>4, <2>1
<1>6. K \in Skips(n + 1) <=> K <= n + 1 + 1 - K /\ Rem(l, K) = 0
  BY <1>1 DEF Skips
<1>7. 2 * K - 1 \in Skips(n) <=> 2 * K - 1 <= n + 1 - K /\ Rem(m, K) = 0
  <2> DEFINE q == 2 * K - 1
  <2>1. q \in Int /\ K <= q /\ m = n + 1 - q
    BY <1>1
  <2> HIDE DEF q, m
  <2>2. q \in Skips(n) <=> q <= n + 1 - K /\ Rem(m, K) = 0
    BY <1>1, <2>1 DEF Skips
  <2> QED
    BY <2>2 DEF q
<1>8. 2 * K - 1 \in Skips(n) => K \in Skips(n + 1)
  BY <1>1, <1>4, <1>5, <1>6, <1>7
<1>9. CASE Skips(n) = {}
  <2>1. n <= 2 * K - 2
    BY <1>1, <1>9, FirstSkip
  <2>2. n = 2 * K - 2 => Rem(m, K) = 0
    <3> SUFFICES ASSUME n = 2 * K - 2
                 PROVE  Rem(m, K) = 0
      OBVIOUS
    <3> DEFINE zero == 0
    <3>1. m = K * zero + zero /\ zero \in 0..(K - 1) /\ zero \in Int
      BY <1>1
    <3> HIDE DEF m, zero
    <3>2. Rem(m, K) = zero
      BY <1>1, <1>4, <3>1, RemainderIs
    <3> QED
      BY <3>2 DEF zero
  <2>3. n = 2 * K - 2 => K <= n + 1 + 1 - K
    BY <1>1
  <2>4. K <= n + 1 + 1 - K => n >= 2 * K - 2
    BY <1>1
  <2>5. n = 2 * K - 2 <=> K \in Skips(n + 1)
    <3> HIDE DEF m, l
    <3>1. n = 2 * K - 2 => K \in Skips(n + 1)
      BY <1>5, <1>6, <2>2, <2>3
    <3>2. K \in Skips(n + 1) => n = 2 * K - 2
      BY <1>1, <1>6, <2>1, <2>4
    <3> QED
      BY <3>1, <3>2
  <2> QED
    BY <1>2, <1>3, <1>9, <2>5
<1>10. CASE Skips(n) # {}
  <2>1. n >= 2 * K - 1
    BY <1>1, <1>10, FirstSkip
  <2>2. ASSUME K \in Skips(n + 1)
        PROVE  2 * K - 1 \in Skips(n)
    <3>1. PICK q \in Skips(n) : q <= 2 * K - 1
      BY <2>1, FirstSkip
    <3>2. q + 1 \in Skips(n + 1) /\ q >= K /\ q \in Int
      BY <1>1, <1>2, SkipsApart
    <3>3. \A u, v \in Skips(n + 1) : u < v => u + K <= v
      <4>1. n + 1 \in Nat
        OBVIOUS
      <4> QED
        BY <4>1, SkipsApart
    <3>4. K + K <= q + 1
      BY <1>1, <2>2, <3>2, <3>3
    <3>5. q = 2 * K - 1
      BY <1>1, <3>1, <3>2, <3>4
    <3> QED
      BY <3>5
  <2> QED
    BY <1>2, <1>3, <1>8, <1>10, <2>2
<1> QED
  BY <1>9, <1>10

----------------------------------------------------------------------------
(* Handing the skip nodes on.                                              *)

\* One step of the recursion FoldLeft stands for: set is the domain of a
\* beginning of c.
FoldStep(b, c, g, set) ==
  IF set = {} THEN b ELSE MoveSkipFields(g[set \ {Max(set)}], c[Max(set)])

\* The loop of move_to_front calls move_skip_fields for one node after the
\* other: h[j] is what the fields are after j calls.
LEMMA FoldSteps ==
  ASSUME NEW S, NEW c \in Seq(S), NEW b
  PROVE  \E h : /\ h[0] = b
                /\ \A j \in 0..(Len(c) - 1) :
                     h[j + 1] = MoveSkipFields(h[j], c[j + 1])
                /\ h[Len(c)] = FoldLeft(MoveSkipFields, b, c)
<1> DEFINE m == Len(c)
           Steps(g, k) == g = [set \in SUBSET (1..k) |->
                                 FoldStep(b, c, g, set)]
           T == {k \in Nat : \E g : Steps(g, k)}
<1>1. m \in Nat /\ DOMAIN c = 1..m
  OBVIOUS
<1>2. \A k \in Nat : Max(1..(k + 1)) = k + 1
  BY DEF Max
<1>3. 0 \in T
  <2> DEFINE g == [set \in SUBSET (1..0) |-> b]
  <2>1. \A set \in SUBSET (1..0) : FoldStep(b, c, g, set) = b
    BY DEF FoldStep
  <2> QED
    BY <2>1
<1>4. \A k \in 0..(m - 1) : k \in T => k + 1 \in T
  <2> SUFFICES ASSUME NEW k \in Nat, k \in T
               PROVE  k + 1 \in T
    BY <1>1
  <2>1. PICK g : Steps(g, k)
    OBVIOUS
  <2> DEFINE n == k + 1
             G == [set \in SUBSET (1..n) |->
                     IF n \in set THEN MoveSkipFields(g[set \ {n}], c[n])
                     ELSE g[set]]
  <2>2. ASSUME NEW set \in SUBSET (1..n)
        PROVE  G[set] = FoldStep(b, c, G, set)
    <3>1. CASE n \in set
      <4>1. \A y \in set : n >= y
        OBVIOUS
      <4>2. Max(set) = n
        <5>1. Max(set) \in set /\ \A y \in set : Max(set) >= y
          BY <3>1, <4>1 DEF Max
        <5> DEFINE z == Max(set)
        <5>2. z \in Nat /\ z <= n /\ n <= z
          <6> HIDE DEF z
          <6>1. z \in set /\ z >= n
            BY <3>1, <5>1 DEF z
          <6> QED
            BY <6>1
        <5> HIDE DEF z, G
        <5>3. z = n
          BY <5>2
        <5> QED
          BY <5>3 DEF z
      <4>3. set \ {n} \in SUBSET (1..n) /\ n \notin set \ {n}
        OBVIOUS
      <4>4. G[set \ {n}] = g[set \ {n}]
        <5> DEFINE rest == set \ {n}
        <5>1. rest \in SUBSET (1..n) /\ n \notin rest
          BY <4>3
        <5> HIDE DEF rest
        <5>2. G[rest] = g[rest]
          BY <5>1
        <5> QED
          BY <5>2 DEF rest
      <4>5. G[set] = MoveSkipFields(g[set \ {n}], c[n])
        BY <3>1
      <4> HIDE DEF G, n
      <4> QED
        BY <3>1, <4>2, <4>4, <4>5 DEF FoldStep
    <3>2. CASE n \notin set
      <4>1. set \in SUBSET (1..k)
        BY <3>2
      <4>2. G[set] = g[set] /\ g[set] = FoldStep(b, c, g, set)
        BY <2>1, <3>2, <4>1
      <4>3. ASSUME set # {}
            PROVE  G[set \ {Max(set)}] = g[set \ {Max(set)}]
        <5> DEFINE rest == set \ {Max(set)}
        <5>1. rest \in SUBSET (1..n) /\ n \notin rest
          BY <3>2
        <5> HIDE DEF rest
        <5>2. G[rest] = g[rest]
          BY <5>1
        <5> QED
          BY <5>2 DEF rest
      <4> HIDE DEF G
      <4> QED
        BY <4>2, <4>3 DEF FoldStep
    <3> QED
      BY <3>1, <3>2
  <2>3. G = [set \in SUBSET (1..n) |-> FoldStep(b, c, G, set)]
    BY <2>2
  <2> HIDE DEF G
  <2>4. Steps(G, k + 1) /\ k + 1 \in Nat
    BY <2>3
  <2> HIDE DEF Steps
  <2> QED
    BY <2>4
<1>5. m \in T
  <2> HIDE DEF T, m
  <2>1. \A k \in 0..m : k \in T
    BY <1>1, <1>3, <1>4, UpTo
  <2> QED
    BY <1>1, <2>1
<1> DEFINE f == CHOOSE g : g = [set \in SUBSET (DOMAIN c) |->
                                  FoldStep(b, c, g, set)]
<1>6. f = [set \in SUBSET (1..m) |-> FoldStep(b, c, f, set)]
  BY <1>1, <1>5
<1>7. FoldLeft(MoveSkipFields, b, c) = f[1..m]
  BY <1>1 DEF FoldLeft, MapThenFoldSet, FoldStep
<1> HIDE DEF f, T
<1> DEFINE h == [j \in 0..m |-> f[1..j]]
<1>8. h[0] = b
  <2>1. (1..0) = {} /\ {} \in SUBSET (1..m) /\ 0 \in 0..m
    BY <1>1
  <2>2. f[{}] = b
    BY <1>6, <2>1 DEF FoldStep
  <2> QED
    BY <2>1, <2>2
<1>9. \A j \in 0..(m - 1) : h[j + 1] = MoveSkipFields(h[j], c[j + 1])
  <2> SUFFICES ASSUME NEW j \in 0..(m - 1)
               PROVE  h[j + 1] = MoveSkipFields(h[j], c[j + 1])
    OBVIOUS
  <2>1. /\ j \in Nat /\ 1..(j + 1) \in SUBSET (1..m) /\ 1..(j + 1) # {}
        /\ (1..(j + 1)) \ {j + 1} = 1..j
        /\ j \in 0..m /\ j + 1 \in 0..m
    <3> HIDE DEF h, m
    <3>1. j \in Nat /\ j \in 0..m /\ j + 1 \in 0..m /\ j + 1 \in 1..(j + 1)
      BY <1>1
    <3>2. 1..(j + 1) \in SUBSET (1..m)
      BY <1>1, <3>1
    <3>3. (1..(j + 1)) \ {j + 1} = 1..j
      BY <3>1
    <3> QED
      BY <3>1, <3>2, <3>3
  <2>2. Max(1..(j + 1)) = j + 1
    BY <1>2, <2>1
  <2>3. h[j] = f[1..j] /\ h[j + 1] = f[1..(j + 1)]
    BY <2>1
  <2> HIDE DEF h
  <2>4. f[1..(j + 1)] = FoldStep(b, c, f, 1..(j + 1))
    <3> DEFINE set == 1..(j + 1)
    <3>1. set \in SUBSET (1..m)
      BY <2>1
    <3> HIDE DEF set, m
    <3>2. f[set] = FoldStep(b, c, f, set)
      BY <1>6, <3>1
    <3> QED
      BY <3>2 DEF set
  <2> QED
    BY <2>1, <2>2, <2>3, <2>4, Zenon DEF FoldStep
<1>10. h[m] = f[1..m]
  BY <1>1
<1> HIDE DEF h
<1> QED
  BY <1>7, <1>8, <1>9, <1>10

\* The three fields of all nodes, as move_skip_fields has them.
Fields == [prev_skip : [Tag -> Node], next_skip : [Tag -> Node],
           depth : [Tag -> Nat \cup {-1}]]

\* The nodes at[q], q \in P, are the skip list: each at depth q - 1 and linked
\* to the ones K before and behind; no other node has anything of it.
Skipping(f, at, P) ==
  /\ \A q \in P :
       /\ f.depth[at[q]] = q - 1
       /\ f.next_skip[at[q]] = IF q + K \in P THEN at[q + K] ELSE NULL
       /\ f.prev_skip[at[q]] = IF q - K \in P THEN at[q - K] ELSE NULL
  /\ \A x \in Tag : (\A q \in P : at[q] # x) =>
       f.depth[x] = -1 /\ f.next_skip[x] = NULL /\ f.prev_skip[x] = NULL

\* The predecessor y of the skip node at q is no skip node.
MayHandOn(f, at, P, q, y) ==
  /\ f \in Fields
  /\ at \in [P -> Tag]
  /\ \A r, t \in P : at[r] = at[t] => r = t
  /\ \A r \in P : r \in Nat /\ r >= K
  /\ Skipping(f, at, P)
  /\ q \in P /\ y \in Tag /\ prev[at[q]] = y
  /\ \A r \in P : at[r] # y

\* move_skip_fields makes the predecessor a skip node in the node's stead.
LEMMA HandOn ==
  ASSUME NEW P, NEW at, NEW f, NEW q, NEW y, MayHandOn(f, at, P, q, y)
  PROVE  /\ MoveSkipFields(f, at[q]) \in Fields
         /\ Skipping(MoveSkipFields(f, at[q]), [at EXCEPT ![q] = y], P)
<1> DEFINE x == at[q]
           to == [at EXCEPT ![q] = y]
<1>0. /\ P \in SUBSET Nat /\ at \in [P -> Tag] /\ f \in Fields
      /\ \A r, t \in P : at[r] = at[t] => r = t
      /\ \A r \in P : r >= K
      /\ Skipping(f, at, P) /\ q \in P /\ y \in Tag /\ prev[x] = y
      /\ \A r \in P : at[r] # y
      /\ x = at[q]
  BY DEF MayHandOn
<1> HIDE DEF x
<1> DEFINE g == MoveSkipFields(f, x)
           p == f.prev_skip[x]
           n == f.next_skip[x]
<1>1. K \in Nat /\ K >= 2 /\ NULL \notin Tag
  BY SkipAssumption, NullAssumption DEF K
<1> HIDE DEF K
<1>2. /\ f.prev_skip \in [Tag -> Node] /\ f.next_skip \in [Tag -> Node]
      /\ f.depth \in [Tag -> Nat \cup {-1}] /\ x \in Tag /\ x # y
      /\ p \in Node /\ n \in Node /\ q \in Nat
  BY <1>0 DEF Fields
<1>3. /\ p = IF q - K \in P THEN at[q - K] ELSE NULL
      /\ n = IF q + K \in P THEN at[q + K] ELSE NULL
      /\ f.depth[x] = q - 1
  BY <1>0 DEF Skipping
<1>4. p # y /\ n # y /\ p # x /\ n # x
  <2>1. q - K # q /\ q + K # q
    BY <1>0, <1>1, <1>2
  <2> QED
    BY <1>0, <1>1, <1>2, <1>3, <2>1
<1> HIDE DEF p, n
<1>5. /\ g = [prev_skip |-> [Set([f.prev_skip EXCEPT ![y] = p], n, y)
                               EXCEPT ![x] = NULL],
              next_skip |-> [Set([f.next_skip EXCEPT ![y] = n], p, y)
                               EXCEPT ![x] = NULL],
              depth     |-> [f.depth EXCEPT ![y] = f.depth[x], ![x] = -1]]
  BY <1>0 DEF MoveSkipFields, p, n
<1> DEFINE gp == [z \in Tag |-> IF z = x THEN NULL
                                ELSE IF z = n THEN y
                                ELSE IF z = y THEN p ELSE f.prev_skip[z]]
           gn == [z \in Tag |-> IF z = x THEN NULL
                                ELSE IF z = p THEN y
                                ELSE IF z = y THEN n ELSE f.next_skip[z]]
           gd == [z \in Tag |-> IF z = x THEN -1
                                ELSE IF z = y THEN f.depth[x] ELSE f.depth[z]]
<1>6. [Set([f.prev_skip EXCEPT ![y] = p], n, y) EXCEPT ![x] = NULL] = gp
  BY <1>0, <1>1, <1>2, <1>4 DEF Set
<1>7. [Set([f.next_skip EXCEPT ![y] = n], p, y) EXCEPT ![x] = NULL] = gn
  BY <1>0, <1>1, <1>2, <1>4 DEF Set
<1>8. [f.depth EXCEPT ![y] = f.depth[x], ![x] = -1] = gd
  BY <1>0, <1>2
<1>9. g.prev_skip = gp /\ g.next_skip = gn /\ g.depth = gd
  BY <1>0, <1>5, <1>6, <1>7, <1>8
<1>10. g \in Fields
  <2>1. NULL \in Node /\ y \in Node
    BY <1>0 DEF Node
  <2>2. /\ gp \in [Tag -> Node] /\ gn \in [Tag -> Node]
        /\ gd \in [Tag -> Nat \cup {-1}]
    BY <1>0, <1>2, <2>1
  <2> HIDE DEF gp, gn, gd, g
  <2> QED
    BY <1>0, <1>5, <1>6, <1>7, <1>8, <2>2 DEF Fields
<1>11. to \in [P -> Tag] /\ to[q] = y /\ \A r \in P : r # q => to[r] = at[r]
  BY <1>0
<1> HIDE DEF g, to
<1>12. ASSUME NEW r \in P
       PROVE  /\ gd[to[r]] = r - 1
              /\ gn[to[r]] = IF r + K \in P THEN to[r + K] ELSE NULL
              /\ gp[to[r]] = IF r - K \in P THEN to[r - K] ELSE NULL
  <2>0. r \in Nat /\ r - K # r /\ r + K # r
    BY <1>0, <1>1
  <2>1. CASE r = q
    <3>1. /\ q + K \in P => to[q + K] = at[q + K]
          /\ q - K \in P => to[q - K] = at[q - K]
      BY <1>0, <1>11, <2>0, <2>1
    <3> QED
      BY <1>0, <1>2, <1>3, <1>4, <1>11, <2>1, <3>1
  <2>2. CASE r # q
    <3>1. to[r] = at[r] /\ at[r] \in Tag /\ at[r] # x /\ at[r] # y
      BY <1>0, <1>11, <2>2
    <3>2. /\ f.depth[at[r]] = r - 1
          /\ f.next_skip[at[r]] = IF r + K \in P THEN at[r + K] ELSE NULL
          /\ f.prev_skip[at[r]] = IF r - K \in P THEN at[r - K] ELSE NULL
      BY <1>0 DEF Skipping
    <3>3. gd[to[r]] = r - 1
      BY <1>0, <3>1, <3>2
    <3>4. gn[to[r]] = IF r + K \in P THEN to[r + K] ELSE NULL
      <4>1. CASE at[r] = p
        <5>1. q - K \in P /\ at[q - K] = at[r]
          BY <1>0, <1>1, <1>3, <3>1, <4>1
        <5>2. r = q - K
          BY <1>0, <5>1
        <5>3. r + K = q
          BY <1>0, <1>1, <1>2, <2>0, <5>2
        <5> QED
          BY <1>0, <1>11, <3>1, <4>1, <5>3
      <4>2. CASE at[r] # p
        <5>1. r + K # q
          <6> SUFFICES ASSUME r + K = q
                       PROVE  FALSE
            OBVIOUS
          <6>1. q - K = r
            BY <1>0, <1>1, <1>2, <2>0
          <6> QED
            BY <1>0, <1>3, <4>2, <6>1
        <5> QED
          BY <1>0, <1>11, <3>1, <3>2, <4>2, <5>1
      <4> QED
        BY <1>0, <4>1, <4>2
    <3>5. gp[to[r]] = IF r - K \in P THEN to[r - K] ELSE NULL
      <4>1. CASE at[r] = n
        <5>1. q + K \in P /\ at[q + K] = at[r]
          BY <1>0, <1>1, <1>3, <3>1, <4>1
        <5>2. r = q + K
          BY <1>0, <5>1
        <5>3. r - K = q
          BY <1>0, <1>1, <1>2, <2>0, <5>2
        <5> QED
          BY <1>0, <1>11, <3>1, <4>1, <5>3
      <4>2. CASE at[r] # n
        <5>1. r - K # q
          <6> SUFFICES ASSUME r - K = q
                       PROVE  FALSE
            OBVIOUS
          <6>1. q + K = r
            BY <1>0, <1>1, <1>2, <2>0
          <6> QED
            BY <1>0, <1>3, <4>2, <6>1
        <5> QED
          BY <1>0, <1>11, <3>1, <3>2, <4>2, <5>1
      <4> QED
        BY <1>0, <4>1, <4>2
    <3> QED
      BY <1>0, <3>3, <3>4, <3>5
  <2> QED
    BY <1>0, <2>1, <2>2
<1>13. ASSUME NEW z \in Tag, \A r \in P : to[r] # z
       PROVE  gd[z] = -1 /\ gn[z] = NULL /\ gp[z] = NULL
  <2>1. z # y
    BY <1>0, <1>11, <1>13
  <2>2. CASE z = x
    BY <1>0, <2>2
  <2>3. CASE z # x
    <3>1. \A r \in P : at[r] # z
      BY <1>0, <1>11, <1>13, <2>3
    <3>2. z # p /\ z # n
      BY <1>0, <1>1, <1>3, <3>1
    <3> QED
      BY <1>0, <2>1, <2>3, <3>1, <3>2 DEF Skipping
  <2> QED
    BY <1>0, <2>2, <2>3
<1> HIDE DEF gd, gn, gp
<1>14. Skipping(g, to, P)
  BY <1>0, <1>9, <1>12, <1>13 DEF Skipping
<1> QED
  BY <1>0, <1>10, <1>14 DEF g, to, x

\* The links of the skip list lead towards the ends of the list.
LEMMA SkipWalks ==
  ASSUME NEW s \in Lists, NEW f \in Fields, Skipping(f, s, Skips(Len(s)))
  PROVE  Unfolds(f.prev_skip, Tag) /\ Unfolds(f.next_skip, Tag)
<1> DEFINE n == Len(s)
           P == Skips(n)
<1>1. /\ s \in Seq(Tag) /\ n \in Nat /\ NULL \notin Tag
      /\ f.prev_skip \in [Tag -> Node] /\ f.next_skip \in [Tag -> Node]
  BY NullAssumption DEF Lists, Fields
<1>2. K \in Nat /\ K >= 2 /\ P \in SUBSET (1..n)
  BY <1>1, SkipsApart
<1> HIDE DEF P, n, K
<1>3. ASSUME NEW x \in Tag, f.prev_skip[x] \in Tag
      PROVE  \E i, j \in 1..n : j < i /\ x = s[i] /\ f.prev_skip[x] = s[j]
  <2>1. PICK q \in P : s[q] = x
    BY <1>1, <1>3 DEF Skipping, P, n
  <2>2. f.prev_skip[x] = IF q - K \in P THEN s[q - K] ELSE NULL
    BY <2>1 DEF Skipping, P, n
  <2>3. q - K \in P /\ f.prev_skip[x] = s[q - K]
    BY <1>1, <1>3, <2>2
  <2>4. q \in 1..n /\ q - K \in 1..n /\ q - K < q
    BY <1>2, <2>3
  <2> QED
    BY <2>1, <2>3, <2>4
<1>4. ASSUME NEW x \in Tag, f.next_skip[x] \in Tag
      PROVE  \E i, j \in 1..n : i < j /\ x = s[i] /\ f.next_skip[x] = s[j]
  <2>1. PICK q \in P : s[q] = x
    BY <1>1, <1>4 DEF Skipping, P, n
  <2>2. f.next_skip[x] = IF q + K \in P THEN s[q + K] ELSE NULL
    BY <2>1 DEF Skipping, P, n
  <2>3. q + K \in P /\ f.next_skip[x] = s[q + K]
    BY <1>1, <1>4, <2>2
  <2>4. q \in 1..n /\ q + K \in 1..n /\ q < q + K
    BY <1>2, <2>3
  <2> QED
    BY <2>1, <2>3, <2>4
<1>5. Unfolds(f.prev_skip, Tag)
  BY <1>1, <1>3, WalksToFront DEF n
<1>6. Unfolds(f.next_skip, Tag)
  BY <1>1, <1>4, WalksBack DEF n
<1> QED
  BY <1>5, <1>6

\* The loop of move_to_front: from the last skip node at or before place p
\* on, each is handed to its predecessor, so that the skip nodes come to be
\* at the same places of the list in which the node at p is the first.
LEMMA HandedOn ==
  ASSUME NEW s \in Lists, NEW f \in Fields, Skipping(f, s, Skips(Len(s))),
         \A i \in 2..Len(s) : prev[s[i]] = s[i - 1],
         NEW p \in 1..Len(s), NEW top \in 0..p,
         top # 0 => top \in Skips(Len(s)),
         \A r \in Skips(Len(s)) : r <= p => r <= top,
         NEW b, b = FoldLeft(MoveSkipFields, f,
                             Walk(At(s, top), f.prev_skip, Tag))
  PROVE  /\ b \in Fields
         /\ Skipping(b, [r \in Skips(Len(s)) |->
                            IF r <= p THEN s[r - 1] ELSE s[r]],
                     Skips(Len(s)))
<1> DEFINE n == Len(s)
           P == Skips(n)
           c == Walk(At(s, top), f.prev_skip, Tag)
           m == Len(c)
           Cur(q) == [r \in P |-> IF q < r /\ r <= p THEN s[r - 1] ELSE s[r]]
<1>1. /\ s \in Seq(Tag) /\ n \in Nat /\ NULL \notin Tag
      /\ f.prev_skip \in [Tag -> Node] /\ f.next_skip \in [Tag -> Node]
      /\ \A i, j \in 1..n : s[i] = s[j] => i = j
      /\ \A i \in 1..n : s[i] \in Tag
  BY NullAssumption DEF Lists, Fields
<1>2. /\ K \in Nat /\ K >= 2 /\ P \in SUBSET (1..n)
      /\ \A q \in P : K <= q /\ q <= n + 1 - K
      /\ \A q, r \in P : q < r => q + K <= r
      /\ \A q \in P : q - K >= K => q - K \in P
  BY <1>1, SkipsApart
<1>3. /\ c \in Seq(Tag)
      /\ c = <<>> <=> At(s, top) \notin Tag
      /\ c # <<>> => c[1] = At(s, top) /\ f.prev_skip[c[m]] \notin Tag
      /\ \A i \in 1..(m - 1) : c[i + 1] = f.prev_skip[c[i]]
  <2>1. At(s, top) \in Node
    BY <1>1 DEF At, Node
  <2>2. Unfolds(f.prev_skip, Tag)
    BY SkipWalks
  <2> DEFINE link == f.prev_skip
             start == At(s, top)
  <2>3. c = Walk(start, link, Tag)
    OBVIOUS
  <2> HIDE DEF c, link, start
  <2>4. /\ c \in Seq(Tag)
        /\ c = <<>> <=> start \notin Tag
        /\ c # <<>> => c[1] = start /\ link[c[Len(c)]] \notin Tag
        /\ \A i \in 1..(Len(c) - 1) : c[i + 1] = link[c[i]]
    <3>1. link \in [Tag -> Node] /\ start \in Node /\ Unfolds(link, Tag)
      BY <1>1, <2>1, <2>2 DEF link, start
    <3> QED
      BY <2>3, <3>1, Walked
  <2> QED
    BY <2>4 DEF link, start
<1>4. m \in Nat /\ b = FoldLeft(MoveSkipFields, f, c)
  BY <1>3
<1>5. /\ \A q \in P : f.prev_skip[s[q]] = IF q - K \in P THEN s[q - K]
                                          ELSE NULL
      /\ Skipping(f, s, P)
  BY DEF Skipping
<1>6. \A i \in 2..n : prev[s[i]] = s[i - 1]
  OBVIOUS
<1> HIDE DEF c, m, P, n, K
<1>7. PICK h : /\ h[0] = f
               /\ \A j \in 0..(m - 1) :
                    h[j + 1] = MoveSkipFields(h[j], c[j + 1])
               /\ h[m] = FoldLeft(MoveSkipFields, f, c)
  BY <1>3, FoldSteps DEF m
<1>8. \A q \in Int :
        /\ Cur(q) \in [P -> Tag]
        /\ \A r, t \in P : Cur(q)[r] = Cur(q)[t] => r = t
        /\ q \in P => \A r \in P : Cur(q)[r] # s[q - 1]
  <2> SUFFICES ASSUME NEW q \in Int
               PROVE  /\ Cur(q) \in [P -> Tag]
                      /\ \A r, t \in P : Cur(q)[r] = Cur(q)[t] => r = t
                      /\ q \in P => \A r \in P : Cur(q)[r] # s[q - 1]
    OBVIOUS
  <2> DEFINE ix(r) == IF q < r /\ r <= p THEN r - 1 ELSE r
  <2>1. \A r \in P : r \in 2..n /\ ix(r) \in 1..n /\ Cur(q)[r] = s[ix(r)]
    BY <1>1, <1>2
  <2>2. \A r, t \in P : r < t => ix(r) # ix(t)
    <3> SUFFICES ASSUME NEW r \in P, NEW t \in P, r < t
                 PROVE  ix(r) # ix(t)
      OBVIOUS
    <3>1. r \in Nat /\ t \in Nat /\ r + 2 <= t
      <4>1. r + K <= t /\ r \in Nat /\ t \in Nat
        BY <1>2
      <4> QED
        BY <1>2, <4>1
    <3> QED
      BY <3>1
  <2>3. q \in P => \A r \in P : ix(r) # q - 1
    <3> SUFFICES ASSUME q \in P, NEW r \in P
                 PROVE  ix(r) # q - 1
      OBVIOUS
    <3>1. r \in Nat /\ q \in Nat /\ (r < q => r + 2 <= q)
      <4>1. (r < q => r + K <= q) /\ r \in Nat /\ q \in Nat
        BY <1>2
      <4> QED
        BY <1>2, <4>1
    <3> QED
      BY <3>1
  <2>4. q \in P => q - 1 \in 1..n
    BY <1>1, <1>2
  <2>5. \A r \in P : Cur(q)[r] \in Tag
    BY <1>1, <2>1
  <2>6. Cur(q) \in [P -> Tag]
    BY <2>5
  <2> HIDE DEF Cur, ix
  <2>7. \A r, t \in P : Cur(q)[r] = Cur(q)[t] => ix(r) = ix(t)
    BY <1>1, <2>1
  <2>8. \A r, t \in P : r # t => r < t \/ t < r
    BY <1>2
  <2>9. \A r, t \in P : Cur(q)[r] = Cur(q)[t] => r = t
    BY <2>2, <2>7, <2>8
  <2>10. q \in P => \A r \in P : Cur(q)[r] # s[q - 1]
    BY <1>1, <2>1, <2>3, <2>4
  <2> QED
    BY <2>6, <2>9, <2>10
<1> DEFINE Done(j, q) ==
             /\ q <= p
             /\ j < m => q \in P /\ c[j + 1] = s[q]
             /\ j = m => \A r \in P : ~(r <= q)
             /\ h[j] \in Fields
             /\ Skipping(h[j], Cur(q), P)
           S == {j \in Nat : j <= m => \E q \in Int : Done(j, q)}
<1>9. 0 \in S
  <2>1. \A r \in P : Cur(top)[r] = s[r]
    <3>1. \A r \in P : r \in Nat /\ (r <= p => r <= top)
      BY <1>2 DEF P, n
    <3> QED
      BY <3>1
  <2>2. Skipping(h[0], Cur(top), P)
    <3> HIDE DEF Cur
    <3>1. \A q \in P : Cur(top)[q] = s[q]
      BY <2>1
    <3> QED
      BY <1>5, <1>7, <3>1 DEF Skipping
  <2>3. 0 < m => top \in P /\ c[1] = s[top]
    <3> SUFFICES ASSUME 0 < m
                 PROVE  top \in P /\ c[1] = s[top]
      OBVIOUS
    <3>1. c # <<>>
      BY <1>4 DEF m
    <3>2. At(s, top) \in Tag /\ c[1] = At(s, top)
      BY <1>3, <3>1
    <3>3. top # 0 /\ At(s, top) = s[top]
      BY <1>1, <3>2 DEF At
    <3> QED
      BY <3>2, <3>3 DEF P, n
  <2>4. 0 = m => \A r \in P : ~(r <= top)
    <3> SUFFICES ASSUME 0 = m
                 PROVE  \A r \in P : ~(r <= top)
      OBVIOUS
    <3>1. c = <<>>
      BY <1>3 DEF m
    <3>2. At(s, top) \notin Tag
      BY <1>3, <3>1
    <3>3. top = 0
      <4>1. top # 0 => top \in 1..n
        BY <1>2 DEF P, n
      <4> QED
        BY <1>1, <3>2, <4>1 DEF At, n
    <3> QED
      BY <1>2, <3>3
  <2>5. top \in Int /\ top <= p
    OBVIOUS
  <2> HIDE DEF Cur
  <2>6. Done(0, top)
    BY <1>7, <2>2, <2>3, <2>4, <2>5
  <2> QED
    BY <2>5, <2>6
<1>10. \A j \in 0..(m - 1) : j \in S => j + 1 \in S
  <2> SUFFICES ASSUME NEW j \in 0..(m - 1), j \in S
               PROVE  j + 1 \in S
    OBVIOUS
  <2>1. /\ j \in Nat /\ j < m /\ j <= m /\ j + 1 <= m /\ j + 1 \in 1..m
        /\ j # m
    BY <1>4
  <2>2. PICK q \in Int : Done(j, q)
    BY <2>1
  <2> DEFINE x == s[q]
             y == s[q - 1]
             r == q - K
  <2>3. /\ q \in P /\ c[j + 1] = x /\ q <= p /\ h[j] \in Fields
        /\ Skipping(h[j], Cur(q), P)
    BY <2>1, <2>2
  <2> HIDE DEF Done
  <2>4. /\ q \in 2..n /\ q \in 1..n /\ x \in Tag /\ y \in Tag /\ prev[x] = y
        /\ r \in Int /\ r <= p
    BY <1>1, <1>2, <1>6, <2>3
  <2>5. Cur(q)[q] = x
    BY <2>3, <2>4
  <2>6. /\ Cur(q) \in [P -> Tag]
        /\ \A t, u \in P : Cur(q)[t] = Cur(q)[u] => t = u
        /\ \A t \in P : Cur(q)[t] # y
    BY <1>8, <2>3
  <2>7. h[j + 1] = MoveSkipFields(h[j], x)
    BY <1>7, <2>3
  <2>8. /\ h[j + 1] \in Fields
        /\ Skipping(h[j + 1], [Cur(q) EXCEPT ![q] = y], P)
    <3>1. P \in SUBSET Nat /\ \A t \in P : t >= K
      BY <1>1, <1>2
    <3> DEFINE at == Cur(q)
    <3>2. /\ at \in [P -> Tag] /\ at[q] = x
          /\ \A t, u \in P : at[t] = at[u] => t = u
          /\ \A t \in P : at[t] # y
          /\ Skipping(h[j], at, P)
      BY <2>3, <2>5, <2>6
    <3>3. MayHandOn(h[j], at, P, q, y)
      BY <2>3, <2>4, <3>1, <3>2 DEF MayHandOn
    <3> HIDE DEF at, x, y, Cur
    <3>4. /\ MoveSkipFields(h[j], at[q]) \in Fields
          /\ Skipping(MoveSkipFields(h[j], at[q]), [at EXCEPT ![q] = y], P)
      BY <3>3, HandOn
    <3> QED
      BY <2>7, <3>2, <3>4 DEF at
  <2>9. [Cur(q) EXCEPT ![q] = y] = Cur(r)
    <3>1. ASSUME NEW t \in P
          PROVE  [Cur(q) EXCEPT ![q] = y][t] = Cur(r)[t]
      <4>1. t \in Nat /\ q \in Nat
        BY <1>2, <2>3
      <4>2. CASE t = q
        <5>1. r < t /\ t <= p
          BY <1>2, <2>3, <4>1, <4>2
        <5> QED
          BY <2>3, <4>2, <5>1
      <4>3. CASE t < q
        <5>1. t + K <= q
          BY <1>2, <2>3, <4>3
        <5>2. ~(r < t) /\ ~(q < t) /\ t # q
          BY <1>2, <4>1, <4>3, <5>1
        <5> QED
          BY <5>2
      <4>4. CASE q < t
        <5>1. r < t /\ t # q
          BY <1>2, <4>1, <4>4
        <5> QED
          BY <4>4, <5>1
      <4> QED
        BY <4>1, <4>2, <4>3, <4>4
    <3> QED
      BY <3>1
  <2>10. f.prev_skip[x] = IF r \in P THEN s[r] ELSE NULL
    BY <1>5, <2>3
  <2>11. j + 1 < m => r \in P /\ c[j + 2] = s[r]
    <3> SUFFICES ASSUME j + 1 < m
                 PROVE  r \in P /\ c[j + 2] = s[r]
      OBVIOUS
    <3> DEFINE k == j + 1
    <3>1. k \in 1..(m - 1) /\ k + 1 = j + 2 /\ k + 1 \in 1..m
      BY <1>4, <2>1
    <3>2. c[k] = x
      BY <2>3
    <3> HIDE DEF k, x
    <3>3. c[k + 1] = f.prev_skip[x] /\ c[k + 1] \in Tag
      BY <1>3, <3>1, <3>2 DEF m
    <3> HIDE DEF r
    <3> QED
      BY <1>1, <2>10, <3>1, <3>3
  <2>12. j + 1 = m => \A t \in P : ~(t <= r)
    <3> SUFFICES ASSUME j + 1 = m, NEW t \in P, t <= r
                 PROVE  FALSE
      OBVIOUS
    <3>1. c # <<>>
      BY <1>3, <2>1 DEF m
    <3>2. f.prev_skip[x] \notin Tag
      BY <1>3, <2>3, <3>1
    <3>3. r \notin P
      <4> SUFFICES ASSUME r \in P
                   PROVE  FALSE
        OBVIOUS
      <4>1. s[r] \in Tag
        BY <1>1, <1>2
      <4> QED
        BY <2>10, <3>2, <4>1
    <3>4. K <= t /\ t \in Nat
      BY <1>2
    <3>5. r >= K
      BY <1>2, <2>4, <3>4
    <3> QED
      BY <1>2, <2>3, <3>3, <3>5
  <2> HIDE DEF Cur, r, x, y
  <2>13. (j + 1) + 1 = j + 2 /\ j + 1 \in Nat
    BY <2>1
  <2>14. Done(j + 1, r)
    BY <2>4, <2>8, <2>9, <2>11, <2>12, <2>13 DEF Done
  <2> QED
    BY <2>4, <2>13, <2>14
<1>11. m \in S
  <2> HIDE DEF S
  <2>1. \A j \in 0..m : j \in S
    BY <1>4, <1>9, <1>10, UpTo
  <2> QED
    BY <1>4, <2>1
<1>12. PICK q \in Int : Done(m, q)
  BY <1>4, <1>11
<1>13. b \in Fields /\ Skipping(b, Cur(q), P) /\ \A r \in P : q < r
  <2>1. \A r \in P : ~(r <= q) /\ r \in Nat
    BY <1>2, <1>12
  <2> QED
    BY <1>4, <1>7, <1>12, <2>1
<1> HIDE DEF S, Done
<1>14. Cur(q) = [r \in P |-> IF r <= p THEN s[r - 1] ELSE s[r]]
  BY <1>13
<1> HIDE DEF Cur
<1> QED
  BY <1>13, <1>14 DEF P, n

----------------------------------------------------------------------------
(* The invariant.                                                          *)

\* The skip list as the variables have it.
SkipList == [prev_skip |-> prev_skip, next_skip |-> next_skip,
             depth |-> depth]

\* The place of the gate in a list of n nodes.
GatePlace(n) == IF n > Threshold THEN Threshold + 1 ELSE n

\* The later referenced, the nearer to the front.
Stamped(s, stamp, time) ==
  /\ \A i \in 1..Len(s) : stamp[s[i]] < time
  /\ \A i, j \in 1..Len(s) : i < j => stamp[s[j]] < stamp[s[i]]

\* All the variables are about one list, s.
Holds(s) ==
  /\ s \in Lists
  /\ {s[i] : i \in 1..Len(s)} = cache_map
  /\ head = At(s, 1)
  /\ unique_lines = Len(s)
  /\ InOrder(s, next, prev)
  /\ gate = At(s, GatePlace(Len(s)))
  /\ Stamped(s, time_stamp, cur_time)
  /\ Skipping(SkipList, s, Skips(Len(s)))

\* The inductive invariant.  It is needed whole: where add_to_front puts the
\* next skip node depends on where the others are, a distance on the depth the
\* skip node on the way has, the gate on the order of the links, and whether a
\* line is distant on the time stamps.
ListInv == TypeOK /\ \E s \in Lists : Holds(s)

\* It is List.
LEMMA HoldsList ==
  ASSUME TypeOK, NEW s, Holds(s)
  PROVE  List = s
<1> DEFINE hd == head
<1>1. next \in [Tag -> Node] /\ prev \in [Tag -> Node]
  BY DEF TypeOK
<1>2. s \in Lists /\ InOrder(s, next, prev) /\ hd = At(s, 1)
  BY DEF Holds
<1>3. Walk(At(s, 1), next, Tag) = s
  BY <1>1, <1>2, ListIs
<1> QED
  BY <1>2, <1>3 DEF List

----------------------------------------------------------------------------
(* add_to_front.                                                           *)

\* The list t is the list s with the line x in front.
GrownBy(t, s, x) ==
  /\ t \in Lists
  /\ Len(t) = Len(s) + 1
  /\ t[1] = x
  /\ \A i \in 1..Len(s) : t[i + 1] = s[i]
  /\ \A i \in 2..Len(t) : t[i] = s[i - 1] /\ i - 1 \in 1..Len(s)
  /\ \A i \in Nat : i >= 2 => At(t, i) = At(s, i - 1)
  /\ At(t, 1) = x /\ At(t, 0) = NULL /\ At(s, 0) = NULL

\* The line in front of the list makes such a list.
LEMMA Grown ==
  ASSUME NEW s \in Lists, NEW x \in Tag, \A i \in 1..Len(s) : s[i] # x
  PROVE  GrownBy(<<x>> \o s, s, x)
<1> DEFINE t == <<x>> \o s
           n == Len(s)
<1>1. s \in Seq(Tag) /\ n \in Nat
  BY DEF Lists
<1>2. /\ t \in Seq(Tag) /\ Len(t) = n + 1 /\ t[1] = x
      /\ \A i \in 1..n : t[i + 1] = s[i]
  BY <1>1, InFront
<1>3. \A i \in 2..(n + 1) : t[i] = s[i - 1] /\ i - 1 \in 1..n
  <2> SUFFICES ASSUME NEW i \in 2..(n + 1)
               PROVE  t[i] = s[i - 1] /\ i - 1 \in 1..n
    OBVIOUS
  <2> DEFINE j == i - 1
  <2>1. j \in 1..n /\ j + 1 = i
    BY <1>1
  <2> HIDE DEF j
  <2>2. t[i] = s[j]
    BY <1>2, <2>1
  <2> QED
    BY <2>1, <2>2 DEF j
<1>4. ASSUME NEW i \in 1..(n + 1), NEW j \in 1..(n + 1), t[i] = t[j]
      PROVE  i = j
  <2>1. CASE i = 1 /\ j = 1
    BY <2>1
  <2>2. CASE i = 1 /\ j # 1
    <3>1. j \in 2..(n + 1)
      BY <1>1, <2>2
    <3> QED
      BY <1>2, <1>3, <1>4, <2>2, <3>1
  <2>3. CASE i # 1 /\ j = 1
    <3>1. i \in 2..(n + 1)
      BY <1>1, <2>3
    <3> QED
      BY <1>2, <1>3, <1>4, <2>3, <3>1
  <2>4. CASE i # 1 /\ j # 1
    <3>1. i \in 2..(n + 1) /\ j \in 2..(n + 1)
      BY <1>1, <2>4
    <3>2. s[i - 1] = s[j - 1] /\ i - 1 \in 1..n /\ j - 1 \in 1..n
      BY <1>3, <1>4, <3>1
    <3>3. i - 1 = j - 1
      BY <3>2 DEF Lists
    <3> QED
      BY <3>1, <3>3
  <2> QED
    BY <2>1, <2>2, <2>3, <2>4
<1>5. t \in Lists
  BY <1>2, <1>4 DEF Lists
<1> HIDE DEF t
<1>6. \A i \in Nat : i >= 2 => At(t, i) = At(s, i - 1)
  <2> SUFFICES ASSUME NEW i \in Nat, i >= 2
               PROVE  At(t, i) = At(s, i - 1)
    OBVIOUS
  <2>1. i \in 1..(n + 1) <=> i - 1 \in 1..n
    BY <1>1
  <2>2. i \in 1..(n + 1) => i \in 2..(n + 1)
    BY <1>1
  <2> QED
    BY <1>2, <1>3, <2>1, <2>2 DEF At
<1>7. At(t, 1) = x /\ At(t, 0) = NULL /\ At(s, 0) = NULL
  BY <1>1, <1>2 DEF At
<1> QED
  BY <1>2, <1>3, <1>5, <1>6, <1>7 DEF GrownBy, t

\* The lists are linked as add_to_front links them.
LinkedInFront(s, x, nx, pv) ==
  LET nn == [nx EXCEPT ![x] = At(s, 1)]
      pp == Set(pv, At(s, 1), x)
  IN  /\ nn \in [Tag -> Node] /\ pp \in [Tag -> Node]
      /\ InOrder(<<x>> \o s, nn, pp)

\* add_to_front links the new node to the old head, and the old head to it:
\* the links have the longer list.
LEMMA GrownInOrder ==
  ASSUME NEW s \in Lists, NEW x \in Tag, \A i \in 1..Len(s) : s[i] # x,
         NEW nx \in [Tag -> Node], NEW pv \in [Tag -> Node],
         InOrder(s, nx, pv)
  PROVE  LinkedInFront(s, x, nx, pv)
<1> DEFINE n == Len(s)
           t == <<x>> \o s
           nn == [nx EXCEPT ![x] = At(s, 1)]
           pp == Set(pv, At(s, 1), x)
<1>1. /\ s \in Seq(Tag) /\ n \in Nat /\ NULL \notin Tag
      /\ \A i, j \in 1..n : s[i] = s[j] => i = j
      /\ \A i \in 1..n : s[i] \in Tag
  BY NullAssumption DEF Lists
<1>2. /\ t \in Lists /\ Len(t) = n + 1 /\ t[1] = x
      /\ \A i \in 1..n : t[i + 1] = s[i]
      /\ \A i \in Nat : i >= 2 => At(t, i) = At(s, i - 1)
      /\ At(t, 1) = x /\ At(t, 0) = NULL /\ At(s, 0) = NULL
      /\ \A i \in 2..Len(t) : t[i] = s[i - 1] /\ i - 1 \in 1..n
  BY Grown DEF GrownBy
<1>3. /\ \A i \in 1..n : nx[s[i]] = At(s, i + 1) /\ pv[s[i]] = At(s, i - 1)
      /\ \A y \in Tag : (\A i \in 1..n : s[i] # y)
                          => nx[y] = NULL /\ pv[y] = NULL
  BY DEF InOrder
<1>4. /\ At(s, 1) \in Node /\ x \in Node
      /\ At(s, 1) = IF n = 0 THEN NULL ELSE s[1]
  BY <1>1 DEF At, Node
<1>5. /\ nn \in [Tag -> Node]
      /\ \A y \in Tag : nn[y] = IF y = x THEN At(s, 1) ELSE nx[y]
  BY <1>4
<1>6. /\ pp \in [Tag -> Node]
      /\ \A y \in Tag : pp[y] = IF y = At(s, 1) THEN x ELSE pv[y]
  BY <1>1, <1>4 DEF Set
<1> HIDE DEF t, nn, pp
<1>7. ASSUME NEW i \in 1..(n + 1)
      PROVE  nn[t[i]] = At(t, i + 1) /\ pp[t[i]] = At(t, i - 1)
  <2>1. CASE i = 1
    <3>1. nn[x] = At(s, 1) /\ At(s, 1) # x
      BY <1>1, <1>4, <1>5
    <3>2. pp[x] = NULL
      BY <1>3, <1>6, <3>1
    <3>3. At(t, 1 + 1) = At(s, 1) /\ 1 - 1 = 0
      BY <1>2
    <3> QED
      BY <1>2, <2>1, <3>1, <3>2, <3>3
  <2>2. CASE i # 1
    <3> DEFINE j == i - 1
    <3>1. i \in 2..(n + 1) /\ j + 1 = i /\ j \in 1..n /\ j \in Nat \ {0}
      BY <1>1, <2>2
    <3>2. t[i] = s[j] /\ s[j] \in Tag /\ s[j] # x
      BY <1>1, <1>2, <3>1
    <3> HIDE DEF j
    <3>3. nn[t[i]] = At(t, i + 1)
      <4>1. nx[s[j]] = At(s, j + 1)
        BY <1>3, <3>1
      <4>2. At(t, i + 1) = At(s, i)
        <5>1. i + 1 \in Nat /\ i + 1 >= 2 /\ (i + 1) - 1 = i
          BY <1>1
        <5> QED
          BY <1>2, <5>1
      <4> QED
        BY <1>5, <3>1, <3>2, <4>1, <4>2
    <3>4. pp[t[i]] = At(t, j)
      <4>1. CASE j = 1
        <5>1. s[j] = At(s, 1)
          BY <1>4, <3>1, <4>1
        <5> QED
          BY <1>2, <1>6, <3>2, <4>1, <5>1
      <4>2. CASE j # 1
        <5>1. s[j] # At(s, 1)
          BY <1>1, <1>4, <3>1, <3>2, <4>2
        <5> DEFINE k == j - 1
        <5>2. k \in Nat \ {0} /\ k + 1 = j
          BY <3>1, <4>2
        <5>3. pv[s[j]] = At(s, k)
          BY <1>3, <3>1
        <5> HIDE DEF k
        <5>4. At(t, j) = At(s, k)
          BY <1>2, <5>2
        <5> QED
          BY <1>6, <3>2, <5>1, <5>3, <5>4
      <4> QED
        BY <4>1, <4>2
    <3> QED
      BY <3>3, <3>4 DEF j
  <2> QED
    BY <2>1, <2>2
<1>8. ASSUME NEW y \in Tag, \A i \in 1..(n + 1) : t[i] # y
      PROVE  nn[y] = NULL /\ pp[y] = NULL
  <2>1. y # x
    BY <1>1, <1>2, <1>8
  <2>2. \A i \in 1..n : s[i] # y
    <3> SUFFICES ASSUME NEW i \in 1..n
                 PROVE  s[i] # y
      OBVIOUS
    <3>1. i + 1 \in 1..(n + 1)
      BY <1>1
    <3> QED
      BY <1>2, <1>8, <3>1
  <2>3. y # At(s, 1)
    BY <1>1, <1>4, <2>2
  <2> QED
    BY <1>3, <1>5, <1>6, <2>1, <2>2, <2>3
<1> QED
  BY <1>2, <1>5, <1>6, <1>7, <1>8 DEF InOrder, LinkedInFront, t, nn, pp

\* The nodes before the first skip node, in the list with the new line: the
\* loop of add_to_front visits those, and a skip node is due exactly when the
\* new list is to have one at K.
FrontEnds(s, x, linked, e) ==
  LET front == Walk(x, linked, NoSkip)
      t     == <<x>> \o s
  IN  /\ e \in 1..(Len(s) + 1)
      /\ \A i \in 1..e : front[i] = t[i]
      /\ StopOf(front, x, linked) = At(s, e)
      /\ At(s, e) # NULL => e \in Skips(Len(s))
      /\ \A q \in Skips(Len(s)) : e <= q
      /\ Crowded(front) <=> K \in Skips(Len(s) + 1)
      /\ Crowded(front) => e = 2 * K - 1

\* The loop of add_to_front, from the new node to the first skip node, ends so.
LEMMA FrontOf ==
  ASSUME TypeOK, NEW s, Holds(s), NEW x \in Tag,
         \A i \in 1..Len(s) : s[i] # x
  PROVE  \E e : FrontEnds(s, x, [next EXCEPT ![x] = head], e)
<1> DEFINE n == Len(s)
           P == Skips(n)
           t == <<x>> \o s
           linked == [next EXCEPT ![x] = head]
           front == Walk(x, linked, NoSkip)
<1>0. s \in Lists
  BY DEF Holds
<1>1. /\ s \in Lists /\ s \in Seq(Tag) /\ n \in Nat /\ NULL \notin Tag
      /\ \A i, j \in 1..n : s[i] = s[j] => i = j
      /\ \A i \in 1..n : s[i] \in Tag
      /\ head = At(s, 1) /\ InOrder(s, next, prev)
      /\ Skipping(SkipList, s, P)
  BY NullAssumption DEF Lists, Holds
<1>2. /\ t \in Lists /\ Len(t) = n + 1 /\ t[1] = x
      /\ \A i \in 1..n : t[i + 1] = s[i]
      /\ \A i \in Nat : i >= 2 => At(t, i) = At(s, i - 1)
      /\ \A i \in 2..Len(t) : t[i] = s[i - 1] /\ i - 1 \in 1..n
  BY <1>0, Grown DEF GrownBy
<1>3. /\ K \in Nat /\ K >= 2 /\ P \in SUBSET (1..n)
      /\ \A q \in P : K <= q /\ q <= n + 1 - K
      /\ \A q, r \in P : q < r => q + K <= r
  BY <1>1, SkipsApart
<1>4. /\ \A q \in P : depth[s[q]] = q - 1
      /\ \A y \in Tag : (\A q \in P : s[q] # y) => depth[y] = -1
  BY <1>1 DEF Skipping, SkipList
<1>5. linked \in [Tag -> Node] /\ InOrder(t, linked, Set(prev, At(s, 1), x))
  <2>1. LinkedInFront(s, x, next, prev)
    BY <1>1, GrownInOrder DEF TypeOK
  <2> QED
    BY <1>1, <2>1 DEF LinkedInFront
<1>6. front = Walk(x, linked, NoSkip)
  OBVIOUS
<1> HIDE DEF n, P, K, t, linked, front
<1>7. \A i \in 1..(n + 1) : t[i] \in NoSkip <=> i - 1 \notin P
  <2> SUFFICES ASSUME NEW i \in 1..(n + 1)
               PROVE  t[i] \in NoSkip <=> i - 1 \notin P
    OBVIOUS
  <2>1. CASE i = 1
    <3>1. i - 1 \notin P
      BY <1>3, <2>1
    <3>2. \A q \in P : s[q] # x
      BY <1>3 DEF n
    <3> QED
      BY <1>2, <1>4, <2>1, <3>1, <3>2 DEF NoSkip
  <2>2. CASE i # 1
    <3> DEFINE j == i - 1
    <3>1. i \in 2..(n + 1) /\ j \in 1..n /\ t[i] = s[j] /\ s[j] \in Tag
      BY <1>1, <1>2, <2>2
    <3>2. j \in P => depth[s[j]] = j - 1 /\ j - 1 # -1
      BY <1>4, <3>1
    <3>3. j \notin P => \A q \in P : s[q] # s[j]
      BY <1>1, <1>3, <3>1
    <3> HIDE DEF j
    <3>4. t[i] \in NoSkip <=> j \notin P
      BY <1>4, <3>1, <3>2, <3>3 DEF NoSkip
    <3> QED
      BY <3>4 DEF j
  <2> QED
    BY <2>1, <2>2
<1>8. PICK e \in 1..(n + 1) :
        /\ e \in P \/ e = n + 1
        /\ \A q \in P : e <= q
  <2>1. CASE P = {}
    BY <1>1, <2>1
  <2>2. CASE P # {}
    <3>1. P \in SUBSET Nat
      BY <1>3
    <3>2. PICK q \in P : \A r \in P : q <= r
      BY <2>2, <3>1, Smallest
    <3>3. q \in 1..(n + 1)
      BY <1>1, <1>3
    <3> QED
      BY <3>2, <3>3
  <2> QED
    BY <2>1, <2>2
<1> DEFINE c == [i \in 1..e |-> t[i]]
           stop == At(s, e)
<1>9. /\ c \in Seq(NoSkip) /\ Len(c) = e
      /\ \A i \in 1..e : c[i] = t[i]
  <2>1. \A i \in 1..e : t[i] \in NoSkip
    <3> SUFFICES ASSUME NEW i \in 1..e
                 PROVE  t[i] \in NoSkip
      OBVIOUS
    <3>1. i \in 1..(n + 1) /\ i - 1 \notin P
      BY <1>1, <1>8
    <3> QED
      BY <1>7, <3>1
  <2>2. e \in Nat
    BY <1>1, <1>8
  <2>3. c \in [1..e -> NoSkip]
    BY <2>1
  <2>4. \A i \in 1..e : c[i] = t[i]
    OBVIOUS
  <2> HIDE DEF c
  <2>5. c \in Seq(NoSkip)
    BY <2>2, <2>3
  <2>6. Len(c) = e
    BY <2>2, <2>3, <2>5
  <2> QED
    BY <2>4, <2>5, <2>6
<1>10. stop \in Node /\ stop \notin NoSkip /\ (stop # NULL => e \in P)
      /\ stop = At(t, e + 1)
  <2>0. stop = At(t, e + 1)
    <3>1. e + 1 \in Nat /\ e + 1 >= 2 /\ (e + 1) - 1 = e
      BY <1>1, <1>8
    <3> QED
      BY <1>2, <3>1
  <2>1. CASE e \in P
    <3>1. e \in 1..n
      BY <1>3, <2>1
    <3>2. stop = s[e] /\ s[e] \in Tag
      BY <1>1, <3>1 DEF At, n
    <3>3. depth[s[e]] # -1
      BY <1>3, <1>4, <2>1, <3>1
    <3> QED
      BY <2>0, <2>1, <3>2, <3>3 DEF NoSkip, Node
  <2>2. CASE e = n + 1
    <3>1. stop = NULL
      BY <1>1, <2>2 DEF At, n
    <3> QED
      BY <1>1, <2>0, <3>1 DEF NoSkip, Node
  <2> QED
    BY <1>8, <2>1, <2>2
<1>11. \A i \in 1..e : linked[c[i]] = IF i = e THEN stop ELSE c[i + 1]
  <2> SUFFICES ASSUME NEW i \in 1..e
               PROVE  linked[c[i]] = IF i = e THEN stop ELSE c[i + 1]
    OBVIOUS
  <2>1. i \in 1..(n + 1) /\ i \in Nat
    BY <1>1, <1>8
  <2>2. linked[t[i]] = At(t, i + 1)
    BY <1>2, <1>5, <2>1 DEF InOrder
  <2>3. i # e => i + 1 \in 1..e /\ i + 1 \in 1..(n + 1)
    BY <1>1, <1>8
  <2>4. i # e => At(t, i + 1) = t[i + 1]
    BY <1>2, <2>3 DEF At
  <2> QED
    BY <1>9, <1>10, <2>2, <2>3, <2>4
<1>12. Unfolds(linked, NoSkip)
  <2>1. NoSkip \in SUBSET Tag
    BY DEF NoSkip
  <2>2. ASSUME NEW y \in NoSkip, linked[y] \in NoSkip
        PROVE  \E i, j \in 1..Len(t) : i < j /\ y = t[i] /\ linked[y] = t[j]
    <3>1. y \in Tag /\ linked[y] \in Tag
      BY <2>1, <2>2
    <3>2. PICK i \in 1..Len(t) : t[i] = y
      BY <1>1, <1>5, <3>1 DEF InOrder
    <3>3. linked[y] = At(t, i + 1)
      BY <1>5, <3>2 DEF InOrder
    <3>4. i + 1 \in 1..Len(t) /\ linked[y] = t[i + 1]
      BY <1>1, <3>1, <3>3 DEF At
    <3> QED
      BY <3>2, <3>4
  <2> QED
    BY <1>2, <1>5, <2>1, <2>2, WalksBack
<1>13. Walk(x, linked, NoSkip) = c /\ StopOf(c, x, linked) = stop
  <2>1. x \in Node
    BY DEF Node
  <2>2. NoSkip \in SUBSET Tag
    BY DEF NoSkip
  <2>3. e \in Nat /\ 1 \in 1..e /\ e # 0
    BY <1>1, <1>8
  <2> HIDE DEF c, stop
  <2>4. c # <<>> /\ c[1] = x
    BY <1>2, <1>9, <2>3
  <2>5. x = IF c = <<>> THEN stop ELSE c[1]
    BY <2>4
  <2>6. \A i \in 1..Len(c) :
          linked[c[i]] = IF i = Len(c) THEN stop ELSE c[i + 1]
    BY <1>9, <1>11
  <2>7. Chain(c, x, linked, NoSkip, stop)
    BY <1>9, <1>10, <2>5, <2>6 DEF Chain
  <2> QED
    BY <1>5, <1>12, <2>2, <2>7, WalkIs
<1> HIDE DEF c, stop
<1>14. Crowded(front) <=> e >= 2 * K - 1
  BY <1>9, <1>13, <1>6 DEF Crowded, K
<1>15. /\ n < 2 * K - 1 => P = {}
       /\ n >= 2 * K - 1 => \E q \in P : q <= 2 * K - 1
  BY <1>1, FirstSkip DEF P
<1>16. e <= 2 * K - 1
  BY <1>1, <1>3, <1>8, <1>15
<1>17. K \in Skips(n + 1) <=> IF P = {} THEN n = 2 * K - 2
                                        ELSE 2 * K - 1 \in P
  BY <1>1, SkipsGrow DEF P
<1>18. e >= 2 * K - 1 <=> K \in Skips(n + 1)
  <2>1. CASE P = {}
    <3>1. e = n + 1
      BY <1>8, <2>1
    <3>2. n \in Nat /\ K \in Nat
      BY <1>1, <1>3
    <3>3. e >= 2 * K - 1 <=> n = 2 * K - 2
      BY <1>16, <3>1, <3>2
    <3> QED
      BY <1>17, <2>1, <3>3
  <2>2. CASE P # {}
    <3>1. e \in P
      <4>1. PICK q \in P : TRUE
        BY <2>2
      <4>2. e <= q /\ q <= n /\ q \in Nat /\ e \in Nat
        BY <1>1, <1>3, <1>8
      <4> QED
        <5>1. e # n + 1
          BY <1>1, <1>3, <1>8, <4>2
        <5> QED
          BY <1>8, <5>1
    <3>2. e \in Nat /\ K \in Nat
      BY <1>1, <1>3, <1>8
    <3>3. e >= 2 * K - 1 <=> e = 2 * K - 1
      BY <1>16, <3>2
    <3>4. 2 * K - 1 \in P => e = 2 * K - 1
      <4> SUFFICES ASSUME 2 * K - 1 \in P
                   PROVE  e = 2 * K - 1
        OBVIOUS
      <4> DEFINE q == 2 * K - 1
      <4>1. q \in P /\ K <= e /\ e <= q
        BY <1>3, <1>8, <3>1
      <4>2. e < q => e + K <= q
        BY <1>3, <3>1, <4>1
      <4>3. q = 2 * K - 1 /\ q \in Int
        BY <3>2
      <4> HIDE DEF q
      <4>4. e = q
        BY <3>2, <4>1, <4>2, <4>3
      <4> QED
        BY <4>3, <4>4
    <3> QED
      BY <1>17, <2>2, <3>1, <3>3, <3>4
  <2> QED
    BY <2>1, <2>2
<1> QED
  <2>1. /\ \A i \in 1..e : front[i] = t[i]
        /\ StopOf(front, x, linked) = At(s, e)
        /\ At(s, e) # NULL => e \in P
    BY <1>9, <1>10, <1>13, <1>6 DEF stop
  <2>2. Crowded(front) <=> K \in Skips(n + 1)
    BY <1>14, <1>18
  <2>3. Crowded(front) => e = 2 * K - 1
    <3>1. K \in Nat /\ e \in Nat
      BY <1>1, <1>3, <1>8
    <3> QED
      BY <1>14, <1>16, <3>1
  <2>4. FrontEnds(s, x, linked, e)
    BY <1>8, <2>1, <2>2, <2>3 DEF FrontEnds, front, t, n, P
  <2> QED
    BY <2>4 DEF linked

\* The walk from the first skip node on has all the skip nodes.
LEMMA SkipsBehind ==
  ASSUME TypeOK, NEW s, Holds(s), NEW e \in 1..(Len(s) + 1),
         At(s, e) # NULL => e \in Skips(Len(s)),
         \A q \in Skips(Len(s)) : e <= q,
         NEW c, c = Walk(At(s, e), next_skip, Tag)
  PROVE  \A x : x \in ToSet(c) <=> \E q \in Skips(Len(s)) : s[q] = x
<1> DEFINE n == Len(s)
           P == Skips(n)
           start == At(s, e)
           m == Len(c)
<1>1. /\ s \in Lists /\ s \in Seq(Tag) /\ n \in Nat /\ NULL \notin Tag
      /\ \A i \in 1..n : s[i] \in Tag
      /\ Skipping(SkipList, s, P)
  BY NullAssumption DEF Lists, Holds
<1>2. /\ K \in Nat /\ K >= 2 /\ P \in SUBSET (1..n)
      /\ \A q \in P : K <= q
      /\ \A q, r \in P : q < r => q + K <= r
      /\ \A q \in P : q - K >= K => q - K \in P
  BY <1>1, SkipsApart
<1>3. \A q \in P : next_skip[s[q]] = IF q + K \in P THEN s[q + K] ELSE NULL
  BY <1>1 DEF Skipping, SkipList
<1>4. Unfolds(next_skip, Tag)
  <2>1. SkipList \in Fields
    BY DEF SkipList, Fields, TypeOK
  <2>2. Unfolds(SkipList.next_skip, Tag)
    BY <1>1, <2>1, SkipWalks
  <2>3. SkipList.next_skip = next_skip
    BY DEF SkipList
  <2> QED
    BY <2>2, <2>3
<1>5. /\ c \in Seq(Tag)
      /\ c = <<>> <=> start \notin Tag
      /\ c # <<>> => c[1] = start /\ next_skip[c[m]] \notin Tag
      /\ \A i \in 1..(m - 1) : c[i + 1] = next_skip[c[i]]
  <2> DEFINE link == next_skip
  <2>1. /\ link \in [Tag -> Node] /\ start \in Node /\ Unfolds(link, Tag)
        /\ c = Walk(start, link, Tag)
    BY <1>1, <1>4 DEF TypeOK, At, Node
  <2> HIDE DEF link, start
  <2> QED
    BY <2>1, Walked DEF link
<1>6. m \in Nat /\ \A i \in 1..m : c[i] \in Tag
  BY <1>5
<1>7. start \in Tag => e \in P /\ start = s[e]
  BY <1>1 DEF At
<1>8. \A q \in P : start \in Tag /\ e <= q
  <2> SUFFICES ASSUME NEW q \in P
               PROVE  start \in Tag /\ e <= q
    OBVIOUS
  <2>1. e <= q /\ q \in 1..n
    BY <1>2
  <2>2. e \in 1..n
    BY <1>1, <2>1
  <2> QED
    BY <1>1, <2>1, <2>2 DEF At
<1> HIDE DEF n, P, K, m, start
<1> DEFINE S == {i \in Nat : i + 1 <= m => \E q \in P : s[q] = c[i + 1]}
<1>9. 0 \in S
  <2>1. 1 <= m => c # <<>>
    BY <1>5, <1>6 DEF m
  <2>2. 1 <= m => e \in P /\ s[e] = c[1]
    BY <1>5, <1>7, <2>1
  <2> QED
    BY <2>2
<1>10. \A i \in 0..(m - 1) : i \in S => i + 1 \in S
  <2> SUFFICES ASSUME NEW i \in 0..(m - 1), i \in S, (i + 1) + 1 <= m
               PROVE  \E q \in P : s[q] = c[(i + 1) + 1]
    BY <1>6
  <2> DEFINE k == i + 1
  <2>1. k \in 1..(m - 1) /\ k + 1 \in 1..m /\ k <= m
    BY <1>6
  <2>2. PICK q \in P : s[q] = c[k]
    BY <2>1
  <2> HIDE DEF k
  <2>3. c[k + 1] = next_skip[s[q]] /\ c[k + 1] \in Tag
    BY <1>5, <1>6, <2>1, <2>2
  <2>4. q + K \in P /\ c[k + 1] = s[q + K]
    BY <1>1, <1>3, <2>3
  <2> QED
    BY <2>4 DEF k
<1>11. \A i \in 1..m : \E q \in P : s[q] = c[i]
  <2> HIDE DEF S
  <2>1. \A i \in 0..m : i \in S
    BY <1>6, <1>9, <1>10, UpTo
  <2> SUFFICES ASSUME NEW i \in 1..m
               PROVE  \E q \in P : s[q] = c[i]
    OBVIOUS
  <2> DEFINE k == i - 1
  <2>2. k \in 0..m /\ k + 1 = i /\ i <= m
    BY <1>6
  <2> HIDE DEF k
  <2>3. k \in S
    BY <2>1, <2>2
  <2> QED
    BY <2>2, <2>3 DEF S
<1> DEFINE T == {d \in Nat :
                  \A q \in P : q <= d => \E i \in 1..m : c[i] = s[q]}
<1>12. 0 \in T
  BY <1>2 DEF n
<1>13. \A d \in 0..(n - 1) : d \in T => d + 1 \in T
  <2> SUFFICES ASSUME NEW d \in 0..(n - 1), d \in T, NEW q \in P, q <= d + 1
               PROVE  \E i \in 1..m : c[i] = s[q]
    BY <1>1
  <2>0. q \in Nat /\ d \in Nat /\ e \in Nat
    BY <1>1, <1>2
  <2>1. CASE q <= d
    BY <2>1
  <2>2. CASE q = e
    <3>1. c # <<>> /\ start = s[q]
      BY <1>5, <1>7, <1>8, <2>2
    <3>2. 1 \in 1..m
      BY <1>5, <1>6, <3>1 DEF m
    <3> QED
      BY <1>5, <3>1, <3>2
  <2>3. CASE q # e /\ ~(q <= d)
    <3>1. e \in P /\ e < q
      BY <1>7, <1>8, <2>0, <2>3
    <3> DEFINE r == q - K
    <3>2. r + K = q /\ r >= K /\ r \in Int /\ r <= d
      <4>1. e + K <= q /\ e >= K
        BY <1>2, <3>1
      <4> QED
        BY <1>2, <2>0, <4>1
    <3>3. r \in P
      BY <1>2, <3>2
    <3> HIDE DEF r
    <3>4. PICK i \in 1..m : c[i] = s[r]
      BY <3>2, <3>3
    <3>5. next_skip[c[i]] = s[q] /\ s[q] \in Tag
      BY <1>1, <1>2, <1>3, <3>2, <3>3, <3>4
    <3>6. i # m
      <4>1. m # 0
        BY <1>6
      <4>2. c # <<>>
        BY <4>1 DEF m
      <4> QED
        BY <1>5, <3>5, <4>2
    <3>7. i \in 1..(m - 1) /\ i + 1 \in 1..m
      BY <1>6, <3>6
    <3> QED
      BY <1>5, <3>5, <3>7
  <2> QED
    BY <2>1, <2>2, <2>3
<1>14. \A q \in P : \E i \in 1..m : c[i] = s[q]
  <2>1. n \in T
    <3> HIDE DEF T
    <3>1. \A d \in 0..n : d \in T
      BY <1>1, <1>12, <1>13, UpTo
    <3> QED
      BY <1>1, <3>1
  <2>2. \A q \in P : q <= n
    BY <1>2
  <2> QED
    BY <2>1, <2>2
<1>15. ToSet(c) = {c[i] : i \in 1..m}
  BY <1>5 DEF ToSet, m
<1> QED
  BY <1>11, <1>14, <1>15 DEF P, n

\* The skip nodes of a list with one more line in front: the old ones are one
\* deeper, and there may be a new one, t[K], before the first of them, at e.
Pushes(f, g, s, t, e) ==
  LET n    == Len(s)
      P    == Skips(n)
      Q    == Skips(n + 1)
      node == At(s, e)
  IN  /\ e \in 1..(n + 1)
      /\ node # NULL => e \in P
      /\ \A q \in P : e <= q
      /\ K \in Q => e = 2 * K - 1
      /\ \A y \in Tag :
           /\ g.depth[y] = IF K \in Q /\ y = t[K] THEN K - 1
                           ELSE f.depth[y] + IF \E q \in P : s[q] = y
                                             THEN 1 ELSE 0
           /\ g.next_skip[y] = IF K \in Q /\ y = t[K] THEN node
                               ELSE f.next_skip[y]
           /\ g.prev_skip[y] = IF K \in Q /\ y = node THEN t[K]
                               ELSE f.prev_skip[y]

\* Then the skip list, its depths included, is the one of the longer list.
LEMMA GrownSkipping ==
  ASSUME NEW s \in Lists, NEW x \in Tag, NEW t, GrownBy(t, s, x),
         NEW f \in Fields, Skipping(f, s, Skips(Len(s))), NEW g, NEW e,
         Pushes(f, g, s, t, e)
  PROVE  Skipping(g, t, Skips(Len(t)))
<1> DEFINE n == Len(s)
           P == Skips(n)
           Q == Skips(n + 1)
           node == At(s, e)
<1>0. e \in 1..(n + 1)
  BY DEF Pushes
<1>1. /\ s \in Seq(Tag) /\ n \in Nat /\ NULL \notin Tag /\ n + 1 \in Nat
      /\ \A i, j \in 1..n : s[i] = s[j] => i = j
      /\ \A i \in 1..n : s[i] \in Tag
  BY NullAssumption DEF Lists
<1>2. /\ Len(t) = n + 1
      /\ \A i \in 2..(n + 1) : t[i] = s[i - 1] /\ i - 1 \in 1..n
  BY DEF GrownBy
<1>3. /\ K \in Nat /\ K >= 2 /\ P \in SUBSET (1..n)
      /\ \A q \in P : K <= q
  BY <1>1, SkipsApart
<1>4. Q \in SUBSET (1..(n + 1)) /\ \A q \in Q : K <= q
  BY <1>1, SkipsApart
<1>5. /\ \A q \in P : q + 1 \in Q
      /\ \A q \in Q : q = K \/ q - 1 \in P
  BY <1>1, SkipsGrow
<1>6. /\ \A q \in P :
           /\ f.depth[s[q]] = q - 1
           /\ f.next_skip[s[q]] = IF q + K \in P THEN s[q + K] ELSE NULL
           /\ f.prev_skip[s[q]] = IF q - K \in P THEN s[q - K] ELSE NULL
      /\ \A y \in Tag : (\A q \in P : s[q] # y) =>
           f.depth[y] = -1 /\ f.next_skip[y] = NULL /\ f.prev_skip[y] = NULL
  BY DEF Skipping
<1>7. /\ node # NULL => e \in P
      /\ \A q \in P : e <= q
      /\ K \in Q => e = 2 * K - 1
      /\ node = IF e \in 1..n THEN s[e] ELSE NULL
  BY DEF At, Pushes
<1>8. \A y \in Tag :
        /\ g.depth[y] = IF K \in Q /\ y = t[K] THEN K - 1
                        ELSE f.depth[y] + IF \E q \in P : s[q] = y
                                          THEN 1 ELSE 0
        /\ g.next_skip[y] = IF K \in Q /\ y = t[K] THEN node
                            ELSE f.next_skip[y]
        /\ g.prev_skip[y] = IF K \in Q /\ y = node THEN t[K]
                            ELSE f.prev_skip[y]
  BY DEF Pushes
<1> HIDE DEF n, P, Q, K, node
<1>9. \A r \in Q : t[r] = s[r - 1] /\ r - 1 \in 1..n /\ r \in 2..(n + 1)
  <2> SUFFICES ASSUME NEW r \in Q
               PROVE  t[r] = s[r - 1] /\ r - 1 \in 1..n /\ r \in 2..(n + 1)
    OBVIOUS
  <2>1. r \in 2..(n + 1)
    BY <1>1, <1>3, <1>4
  <2> QED
    BY <1>2, <2>1
<1>10. K \in Q => \A q \in P : s[q] # t[K]
  <2> SUFFICES ASSUME K \in Q, NEW q \in P, s[q] = t[K]
               PROVE  FALSE
    OBVIOUS
  <2>1. q = K - 1
    BY <1>1, <1>3, <1>9
  <2> QED
    BY <1>3, <2>1
<1>11. ASSUME NEW r \in Q
       PROVE  /\ g.depth[t[r]] = r - 1
              /\ g.next_skip[t[r]] = IF r + K \in Q THEN t[r + K] ELSE NULL
              /\ g.prev_skip[t[r]] = IF r - K \in Q THEN t[r - K] ELSE NULL
  <2> DEFINE q == r - 1
             y == s[q]
  <2>1. t[r] = y /\ q \in 1..n /\ r \in Nat /\ q + 1 = r /\ y \in Tag
    BY <1>1, <1>9
  <2>2. CASE r = K
    <3>1. \A u \in P : s[u] # y
      BY <1>10, <2>1, <2>2
    <3>2. f.prev_skip[y] = NULL /\ node # y
      BY <1>1, <1>6, <1>7, <2>1, <3>1
    <3>3. K - K = 0 /\ 0 \notin Q
      BY <1>3, <1>4
    <3>4. g.prev_skip[y] = NULL
      BY <1>8, <2>1, <3>2
    <3>5. e = K + K - 1 /\ e \in 1..(n + 1)
      <4>1. e = 2 * K - 1
        BY <1>7, <2>2
      <4> QED
        BY <1>0, <1>3, <4>1
    <3>6. node = IF K + K \in Q THEN t[K + K] ELSE NULL
      <4>1. CASE e \in P
        <5>1. e + 1 = K + K /\ e \in 1..n
          BY <1>3, <3>5, <4>1
        <5>2. K + K \in Q
          BY <1>5, <4>1, <5>1
        <5>3. t[K + K] = s[e]
          <6>1. t[K + K] = s[(K + K) - 1] /\ (K + K) - 1 = e
            BY <1>3, <1>9, <3>5, <5>2
          <6> QED
            BY <6>1
        <5> QED
          BY <1>7, <5>1, <5>2, <5>3
      <4>2. CASE e \notin P
        <5>1. node = NULL
          BY <1>7, <4>2
        <5>2. K + K \notin Q
          <6> SUFFICES ASSUME K + K \in Q
                       PROVE  FALSE
            OBVIOUS
          <6>1. (K + K) - 1 \in P \/ K + K = K
            BY <1>5
          <6> QED
            BY <1>3, <3>5, <4>2, <6>1
        <5> QED
          BY <5>1, <5>2
      <4> QED
        BY <4>1, <4>2
    <3>7. g.depth[y] = K - 1 /\ g.next_skip[y] = node
      BY <1>8, <2>1, <2>2
    <3> QED
      BY <2>1, <2>2, <3>3, <3>4, <3>6, <3>7
  <2>3. CASE r # K
    <3>1. q \in P
      BY <1>5, <2>3
    <3>2. K \in Q => y # t[K]
      BY <1>10, <3>1
    <3>3. g.depth[y] = r - 1
      <4>1. g.depth[y] = f.depth[y] + 1
        BY <1>8, <2>1, <3>1, <3>2
      <4>2. f.depth[y] = q - 1
        BY <1>6, <3>1
      <4> QED
        BY <2>1, <4>1, <4>2
    <3>4. g.next_skip[y] = IF r + K \in Q THEN t[r + K] ELSE NULL
      <4> DEFINE v == r + K
                 u == q + K
      <4>1. v = u + 1 /\ u = v - 1 /\ v # K
        BY <1>3, <2>1
      <4>2. g.next_skip[y] = IF u \in P THEN s[u] ELSE NULL
        BY <1>6, <1>8, <2>1, <3>1, <3>2
      <4> HIDE DEF v, u
      <4>3. u \in P <=> v \in Q
        BY <1>5, <4>1
      <4>4. v \in Q => t[v] = s[u]
        BY <1>9, <4>1
      <4>5. g.next_skip[y] = IF v \in Q THEN t[v] ELSE NULL
        BY <4>2, <4>3, <4>4
      <4> QED
        BY <4>5 DEF v
    <3>5. g.prev_skip[y] = IF r - K \in Q THEN t[r - K] ELSE NULL
      <4> DEFINE v == r - K
                 u == q - K
      <4>1. v = u + 1 /\ u = v - 1 /\ v \in Int
        BY <1>3, <2>1
      <4>2. f.prev_skip[y] = IF u \in P THEN s[u] ELSE NULL
        BY <1>6, <3>1
      <4>3. v \in Q => t[v] = s[u]
        <5> HIDE DEF v, u
        <5> QED
          BY <1>9, <4>1
      <4>4. CASE K \in Q /\ y = node
        <5>1. q = e
          BY <1>1, <1>7, <2>1, <4>4
        <5>2. v = K
          <6>1. e = 2 * K - 1 /\ r = e + 1
            BY <1>7, <2>1, <4>4, <5>1
          <6> QED
            BY <1>3, <6>1
        <5>3. g.prev_skip[y] = t[K]
          BY <1>8, <2>1, <4>4
        <5> HIDE DEF v
        <5>4. g.prev_skip[y] = IF v \in Q THEN t[v] ELSE NULL
          BY <4>4, <5>2, <5>3
        <5> QED
          BY <5>4 DEF v
      <4>5. CASE ~(K \in Q /\ y = node)
        <5>1. g.prev_skip[y] = f.prev_skip[y]
          BY <1>8, <2>1, <4>5
        <5>2. v \in Q => v # K
          <6>0. SUFFICES ASSUME v \in Q, v = K
                       PROVE  FALSE
            OBVIOUS
          <6>1. K \in Q /\ e = 2 * K - 1
            BY <1>7, <6>0
          <6>2. q = e
            BY <1>3, <2>1, <6>0, <6>1
          <6>3. node = y
            BY <1>7, <2>1, <6>2
          <6> QED
            BY <4>5, <6>1, <6>3
        <5> HIDE DEF v, u
        <5>3. u \in P <=> v \in Q
          BY <1>5, <4>1, <5>2
        <5>4. g.prev_skip[y] = IF v \in Q THEN t[v] ELSE NULL
          BY <4>2, <4>3, <5>1, <5>3
        <5> QED
          BY <5>4 DEF v
      <4> QED
        BY <4>4, <4>5
    <3> QED
      BY <2>1, <3>3, <3>4, <3>5
  <2> QED
    BY <2>2, <2>3
<1>12. ASSUME NEW y \in Tag, \A r \in Q : t[r] # y
       PROVE  /\ g.depth[y] = -1
              /\ g.next_skip[y] = NULL /\ g.prev_skip[y] = NULL
  <2>1. \A q \in P : s[q] # y
    <3> SUFFICES ASSUME NEW q \in P
                 PROVE  s[q] # y
      OBVIOUS
    <3> DEFINE r == q + 1
    <3>1. r \in Q /\ r - 1 = q
      BY <1>3, <1>5
    <3> HIDE DEF r
    <3>2. t[r] = s[q]
      BY <1>9, <3>1
    <3> QED
      BY <1>12, <3>1, <3>2
  <2>2. y # node /\ (K \in Q => y # t[K])
    BY <1>1, <1>7, <1>12, <2>1
  <2>3. f.depth[y] = -1 /\ f.next_skip[y] = NULL /\ f.prev_skip[y] = NULL
    BY <1>6, <2>1
  <2>4. g.depth[y] = f.depth[y] + 0
    BY <1>8, <2>1, <2>2
  <2> QED
    BY <1>8, <2>2, <2>3, <2>4
<1>13. Len(t) = n + 1
  BY <1>2
<1> QED
  BY <1>11, <1>12, <1>13 DEF Skipping, Q

\* A new line: the list is the one before with the line in front of it.
LEMMA NewHolds ==
  ASSUME TypeOK, NEW s, Holds(s), NEW x \in Tag, LookupNew(x),
         NEW t, t = <<x>> \o s
  PROVE  /\ TypeOK' /\ Holds(t)'
         /\ \A i \in 1..Len(s) : s[i] # x
         /\ result' = -1
<1> DEFINE n == Len(s)
           P == Skips(n)
           Q == Skips(n + 1)
           linked == [next EXCEPT ![x] = head]
           back == Set(prev, head, x)
           first == IF gate = NULL THEN x ELSE gate
           front == Walk(x, linked, NoSkip)
           node == StopOf(front, x, linked)
           skip == front[K]
<1>1. /\ s \in Lists /\ s \in Seq(Tag) /\ n \in Nat /\ NULL \notin Tag
      /\ \A i, j \in 1..n : s[i] = s[j] => i = j
      /\ \A i \in 1..n : s[i] \in Tag
      /\ {s[i] : i \in 1..n} = cache_map
      /\ head = At(s, 1)
      /\ unique_lines = n
      /\ InOrder(s, next, prev)
      /\ gate = At(s, GatePlace(n))
      /\ Stamped(s, time_stamp, cur_time)
      /\ Skipping(SkipList, s, P)
  BY NullAssumption DEF Lists, Holds
<1>2. /\ x \notin cache_map /\ cur_time < MaxTime
      /\ cache_map' = cache_map \cup {x} /\ result' = -1
      /\ next' = linked
      /\ prev' = back
      /\ head' = x
      /\ gate' = IF unique_lines > Threshold THEN back[first] ELSE first
      /\ unique_lines' = unique_lines + 1
      /\ time_stamp' = [time_stamp EXCEPT ![x] = cur_time]
      /\ cur_time' = cur_time + 1
  BY DEF LookupNew, AddToFront
<1>3. IF Crowded(front)
      THEN /\ depth' = [Pushed(node) EXCEPT ![skip] = K - 1]
           /\ prev_skip' = Set(prev_skip, node, skip)
           /\ next_skip' = [next_skip EXCEPT ![skip] = node]
      ELSE depth' = Pushed(node) /\ UNCHANGED <<prev_skip, next_skip>>
  BY DEF LookupNew, AddToFront, K
<1>4. \A i \in 1..n : s[i] # x
  BY <1>1, <1>2
<1>5. GrownBy(t, s, x)
  BY <1>1, <1>4, Grown
<1>6. /\ t \in Lists /\ Len(t) = n + 1 /\ t[1] = x
      /\ \A i \in 1..n : t[i + 1] = s[i]
      /\ \A i \in 2..(n + 1) : t[i] = s[i - 1] /\ i - 1 \in 1..n
      /\ \A i \in Nat : i >= 2 => At(t, i) = At(s, i - 1)
      /\ At(t, 1) = x /\ At(t, 0) = NULL /\ At(s, 0) = NULL
  BY <1>5 DEF GrownBy
<1>7. \A i \in 1..(n + 1) : t[i] \in Tag
  BY <1>6 DEF Lists
<1>8. /\ cur_time \in Nat /\ MaxTime \in Nat
      /\ time_stamp \in [Tag -> 0..MaxTime]
      /\ next \in [Tag -> Node] /\ prev \in [Tag -> Node]
      /\ prev_skip \in [Tag -> Node] /\ next_skip \in [Tag -> Node]
      /\ depth \in [Tag -> Nat \cup {-1}]
      /\ cache_map \in SUBSET Tag
  BY TimeAssumption DEF TypeOK
<1>9. K \in Nat /\ K >= 2 /\ P \in SUBSET (1..n)
  BY <1>1, SkipsApart
<1>10. /\ linked \in [Tag -> Node] /\ back \in [Tag -> Node]
       /\ InOrder(t, linked, back)
  <2> DEFINE hd == At(s, 1)
             nn == [next EXCEPT ![x] = hd]
             pp == Set(prev, hd, x)
  <2>1. nn = [next EXCEPT ![x] = At(s, 1)] /\ pp = Set(prev, At(s, 1), x)
    OBVIOUS
  <2>2. linked = nn /\ back = pp
    BY <1>1
  <2>3. LinkedInFront(s, x, next, prev)
    BY <1>1, <1>4, <1>8, GrownInOrder
  <2> QED
    BY <2>2, <2>3 DEF LinkedInFront
<1> HIDE DEF linked, back
<1>11. InOrder(t, next, prev)'
  BY <1>2, <1>10 DEF InOrder
<1>12. Stamped(t, time_stamp, cur_time)'
  <2>1. /\ \A i \in 1..n : time_stamp[s[i]] < cur_time
        /\ \A i, j \in 1..n : i < j => time_stamp[s[j]] < time_stamp[s[i]]
    BY <1>1 DEF Stamped
  <2>2. time_stamp'[x] = cur_time
    BY <1>2, <1>8
  <2>3. \A i \in 1..n : time_stamp'[s[i]] = time_stamp[s[i]]
    BY <1>1, <1>2, <1>4, <1>8
  <2>4. \A i \in 1..n : time_stamp[s[i]] \in Nat
    BY <1>1, <1>8
  <2>5. ASSUME NEW i \in 1..(n + 1)
        PROVE  time_stamp'[t[i]] < cur_time'
    <3>1. CASE i = 1
      BY <1>2, <1>6, <1>8, <2>2, <3>1
    <3>2. CASE i # 1
      <4>1. i \in 2..(n + 1)
        BY <1>1, <3>2
      <4> QED
        BY <1>2, <1>6, <1>8, <2>1, <2>3, <2>4, <4>1
    <3> QED
      BY <3>1, <3>2
  <2>6. ASSUME NEW i \in 1..(n + 1), NEW j \in 1..(n + 1), i < j
        PROVE  time_stamp'[t[j]] < time_stamp'[t[i]]
    <3>1. j \in 2..(n + 1)
      BY <1>1, <2>6
    <3>2. time_stamp'[t[j]] = time_stamp[s[j - 1]] /\ j - 1 \in 1..n
      BY <1>6, <2>3, <3>1
    <3>3. CASE i = 1
      BY <1>6, <2>1, <2>2, <3>2, <3>3
    <3>4. CASE i # 1
      <4>1. i \in 2..(n + 1) /\ i - 1 < j - 1
        BY <1>1, <2>6, <3>4
      <4>2. time_stamp'[t[i]] = time_stamp[s[i - 1]] /\ i - 1 \in 1..n
        BY <1>6, <2>3, <4>1
      <4> QED
        BY <2>1, <3>2, <4>1, <4>2
    <3> QED
      BY <3>3, <3>4
  <2> QED
    BY <1>6, <2>5, <2>6 DEF Stamped
<1>13. {t[i] : i \in 1..Len(t)} = cache_map'
  <2>1. \A i \in 1..(n + 1) : t[i] \in cache_map'
    <3> SUFFICES ASSUME NEW i \in 1..(n + 1)
                 PROVE  t[i] \in cache_map'
      OBVIOUS
    <3>1. CASE i = 1
      BY <1>2, <1>6, <3>1
    <3>2. CASE i # 1
      <4>1. i \in 2..(n + 1)
        BY <1>1, <3>2
      <4> QED
        BY <1>1, <1>2, <1>6, <4>1
    <3> QED
      BY <3>1, <3>2
  <2>2. \A y \in cache_map' : \E i \in 1..(n + 1) : t[i] = y
    <3> SUFFICES ASSUME NEW y \in cache_map'
                 PROVE  \E i \in 1..(n + 1) : t[i] = y
      OBVIOUS
    <3>1. CASE y = x
      <4>1. 1 \in 1..(n + 1)
        BY <1>1
      <4> QED
        BY <1>6, <3>1, <4>1
    <3>2. CASE y \in cache_map
      <4>1. PICK i \in 1..n : s[i] = y
        BY <1>1, <3>2
      <4>2. i + 1 \in 1..(n + 1) /\ t[i + 1] = y
        BY <1>1, <1>6, <4>1
      <4> QED
        BY <4>2
    <3> QED
      BY <1>2, <3>1, <3>2
  <2> QED
    BY <1>6, <2>1, <2>2
<1>14. gate' = At(t, GatePlace(n + 1)) /\ gate' \in Node
  <2>1. Threshold \in Nat \ {0}
    BY ThresholdAssumption
  <2>2. At(t, GatePlace(n + 1)) \in Node
    BY <1>1, <1>6, <1>7 DEF At, Node
  <2>3. CASE n > Threshold
    <3> DEFINE g == Threshold + 1
    <3>1. /\ g \in 1..n /\ g + 1 \in 1..(n + 1) /\ (g + 1) - 1 = g
          /\ GatePlace(n) = g /\ GatePlace(n + 1) = g
      BY <1>1, <2>1, <2>3 DEF GatePlace
    <3> HIDE DEF g
    <3>2. gate = s[g] /\ s[g] \in Tag
      BY <1>1, <3>1 DEF At
    <3>3. gate' = back[s[g]] /\ s[g] = t[g + 1]
      BY <1>1, <1>2, <1>6, <2>3, <3>1, <3>2
    <3>4. back[t[g + 1]] = At(t, (g + 1) - 1)
      BY <1>6, <1>10, <3>1 DEF InOrder
    <3> QED
      BY <2>2, <3>1, <3>3, <3>4
  <2>4. CASE n <= Threshold
    <3>1. GatePlace(n) = n /\ GatePlace(n + 1) = n + 1 /\ ~(n > Threshold)
      BY <1>1, <2>1, <2>4 DEF GatePlace
    <3>2. gate' = IF gate = NULL THEN x ELSE gate
      BY <1>1, <1>2, <3>1
    <3>3. CASE n = 0
      <4>1. gate = NULL
        BY <1>1, <3>1, <3>3 DEF At
      <4> QED
        BY <1>6, <2>2, <3>1, <3>2, <3>3, <4>1
    <3>4. CASE n # 0
      <4>1. n \in 1..n /\ n + 1 \in Nat /\ n + 1 >= 2 /\ (n + 1) - 1 = n
        BY <1>1, <3>4
      <4>2. gate = s[n] /\ gate # NULL
        BY <1>1, <3>1, <4>1 DEF At
      <4>3. At(t, n + 1) = At(s, n) /\ At(s, n) = s[n]
        BY <1>6, <4>1 DEF At
      <4> QED
        BY <2>2, <3>1, <3>2, <4>2, <4>3
    <3> QED
      BY <3>3, <3>4
  <2> QED
    BY <1>1, <2>1, <2>3, <2>4
<1>15. PICK e : FrontEnds(s, x, linked, e)
  BY <1>4, FrontOf DEF linked
<1>16. /\ e \in 1..(n + 1)
       /\ \A i \in 1..e : front[i] = t[i]
       /\ node = At(s, e)
       /\ At(s, e) # NULL => e \in P
       /\ \A q \in P : e <= q
       /\ Crowded(front) <=> K \in Q
       /\ K \in Q => e = 2 * K - 1
  BY <1>15 DEF FrontEnds
<1> HIDE DEF front, node
<1>17. K \in Q => skip = t[K] /\ skip \in Tag
  <2> SUFFICES ASSUME K \in Q
               PROVE  skip = t[K] /\ skip \in Tag
    OBVIOUS
  <2>1. K \in 1..e
    BY <1>9, <1>16
  <2>2. K \in 1..(n + 1)
    BY <1>1, <1>9, <1>16, <2>1
  <2> QED
    BY <1>7, <1>16, <2>1, <2>2
<1>18. node \in Node
  BY <1>1, <1>16 DEF At, Node
<1>19. \A y : y \in ToSet(Walk(node, next_skip, Tag))
                <=> \E q \in P : s[q] = y
  <2> DEFINE c == Walk(At(s, e), next_skip, Tag)
  <2>1. c = Walk(At(s, e), next_skip, Tag)
    OBVIOUS
  <2> HIDE DEF c
  <2>2. \A y : y \in ToSet(c) <=> \E q \in Skips(Len(s)) : s[q] = y
    BY <1>16, <2>1, SkipsBehind
  <2> QED
    BY <1>16, <2>1, <2>2
<1> DEFINE D == [y \in Tag |-> depth[y] + IF \E q \in P : s[q] = y THEN 1
                                          ELSE 0]
<1>20. Pushed(node) = D
  BY <1>19 DEF Pushed
<1>21. D \in [Tag -> Nat \cup {-1}]
  <2> HIDE DEF P
  <2> SUFFICES ASSUME NEW y \in Tag
               PROVE  depth[y] + (IF \E q \in P : s[q] = y THEN 1 ELSE 0)
                        \in Nat \cup {-1}
    OBVIOUS
  <2>1. depth[y] \in Nat \/ depth[y] = -1
    BY <1>8
  <2>2. CASE \E q \in P : s[q] = y
    BY <2>1, <2>2
  <2>3. CASE ~\E q \in P : s[q] = y
    BY <2>1, <2>3
  <2> QED
    BY <2>2, <2>3
<1> HIDE DEF skip, D
<1>22. /\ prev_skip' \in [Tag -> Node] /\ next_skip' \in [Tag -> Node]
       /\ depth' \in [Tag -> Nat \cup {-1}]
       /\ \A y \in Tag :
            /\ depth'[y] = IF K \in Q /\ y = t[K] THEN K - 1 ELSE D[y]
            /\ next_skip'[y] = IF K \in Q /\ y = t[K] THEN node
                               ELSE next_skip[y]
            /\ prev_skip'[y] = IF K \in Q /\ y = node THEN t[K]
                               ELSE prev_skip[y]
  <2>1. CASE K \in Q
    <3>1. /\ depth' = [D EXCEPT ![skip] = K - 1]
          /\ prev_skip' = Set(prev_skip, node, skip)
          /\ next_skip' = [next_skip EXCEPT ![skip] = node]
          /\ skip = t[K] /\ skip \in Tag /\ skip \in Node
          /\ K - 1 \in Nat
      BY <1>3, <1>9, <1>16, <1>17, <1>20, <2>1 DEF Node
    <3>2. prev_skip' \in [Tag -> Node]
      BY <1>8, <3>1 DEF Set
    <3>3. \A y \in Tag : prev_skip'[y] = IF y = node THEN t[K]
                                         ELSE prev_skip[y]
      BY <1>1, <1>8, <1>18, <3>1 DEF Set, Node
    <3>4. /\ next_skip' \in [Tag -> Node]
          /\ \A y \in Tag : next_skip'[y] = IF y = t[K] THEN node
                                            ELSE next_skip[y]
      BY <1>8, <1>18, <3>1
    <3>5. /\ depth' \in [Tag -> Nat \cup {-1}]
          /\ \A y \in Tag : depth'[y] = IF y = t[K] THEN K - 1 ELSE D[y]
      BY <1>21, <3>1
    <3> QED
      BY <2>1, <3>2, <3>3, <3>4, <3>5
  <2>2. CASE K \notin Q
    <3>1. depth' = D /\ prev_skip' = prev_skip /\ next_skip' = next_skip
      BY <1>3, <1>16, <1>20, <2>2
    <3> QED
      BY <1>8, <1>21, <2>2, <3>1
  <2> QED
    BY <2>1, <2>2
<1>23. Skipping(SkipList', t, Skips(Len(t)))
  <2> DEFINE f == SkipList
             g == SkipList'
  <2>1. f \in Fields /\ Skipping(f, s, P)
    BY <1>1, <1>8 DEF SkipList, Fields
  <2>2. /\ f.depth = depth /\ f.next_skip = next_skip
        /\ f.prev_skip = prev_skip
        /\ g.depth = depth' /\ g.next_skip = next_skip'
        /\ g.prev_skip = prev_skip'
    BY DEF SkipList
  <2> HIDE DEF f, g, P, Q, n
  <2>3. \A y \in Tag :
          /\ g.depth[y] = IF K \in Q /\ y = t[K] THEN K - 1
                          ELSE f.depth[y] + IF \E q \in P : s[q] = y THEN 1
                                            ELSE 0
          /\ g.next_skip[y] = IF K \in Q /\ y = t[K] THEN node
                              ELSE f.next_skip[y]
          /\ g.prev_skip[y] = IF K \in Q /\ y = node THEN t[K]
                              ELSE f.prev_skip[y]
    BY <1>22, <2>2 DEF D
  <2>4. Pushes(f, g, s, t, e)
    BY <1>16, <2>3 DEF Pushes, P, Q, n
  <2>5. Skipping(g, t, Skips(Len(t)))
    BY <1>1, <1>5, <2>1, <2>4, GrownSkipping DEF P, n
  <2> QED
    BY <2>5 DEF g
<1>24. TypeOK'
  <2>1. /\ cache_map' \subseteq Tag /\ head' \in Node /\ gate' \in Node
        /\ result' \in Nat \cup {-1}
    BY <1>2, <1>8, <1>14 DEF Node
  <2>2. cur_time' \in 0..MaxTime /\ time_stamp' \in [Tag -> 0..MaxTime]
    BY <1>2, <1>8
  <2>3. unique_lines' \in Nat
    BY <1>1, <1>2
  <2>4. prev' \in [Tag -> Node] /\ next' \in [Tag -> Node]
    BY <1>2, <1>10
  <2> QED
    BY <1>22, <2>1, <2>2, <2>3, <2>4 DEF TypeOK, Node
<1>25. Holds(t)'
  <2>1. /\ t \in Lists /\ head' = At(t, 1) /\ unique_lines' = Len(t)
        /\ gate' = At(t, GatePlace(Len(t)))
    BY <1>1, <1>2, <1>6, <1>14
  <2> QED
    BY <1>11, <1>12, <1>13, <1>23, <2>1 DEF Holds
<1> QED
  BY <1>2, <1>4, <1>24, <1>25

----------------------------------------------------------------------------
(* move_to_front.                                                          *)

\* The list t is the list s with the line at place p moved to the front.
MovedBy(t, s, p) ==
  /\ t \in Lists
  /\ Len(t) = Len(s)
  /\ t[1] = s[p]
  /\ \A i \in 2..Len(s) : t[i] = IF i <= p THEN s[i - 1] ELSE s[i]
  /\ \A y : (\E i \in 1..Len(s) : s[i] = y) <=> \E i \in 1..Len(t) : t[i] = y

\* What move_to_front makes of the list when the line is at place p.
ToFront(s, p) == [i \in 1..Len(s) |-> IF i = 1 THEN s[p]
                                      ELSE IF i <= p THEN s[i - 1] ELSE s[i]]

\* It is such a list.
LEMMA Moved ==
  ASSUME NEW s \in Lists, NEW p \in 2..Len(s)
  PROVE  MovedBy(ToFront(s, p), s, p)
<1> DEFINE n == Len(s)
           t == ToFront(s, p)
           ix(i) == IF i = 1 THEN p ELSE IF i <= p THEN i - 1 ELSE i
<1>1. /\ s \in Seq(Tag) /\ n \in Nat /\ p \in 1..n
      /\ \A i, j \in 1..n : s[i] = s[j] => i = j
      /\ \A i \in 1..n : s[i] \in Tag
  BY DEF Lists
<1>2. \A i \in 1..n : ix(i) \in 1..n
  BY <1>1
<1>3. \A i, j \in 1..n : ix(i) = ix(j) => i = j
  BY <1>1
<1>4. \A k \in 1..n : \E i \in 1..n : ix(i) = k
  <2> SUFFICES ASSUME NEW k \in 1..n
               PROVE  \E i \in 1..n : ix(i) = k
    OBVIOUS
  <2>1. CASE k = p
    <3>1. 1 \in 1..n /\ ix(1) = k
      BY <1>1, <2>1
    <3> QED
      BY <3>1
  <2>2. CASE k < p
    <3>1. k + 1 \in 1..n /\ ix(k + 1) = k
      BY <1>1, <2>2
    <3> QED
      BY <3>1
  <2>3. CASE k > p
    <3>1. ix(k) = k
      BY <1>1, <2>3
    <3> QED
      BY <3>1
  <2>4. k = p \/ k < p \/ k > p
    BY <1>1
  <2> QED
    BY <2>1, <2>2, <2>3, <2>4
<1>5. \A i \in 1..n : t[i] = s[ix(i)]
  BY <1>1 DEF ToFront
<1>6. t = [i \in 1..n |-> t[i]]
  BY DEF ToFront
<1>7. /\ t[1] = s[p]
      /\ \A i \in 2..n : t[i] = IF i <= p THEN s[i - 1] ELSE s[i]
  BY <1>1 DEF ToFront
<1> HIDE DEF ix, t, n
<1>8. \A i \in 1..n : t[i] \in Tag
  BY <1>1, <1>2, <1>5
<1>9. t \in Seq(Tag) /\ Len(t) = n
  BY <1>1, <1>6, <1>8
<1>10. t \in Lists
  <2>1. \A i, j \in 1..n : t[i] = t[j] => ix(i) = ix(j)
    BY <1>1, <1>2, <1>5
  <2> QED
    BY <1>3, <1>9, <2>1 DEF Lists
<1>11. ASSUME NEW y
       PROVE  (\E i \in 1..n : s[i] = y) <=> \E i \in 1..n : t[i] = y
  <2>1. ASSUME NEW i \in 1..n, s[i] = y
        PROVE  \E j \in 1..n : t[j] = y
    <3>1. PICK j \in 1..n : ix(j) = i
      BY <1>4
    <3> QED
      BY <1>5, <2>1, <3>1
  <2>2. ASSUME NEW i \in 1..n, t[i] = y
        PROVE  \E j \in 1..n : s[j] = y
    BY <1>2, <1>5, <2>2
  <2> QED
    BY <2>1, <2>2
<1> QED
  BY <1>7, <1>9, <1>10, <1>11 DEF MovedBy, n, t

\* The lists are linked as move_to_front links them.
LinkedToFront(s, p, t, nx, pv) ==
  LET ref == s[p]
      nn  == [nx EXCEPT ![pv[ref]] = nx[ref], ![ref] = s[1]]
      pp  == [Set(pv, nx[ref], pv[ref]) EXCEPT ![ref] = NULL, ![s[1]] = ref]
  IN  /\ nn \in [Tag -> Node] /\ pp \in [Tag -> Node]
      /\ InOrder(t, nn, pp)

\* move_to_front takes the node out from between its neighbours and puts it
\* before the head: the links have the moved list.
LEMMA MovedInOrder ==
  ASSUME NEW s \in Lists, NEW p \in 2..Len(s), NEW t, MovedBy(t, s, p),
         NEW nx \in [Tag -> Node], NEW pv \in [Tag -> Node],
         InOrder(s, nx, pv)
  PROVE  LinkedToFront(s, p, t, nx, pv)
<1> DEFINE n == Len(s)
           ref == s[p]
           nn == [nx EXCEPT ![pv[ref]] = nx[ref], ![ref] = s[1]]
           pp == [Set(pv, nx[ref], pv[ref]) EXCEPT ![ref] = NULL,
                                                   ![s[1]] = ref]
<1>1. /\ s \in Seq(Tag) /\ n \in Nat /\ NULL \notin Tag
      /\ p \in 1..n /\ p - 1 \in 1..n /\ 1 \in 1..n /\ p \in Nat
      /\ \A i, j \in 1..n : s[i] = s[j] => i = j
      /\ \A i \in 1..n : s[i] \in Tag
  BY NullAssumption DEF Lists
<1>2. /\ t \in Lists /\ Len(t) = n /\ t[1] = ref
      /\ \A i \in 2..n : t[i] = IF i <= p THEN s[i - 1] ELSE s[i]
      /\ \A y : (\E i \in 1..n : s[i] = y) <=> \E i \in 1..n : t[i] = y
  BY DEF MovedBy
<1>3. /\ \A i \in 1..n : nx[s[i]] = At(s, i + 1) /\ pv[s[i]] = At(s, i - 1)
      /\ \A y \in Tag : (\A i \in 1..n : s[i] # y)
                          => nx[y] = NULL /\ pv[y] = NULL
  BY DEF InOrder
<1>4. pv[ref] = s[p - 1] /\ nx[ref] = At(s, p + 1) /\ ref # s[1]
  BY <1>1, <1>3 DEF At
<1>5. /\ ref \in Tag /\ s[1] \in Tag /\ s[p - 1] \in Tag /\ ref # s[p - 1]
      /\ At(s, p + 1) \in Node
  BY <1>1 DEF At, Node
<1>6. /\ nn \in [Tag -> Node]
      /\ \A y \in Tag : nn[y] = IF y = ref THEN s[1]
                                ELSE IF y = s[p - 1] THEN At(s, p + 1)
                                ELSE nx[y]
  BY <1>4, <1>5 DEF Node
<1>7. /\ pp \in [Tag -> Node]
      /\ \A y \in Tag : pp[y] = IF y = s[1] THEN ref
                                ELSE IF y = ref THEN NULL
                                ELSE IF y = At(s, p + 1) THEN s[p - 1]
                                ELSE pv[y]
  BY <1>1, <1>4, <1>5 DEF Set, Node
<1> HIDE DEF nn, pp
<1>8. ASSUME NEW i \in 1..n
      PROVE  nn[t[i]] = At(t, i + 1) /\ pp[t[i]] = At(t, i - 1)
  <2>1. CASE i = 1
    <3>1. At(t, 2) = s[1]
      <4>1. 2 \in 1..n /\ 2 \in 2..n
        BY <1>1
      <4> QED
        BY <1>2, <4>1 DEF At
    <3>2. At(t, 0) = NULL
      BY <1>2 DEF At
    <3> QED
      BY <1>2, <1>4, <1>5, <1>6, <1>7, <2>1, <3>1, <3>2
  <2>2. CASE i # 1 /\ i <= p
    <3> DEFINE k == i - 1
               y == s[k]
    <3>1. /\ i \in 2..n /\ k \in 1..n /\ k < p /\ i = k + 1 /\ i \in 1..p
          /\ k \in Nat
      BY <1>1, <2>2
    <3>2. t[i] = y /\ y \in Tag /\ y # ref
      BY <1>1, <1>2, <2>2, <3>1
    <3> HIDE DEF k
    <3>3. nn[y] = At(t, i + 1)
      <4>1. CASE k = p - 1
        <5>1. i = p /\ nn[y] = At(s, p + 1)
          BY <1>1, <1>6, <3>1, <3>2, <4>1
        <5>2. At(t, p + 1) = At(s, p + 1)
          <6>1. p + 1 \in 1..n => t[p + 1] = s[p + 1]
            BY <1>1, <1>2
          <6> QED
            BY <1>2, <6>1 DEF At
        <5> QED
          BY <5>1, <5>2
      <4>2. CASE k # p - 1
        <5>1. /\ y # s[p - 1] /\ i + 1 \in 2..n /\ i + 1 <= p
              /\ (i + 1) - 1 = i /\ i \in 1..n
          BY <1>1, <3>1, <4>2
        <5>2. nn[y] = nx[y] /\ nx[y] = At(s, i)
          BY <1>3, <1>6, <3>1, <3>2, <5>1
        <5>3. At(t, i + 1) = s[i]
          BY <1>2, <5>1 DEF At
        <5> QED
          BY <5>1, <5>2, <5>3 DEF At
      <4> QED
        BY <4>1, <4>2
    <3>4. pp[y] = At(t, k)
      <4>1. CASE k = 1
        BY <1>1, <1>2, <1>7, <3>1, <3>2, <4>1 DEF At
      <4>2. CASE k # 1
        <5>1. k - 1 \in 1..n /\ k \in 2..n /\ k <= p
          BY <1>1, <3>1, <4>2
        <5>2. y # s[1] /\ y # At(s, p + 1)
          BY <1>1, <3>1, <3>2, <4>2 DEF At
        <5>3. pp[y] = pv[y] /\ pv[y] = At(s, k - 1)
          BY <1>3, <1>7, <3>1, <3>2, <5>2
        <5>4. At(t, k) = s[k - 1]
          BY <1>2, <3>1, <5>1 DEF At
        <5> QED
          BY <5>1, <5>3, <5>4 DEF At
      <4> QED
        BY <4>1, <4>2
    <3> QED
      BY <3>2, <3>3, <3>4 DEF k
  <2>3. CASE i > p
    <3> DEFINE y == s[i]
    <3>1. i \in 2..n /\ ~(i <= p) /\ i \in Nat
      BY <1>1, <2>3
    <3>2. t[i] = y /\ y \in Tag /\ y # ref /\ y # s[1] /\ y # s[p - 1]
      BY <1>1, <1>2, <2>3, <3>1
    <3>3. nn[y] = At(t, i + 1)
      <4>1. nn[y] = At(s, i + 1)
        BY <1>3, <1>6, <3>2
      <4>2. i + 1 \in 1..n => t[i + 1] = s[i + 1]
        BY <1>1, <1>2, <3>1
      <4> QED
        BY <1>2, <4>1, <4>2 DEF At
    <3>4. pp[y] = At(t, i - 1)
      <4>1. CASE i = p + 1
        <5>1. y = At(s, p + 1)
          BY <4>1 DEF At
        <5>2. i - 1 = p /\ p \in 2..n /\ p \in 1..n /\ p <= p
          BY <1>1, <4>1
        <5>3. At(t, p) = s[p - 1]
          BY <1>2, <5>2 DEF At
        <5> QED
          BY <1>7, <3>2, <5>1, <5>2, <5>3
      <4>2. CASE i # p + 1
        <5>1. y # At(s, p + 1)
          BY <1>1, <3>2, <4>2 DEF At
        <5>2. pp[y] = At(s, i - 1)
          BY <1>3, <1>7, <3>2, <5>1
        <5>3. i - 1 \in 1..n /\ t[i - 1] = s[i - 1]
          BY <1>1, <1>2, <2>3, <4>2
        <5> QED
          BY <1>2, <5>2, <5>3 DEF At
      <4> QED
        BY <4>1, <4>2
    <3> QED
      BY <3>2, <3>3, <3>4
  <2>4. (i # 1 /\ i <= p) \/ i = 1 \/ i > p
    BY <1>1
  <2> QED
    BY <2>1, <2>2, <2>3, <2>4
<1>9. ASSUME NEW y \in Tag, \A i \in 1..n : t[i] # y
      PROVE  nn[y] = NULL /\ pp[y] = NULL
  <2>1. \A i \in 1..n : s[i] # y
    BY <1>2, <1>9
  <2>2. y # ref /\ y # s[1] /\ y # s[p - 1] /\ y # At(s, p + 1)
    BY <1>1, <2>1 DEF At
  <2> QED
    BY <1>3, <1>6, <1>7, <2>1, <2>2
<1>10. InOrder(t, nn, pp)
  BY <1>2, <1>8, <1>9 DEF InOrder
<1> QED
  BY <1>6, <1>7, <1>10 DEF LinkedToFront, nn, pp

\* The way from the line at p to the next skip node towards the front, which
\* is at place top if there is one.
WayEnds(s, p, top) ==
  LET way == Walk(s[p], prev, NoSkip)
  IN  /\ top \in 0..p
      /\ top # 0 => top \in Skips(Len(s))
      /\ \A r \in Skips(Len(s)) : r <= p => r <= top
      /\ Len(way) = p - top
      /\ StopOf(way, s[p], prev) = At(s, top)

\* The first loop of move_to_front ends so, for the last place of a skip node
\* that is not behind the line.
LEMMA WayOf ==
  ASSUME TypeOK, NEW s, Holds(s), NEW p \in 1..Len(s)
  PROVE  \E top : WayEnds(s, p, top)
<1> DEFINE n == Len(s)
           P == Skips(n)
<1>1. /\ s \in Lists /\ s \in Seq(Tag) /\ n \in Nat /\ NULL \notin Tag
      /\ p \in Nat
      /\ \A i, j \in 1..n : s[i] = s[j] => i = j
      /\ \A i \in 1..n : s[i] \in Tag
      /\ InOrder(s, next, prev)
      /\ Skipping(SkipList, s, P)
  BY NullAssumption DEF Lists, Holds
<1>2. /\ K \in Nat /\ K >= 2 /\ P \in SUBSET (1..n)
      /\ \A q \in P : K <= q
  BY <1>1, SkipsApart
<1>3. /\ \A q \in P : depth[s[q]] = q - 1
      /\ \A y \in Tag : (\A q \in P : s[q] # y) => depth[y] = -1
  BY <1>1 DEF Skipping, SkipList
<1>4. prev \in [Tag -> Node] /\ NoSkip \in SUBSET Tag
  BY DEF TypeOK, NoSkip
<1>5. /\ \A i \in 1..n : prev[s[i]] = At(s, i - 1)
      /\ \A y \in Tag : (\A i \in 1..n : s[i] # y) => prev[y] = NULL
  BY <1>1 DEF InOrder
<1> HIDE DEF P, K
<1>6. \A i \in 1..n : s[i] \in NoSkip <=> i \notin P
  <2> SUFFICES ASSUME NEW i \in 1..n
               PROVE  s[i] \in NoSkip <=> i \notin P
    OBVIOUS
  <2>1. CASE i \in P
    <3>1. depth[s[i]] = i - 1 /\ i - 1 # -1
      BY <1>2, <1>3, <2>1
    <3> QED
      BY <2>1, <3>1 DEF NoSkip
  <2>2. CASE i \notin P
    <3>1. \A q \in P : s[q] # s[i]
      BY <1>1, <1>2, <2>2
    <3>2. depth[s[i]] = -1
      BY <1>1, <1>3, <3>1
    <3> QED
      BY <1>1, <2>2, <3>2 DEF NoSkip
  <2> QED
    BY <2>1, <2>2
<1>7. PICK top \in 0..p :
        /\ top # 0 => top \in P
        /\ \A r \in P : r <= p => r <= top
  <2> DEFINE B == {r \in 0..p : r = 0 \/ r \in P}
  <2>1. B \in SUBSET (0..p) /\ 0 \in B
    BY <1>1
  <2>2. \A r \in P : r <= p => r \in B
    BY <1>1, <1>2
  <2>3. \A r \in B : r \in 0..p /\ (r # 0 => r \in P)
    OBVIOUS
  <2> HIDE DEF B
  <2>4. PICK b \in B : \A r \in B : b >= r
    BY <1>1, <2>1, Largest
  <2>5. \A r \in P : r <= p => r <= b
    BY <1>2, <2>2, <2>3, <2>4
  <2> QED
    BY <2>3, <2>4, <2>5
<1>8. top \in Nat /\ top <= p /\ p <= n
  BY <1>1, <1>7
<1> DEFINE l == p - top
           c == [i \in 1..l |-> s[p + 1 - i]]
           stop == At(s, top)
<1>9. l \in Nat /\ \A i \in 1..l : /\ p + 1 - i \in 1..n
                                   /\ p + 1 - i \notin P
                                   /\ p + 1 - i \in 1..p
  <2>1. \A i \in 1..l : p + 1 - i \in 1..n /\ top < p + 1 - i
                          /\ p + 1 - i <= p /\ p + 1 - i \in 1..p
    BY <1>1, <1>8
  <2> QED
    BY <1>7, <1>8, <2>1
<1> HIDE DEF l
<1>10. \A i \in 1..l : c[i] = s[p + 1 - i] /\ c[i] \in NoSkip
  BY <1>6, <1>9
<1>11. c \in [1..l -> NoSkip]
  BY <1>6, <1>9
<1> HIDE DEF c
<1>12. c \in Seq(NoSkip)
  BY <1>9, <1>11
<1>13. Len(c) = l
  BY <1>9, <1>11, <1>12
<1>14. stop \in Node /\ stop \notin NoSkip
  <2>1. CASE top = 0
    BY <1>1, <2>1 DEF At, NoSkip, Node
  <2>2. CASE top # 0
    <3>1. top \in 1..n /\ top \in P
      BY <1>2, <1>7, <2>2
    <3> QED
      BY <1>1, <1>6, <3>1 DEF At, Node
  <2> QED
    BY <2>1, <2>2
<1>15. s[p] = IF c = <<>> THEN stop ELSE c[1]
  <2>1. CASE l = 0
    <3>1. c = <<>>
      BY <1>12, <1>13, <2>1
    <3>2. top = p
      BY <1>8, <2>1 DEF l
    <3> QED
      BY <3>1, <3>2 DEF At
  <2>2. CASE l # 0
    <3>1. c # <<>> /\ 1 \in 1..l
      BY <1>9, <1>13, <2>2
    <3>2. c[1] = s[p]
      <4>1. p + 1 - 1 = p
        BY <1>1
      <4> QED
        BY <1>10, <3>1, <4>1
    <3> QED
      BY <3>1, <3>2
  <2> QED
    BY <2>1, <2>2
<1>16. \A i \in 1..l : prev[c[i]] = IF i = l THEN stop ELSE c[i + 1]
  <2> SUFFICES ASSUME NEW i \in 1..l
               PROVE  prev[c[i]] = IF i = l THEN stop ELSE c[i + 1]
    OBVIOUS
  <2> DEFINE k == p + 1 - i
  <2>1. k \in 1..n /\ c[i] = s[k]
    BY <1>9, <1>10
  <2>2. prev[s[k]] = At(s, k - 1)
    BY <1>5, <2>1
  <2>3. CASE i = l
    <3>1. k - 1 = top
      BY <1>1, <1>8, <2>3 DEF l
    <3> QED
      BY <2>1, <2>2, <2>3, <3>1
  <2>4. CASE i # l
    <3> DEFINE j == i + 1
    <3>1. j \in 1..l /\ p + 1 - j = k - 1
      BY <1>1, <1>9, <2>4
    <3> HIDE DEF j, k
    <3>2. c[j] = s[k - 1] /\ k - 1 \in 1..n
      BY <1>9, <1>10, <3>1
    <3> QED
      BY <2>1, <2>2, <2>4, <3>2 DEF At, j
  <2> QED
    BY <2>3, <2>4
<1>17. Chain(c, s[p], prev, NoSkip, stop)
  BY <1>12, <1>13, <1>14, <1>15, <1>16 DEF Chain
<1>18. Unfolds(prev, NoSkip)
  <2>1. ASSUME NEW y \in NoSkip, prev[y] \in NoSkip
        PROVE  \E i, j \in 1..n : j < i /\ y = s[i] /\ prev[y] = s[j]
    <3>1. y \in Tag /\ prev[y] \in Tag
      BY <1>4, <2>1
    <3>2. PICK i \in 1..n : s[i] = y
      BY <1>1, <1>5, <3>1
    <3>3. prev[y] = At(s, i - 1)
      BY <1>5, <3>2
    <3>4. i - 1 \in 1..n /\ prev[y] = s[i - 1] /\ i - 1 < i
      BY <1>1, <3>1, <3>3 DEF At
    <3> QED
      BY <3>2, <3>4
  <2> QED
    BY <1>1, <1>4, <2>1, WalksToFront
<1>19. Walk(s[p], prev, NoSkip) = c /\ StopOf(c, s[p], prev) = stop
  BY <1>4, <1>17, <1>18, WalkIs
<1>20. WayEnds(s, p, top)
  BY <1>7, <1>13, <1>19 DEF WayEnds, P, l
<1> QED
  BY <1>20

\* The gate tells the lines behind it by their time stamps.
LEMMA Distant ==
  ASSUME NEW s, Holds(s), NEW i \in 1..Len(s), TypeOK
  PROVE  ref_is_distant(s[i]) <=> i > GatePlace(Len(s))
<1> DEFINE n == Len(s)
           g == GatePlace(n)
<1>1. /\ s \in Seq(Tag) /\ n \in Nat /\ NULL \notin Tag
      /\ \A j \in 1..n : s[j] \in Tag
      /\ gate = At(s, g)
      /\ \A j, k \in 1..n : j < k => time_stamp[s[k]] < time_stamp[s[j]]
  BY NullAssumption DEF Lists, Holds, Stamped
<1>2. g \in 1..n /\ g \in Nat
  BY <1>1, ThresholdAssumption DEF GatePlace
<1>3. gate = s[g] /\ gate # NULL
  BY <1>1, <1>2 DEF At
<1>4. ref_is_distant(s[i]) <=> time_stamp[s[i]] < time_stamp[s[g]]
  BY <1>3 DEF ref_is_distant
<1>5. time_stamp[s[i]] \in Nat /\ time_stamp[s[g]] \in Nat
  <2>1. s[i] \in Tag /\ s[g] \in Tag
    BY <1>1, <1>2
  <2> QED
    BY <2>1, TimeAssumption DEF TypeOK
<1> HIDE DEF g
<1>6. ref_is_distant(s[i]) <=> i > g
  <2>1. CASE i > g
    BY <1>1, <1>2, <1>4, <2>1
  <2>2. CASE i = g
    BY <1>4, <1>5, <2>2
  <2>3. CASE i < g
    <3>1. time_stamp[s[g]] < time_stamp[s[i]]
      BY <1>1, <1>2, <2>3
    <3>2. ~(i > g)
      BY <1>2, <2>3
    <3> QED
      BY <1>4, <1>5, <3>1, <3>2
  <2> QED
    BY <1>2, <2>1, <2>2, <2>3
<1> QED
  BY <1>6 DEF g

\* A known line that is not the first: it is moved to the front, and its
\* distance was the place it had.
LEMMA OldHolds ==
  ASSUME TypeOK, NEW s, Holds(s), NEW p \in 2..Len(s), LookupOld(s[p]),
         NEW t, MovedBy(t, s, p)
  PROVE  TypeOK' /\ Holds(t)' /\ result' = p - 1
<1> DEFINE n == Len(s)
           P == Skips(n)
           ref == s[p]
           way == Walk(ref, prev, NoSkip)
           skip == StopOf(way, ref, prev)
           moved == FoldLeft(MoveSkipFields,
                             [prev_skip |-> prev_skip,
                              next_skip |-> next_skip, depth |-> depth],
                             Walk(skip, prev_skip, Tag))
           nn == [next EXCEPT ![prev[ref]] = next[ref], ![ref] = head]
           pp == [Set(prev, next[ref], prev[ref])
                     EXCEPT ![ref] = NULL, ![head] = ref]
<1>1. /\ s \in Lists /\ s \in Seq(Tag) /\ n \in Nat /\ NULL \notin Tag
      /\ p \in 1..n /\ p \in Nat /\ n >= 2 /\ 1 \in 1..n
      /\ \A i, j \in 1..n : s[i] = s[j] => i = j
      /\ \A i \in 1..n : s[i] \in Tag
      /\ {s[i] : i \in 1..n} = cache_map
      /\ head = s[1]
      /\ unique_lines = n
      /\ InOrder(s, next, prev)
      /\ gate = At(s, GatePlace(n))
      /\ Stamped(s, time_stamp, cur_time)
      /\ Skipping(SkipList, s, P)
  BY NullAssumption DEF Lists, Holds, At
<1>2. /\ cur_time < MaxTime
      /\ cache_map' = cache_map
      /\ gate' = IF LeavesGate(ref) THEN prev[gate] ELSE gate
      /\ result' = Len(way) + IF skip = NULL THEN -1 ELSE depth[skip]
      /\ prev_skip' = moved.prev_skip
      /\ next_skip' = moved.next_skip
      /\ depth' = moved.depth
      /\ next' = nn
      /\ prev' = pp
      /\ head' = ref
      /\ time_stamp' = [time_stamp EXCEPT ![ref] = cur_time]
      /\ cur_time' = cur_time + 1
      /\ unique_lines' = unique_lines
  BY DEF LookupOld, MoveToFront
<1>3. /\ t \in Lists /\ Len(t) = n /\ t[1] = ref
      /\ \A i \in 2..n : t[i] = IF i <= p THEN s[i - 1] ELSE s[i]
      /\ \A y : (\E i \in 1..n : s[i] = y) <=> \E i \in 1..n : t[i] = y
  BY DEF MovedBy
<1>4. /\ cur_time \in Nat /\ MaxTime \in Nat
      /\ time_stamp \in [Tag -> 0..MaxTime]
      /\ next \in [Tag -> Node] /\ prev \in [Tag -> Node]
      /\ prev_skip \in [Tag -> Node] /\ next_skip \in [Tag -> Node]
      /\ depth \in [Tag -> Nat \cup {-1}]
      /\ cache_map \in SUBSET Tag
  BY TimeAssumption DEF TypeOK
<1>5. /\ K \in Nat /\ K >= 2 /\ P \in SUBSET (1..n)
      /\ \A q \in P : K <= q
  BY <1>1, SkipsApart
<1>6. nn \in [Tag -> Node] /\ pp \in [Tag -> Node] /\ InOrder(t, nn, pp)
  <2>1. LinkedToFront(s, p, t, next, prev)
    BY <1>1, <1>4, MovedInOrder
  <2> QED
    BY <1>1, <2>1 DEF LinkedToFront
<1> HIDE DEF nn, pp
<1>7. InOrder(t, next, prev)'
  BY <1>2, <1>6 DEF InOrder
<1>8. Stamped(t, time_stamp, cur_time)'
  <2>1. /\ \A i \in 1..n : time_stamp[s[i]] < cur_time
        /\ \A i, j \in 1..n : i < j => time_stamp[s[j]] < time_stamp[s[i]]
    BY <1>1 DEF Stamped
  <2>2. time_stamp'[t[1]] = cur_time
    BY <1>1, <1>2, <1>3, <1>4
  <2> DEFINE ix(i) == IF i <= p THEN i - 1 ELSE i
  <2>3. \A i \in 2..n : t[i] = s[ix(i)] /\ ix(i) \in 1..n /\ ix(i) # p
    BY <1>1, <1>3
  <2>4. \A i, j \in 2..n : i < j => ix(i) < ix(j)
    BY <1>1
  <2> HIDE DEF ix, ref
  <2>5. \A i \in 2..n : time_stamp'[t[i]] = time_stamp[s[ix(i)]]
                          /\ time_stamp[s[ix(i)]] \in Nat
    <3> SUFFICES ASSUME NEW i \in 2..n
                 PROVE  /\ time_stamp'[t[i]] = time_stamp[s[ix(i)]]
                        /\ time_stamp[s[ix(i)]] \in Nat
      OBVIOUS
    <3> DEFINE y == s[ix(i)]
    <3>1. y \in Tag /\ y # ref /\ t[i] = y
      BY <1>1, <2>3 DEF ref
    <3> HIDE DEF y
    <3>2. time_stamp'[y] = time_stamp[y] /\ time_stamp[y] \in Nat
      BY <1>2, <1>4, <3>1
    <3> QED
      BY <3>1, <3>2 DEF y
  <2>6. ASSUME NEW i \in 1..n
        PROVE  time_stamp'[t[i]] < cur_time'
    <3>1. CASE i = 1
      BY <1>2, <1>4, <2>2, <3>1
    <3>2. CASE i # 1
      <4>1. i \in 2..n
        BY <1>1, <3>2
      <4>2. time_stamp[s[ix(i)]] < cur_time
        BY <2>1, <2>3, <4>1
      <4> QED
        BY <1>2, <1>4, <2>5, <4>1, <4>2
    <3> QED
      BY <3>1, <3>2
  <2>7. ASSUME NEW i \in 1..n, NEW j \in 1..n, i < j
        PROVE  time_stamp'[t[j]] < time_stamp'[t[i]]
    <3>1. j \in 2..n
      BY <1>1, <2>7
    <3>2. CASE i = 1
      BY <2>1, <2>2, <2>3, <2>5, <3>1, <3>2
    <3>3. CASE i # 1
      <4>1. i \in 2..n
        BY <1>1, <3>3
      <4>2. time_stamp[s[ix(j)]] < time_stamp[s[ix(i)]]
        BY <2>1, <2>3, <2>4, <2>7, <3>1, <4>1
      <4> QED
        BY <2>5, <3>1, <4>1, <4>2
    <3> QED
      BY <3>2, <3>3
  <2> QED
    BY <1>3, <2>6, <2>7 DEF Stamped
<1>9. {t[i] : i \in 1..Len(t)} = cache_map'
  <2>1. \A y : y \in cache_map' <=> \E i \in 1..n : s[i] = y
    BY <1>1, <1>2
  <2>2. \A y : y \in cache_map' <=> \E i \in 1..n : t[i] = y
    BY <1>3, <2>1
  <2> QED
    BY <1>3, <2>2
<1>10. gate' = At(t, GatePlace(n)) /\ gate' \in Node
  <2> DEFINE g == GatePlace(n)
  <2>1. g \in 2..n /\ g \in 1..n /\ g - 1 \in 1..n /\ g \in Nat
    BY <1>1, ThresholdAssumption DEF GatePlace
  <2>2. gate = s[g]
    BY <1>1, <2>1 DEF At
  <2>3. ref_is_distant(ref) <=> p > g
    BY <1>1, Distant
  <2> HIDE DEF g, ref
  <2>4. ref = gate <=> p = g
    BY <1>1, <2>1, <2>2 DEF ref
  <2>5. LeavesGate(ref) <=> g <= p
    BY <1>1, <2>1, <2>3, <2>4 DEF LeavesGate
  <2>6. prev[s[g]] = At(s, g - 1)
    BY <1>1, <2>1 DEF InOrder
  <2>7. prev[s[g]] = s[g - 1]
    BY <2>1, <2>6 DEF At
  <2>8. At(t, g) = IF g <= p THEN s[g - 1] ELSE s[g]
    BY <1>3, <2>1 DEF At
  <2>9. s[g - 1] \in Tag /\ s[g] \in Tag
    BY <1>1, <2>1
  <2> QED
    BY <1>2, <2>2, <2>5, <2>7, <2>8, <2>9 DEF Node, g
<1>11. PICK top : WayEnds(s, p, top)
  BY <1>1, WayOf
<1>12. /\ top \in 0..p /\ top \in Nat
       /\ top # 0 => top \in P
       /\ \A r \in P : r <= p => r <= top
       /\ Len(way) = p - top
       /\ skip = At(s, top)
  BY <1>11 DEF WayEnds
<1> HIDE DEF way, skip
<1>13. result' = p - 1
  <2>1. CASE top = 0
    <3>1. skip = NULL
      BY <1>12, <2>1 DEF At
    <3>2. Len(way) = p
      BY <1>1, <1>12, <2>1
    <3> QED
      BY <1>1, <1>2, <3>1, <3>2
  <2>2. CASE top # 0
    <3>1. top \in P /\ top \in 1..n
      BY <1>5, <1>12, <2>2
    <3>2. skip = s[top] /\ skip # NULL
      BY <1>1, <1>12, <3>1 DEF At
    <3>3. depth[s[top]] = top - 1
      BY <1>1, <3>1 DEF Skipping, SkipList
    <3>4. result' = (p - top) + (top - 1)
      BY <1>2, <1>12, <3>2, <3>3
    <3> QED
      BY <1>1, <1>12, <3>4
  <2> QED
    BY <2>1, <2>2
<1> DEFINE at == [r \in P |-> IF r <= p THEN s[r - 1] ELSE s[r]]
<1>14. moved \in Fields /\ Skipping(moved, at, P)
  <2> DEFINE f == SkipList
  <2>1. /\ f \in Fields /\ Skipping(f, s, P) /\ f.prev_skip = prev_skip
        /\ f = [prev_skip |-> prev_skip, next_skip |-> next_skip,
                depth |-> depth]
    BY <1>1, <1>4 DEF SkipList, Fields
  <2>2. \A i \in 2..n : prev[s[i]] = s[i - 1]
    <3>1. \A i \in 2..n : i \in 1..n /\ i - 1 \in 1..n
      BY <1>1
    <3>2. \A i \in 1..n : prev[s[i]] = At(s, i - 1)
      BY <1>1 DEF InOrder
    <3> QED
      BY <3>1, <3>2 DEF At
  <2>3. moved = FoldLeft(MoveSkipFields, f,
                         Walk(At(s, top), f.prev_skip, Tag))
    BY <1>12, <2>1
  <2> DEFINE b == moved
  <2> HIDE DEF f, moved
  <2>4. b = FoldLeft(MoveSkipFields, f, Walk(At(s, top), f.prev_skip, Tag))
    BY <2>3
  <2> HIDE DEF b
  <2>5. /\ b \in Fields
        /\ Skipping(b, [r \in Skips(Len(s)) |->
                          IF r <= p THEN s[r - 1] ELSE s[r]],
                    Skips(Len(s)))
    BY <1>1, <1>12, <2>1, <2>2, <2>4, HandedOn, ZenonT(30)
  <2> QED
    BY <2>5 DEF b
<1> HIDE DEF moved
<1>15. Skipping(moved, t, P)
  <2>1. \A r \in P : at[r] = t[r]
    <3>1. \A r \in P : r \in 2..n
      BY <1>1, <1>5
    <3> QED
      BY <1>3, <3>1
  <2> HIDE DEF at, P
  <2> QED
    BY <1>14, <2>1 DEF Skipping
<1>16. /\ prev_skip' \in [Tag -> Node] /\ next_skip' \in [Tag -> Node]
       /\ depth' \in [Tag -> Nat \cup {-1}]
  BY <1>2, <1>14 DEF Fields
<1>17. Skipping(SkipList', t, Skips(Len(t)))
  BY <1>2, <1>3, <1>15 DEF Skipping, SkipList
<1>18. TypeOK'
  <2>1. /\ cache_map' \subseteq Tag /\ head' \in Node /\ gate' \in Node
        /\ result' \in Nat \cup {-1}
    BY <1>1, <1>2, <1>4, <1>10, <1>13, SMTT(20) DEF Node
  <2>2. cur_time' \in 0..MaxTime /\ time_stamp' \in [Tag -> 0..MaxTime]
    <3> HIDE DEF ref
    <3>1. cur_time \in 0..MaxTime /\ cur_time + 1 \in 0..MaxTime
      BY <1>2, <1>4
    <3> QED
      BY <1>2, <1>4, <3>1
  <2>3. unique_lines' \in Nat
    BY <1>1, <1>2
  <2>4. prev' \in [Tag -> Node] /\ next' \in [Tag -> Node]
    BY <1>2, <1>6
  <2> QED
    BY <1>16, <2>1, <2>2, <2>3, <2>4 DEF TypeOK, Node
<1>19. Holds(t)'
  <2>1. /\ t \in Lists /\ head' = At(t, 1) /\ unique_lines' = Len(t)
        /\ gate' = At(t, GatePlace(Len(t)))
    BY <1>1, <1>2, <1>3, <1>10 DEF At
  <2> QED
    BY <1>7, <1>8, <1>9, <1>17, <2>1 DEF Holds
<1> QED
  BY <1>13, <1>18, <1>19

\* Nothing but the answer changes when the first line is referenced again.
LEMMA HeadHolds ==
  ASSUME TypeOK, NEW s, Holds(s), NEW x, LookupHead(x)
  PROVE  /\ TypeOK' /\ Holds(s)' /\ result' = 0
         /\ 1 \in 1..Len(s) /\ s[1] = x
<1>1. /\ result' = 0 /\ cache_map' = cache_map /\ head' = head
      /\ gate' = gate /\ cur_time' = cur_time
      /\ unique_lines' = unique_lines /\ prev' = prev /\ next' = next
      /\ time_stamp' = time_stamp /\ prev_skip' = prev_skip
      /\ next_skip' = next_skip /\ depth' = depth
      /\ x \in cache_map /\ x = head
  BY DEF LookupHead, skips
<1>2. TypeOK'
  BY <1>1 DEF TypeOK
<1>3. Holds(s)'
  BY <1>1 DEF Holds, InOrder, Stamped, Skipping, SkipList
<1>4. 1 \in 1..Len(s) /\ s[1] = x
  <2>1. head = At(s, 1) /\ x \in Tag /\ NULL \notin Tag
    BY <1>1, NullAssumption DEF Holds, TypeOK
  <2> QED
    BY <1>1, <2>1 DEF At
<1> QED
  BY <1>1, <1>2, <1>3, <1>4

----------------------------------------------------------------------------
(* The theorems.                                                           *)

\* At the start the list is empty.
LEMMA StartHolds ==
  ASSUME Init
  PROVE  TypeOK /\ Holds(<<>>)
<1>1. <<>> \in Lists /\ Len(<<>>) = 0
  BY DEF Lists
<1>2. TypeOK
  BY TimeAssumption DEF Init, TypeOK, Node
<1>3. Skips(0) = {}
  <2>1. 0 \in Nat /\ Skips(0) \in SUBSET (1..0)
    BY SkipsApart
  <2> QED
    BY <2>1
<1>4. Skipping(SkipList, <<>>, Skips(0))
  BY <1>3 DEF Init, Skipping, SkipList
<1>5. GatePlace(0) = 0
  BY ThresholdAssumption DEF GatePlace
<1>6. InOrder(<<>>, next, prev)
  BY DEF Init, InOrder
<1>7. head = At(<<>>, 1) /\ gate = At(<<>>, 0)
  BY DEF Init, At
<1>8. Stamped(<<>>, time_stamp, cur_time)
  BY DEF Stamped
<1> QED
  BY <1>1, <1>2, <1>4, <1>5, <1>6, <1>7, <1>8 DEF Holds, Init

\* What a step does to the list, and what it answers.
LEMMA Steps ==
  ASSUME TypeOK, NEW s, Holds(s), [Next]_vars
  PROVE  /\ TypeOK'
         /\ \/ Holds(s)' /\ result' = result
            \/ \E x \in Tag : /\ \A i \in 1..Len(s) : s[i] # x
                              /\ Holds(<<x>> \o s)'
                              /\ result' = -1
            \/ /\ Holds(s)' /\ result' = 0 /\ 1 \in 1..Len(s)
            \/ \E p \in 2..Len(s) : Holds(ToFront(s, p))' /\ result' = p - 1
<1>1. CASE UNCHANGED vars
  <2>1. TypeOK'
    BY <1>1 DEF TypeOK, vars, skips
  <2>2. Holds(s)' /\ result' = result
    BY <1>1 DEF Holds, InOrder, Stamped, Skipping, SkipList, vars, skips
  <2> QED
    BY <2>1, <2>2
<1>2. ASSUME NEW x \in Tag, LookupNew(x)
      PROVE  /\ TypeOK' /\ Holds(<<x>> \o s)' /\ result' = -1
             /\ \A i \in 1..Len(s) : s[i] # x
  BY <1>2, NewHolds
<1>3. ASSUME NEW x \in Tag, LookupHead(x)
      PROVE  TypeOK' /\ Holds(s)' /\ result' = 0 /\ 1 \in 1..Len(s)
  BY <1>3, HeadHolds
<1>4. ASSUME NEW x \in Tag, LookupOld(x)
      PROVE  /\ TypeOK'
             /\ \E p \in 2..Len(s) : Holds(ToFront(s, p))' /\ result' = p - 1
  <2>1. x \in cache_map /\ x # head
    BY <1>4 DEF LookupOld
  <2>2. /\ s \in Lists /\ {s[i] : i \in 1..Len(s)} = cache_map
        /\ head = At(s, 1)
    BY DEF Holds
  <2>3. PICK p \in 1..Len(s) : s[p] = x
    BY <2>1, <2>2
  <2>4. p \in 2..Len(s)
    <3>1. p # 1
      BY <2>1, <2>2, <2>3 DEF At
    <3> QED
      BY <3>1
  <2> DEFINE t == ToFront(s, p)
  <2>5. MovedBy(t, s, p)
    BY <2>2, <2>4, Moved
  <2> HIDE DEF t
  <2>6. TypeOK' /\ Holds(t)' /\ result' = p - 1
    BY <1>4, <2>3, <2>4, <2>5, OldHolds
  <2> QED
    BY <2>4, <2>6 DEF t
<1> QED
  BY <1>1, <1>2, <1>3, <1>4 DEF Next

\* The list after a step.
LEMMA HoldsListNext ==
  ASSUME TypeOK', NEW s, Holds(s)'
  PROVE  List' = s
<1> DEFINE hd == head'
           nx == next'
           pv == prev'
<1>1. nx \in [Tag -> Node] /\ pv \in [Tag -> Node]
  BY DEF TypeOK
<1>2. s \in Lists /\ InOrder(s, nx, pv) /\ hd = At(s, 1)
  BY DEF Holds, InOrder
<1>3. List' = Walk(hd, nx, Tag)
  BY DEF List
<1> HIDE DEF hd, nx, pv
<1>4. Walk(At(s, 1), nx, Tag) = s
  BY <1>1, <1>2, ListIs
<1> QED
  BY <1>2, <1>3, <1>4

\* Two sequences, one after the other.
LEMMA Joined ==
  ASSUME NEW S, NEW u \in Seq(S), NEW b \in Seq(S)
  PROVE  u \o b = [i \in 1..(Len(u) + Len(b)) |->
                     IF i <= Len(u) THEN u[i] ELSE b[i - Len(u)]]
<1> DEFINE c == u \o b
           n == Len(u) + Len(b)
<1>1. /\ c \in Seq(S) /\ Len(c) = n
      /\ \A j \in 1..n :
           c[j] = IF j <= Len(u) THEN u[j] ELSE b[j - Len(u)]
  OBVIOUS
<1> HIDE DEF c, n
<1>2. c = [j \in 1..n |-> c[j]]
  BY <1>1
<1>3. c = [j \in 1..n |-> IF j <= Len(u) THEN u[j] ELSE b[j - Len(u)]]
  BY <1>1, <1>2
<1> QED
  BY <1>3 DEF c, n

\* The first line, moved to the front, stays where it is; and ToFront is what
\* the LRU stack does.
LEMMA Stacked ==
  ASSUME NEW s \in Lists, NEW p \in 1..Len(s)
  PROVE  /\ ToFront(s, p) = <<s[p]>> \o SubSeq(s, 1, p - 1)
                                     \o SubSeq(s, p + 1, Len(s))
         /\ ToFront(s, 1) = s
<1> DEFINE n == Len(s)
           a == SubSeq(s, 1, p - 1)
           b == SubSeq(s, p + 1, n)
           u == <<s[p]>> \o a
<1>1. /\ s \in Seq(Tag) /\ n \in Nat /\ s[p] \in Tag /\ p \in Nat
      /\ \A i \in 1..n : s[i] \in Tag
  BY DEF Lists
<1>2. a \in Seq(Tag) /\ Len(a) = p - 1 /\ \A i \in 1..(p - 1) : a[i] = s[i]
  <2>1. \A i \in 1..(p - 1) : s[i] \in Tag
    BY <1>1
  <2>2. a = [i \in 1..(p - 1) |-> s[i]]
    BY <1>1
  <2> HIDE DEF a
  <2>3. p - 1 \in Nat
    BY <1>1
  <2> QED
    BY <2>1, <2>2, <2>3
<1>3. /\ b \in Seq(Tag) /\ Len(b) = n - p
      /\ \A i \in 1..(n - p) : b[i] = s[p + i]
  <2>1. \A i \in 1..(n - p) : s[p + i] \in Tag
    BY <1>1
  <2>2. b = [i \in 1..(n - p) |-> s[p + i]]
    <3>1. b = [i \in 1..(n - (p + 1) + 1) |-> s[(p + 1) + i - 1]]
      BY <1>1
    <3>2. n - (p + 1) + 1 = n - p
      BY <1>1
    <3>3. \A i \in 1..(n - p) : (p + 1) + i - 1 = p + i
      BY <1>1
    <3> HIDE DEF b
    <3> QED
      BY <3>1, <3>2, <3>3
  <2> HIDE DEF b
  <2>3. n - p \in Nat
    BY <1>1
  <2> QED
    BY <2>1, <2>2, <2>3
<1> HIDE DEF a, b
<1>4. /\ u \in Seq(Tag) /\ Len(u) = p /\ u[1] = s[p]
      /\ \A i \in 2..p : u[i] = s[i - 1]
  <2>1. /\ u \in Seq(Tag) /\ Len(u) = (p - 1) + 1
        /\ u = [j \in 1..((p - 1) + 1) |-> IF j = 1 THEN s[p] ELSE a[j - 1]]
    BY <1>1, <1>2, InFront
  <2>2. (p - 1) + 1 = p
    BY <1>1
  <2> HIDE DEF u
  <2>3. \A i \in 2..p : i - 1 \in 1..(p - 1) /\ i \in 1..p /\ i # 1
    BY <1>1
  <2> QED
    BY <1>1, <1>2, <2>1, <2>2, <2>3
<1> HIDE DEF u
<1>5. u \o b = ToFront(s, p)
  <2> DEFINE w == u \o b
  <2>1. w = [i \in 1..(Len(u) + Len(b)) |->
               IF i <= Len(u) THEN u[i] ELSE b[i - Len(u)]]
    BY <1>3, <1>4, Joined
  <2>2. Len(u) + Len(b) = n /\ Len(u) = p
    BY <1>1, <1>3, <1>4
  <2> HIDE DEF w
  <2>3. w = [i \in 1..n |-> IF i <= p THEN u[i] ELSE b[i - p]]
    BY <2>1, <2>2
  <2>4. ASSUME NEW i \in 1..n
        PROVE  (IF i <= p THEN u[i] ELSE b[i - p]) =
                 IF i = 1 THEN s[p] ELSE IF i <= p THEN s[i - 1] ELSE s[i]
    <3>1. CASE i = 1
      BY <1>1, <1>4, <3>1
    <3>2. CASE i # 1 /\ i <= p
      <4>1. i \in 2..p
        BY <1>1, <3>2
      <4> QED
        BY <1>4, <3>2, <4>1
    <3>3. CASE ~(i <= p)
      <4>1. i - p \in 1..(n - p) /\ p + (i - p) = i /\ i # 1
        BY <1>1, <3>3
      <4> QED
        BY <1>3, <3>3, <4>1
    <3> QED
      BY <3>1, <3>2, <3>3
  <2>5. w = ToFront(s, p)
    BY <2>3, <2>4 DEF ToFront
  <2> QED
    BY <2>5 DEF w
<1>6. ToFront(s, 1) = s
  <2>1. \A i \in 1..n : (IF i = 1 THEN s[1]
                         ELSE IF i <= 1 THEN s[i - 1] ELSE s[i]) = s[i]
    BY <1>1
  <2>2. ToFront(s, 1) = [i \in 1..n |-> s[i]]
    BY <2>1 DEF ToFront
  <2>3. s = [i \in 1..n |-> s[i]]
    BY <1>1
  <2> QED
    BY <2>2, <2>3
<1> QED
  BY <1>5, <1>6 DEF u, a, b

\* The largest element, as Max of SequencesExt has it.
LEMMA MaxIs ==
  ASSUME NEW S \in SUBSET Nat, NEW m \in S, \A y \in S : m >= y
  PROVE  Max(S) = m
<1> DEFINE z == Max(S)
<1>1. z \in S /\ \A y \in S : z >= y
  BY DEF Max
<1> HIDE DEF z
<1>2. z = m
  BY <1>1
<1> QED
  BY <1>2 DEF z

\* ... and the smallest.
LEMMA MinIs ==
  ASSUME NEW S \in SUBSET Nat, NEW m \in S, \A y \in S : m <= y
  PROVE  Min(S) = m
<1> DEFINE z == Min(S)
<1>1. z \in S /\ \A y \in S : z <= y
  BY DEF Min
<1> HIDE DEF z
<1>2. z = m
  BY <1>1
<1> QED
  BY <1>2 DEF z

\* The properties say of List what Holds says of s.
LEMMA ThenLinks ==
  ASSUME ListInv
  PROVE  LinksConsistent
<1>1. PICK s \in Lists : Holds(s)
  BY DEF ListInv
<1>2. List = s
  BY <1>1, HoldsList DEF ListInv
<1> DEFINE n == Len(s)
           P == Skips(n)
<1>3. /\ s \in Seq(Tag) /\ n \in Nat /\ NULL \notin Tag
      /\ \A i, j \in 1..n : s[i] = s[j] => i = j
      /\ \A i \in 1..n : s[i] \in Tag
      /\ {s[i] : i \in 1..n} = cache_map
      /\ unique_lines = n
      /\ InOrder(s, next, prev)
      /\ Skipping(SkipList, s, P)
  BY <1>1, NullAssumption DEF Lists, Holds
<1>4. /\ K \in Nat /\ K >= 2 /\ P \in SUBSET (1..n)
      /\ \A q \in P : K <= q /\ q <= n + 1 - K
      /\ \A q, r \in P : q < r => q + K <= r
      /\ \A q \in P : q + K <= n + 1 - K => q + K \in P
      /\ \A q \in P : q - K >= K => q - K \in P
  BY <1>3, SkipsApart
<1>5. /\ \A q \in P :
           /\ depth[s[q]] = q - 1
           /\ next_skip[s[q]] = IF q + K \in P THEN s[q + K] ELSE NULL
           /\ prev_skip[s[q]] = IF q - K \in P THEN s[q - K] ELSE NULL
      /\ \A x \in Tag : (\A q \in P : s[q] # x) =>
           depth[x] = -1 /\ next_skip[x] = NULL /\ prev_skip[x] = NULL
  BY <1>3 DEF Skipping, SkipList
<1> HIDE DEF P, K
<1>6. SkipPlaces = P
  <2>1. \A i \in 1..n : depth[s[i]] # -1 <=> i \in P
    <3> SUFFICES ASSUME NEW i \in 1..n
                 PROVE  depth[s[i]] # -1 <=> i \in P
      OBVIOUS
    <3>1. CASE i \in P
      BY <1>4, <1>5, <3>1
    <3>2. CASE i \notin P
      <4>1. \A q \in P : s[q] # s[i]
        BY <1>3, <1>4, <3>2
      <4> QED
        BY <1>3, <1>5, <3>2, <4>1
    <3> QED
      BY <3>1, <3>2
  <2> QED
    BY <1>2, <1>4, <2>1 DEF SkipPlaces
<1>7. ToSet(List) = cache_map /\ unique_lines = Len(List)
  BY <1>2, <1>3 DEF ToSet
<1>8. ASSUME NEW i \in 1..n, NEW before, before = {j \in 1..n : j < i},
             NEW after, after = {j \in 1..n : j > i}
      PROVE  /\ prev[s[i]] = IF before = {} THEN NULL ELSE s[Max(before)]
             /\ next[s[i]] = IF after = {} THEN NULL ELSE s[Min(after)]
  <2>1. prev[s[i]] = At(s, i - 1) /\ next[s[i]] = At(s, i + 1)
    BY <1>3 DEF InOrder
  <2>2. i = 1 => before = {} /\ At(s, i - 1) = NULL
    BY <1>8 DEF At
  <2>3. ASSUME i # 1
        PROVE  before # {} /\ At(s, i - 1) = s[Max(before)]
    <3> DEFINE k == i - 1
    <3>1. /\ k \in before /\ before \in SUBSET Nat /\ k \in 1..n
          /\ \A y \in before : k >= y
      BY <1>3, <1>8, <2>3
    <3> HIDE DEF k
    <3>2. Max(before) = k
      BY <3>1, MaxIs
    <3>3. At(s, k) = s[k]
      BY <3>1 DEF At
    <3> QED
      BY <3>1, <3>2, <3>3 DEF k
  <2>4. i = n => after = {} /\ At(s, i + 1) = NULL
    BY <1>3, <1>8 DEF At
  <2>5. ASSUME i # n
        PROVE  after # {} /\ At(s, i + 1) = s[Min(after)]
    <3> DEFINE k == i + 1
    <3>1. /\ k \in after /\ after \in SUBSET Nat /\ k \in 1..n
          /\ \A y \in after : k <= y
      BY <1>3, <1>8, <2>5
    <3> HIDE DEF k
    <3>2. Min(after) = k
      BY <3>1, MinIs
    <3>3. At(s, k) = s[k]
      BY <3>1 DEF At
    <3> QED
      BY <3>1, <3>2, <3>3 DEF k
  <2> QED
    BY <2>1, <2>2, <2>3, <2>4, <2>5
<1>9. ASSUME NEW i \in P, NEW before, before = {j \in P : j < i},
             NEW after, after = {j \in P : j > i}
      PROVE  /\ prev_skip[s[i]] = IF before = {} THEN NULL ELSE s[Max(before)]
             /\ next_skip[s[i]] = IF after = {} THEN NULL ELSE s[Min(after)]
  <2> DEFINE k == i - K
             l == i + K
  <2>1. /\ next_skip[s[i]] = IF l \in P THEN s[l] ELSE NULL
        /\ prev_skip[s[i]] = IF k \in P THEN s[k] ELSE NULL
    BY <1>5
  <2>2. /\ i \in Nat /\ k \in Int /\ l \in Int /\ k < i /\ i < l
        /\ k + K = i /\ i + K = l
    BY <1>4
  <2>3. \A j \in P : j \in Nat /\ K <= j /\ j <= n + 1 - K
                       /\ (j < i => j <= k) /\ (i < j => l <= j)
    <3> SUFFICES ASSUME NEW j \in P
                 PROVE  /\ j \in Nat /\ K <= j /\ j <= n + 1 - K
                        /\ j < i => j <= k
                        /\ i < j => l <= j
      OBVIOUS
    <3>1. j \in Nat /\ K <= j /\ j <= n + 1 - K
      BY <1>4
    <3>2. j < i => j + K <= i
      BY <1>4
    <3>3. i < j => i + K <= j
      BY <1>4
    <3> QED
      BY <1>4, <2>2, <3>1, <3>2, <3>3
  <2>4. k >= K => k \in P
    BY <1>4
  <2>5. l <= n + 1 - K => l \in P
    BY <1>4
  <2> HIDE DEF k, l
  <2>6. ASSUME k \in P
        PROVE  before # {} /\ Max(before) = k
    <3>1. before \in SUBSET Nat /\ k \in before /\ \A y \in before : k >= y
      BY <1>9, <2>2, <2>3, <2>6
    <3> QED
      BY <3>1, MaxIs
  <2>7. ASSUME k \notin P
        PROVE  before = {}
    <3> SUFFICES ASSUME NEW j \in P, j < i
                 PROVE  FALSE
      BY <1>9
    <3>1. k >= K
      BY <1>4, <2>2, <2>3
    <3> QED
      BY <2>4, <2>7, <3>1
  <2>8. ASSUME l \in P
        PROVE  after # {} /\ Min(after) = l
    <3>1. after \in SUBSET Nat /\ l \in after /\ \A y \in after : l <= y
      BY <1>9, <2>2, <2>3, <2>8
    <3> QED
      BY <3>1, MinIs
  <2>9. ASSUME l \notin P
        PROVE  after = {}
    <3> SUFFICES ASSUME NEW j \in P, i < j
                 PROVE  FALSE
      BY <1>9, <2>2, <2>3
    <3>1. l <= n + 1 - K
      BY <1>3, <1>4, <2>2, <2>3
    <3> QED
      BY <2>5, <2>9, <3>1
  <2> QED
    BY <2>1, <2>6, <2>7, <2>8, <2>9
<1>10. \A x \in Tag \ {s[i] : i \in P} :
          prev_skip[x] = NULL /\ next_skip[x] = NULL
  BY <1>5
<1>11. \A i \in 1..n :
         LET before == {j \in 1..n : j < i}
             after  == {j \in 1..n : j > i}
         IN  /\ prev[s[i]] = IF before = {} THEN NULL ELSE s[Max(before)]
             /\ next[s[i]] = IF after = {} THEN NULL ELSE s[Min(after)]
  BY <1>8
<1>12. \A i \in P :
         LET before == {j \in P : j < i}
             after  == {j \in P : j > i}
         IN  /\ prev_skip[s[i]] = IF before = {} THEN NULL
                                  ELSE s[Max(before)]
             /\ next_skip[s[i]] = IF after = {} THEN NULL ELSE s[Min(after)]
  BY <1>9
<1> QED
  BY <1>2, <1>6, <1>7, <1>10, <1>11, <1>12, Zenon DEF LinksConsistent

\* The depths are the places, and the places are the multiples.
LEMMA ThenDepths ==
  ASSUME ListInv
  PROVE  DepthsTrue /\ SkipsSpaced
<1>1. PICK s \in Lists : Holds(s)
  BY DEF ListInv
<1>2. List = s
  BY <1>1, HoldsList DEF ListInv
<1> DEFINE n == Len(s)
           P == Skips(n)
<1>3. /\ s \in Seq(Tag) /\ n \in Nat
      /\ \A i, j \in 1..n : s[i] = s[j] => i = j
      /\ \A i \in 1..n : s[i] \in Tag
      /\ Skipping(SkipList, s, P)
  BY <1>1 DEF Lists, Holds
<1>4. K \in Nat /\ K >= 2 /\ P \in SUBSET (1..n)
  BY <1>3, SkipsApart
<1>5. /\ \A q \in P : depth[s[q]] = q - 1
      /\ \A x \in Tag : (\A q \in P : s[q] # x) => depth[x] = -1
  BY <1>3 DEF Skipping, SkipList
<1>6. \A i \in 1..n : depth[s[i]] = IF i \in P THEN i - 1 ELSE -1
  <2> SUFFICES ASSUME NEW i \in 1..n
               PROVE  depth[s[i]] = IF i \in P THEN i - 1 ELSE -1
    OBVIOUS
  <2> HIDE DEF P
  <2>1. i \notin P => \A q \in P : s[q] # s[i]
    BY <1>3, <1>4
  <2> QED
    BY <1>3, <1>5, <2>1
<1>7. DepthsTrue
  <2> HIDE DEF P
  <2> QED
    BY <1>2, <1>6 DEF DepthsTrue
<1>8. \A d \in Int : d \in (K - 1)..(n - K) /\ Rem(n - d, K) = 0
                       <=> d + 1 \in P
  <2> SUFFICES ASSUME NEW d \in Int
               PROVE  d \in (K - 1)..(n - K) /\ Rem(n - d, K) = 0
                        <=> d + 1 \in P
    OBVIOUS
  <2> DEFINE q == d + 1
             m == n - d
  <2>1. /\ q \in K..(n + 1 - K) <=> d \in (K - 1)..(n - K)
        /\ m = n + 1 - q
    BY <1>3, <1>4
  <2> HIDE DEF q, m
  <2>2. q \in P <=> q \in K..(n + 1 - K) /\ Rem(m, K) = 0
    BY <2>1 DEF Skips
  <2>3. q \in P <=> d \in (K - 1)..(n - K) /\ Rem(m, K) = 0
    BY <2>1, <2>2
  <2> QED
    BY <2>3 DEF q, m
<1>9. {depth[s[i]] : i \in 1..n} \ {-1} =
        {d \in (K - 1)..(n - K) : Rem(n - d, K) = 0}
  <2> HIDE DEF P, K
  <2>1. ASSUME NEW i \in 1..n, depth[s[i]] # -1
        PROVE  /\ depth[s[i]] \in (K - 1)..(n - K)
               /\ Rem(n - depth[s[i]], K) = 0
    <3> DEFINE d == depth[s[i]]
    <3>1. d = i - 1 /\ i \in P
      BY <1>6, <2>1
    <3>2. d \in Int /\ d + 1 = i
      BY <3>1
    <3> HIDE DEF d
    <3>3. d \in (K - 1)..(n - K) /\ Rem(n - d, K) = 0
      BY <1>8, <3>1, <3>2
    <3> QED
      BY <3>3 DEF d
  <2>2. ASSUME NEW d \in (K - 1)..(n - K), Rem(n - d, K) = 0
        PROVE  d # -1 /\ \E i \in 1..n : depth[s[i]] = d
    <3>1. d \in Int /\ d # -1
      BY <1>3, <1>4
    <3>2. d + 1 \in P
      BY <1>8, <2>2, <3>1
    <3>3. depth[s[d + 1]] = (d + 1) - 1 /\ d + 1 \in 1..n
      BY <1>4, <1>5, <3>2
    <3>4. (d + 1) - 1 = d
      BY <3>1
    <3> QED
      BY <3>1, <3>3, <3>4
  <2> QED
    BY <2>1, <2>2
<1>10. {d \in (K - 1)..(n - K) : Rem(n - d, K) = 0} =
         {d \in (K - 1)..(n - K) : (n - d) % K = 0}
  BY Zenon DEF Rem
<1>11. SkipsSpaced
  BY <1>2, <1>9, <1>10, Zenon DEF SkipsSpaced, K
<1> QED
  BY <1>7, <1>11

\* The gate is where it should be, and a line is distant when it is behind.
LEMMA ThenGate ==
  ASSUME ListInv
  PROVE  GateAtThreshold
<1>1. PICK s \in Lists : Holds(s)
  BY DEF ListInv
<1>2. List = s /\ TypeOK
  BY <1>1, HoldsList DEF ListInv
<1> DEFINE n == Len(s)
<1>3. /\ s \in Seq(Tag) /\ n \in Nat
      /\ \A i, j \in 1..n : s[i] = s[j] => i = j
      /\ gate = At(s, GatePlace(n))
  BY <1>1 DEF Lists, Holds
<1>4. ASSUME NEW i \in 1..n
      PROVE  /\ s[i] = gate <=> i = IF n > Threshold THEN Threshold + 1
                                    ELSE n
             /\ ref_is_distant(s[i]) <=> i > Threshold + 1
  <2>1. ref_is_distant(s[i]) <=> i > GatePlace(n)
    BY <1>1, <1>2, Distant
  <2>2. i > GatePlace(n) <=> i > Threshold + 1
    BY <1>3, ThresholdAssumption DEF GatePlace
  <2>3. GatePlace(n) \in 1..n
    BY <1>3, ThresholdAssumption DEF GatePlace
  <2>4. s[i] = gate <=> i = GatePlace(n)
    BY <1>3, <2>3 DEF At
  <2> QED
    BY <2>1, <2>2, <2>4 DEF GatePlace
<1> QED
  BY <1>2, <1>4 DEF GateAtThreshold

\* The constructor makes an empty list, and an empty LRU stack.
LEMMA ListStart ==
  ASSUME Init
  PROVE  ListInv /\ LRU!Init
<1>1. TypeOK /\ Holds(<<>>)
  BY StartHolds
<1>2. <<>> \in Lists
  BY <1>1 DEF Holds
<1>3. ListInv
  BY <1>1, <1>2 DEF ListInv
<1>4. List = <<>>
  BY <1>1, HoldsList
<1>5. result = -1
  BY DEF Init
<1> QED
  BY <1>3, <1>4, <1>5 DEF LRU!Init

\* lookup_distance keeps the invariant, and what it does to the list and
\* answers is a step of the LRU stack: a first reference, or one to the line at
\* place p, which the head is too.
LEMMA ListStep ==
  ASSUME ListInv, [Next]_vars
  PROVE  ListInv' /\ [LRU!Next]_<<List, result>>
<1>1. TypeOK /\ \E s \in Lists : Holds(s)
  BY DEF ListInv
<1>2. PICK s \in Lists : Holds(s)
  BY <1>1
<1>3. List = s
  BY <1>1, <1>2, HoldsList
<1>4. /\ TypeOK'
      /\ \/ Holds(s)' /\ result' = result
         \/ \E x \in Tag : /\ \A i \in 1..Len(s) : s[i] # x
                           /\ Holds(<<x>> \o s)'
                           /\ result' = -1
         \/ /\ Holds(s)' /\ result' = 0 /\ 1 \in 1..Len(s)
         \/ \E p \in 2..Len(s) : Holds(ToFront(s, p))' /\ result' = p - 1
  BY <1>1, <1>2, Steps
<1>5. ASSUME NEW t, Holds(t)'
      PROVE  ListInv' /\ List' = t
  <2>1. t \in Lists
    BY <1>5 DEF Holds
  <2>2. ListInv'
    BY <1>4, <1>5, <2>1 DEF ListInv
  <2>3. List' = t
    BY <1>4, <1>5, HoldsListNext
  <2> QED
    BY <2>2, <2>3
<1>6. s \in Seq(Tag) /\ \A i \in 1..Len(s) : s[i] \in Tag
  BY DEF Lists
<1>7. ASSUME Holds(s)', result' = result
      PROVE  ListInv' /\ [LRU!Next]_<<List, result>>
  BY <1>3, <1>5, <1>7
<1>8. ASSUME NEW x \in Tag, \A i \in 1..Len(s) : s[i] # x,
             Holds(<<x>> \o s)', result' = -1
      PROVE  ListInv' /\ [LRU!Next]_<<List, result>>
  <2>1. ListInv' /\ List' = <<x>> \o List
    BY <1>3, <1>5, <1>8
  <2>2. LRU!FirstReference(x)
    BY <1>3, <1>8, <2>1 DEF LRU!FirstReference, LRU!Lines
  <2> QED
    BY <2>1, <2>2 DEF LRU!Next
<1>9. ASSUME NEW p \in 1..Len(s), Holds(ToFront(s, p))', result' = p - 1
      PROVE  ListInv' /\ [LRU!Next]_<<List, result>>
  <2>1. ListInv' /\ List' = ToFront(s, p)
    BY <1>5, <1>9
  <2>2. List' = <<s[p]>> \o SubSeq(s, 1, p - 1) \o SubSeq(s, p + 1, Len(s))
    BY <2>1, Stacked
  <2>3. LRU!Reference(s[p])
    BY <1>3, <1>9, <2>2 DEF LRU!Reference
  <2> QED
    BY <1>6, <2>1, <2>3 DEF LRU!Next
<1>10. ASSUME Holds(s)', result' = 0, 1 \in 1..Len(s)
       PROVE  ListInv' /\ [LRU!Next]_<<List, result>>
  <2>1. ToFront(s, 1) = s
    BY <1>10, Stacked
  <2>2. result' = 1 - 1
    BY <1>10
  <2> QED
    BY <1>9, <1>10, <2>1, <2>2
<1>11. ASSUME NEW p \in 2..Len(s), Holds(ToFront(s, p))', result' = p - 1
       PROVE  ListInv' /\ [LRU!Next]_<<List, result>>
  <2>1. p \in 1..Len(s)
    OBVIOUS
  <2> QED
    BY <1>9, <1>11, <2>1
<1> QED
  BY <1>4, <1>7, <1>8, <1>10, <1>11

\* add_to_front and move_to_front keep the two lists, the gate and the time
\* stamps about one sequence of lines.
THEOREM ListAlways == Spec => []ListInv
<1>1. Init => ListInv
  BY ListStart
<1>2. ListInv /\ [Next]_vars => ListInv'
  BY ListStep
<1> QED
  BY <1>1, <1>2, PTL DEF Spec

\* The fields of the nodes and of line_ref_list_t keep their types: no link to
\* a node that does not exist, no negative depth or answer but -1.
THEOREM ListTypes == Spec => []TypeOK
<1>1. ListInv => TypeOK
  BY DEF ListInv
<1> QED
  BY <1>1, ListAlways, PTL

\* The two lists stay doubly linked through the right nodes, whatever
\* add_to_front and move_to_front relink at once.
THEOREM ListsLinked == Spec => []LinksConsistent
<1>1. ListInv => LinksConsistent
  BY ThenLinks
<1> QED
  BY <1>1, ListAlways, PTL

\* A skip node's stored depth is its distance from the head, although
\* insertions push it back and moves hand it from node to node.
THEOREM DepthsAreDistances == Spec => []DepthsTrue
<1>1. ListInv => DepthsTrue
  BY ThenDepths
<1> QED
  BY <1>1, ListAlways, PTL

\* The skip nodes are SkipDistance apart from the end of the list on, so that
\* no loop of add_to_front or move_to_front goes far without meeting one.
THEOREM SkipNodesSpaced == Spec => []SkipsSpaced
<1>1. ListInv => SkipsSpaced
  BY ThenDepths
<1> QED
  BY <1>1, ListAlways, PTL

\* The gate is the earliest line within the threshold, and ref_is_distant
\* tells the lines behind it by their time stamps.
THEOREM GateKeepsThreshold == Spec => []GateAtThreshold
<1>1. ListInv => GateAtThreshold
  BY ThenGate
<1> QED
  BY <1>1, ListAlways, PTL

\* The analysis implements the LRU stack: lookup_distance answers -1 for a new
\* line and the position in the stack for a known one, for every sequence of
\* references.
THEOREM AnalysisIsLRUStack == Spec => Refinement
<1>1. Init => LRU!Init
  BY ListStart
<1>2. ListInv /\ [Next]_vars => [LRU!Next]_<<List, result>>
  BY ListStep
<1> QED
  BY <1>1, <1>2, ListAlways, PTL DEF Spec, Refinement, LRU!Spec
=============================================================================
