------------------------------- MODULE MemoryProofs -------------------------------
(***************************************************************************)
(* The heap and everything that allocates from it: for every size of the   *)
(* heap, every set of messages and reports, every capacity of the rings,   *)
(* and with any request of memory failing, the blocks stay sound, each     *)
(* allocated block has exactly one owner, and none is released twice or    *)
(* written past its end.                                                   *)
(*                                                                         *)
(* A handler is one step of the model and a long chain of allocations,     *)
(* copies, posts and releases in the code. The invariant is therefore      *)
(* stated of a device in the middle of a handler (OK): the allocated       *)
(* blocks are divided among the events, the send queue, the message being  *)
(* received and what the handler holds at that point. Each operator that a *)
(* handler calls has a lemma that says what it takes from the handler and  *)
(* what it gives it, and a handler's lemma puts these together along its   *)
(* paths; it must end holding nothing.                                     *)
(***************************************************************************)
EXTENDS Memory, Numbers, SequenceTheorems

(* Blocks, free or allocated, with their header.                           *)
Blk == [at : Nat, size : Nat]

(* What a block is made of.                                                *)
LEMMA BlockIs ==
    ASSUME NEW n \in Nat, NEW k \in Nat
    PROVE  Block(n, k) \in Blk /\ Block(n, k).at = n /\ Block(n, k).size = k
  BY DEF Block, Blk

(* A tiling stays one when two blocks that touch become one.               *)
LEMMA TiledMerge ==
    ASSUME NEW X \in SUBSET Blk, NEW a \in Blk, NEW b \in Blk, a \notin X, b \notin X,
           a # b, EndOf(a) = b.at, Tiled(X \union {a, b})
    PROVE  LET c == Block(a.at, a.size + b.size)
           IN  c \in Blk /\ c \notin X /\ Tiled(X \union {c})
  <1> DEFINE c == Block(a.at, a.size + b.size)
  <1>1. c \in Blk /\ c.at = a.at /\ c.size = a.size + b.size /\ EndOf(c) = EndOf(b)
    BY DEF Blk, Block, EndOf
  <1> HIDE DEF c
  <1> USE DEF Blk
  <1>2. Total \in Nat
    BY HeapAssumption
  <1>3. /\ a.at \in Nat /\ a.size \in Nat /\ b.at \in Nat /\ b.size \in Nat
        /\ a.size > 0 /\ b.size > 0 /\ EndOf(a) = a.at + a.size /\ EndOf(b) = b.at + b.size
        /\ EndOf(b) <= Total /\ a.at % Align = 0
        /\ b.at # 0 /\ EndOf(b) # b.at
    BY DEF Tiled, EndOf
  <1>4. ASSUME NEW d \in X
        PROVE  /\ d.at \in Nat /\ d.size \in Nat /\ d.size > 0 /\ EndOf(d) = d.at + d.size
               /\ d.at % Align = 0 /\ EndOf(d) <= Total
               /\ EndOf(d) <= a.at \/ EndOf(b) <= d.at
               /\ EndOf(d) # b.at /\ d.at # a.at
    <2>1. d # a /\ d # b
      OBVIOUS
    <2>2. /\ d.at \in Nat /\ d.size \in Nat /\ d.size > 0 /\ EndOf(d) = d.at + d.size
          /\ d.at % Align = 0 /\ EndOf(d) <= Total
          /\ EndOf(d) <= a.at \/ EndOf(a) <= d.at
          /\ EndOf(d) <= b.at \/ EndOf(b) <= d.at
      BY <2>1 DEF Tiled, EndOf
    <2> QED BY <1>3, <2>2
  <1> DEFINE starts == {x.at : x \in X \union {a, b}}
             new == {x.at : x \in X \union {c}}
  <1>5. \A n \in starts : n # b.at => n \in new
    BY <1>1
  <1>6. 0 \in new
    BY <1>3, <1>5 DEF Tiled
  <1>7. \A d \in X : EndOf(d) \in new \union {Total}
    BY <1>4, <1>5 DEF Tiled
  <1>8. EndOf(c) \in new \union {Total}
    <2>1. \A d \in X \union {a, b} : EndOf(d) \in starts \union {Total}
      BY DEF Tiled
    <2> QED BY <1>1, <1>3, <1>5, <2>1
  <1>9. c \notin X
    BY <1>1, <1>4
  <1>10. \A d, e \in X : d = e \/ EndOf(d) <= e.at \/ EndOf(e) <= d.at
    BY DEF Tiled
  <1>11. \A d, e \in X \union {c} : d = e \/ EndOf(d) <= e.at \/ EndOf(e) <= d.at
    <2>1. \A d \in X : EndOf(d) <= c.at \/ EndOf(c) <= d.at
      BY <1>1, <1>4
    <2> QED BY <1>10, <2>1
  <1>12. \A d \in X \union {c} : /\ d.size > 0 /\ d.at % Align = 0
                                 /\ d.at >= 0 /\ EndOf(d) <= Total
                                 /\ EndOf(d) \in new \union {Total}
    BY <1>1, <1>3, <1>4, <1>7, <1>8
  <1>13. Tiled(X \union {c})
    BY <1>6, <1>11, <1>12 DEF Tiled
  <1> QED BY <1>1, <1>9, <1>13 DEF c

(* A tiling stays one when a block is divided where the alignment allows.  *)
LEMMA TiledSplit ==
    ASSUME NEW X \in SUBSET Blk, NEW b \in Blk, b \notin X, Tiled(X \union {b}),
           NEW w \in Nat, w % Align = 0, w > 0, w < b.size
    PROVE  LET c == Block(b.at, w)
               d == Block(b.at + w, b.size - w)
           IN  /\ c \in Blk /\ c \notin X /\ d \in Blk /\ d \notin X /\ c # d
               /\ Tiled(X \union {c, d})
  <1> DEFINE c == Block(b.at, w)
             d == Block(b.at + w, b.size - w)
  <1> USE DEF Blk
  <1>1. /\ c \in Blk /\ c.at = b.at /\ c.size = w /\ EndOf(c) = d.at
        /\ d \in Blk /\ d.at = b.at + w /\ d.size = b.size - w /\ EndOf(d) = EndOf(b)
    BY DEF Block, EndOf
  <1> HIDE DEF c, d
  <1>2. Total \in Nat /\ Align \in Nat \ {0}
    BY HeapAssumption
  <1>3. /\ b.at \in Nat /\ b.size \in Nat /\ EndOf(b) = b.at + b.size
        /\ EndOf(b) <= Total /\ b.at % Align = 0
    BY DEF Tiled, EndOf
  <1>4. d.at % Align = 0
    BY <1>1, <1>2, <1>3, Multiples
  <1>5. ASSUME NEW e \in X
        PROVE  /\ e.at \in Nat /\ e.size \in Nat /\ e.size > 0 /\ EndOf(e) = e.at + e.size
               /\ e.at % Align = 0 /\ EndOf(e) <= Total
               /\ EndOf(e) <= b.at \/ EndOf(b) <= e.at
    BY DEF Tiled, EndOf
  <1> DEFINE starts == {x.at : x \in X \union {b}}
             new == {x.at : x \in X \union {c, d}}
  <1>6. \A n \in starts : n \in new
    BY <1>1
  <1>7. d.at \in new
    OBVIOUS
  <1>8. 0 \in new
    BY <1>6 DEF Tiled
  <1>9. EndOf(c) \in new /\ EndOf(d) \in new \union {Total}
    BY <1>1, <1>6, <1>7 DEF Tiled
  <1>10. \A e \in X : EndOf(e) \in new \union {Total}
    BY <1>6 DEF Tiled
  <1>11. \A e, f \in X : e = f \/ EndOf(e) <= f.at \/ EndOf(f) <= e.at
    BY DEF Tiled
  <1>12. \A e, f \in X \union {c, d} : e = f \/ EndOf(e) <= f.at \/ EndOf(f) <= e.at
    BY <1>1, <1>3, <1>5, <1>11
  <1>13. \A e \in X \union {c, d} : /\ e.size > 0 /\ e.at % Align = 0
                                    /\ e.at >= 0 /\ EndOf(e) <= Total
                                    /\ EndOf(e) \in new \union {Total}
    BY <1>1, <1>2, <1>3, <1>4, <1>5, <1>9, <1>10
  <1>14. Tiled(X \union {c, d})
    BY <1>8, <1>12, <1>13 DEF Tiled
  <1>15. c \notin X /\ d \notin X /\ c # d
    BY <1>1, <1>3, <1>5
  <1> QED BY <1>1, <1>14, <1>15 DEF c, d

(* A member of a list of blocks is a block.                                *)
LEMMA ElementIs ==
    ASSUME NEW L \in Seq(Blk), NEW i \in 1 .. Len(L)
    PROVE  L[i] \in Blk /\ L[i].at \in Nat /\ L[i].size \in Nat /\ i \in DOMAIN L
  <1>1. L[i] \in Blk
    BY ElementOfSeq
  <1>2. i \in DOMAIN L
    OBVIOUS
  <1> QED BY <1>1, <1>2 DEF Blk

(* The sum of the sizes, one block more at a time.                         *)
LEMMA SizeOfIs ==
    ASSUME NEW L \in Seq(Blk)
    PROVE  \E f \in [0 .. Len(L) -> Nat] : /\ f[0] = 0
                                           /\ \A i \in 1 .. Len(L) : f[i] = f[i - 1] + L[i].size
                                           /\ SizeOf(L) = f[Len(L)]
  <1> DEFINE n == Len(L)
             S == [i \in 0 .. n |-> Nat]
             step == [xi \in Nat \X (1 .. n) |-> xi[1] + L[xi[2]].size]
             Rec(h) == h = [i \in 0 .. n |-> IF i = 0 THEN 0 ELSE h[i - 1] + L[i].size]
  <1>1. n \in Nat
    OBVIOUS
  <1>2. \A i \in 1 .. n : L[i].size \in Nat
    BY ElementIs
  <1> HIDE DEF n
  <1>3. ASSUME NEW i \in 1 .. n, NEW x \in S[i - 1]
        PROVE  step[<<x, i>>] \in S[i] /\ step[<<x, i>>] = x + L[i].size
    BY <1>1, <1>2, <1>3
  <1>4. 0 \in S[0]
    BY <1>1
  <1>5. PICK h : Iteration(n, 0, step, h) /\ StaysIn(n, S, h)
    <2>1. Leads(n, step, S)
      BY <1>3 DEF Leads
    <2> HIDE DEF S, step
    <2> QED BY <1>1, <1>4, <2>1, Iterated
  <1>6. \A i \in 1 .. n : i - 1 \in 0 .. n /\ h[i - 1] \in S[i - 1]
    <2>1. \A i \in 1 .. n : i - 1 \in 0 .. n
      BY <1>1
    <2> HIDE DEF S, step
    <2> QED BY <1>5, <2>1 DEF StaysIn
  <1>7. \A i \in 1 .. n : step[<<h[i - 1], i>>] = h[i - 1] + L[i].size
    <2> HIDE DEF S, step
    <2> QED BY <1>3, <1>6
  <1>8. Rec(h)
    <2> DEFINE g == [i \in 0 .. n |-> IF i = 0 THEN 0 ELSE h[i - 1] + L[i].size]
    <2>1. \A i \in 0 .. n : i = 0 \/ i \in 1 .. n
      BY <1>1
    <2>2. \A i \in 0 .. n : h[i] = g[i]
      <3> HIDE DEF step
      <3> QED BY <1>5, <1>7, <2>1 DEF Iteration
    <2> HIDE DEF step
    <2> QED BY <1>5, <2>2 DEF Iteration
  <1> DEFINE f == CHOOSE f : Rec(f)
  <1>9. Rec(f)
    <2> HIDE DEF Rec
    <2> QED BY <1>8
  <1>10. SizeOf(L) = f[n]
    BY Zenon DEF SizeOf, n
  <1> HIDE DEF f
  <1>11. f[0] = 0 /\ \A i \in 1 .. n : f[i] = f[i - 1] + L[i].size
    BY <1>1, <1>9
  <1> HIDE DEF Rec
  <1> DEFINE T == {j \in Nat : f[j] \in Nat}
  <1>12. \A i \in 0 .. n : i \in T
    <2>1. 0 \in T /\ \A i \in 1 .. n : i - 1 \in T => i \in T
      BY <1>2, <1>11
    <2> HIDE DEF T
    <2> QED BY <1>1, <2>1, Induction
  <1>13. f \in [0 .. n -> Nat]
    <2>1. DOMAIN f = 0 .. n /\ f = [i \in DOMAIN f |-> f[i]]
      BY <1>9 DEF Rec
    <2> QED BY <1>12, <2>1
  <1> QED BY <1>10, <1>11, <1>13 DEF n

(* The size of two lists, one after the other.                             *)
LEMMA SizeOfConcat ==
    ASSUME NEW P \in Seq(Blk), NEW Q \in Seq(Blk)
    PROVE  SizeOf(P \o Q) = SizeOf(P) + SizeOf(Q) /\ SizeOf(P) \in Nat
  <1> DEFINE n == Len(P)  m == Len(Q)  R == P \o Q
  <1>1. /\ n \in Nat /\ m \in Nat /\ R \in Seq(Blk) /\ Len(R) = n + m
        /\ \A i \in 1 .. n : R[i] = P[i]
        /\ \A i \in 1 .. m : R[n + i] = Q[i]
    BY ConcatProperties
  <1>2. PICK f \in [0 .. n -> Nat] : /\ f[0] = 0 /\ SizeOf(P) = f[n]
                                     /\ \A i \in 1 .. n : f[i] = f[i - 1] + P[i].size
    BY SizeOfIs
  <1>3. PICK g \in [0 .. m -> Nat] : /\ g[0] = 0 /\ SizeOf(Q) = g[m]
                                     /\ \A i \in 1 .. m : g[i] = g[i - 1] + Q[i].size
    BY SizeOfIs
  <1> HIDE DEF R
  <1>4. PICK h \in [0 .. n + m -> Nat] : /\ h[0] = 0 /\ SizeOf(R) = h[n + m]
                                         /\ \A i \in 1 .. n + m : h[i] = h[i - 1] + R[i].size
    <2>1. PICK h \in [0 .. Len(R) -> Nat] :
                 /\ h[0] = 0 /\ SizeOf(R) = h[Len(R)]
                 /\ \A i \in 1 .. Len(R) : h[i] = h[i - 1] + R[i].size
      BY <1>1, SizeOfIs
    <2> QED BY <1>1, <2>1
  <1> HIDE DEF n, m
  <1> DEFINE T == {j \in Nat : h[j] = f[j]}
  <1>5. \A i \in 0 .. n : i \in T
    <2>1. 0 \in T
      BY <1>1, <1>2, <1>4
    <2>2. ASSUME NEW i \in 1 .. n, i - 1 \in T PROVE i \in T
      <3>0. i \in 1 .. n + m
        <4>1. n \in Nat /\ m \in Nat
          BY <1>1
        <4> QED BY <4>1
      <3>1. h[i] = h[i - 1] + R[i].size /\ R[i] = P[i]
        <4>1. R[i] = P[i]
          BY <1>1
        <4> QED BY <1>4, <3>0, <4>1
      <3>2. f[i] = f[i - 1] + P[i].size /\ h[i - 1] = f[i - 1] /\ i \in Nat
        BY <1>1, <1>2, <2>2
      <3> QED BY <3>1, <3>2
    <2> HIDE DEF T
    <2> QED BY <1>1, <2>1, <2>2, Induction
  <1>6. h[n] = f[n] /\ f[n] \in Nat
    BY <1>1, <1>5
  <1> DEFINE T2 == {j \in Nat : h[n + j] = f[n] + g[j]}
  <1>7. \A i \in 0 .. m : i \in T2
    <2>1. 0 \in T2
      BY <1>1, <1>3, <1>6
    <2>2. ASSUME NEW i \in 1 .. m, i - 1 \in T2 PROVE i \in T2
      <3>1. /\ n + i \in 1 .. n + m /\ (n + i) - 1 = n + (i - 1)
            /\ i \in Nat /\ i - 1 \in 0 .. m
        BY <1>1
      <3>4. g[i] = g[i - 1] + Q[i].size /\ g[i - 1] \in Nat /\ R[n + i] = Q[i]
        BY <1>1, <1>3, <3>1
      <3>2. h[n + i] = h[n + (i - 1)] + Q[i].size
        <4>1. h[n + i] = h[(n + i) - 1] + R[n + i].size
          BY <1>4, <3>1
        <4> QED BY <3>1, <3>4, <4>1
      <3>3. Q[i].size \in Nat
        BY ElementIs DEF m
      <3>5. h[n + (i - 1)] = f[n] + g[i - 1]
        BY <2>2
      <3> QED BY <1>6, <3>1, <3>2, <3>3, <3>4, <3>5
    <2> HIDE DEF T2
    <2> QED BY <1>1, <2>1, <2>2, Induction
  <1>8. h[n + m] = f[n] + g[m]
    BY <1>1, <1>7
  <1> QED BY <1>2, <1>3, <1>4, <1>6, <1>8 DEF R

(* The size of a list of one block.                                        *)
LEMMA SizeOfOne ==
    ASSUME NEW b \in Blk
    PROVE  SizeOf(<<b>>) = b.size
  <1>1. <<b>> \in Seq(Blk) /\ Len(<<b>>) = 1 /\ <<b>>[1] = b
    OBVIOUS
  <1>2. PICK f \in [0 .. Len(<<b>>) -> Nat] :
               /\ f[0] = 0 /\ SizeOf(<<b>>) = f[Len(<<b>>)]
               /\ \A i \in 1 .. Len(<<b>>) : f[i] = f[i - 1] + <<b>>[i].size
    BY <1>1, SizeOfIs
  <1>3. b.size \in Nat
    BY DEF Blk
  <1> QED BY <1>1, <1>2, <1>3

-----------------------------------------------------------------------------
Chain(L) == \A i, j \in DOMAIN L : i < j => EndOf(L[i]) < L[j].at

(* A list L in the order of addresses, no two blocks touching, which tiles *)
(* the heap with the allocated blocks U.                                   *)
FreeList(L, U) ==
    L \in Seq(Blk) /\ Chain(L) /\ U \intersect ToSet(L) = {} /\ Tiled(U \union ToSet(L))

(* The state in the middle of an insertion: the blocks P, the block b      *)
(* being freed, the blocks Q behind it. Only b may touch its neighbours.   *)
Between(P, b, Q, U) ==
    /\ P \in Seq(Blk) /\ Q \in Seq(Blk) /\ b \in Blk /\ U \in SUBSET Blk
    /\ Chain(P) /\ Chain(Q)
    /\ \A i \in DOMAIN P : EndOf(P[i]) <= b.at
    /\ \A j \in DOMAIN Q : EndOf(b) <= Q[j].at
    /\ U \intersect (ToSet(P) \union ToSet(Q)) = {}
    /\ b \notin U \union ToSet(P) \union ToSet(Q)
    /\ Tiled(U \union ToSet(P) \union ToSet(Q) \union {b})

(* The blocks of a list are its elements.                                  *)
LEMMA ToSetIs ==
    ASSUME NEW L \in Seq(Blk)
    PROVE  /\ ToSet(L) \in SUBSET Blk
           /\ \A i \in 1 .. Len(L) : L[i] \in ToSet(L)
           /\ \A x \in ToSet(L) : \E i \in 1 .. Len(L) : x = L[i]
  <1>1. DOMAIN L = 1 .. Len(L)
    OBVIOUS
  <1>2. \A i \in 1 .. Len(L) : L[i] \in Blk
    BY ElementOfSeq
  <1> QED BY <1>1, <1>2 DEF ToSet

(* The blocks of two lists, one after the other.                           *)
LEMMA ToSetConcat ==
    ASSUME NEW P \in Seq(Blk), NEW Q \in Seq(Blk)
    PROVE  ToSet(P \o Q) = ToSet(P) \union ToSet(Q)
  <1> DEFINE R == P \o Q
  <1>1. /\ R \in Seq(Blk) /\ Len(R) = Len(P) + Len(Q)
        /\ \A i \in 1 .. Len(P) : R[i] = P[i]
        /\ \A i \in 1 .. Len(Q) : R[Len(P) + i] = Q[i]
        /\ Len(P) \in Nat /\ Len(Q) \in Nat
    BY ConcatProperties
  <1> HIDE DEF R
  <1>2. ASSUME NEW x \in ToSet(R) PROVE x \in ToSet(P) \union ToSet(Q)
    <2>1. PICK i \in 1 .. Len(R) : x = R[i]
      BY <1>1, ToSetIs
    <2>2. CASE i <= Len(P)
      <3>1. i \in 1 .. Len(P)
        BY <2>2
      <3> QED BY <1>1, <2>1, <3>1, ToSetIs
    <2>3. CASE i > Len(P)
      <3>1. i - Len(P) \in 1 .. Len(Q) /\ i = Len(P) + (i - Len(P))
        BY <1>1, <2>3
      <3>2. R[i] = Q[i - Len(P)]
        BY <1>1, <3>1
      <3> QED BY <2>1, <3>1, <3>2, ToSetIs
    <2> QED BY <1>1, <2>2, <2>3
  <1>3. ASSUME NEW x \in ToSet(P) PROVE x \in ToSet(R)
    <2>1. PICK i \in 1 .. Len(P) : x = P[i]
      BY ToSetIs
    <2>2. i \in 1 .. Len(R) /\ R[i] = x
      BY <1>1, <2>1
    <2> QED BY <1>1, <2>2, ToSetIs
  <1>4. ASSUME NEW x \in ToSet(Q) PROVE x \in ToSet(R)
    <2>1. PICK i \in 1 .. Len(Q) : x = Q[i]
      BY ToSetIs
    <2>2. Len(P) + i \in 1 .. Len(R) /\ R[Len(P) + i] = x
      BY <1>1, <2>1
    <2> QED BY <1>1, <2>2, ToSetIs
  <1> QED BY <1>2, <1>3, <1>4 DEF R

(* The block of a list of one.                                             *)
LEMMA ToSetOne == ASSUME NEW b \in Blk PROVE <<b>> \in Seq(Blk) /\ ToSet(<<b>>) = {b}
  BY DEF ToSet

(* Two ordered lists, the first before the second, are an ordered list.    *)
LEMMA ChainConcat ==
    ASSUME NEW P \in Seq(Blk), NEW Q \in Seq(Blk), Chain(P), Chain(Q),
           \A i \in DOMAIN P, j \in DOMAIN Q : EndOf(P[i]) < Q[j].at
    PROVE  Chain(P \o Q)
  <1> DEFINE R == P \o Q
  <1>1. /\ R \in Seq(Blk) /\ Len(R) = Len(P) + Len(Q)
        /\ \A i \in 1 .. Len(P) : R[i] = P[i]
        /\ \A i \in 1 .. Len(Q) : R[Len(P) + i] = Q[i]
        /\ Len(P) \in Nat /\ Len(Q) \in Nat
        /\ DOMAIN P = 1 .. Len(P) /\ DOMAIN Q = 1 .. Len(Q)
    BY ConcatProperties
  <1> HIDE DEF R
  <1>2. DOMAIN R = 1 .. Len(R)
    BY <1>1
  <1>3. ASSUME NEW i \in DOMAIN R, NEW j \in DOMAIN R, i < j PROVE EndOf(R[i]) < R[j].at
    <2>1. CASE j <= Len(P)
      <3>1. i \in 1 .. Len(P) /\ j \in 1 .. Len(P)
        BY <1>1, <1>2, <1>3, <2>1
      <3> QED BY <1>1, <1>3, <3>1 DEF Chain
    <2>2. CASE i > Len(P)
      <3> DEFINE k == i - Len(P)  l == j - Len(P)
      <3>1. k \in 1 .. Len(Q) /\ l \in 1 .. Len(Q) /\ k < l /\ i = Len(P) + k /\ j = Len(P) + l
        BY <1>1, <1>2, <1>3, <2>2
      <3> HIDE DEF k, l
      <3> QED BY <1>1, <3>1 DEF Chain
    <2>3. CASE i <= Len(P) /\ j > Len(P)
      <3> DEFINE l == j - Len(P)
      <3>1. i \in 1 .. Len(P) /\ l \in 1 .. Len(Q) /\ j = Len(P) + l
        BY <1>1, <1>2, <1>3, <2>3
      <3> HIDE DEF l
      <3> QED BY <1>1, <3>1
    <2> QED BY <1>1, <1>2, <1>3, <2>1, <2>2, <2>3
  <1> QED BY <1>3 DEF Chain, R

(* What is known of each block of a list that is part of a tiling.         *)
LEMMA BlocksAre ==
    ASSUME NEW L \in Seq(Blk), NEW U, Tiled(U), ToSet(L) \in SUBSET U
    PROVE  \A i \in DOMAIN L : /\ i \in 1 .. Len(L) /\ L[i] \in Blk /\ L[i] \in U
                               /\ L[i].at \in Nat /\ L[i].size \in Nat /\ L[i].size > 0
                               /\ EndOf(L[i]) = L[i].at + L[i].size
  <1>1. DOMAIN L = 1 .. Len(L)
    OBVIOUS
  <1>2. ASSUME NEW i \in 1 .. Len(L)
        PROVE  /\ L[i] \in Blk /\ L[i] \in U /\ L[i].at \in Nat /\ L[i].size \in Nat
               /\ L[i].size > 0 /\ EndOf(L[i]) = L[i].at + L[i].size
    <2>1. L[i] \in Blk /\ L[i] \in U
      BY ToSetIs
    <2> QED BY <2>1 DEF Blk, Tiled, EndOf
  <1> QED BY <1>1, <1>2

(* A sequence in two parts.                                                *)
LEMMA Parts ==
    ASSUME NEW S, NEW L \in Seq(S), NEW k \in 0 .. Len(L)
    PROVE  LET P == SubSeq(L, 1, k)
               Q == SubSeq(L, k + 1, Len(L))
           IN  /\ P \in Seq(S) /\ Len(P) = k /\ \A i \in 1 .. k : P[i] = L[i]
               /\ Q \in Seq(S) /\ Len(Q) = Len(L) - k
               /\ \A i \in 1 .. Len(L) - k : Q[i] = L[k + i]
               /\ P \o Q = L
  <1> DEFINE n == Len(L)
             P == SubSeq(L, 1, k)
             Q == SubSeq(L, k + 1, n)
  <1>1. n \in Nat /\ k \in 0 .. n /\ \A i \in 1 .. n : L[i] \in S
    BY ElementOfSeq
  <1>2. /\ P \in Seq(S) /\ Len(P) = IF 1 <= k THEN k - 1 + 1 ELSE 0
        /\ \A i \in 1 .. k - 1 + 1 : P[i] = L[1 + i - 1]
    <2>1. 1 \in Int /\ k \in Int /\ \A i \in 1 .. k : L[i] \in S
      BY <1>1
    <2> QED BY <2>1, SubSeqProperties
  <1>3. /\ Q \in Seq(S) /\ Len(Q) = IF k + 1 <= n THEN n - (k + 1) + 1 ELSE 0
        /\ \A i \in 1 .. n - (k + 1) + 1 : Q[i] = L[(k + 1) + i - 1]
    <2>1. n \in Int /\ k + 1 \in Int /\ \A i \in k + 1 .. n : L[i] \in S
      BY <1>1
    <2> HIDE DEF n
    <2> QED BY <2>1, SubSeqProperties
  <1>4. P \o Q = L
    <2>1. SubSeq(L, 1, k) \o SubSeq(L, k + 1, Len(L)) = SubSeq(L, 1, Len(L))
      <3>1. /\ 1 \in 1 .. Len(L) + 1 /\ k \in 1 - 1 .. Len(L) /\ Len(L) \in k .. Len(L)
        BY <1>1
      <3> QED BY <3>1, ConcatAdjacentSubSeq
    <2> QED BY <2>1, SubSeqFull
  <1> HIDE DEF n, P, Q
  <1>5. Len(P) = k /\ \A i \in 1 .. k : P[i] = L[i]
    <2>1. Len(P) = k
      BY <1>1, <1>2
    <2>2. ASSUME NEW i \in 1 .. k PROVE P[i] = L[i]
      <3>1. i \in 1 .. k - 1 + 1 /\ 1 + i - 1 = i
        BY <1>1
      <3> QED BY <1>2, <3>1
    <2> QED BY <2>1, <2>2
  <1>6. Len(Q) = n - k /\ \A i \in 1 .. n - k : Q[i] = L[k + i]
    <2>1. Len(Q) = n - k
      BY <1>1, <1>3
    <2>2. ASSUME NEW i \in 1 .. n - k PROVE Q[i] = L[k + i]
      <3>1. i \in 1 .. n - (k + 1) + 1 /\ (k + 1) + i - 1 = k + i
        BY <1>1
      <3> QED BY <1>3, <3>1
    <2> QED BY <2>1, <2>2
  <1> QED BY <1>2, <1>3, <1>4, <1>5, <1>6 DEF n, P, Q

(* An ordered list is its first block and an ordered list behind it.       *)
LEMMA HeadAndTail ==
    ASSUME NEW L \in Seq(Blk), L # <<>>, Chain(L),
           \A i \in DOMAIN L : /\ L[i].at \in Nat /\ L[i].size \in Nat /\ L[i].size > 0
                               /\ EndOf(L[i]) = L[i].at + L[i].size
    PROVE  /\ Head(L) \in Blk /\ Tail(L) \in Seq(Blk) /\ Chain(Tail(L))
           /\ Head(L) = L[1] /\ 1 \in DOMAIN L
           /\ ToSet(L) = {Head(L)} \union ToSet(Tail(L))
           /\ Head(L) \notin ToSet(Tail(L))
           /\ \A j \in DOMAIN Tail(L) : EndOf(Head(L)) < Tail(L)[j].at
           /\ \A j \in DOMAIN Tail(L) : j + 1 \in DOMAIN L /\ Tail(L)[j] = L[j + 1]
           /\ SizeOf(L) = Head(L).size + SizeOf(Tail(L))
  <1>1. /\ Head(L) \in Blk /\ Tail(L) \in Seq(Blk) /\ Len(Tail(L)) = Len(L) - 1
        /\ \A i \in 1 .. Len(Tail(L)) : Tail(L)[i] = L[i + 1]
    BY HeadTailProperties
  <1> DEFINE T == Tail(L)
  <1> HIDE DEF T
  <1>2. /\ Len(L) \in Nat /\ DOMAIN L = 1 .. Len(L) /\ 1 \in DOMAIN L /\ Head(L) = L[1]
        /\ T \in Seq(Blk) /\ DOMAIN T = 1 .. Len(T) /\ Len(T) = Len(L) - 1
        /\ \A i \in DOMAIN T : i \in Nat /\ i + 1 \in DOMAIN L /\ 1 < i + 1 /\ T[i] = L[i + 1]
    <2>1. Len(L) \in Nat /\ Len(L) # 0
      BY EmptySeq
    <2>2. T \in Seq(Blk) /\ Len(T) = Len(L) - 1 /\ \A i \in 1 .. Len(T) : T[i] = L[i + 1]
      BY <1>1 DEF T
    <2>3. DOMAIN L = 1 .. Len(L) /\ Head(L) = L[1]
      OBVIOUS
    <2>4. DOMAIN T = 1 .. Len(T)
      BY <2>2
    <2> QED BY <2>1, <2>2, <2>3, <2>4
  <1>3. ASSUME NEW j \in DOMAIN T PROVE EndOf(L[1]) < T[j].at
    <2>1. 1 \in DOMAIN L /\ j + 1 \in DOMAIN L /\ 1 < j + 1 /\ T[j] = L[j + 1]
      BY <1>2
    <2> QED BY <2>1 DEF Chain
  <1>4. Chain(T)
    BY <1>2 DEF Chain
  <1>5. L = <<Head(L)>> \o T
    <2>1. SubSeq(L, 1, Len(L)) = <<L[1]>> \o SubSeq(L, 2, Len(L))
      <3>1. 1 \in 1 .. Len(L) /\ Len(L) \in 1 .. Len(L) /\ 1 + 1 = 2
        BY <1>2
      <3> QED BY <3>1, SubSeqRecursiveFirst
    <2>2. SubSeq(L, 1, Len(L)) = L
      BY SubSeqFull
    <2>3. SubSeq(L, 2, Len(L)) = T
      BY TailIsSubSeq DEF T
    <2> QED BY <1>2, <2>1, <2>2, <2>3
  <1>6. ToSet(L) = {Head(L)} \union ToSet(T)
    <2>1. <<Head(L)>> \in Seq(Blk) /\ ToSet(<<Head(L)>>) = {Head(L)}
      BY <1>1, ToSetOne
    <2>2. ToSet(<<Head(L)>> \o T) = ToSet(<<Head(L)>>) \union ToSet(T)
      BY <1>2, <2>1, ToSetConcat
    <2> QED BY <1>5, <2>1, <2>2
  <1>7. SizeOf(L) = Head(L).size + SizeOf(T)
    <2>1. <<Head(L)>> \in Seq(Blk) /\ SizeOf(<<Head(L)>>) = Head(L).size
      BY <1>1, ToSetOne, SizeOfOne
    <2>2. SizeOf(<<Head(L)>> \o T) = SizeOf(<<Head(L)>>) + SizeOf(T)
      BY <1>2, <2>1, SizeOfConcat
    <2> QED BY <1>5, <2>1, <2>2
  <1>8. Head(L) \notin ToSet(T)
    <2>1. ASSUME Head(L) \in ToSet(T) PROVE FALSE
      <3>1. PICK j \in 1 .. Len(T) : Head(L) = T[j]
        BY <1>2, <2>1, ToSetIs
      <3>2. j \in DOMAIN T /\ T[j] = L[1]
        BY <1>2, <3>1
      <3> QED BY <1>2, <1>3, <3>2
    <2> QED BY <2>1
  <1> QED BY <1>1, <1>2, <1>3, <1>4, <1>6, <1>7, <1>8 DEF T

(* An ordered list is its last block and an ordered list before it.        *)
LEMMA FrontAndLast ==
    ASSUME NEW L \in Seq(Blk), L # <<>>, Chain(L),
           \A i \in DOMAIN L : /\ L[i].at \in Nat /\ L[i].size \in Nat /\ L[i].size > 0
                               /\ EndOf(L[i]) = L[i].at + L[i].size
    PROVE  /\ Last(L) \in Blk /\ Front(L) \in Seq(Blk) /\ Chain(Front(L))
           /\ Last(L) = L[Len(L)] /\ Len(L) \in DOMAIN L
           /\ ToSet(L) = ToSet(Front(L)) \union {Last(L)}
           /\ Last(L) \notin ToSet(Front(L))
           /\ \A j \in DOMAIN Front(L) : EndOf(Front(L)[j]) < Last(L).at
           /\ \A j \in DOMAIN Front(L) : j \in DOMAIN L /\ Front(L)[j] = L[j]
           /\ SizeOf(L) = SizeOf(Front(L)) + Last(L).size
  <1> DEFINE T == SubSeq(L, 1, Len(L) - 1)
  <1>1. /\ Front(L) = T /\ Last(L) = L[Len(L)]
    BY DEF Front, Last
  <1>0. Len(L) \in Nat /\ Len(L) # 0 /\ DOMAIN L = 1 .. Len(L)
    BY EmptySeq
  <1>2. /\ T \in Seq(Blk) /\ Len(T) = Len(L) - 1
        /\ \A i \in 1 .. Len(L) - 1 : T[i] = L[i]
    <2>1. Len(L) - 1 \in 0 .. Len(L)
      BY <1>0
    <2> QED BY <2>1, Parts
  <1> HIDE DEF T
  <1>3. DOMAIN T = 1 .. Len(T)
    BY <1>2
  <1>4. Len(L) \in DOMAIN L /\ L[Len(L)] \in Blk
    BY <1>0, ElementIs
  <1>5. \A j \in DOMAIN T : j \in DOMAIN L /\ j < Len(L) /\ T[j] = L[j]
    BY <1>0, <1>2, <1>3
  <1>6. \A j \in DOMAIN T : EndOf(T[j]) < L[Len(L)].at
    BY <1>4, <1>5 DEF Chain
  <1>7. Chain(T)
    BY <1>5 DEF Chain
  <1>8. L = T \o <<Last(L)>>
    <2>1. SubSeq(L, 1, Len(L)) = SubSeq(L, 1, Len(L) - 1) \o <<L[Len(L)]>>
      <3>1. 1 \in 1 .. Len(L) /\ Len(L) \in 1 .. Len(L)
        BY <1>0
      <3> QED BY <3>1, SubSeqRecursiveSecond
    <2>2. SubSeq(L, 1, Len(L)) = L
      BY SubSeqFull
    <2> QED BY <1>1, <2>1, <2>2 DEF T
  <1>9. /\ <<Last(L)>> \in Seq(Blk) /\ ToSet(<<Last(L)>>) = {Last(L)}
        /\ SizeOf(<<Last(L)>>) = Last(L).size
    BY <1>1, <1>4, ToSetOne, SizeOfOne
  <1>10. ToSet(L) = ToSet(T) \union {Last(L)}
    <2>2. ToSet(T \o <<Last(L)>>) = ToSet(T) \union ToSet(<<Last(L)>>)
      BY <1>2, <1>9, ToSetConcat
    <2> QED BY <1>8, <1>9, <2>2
  <1>11. SizeOf(L) = SizeOf(T) + Last(L).size
    <2>2. SizeOf(T \o <<Last(L)>>) = SizeOf(T) + SizeOf(<<Last(L)>>)
      BY <1>2, <1>9, SizeOfConcat
    <2> QED BY <1>8, <1>9, <2>2
  <1>12. Last(L) \notin ToSet(T)
    <2>1. ASSUME Last(L) \in ToSet(T) PROVE FALSE
      <3>0. PICK j \in 1 .. Len(T) : Last(L) = T[j]
        BY <1>2, <2>1, ToSetIs
      <3>1. j \in DOMAIN T /\ T[j] = L[Len(L)]
        BY <1>1, <1>3, <3>0
      <3>2. EndOf(L[Len(L)]) < L[Len(L)].at
        BY <1>6, <3>1
      <3> QED BY <1>4, <3>2
    <2> QED BY <2>1
  <1> QED BY <1>1, <1>2, <1>4, <1>5, <1>6, <1>7, <1>10, <1>11, <1>12

(* What is known of each block in the middle of an insertion.              *)
LEMMA BetweenBlocks ==
    ASSUME NEW P, NEW b, NEW Q, NEW U, Between(P, b, Q, U)
    PROVE  /\ b.at \in Nat /\ b.size \in Nat /\ b.size > 0 /\ EndOf(b) = b.at + b.size
           /\ \A i \in DOMAIN P : /\ P[i].at \in Nat /\ P[i].size \in Nat /\ P[i].size > 0
                                  /\ EndOf(P[i]) = P[i].at + P[i].size
           /\ \A i \in DOMAIN Q : /\ Q[i].at \in Nat /\ Q[i].size \in Nat /\ Q[i].size > 0
                                  /\ EndOf(Q[i]) = Q[i].at + Q[i].size
           /\ ToSet(P) \in SUBSET Blk /\ ToSet(Q) \in SUBSET Blk
  <1> DEFINE W == U \union ToSet(P) \union ToSet(Q) \union {b}
  <1>1. Tiled(W) /\ P \in Seq(Blk) /\ Q \in Seq(Blk) /\ b \in Blk /\ b \in W
        /\ ToSet(P) \in SUBSET W /\ ToSet(Q) \in SUBSET W
    BY DEF Between
  <1> HIDE DEF W
  <1>2. b.at \in Nat /\ b.size \in Nat /\ b.size > 0 /\ EndOf(b) = b.at + b.size
    BY <1>1 DEF Blk, Tiled, EndOf
  <1> QED BY <1>1, <1>2, BlocksAre, ToSetIs

(* The block that is put in its place touches none before it any more.     *)
LEMMA WithNextFits ==
    ASSUME NEW P, NEW b, NEW Q, NEW U, Between(P, b, Q, U),
           \A i \in DOMAIN P : EndOf(P[i]) < b.at
    PROVE  /\ FreeList(WithNext(P, b, Q), U)
           /\ SizeOf(WithNext(P, b, Q)) = SizeOf(P) + b.size + SizeOf(Q)
  <1>1. /\ b.at \in Nat /\ b.size \in Nat /\ b.size > 0 /\ EndOf(b) = b.at + b.size
        /\ \A i \in DOMAIN P : /\ P[i].at \in Nat /\ P[i].size \in Nat /\ P[i].size > 0
                               /\ EndOf(P[i]) = P[i].at + P[i].size
        /\ \A i \in DOMAIN Q : /\ Q[i].at \in Nat /\ Q[i].size \in Nat /\ Q[i].size > 0
                               /\ EndOf(Q[i]) = Q[i].at + Q[i].size
        /\ ToSet(P) \in SUBSET Blk /\ ToSet(Q) \in SUBSET Blk
    BY BetweenBlocks
  <1>2. /\ P \in Seq(Blk) /\ Q \in Seq(Blk) /\ b \in Blk /\ U \in SUBSET Blk
        /\ Chain(P) /\ Chain(Q)
        /\ \A j \in DOMAIN Q : EndOf(b) <= Q[j].at
    BY DEF Between
  <1>3. ASSUME NEW c \in Blk, NEW R \in Seq(Blk), Chain(R), c.at = b.at,
               \A j \in DOMAIN R : EndOf(c) < R[j].at,
               U \intersect ToSet(R) = {}, c \notin U,
               Tiled(U \union ToSet(P) \union {c} \union ToSet(R))
        PROVE  /\ FreeList(P \o <<c>> \o R, U)
               /\ SizeOf(P \o <<c>> \o R) = SizeOf(P) + c.size + SizeOf(R)
    <2>1. /\ <<c>> \in Seq(Blk) /\ ToSet(<<c>>) = {c} /\ SizeOf(<<c>>) = c.size
          /\ DOMAIN <<c>> = {1} /\ <<c>>[1] = c
      BY ToSetOne, SizeOfOne
    <2>2. Chain(<<c>>)
      BY <2>1 DEF Chain
    <2>3. c.at \in Nat /\ c.size \in Nat /\ c.size > 0 /\ EndOf(c) = c.at + c.size
      BY <1>3 DEF Blk, Tiled, EndOf
    <2> DEFINE H == P \o <<c>>
    <2>4. H \in Seq(Blk) /\ Chain(H) /\ ToSet(H) = ToSet(P) \union {c}
          /\ SizeOf(H) = SizeOf(P) + c.size
      <3>1. \A i \in DOMAIN P, j \in DOMAIN <<c>> : EndOf(P[i]) < <<c>>[j].at
        BY <1>3, <2>1
      <3> QED BY <1>2, <2>1, <2>2, <3>1, ConcatProperties, ChainConcat, ToSetConcat, SizeOfConcat
    <2> HIDE DEF H
    <2>5. \A i \in DOMAIN H, j \in DOMAIN R : EndOf(H[i]) < R[j].at
      <3>1. ASSUME NEW i \in DOMAIN H, NEW j \in DOMAIN R PROVE EndOf(H[i]) < R[j].at
        <4>1. H[i] \in ToSet(P) \union {c}
          BY <2>4 DEF ToSet
        <4>2. EndOf(c) < R[j].at /\ R[j].at \in Nat
          <5>1. R[j] \in Blk
            BY <1>3
          <5> QED BY <1>3, <5>1 DEF Blk
        <4>3. CASE H[i] = c
          BY <4>2, <4>3
        <4>4. CASE H[i] \in ToSet(P)
          <5>1. PICK k \in DOMAIN P : H[i] = P[k]
            BY <4>4 DEF ToSet
          <5>2. EndOf(H[i]) < c.at /\ EndOf(H[i]) \in Nat
            BY <1>1, <1>3, <5>1
          <5> QED BY <2>3, <4>2, <5>2
        <4> QED BY <4>1, <4>3, <4>4
      <3> QED BY <3>1
    <2>6. H \o R \in Seq(Blk) /\ Chain(H \o R) /\ ToSet(H \o R) = ToSet(H) \union ToSet(R)
          /\ SizeOf(H \o R) = SizeOf(H) + SizeOf(R)
      BY <1>3, <2>4, <2>5, ConcatProperties, ChainConcat, ToSetConcat, SizeOfConcat
    <2>7. U \intersect ToSet(H \o R) = {}
      BY <1>3, <2>4, <2>6 DEF Between
    <2>8. U \union ToSet(H \o R) = U \union ToSet(P) \union {c} \union ToSet(R)
      BY <2>4, <2>6
    <2>9. FreeList(H \o R, U)
      BY <1>3, <2>6, <2>7, <2>8 DEF FreeList
    <2> QED BY <2>4, <2>6, <2>9 DEF H
  <1>4. CASE Q # <<>> /\ EndOf(b) = Head(Q).at
    <2> DEFINE h == Head(Q)  R == Tail(Q)  c == Block(b.at, b.size + h.size)
               X == U \union ToSet(P) \union ToSet(R)
    <2>1. /\ h \in Blk /\ R \in Seq(Blk) /\ Chain(R) /\ h = Q[1] /\ 1 \in DOMAIN Q
          /\ ToSet(Q) = {h} \union ToSet(R) /\ h \notin ToSet(R)
          /\ \A j \in DOMAIN R : EndOf(h) < R[j].at
          /\ SizeOf(Q) = h.size + SizeOf(R)
      BY <1>1, <1>2, <1>4, HeadAndTail
    <2>2. WithNext(P, b, Q) = P \o <<c>> \o R
      BY <1>4 DEF WithNext
    <2>3. EndOf(b) = h.at
      BY <1>4
    <2>4. h.at \in Nat /\ h.size \in Nat /\ h.size > 0 /\ EndOf(h) = h.at + h.size
      BY <1>1, <2>1
    <2> HIDE DEF h, R
    <2>5. h # b /\ h \notin ToSet(P)
      <3>1. h.at # b.at
        BY <1>1, <2>3, <2>4
      <3>2. ASSUME h \in ToSet(P) PROVE FALSE
        <4>1. PICK i \in DOMAIN P : h = P[i]
          BY <3>2 DEF ToSet
        <4>2. EndOf(h) < b.at
          BY <4>1
        <4> QED BY <1>1, <2>3, <2>4, <4>2
      <3> QED BY <3>1, <3>2
    <2>6. h \notin X /\ b \notin X /\ X \in SUBSET Blk
          /\ X \union {b, h} = U \union ToSet(P) \union ToSet(Q) \union {b}
      BY <1>1, <1>2, <2>1, <2>5 DEF Between
    <2>7. c \in Blk /\ c \notin X /\ Tiled(X \union {c})
      <3>1. Tiled(X \union {b, h})
        BY <2>6 DEF Between
      <3> HIDE DEF X
      <3> QED BY <1>2, <2>1, <2>3, <2>5, <2>6, <3>1, TiledMerge
    <2>8. c.at = b.at /\ c.size = b.size + h.size /\ EndOf(c) = EndOf(h)
      <3>1. b.size + h.size \in Nat
        BY <1>1, <2>4
      <3>2. c.at = b.at /\ c.size = b.size + h.size
        BY <1>1, <3>1, BlockIs
      <3> QED BY <1>1, <2>3, <2>4, <3>2 DEF EndOf
    <2>9. X \union {c} = U \union ToSet(P) \union {c} \union ToSet(R)
      OBVIOUS
    <2>10. U \intersect ToSet(R) = {} /\ c \notin U
      BY <2>1, <2>7 DEF Between
    <2> HIDE DEF c, X
    <2>11. /\ FreeList(P \o <<c>> \o R, U)
           /\ SizeOf(P \o <<c>> \o R) = SizeOf(P) + c.size + SizeOf(R)
      BY <1>3, <2>1, <2>7, <2>8, <2>9, <2>10
    <2>12. SizeOf(P) \in Nat /\ SizeOf(R) \in Nat
      BY <1>2, <2>1, SizeOfConcat
    <2> QED BY <1>1, <2>1, <2>2, <2>4, <2>8, <2>11, <2>12
  <1>5. CASE ~(Q # <<>> /\ EndOf(b) = Head(Q).at)
    <2>1. WithNext(P, b, Q) = P \o <<b>> \o Q
      BY <1>5 DEF WithNext
    <2>2. ASSUME NEW j \in DOMAIN Q PROVE EndOf(b) < Q[j].at
      <3>1. Q # <<>>
        OBVIOUS
      <3>2. /\ Head(Q) = Q[1] /\ 1 \in DOMAIN Q
        BY <1>1, <1>2, <3>1, HeadAndTail
      <3>3. EndOf(b) < Q[1].at
        <4>1. EndOf(b) <= Q[1].at /\ EndOf(b) # Q[1].at
          BY <1>2, <1>5, <3>1, <3>2
        <4>2. EndOf(b) \in Nat /\ Q[1].at \in Nat
          BY <1>1, <3>2
        <4> QED BY <4>1, <4>2
      <3>4. j = 1 \/ 1 < j
        BY <1>2
      <3>5. 1 < j => EndOf(Q[1]) < Q[j].at
        BY <1>2, <3>2 DEF Chain
      <3> QED BY <1>1, <3>2, <3>3, <3>4, <3>5
    <2>3. U \union ToSet(P) \union {b} \union ToSet(Q)
             = U \union ToSet(P) \union ToSet(Q) \union {b}
      OBVIOUS
    <2>4. /\ U \intersect ToSet(Q) = {} /\ b \notin U
          /\ Tiled(U \union ToSet(P) \union {b} \union ToSet(Q))
      BY <2>3 DEF Between
    <2> QED BY <1>2, <1>3, <2>1, <2>2, <2>4
  <1> QED BY <1>4, <1>5

(* When it touches the block before it they become one, in the place of    *)
(* that block.                                                             *)
LEMMA MergePrevious ==
    ASSUME NEW P, NEW b, NEW Q, NEW U, Between(P, b, Q, U), P # <<>>, EndOf(Last(P)) = b.at
    PROVE  LET c == AppendedTo(Last(P), b)
           IN  /\ Between(Front(P), c, Q, U)
               /\ \A i \in DOMAIN Front(P) : EndOf(Front(P)[i]) < c.at
               /\ c.size = Last(P).size + b.size
               /\ SizeOf(P) = SizeOf(Front(P)) + Last(P).size
  <1> DEFINE a == Last(P)  F == Front(P)  c == Block(a.at, a.size + b.size)
             X == U \union ToSet(F) \union ToSet(Q)
  <1>1. /\ b.at \in Nat /\ b.size \in Nat /\ b.size > 0 /\ EndOf(b) = b.at + b.size
        /\ \A i \in DOMAIN P : /\ P[i].at \in Nat /\ P[i].size \in Nat /\ P[i].size > 0
                               /\ EndOf(P[i]) = P[i].at + P[i].size
        /\ \A i \in DOMAIN Q : /\ Q[i].at \in Nat /\ Q[i].size \in Nat /\ Q[i].size > 0
                               /\ EndOf(Q[i]) = Q[i].at + Q[i].size
        /\ ToSet(P) \in SUBSET Blk /\ ToSet(Q) \in SUBSET Blk
    BY BetweenBlocks
  <1>2. /\ P \in Seq(Blk) /\ Q \in Seq(Blk) /\ b \in Blk /\ U \in SUBSET Blk
        /\ Chain(P) /\ Chain(Q)
        /\ \A i \in DOMAIN P : EndOf(P[i]) <= b.at
        /\ \A j \in DOMAIN Q : EndOf(b) <= Q[j].at
    BY DEF Between
  <1>3. /\ a \in Blk /\ F \in Seq(Blk) /\ Chain(F) /\ a = P[Len(P)] /\ Len(P) \in DOMAIN P
        /\ ToSet(P) = ToSet(F) \union {a} /\ a \notin ToSet(F)
        /\ \A j \in DOMAIN F : EndOf(F[j]) < a.at
        /\ \A j \in DOMAIN F : j \in DOMAIN P /\ F[j] = P[j]
        /\ SizeOf(P) = SizeOf(F) + a.size
    BY <1>1, <1>2, FrontAndLast
  <1>4. /\ a.at \in Nat /\ a.size \in Nat /\ a.size > 0 /\ EndOf(a) = a.at + a.size
        /\ EndOf(a) = b.at
    BY <1>1, <1>3
  <1>5. AppendedTo(Last(P), b) = c
    BY DEF AppendedTo
  <1> HIDE DEF a, F
  <1>6. c.at = a.at /\ c.size = a.size + b.size /\ EndOf(c) = EndOf(b) /\ c \in Blk
    <2>1. a.size + b.size \in Nat
      BY <1>1, <1>4
    <2>2. c.at = a.at /\ c.size = a.size + b.size /\ c \in Blk
      BY <1>4, <2>1, BlockIs
    <2> QED BY <1>1, <1>4, <2>2 DEF EndOf
  <1>7. /\ a \notin X /\ b \notin X /\ a # b /\ X \in SUBSET Blk
        /\ X \union {a, b} = U \union ToSet(P) \union ToSet(Q) \union {b}
    <2>1. /\ a \notin U /\ b \notin U /\ b \notin ToSet(P) /\ b \notin ToSet(Q)
          /\ ToSet(F) \in SUBSET Blk
      BY <1>1, <1>3 DEF Between
    <2>2. a # b
      BY <1>1, <1>4
    <2>3. ASSUME a \in ToSet(Q) PROVE FALSE
      <3>1. PICK j \in DOMAIN Q : a = Q[j]
        BY <2>3 DEF ToSet
      <3> QED BY <1>1, <1>2, <1>4, <3>1
    <2> QED BY <1>1, <1>2, <1>3, <2>1, <2>2, <2>3
  <1>8. c \notin X /\ Tiled(X \union {c})
    <2>1. Tiled(X \union {a, b})
      BY <1>7 DEF Between
    <2> HIDE DEF X
    <2> QED BY <1>2, <1>3, <1>4, <1>7, <2>1, TiledMerge
  <1> HIDE DEF c
  <1>9. \A i \in DOMAIN F : EndOf(F[i]) < c.at /\ EndOf(F[i]) <= c.at
    <2>1. ASSUME NEW i \in DOMAIN F PROVE EndOf(F[i]) < c.at /\ EndOf(F[i]) <= c.at
      <3>1. EndOf(F[i]) \in Nat
        BY <1>1, <1>3
      <3> QED BY <1>3, <1>4, <1>6, <3>1
    <2> QED BY <2>1
  <1>10. \A j \in DOMAIN Q : EndOf(c) <= Q[j].at
    BY <1>2, <1>6
  <1>11. U \intersect (ToSet(F) \union ToSet(Q)) = {}
    BY <1>3 DEF Between
  <1>12. Between(F, c, Q, U)
    BY <1>2, <1>3, <1>6, <1>8, <1>9, <1>10, <1>11 DEF Between
  <1> QED BY <1>3, <1>5, <1>6, <1>9, <1>12 DEF a, F

(* With both merges done, the list is in order and has the sizes of all    *)
(* its parts.                                                              *)
LEMMA WithBothFits ==
    ASSUME NEW P, NEW b, NEW Q, NEW U, Between(P, b, Q, U)
    PROVE  /\ FreeList(WithBoth(P, b, Q), U)
           /\ SizeOf(WithBoth(P, b, Q)) = SizeOf(P) + b.size + SizeOf(Q)
  <1>1. /\ b.at \in Nat /\ b.size \in Nat
        /\ \A i \in DOMAIN P : /\ P[i].at \in Nat /\ P[i].size \in Nat /\ P[i].size > 0
                               /\ EndOf(P[i]) = P[i].at + P[i].size
    BY BetweenBlocks
  <1>2. /\ P \in Seq(Blk) /\ Q \in Seq(Blk) /\ Chain(P)
        /\ \A i \in DOMAIN P : EndOf(P[i]) <= b.at
    BY DEF Between
  <1>3. CASE P # <<>> /\ EndOf(Last(P)) = b.at
    <2> DEFINE c == AppendedTo(Last(P), b)  F == Front(P)
    <2>1. /\ Between(F, c, Q, U)
          /\ \A i \in DOMAIN F : EndOf(F[i]) < c.at
          /\ c.size = Last(P).size + b.size
          /\ SizeOf(P) = SizeOf(F) + Last(P).size
      BY <1>3, MergePrevious
    <2>2. WithBoth(P, b, Q) = WithNext(F, c, Q)
      BY <1>3 DEF WithBoth
    <2>3. F \in Seq(Blk) /\ Last(P).size \in Nat
      BY <1>1, <1>2, <1>3, FrontAndLast
    <2>4. SizeOf(F) \in Nat /\ SizeOf(Q) \in Nat
      BY <1>2, <2>3, SizeOfConcat
    <2> HIDE DEF c, F
    <2>5. /\ FreeList(WithNext(F, c, Q), U)
          /\ SizeOf(WithNext(F, c, Q)) = SizeOf(F) + c.size + SizeOf(Q)
      BY <2>1, WithNextFits
    <2> QED BY <1>1, <2>1, <2>2, <2>3, <2>4, <2>5
  <1>4. CASE ~(P # <<>> /\ EndOf(Last(P)) = b.at)
    <2>1. WithBoth(P, b, Q) = WithNext(P, b, Q)
      BY <1>4 DEF WithBoth
    <2>2. ASSUME NEW i \in DOMAIN P PROVE EndOf(P[i]) < b.at
      <3>1. P # <<>>
        OBVIOUS
      <3>2. Last(P) = P[Len(P)] /\ Len(P) \in DOMAIN P
        BY <1>1, <1>2, <3>1, FrontAndLast
      <3>3. EndOf(P[Len(P)]) < b.at
        <4>1. EndOf(P[Len(P)]) <= b.at /\ EndOf(P[Len(P)]) # b.at
          BY <1>2, <1>4, <3>1, <3>2
        <4>2. EndOf(P[Len(P)]) \in Nat
          BY <1>1, <3>2
        <4> QED BY <1>1, <4>1, <4>2
      <3>4. i = Len(P) \/ i < Len(P)
        BY <1>2
      <3>5. i < Len(P) => EndOf(P[i]) < P[Len(P)].at
        BY <1>2, <3>2 DEF Chain
      <3>6. EndOf(P[i]) \in Nat
        BY <1>1
      <3> QED BY <1>1, <3>2, <3>3, <3>4, <3>5, <3>6
    <2> QED BY <2>1, <2>2, WithNextFits
  <1> QED BY <1>3, <1>4

(* What is inserted finds its place between the blocks of the list.        *)
LEMMA InsertFits ==
    ASSUME NEW U \in SUBSET Blk, NEW F \in Seq(Blk), NEW b \in Blk, Chain(F),
           U \intersect ToSet(F) = {}, b \notin U \union ToSet(F),
           Tiled(U \union ToSet(F) \union {b})
    PROVE  /\ FreeList(prvInsertBlockIntoFreeList(F, b), U)
           /\ SizeOf(prvInsertBlockIntoFreeList(F, b)) = SizeOf(F) + b.size
  <1> DEFINE above == {i \in DOMAIN F : F[i].at >= b.at}
             k == IF above = {} THEN Len(F) ELSE Min(above) - 1
             P == SubSeq(F, 1, k)
             Q == SubSeq(F, k + 1, Len(F))
             W == U \union ToSet(F) \union {b}
  <1>1. prvInsertBlockIntoFreeList(F, b) = WithBoth(P, b, Q)
    BY DEF prvInsertBlockIntoFreeList
  <1>2. DOMAIN F = 1 .. Len(F) /\ Len(F) \in Nat
    OBVIOUS
  <1>3. \A i \in DOMAIN F : /\ F[i] \in ToSet(F) /\ F[i].at \in Nat /\ F[i].size \in Nat
                            /\ F[i].size > 0 /\ EndOf(F[i]) = F[i].at + F[i].size
    <2>1. Tiled(W) /\ ToSet(F) \in SUBSET W
      OBVIOUS
    <2> HIDE DEF W
    <2>2. \A i \in DOMAIN F : F[i] \in ToSet(F)
      BY DEF ToSet
    <2> QED BY <2>1, <2>2, BlocksAre
  <1>4. b.at \in Nat /\ b.size \in Nat /\ b.size > 0 /\ EndOf(b) = b.at + b.size
    BY DEF Blk, Tiled, EndOf
  <1>5. /\ k \in 0 .. Len(F)
        /\ \A i \in 1 .. k : F[i].at < b.at
        /\ \A i \in k + 1 .. Len(F) : F[i].at >= b.at
    <2>1. CASE above = {}
      <3>1. k = Len(F)
        BY <2>1
      <3>2. \A i \in DOMAIN F : ~(F[i].at >= b.at)
        BY <2>1
      <3> HIDE DEF above, k
      <3>3. \A i \in DOMAIN F : F[i].at < b.at
        BY <1>3, <1>4, <3>2
      <3>4. k \in 0 .. Len(F) /\ 1 .. k = DOMAIN F
        BY <1>2, <3>1
      <3>5. k + 1 .. Len(F) = {}
        BY <1>2, <3>1
      <3> QED BY <3>3, <3>4, <3>5
    <2>2. CASE above # {}
      <3>1. above \in SUBSET Nat
        BY <1>2
      <3>2. \E x \in above : \A y \in above : x <= y
        <4> HIDE DEF above
        <4> QED BY <2>2, <3>1, LeastNat
      <3>3. Min(above) \in above /\ \A y \in above : Min(above) <= y
        <4> HIDE DEF above
        <4> QED BY <3>2 DEF Min
      <3> DEFINE l == Min(above)
      <3>4. k = l - 1
        BY <2>2
      <3>5. l \in above /\ \A y \in above : l <= y
        BY <3>3
      <3> HIDE DEF k, l
      <3>6. l \in DOMAIN F /\ F[l].at >= b.at
        BY <3>5
      <3>7. ASSUME NEW i \in 1 .. k PROVE F[i].at < b.at
        <4>1. i \in DOMAIN F /\ i < l
          BY <1>2, <3>4, <3>6
        <4>2. ~(F[i].at >= b.at)
          BY <1>2, <3>5, <3>6, <4>1
        <4> QED BY <1>3, <1>4, <4>1, <4>2
      <3>8. ASSUME NEW i \in k + 1 .. Len(F) PROVE F[i].at >= b.at
        <4>1. i \in DOMAIN F /\ (i = l \/ l < i)
          BY <1>2, <3>4, <3>6
        <4>2. l < i => EndOf(F[l]) < F[i].at
          BY <3>6, <4>1 DEF Chain
        <4>3. /\ F[i].at \in Nat /\ F[l].at \in Nat /\ F[l].size \in Nat
              /\ EndOf(F[l]) = F[l].at + F[l].size
          BY <1>3, <3>6, <4>1
        <4> QED BY <1>4, <3>6, <4>1, <4>2, <4>3
      <3>9. k \in 0 .. Len(F)
        BY <1>2, <3>4, <3>6
      <3> QED BY <3>7, <3>8, <3>9
    <2> QED BY <2>1, <2>2
  <1> HIDE DEF above, k
  <1>6. /\ P \in Seq(Blk) /\ Len(P) = k /\ \A i \in 1 .. k : P[i] = F[i]
        /\ Q \in Seq(Blk) /\ Len(Q) = Len(F) - k
        /\ \A i \in 1 .. Len(F) - k : Q[i] = F[k + i]
        /\ P \o Q = F
    BY <1>5, Parts
  <1> HIDE DEF P, Q
  <1>7. /\ DOMAIN P = 1 .. k /\ DOMAIN Q = 1 .. Len(F) - k /\ k \in Nat
        /\ \A i \in DOMAIN P : i \in DOMAIN F /\ P[i] = F[i]
        /\ \A i \in DOMAIN Q : k + i \in DOMAIN F /\ k + i \in k + 1 .. Len(F) /\ Q[i] = F[k + i]
    BY <1>2, <1>5, <1>6
  <1>8. Chain(P) /\ Chain(Q)
    <2>1. Chain(P)
      BY <1>7 DEF Chain
    <2>2. ASSUME NEW i \in DOMAIN Q, NEW j \in DOMAIN Q, i < j PROVE EndOf(Q[i]) < Q[j].at
      <3>1. k + i < k + j /\ k + i \in DOMAIN F /\ k + j \in DOMAIN F
        BY <1>7, <2>2
      <3>2. EndOf(F[k + i]) < F[k + j].at
        BY <3>1 DEF Chain
      <3> QED BY <1>7, <3>2
    <2> QED BY <2>1, <2>2 DEF Chain
  <1>9. \A i \in DOMAIN F : EndOf(F[i]) <= b.at \/ EndOf(b) <= F[i].at
    <2>1. \A i \in DOMAIN F : F[i] # b /\ F[i] \in W /\ b \in W
      BY <1>3
    <2>2. Tiled(W)
      OBVIOUS
    <2> HIDE DEF W
    <2> QED BY <2>1, <2>2 DEF Tiled
  <1>10. \A i \in DOMAIN P : EndOf(P[i]) <= b.at
    <2>1. ASSUME NEW i \in DOMAIN P PROVE EndOf(F[i]) <= b.at
      <3>1. i \in DOMAIN F /\ F[i].at < b.at
        BY <1>5, <1>7
      <3> QED BY <1>3, <1>4, <1>9, <3>1
    <2> QED BY <1>7, <2>1
  <1>11. \A j \in DOMAIN Q : EndOf(b) <= Q[j].at
    <2>1. ASSUME NEW j \in DOMAIN Q PROVE EndOf(b) <= F[k + j].at
      <3>1. k + j \in DOMAIN F /\ F[k + j].at >= b.at
        BY <1>5, <1>7
      <3> QED BY <1>3, <1>4, <1>9, <3>1
    <2> QED BY <1>7, <2>1
  <1>12. ToSet(F) = ToSet(P) \union ToSet(Q) /\ SizeOf(F) = SizeOf(P) + SizeOf(Q)
         /\ SizeOf(P) \in Nat /\ SizeOf(Q) \in Nat
    BY <1>6, ToSetConcat, SizeOfConcat
  <1>13. Between(P, b, Q, U)
    <2>1. W = U \union ToSet(P) \union ToSet(Q) \union {b}
      BY <1>12
    <2>2. U \intersect (ToSet(P) \union ToSet(Q)) = {} /\ b \notin U \union ToSet(P) \union ToSet(Q)
      BY <1>12
    <2> QED BY <1>6, <1>8, <1>10, <1>11, <2>1, <2>2 DEF Between
  <1> QED BY <1>1, <1>4, <1>12, <1>13, WithBothFits

-----------------------------------------------------------------------------
(* Heaps, and those that are sound.                                        *)
Heaps == [free : Seq(Blk), used : SUBSET Blk, xFreeBytesRemaining : Nat]
SoundHeap(h) == h \in Heaps /\ Sound(h)

(* Soundness in the terms of the list.                                     *)
LEMMA SoundIs ==
    ASSUME NEW h \in Heaps
    PROVE  Sound(h) <=> /\ FreeList(h.free, h.used)
                        /\ h.xFreeBytesRemaining = SizeOf(h.free)
  <1>1. h.free \in Seq(Blk)
    BY DEF Heaps
  <1> QED BY <1>1, Zenon DEF Sound, FreeList, Chain

(* The heap of the start, one free block, is sound.                        *)
LEMMA InitSound == SoundHeap(prvHeapInit)
  <1> DEFINE b == Block(0, Total)
  <1>1. /\ Total \in Nat \ {0} /\ Align \in Nat \ {0}
    BY HeapAssumption
  <1>2. b \in Blk /\ b.at = 0 /\ b.size = Total /\ EndOf(b) = Total
    <2>1. b \in Blk /\ b.at = 0 /\ b.size = Total
      BY <1>1, BlockIs
    <2> QED BY <1>1, <2>1 DEF EndOf
  <1> HIDE DEF b
  <1>3. <<b>> \in Seq(Blk) /\ ToSet(<<b>>) = {b} /\ SizeOf(<<b>>) = Total
    BY <1>2, ToSetOne, SizeOfOne
  <1>4. Chain(<<b>>)
    BY DEF Chain
  <1>5. 0 % Align = 0
    <2>1. Align * 0 = 0
      BY <1>1
    <2> QED BY <1>1, <2>1, MultipleIs
  <1>6. Tiled({b})
    BY <1>1, <1>2, <1>5 DEF Tiled
  <1>7. FreeList(<<b>>, {})
    <2>1. {} \union ToSet(<<b>>) = {b} /\ {} \intersect ToSet(<<b>>) = {}
      BY <1>3
    <2> QED BY <1>3, <1>4, <1>6, <2>1 DEF FreeList
  <1>8. prvHeapInit = [free |-> <<b>>, used |-> {}, xFreeBytesRemaining |-> Total]
    BY DEF prvHeapInit, b
  <1>9. prvHeapInit \in Heaps
    BY <1>1, <1>3, <1>8 DEF Heaps
  <1>10. /\ prvHeapInit.free = <<b>> /\ prvHeapInit.used = {}
         /\ prvHeapInit.xFreeBytesRemaining = Total
    BY <1>8
  <1> QED BY <1>3, <1>7, <1>9, <1>10, SoundIs DEF SoundHeap

(* A release keeps the heap sound and takes one block from the allocated   *)
(* ones.                                                                   *)
LEMMA FreeSound ==
    ASSUME NEW h, SoundHeap(h), NEW b \in h.used
    PROVE  LET g == vTuyaPortFree(h, b.at)
           IN  SoundHeap(g) /\ g.used = h.used \ {b}
  <1> DEFINE F == prvInsertBlockIntoFreeList(h.free, b)
             g == [free |-> F, used |-> h.used \ {b},
                   xFreeBytesRemaining |-> h.xFreeBytesRemaining + b.size]
  <1>1. /\ h \in Heaps /\ h.free \in Seq(Blk) /\ h.used \in SUBSET Blk
        /\ h.xFreeBytesRemaining \in Nat /\ b \in Blk /\ b.size \in Nat /\ b.at \in Nat
    BY DEF SoundHeap, Heaps, Blk
  <1>2. /\ Chain(h.free) /\ h.used \intersect ToSet(h.free) = {}
        /\ Tiled(h.used \union ToSet(h.free)) /\ h.xFreeBytesRemaining = SizeOf(h.free)
    BY <1>1, SoundIs DEF SoundHeap, FreeList
  <1>3. \A c \in h.used : c.at = b.at => c = b
    <2>1. ASSUME NEW c \in h.used, c.at = b.at, c # b PROVE FALSE
      <3>1. EndOf(c) <= b.at \/ EndOf(b) <= c.at
        BY <1>2, <2>1 DEF Tiled
      <3>2. c.size > 0 /\ b.size > 0
        BY <1>2 DEF Tiled
      <3>3. c.size \in Nat
        BY <1>1 DEF Blk
      <3> QED BY <1>1, <2>1, <3>1, <3>2, <3>3 DEF EndOf
    <2> QED BY <2>1
  <1>4. vTuyaPortFree(h, b.at) = g
    <2>1. {c \in h.used : c.at = b.at} = {b}
      BY <1>3
    <2>2. (CHOOSE x \in {b} : TRUE) = b
      OBVIOUS
    <2> QED BY <2>1, <2>2 DEF vTuyaPortFree
  <1> DEFINE U == h.used \ {b}
  <1>5. FreeList(F, U) /\ SizeOf(F) = SizeOf(h.free) + b.size
    <2>1. /\ U \in SUBSET Blk /\ U \intersect ToSet(h.free) = {}
          /\ b \notin U \union ToSet(h.free)
          /\ U \union ToSet(h.free) \union {b} = h.used \union ToSet(h.free)
      BY <1>1, <1>2
    <2>2. Tiled(U \union ToSet(h.free) \union {b})
      BY <1>2, <2>1
    <2> DEFINE L == h.free
    <2>4. /\ U \in SUBSET Blk /\ U \intersect ToSet(L) = {}
          /\ b \notin U \union ToSet(L) /\ Tiled(U \union ToSet(L) \union {b})
          /\ L \in Seq(Blk) /\ Chain(L) /\ b \in Blk
      BY <1>1, <1>2, <2>1, <2>2
    <2> HIDE DEF U, F, L
    <2>3. /\ FreeList(prvInsertBlockIntoFreeList(L, b), U)
          /\ SizeOf(prvInsertBlockIntoFreeList(L, b)) = SizeOf(L) + b.size
      BY <2>4, InsertFits
    <2> QED BY <2>3 DEF F, L
  <1> HIDE DEF F
  <1>6. g.free = F /\ g.used = U /\ g.xFreeBytesRemaining = h.xFreeBytesRemaining + b.size
    OBVIOUS
  <1>7. g \in Heaps
    BY <1>1, <1>5 DEF Heaps, FreeList
  <1> HIDE DEF g, U
  <1>8. Sound(g)
    BY <1>2, <1>5, <1>6, <1>7, SoundIs
  <1> QED BY <1>4, <1>6, <1>7, <1>8 DEF SoundHeap, U

(* The size of a block for a request: aligned, and with room for the       *)
(* header.                                                                 *)
LEMMA WantedIs ==
    ASSUME NEW size \in Nat, size # 0
    PROVE  /\ Wanted(size) \in Nat /\ Wanted(size) % Align = 0
           /\ Wanted(size) >= size + xHeapStructSize /\ Wanted(size) > 0
  <1> DEFINE s == size + xHeapStructSize
             a == s + Align - 1
             q == a \div Align
             r == a % Align
  <1>1. Align \in Nat \ {0} /\ xHeapStructSize \in Nat \ {0}
    BY HeapAssumption
  <1>2. a \in Int /\ s \in Nat /\ s > 0 /\ a = s + Align - 1
    BY <1>1
  <1>3. Wanted(size) = q * Align
    BY DEF Wanted
  <1> HIDE DEF s, a
  <1>4. q \in Int /\ r \in 0 .. Align - 1 /\ a = Align * q + r
    BY <1>1, <1>2, DivMod
  <1> HIDE DEF q, r
  <1>5. q * Align = Align * q /\ Align * q \in Int
    BY <1>1, <1>4
  <1>6. Align * q >= s
    BY <1>1, <1>2, <1>4, <1>5
  <1>7. (Align * q) % Align = 0
    BY <1>1, <1>4, MultipleIs
  <1> QED BY <1>2, <1>3, <1>5, <1>6, <1>7 DEF s

(* The place before one.                                                   *)
LEMMA PlaceBefore ==
    ASSUME NEW n \in Nat, NEW i \in 1 .. n
    PROVE  i - 1 \in 0 .. n /\ (i - 1) + 1 = i /\ i \in 0 .. n
  OBVIOUS

(* The list without one of its blocks.                                     *)
LEMMA RemoveIs ==
    ASSUME NEW F \in Seq(Blk), NEW i \in DOMAIN F, Chain(F),
           \A j \in DOMAIN F : EndOf(F[j]) = F[j].at + F[j].size
    PROVE  /\ RemoveAt(F, i) \in Seq(Blk) /\ Chain(RemoveAt(F, i))
           /\ F[i] \notin ToSet(RemoveAt(F, i))
           /\ ToSet(F) = ToSet(RemoveAt(F, i)) \union {F[i]}
           /\ SizeOf(F) = SizeOf(RemoveAt(F, i)) + F[i].size
  <1> DEFINE n == Len(F)
             P == SubSeq(F, 1, i - 1)
             Q == SubSeq(F, i, n)
             R == SubSeq(F, i + 1, n)
  <1>1. n \in Nat /\ DOMAIN F = 1 .. n /\ i \in 1 .. n
    OBVIOUS
  <1>2. /\ P \in Seq(Blk) /\ Len(P) = i - 1 /\ \A j \in 1 .. i - 1 : P[j] = F[j]
        /\ Q \in Seq(Blk) /\ P \o Q = F
    <2>1. i - 1 \in 0 .. Len(F) /\ (i - 1) + 1 = i
      BY <1>1, PlaceBefore
    <2> QED BY <2>1, Parts
  <1>3. /\ R \in Seq(Blk) /\ Len(R) = n - i /\ \A j \in 1 .. n - i : R[j] = F[i + j]
    <2>1. i \in 0 .. Len(F)
      BY <1>1
    <2> QED BY <2>1, Parts
  <1>4. Q = <<F[i]>> \o R
    <2>1. i \in 1 .. Len(F) /\ Len(F) \in i .. Len(F)
      BY <1>1
    <2> QED BY <2>1, SubSeqRecursiveFirst
  <1>5. RemoveAt(F, i) = P \o R
    BY DEF RemoveAt
  <1> HIDE DEF n, P, Q, R
  <1>6. F[i] \in Blk /\ F[i].at \in Nat /\ F[i].size \in Nat
    BY <1>1, ElementIs DEF n
  <1>7. /\ <<F[i]>> \in Seq(Blk) /\ ToSet(<<F[i]>>) = {F[i]} /\ SizeOf(<<F[i]>>) = F[i].size
    BY <1>6, ToSetOne, SizeOfOne
  <1>8. /\ ToSet(Q) = {F[i]} \union ToSet(R) /\ SizeOf(Q) = F[i].size + SizeOf(R)
        /\ SizeOf(R) \in Nat
    BY <1>3, <1>4, <1>7, ToSetConcat, SizeOfConcat
  <1>9. /\ ToSet(F) = ToSet(P) \union ToSet(Q) /\ SizeOf(F) = SizeOf(P) + SizeOf(Q)
        /\ SizeOf(P) \in Nat
    BY <1>2, ToSetConcat, SizeOfConcat
  <1>10. /\ ToSet(P \o R) = ToSet(P) \union ToSet(R) /\ SizeOf(P \o R) = SizeOf(P) + SizeOf(R)
         /\ P \o R \in Seq(Blk)
    BY <1>2, <1>3, ToSetConcat, SizeOfConcat, ConcatProperties
  <1>11. /\ DOMAIN P = 1 .. i - 1 /\ DOMAIN R = 1 .. n - i
         /\ \A j \in DOMAIN P : j \in DOMAIN F /\ P[j] = F[j] /\ j < i
         /\ \A j \in DOMAIN R : i + j \in DOMAIN F /\ R[j] = F[i + j] /\ i < i + j /\ j \in Nat
    <2>1. DOMAIN P = 1 .. i - 1 /\ DOMAIN R = 1 .. n - i /\ i \in Nat
      BY <1>1, <1>2, <1>3
    <2>2. \A j \in 1 .. i - 1 : j \in DOMAIN F /\ P[j] = F[j] /\ j < i
      BY <1>1, <1>2
    <2>3. \A j \in 1 .. n - i : i + j \in 1 .. n /\ i < i + j /\ j \in Nat
      BY <1>1
    <2>4. \A j \in 1 .. n - i : R[j] = F[i + j]
      BY <1>3
    <2> QED BY <1>1, <2>1, <2>2, <2>3, <2>4
  <1>12. Chain(P)
    BY <1>11 DEF Chain
  <1>13. Chain(R)
    <2>1. ASSUME NEW j \in DOMAIN R, NEW k \in DOMAIN R, j < k PROVE EndOf(R[j]) < R[k].at
      <3>1. i + j < i + k
        BY <1>1, <1>11, <2>1
      <3>2. EndOf(F[i + j]) < F[i + k].at
        BY <1>11, <3>1 DEF Chain
      <3> QED BY <1>11, <3>2
    <2> QED BY <2>1 DEF Chain
  <1>14. \A j \in DOMAIN P, k \in DOMAIN R : EndOf(P[j]) < R[k].at
    <2>1. ASSUME NEW j \in DOMAIN P, NEW k \in DOMAIN R PROVE EndOf(P[j]) < R[k].at
      <3>1. j < i + k /\ j \in DOMAIN F /\ i + k \in DOMAIN F
        BY <1>1, <1>11
      <3>2. EndOf(F[j]) < F[i + k].at
        BY <3>1 DEF Chain
      <3> QED BY <1>11, <3>2
    <2> QED BY <2>1
  <1>15. Chain(P \o R)
    BY <1>2, <1>3, <1>12, <1>13, <1>14, ChainConcat
  <1>16. F[i] \notin ToSet(P) /\ F[i] \notin ToSet(R)
    <2>1. ASSUME NEW j \in DOMAIN F, j # i, F[j] = F[i] PROVE FALSE
      <3>1. EndOf(F[i]) < F[i].at
        <4>1. j < i \/ i < j
          BY <1>1, <2>1
        <4>2. j < i => EndOf(F[j]) < F[i].at
          BY <2>1 DEF Chain
        <4>3. i < j => EndOf(F[i]) < F[j].at
          BY <2>1 DEF Chain
        <4> QED BY <2>1, <4>1, <4>2, <4>3
      <3> QED BY <1>6, <3>1
    <2>2. ASSUME F[i] \in ToSet(P) PROVE FALSE
      <3>1. PICK j \in DOMAIN P : F[i] = P[j]
        BY <2>2 DEF ToSet
      <3>2. j \in DOMAIN F /\ j # i /\ F[j] = F[i]
        BY <1>1, <1>11, <3>1
      <3> QED BY <2>1, <3>2
    <2>3. ASSUME F[i] \in ToSet(R) PROVE FALSE
      <3>1. PICK j \in DOMAIN R : F[i] = R[j]
        BY <2>3 DEF ToSet
      <3>2. i + j \in DOMAIN F /\ i + j # i /\ F[i + j] = F[i]
        BY <1>1, <1>11, <3>1
      <3> QED BY <2>1, <3>2
    <2> QED BY <2>2, <2>3
  <1> QED BY <1>5, <1>6, <1>8, <1>9, <1>10, <1>15, <1>16

(* A request leaves the heap as it is, or takes a block of its own that is *)
(* large enough.                                                           *)
LEMMA MallocSound ==
    ASSUME NEW h, SoundHeap(h), NEW size \in Nat
    PROVE  LET r == pvTuyaPortMalloc(h, size)
           IN  \/ r.ptr = NULL /\ r.heap = h
               \/ /\ SoundHeap(r.heap)
                  /\ \E b \in Blk : /\ r.ptr = b.at /\ r.heap.used = h.used \union {b}
                                    /\ b.size >= size + xHeapStructSize
                                    /\ \A c \in h.used : c.at # b.at
  <1> DEFINE wanted == Wanted(size)
             fitting == {i \in DOMAIN h.free : h.free[i].size >= wanted}
             r == pvTuyaPortMalloc(h, size)
             i == Min(fitting)
             F == h.free
             G == RemoveAt(F, i)
             s == Split(F[i], wanted)
  <1>1. CASE wanted = 0 \/ wanted > h.xFreeBytesRemaining \/ fitting = {}
    <2>1. r = [heap |-> h, ptr |-> NULL]
      BY <1>1 DEF pvTuyaPortMalloc
    <2> QED BY <2>1
  <1>2. CASE ~(wanted = 0 \/ wanted > h.xFreeBytesRemaining \/ fitting = {})
    <2>1. r = Allocated(h, G, s)
      BY <1>2 DEF pvTuyaPortMalloc
    <2>2. /\ h \in Heaps /\ F \in Seq(Blk) /\ h.used \in SUBSET Blk /\ h.xFreeBytesRemaining \in Nat
      BY DEF SoundHeap, Heaps
    <2>3. /\ Chain(F) /\ h.used \intersect ToSet(F) = {}
          /\ Tiled(h.used \union ToSet(F)) /\ h.xFreeBytesRemaining = SizeOf(F)
      BY <2>2, SoundIs DEF SoundHeap, FreeList
    <2>4. size # 0
      BY <1>2 DEF Wanted
    <2>5. /\ wanted \in Nat /\ wanted % Align = 0 /\ wanted > 0
          /\ wanted >= size + xHeapStructSize
      BY <2>4, WantedIs
    <2>6. xHeapStructSize \in Nat /\ heapMINIMUM_BLOCK_SIZE \in Nat
      BY HeapAssumption DEF heapMINIMUM_BLOCK_SIZE
    <2> HIDE DEF wanted
    <2>7. fitting \in SUBSET Nat
      BY <2>2
    <2>8. i \in fitting
      <3>1. \E x \in fitting : \A y \in fitting : x <= y
        <4> HIDE DEF fitting
        <4> QED BY <1>2, <2>7, LeastNat
      <3> HIDE DEF fitting
      <3> QED BY <3>1 DEF Min
    <2>9. i \in DOMAIN F /\ F[i].size >= wanted
      BY <2>8
    <2> HIDE DEF r, i, fitting
    <2>10. \A j \in DOMAIN F : EndOf(F[j]) = F[j].at + F[j].size
      BY DEF EndOf
    <2>11. /\ G \in Seq(Blk) /\ Chain(G) /\ F[i] \notin ToSet(G)
           /\ ToSet(F) = ToSet(G) \union {F[i]} /\ SizeOf(F) = SizeOf(G) + F[i].size
      BY <2>2, <2>3, <2>9, <2>10, RemoveIs
    <2>12. F[i] \in Blk /\ F[i].at \in Nat /\ F[i].size \in Nat /\ SizeOf(G) \in Nat
      <3>1. i \in 1 .. Len(F)
        BY <2>2, <2>9
      <3> QED BY <2>2, <2>11, <3>1, ElementIs, SizeOfConcat
    <2> DEFINE b == F[i]  X == h.used \union ToSet(G)
    <2>13. /\ b \notin X /\ X \union {b} = h.used \union ToSet(F)
           /\ h.used \intersect ToSet(G) = {} /\ X \in SUBSET Blk /\ b \notin h.used
      BY <2>2, <2>3, <2>11, ToSetIs
    <2>14. \A c \in h.used : c.at # b.at
      <3>1. ASSUME NEW c \in h.used, c.at = b.at PROVE FALSE
        <4>1. c # b /\ c \in h.used \union ToSet(F) /\ b \in h.used \union ToSet(F)
          BY <2>11, <2>13
        <4>2. /\ EndOf(c) <= b.at \/ EndOf(b) <= c.at
              /\ c.size > 0 /\ b.size > 0
          BY <2>3, <4>1 DEF Tiled
        <4>3. c.size \in Nat
          BY <2>2 DEF Blk
        <4> QED BY <2>12, <3>1, <4>2, <4>3 DEF EndOf
      <3> QED BY <3>1
    <2> HIDE DEF G, F
    <2>15. CASE b.size - wanted > heapMINIMUM_BLOCK_SIZE
      <3> DEFINE t == Block(b.at, wanted)
                 e == Block(b.at + wanted, b.size - wanted)
                 E == prvInsertBlockIntoFreeList(G, e)
                 V == h.used \union {t}
      <3>1. s.taken = t /\ s.rest = <<e>>
        BY <2>15 DEF Split
      <3>2. wanted < b.size /\ b.size - wanted \in Nat /\ b.at + wanted \in Nat
        BY <2>5, <2>6, <2>12, <2>15
      <3>3. t.at = b.at /\ t.size = wanted /\ e.size = b.size - wanted
        BY <2>5, <2>12, <3>2, BlockIs
      <3>4. /\ t \in Blk /\ t \notin X /\ e \in Blk /\ e \notin X /\ t # e
            /\ Tiled(X \union {t, e})
        <4>1. Tiled(X \union {b})
          BY <2>3, <2>13
        <4> HIDE DEF X, b
        <4> QED BY <2>5, <2>12, <2>13, <3>2, <4>1, TiledSplit DEF b
      <3> HIDE DEF t, e
      <3>5. FreeList(E, V) /\ SizeOf(E) = SizeOf(G) + e.size
        <4>1. /\ V \in SUBSET Blk /\ V \intersect ToSet(G) = {} /\ e \notin V \union ToSet(G)
              /\ V \union ToSet(G) \union {e} = X \union {t, e}
          BY <2>2, <2>13, <3>4
        <4>2. Tiled(V \union ToSet(G) \union {e})
          BY <3>4, <4>1
        <4> HIDE DEF V
        <4> QED BY <2>11, <3>4, <4>1, <4>2, InsertFits
      <3> HIDE DEF E
      <3> DEFINE g == [free |-> E, used |-> V,
                       xFreeBytesRemaining |-> h.xFreeBytesRemaining - wanted]
      <3>6. r = [heap |-> g, ptr |-> b.at]
        <4>1. s.rest # <<>> /\ Head(s.rest) = e
          BY <3>1
        <4> HIDE DEF s
        <4> QED BY <2>1, <3>1, <3>3, <4>1 DEF Allocated, E
      <3>7. h.xFreeBytesRemaining - wanted = SizeOf(E) /\ SizeOf(E) \in Nat
        <4>1. h.xFreeBytesRemaining = SizeOf(G) + b.size
          BY <2>3, <2>11
        <4>2. SizeOf(E) = SizeOf(G) + (b.size - wanted)
          BY <3>3, <3>5
        <4>3. SizeOf(G) \in Nat /\ b.size \in Nat /\ wanted \in Nat /\ b.size - wanted \in Nat
          BY <2>5, <2>12, <3>2
        <4> HIDE DEF b
        <4> QED BY <4>1, <4>2, <4>3
      <3>8. g \in Heaps /\ Sound(g)
        <4>1. g.free = E /\ g.used = V /\ g.xFreeBytesRemaining = SizeOf(E)
          BY <3>7
        <4>2. g \in Heaps
          BY <2>2, <3>4, <3>5, <3>7 DEF Heaps, FreeList
        <4> HIDE DEF g, V
        <4> QED BY <3>5, <4>1, <4>2, SoundIs
      <3>9. r.heap = g /\ r.ptr = t.at /\ g.used = h.used \union {t}
        BY <3>3, <3>6
      <3>10. t.size >= size + xHeapStructSize /\ \A c \in h.used : c.at # t.at
        BY <2>5, <2>14, <3>3
      <3> HIDE DEF g, V
      <3> QED BY <3>4, <3>8, <3>9, <3>10 DEF SoundHeap, r
    <2>16. CASE ~(b.size - wanted > heapMINIMUM_BLOCK_SIZE)
      <3> DEFINE g == [free |-> G, used |-> h.used \union {b},
                       xFreeBytesRemaining |-> h.xFreeBytesRemaining - b.size]
                 V == h.used \union {b}
      <3>1. s.taken = b /\ s.rest = <<>>
        BY <2>16 DEF Split
      <3>2. r = [heap |-> g, ptr |-> b.at]
        <4> HIDE DEF s, b
        <4> QED BY <2>1, <3>1 DEF Allocated
      <3>3. h.xFreeBytesRemaining - b.size = SizeOf(G)
        BY <2>3, <2>11, <2>12
      <3>4. FreeList(G, V)
        <4>1. V \intersect ToSet(G) = {} /\ V \union ToSet(G) = h.used \union ToSet(F)
          BY <2>11, <2>13
        <4> QED BY <2>3, <2>11, <4>1 DEF FreeList
      <3>5. g \in Heaps /\ Sound(g)
        <4>1. g.free = G /\ g.used = V /\ g.xFreeBytesRemaining = SizeOf(G)
          BY <3>3
        <4>2. g \in Heaps
          BY <2>2, <2>11, <2>12, <3>3 DEF Heaps
        <4> HIDE DEF g, V
        <4> QED BY <3>4, <4>1, <4>2, SoundIs
      <3>6. r.heap = g /\ r.ptr = b.at /\ g.used = h.used \union {b}
        BY <3>2
      <3>7. b.size >= size + xHeapStructSize
        BY <2>5, <2>6, <2>9, <2>12 DEF F
      <3> HIDE DEF g, V, b
      <3> QED BY <2>12, <2>14, <3>5, <3>6, <3>7 DEF SoundHeap, r, b
    <2> QED BY <2>15, <2>16
  <1> QED BY <1>1, <1>2

-------------------------------------------------------------------------------
(***************************************************************************)
(* A device in order, and its events.                                      *)
(***************************************************************************)

(* The events that may bring a buffer, and all events.                     *)
Carriers == DpReport \union DataReport \union {"BLE_CMD"}
EventName == Carriers \union {"CONNECTED", "DISCONNECTED", "GATT_SEND_DATA", "FIRST_RECEIVED",
                              "LAST_RECEIVED", "NET_CONFIG_RESPONSE"}

(* The address of a buffer, or NULL.                                       *)
Pointer == Nat \union {NULL}
(* An event brings a buffer only if it is of those that carry one, and the *)
(* message it needs.                                                       *)
Events == {e \in [ev : EventName, buf : Pointer, len : Nat, msg : Message \union {NULL}] :
              /\ e.buf # NULL => e.ev \in Carriers
              /\ e.ev \in {"BLE_CMD", "FIRST_RECEIVED"} => e.msg \in Message}
(* The message being received.                                             *)
Packets == {r \in [buf : Pointer, msg : Message \union {NULL}] : r.buf # NULL => r.msg \in Message}

(* Everything a handler works on.                                          *)
Devices == [link : BOOLEAN, term_pending : BOOLEAN, status : {"unconn", "unauth", "paired"},
            bound_flag : BOOLEAN, heap : Heaps, events : Seq(Events), queue : Seq(Nat),
            flag : {0, 1}, recv : Packets, dp : Datum, misuse : BOOLEAN, credit : Nat,
            encrypts : BOOLEAN]

(* Addresses of the allocated blocks, and the buffers of the events from   *)
(* the k-th on.                                                            *)
Addresses(h) == {b.at : b \in h.used}
Carried(ev, k) == {ev[i].buf : i \in k .. Len(ev)} \ {NULL}

(* No two events, and no two packets in the queue, have the same buffer.   *)
Unshared(ev, k, q) ==
    /\ \A i, j \in k .. Len(ev) : ev[i].buf = ev[j].buf /\ ev[i].buf # NULL => i = j
    /\ \A i, j \in DOMAIN q : q[i] = q[j] => i = j
(* The allocated blocks A are divided among the events (E), the send queue *)
(* (Q), the message being received (p) and the running handler (S).        *)
Divided(A, E, Q, p, S) ==
    /\ A = E \union Q \union S \union ({p} \ {NULL})
    /\ E \intersect Q = {} /\ E \intersect S = {} /\ Q \intersect S = {}
    /\ p \notin E \union Q \union S

(* The invariant, of a device m whose events count from the k-th, when the *)
(* handler that runs holds the buffers S. Between two steps k = 1 and S is *)
(* empty; within a handler k = 2, since the first event's buffer is the    *)
(* handler's.                                                              *)
OK(m, k, S) ==
    /\ m \in Devices /\ Sound(m.heap) /\ m.misuse = FALSE
    /\ k \in {1, 2} /\ k <= Len(m.events) + 1 /\ S \in SUBSET Nat
    /\ Unshared(m.events, k, m.queue)
    /\ Divided(Addresses(m.heap), Carried(m.events, k), ToSet(m.queue), m.recv.buf, S)

(* What concerns no memory keeps memory in order.                          *)
LEMMA Unchanging ==
    ASSUME NEW m, NEW k, NEW S, OK(m, k, S), NEW n \in Devices, n.heap = m.heap,
           n.events = m.events, n.queue = m.queue, n.recv = m.recv, n.misuse = m.misuse
    PROVE  OK(n, k, S)
  BY DEF OK

(* A device with another heap.                                             *)
LEMMA SetHeap ==
    ASSUME NEW m \in Devices, NEW h \in Heaps
    PROVE  LET n == [m EXCEPT !.heap = h, !.misuse = FALSE]
           IN  /\ n \in Devices /\ n.heap = h /\ n.misuse = FALSE
               /\ n.events = m.events /\ n.queue = m.queue /\ n.recv = m.recv
  BY DEF Devices

(* An address belongs to one allocated block.                              *)
LEMMA AddressesAre ==
    ASSUME NEW h, SoundHeap(h)
    PROVE  /\ Addresses(h) \in SUBSET Nat
           /\ \A a \in Addresses(h) : \E b \in h.used : b.at = a
           /\ \A b, c \in h.used : b.at = c.at => b = c
  <1>1. h.used \in SUBSET Blk /\ Tiled(h.used \union ToSet(h.free))
    <2>1. h \in Heaps /\ Sound(h)
      BY DEF SoundHeap
    <2> QED BY <2>1 DEF Heaps, Sound
  <1>2. ASSUME NEW b \in h.used, NEW c \in h.used, b.at = c.at, b # c PROVE FALSE
    <2>1. EndOf(b) <= c.at \/ EndOf(c) <= b.at
      BY <1>1, <1>2 DEF Tiled
    <2>2. b.size > 0 /\ c.size > 0
      BY <1>1 DEF Tiled
    <2>3. b.at \in Nat /\ b.size \in Nat /\ c.at \in Nat /\ c.size \in Nat
      BY <1>1 DEF Blk
    <2> QED BY <1>2, <2>1, <2>2, <2>3 DEF EndOf
  <1> QED BY <1>1, <1>2 DEF Addresses, Blk

(* A buffer is of the one who asked for it.                                *)
LEMMA MallocOK ==
    ASSUME NEW m, NEW k, NEW S, OK(m, k, S), NEW size \in Nat, NEW written \in Nat, written <= size
    PROVE  LET r == tuya_ble_malloc(m, size, written)
           IN  \/ r.ptr = NULL /\ r.m = m
               \/ /\ r.ptr # NULL /\ r.ptr \in Nat \ S /\ OK(r.m, k, S \union {r.ptr})
                  /\ r.m.events = m.events /\ r.m.queue = m.queue /\ r.m.recv = m.recv
  <1> DEFINE q == pvTuyaPortMalloc(m.heap, size)
             needed == written + xHeapStructSize
             r == tuya_ble_malloc(m, size, written)
             P == ~ \E b \in q.heap.used : b.at = q.ptr /\ b.size >= needed
             n == [m EXCEPT !.heap = q.heap, !.misuse = @ \/ P]
  <1>1. m \in Devices /\ Sound(m.heap) /\ m.misuse = FALSE
    BY DEF OK
  <1>2. SoundHeap(m.heap)
    BY <1>1 DEF SoundHeap, Devices
  <1>3. r.ptr = q.ptr /\ r.m = IF q.ptr = NULL THEN m ELSE n
    BY DEF tuya_ble_malloc, HeapBecomes
  <1>4. \/ q.ptr = NULL /\ q.heap = m.heap
        \/ /\ SoundHeap(q.heap)
           /\ \E b \in Blk : /\ q.ptr = b.at /\ q.heap.used = m.heap.used \union {b}
                             /\ b.size >= size + xHeapStructSize
                             /\ \A c \in m.heap.used : c.at # b.at
    BY <1>2, MallocSound
  <1> HIDE DEF r
  <1>5. CASE q.ptr = NULL
    BY <1>3, <1>5 DEF r
  <1>6. CASE q.ptr # NULL
    <2> HIDE DEF q
    <2>1. PICK b \in Blk : /\ q.ptr = b.at /\ q.heap.used = m.heap.used \union {b}
                           /\ b.size >= size + xHeapStructSize
                           /\ \A c \in m.heap.used : c.at # b.at
      BY <1>4, <1>6
    <2>2. SoundHeap(q.heap) /\ q.heap \in Heaps /\ Sound(q.heap)
      BY <1>4, <1>6 DEF SoundHeap
    <2>3. b.at \in Nat /\ b.size \in Nat /\ xHeapStructSize \in Nat
      BY HeapAssumption DEF Blk
    <2>4. P = FALSE
      <3>1. b \in q.heap.used /\ b.at = q.ptr /\ b.size >= needed
        BY <2>1, <2>3
      <3> QED BY <3>1
    <2> HIDE DEF P
    <2>5. /\ n \in Devices /\ n.heap = q.heap /\ n.misuse = FALSE
          /\ n.events = m.events /\ n.queue = m.queue /\ n.recv = m.recv
      <3>1. (m.misuse \/ P) = FALSE
        BY <1>1, <2>4
      <3>2. n = [m EXCEPT !.heap = q.heap, !.misuse = FALSE]
        BY <3>1, Zenon
      <3> HIDE DEF n
      <3> QED BY <1>1, <2>2, <3>2, SetHeap
    <2> HIDE DEF n
    <2>6. Addresses(n.heap) = Addresses(m.heap) \union {q.ptr} /\ q.ptr \notin Addresses(m.heap)
      BY <2>1, <2>5 DEF Addresses
    <2>7. OK(n, k, S \union {q.ptr}) /\ q.ptr \notin S
      <3> DEFINE A == Addresses(m.heap)  E == Carried(m.events, k)  Q == ToSet(m.queue)
                 p == m.recv.buf  T == S \union {q.ptr}  B == Addresses(n.heap)
      <3>1. Divided(A, E, Q, p, S) /\ S \in SUBSET Nat
        BY DEF OK
      <3>2. B = A \union {q.ptr} /\ q.ptr \notin A
        BY <2>6
      <3>3. q.ptr \in Nat
        BY <2>1, <2>3
      <3>4. Divided(B, E, Q, p, T) /\ q.ptr \notin S /\ T \in SUBSET Nat
        <4> HIDE DEF A, E, Q, p, B
        <4> QED BY <1>6, <3>1, <3>2, <3>3 DEF Divided
      <3>5. Divided(Addresses(n.heap), Carried(n.events, k), ToSet(n.queue), n.recv.buf, T)
        BY <2>5, <3>4
      <3> HIDE DEF T
      <3>6. OK(n, k, T)
        BY <2>2, <2>5, <3>4, <3>5 DEF OK
      <3> QED BY <3>4, <3>6 DEF T
    <2> QED BY <1>3, <1>6, <2>1, <2>3, <2>5, <2>7 DEF r
  <1> QED BY <1>5, <1>6 DEF r

(* What is freed was a buffer of the one who frees it.                     *)
LEMMA FreeOK ==
    ASSUME NEW m, NEW k, NEW S, OK(m, k, S), NEW p \in S
    PROVE  LET n == tuya_ble_free(m, p)
           IN  OK(n, k, S \ {p}) /\ n.events = m.events /\ n.queue = m.queue /\ n.recv = m.recv
  <1> DEFINE P == \A b \in m.heap.used : b.at # p
             h == vTuyaPortFree(m.heap, p)
             n == [m EXCEPT !.heap = h, !.misuse = @ \/ P]
  <1>1. m \in Devices /\ Sound(m.heap) /\ m.misuse = FALSE /\ p \in Nat
    BY DEF OK
  <1>2. SoundHeap(m.heap)
    BY <1>1 DEF SoundHeap, Devices
  <1>3. tuya_ble_free(m, p) = n
    BY <1>1, HeapAssumption DEF tuya_ble_free
  <1>4. p \in Addresses(m.heap)
    BY DEF OK, Divided
  <1>5. PICK b \in m.heap.used : b.at = p
    BY <1>4 DEF Addresses
  <1>6. SoundHeap(h) /\ h.used = m.heap.used \ {b}
    BY <1>2, <1>5, FreeSound
  <1>7. P = FALSE
    BY <1>5
  <1>8. /\ n \in Devices /\ n.heap = h /\ n.misuse = FALSE
        /\ n.events = m.events /\ n.queue = m.queue /\ n.recv = m.recv
    <2>1. h \in Heaps
      BY <1>6 DEF SoundHeap
    <2> HIDE DEF P, h
    <2>2. (m.misuse \/ P) = FALSE
      BY <1>1, <1>7
    <2>3. n = [m EXCEPT !.heap = h, !.misuse = FALSE]
      BY <2>2, Zenon
    <2> HIDE DEF n
    <2> QED BY <1>1, <2>1, <2>3, SetHeap
  <1> HIDE DEF h, n
  <1>9. Addresses(n.heap) = Addresses(m.heap) \ {p}
    <2>1. \A c \in m.heap.used : c.at = p => c = b
      BY <1>2, <1>5, AddressesAre
    <2> QED BY <1>5, <1>6, <1>8, <2>1 DEF Addresses
  <1>10. OK(n, k, S \ {p})
    <2> DEFINE A == Addresses(m.heap)  E == Carried(m.events, k)  Q == ToSet(m.queue)
               d == m.recv.buf  T == S \ {p}  B == Addresses(n.heap)
    <2>1. Divided(A, E, Q, d, S) /\ S \in SUBSET Nat
      BY DEF OK
    <2>2. B = A \ {p}
      BY <1>9
    <2>3. Divided(B, E, Q, d, T) /\ T \in SUBSET Nat
      <3> HIDE DEF A, E, Q, d, B
      <3> QED BY <2>1, <2>2 DEF Divided
    <2>4. Divided(Addresses(n.heap), Carried(n.events, k), ToSet(n.queue), n.recv.buf, T)
      BY <1>8, <2>3
    <2> HIDE DEF T
    <2>5. OK(n, k, T)
      BY <1>6, <1>8, <2>3, <2>4 DEF OK, SoundHeap
    <2> QED BY <2>5 DEF T
  <1> QED BY <1>3, <1>8, <1>10

(* A buffer that the handler holds can be released, and then it no longer  *)
(* holds it; NULL can be released too.                                     *)
LEMMA FreeMaybe ==
    ASSUME NEW m, NEW k, NEW S, OK(m, k, S), NEW p \in S \union {NULL}
    PROVE  LET n == tuya_ble_free(m, p)
           IN  OK(n, k, S \ {p}) /\ n.events = m.events /\ n.queue = m.queue /\ n.recv = m.recv
  <1>1. CASE p = NULL
    <2>1. tuya_ble_free(m, p) = m
      BY <1>1 DEF tuya_ble_free
    <2>2. S \ {p} = S
      BY <1>1, HeapAssumption DEF OK
    <2> QED BY <2>1, <2>2
  <1>2. CASE p # NULL
    BY <1>2, FreeOK
  <1> QED BY <1>1, <1>2

-----------------------------------------------------------------------------
LEMMA CarriedAppend ==
    ASSUME NEW ev \in Seq(Events), NEW e \in Events, NEW k \in {1, 2}, k <= Len(ev) + 1
    PROVE  /\ Append(ev, e) \in Seq(Events) /\ k <= Len(Append(ev, e)) + 1
           /\ Carried(Append(ev, e), k) = Carried(ev, k) \union ({e.buf} \ {NULL})
           /\ \A q : Unshared(ev, k, q) /\ e.buf \notin Carried(ev, k)
                        => Unshared(Append(ev, e), k, q)
  <1> DEFINE new == Append(ev, e)  n == Len(ev)
  <1>1. /\ new \in Seq(Events) /\ Len(new) = n + 1 /\ n \in Nat
        /\ \A i \in 1 .. n : new[i] = ev[i]
        /\ new[n + 1] = e
    OBVIOUS
  <1> HIDE DEF new, n
  <1>2. k .. Len(new) = (k .. n) \union {n + 1} /\ k \in Nat /\ k >= 1 /\ k <= n + 1
    BY <1>1 DEF n
  <1>3. \A i \in k .. n : new[i] = ev[i] /\ i # n + 1
    BY <1>1, <1>2
  <1>4. Carried(new, k) = Carried(ev, k) \union ({e.buf} \ {NULL})
    <2>1. {new[i].buf : i \in k .. Len(new)} = {ev[i].buf : i \in k .. n} \union {e.buf}
      BY <1>1, <1>2, <1>3
    <2> QED BY <2>1 DEF Carried, n
  <1>5. ASSUME NEW q, Unshared(ev, k, q), e.buf \notin Carried(ev, k) PROVE Unshared(new, k, q)
    <2>1. \A i \in k .. n : e.buf # NULL => ev[i].buf # e.buf
      BY <1>5 DEF Carried, n
    <2>2. ASSUME NEW i \in k .. Len(new), NEW j \in k .. Len(new),
                 new[i].buf = new[j].buf, new[i].buf # NULL
          PROVE  i = j
      <3>1. CASE i \in k .. n /\ j \in k .. n
        BY <1>3, <1>5, <2>2, <3>1 DEF Unshared, n
      <3>2. CASE i = n + 1 /\ j \in k .. n
        BY <1>1, <1>3, <2>1, <2>2, <3>2
      <3>3. CASE j = n + 1 /\ i \in k .. n
        BY <1>1, <1>3, <2>1, <2>2, <3>3
      <3> QED BY <1>2, <3>1, <3>2, <3>3
    <2> QED BY <1>5, <2>2 DEF Unshared
  <1> QED BY <1>1, <1>2, <1>4, <1>5 DEF new, n

(* An event takes the buffer it carries from the handler.                  *)
LEMMA AppendEvent ==
    ASSUME NEW m, NEW k, NEW S, OK(m, k, S), NEW e \in Events, e.buf \in S \union {NULL}
    PROVE  LET n == [m EXCEPT !.events = Append(@, e)]
           IN  OK(n, k, S \ {e.buf}) /\ n.queue = m.queue /\ n.recv = m.recv
  <1> DEFINE ev == Append(m.events, e)
             n == [m EXCEPT !.events = ev]
  <1>1. m \in Devices /\ m.events \in Seq(Events) /\ k \in {1, 2} /\ k <= Len(m.events) + 1
        /\ S \in SUBSET Nat
    BY DEF OK, Devices
  <1>2. /\ ev \in Seq(Events) /\ k <= Len(ev) + 1
        /\ Carried(ev, k) = Carried(m.events, k) \union ({e.buf} \ {NULL})
        /\ \A q : Unshared(m.events, k, q) /\ e.buf \notin Carried(m.events, k)
                     => Unshared(ev, k, q)
    BY <1>1, CarriedAppend
  <1>3. [m EXCEPT !.events = Append(@, e)] = n
    BY <1>1 DEF Devices
  <1> HIDE DEF ev
  <1>4. /\ n \in Devices /\ n.heap = m.heap /\ n.misuse = m.misuse
        /\ n.events = ev /\ n.queue = m.queue /\ n.recv = m.recv
    BY <1>1, <1>2 DEF Devices
  <1> HIDE DEF n
  <1> DEFINE A == Addresses(m.heap)  E == Carried(m.events, k)  Q == ToSet(m.queue)
             d == m.recv.buf  T == S \ {e.buf}  C == Carried(ev, k)  p == e.buf
  <1>5. Divided(A, E, Q, d, S) /\ C = E \union ({p} \ {NULL}) /\ p \in S \union {NULL}
    BY <1>2 DEF OK
  <1>6. Divided(A, C, Q, d, T) /\ T \in SUBSET Nat /\ p \notin E
    <2>1. NULL \notin E
      BY DEF Carried
    <2>2. d # NULL \/ d = NULL
      OBVIOUS
    <2>3. T = S \ {p}
      OBVIOUS
    <2> HIDE DEF A, E, Q, d, C, p, T
    <2>4. T \in SUBSET Nat /\ p \notin E
      BY <1>1, <1>5, <2>1, <2>3 DEF Divided
    <2>5. A = C \union Q \union T \union ({d} \ {NULL})
      BY <1>1, <1>5, <2>3, HeapAssumption DEF Divided
    <2>6. C \intersect Q = {} /\ C \intersect T = {} /\ Q \intersect T = {}
      BY <1>5, <2>3 DEF Divided
    <2>7. d \notin C \union Q \union T
      BY <1>5, <2>3 DEF Divided
    <2> QED BY <2>4, <2>5, <2>6, <2>7 DEF Divided
  <1>7. Unshared(n.events, k, n.queue)
    BY <1>2, <1>4, <1>6 DEF OK
  <1>8. Divided(Addresses(n.heap), Carried(n.events, k), ToSet(n.queue), n.recv.buf, T)
    BY <1>4, <1>6
  <1> HIDE DEF T
  <1>9. OK(n, k, T)
    BY <1>1, <1>2, <1>4, <1>6, <1>7, <1>8 DEF OK
  <1> QED BY <1>3, <1>4, <1>9 DEF T

(* An event without buffer is posted, or dropped when the ring is full.    *)
LEMMA PostedOK ==
    ASSUME NEW m, NEW k, NEW S, OK(m, k, S), NEW ev \in EventName,
           NEW msg \in Message \union {NULL},
           ev \in {"BLE_CMD", "FIRST_RECEIVED"} => msg \in Message
    PROVE  OK(Posted(m, ev, msg), k, S)
  <1> DEFINE e == Event(ev, NULL, 0, msg)
  <1>1. e \in Events /\ e.buf = NULL
    BY DEF Event, Events, Pointer
  <1> HIDE DEF e
  <1>2. S \ {e.buf} = S
    BY <1>1, HeapAssumption DEF OK
  <1>3. OK([m EXCEPT !.events = Append(@, e)], k, S)
    BY <1>1, <1>2, AppendEvent
  <1> QED BY <1>3 DEF Posted, e

(* An event with buffer is posted, or dropped and its buffer released:     *)
(* either way the handler does not hold it any more.                       *)
LEMMA PostedWithOK ==
    ASSUME NEW m, NEW k, NEW S, OK(m, k, S), NEW ev \in Carriers, NEW p \in S, NEW len \in Nat,
           NEW msg \in Message \union {NULL},
           ev \in {"BLE_CMD", "FIRST_RECEIVED"} => msg \in Message
    PROVE  OK(PostedWith(m, ev, p, len, msg), k, S \ {p})
  <1> DEFINE e == Event(ev, p, len, msg)
  <1>0. p \in Nat
    BY DEF OK
  <1>1. e \in Events /\ e.buf = p
    BY <1>0 DEF Event, Events, EventName, Pointer
  <1> HIDE DEF e
  <1>3. OK([m EXCEPT !.events = Append(@, e)], k, S \ {p})
    BY <1>1, AppendEvent
  <1>4. OK(tuya_ble_free(m, p), k, S \ {p})
    BY FreeOK
  <1> QED BY <1>3, <1>4 DEF PostedWith, e

-------------------------------------------------------------------------------
(***************************************************************************)
(* The send queue.                                                         *)
(***************************************************************************)

(* The parts of a device in order.                                         *)
LEMMA DeviceIs ==
    ASSUME NEW m, NEW k, NEW S, OK(m, k, S)
    PROVE  /\ m \in Devices /\ m.queue \in Seq(Nat) /\ m.events \in Seq(Events)
           /\ m.recv \in Packets /\ m.flag \in {0, 1} /\ m.credit \in Nat /\ m.dp \in Datum
           /\ S \in SUBSET Nat /\ k \in {1, 2}
  BY DEF OK, Devices

(* Distinct *)
Distinct(L) == \A i, j \in DOMAIN L : L[i] = L[j] => i = j

(* The packets in front leave the queue. *)
LEMMA QueueBecomes ==
    ASSUME NEW m, NEW k, NEW S, OK(m, k, S), NEW n \in Devices, n.heap = m.heap,
           n.events = m.events, n.recv = m.recv, n.misuse = m.misuse,
           NEW P \in Seq(Nat), P \o n.queue = m.queue
    PROVE  OK(n, k, S \union ToSet(P)) /\ Distinct(P) /\ ToSet(P) \intersect S = {}
  <1> DEFINE Q == n.queue  M == m.queue
  <1>1. /\ Q \in Seq(Nat) /\ M \in Seq(Nat) /\ S \in SUBSET Nat
        /\ M = P \o Q
    BY DeviceIs DEF Devices
  <1>2. /\ Len(M) = Len(P) + Len(Q)
        /\ \A i \in 1 .. Len(P) : M[i] = P[i]
        /\ \A i \in 1 .. Len(Q) : M[Len(P) + i] = Q[i]
        /\ Len(P) \in Nat /\ Len(Q) \in Nat
    <2>1. Len(P) \in Nat /\ Len(Q) \in Nat
      BY <1>1
    <2> HIDE DEF Q, M
    <2>2. /\ Len(P \o Q) = Len(P) + Len(Q)
          /\ \A i \in 1 .. Len(P) : (P \o Q)[i] = P[i]
          /\ \A i \in 1 .. Len(Q) : (P \o Q)[Len(P) + i] = Q[i]
      BY <1>1, ConcatProperties
    <2> QED BY <1>1, <2>1, <2>2
  <1> HIDE DEF Q, M
  <1>3. DOMAIN P = 1 .. Len(P) /\ DOMAIN Q = 1 .. Len(Q) /\ DOMAIN M = 1 .. Len(M)
    BY <1>1
  <1>4. /\ Unshared(m.events, k, M)
        /\ Divided(Addresses(m.heap), Carried(m.events, k), ToSet(M), m.recv.buf, S)
    BY DEF OK, M
  <1>5. \A i \in DOMAIN P : i \in DOMAIN M /\ M[i] = P[i]
    BY <1>2, <1>3
  <1>6. \A i \in DOMAIN Q : Len(P) + i \in DOMAIN M /\ M[Len(P) + i] = Q[i] /\ i \in Nat
    BY <1>2, <1>3
  <1>7. Distinct(P)
    BY <1>4, <1>5 DEF Distinct, Unshared
  <1>8. \A i, j \in DOMAIN Q : Q[i] = Q[j] => i = j
    <2>1. ASSUME NEW i \in DOMAIN Q, NEW j \in DOMAIN Q, Q[i] = Q[j] PROVE i = j
      <3>1. Len(P) + i = Len(P) + j
        BY <1>4, <1>6, <2>1 DEF Unshared
      <3> QED BY <1>2, <1>6, <3>1
    <2> QED BY <2>1
  <1>9. ToSet(M) = ToSet(P) \union ToSet(Q)
    <2>1. ASSUME NEW i \in DOMAIN M PROVE M[i] \in ToSet(P) \union ToSet(Q)
      <3>1. CASE i <= Len(P)
        BY <1>2, <1>3, <3>1 DEF ToSet
      <3>2. CASE i > Len(P)
        <4>1. i - Len(P) \in DOMAIN Q /\ Len(P) + (i - Len(P)) = i
          BY <1>2, <1>3, <3>2
        <4> QED BY <1>6, <4>1 DEF ToSet
      <3> QED BY <1>2, <1>3, <3>1, <3>2
    <2> QED BY <1>5, <1>6, <2>1 DEF ToSet
  <1>10. ToSet(P) \intersect ToSet(Q) = {}
    <2>1. ASSUME NEW i \in DOMAIN P, NEW j \in DOMAIN Q, P[i] = Q[j] PROVE FALSE
      <3>1. i = Len(P) + j
        BY <1>4, <1>5, <1>6, <2>1 DEF Unshared
      <3> QED BY <1>2, <1>3, <3>1
    <2> QED BY <2>1 DEF ToSet
  <1>11. ToSet(P) \in SUBSET Nat
    BY ElementOfSeq, <1>3 DEF ToSet
  <1> DEFINE A == Addresses(m.heap)  E == Carried(m.events, k)  d == m.recv.buf
             V == ToSet(P)  W == ToSet(Q)  U == ToSet(M)  T == S \union V
  <1>12. Divided(A, E, W, d, T) /\ T \in SUBSET Nat /\ V \intersect S = {}
    <2>1. U = V \union W /\ V \intersect W = {} /\ Divided(A, E, U, d, S) /\ V \in SUBSET Nat
      BY <1>4, <1>9, <1>10, <1>11
    <2>2. T = S \union V
      OBVIOUS
    <2> HIDE DEF A, E, d, V, W, U, T
    <2> QED BY <1>1, <2>1, <2>2 DEF Divided
  <1>13. Divided(Addresses(n.heap), Carried(n.events, k), ToSet(n.queue), n.recv.buf, T)
    BY <1>12 DEF Q
  <1>14. Unshared(n.events, k, n.queue)
    BY <1>4, <1>8 DEF Unshared, Q
  <1> HIDE DEF T
  <1>15. OK(n, k, T)
    BY <1>12, <1>13, <1>14 DEF OK
  <1> QED BY <1>7, <1>12, <1>15 DEF T

(* The first i packets of the send queue become the handler's.             *)
LEMMA QueueSplit ==
    ASSUME NEW m, NEW k, NEW S, OK(m, k, S), NEW i \in 0 .. Len(m.queue), i <= m.credit
    PROVE  LET P == SubSeq(m.queue, 1, i)
               Q == SubSeq(m.queue, i + 1, Len(m.queue))
               n == [m EXCEPT !.queue = Q, !.credit = @ - i]
           IN  /\ P \in Seq(Nat) /\ Distinct(P) /\ ToSet(P) \intersect S = {}
               /\ OK(n, k, S \union ToSet(P)) /\ n.queue = Q
  <1> DEFINE P == SubSeq(m.queue, 1, i)
             Q == SubSeq(m.queue, i + 1, Len(m.queue))
             n == [m EXCEPT !.queue = Q, !.credit = @ - i]
  <1>1. m \in Devices /\ m.queue \in Seq(Nat) /\ m.credit \in Nat
    BY DeviceIs
  <1>2. P \in Seq(Nat) /\ Q \in Seq(Nat) /\ P \o Q = m.queue
    BY <1>1, Parts
  <1>3. m.credit - i \in Nat
    BY <1>1
  <1> HIDE DEF P, Q
  <1>4. /\ n \in Devices /\ n.heap = m.heap /\ n.misuse = m.misuse
        /\ n.events = m.events /\ n.queue = Q /\ n.recv = m.recv
    BY <1>1, <1>2, <1>3 DEF Devices
  <1> HIDE DEF n
  <1>5. P \o n.queue = m.queue
    BY <1>2, <1>4
  <1>6. OK(n, k, S \union ToSet(P)) /\ Distinct(P) /\ ToSet(P) \intersect S = {}
    BY <1>2, <1>4, <1>5, QueueBecomes
  <1> QED BY <1>2, <1>4, <1>6 DEF P, Q, n

(* The whole send queue becomes the handler's.                             *)
LEMMA QueueEmptied ==
    ASSUME NEW m, NEW k, NEW S, OK(m, k, S)
    PROVE  LET P == m.queue
               n == [m EXCEPT !.queue = <<>>, !.flag = 0]
           IN  /\ P \in Seq(Nat) /\ Distinct(P) /\ ToSet(P) \intersect S = {}
               /\ OK(n, k, S \union ToSet(P))
  <1> DEFINE P == m.queue
             n == [m EXCEPT !.queue = <<>>, !.flag = 0]
  <1>1. m \in Devices /\ P \in Seq(Nat) /\ <<>> \in Seq(Nat)
    BY DeviceIs
  <1> HIDE DEF P
  <1>2. /\ n \in Devices /\ n.heap = m.heap /\ n.misuse = m.misuse
        /\ n.events = m.events /\ n.queue = <<>> /\ n.recv = m.recv
    BY <1>1 DEF Devices
  <1> HIDE DEF n
  <1>3. P \o n.queue = m.queue
    BY <1>1, <1>2, ConcatEmptySeq DEF P
  <1> QED BY <1>1, <1>2, <1>3, QueueBecomes DEF n, P

(* A packet the handler holds goes to the send queue.                      *)
LEMMA QueueAppend ==
    ASSUME NEW m, NEW k, NEW S, OK(m, k, S), NEW p \in S
    PROVE  LET n == [m EXCEPT !.queue = Append(@, p), !.flag = 1]
           IN  OK(n, k, S \ {p})
  <1> DEFINE Q == Append(m.queue, p)
             n == [m EXCEPT !.queue = Q, !.flag = 1]
  <1>1. m \in Devices /\ m.queue \in Seq(Nat) /\ S \in SUBSET Nat /\ p \in Nat
    BY DeviceIs
  <1>2. /\ Q \in Seq(Nat) /\ Len(Q) = Len(m.queue) + 1 /\ Len(m.queue) \in Nat
        /\ \A i \in 1 .. Len(m.queue) : Q[i] = m.queue[i]
        /\ Q[Len(m.queue) + 1] = p
        /\ DOMAIN Q = 1 .. Len(Q) /\ DOMAIN m.queue = 1 .. Len(m.queue)
    BY <1>1
  <1>0. n = [m EXCEPT !.queue = Append(@, p), !.flag = 1]
    BY <1>1 DEF Devices
  <1> HIDE DEF Q
  <1>3. /\ n \in Devices /\ n.heap = m.heap /\ n.misuse = m.misuse
        /\ n.events = m.events /\ n.queue = Q /\ n.recv = m.recv
    BY <1>1, <1>2 DEF Devices
  <1> HIDE DEF n
  <1>4. Unshared(m.events, k, m.queue)
        /\ Divided(Addresses(m.heap), Carried(m.events, k), ToSet(m.queue), m.recv.buf, S)
    BY DEF OK
  <1>5. ToSet(Q) = ToSet(m.queue) \union {p}
    <2>1. \A i \in DOMAIN Q : i \in DOMAIN m.queue \/ i = Len(m.queue) + 1
      BY <1>2
    <2>2. \A i \in DOMAIN m.queue : i \in DOMAIN Q /\ Q[i] = m.queue[i]
      BY <1>2
    <2>3. Len(m.queue) + 1 \in DOMAIN Q
      BY <1>2
    <2> QED BY <1>2, <2>1, <2>2, <2>3 DEF ToSet
  <1>6. p \notin ToSet(m.queue)
    BY <1>4 DEF Divided
  <1>7. \A i, j \in DOMAIN Q : Q[i] = Q[j] => i = j
    <2>1. ASSUME NEW i \in DOMAIN Q, NEW j \in DOMAIN Q, Q[i] = Q[j] PROVE i = j
      <3>1. \A l \in DOMAIN m.queue : m.queue[l] # p
        BY <1>6 DEF ToSet
      <3>2. CASE i \in DOMAIN m.queue /\ j \in DOMAIN m.queue
        <4>1. m.queue[i] = m.queue[j]
          BY <1>2, <2>1, <3>2
        <4> QED BY <1>4, <3>2, <4>1 DEF Unshared
      <3>3. i \in DOMAIN m.queue \/ i = Len(m.queue) + 1
        BY <1>2
      <3>4. j \in DOMAIN m.queue \/ j = Len(m.queue) + 1
        BY <1>2
      <3> QED BY <1>2, <2>1, <3>1, <3>2, <3>3, <3>4
    <2> QED BY <2>1
  <1> DEFINE A == Addresses(m.heap)  E == Carried(m.events, k)  d == m.recv.buf
             V == ToSet(m.queue)  W == ToSet(Q)  T == S \ {p}
  <1>8. Divided(A, E, W, d, T) /\ T \in SUBSET Nat
    <2>1. W = V \union {p} /\ Divided(A, E, V, d, S) /\ T = S \ {p}
      BY <1>4, <1>5
    <2> HIDE DEF A, E, d, V, W, T
    <2> QED BY <1>1, <2>1 DEF Divided
  <1>9. Divided(Addresses(n.heap), Carried(n.events, k), ToSet(n.queue), n.recv.buf, T)
    BY <1>3, <1>8
  <1>10. Unshared(n.events, k, n.queue)
    BY <1>3, <1>4, <1>7 DEF Unshared
  <1> HIDE DEF T
  <1>11. OK(n, k, T)
    BY <1>3, <1>8, <1>9, <1>10 DEF OK
  <1> QED BY <1>0, <1>11 DEF T

(* The first i buffers of a list, and what a handler has left without      *)
(* them.                                                                   *)
FreedUpTo(L, i) == {L[j] : j \in 1 .. i}
Kept(S, L, i) == S \ FreedUpTo(L, i)

(* What an allocation or a release leaves alone.                           *)
Beside(m, n) == n.events = m.events /\ n.queue = m.queue /\ n.recv = m.recv

(* One more buffer of a list is released.                                  *)
LEMMA FreedNext ==
    ASSUME NEW L \in Seq(Nat), Distinct(L), NEW S, ToSet(L) \in SUBSET S, NEW i \in DOMAIN L,
           NEW h, h = i - 1, NEW x, NEW k, OK(x, k, Kept(S, L, h))
    PROVE  LET y == tuya_ble_free(x, L[i])
           IN  y \in Devices /\ OK(y, k, Kept(S, L, i)) /\ Beside(x, y)
  <1> DEFINE G == Kept(S, L, h)  p == L[i]
  <1>0. DOMAIN L = 1 .. Len(L) /\ Len(L) \in Nat
    OBVIOUS
  <1>1. p \in S /\ p \notin FreedUpTo(L, h)
    <2>1. p \in S
      BY DEF ToSet
    <2>2. \A j \in 1 .. i - 1 : j \in DOMAIN L /\ i # j
      BY <1>0
    <2> QED BY <2>1, <2>2 DEF FreedUpTo, Distinct
  <1>2. G \ {p} = Kept(S, L, i)
    <2>1. \A j \in 1 .. i : j = i \/ j \in 1 .. i - 1
      BY <1>0
    <2>2. i \in 1 .. i /\ \A j \in 1 .. i - 1 : j \in 1 .. i
      BY <1>0
    <2>3. FreedUpTo(L, i) = FreedUpTo(L, h) \union {L[i]}
      BY <2>1, <2>2 DEF FreedUpTo
    <2> QED BY <2>3 DEF Kept
  <1>3. OK(x, k, G) /\ p \in G
    BY <1>1 DEF Kept
  <1> HIDE DEF G, p
  <1>4. OK(tuya_ble_free(x, p), k, G \ {p}) /\ Beside(x, tuya_ble_free(x, p))
    BY <1>3, FreeOK DEF Beside
  <1>5. tuya_ble_free(x, p) \in Devices
    BY <1>4, DeviceIs
  <1> QED BY <1>2, <1>4, <1>5 DEF p

(* All buffers of a list are released.                                     *)
LEMMA FreeAllOK ==
    ASSUME NEW m, NEW k, NEW S, OK(m, k, S), NEW L \in Seq(Nat), Distinct(L), ToSet(L) \in SUBSET S
    PROVE  OK(FreeAll(m, L), k, S \ ToSet(L)) /\ Beside(m, FreeAll(m, L))
  <1> DEFINE n == Len(L)
             R == [i \in 0 .. n |-> {x \in Devices : OK(x, k, Kept(S, L, i)) /\ Beside(m, x)}]
             step == [xi \in Devices \X (1 .. n) |-> tuya_ble_free(xi[1], L[xi[2]])]
             Rec(h) == h = [i \in 0 .. n |-> IF i = 0 THEN m ELSE tuya_ble_free(h[i - 1], L[i])]
  <1>1. n \in Nat /\ DOMAIN L = 1 .. n /\ m \in Devices
    BY DeviceIs
  <1>2. FreeAll(m, L) = (CHOOSE h : Rec(h))[n]
    BY Zenon DEF FreeAll
  <1> HIDE DEF n
  <1>3. Kept(S, L, 0) = S /\ Kept(S, L, n) = S \ ToSet(L)
    BY <1>1 DEF FreedUpTo, ToSet, Kept
  <1>4. ASSUME NEW i \in 1 .. n, NEW x, OK(x, k, Kept(S, L, i - 1)), Beside(m, x)
        PROVE  LET y == tuya_ble_free(x, L[i])
               IN  y \in Devices /\ OK(y, k, Kept(S, L, i)) /\ Beside(m, y)
    <2>1. i \in DOMAIN L
      BY <1>1
    <2> DEFINE h == i - 1
    <2>2. h = i - 1 /\ OK(x, k, Kept(S, L, h))
      BY <1>4
    <2> HIDE DEF h
    <2>3. LET y == tuya_ble_free(x, L[i])
          IN  y \in Devices /\ OK(y, k, Kept(S, L, i)) /\ Beside(x, y)
      BY <2>1, <2>2, FreedNext
    <2> QED BY <1>4, <2>3 DEF Beside
  <1>5. ASSUME NEW i \in 1 .. n, NEW x \in R[i - 1]
        PROVE  step[<<x, i>>] \in R[i] /\ step[<<x, i>>] = tuya_ble_free(x, L[i])
    <2>1. i - 1 \in 0 .. n /\ i \in 0 .. n
      BY <1>1
    <2>2. x \in Devices /\ OK(x, k, Kept(S, L, i - 1)) /\ Beside(m, x)
      BY <1>5, <2>1
    <2>3. step[<<x, i>>] = tuya_ble_free(x, L[i])
      BY <2>2
    <2>4. tuya_ble_free(x, L[i]) \in R[i]
      BY <1>4, <2>1, <2>2
    <2> QED BY <2>3, <2>4
  <1>6. m \in R[0]
    <2>1. 0 \in 0 .. n /\ Kept(S, L, 0) = S
      BY <1>1, <1>3
    <2> QED BY <1>1, <2>1 DEF Beside
  <1>7. R[n] = {x \in Devices : OK(x, k, S \ ToSet(L)) /\ Beside(m, x)}
    <2>1. n \in 0 .. n
      BY <1>1
    <2> QED BY <1>3, <2>1
  <1>8. \A i \in 0 .. n : i = 0 \/ (i \in 1 .. n /\ i - 1 \in 0 .. n)
    BY <1>1
  <1>9. 0 \in 0 .. n /\ n \in 0 .. n
    BY <1>1
  <1> HIDE DEF R, step
  <1>10. PICK h : Iteration(n, m, step, h) /\ StaysIn(n, R, h)
    <2>1. Leads(n, step, R)
      BY <1>5 DEF Leads
    <2> QED BY <1>1, <1>6, <2>1, Iterated
  <1>11. \A i \in 1 .. n : step[<<h[i - 1], i>>] = tuya_ble_free(h[i - 1], L[i])
    BY <1>1, <1>5, <1>10 DEF StaysIn
  <1>12. Rec(h)
    <2> DEFINE g == [i \in 0 .. n |-> IF i = 0 THEN m ELSE tuya_ble_free(h[i - 1], L[i])]
    <2>1. \A i \in 0 .. n : h[i] = g[i]
      BY <1>8, <1>10, <1>11 DEF Iteration
    <2> QED BY <1>10, <2>1 DEF Iteration
  <1> DEFINE f == CHOOSE f : Rec(f)
  <1>13. Rec(f)
    <2> HIDE DEF Rec
    <2> QED BY <1>12
  <1> HIDE DEF f
  <1>14. f[0] = m /\ \A i \in 1 .. n : f[i] = tuya_ble_free(f[i - 1], L[i])
    BY <1>1, <1>13
  <1> HIDE DEF Rec
  <1>15. f[n] \in R[n]
    <2> DEFINE T == {i \in 0 .. n : f[i] \in R[i]}
    <2>1. 0 \in T
      BY <1>6, <1>9, <1>14
    <2>2. ASSUME NEW i \in 1 .. n, i - 1 \in T PROVE i \in T
      <3>1. f[i - 1] \in R[i - 1]
        BY <2>2
      <3>2. f[i] \in R[i]
        BY <1>5, <1>14, <3>1
      <3> QED BY <1>1, <3>2
    <2> HIDE DEF T
    <2>3. \A i \in 0 .. n : i \in T
      BY <1>1, <2>1, <2>2, Induction
    <2> QED BY <1>9, <2>3 DEF T
  <1> QED BY <1>2, <1>7, <1>15 DEF f

(* The smaller of two numbers.                                             *)
LEMMA MinOfTwo ==
    ASSUME NEW a \in Nat, NEW b \in Nat
    PROVE  LET c == Min({a, b}) IN c \in Nat /\ c <= a /\ c <= b
  <1>1. \E x \in {a, b} : \A y \in {a, b} : x <= y
    OBVIOUS
  <1> QED BY <1>1 DEF Min

(* Sending: the packets that go out are released.                          *)
LEMMA GattSendOK ==
    ASSUME NEW m, NEW k, NEW S, OK(m, k, S)
    PROVE  OK(tuya_ble_gatt_send_data_handle(m), k, S)
  <1> DEFINE n == IF m.status = "unconn" THEN 0 ELSE Min({Len(m.queue), m.credit})
             P == SubSeq(m.queue, 1, n)
             rest == SubSeq(m.queue, n + 1, Len(m.queue))
             taken == [m EXCEPT !.queue = rest, !.credit = @ - n]
             sent == FreeAll(taken, P)
             given_up == [sent EXCEPT !.queue = <<>>, !.flag = 0]
  <1>1. m.queue \in Seq(Nat) /\ m.credit \in Nat /\ S \in SUBSET Nat
    BY DeviceIs
  <1>2. n \in 0 .. Len(m.queue) /\ n <= m.credit
    <2>1. Len(m.queue) \in Nat
      BY <1>1
    <2> QED BY <1>1, <2>1, MinOfTwo
  <1> HIDE DEF n
  <1>3. /\ P \in Seq(Nat) /\ Distinct(P) /\ ToSet(P) \intersect S = {}
        /\ OK(taken, k, S \union ToSet(P)) /\ taken.queue = rest
    BY <1>2, QueueSplit
  <1> HIDE DEF P, taken
  <1>4. OK(sent, k, S) /\ Beside(taken, sent)
    <2> DEFINE T == S \union ToSet(P)
    <2>1. ToSet(P) \in SUBSET T /\ OK(taken, k, T) /\ T \ ToSet(P) = S
      BY <1>3
    <2> HIDE DEF T
    <2> QED BY <1>3, <2>1, FreeAllOK
  <1> HIDE DEF sent
  <1>5. OK(Posted(sent, "GATT_SEND_DATA", NULL), k, S)
    <2>1. "GATT_SEND_DATA" \in EventName /\ "GATT_SEND_DATA" \notin {"BLE_CMD", "FIRST_RECEIVED"}
      BY DEF EventName
    <2>2. NULL \in Message \union {NULL}
      OBVIOUS
    <2> QED BY <1>4, <2>1, <2>2, PostedOK
  <1>6. OK(FreeAll(given_up, rest), k, S)
    <2> DEFINE T == S \union ToSet(rest)
    <2>1. sent.queue = rest
      BY <1>3, <1>4 DEF Beside
    <2>2. /\ rest \in Seq(Nat) /\ Distinct(rest) /\ ToSet(rest) \intersect S = {}
          /\ OK(given_up, k, S \union ToSet(rest))
      <3> HIDE DEF rest
      <3> QED BY <1>4, <2>1, QueueEmptied
    <2> HIDE DEF rest, given_up
    <2>3. ToSet(rest) \in SUBSET T /\ OK(given_up, k, T) /\ T \ ToSet(rest) = S
      BY <2>2
    <2> HIDE DEF T
    <2> QED BY <2>2, <2>3, FreeAllOK
  <1> HIDE DEF rest, given_up
  <1>7. tuya_ble_gatt_send_data_handle(m) =
           IF rest # <<>> /\ m.status # "unconn" /\ ~EventsFull(m)
           THEN Posted(sent, "GATT_SEND_DATA", NULL)
           ELSE FreeAll(given_up, rest)
    BY Zenon DEF tuya_ble_gatt_send_data_handle, n, P, rest, taken, sent, given_up
  <1> QED BY <1>5, <1>6, <1>7

(* A packet is allocated and queued, or dropped and released.              *)
LEMMA EnqueueOK ==
    ASSUME NEW m, NEW k, NEW S, OK(m, k, S), NEW size \in Nat
    PROVE  OK(tuya_ble_gatt_send_data_enqueue(m, size), k, S)
  <1> DEFINE r == tuya_ble_malloc(m, size, size)
             n == r.m
             buf == r.ptr
             q == [n EXCEPT !.queue = Append(@, buf), !.flag = 1]
  <1>1. \/ r.ptr = NULL /\ r.m = m
        \/ /\ r.ptr # NULL /\ r.ptr \in Nat \ S /\ OK(r.m, k, S \union {r.ptr})
    BY MallocOK
  <1>2. tuya_ble_gatt_send_data_enqueue(m, size) =
          IF r.ptr = NULL THEN r.m
          ELSE IF Len(n.queue) = QueueSize THEN tuya_ble_free(n, buf)
          ELSE IF n.flag = 0 THEN tuya_ble_gatt_send_data_handle(q) ELSE q
    BY Zenon DEF tuya_ble_gatt_send_data_enqueue, WithBuffer, Either, Same
  <1> HIDE DEF r
  <1>3. CASE r.ptr = NULL
    BY <1>1, <1>2, <1>3
  <1>4. CASE r.ptr # NULL
    <2> DEFINE T == S \union {buf}
    <2>1. OK(n, k, T) /\ buf \in T /\ T \ {buf} = S
      BY <1>1, <1>4
    <2> HIDE DEF T, n, buf
    <2>2. OK(tuya_ble_free(n, buf), k, S)
      BY <2>1, FreeOK
    <2>3. OK(q, k, S)
      BY <2>1, QueueAppend
    <2> HIDE DEF q
    <2>4. OK(tuya_ble_gatt_send_data_handle(q), k, S)
      BY <2>3, GattSendOK
    <2> QED BY <1>2, <1>4, <2>2, <2>3, <2>4
  <1> QED BY <1>3, <1>4

(* Padding to the length of a cipher block.                                *)
LEMMA PaddedIs == ASSUME NEW n \in Nat PROVE Padded(n) \in Nat /\ Padded(n) >= n
  <1> DEFINE a == n + 15  q == a \div 16  r == a % 16
  <1>1. a \in Int /\ 16 \in Nat \ {0}
    OBVIOUS
  <1>2. q \in Int /\ r \in 0 .. 16 - 1 /\ a = 16 * q + r
    <2> HIDE DEF a
    <2> QED BY <1>1, DivMod
  <1>3. Padded(n) = q * 16
    BY DEF Padded
  <1> HIDE DEF q, r
  <1> QED BY <1>2, <1>3

(* The sizes of the packets of a message.                                  *)
LEMMA PacketSizesAre ==
    ASSUME NEW total \in Nat PROVE PacketSizes(total) \in Seq(Nat)
  <1> DEFINE first == IF total < 128 THEN 17 ELSE 16
             t == total - first
             more == IF total <= first THEN 0 ELSE (total - first + 18) \div 19
             size(i) == IF i <= more THEN 20
                        ELSE IF more = 0 THEN 20 - first + total
                        ELSE total - first - 19 * (more - 1) + 1
             sizes == [i \in 1 .. more + 1 |-> size(i)]
  <1>1. first \in {16, 17}
    OBVIOUS
  <1> HIDE DEF first
  <1>2. more \in Nat /\ (more # 0 => total - first - 19 * (more - 1) + 1 \in Nat)
    <2>1. CASE total <= first
      BY <2>1
    <2>2. CASE ~(total <= first)
      <3> DEFINE a == total - first + 18  q == a \div 19  r == a % 19
      <3>1. a \in Int /\ 19 \in Nat \ {0} /\ a > 18
        BY <1>1, <2>2
      <3>2. q \in Int /\ r \in 0 .. 19 - 1 /\ a = 19 * q + r
        <4> HIDE DEF a
        <4> QED BY <3>1, DivMod
      <3>3. more = q
        BY <2>2
      <3>4. q \in Nat /\ total - first - 19 * (q - 1) + 1 \in Nat
        <4> HIDE DEF q, r
        <4> QED BY <1>1, <3>1, <3>2
      <3> HIDE DEF q, more
      <3> QED BY <3>3, <3>4
    <2> QED BY <2>1, <2>2
  <1> HIDE DEF more
  <1>3. \A i \in 1 .. more + 1 : size(i) \in Nat
    BY <1>1, <1>2
  <1> HIDE DEF size
  <1>4. sizes \in Seq(Nat)
    <2>1. more + 1 \in Nat /\ sizes \in [1 .. more + 1 -> Nat]
      BY <1>2, <1>3
    <2> QED BY <2>1
  <1>5. PacketSizes(total) = sizes
    BY Zenon DEF PacketSizes, sizes, size, more, first
  <1> QED BY <1>4, <1>5

(* The end of a recursion whose step leads from each set to the next.      *)
LEMMA Followed ==
    ASSUME NEW n \in Nat, NEW S, NEW step, Leads(n, step, S), NEW f, f[0] \in S[0],
           \A i \in 1 .. n : f[i - 1] \in S[i - 1] => f[i] = step[<<f[i - 1], i>>]
    PROVE  f[n] \in S[n]
  <1> DEFINE T == {i \in 0 .. n : f[i] \in S[i]}
  <1>1. 0 \in T
    OBVIOUS
  <1>2. ASSUME NEW i \in 1 .. n, i - 1 \in T PROVE i \in T
    <2>1. f[i - 1] \in S[i - 1] /\ i \in 0 .. n
      BY <1>2
    <2> QED BY <2>1 DEF Leads
  <1> HIDE DEF T
  <1>3. \A i \in 0 .. n : i \in T
    BY <1>1, <1>2, Induction
  <1>4. n \in 0 .. n
    OBVIOUS
  <1> QED BY <1>3, <1>4 DEF T

(* All packets of a message are queued, as far as memory and the queue     *)
(* allow.                                                                  *)
LEMMA packetsOK ==
    ASSUME NEW m, NEW k, NEW S, OK(m, k, S), NEW total \in Nat
    PROVE  OK(packets(m, total), k, S)
  <1> DEFINE L == PacketSizes(total)
             n == Len(L)
             set == {x \in Devices : OK(x, k, S)}
             R == [i \in 0 .. n |-> set]
             step == [xi \in set \X (1 .. n) |-> tuya_ble_gatt_send_data_enqueue(xi[1], L[xi[2]])]
             Rec(h) == h = [i \in 0 .. n |-> IF i = 0 THEN m
                                             ELSE tuya_ble_gatt_send_data_enqueue(h[i - 1], L[i])]
  <1>1. n \in Nat /\ \A i \in 1 .. n : L[i] \in Nat
    <2>1. L \in Seq(Nat)
      BY PacketSizesAre
    <2> HIDE DEF L
    <2> QED BY <2>1, ElementOfSeq
  <1>2. packets(m, total) = (CHOOSE h : Rec(h))[n]
    BY Zenon DEF packets
  <1> HIDE DEF n, L
  <1>3. ASSUME NEW x \in set, NEW i \in 1 .. n
        PROVE  tuya_ble_gatt_send_data_enqueue(x, L[i]) \in set
    <2>1. OK(x, k, S) /\ L[i] \in Nat
      BY <1>1
    <2>2. OK(tuya_ble_gatt_send_data_enqueue(x, L[i]), k, S)
      BY <2>1, EnqueueOK
    <2>3. tuya_ble_gatt_send_data_enqueue(x, L[i]) \in Devices
      BY <2>2, DeviceIs
    <2> QED BY <2>2, <2>3
  <1>4. m \in set
    BY DeviceIs
  <1> HIDE DEF set
  <1>5. ASSUME NEW i \in 1 .. n, NEW x \in R[i - 1]
        PROVE  /\ step[<<x, i>>] \in R[i]
               /\ step[<<x, i>>] = tuya_ble_gatt_send_data_enqueue(x, L[i])
    <2>1. i - 1 \in 0 .. n /\ i \in 0 .. n /\ x \in set
      BY <1>1, <1>5
    <2> QED BY <1>3, <2>1
  <1>6. /\ 0 \in 0 .. n /\ n \in 0 .. n /\ R[0] = set /\ R[n] = set
        /\ \A i \in 0 .. n : i = 0 \/ (i \in 1 .. n /\ i - 1 \in 0 .. n)
    BY <1>1
  <1> HIDE DEF R, step
  <1>7. Leads(n, step, R)
    BY <1>5 DEF Leads
  <1>8. PICK h : Iteration(n, m, step, h) /\ StaysIn(n, R, h)
    BY <1>1, <1>4, <1>6, <1>7, Iterated
  <1>9. \A i \in 1 .. n : step[<<h[i - 1], i>>] = tuya_ble_gatt_send_data_enqueue(h[i - 1], L[i])
    BY <1>1, <1>5, <1>8 DEF StaysIn
  <1>10. Rec(h)
    <2> DEFINE g == [i \in 0 .. n |-> IF i = 0 THEN m
                                      ELSE tuya_ble_gatt_send_data_enqueue(h[i - 1], L[i])]
    <2>1. \A i \in 0 .. n : h[i] = g[i]
      BY <1>6, <1>8, <1>9 DEF Iteration
    <2> QED BY <1>8, <2>1 DEF Iteration
  <1> DEFINE f == CHOOSE f : Rec(f)
  <1>11. Rec(f)
    <2> HIDE DEF Rec
    <2> QED BY <1>10
  <1> HIDE DEF f
  <1>12. f[0] = m /\ \A i \in 1 .. n : f[i] = tuya_ble_gatt_send_data_enqueue(f[i - 1], L[i])
    BY <1>1, <1>11
  <1> HIDE DEF Rec
  <1>13. f[n] \in R[n]
    <2>1. \A i \in 1 .. n : f[i - 1] \in R[i - 1] => f[i] = step[<<f[i - 1], i>>]
      BY <1>5, <1>12
    <2> QED BY <1>1, <1>4, <1>6, <1>7, <1>12, <2>1, Followed
  <1> QED BY <1>2, <1>6, <1>13 DEF f, set

(* A message is sent, or given up for want of memory: its two buffers are  *)
(* released.                                                               *)
LEMMA SendOK ==
    ASSUME NEW m, NEW k, NEW S, OK(m, k, S), NEW len \in Nat, NEW en_len \in Nat
    PROVE  OK(tuya_ble_commData_send(m, len, en_len), k, S)
  <1> DEFINE temp_len == Padded(14 + len)
             refused == \/ m.status = "unconn"
                        \/ len > TUYA_BLE_AIR_FRAME_MAX - 29
                        \/ temp_len > TUYA_BLE_AIR_FRAME_MAX - en_len
             r == tuya_ble_malloc(m, temp_len, 14 + len)
             s == tuya_ble_malloc(r.m, temp_len + en_len, temp_len + en_len)
             sent == tuya_ble_free(s.m, r.ptr)
             done == IF s.m.encrypts THEN packets(sent, en_len + temp_len) ELSE sent
  <1>1. temp_len \in Nat /\ temp_len >= 14 + len /\ 14 + len \in Nat
    BY PaddedIs
  <1>2. tuya_ble_commData_send(m, len, en_len) =
          IF refused THEN m
          ELSE IF r.ptr = NULL THEN r.m
          ELSE IF s.ptr = NULL THEN tuya_ble_free(s.m, r.ptr)
          ELSE tuya_ble_free(done, s.ptr)
    BY Zenon DEF tuya_ble_commData_send, Sends, WithBuffer, Either, Same
  <1> HIDE DEF temp_len
  <1>3. \/ r.ptr = NULL /\ r.m = m
        \/ /\ r.ptr # NULL /\ r.ptr \in Nat \ S /\ OK(r.m, k, S \union {r.ptr})
    BY <1>1, MallocOK
  <1> HIDE DEF r, refused
  <1>4. CASE r.ptr # NULL
    <2> DEFINE p == r.ptr  T == S \union {p}  n == r.m
    <2>1. OK(n, k, T) /\ p \in T /\ T \ {p} = S
      BY <1>3, <1>4
    <2> HIDE DEF T, p, n
    <2>2. \/ s.ptr = NULL /\ s.m = n
          \/ /\ s.ptr # NULL /\ s.ptr \in Nat \ T /\ OK(s.m, k, T \union {s.ptr})
      <3> DEFINE w == temp_len + en_len
      <3>1. w \in Nat /\ w <= w
        BY <1>1
      <3>2. s = tuya_ble_malloc(n, w, w)
        BY DEF n
      <3> HIDE DEF s, w
      <3>3. LET a == tuya_ble_malloc(n, w, w)
            IN  \/ a.ptr = NULL /\ a.m = n
                \/ /\ a.ptr # NULL /\ a.ptr \in Nat \ T /\ OK(a.m, k, T \union {a.ptr})
                   /\ a.m.events = n.events /\ a.m.queue = n.queue /\ a.m.recv = n.recv
        BY <2>1, <3>1, MallocOK
      <3> QED BY <3>2, <3>3
    <2> HIDE DEF s
    <2>3. CASE s.ptr = NULL
      <3>1. OK(tuya_ble_free(n, p), k, S)
        BY <2>1, FreeOK
      <3> QED BY <1>2, <1>3, <1>4, <2>2, <2>3, <3>1 DEF n, p
    <2>4. CASE s.ptr # NULL
      <3> DEFINE q == s.ptr  U == T \union {q}  V == U \ {p}  x == s.m
      <3>1. OK(x, k, U) /\ p \in U /\ q \in V /\ V \ {q} = S
        BY <2>1, <2>2, <2>4
      <3> HIDE DEF U, q, x
      <3>2. OK(tuya_ble_free(x, p), k, V)
        BY <3>1, FreeOK
      <3>3. sent = tuya_ble_free(x, p)
        BY DEF x, p
      <3> HIDE DEF V, sent
      <3>4. OK(sent, k, V)
        BY <3>2, <3>3
      <3>5. en_len + temp_len \in Nat
        BY <1>1
      <3>6. OK(done, k, V)
        BY <3>4, <3>5, packetsOK
      <3> HIDE DEF done
      <3>7. OK(tuya_ble_free(done, q), k, S)
        BY <3>1, <3>6, FreeOK
      <3> QED BY <1>2, <1>3, <1>4, <2>4, <3>7 DEF q
    <2> QED BY <2>3, <2>4
  <1> QED BY <1>2, <1>3, <1>4

-------------------------------------------------------------------------------
(***************************************************************************)
(* The key-length-value list.                                              *)
(***************************************************************************)

(* Nodes of the key-length-value list: a block of its own and one for the  *)
(* value.                                                                  *)
Node == [at : Nat, data : Pointer]
(* The buffers of a node.                                                  *)
Of(nd) == {nd.at, nd.data} \ {NULL}
(* No two nodes share a buffer.                                            *)
Separate(L) == /\ \A i \in DOMAIN L : L[i].at # L[i].data
            /\ \A i, j \in DOMAIN L : i # j => Of(L[i]) \intersect Of(L[j]) = {}
(* The buffers of the first i nodes, of all, and what a handler has left   *)
(* without the first i.                                                    *)
HeldUpTo(L, i) == UNION {Of(L[j]) : j \in 1 .. i}
Holds(L) == HeldUpTo(L, Len(L))
StillHeld(S, L, i) == S \ HeldUpTo(L, i)

(* A node released: its value, then itself.                                *)
NodeFreed(x, nd) == tuya_ble_free(tuya_ble_free(x, nd.data), nd.at)

(* A node can be released when the handler holds both of its buffers.      *)
LEMMA NodeFreedOK ==
    ASSUME NEW x, NEW k, NEW G, OK(x, k, G), NEW nd \in Node, nd.at # nd.data,
           Of(nd) \in SUBSET G
    PROVE  OK(NodeFreed(x, nd), k, G \ Of(nd))
  <1> DEFINE p == nd.data  q == nd.at  H == G \ {p}  y == tuya_ble_free(x, p)
  <1>1. p \in G \union {NULL} /\ q \in Nat /\ q # NULL
    BY HeapAssumption DEF Node, Pointer, Of
  <1>2. q \in H /\ H \ {q} = G \ Of(nd)
    <2>1. G \in SUBSET Nat
      BY DeviceIs
    <2> QED BY <1>1, <2>1, HeapAssumption DEF Of
  <1> HIDE DEF p, q
  <1>3. OK(y, k, H)
    BY <1>1, FreeMaybe
  <1> HIDE DEF y, H
  <1>4. OK(tuya_ble_free(y, q), k, H \ {q})
    BY <1>2, <1>3, FreeOK
  <1> QED BY <1>2, <1>4 DEF NodeFreed, y, p, q

(* One more node of a list is released.                                    *)
LEMMA NodesFreedNext ==
    ASSUME NEW L \in Seq(Node), Separate(L), NEW S, Holds(L) \in SUBSET S, NEW i \in DOMAIN L,
           NEW h, h = i - 1, NEW x, NEW k, OK(x, k, StillHeld(S, L, h))
    PROVE  OK(NodeFreed(x, L[i]), k, StillHeld(S, L, i))
  <1> DEFINE nd == L[i]  G == StillHeld(S, L, h)
  <1>0. DOMAIN L = 1 .. Len(L) /\ Len(L) \in Nat
    OBVIOUS
  <1>1. nd \in Node /\ nd.at # nd.data
    <2>1. nd \in Node
      BY <1>0, ElementOfSeq
    <2> QED BY <2>1 DEF Separate
  <1>2. Of(nd) \in SUBSET S
    BY <1>0 DEF Holds, HeldUpTo
  <1>3. Of(nd) \intersect HeldUpTo(L, h) = {}
    <2>1. \A j \in 1 .. h : j \in DOMAIN L /\ i # j
      BY <1>0
    <2> QED BY <2>1 DEF HeldUpTo, Separate
  <1>4. HeldUpTo(L, i) = HeldUpTo(L, h) \union Of(nd)
    <2>1. \A j \in 1 .. i : j = i \/ j \in 1 .. h
      BY <1>0
    <2>2. i \in 1 .. i /\ \A j \in 1 .. h : j \in 1 .. i
      BY <1>0
    <2> QED BY <2>1, <2>2 DEF HeldUpTo
  <1>5. Of(nd) \in SUBSET G /\ G \ Of(nd) = StillHeld(S, L, i)
    BY <1>2, <1>3, <1>4 DEF StillHeld
  <1> HIDE DEF nd, G
  <1>6. OK(x, k, G)
    BY DEF G
  <1>7. OK(NodeFreed(x, nd), k, G \ Of(nd))
    BY <1>1, <1>5, <1>6, NodeFreedOK
  <1> QED BY <1>5, <1>7 DEF nd

(* All nodes of a list are released.                                       *)
LEMMA FreeListOK ==
    ASSUME NEW m, NEW k, NEW S, OK(m, k, S), NEW L \in Seq(Node), Separate(L), Holds(L) \in SUBSET S
    PROVE  OK(free_klv_list(m, L), k, S \ Holds(L))
  <1> DEFINE n == Len(L)
             R == [i \in 0 .. n |-> {x \in Devices : OK(x, k, StillHeld(S, L, i))}]
             step == [xi \in Devices \X (1 .. n) |-> NodeFreed(xi[1], L[xi[2]])]
             Rec(h) == h = [i \in 0 .. n |-> IF i = 0 THEN m ELSE NodeFreed(h[i - 1], L[i])]
  <1>1. n \in Nat /\ DOMAIN L = 1 .. n /\ m \in Devices
    BY DeviceIs
  <1>2. free_klv_list(m, L) = (CHOOSE h : Rec(h))[n]
    BY Zenon DEF free_klv_list, NodeFreed
  <1>3. StillHeld(S, L, 0) = S /\ StillHeld(S, L, n) = S \ Holds(L)
    BY <1>1 DEF Holds, HeldUpTo, StillHeld
  <1> HIDE DEF n
  <1>4. ASSUME NEW i \in 1 .. n, NEW x, OK(x, k, StillHeld(S, L, i - 1))
        PROVE  OK(NodeFreed(x, L[i]), k, StillHeld(S, L, i)) /\ NodeFreed(x, L[i]) \in Devices
    <2>1. i \in DOMAIN L
      BY <1>1
    <2> DEFINE h == i - 1
    <2>2. h = i - 1 /\ OK(x, k, StillHeld(S, L, h))
      BY <1>4
    <2> HIDE DEF h
    <2>3. OK(NodeFreed(x, L[i]), k, StillHeld(S, L, i))
      BY <2>1, <2>2, NodesFreedNext
    <2> QED BY <2>3, DeviceIs
  <1>5. ASSUME NEW i \in 1 .. n, NEW x \in R[i - 1]
        PROVE  step[<<x, i>>] \in R[i] /\ step[<<x, i>>] = NodeFreed(x, L[i])
    <2>1. i - 1 \in 0 .. n /\ i \in 0 .. n
      BY <1>1
    <2>2. x \in Devices /\ OK(x, k, StillHeld(S, L, i - 1))
      BY <1>5, <2>1
    <2>3. step[<<x, i>>] = NodeFreed(x, L[i])
      BY <2>2
    <2>4. NodeFreed(x, L[i]) \in R[i]
      BY <1>4, <2>1, <2>2
    <2> QED BY <2>3, <2>4
  <1>6. /\ 0 \in 0 .. n /\ n \in 0 .. n
        /\ \A i \in 0 .. n : i = 0 \/ (i \in 1 .. n /\ i - 1 \in 0 .. n)
    BY <1>1
  <1>7. m \in R[0] /\ \A x \in R[n] : OK(x, k, S \ Holds(L))
    BY <1>1, <1>3, <1>6
  <1> HIDE DEF R, step
  <1>8. Leads(n, step, R)
    BY <1>5 DEF Leads
  <1>9. PICK h : Iteration(n, m, step, h) /\ StaysIn(n, R, h)
    BY <1>1, <1>7, <1>8, Iterated
  <1>10. \A i \in 1 .. n : step[<<h[i - 1], i>>] = NodeFreed(h[i - 1], L[i])
    BY <1>1, <1>5, <1>9 DEF StaysIn
  <1>11. Rec(h)
    <2> DEFINE g == [i \in 0 .. n |-> IF i = 0 THEN m ELSE NodeFreed(h[i - 1], L[i])]
    <2>1. \A i \in 0 .. n : h[i] = g[i]
      BY <1>6, <1>9, <1>10 DEF Iteration
    <2> QED BY <1>9, <2>1 DEF Iteration
  <1> DEFINE f == CHOOSE f : Rec(f)
  <1>12. Rec(f)
    <2> HIDE DEF Rec
    <2> QED BY <1>11
  <1> HIDE DEF f
  <1>13. f[0] = m /\ \A i \in 1 .. n : f[i] = NodeFreed(f[i - 1], L[i])
    BY <1>1, <1>12
  <1> HIDE DEF Rec
  <1>14. f[n] \in R[n]
    <2>1. \A i \in 1 .. n : f[i - 1] \in R[i - 1] => f[i] = step[<<f[i - 1], i>>]
      BY <1>5, <1>13
    <2> QED BY <1>1, <1>7, <1>8, <1>13, <2>1, Followed
  <1> QED BY <1>2, <1>7, <1>14 DEF f

(* A list with one more node, of buffers that no other has.                *)
LEMMA Prepended ==
    ASSUME NEW L \in Seq(Node), Separate(L), NEW nd \in Node, nd.at # nd.data,
           Of(nd) \intersect Holds(L) = {}
    PROVE  LET M == <<nd>> \o L
           IN  M \in Seq(Node) /\ Separate(M) /\ Holds(M) = Of(nd) \union Holds(L)
  <1> DEFINE O == <<nd>>  M == <<nd>> \o L  n == Len(L)
  <1>1. O \in Seq(Node) /\ Len(O) = 1 /\ O[1] = nd /\ n \in Nat /\ DOMAIN L = 1 .. n
    OBVIOUS
  <1>2. /\ M \in Seq(Node) /\ Len(M) = 1 + n
        /\ M[1] = nd /\ \A i \in 1 .. n : M[i + 1] = L[i]
    <2>1. /\ O \o L \in Seq(Node) /\ Len(O \o L) = Len(O) + Len(L)
          /\ \A i \in 1 .. Len(O) + Len(L) :
                (O \o L)[i] = IF i <= Len(O) THEN O[i] ELSE L[i - Len(O)]
      <3>1. O \in Seq(Node) /\ L \in Seq(Node)
        OBVIOUS
      <3> HIDE DEF O, M, n
      <3> QED BY <3>1, ConcatProperties
    <2>2. M = O \o L
      OBVIOUS
    <2> HIDE DEF O, M
    <2>3. \A i \in 1 .. n : M[i + 1] = L[i]
      BY <1>1, <2>1, <2>2
    <2> QED BY <1>1, <2>1, <2>2, <2>3
  <1> HIDE DEF M, O
  <1>3. DOMAIN M = 1 .. Len(M) /\ Len(M) \in Nat
    BY <1>1, <1>2
  <1>4. \A i \in DOMAIN M : (i = 1 /\ M[i] = nd) \/ (i # 1 /\ i - 1 \in DOMAIN L /\ M[i] = L[i - 1])
    <2>1. ASSUME NEW i \in DOMAIN M, i # 1 PROVE i - 1 \in DOMAIN L /\ M[i] = L[i - 1]
      <3>1. i - 1 \in 1 .. n /\ (i - 1) + 1 = i
        BY <1>1, <1>2, <1>3, <2>1
      <3> QED BY <1>1, <1>2, <3>1
    <2> QED BY <1>2, <2>1
  <1>5. \A i \in DOMAIN L : i + 1 \in DOMAIN M /\ M[i + 1] = L[i]
    BY <1>1, <1>2, <1>3
  <1>6. 1 \in DOMAIN M
    BY <1>1, <1>2, <1>3
  <1>7. \A i \in DOMAIN L : Of(L[i]) \in SUBSET Holds(L)
    BY <1>1 DEF Holds, HeldUpTo
  <1>8. Separate(M)
    <2>1. \A i \in DOMAIN M : M[i].at # M[i].data
      BY <1>4 DEF Separate
    <2>2. ASSUME NEW i \in DOMAIN M, NEW j \in DOMAIN M, i # j
          PROVE  Of(M[i]) \intersect Of(M[j]) = {}
      <3>1. CASE i = 1
        BY <1>4, <1>7, <2>2, <3>1
      <3>2. CASE j = 1
        BY <1>4, <1>7, <2>2, <3>2
      <3>3. CASE i # 1 /\ j # 1
        <4>1. /\ i - 1 \in DOMAIN L /\ M[i] = L[i - 1] /\ j - 1 \in DOMAIN L /\ M[j] = L[j - 1]
          BY <1>4, <3>3
        <4>2. i - 1 # j - 1
          BY <1>3, <2>2
        <4> QED BY <4>1, <4>2 DEF Separate
      <3> QED BY <3>1, <3>2, <3>3
    <2> QED BY <2>1, <2>2 DEF Separate
  <1>9. Holds(M) = Of(nd) \union Holds(L)
    <2>1. Holds(M) = UNION {Of(M[i]) : i \in DOMAIN M}
      BY <1>3 DEF Holds, HeldUpTo
    <2>2. Holds(L) = UNION {Of(L[i]) : i \in DOMAIN L}
      BY <1>1 DEF Holds, HeldUpTo
    <2>3. \A i \in DOMAIN M : Of(M[i]) \in SUBSET (Of(nd) \union Holds(L))
      BY <1>4, <1>7
    <2>4. Of(nd) \in SUBSET Holds(M)
      BY <1>2, <1>6, <2>1
    <2>5. \A i \in DOMAIN L : Of(L[i]) \in SUBSET Holds(M)
      BY <1>5, <2>1
    <2> QED BY <2>1, <2>2, <2>3, <2>4, <2>5
  <1> QED BY <1>2, <1>8, <1>9 DEF M

(* A list being built, in the device where it is, and whether it still     *)
(* grows.                                                                  *)
Lists == [m : Devices, list : Seq(Node), ok : BOOLEAN]
(* While the list grows, the handler holds its buffers besides S; once it  *)
(* was given up, S alone.                                                  *)
ListOK(a, k, S) ==
    /\ a \in Lists
    /\ IF a.ok THEN Separate(a.list) /\ Holds(a.list) \intersect S = {}
                    /\ OK(a.m, k, S \union Holds(a.list))
       ELSE OK(a.m, k, S)

(* The list given up, and the list with one more node.                     *)
GivenUp(a, x) == [a EXCEPT !.m = free_klv_list(x, a.list), !.ok = FALSE]
Longer(a, x, node, data) ==
    [a EXCEPT !.m = x, !.list = <<[at |-> node, data |-> data]>> \o @]

(* A list that is given up leaves none of its buffers behind.              *)
LEMMA GivenUpOK ==
    ASSUME NEW a, NEW k, NEW S, ListOK(a, k, S), a.ok, NEW x, OK(x, k, S \union Holds(a.list))
    PROVE  ListOK(GivenUp(a, x), k, S)
  <1> DEFINE L == a.list  T == S \union Holds(L)  y == free_klv_list(x, L)
             b == [a EXCEPT !.m = y, !.ok = FALSE]
  <1>1. a \in Lists /\ L \in Seq(Node) /\ Separate(L) /\ Holds(L) \intersect S = {}
    BY DEF ListOK, Lists
  <1>2. OK(x, k, T) /\ Holds(L) \in SUBSET T /\ T \ Holds(L) = S
    BY <1>1
  <1> HIDE DEF T, L
  <1>3. OK(y, k, S)
    BY <1>1, <1>2, FreeListOK
  <1>4. y \in Devices
    BY <1>3, DeviceIs
  <1>5. GivenUp(a, x) = b
    BY DEF GivenUp, L
  <1> HIDE DEF y
  <1>6. b \in Lists /\ b.m = y /\ b.ok = FALSE
    BY <1>1, <1>4 DEF Lists
  <1> HIDE DEF b
  <1> QED BY <1>3, <1>5, <1>6 DEF ListOK

(* The new node's buffers become part of what the list holds.              *)
LEMMA LongerOK ==
    ASSUME NEW a, NEW k, NEW S, ListOK(a, k, S), a.ok, NEW node \in Nat, NEW data \in Pointer,
           node # data, {node, data} \intersect (S \union Holds(a.list)) = {},
           NEW x, OK(x, k, S \union Holds(a.list) \union ({node, data} \ {NULL}))
    PROVE  ListOK(Longer(a, x, node, data), k, S)
  <1> DEFINE L == a.list  nd == [at |-> node, data |-> data]  M == <<nd>> \o L
             b == [a EXCEPT !.m = x, !.list = M]
  <1>1. a \in Lists /\ L \in Seq(Node) /\ Separate(L) /\ Holds(L) \intersect S = {}
    BY DEF ListOK, Lists
  <1>2. nd \in Node /\ nd.at # nd.data /\ Of(nd) = {node, data} \ {NULL}
    BY DEF Node, Of
  <1>3. M = <<nd>> \o L /\ OK(x, k, S \union Holds(L) \union Of(nd)) /\ x \in Devices
        /\ {node, data} \intersect (S \union Holds(L)) = {}
    BY <1>2, DeviceIs
  <1>4. Longer(a, x, node, data) = b
    BY <1>1 DEF Longer, Lists
  <1> HIDE DEF nd, M, L
  <1>5. M \in Seq(Node) /\ Separate(M) /\ Holds(M) = Of(nd) \union Holds(L)
    <2>1. Of(nd) \intersect Holds(L) = {}
      BY <1>2, <1>3
    <2> QED BY <1>1, <1>2, <1>3, <2>1, Prepended
  <1>6. S \union Holds(L) \union Of(nd) = S \union Holds(M) /\ Holds(M) \intersect S = {}
    BY <1>1, <1>2, <1>3, <1>5
  <1>7. b \in Lists /\ b.m = x /\ b.list = M /\ b.ok
    BY <1>1, <1>3, <1>5 DEF Lists
  <1> HIDE DEF b
  <1> QED BY <1>3, <1>4, <1>5, <1>6, <1>7 DEF ListOK

(* A step of the building: a node more, or, when either allocation fails,  *)
(* nothing left of the list.                                               *)
LEMMA WithNodeOK ==
    ASSUME NEW a, NEW k, NEW S, ListOK(a, k, S), NEW value \in Nat, NEW cut \in BOOLEAN
    PROVE  ListOK(WithNode(a, value, cut), k, S)
  <1> DEFINE r == tuya_ble_malloc(a.m, NodeSize, NodeSize)
             s == tuya_ble_malloc(r.m, value, value)
  <1>1. WithNode(a, value, cut) =
          IF ~a.ok THEN a
          ELSE IF r.ptr = NULL THEN GivenUp(a, r.m)
          ELSE IF value = 0 THEN Longer(a, r.m, r.ptr, NULL)
          ELSE IF s.ptr = NULL THEN GivenUp(a, tuya_ble_free(s.m, r.ptr))
          ELSE IF cut THEN GivenUp(a, tuya_ble_free(tuya_ble_free(s.m, s.ptr), r.ptr))
          ELSE Longer(a, s.m, r.ptr, s.ptr)
    BY Zenon DEF WithNode, WithBuffer, Either, GivenUp, Longer
  <1>2. CASE ~a.ok
    BY <1>1, <1>2
  <1>3. CASE a.ok
    <2> DEFINE T == S \union Holds(a.list)
    <2>1. OK(a.m, k, T) /\ T \in SUBSET Nat
      <3>1. OK(a.m, k, T)
        BY <1>3 DEF ListOK
      <3> HIDE DEF T
      <3> QED BY <3>1, DeviceIs
    <2>2. NodeSize \in Nat /\ NodeSize <= NodeSize
      BY MemoryAssumption
    <2>3. \/ r.ptr = NULL /\ r.m = a.m
          \/ /\ r.ptr # NULL /\ r.ptr \in Nat \ T /\ OK(r.m, k, T \union {r.ptr})
      <3> HIDE DEF T
      <3> QED BY <2>1, <2>2, MallocOK
    <2> HIDE DEF r
    <2>4. CASE r.ptr = NULL
      BY <1>1, <1>3, <2>1, <2>3, <2>4, GivenUpOK
    <2>5. CASE r.ptr # NULL
      <3> DEFINE p == r.ptr  n == r.m  U == T \union {p}
      <3>1. OK(n, k, U) /\ p \in Nat \ T /\ p # NULL /\ U \ {p} = T
        BY <2>3, <2>5
      <3>2. CASE value = 0
        <4>1. NULL \in Pointer /\ p # NULL /\ {p, NULL} \intersect T = {}
          BY <2>1, <3>1, HeapAssumption DEF Pointer
        <4>2. U = T \union ({p, NULL} \ {NULL})
          BY <3>1
        <4>3. OK(n, k, T \union ({p, NULL} \ {NULL}))
          BY <3>1, <4>2
        <4> HIDE DEF p, n
        <4>4. ListOK(Longer(a, n, p, NULL), k, S)
          BY <1>3, <3>1, <4>1, <4>3, LongerOK
        <4> QED BY <1>1, <1>3, <2>5, <3>2, <4>4 DEF p, n
      <3>3. CASE value # 0
        <4>1. \/ s.ptr = NULL /\ s.m = n
              \/ /\ s.ptr # NULL /\ s.ptr \in Nat \ U /\ OK(s.m, k, U \union {s.ptr})
          <5>1. s = tuya_ble_malloc(n, value, value) 
            OBVIOUS
          <5>2. OK(n, k, U) /\ value <= value
            BY <3>1
          <5> HIDE DEF s, n, U, T, p
          <5>3. LET z == tuya_ble_malloc(n, value, value)
                IN  \/ z.ptr = NULL /\ z.m = n
                    \/ /\ z.ptr # NULL /\ z.ptr \in Nat \ U /\ OK(z.m, k, U \union {z.ptr})
            BY <5>2, MallocOK
          <5> QED BY <5>1, <5>3
        <4> HIDE DEF s
        <4>2. CASE s.ptr = NULL
          <5>1. OK(tuya_ble_free(n, p), k, T)
            <6>1. p \in U
              OBVIOUS
            <6> HIDE DEF n, U, p
            <6>2. OK(tuya_ble_free(n, p), k, U \ {p})
              BY <3>1, <6>1, FreeOK
            <6> QED BY <3>1, <6>2
          <5>2. ListOK(GivenUp(a, tuya_ble_free(n, p)), k, S)
            BY <1>3, <5>1, GivenUpOK
          <5> QED BY <1>1, <1>3, <2>5, <3>3, <4>1, <4>2, <5>2
        <4>3. CASE s.ptr # NULL
          <5> DEFINE q == s.ptr  x == s.m  V == U \union {q}
          <5>1. OK(x, k, V) /\ q \in Nat \ U /\ q # NULL /\ V \ {q} = U /\ q \in V /\ p \in U
            BY <4>1, <4>3
          <5>2. CASE cut
            <6> HIDE DEF q, x, V, p, U, T
            <6>1. OK(tuya_ble_free(x, q), k, U)
              <7>1. OK(tuya_ble_free(x, q), k, V \ {q})
                BY <5>1, FreeOK
              <7> QED BY <5>1, <7>1
            <6> DEFINE y == tuya_ble_free(x, q)
            <6>2. OK(y, k, U)
              BY <6>1
            <6> HIDE DEF y
            <6>3. OK(tuya_ble_free(y, p), k, U \ {p})
              BY <5>1, <6>2, FreeOK
            <6>4. OK(tuya_ble_free(y, p), k, S \union Holds(a.list))
              BY <3>1, <6>3 DEF T
            <6>5. ListOK(GivenUp(a, tuya_ble_free(y, p)), k, S)
              BY <1>3, <6>4, GivenUpOK
            <6> QED BY <1>1, <1>3, <2>5, <3>3, <4>3, <5>2, <6>5 DEF y, x, p, q
          <5>3. CASE ~cut
            <6>1. q \in Pointer /\ p # q /\ {p, q} \intersect T = {}
              BY <3>1, <5>1 DEF Pointer
            <6>2. V = T \union ({p, q} \ {NULL})
              BY <3>1, <5>1
            <6>3. OK(x, k, T \union ({p, q} \ {NULL}))
              BY <5>1, <6>2
            <6> HIDE DEF p, q, x
            <6>4. ListOK(Longer(a, x, p, q), k, S)
              BY <1>3, <3>1, <6>1, <6>3, LongerOK
            <6> QED BY <1>1, <1>3, <2>5, <3>3, <4>3, <5>3, <6>4 DEF x, p, q
          <5> QED BY <5>2, <5>3
        <4> QED BY <4>2, <4>3
      <3> QED BY <3>2, <3>3
    <2> QED BY <2>4, <2>5
  <1> QED BY <1>2, <1>3

(* The length of the data is a number, 0 when there is no data.            *)
LEMMA DataLenIs ==
    ASSUME NEW data, data.dps \in Seq(Nat), data.cut \in Nat
    PROVE  /\ DataLen(data) \in Int
           /\ data.dps = <<>> /\ data.cut = 0 => DataLen(data) = 0
  <1> DEFINE L == data.dps
             n == Len(L)
             R == [i \in 0 .. n |-> IF i = 0 THEN {0} ELSE Nat]
             step == [xi \in Nat \X (1 .. n) |-> xi[1] + 3 + L[xi[2]]]
             Rec(h) == h = [i \in 0 .. n |-> IF i = 0 THEN 0 ELSE h[i - 1] + 3 + L[i]]
  <1>1. n \in Nat /\ \A i \in 1 .. n : L[i] \in Nat
    <2>1. L \in Seq(Nat)
      OBVIOUS
    <2> HIDE DEF L
    <2> QED BY <2>1, ElementOfSeq
  <1>2. DataLen(data) = (CHOOSE h : Rec(h))[n] - data.cut
    BY Zenon DEF DataLen
  <1>3. L = <<>> => n = 0
    OBVIOUS
  <1> HIDE DEF n, L
  <1>4. \A i \in 0 .. n : R[i] \in SUBSET Nat
    BY <1>1
  <1>5. ASSUME NEW i \in 1 .. n, NEW x \in R[i - 1]
        PROVE  step[<<x, i>>] \in R[i] /\ step[<<x, i>>] = x + 3 + L[i]
    <2>1. i - 1 \in 0 .. n /\ i \in 0 .. n /\ i # 0
      BY <1>1
    <2>2. x \in Nat
      BY <1>4, <2>1
    <2> QED BY <1>1, <2>1, <2>2
  <1>6. /\ 0 \in 0 .. n /\ n \in 0 .. n
        /\ \A i \in 0 .. n : i = 0 \/ (i \in 1 .. n /\ i - 1 \in 0 .. n)
    BY <1>1
  <1>7. 0 \in R[0] /\ R[n] \in SUBSET Nat /\ (n = 0 => R[n] = {0})
    BY <1>4, <1>6
  <1> HIDE DEF R, step
  <1>8. Leads(n, step, R)
    BY <1>5 DEF Leads
  <1>9. PICK h : Iteration(n, 0, step, h) /\ StaysIn(n, R, h)
    BY <1>1, <1>7, <1>8, Iterated
  <1>10. \A i \in 1 .. n : step[<<h[i - 1], i>>] = h[i - 1] + 3 + L[i]
    BY <1>1, <1>5, <1>9 DEF StaysIn
  <1>11. Rec(h)
    <2> DEFINE g == [i \in 0 .. n |-> IF i = 0 THEN 0 ELSE h[i - 1] + 3 + L[i]]
    <2>1. \A i \in 0 .. n : h[i] = g[i]
      BY <1>6, <1>9, <1>10 DEF Iteration
    <2> QED BY <1>9, <2>1 DEF Iteration
  <1> DEFINE f == CHOOSE f : Rec(f)
  <1>12. Rec(f)
    <2> HIDE DEF Rec
    <2> QED BY <1>11
  <1> HIDE DEF f
  <1>13. f[0] = 0 /\ \A i \in 1 .. n : f[i] = f[i - 1] + 3 + L[i]
    BY <1>1, <1>12
  <1> HIDE DEF Rec
  <1>14. f[n] \in R[n]
    <2>1. \A i \in 1 .. n : f[i - 1] \in R[i - 1] => f[i] = step[<<f[i - 1], i>>]
      BY <1>5, <1>13
    <2>2. f[0] \in R[0]
      BY <1>7, <1>13
    <2> QED BY <1>1, <1>8, <2>1, <2>2, Followed
  <1>15. DataLen(data) = f[n] - data.cut
    BY <1>2 DEF f
  <1>16. f[n] \in Nat /\ (n = 0 => f[n] = 0)
    BY <1>7, <1>14
  <1>17. DataLen(data) \in Int
    BY <1>15, <1>16
  <1>18. L = <<>> /\ data.cut = 0 => DataLen(data) = 0
    BY <1>3, <1>15, <1>16
  <1> QED BY <1>17, <1>18 DEF L

(* The data of reports and messages have lengths.                          *)
LEMMA DatumIs ==
    /\ NoData \in Datum
    /\ \A data \in Datum : /\ DataLen(data) \in Nat /\ data.dps \in Seq(Nat) /\ data.cut \in Nat
  <1>1. ASSUME NEW data \in [dps : Seq(Nat), cut : Nat] PROVE DataLen(data) \in Int
    BY DataLenIs
  <1>2. NoData \in [dps : Seq(Nat), cut : Nat]
    BY DEF NoData
  <1>3. DataLen(NoData) = 0
    <2>1. NoData.dps = <<>> /\ NoData.cut = 0
      BY DEF NoData
    <2>2. NoData.dps \in Seq(Nat) /\ NoData.cut \in Nat
      BY <1>2
    <2> HIDE DEF NoData
    <2> QED BY <2>1, <2>2, DataLenIs
  <1>4. NoData \in Datum
    BY <1>2, <1>3 DEF Datum
  <1>5. \A data \in Datum : data \in [dps : Seq(Nat), cut : Nat] /\ DataLen(data) >= 0
    BY DEF Datum
  <1> QED BY <1>1, <1>4, <1>5

(* The whole list is built, or nothing is left of it.                      *)
LEMMA ListBuiltOK ==
    ASSUME NEW m, NEW k, NEW S, OK(m, k, S), NEW data \in Datum
    PROVE  ListOK(data_2_klvlist(m, data), k, S)
  <1> DEFINE L == data.dps
             n == Len(L)
             base == [m |-> m, list |-> <<>>, ok |-> TRUE]
             next(x, i) == WithNode(x, L[i], i = n /\ data.cut > 0)
             set == {x \in Lists : ListOK(x, k, S)}
             R == [i \in 0 .. n |-> set]
             step == [xi \in set \X (1 .. n) |-> next(xi[1], xi[2])]
             Rec(h) == h = [i \in 0 .. n |-> IF i = 0 THEN base ELSE next(h[i - 1], i)]
  <1>1. n \in Nat /\ \A i \in 1 .. n : L[i] \in Nat
    <2>1. L \in Seq(Nat)
      BY DatumIs
    <2> HIDE DEF L
    <2> QED BY <2>1, ElementOfSeq
  <1>2. data_2_klvlist(m, data) = (CHOOSE h : Rec(h))[n]
    BY Zenon DEF data_2_klvlist
  <1> HIDE DEF n, L
  <1>3. ASSUME NEW x \in set, NEW i \in 1 .. n PROVE next(x, i) \in set
    <2> DEFINE c == i = n /\ data.cut > 0
    <2>1. ListOK(x, k, S) /\ L[i] \in Nat /\ c \in BOOLEAN
      BY <1>1
    <2> HIDE DEF c
    <2>2. ListOK(WithNode(x, L[i], c), k, S)
      BY <2>1, WithNodeOK
    <2>3. WithNode(x, L[i], c) \in Lists
      BY <2>2 DEF ListOK
    <2> QED BY <2>2, <2>3 DEF c
  <1>4. base \in set
    <2>1. base \in Lists /\ base.ok /\ base.m = m /\ base.list = <<>>
      BY DeviceIs DEF Lists
    <2>2. Separate(<<>>) /\ Holds(<<>>) = {}
      BY DEF Separate, Holds, HeldUpTo
    <2>3. S \union {} = S
      OBVIOUS
    <2> HIDE DEF base
    <2> QED BY <2>1, <2>2, <2>3 DEF ListOK
  <1>5. \A x \in set : ListOK(x, k, S)
    OBVIOUS
  <1> HIDE DEF set, base, next
  <1>6. ASSUME NEW i \in 1 .. n, NEW x \in R[i - 1]
        PROVE  step[<<x, i>>] \in R[i] /\ step[<<x, i>>] = next(x, i)
    <2>1. i - 1 \in 0 .. n /\ i \in 0 .. n /\ x \in set
      BY <1>1, <1>6
    <2> QED BY <1>3, <2>1
  <1>7. /\ 0 \in 0 .. n /\ n \in 0 .. n /\ R[0] = set /\ R[n] = set
        /\ \A i \in 0 .. n : i = 0 \/ (i \in 1 .. n /\ i - 1 \in 0 .. n)
    BY <1>1
  <1> HIDE DEF R, step
  <1>8. Leads(n, step, R)
    BY <1>6 DEF Leads
  <1>9. PICK h : Iteration(n, base, step, h) /\ StaysIn(n, R, h)
    BY <1>1, <1>4, <1>7, <1>8, Iterated
  <1>10. \A i \in 1 .. n : step[<<h[i - 1], i>>] = next(h[i - 1], i)
    BY <1>1, <1>6, <1>9 DEF StaysIn
  <1>11. Rec(h)
    <2> DEFINE g == [i \in 0 .. n |-> IF i = 0 THEN base ELSE next(h[i - 1], i)]
    <2>1. \A i \in 0 .. n : h[i] = g[i]
      BY <1>7, <1>9, <1>10 DEF Iteration
    <2> QED BY <1>9, <2>1 DEF Iteration
  <1> DEFINE f == CHOOSE f : Rec(f)
  <1>12. Rec(f)
    <2> HIDE DEF Rec
    <2> QED BY <1>11
  <1> HIDE DEF f
  <1>13. f[0] = base /\ \A i \in 1 .. n : f[i] = next(f[i - 1], i)
    BY <1>1, <1>12
  <1> HIDE DEF Rec
  <1>14. f[n] \in R[n]
    <2>1. \A i \in 1 .. n : f[i - 1] \in R[i - 1] => f[i] = step[<<f[i - 1], i>>]
      BY <1>6, <1>13
    <2> QED BY <1>1, <1>4, <1>7, <1>8, <1>13, <2>1, Followed
  <1> QED BY <1>2, <1>5, <1>7, <1>14 DEF f

-------------------------------------------------------------------------------
(***************************************************************************)
(* The reports of the application and the events that carry them.          *)
(***************************************************************************)

(* A request r got nothing and changed nothing, or got a buffer that the   *)
(* handler holds besides S.                                                *)
Got(r, m, k, S) ==
    \/ r.ptr = NULL /\ r.m = m
    \/ /\ r.ptr # NULL /\ Beside(m, r.m)
       /\ \E T \in SUBSET Nat : OK(r.m, k, T) /\ r.ptr \in T /\ T \ {r.ptr} = S /\ S \in SUBSET T

(* A request of memory.                                                    *)
LEMMA MallocGot ==
    ASSUME NEW m, NEW k, NEW S, OK(m, k, S), NEW size \in Nat, NEW written \in Nat, written <= size
    PROVE  Got(tuya_ble_malloc(m, size, written), m, k, S)
  <1> DEFINE r == tuya_ble_malloc(m, size, written)  T == S \union {r.ptr}
  <1>1. \/ r.ptr = NULL /\ r.m = m
        \/ /\ r.ptr # NULL /\ r.ptr \in Nat \ S /\ OK(r.m, k, T) /\ Beside(m, r.m)
    BY MallocOK DEF Beside
  <1>2. S \in SUBSET Nat
    BY DeviceIs
  <1> SUFFICES Got(r, m, k, S)
    OBVIOUS
  <1> HIDE DEF r
  <1>3. CASE r.ptr # NULL
    <2>1. OK(r.m, k, T) /\ r.ptr \in T /\ T \ {r.ptr} = S /\ S \in SUBSET T /\ T \in SUBSET Nat
      BY <1>1, <1>2, <1>3
    <2> HIDE DEF T
    <2>2. Beside(m, r.m)
      BY <1>1, <1>3
    <2> QED BY <1>3, <2>1, <2>2 DEF Got
  <1>4. CASE r.ptr = NULL
    BY <1>1, <1>4 DEF Got
  <1> QED BY <1>3, <1>4

(* A report copied for its event.                                          *)
LEMMA CopiedOK ==
    ASSUME NEW m, NEW k, NEW S, OK(m, k, S), NEW ev \in DpReport \union DataReport, NEW len \in Nat
    PROVE  OK(Copied(m, ev, len), k, S)
  <1> DEFINE w == len + Inserted(ev)
             r == tuya_ble_malloc(m, w, w)
  <1>1. w \in Nat /\ w <= w
    BY DEF Inserted
  <1>2. ev \in Carriers /\ ev \notin {"BLE_CMD", "FIRST_RECEIVED"}
    BY DEF Carriers, DpReport, DataReport
  <1>3. Copied(m, ev, len) = IF r.ptr = NULL THEN r.m ELSE PostedWith(r.m, ev, r.ptr, w, NULL)
    BY Zenon DEF Copied, WithBuffer, Either, Same
  <1> HIDE DEF w
  <1>4. Got(r, m, k, S)
    BY <1>1, MallocGot
  <1> HIDE DEF r
  <1>5. CASE r.ptr # NULL
    <2> DEFINE p == r.ptr  n == r.m
    <2>1. PICK T \in SUBSET Nat : OK(n, k, T) /\ p \in T /\ T \ {p} = S
      BY <1>4, <1>5 DEF Got
    <2> HIDE DEF p, n
    <2>2. OK(PostedWith(n, ev, p, w, NULL), k, T \ {p})
      BY <1>1, <1>2, <2>1, PostedWithOK
    <2> QED BY <1>3, <1>5, <2>1, <2>2 DEF n, p
  <1> QED BY <1>3, <1>4, <1>5 DEF Got

(* The list is released at the end, if it was not given up.                *)
LEMMA ListDone ==
    ASSUME NEW a, NEW k, NEW S, ListOK(a, k, S)
    PROVE  OK(IF a.ok THEN free_klv_list(a.m, a.list) ELSE a.m, k, S)
  <1>1. CASE a.ok
    <2> DEFINE L == a.list  T == S \union Holds(L)
    <2>1. /\ L \in Seq(Node) /\ Separate(L) /\ OK(a.m, k, T)
          /\ Holds(L) \in SUBSET T /\ T \ Holds(L) = S
      BY <1>1 DEF ListOK, Lists
    <2> HIDE DEF L, T
    <2>2. OK(free_klv_list(a.m, L), k, S)
      BY <2>1, FreeListOK
    <2> QED BY <1>1, <2>2 DEF L
  <1>2. CASE ~a.ok
    BY <1>2 DEF ListOK
  <1> QED BY <1>1, <1>2

(* A report of data points by the application.                             *)
LEMMA DpReportOK ==
    ASSUME NEW m, NEW k, NEW S, OK(m, k, S), NEW ev \in DpReport, NEW data \in Datum
    PROVE  OK(dp_data_report(m, ev, data), k, S)
  <1> DEFINE len == DataLen(data)
             a == data_2_klvlist(m, data)
             b == free_klv_list(a.m, a.list)
             refused == m.status # "paired" \/ len > MaxLen(ev) \/ len = 0
  <1>1. dp_data_report(m, ev, data) = IF refused THEN m
                                      ELSE IF ~a.ok THEN a.m ELSE Copied(b, ev, len)
    BY Zenon DEF dp_data_report
  <1>2. ListOK(a, k, S) /\ len \in Nat
    BY ListBuiltOK, DatumIs
  <1> HIDE DEF refused, a, len
  <1>3. OK(IF a.ok THEN b ELSE a.m, k, S)
    BY <1>2, ListDone
  <1> HIDE DEF b
  <1>4. CASE a.ok
    <2>1. OK(b, k, S)
      BY <1>3, <1>4
    <2>2. OK(Copied(b, ev, len), k, S)
      BY <1>2, <2>1, CopiedOK
    <2> QED BY <1>1, <1>4, <2>2
  <1> QED BY <1>1, <1>3, <1>4

(* A report of other data by the application.                              *)
LEMMA DataReportOK ==
    ASSUME NEW m, NEW k, NEW S, OK(m, k, S), NEW ev \in DataReport, NEW len \in Nat
    PROVE  OK(data_report(m, ev, len), k, S)
  <1>1. OK(Copied(m, ev, len), k, S)
    BY CopiedOK
  <1> QED BY <1>1 DEF data_report

(* The answer to a network configuration.                                  *)
LEMMA NetConfigOK ==
    ASSUME NEW m, NEW k, NEW S, OK(m, k, S)
    PROVE  OK(tuya_ble_net_config_response(m), k, S)
  <1>1. /\ "NET_CONFIG_RESPONSE" \in EventName
        /\ "NET_CONFIG_RESPONSE" \notin {"BLE_CMD", "FIRST_RECEIVED"}
    BY DEF EventName
  <1>2. NULL \in Message \union {NULL}
    OBVIOUS
  <1>3. OK(Posted(m, "NET_CONFIG_RESPONSE", NULL), k, S)
    BY <1>1, <1>2, PostedOK
  <1> QED BY <1>3 DEF tuya_ble_net_config_response

(* The handler of an event whose data go out behind a prefix releases the  *)
(* event's buffer.                                                         *)
LEMMA PrefixedOK ==
    ASSUME NEW m, NEW k, NEW S, OK(m, k, S), NEW e \in Events, e.buf \in S \union {NULL}
    PROVE  OK(handle_prefixed_evt(m, e), k, S \ {e.buf})
  <1> DEFINE len == Prefix(e.ev) + e.len
             r == tuya_ble_malloc(m, len, len)
             sent == tuya_ble_commData_send(r.m, len, Encrypted)
             freed == tuya_ble_free(sent, r.ptr)
             d == e.buf
  <1>1. len \in Nat /\ len <= len /\ Encrypted \in Nat
    <2>1. Prefix(e.ev) \in Nat
      BY DEF Prefix
    <2> QED BY <2>1 DEF Events, Encrypted
  <1>2. handle_prefixed_evt(m, e) =
          IF r.ptr = NULL THEN tuya_ble_free(r.m, d) ELSE tuya_ble_free(freed, d)
    BY Zenon DEF handle_prefixed_evt, WithBuffer, Either
  <1>3. d \in S \union {NULL}
    OBVIOUS
  <1> HIDE DEF len, d
  <1>4. Got(r, m, k, S)
    BY <1>1, MallocGot
  <1> HIDE DEF r
  <1>5. CASE r.ptr = NULL
    <2>1. OK(tuya_ble_free(m, d), k, S \ {d})
      BY <1>3, FreeMaybe
    <2> QED BY <1>2, <1>4, <1>5, <2>1 DEF Got, d
  <1>6. CASE r.ptr # NULL
    <2> DEFINE p == r.ptr  n == r.m
    <2>1. PICK T \in SUBSET Nat : OK(n, k, T) /\ p \in T /\ T \ {p} = S
      BY <1>4, <1>6 DEF Got
    <2> HIDE DEF p, n
    <2>2. OK(tuya_ble_commData_send(n, len, Encrypted), k, T)
      BY <1>1, <2>1, SendOK
    <2>3. sent = tuya_ble_commData_send(n, len, Encrypted) /\ freed = tuya_ble_free(sent, p)
      BY DEF n, p
    <2> HIDE DEF sent, freed
    <2>4. OK(sent, k, T)
      BY <2>2, <2>3
    <2>5. OK(tuya_ble_free(sent, p), k, T \ {p})
      BY <2>1, <2>4, FreeOK
    <2>6. OK(freed, k, S)
      BY <2>1, <2>3, <2>5
    <2>7. OK(tuya_ble_free(freed, d), k, S \ {d})
      BY <1>3, <2>6, FreeMaybe
    <2> QED BY <1>2, <1>6, <2>7 DEF d
  <1> QED BY <1>5, <1>6

(* So does the handler of an event whose data go out as they are.          *)
LEMMA PlainOK ==
    ASSUME NEW m, NEW k, NEW S, OK(m, k, S), NEW e \in Events, e.buf \in S \union {NULL},
           NEW en_len \in Nat
    PROVE  OK(handle_plain_evt(m, e, en_len), k, S \ {e.buf})
  <1> DEFINE len == e.len  d == e.buf  sent == tuya_ble_commData_send(m, len, en_len)
  <1>1. len \in Nat /\ d \in S \union {NULL}
    BY DEF Events
  <1>2. handle_plain_evt(m, e, en_len) = tuya_ble_free(sent, d)
    BY DEF handle_plain_evt
  <1> HIDE DEF len, d
  <1>3. OK(sent, k, S)
    BY <1>1, SendOK
  <1> HIDE DEF sent
  <1>4. OK(tuya_ble_free(sent, d), k, S \ {d})
    BY <1>1, <1>3, FreeMaybe
  <1> QED BY <1>2, <1>4 DEF d

-------------------------------------------------------------------------------
(***************************************************************************)
(* The commands of the phone.                                              *)
(***************************************************************************)

(* The status of the connection concerns no memory.                        *)
LEMMA StatusOK ==
    ASSUME NEW m, NEW k, NEW S, OK(m, k, S), NEW s \in {"unconn", "unauth", "paired"}
    PROVE  OK([m EXCEPT !.status = s], k, S)
  <1> DEFINE n == [m EXCEPT !.status = s]
  <1>1. m \in Devices
    BY DeviceIs
  <1>2. /\ n \in Devices /\ n.heap = m.heap /\ n.misuse = m.misuse
        /\ n.events = m.events /\ n.queue = m.queue /\ n.recv = m.recv
    BY <1>1 DEF Devices
  <1> HIDE DEF n
  <1>3. OK(n, k, S)
    BY <1>2, Unchanging
  <1> QED BY <1>3 DEF n

(* Nor does the binding.                                                   *)
LEMMA BoundFlagOK ==
    ASSUME NEW m, NEW k, NEW S, OK(m, k, S), NEW b \in BOOLEAN
    PROVE  OK([m EXCEPT !.bound_flag = b], k, S)
  <1> DEFINE n == [m EXCEPT !.bound_flag = b]
  <1>1. m \in Devices
    BY DeviceIs
  <1>2. /\ n \in Devices /\ n.heap = m.heap /\ n.misuse = m.misuse
        /\ n.events = m.events /\ n.queue = m.queue /\ n.recv = m.recv
    BY <1>1 DEF Devices
  <1> HIDE DEF n
  <1>3. OK(n, k, S)
    BY <1>2, Unchanging
  <1> QED BY <1>3 DEF n

(* Nor does the copy of the data points, which has its own place.          *)
LEMMA CopyOK ==
    ASSUME NEW m, NEW k, NEW S, OK(m, k, S), NEW data \in Datum
    PROVE  OK([m EXCEPT !.dp = data], k, S)
  <1> DEFINE n == [m EXCEPT !.dp = data]
  <1>1. m \in Devices
    BY DeviceIs
  <1>2. /\ n \in Devices /\ n.heap = m.heap /\ n.misuse = m.misuse
        /\ n.events = m.events /\ n.queue = m.queue /\ n.recv = m.recv
    BY <1>1 DEF Devices
  <1> HIDE DEF n
  <1>3. OK(n, k, S)
    BY <1>2, Unchanging
  <1> QED BY <1>3 DEF n

(* Nor does the link.                                                      *)
LEMMA LinkOK ==
    ASSUME NEW m, NEW k, NEW S, OK(m, k, S), NEW b \in BOOLEAN, NEW c \in BOOLEAN
    PROVE  /\ OK([m EXCEPT !.link = b], k, S)
           /\ OK([m EXCEPT !.term_pending = c], k, S)
           /\ OK([m EXCEPT !.link = b, !.term_pending = c], k, S)
  <1>1. m \in Devices
    BY DeviceIs
  <1>2. ASSUME NEW n, n \in {[m EXCEPT !.link = b], [m EXCEPT !.term_pending = c],
                             [m EXCEPT !.link = b, !.term_pending = c]}
        PROVE  OK(n, k, S)
    <2>1. /\ n \in Devices /\ n.heap = m.heap /\ n.misuse = m.misuse
          /\ n.events = m.events /\ n.queue = m.queue /\ n.recv = m.recv
      BY <1>1, <1>2 DEF Devices
    <2> QED BY <2>1, Unchanging
  <1> QED BY <1>2

(* Nor does the request to disconnect.                                     *)
LEMMA DisconnectOK ==
    ASSUME NEW m, NEW k, NEW S, OK(m, k, S)
    PROVE  OK(tuya_ble_gap_disconnect(m), k, S)
  BY LinkOK DEF tuya_ble_gap_disconnect

(* A buffer that is freed by the one who asked for it, after work that     *)
(* keeps what is in order in order.                                        *)
LEMMA BufferUsed ==
    ASSUME NEW m, NEW k, NEW S, OK(m, k, S), NEW size \in Nat, NEW r,
           r = tuya_ble_malloc(m, size, size),
           NEW y, \A T \in SUBSET Nat : OK(r.m, k, T) => OK(y, k, T)
    PROVE  OK(IF r.ptr = NULL THEN r.m ELSE tuya_ble_free(y, r.ptr), k, S)
  <1>1. Got(r, m, k, S)
    <2>1. size <= size
      OBVIOUS
    <2> QED BY <2>1, MallocGot
  <1>2. CASE r.ptr = NULL
    BY <1>1, <1>2 DEF Got
  <1>3. CASE r.ptr # NULL
    <2> DEFINE p == r.ptr
    <2>1. PICK T \in SUBSET Nat : OK(r.m, k, T) /\ p \in T /\ T \ {p} = S
      BY <1>1, <1>3 DEF Got
    <2>2. OK(y, k, T)
      BY <2>1
    <2> HIDE DEF p
    <2>3. OK(tuya_ble_free(y, p), k, T \ {p})
      BY <2>1, <2>2, FreeOK
    <2> QED BY <1>3, <2>1, <2>3 DEF p
  <1> QED BY <1>2, <1>3

(* The advertising data are changed in a buffer that is released.          *)
LEMMA AdvChangeOK ==
    ASSUME NEW m, NEW k, NEW S, OK(m, k, S)
    PROVE  OK(tuya_ble_adv_change(m), k, S)
  <1> DEFINE r == tuya_ble_malloc(m, 200, 200)
  <1>1. tuya_ble_adv_change(m) =
          IF m.bound_flag THEN (IF r.ptr = NULL THEN r.m ELSE tuya_ble_free(r.m, r.ptr)) ELSE m
    BY Zenon DEF tuya_ble_adv_change, WithBuffer, Either, Same
  <1>2. r = tuya_ble_malloc(m, 200, 200) /\ 200 \in Nat
    OBVIOUS
  <1> HIDE DEF r
  <1>3. OK(IF r.ptr = NULL THEN r.m ELSE tuya_ble_free(r.m, r.ptr), k, S)
    BY <1>2, BufferUsed
  <1> QED BY <1>1, <1>3

(* A write of data points: the list is built and released.                 *)
LEMMA DpWriteOK ==
    ASSUME NEW m, NEW k, NEW S, OK(m, k, S), NEW data \in Datum
    PROVE  OK(handle_dp_write_req(m, data), k, S)
  <1> DEFINE len == DataLen(data)
             a == data_2_klvlist(m, data)
             b == free_klv_list(a.m, a.list)
             answer(n) == tuya_ble_commData_send(n, 1, Encrypted)
             c == answer(b)
             r == tuya_ble_malloc(c, len, len)
             y == dp_data_report([r.m EXCEPT !.dp = data], "DP_DATA", data)
             done == IF r.ptr = NULL THEN r.m ELSE tuya_ble_free(y, r.ptr)
             refused == len = 0 \/ len > TUYA_BLE_REPORT_MAX_DP_DATA_LEN
  <1>1. handle_dp_write_req(m, data) =
          IF refused THEN answer(m) ELSE IF ~a.ok THEN answer(a.m) ELSE done
    BY Zenon DEF handle_dp_write_req, Callback, tuya_ble_inter_event_response, WithBuffer,
                 Either, Same
  <1>2. ListOK(a, k, S) /\ len \in Nat
    BY ListBuiltOK, DatumIs
  <1>3. \A n : OK(n, k, S) => OK(answer(n), k, S)
    <2>1. 1 \in Nat /\ Encrypted \in Nat
      BY DEF Encrypted
    <2> QED BY <2>1, SendOK
  <1> HIDE DEF refused, a, len, answer
  <1>4. OK(IF a.ok THEN b ELSE a.m, k, S)
    BY <1>2, ListDone
  <1> HIDE DEF b
  <1>5. CASE a.ok
    <2>1. OK(c, k, S)
      BY <1>3, <1>4, <1>5
    <2>2. r = tuya_ble_malloc(c, len, len)
      OBVIOUS
    <2>3. ASSUME NEW T \in SUBSET Nat, OK(r.m, k, T) PROVE OK(y, k, T)
      <3> DEFINE n == r.m  x == [n EXCEPT !.dp = data]
      <3>1. OK(n, k, T)
        BY <2>3
      <3> HIDE DEF n
      <3>2. OK(x, k, T)
        BY <3>1, CopyOK
      <3>3. "DP_DATA" \in DpReport
        BY DEF DpReport
      <3>4. y = dp_data_report(x, "DP_DATA", data)
        BY DEF n
      <3> HIDE DEF x, y
      <3> QED BY <3>2, <3>3, <3>4, DpReportOK
    <2> HIDE DEF c, r, y
    <2>4. OK(done, k, S)
      BY <1>2, <2>1, <2>2, <2>3, BufferUsed
    <2> QED BY <1>1, <1>3, <1>5, <2>4
  <1>6. CASE ~a.ok
    BY <1>1, <1>3, <1>4, <1>6
  <1> QED BY <1>5, <1>6

(* An answer to the phone.                                                 *)
LEMMA AnswerOK ==
    ASSUME NEW m, NEW k, NEW S, OK(m, k, S), NEW len \in Nat
    PROVE  OK(tuya_ble_commData_send(m, len, Encrypted), k, S)
  <1>1. Encrypted \in Nat
    BY DEF Encrypted
  <1> QED BY <1>1, SendOK

(* A query of data points.                                                 *)
LEMMA QueryOK ==
    ASSUME NEW m, NEW k, NEW S, OK(m, k, S), NEW len \in Nat
    PROVE  OK(handle_dp_query_req(m, len), k, S)
  <1> DEFINE c == tuya_ble_commData_send(m, 1, Encrypted)
             r == tuya_ble_malloc(c, len, len)
  <1>1. handle_dp_query_req(m, len) = IF r.ptr = NULL THEN r.m ELSE tuya_ble_free(r.m, r.ptr)
    BY Zenon DEF handle_dp_query_req, Callback, tuya_ble_inter_event_response, WithBuffer,
                 Either, Same
  <1>2. OK(c, k, S)
    BY AnswerOK
  <1>3. r = tuya_ble_malloc(c, len, len)
    OBVIOUS
  <1> HIDE DEF c, r
  <1>4. OK(IF r.ptr = NULL THEN r.m ELSE tuya_ble_free(r.m, r.ptr), k, S)
    BY <1>2, <1>3, BufferUsed
  <1> QED BY <1>1, <1>4

(* A network configuration.                                                *)
LEMMA NetConfigReqOK ==
    ASSUME NEW m, NEW k, NEW S, OK(m, k, S), NEW len \in Nat
    PROVE  OK(handle_net_config_info_req(m, len), k, S)
  <1> DEFINE r == tuya_ble_malloc(m, len, len)
             y == tuya_ble_net_config_response(r.m)
             x == IF r.ptr = NULL THEN r.m ELSE tuya_ble_free(y, r.ptr)
  <1>1. handle_net_config_info_req(m, len) = tuya_ble_commData_send(x, 1, Encrypted)
    BY Zenon DEF handle_net_config_info_req, Callback, tuya_ble_inter_event_response,
                 WithBuffer, Either, Same
  <1>2. r = tuya_ble_malloc(m, len, len)
    OBVIOUS
  <1>3. \A T \in SUBSET Nat : OK(r.m, k, T) => OK(y, k, T)
    BY NetConfigOK
  <1> HIDE DEF r, y
  <1>4. OK(x, k, S)
    BY <1>2, <1>3, BufferUsed
  <1> HIDE DEF x
  <1>5. OK(tuya_ble_commData_send(x, 1, Encrypted), k, S)
    BY <1>4, AnswerOK
  <1> QED BY <1>1, <1>5

(* Data passed through to the application.                                 *)
LEMMA PassthroughOK ==
    ASSUME NEW m, NEW k, NEW S, OK(m, k, S), NEW len \in Nat
    PROVE  OK(handle_ble_passthrough_data_req(m, len), k, S)
  <1> DEFINE r == tuya_ble_malloc(m, len, len)
             y == data_report(r.m, "DATA_PASSTHROUGH", len)
             x == IF r.ptr = NULL THEN r.m ELSE tuya_ble_free(y, r.ptr)
  <1>1. handle_ble_passthrough_data_req(m, len) = x
    BY Zenon DEF handle_ble_passthrough_data_req, Callback, tuya_ble_inter_event_response,
                 WithBuffer, Either, Same
  <1>2. r = tuya_ble_malloc(m, len, len)
    OBVIOUS
  <1>3. \A T \in SUBSET Nat : OK(r.m, k, T) => OK(y, k, T)
    <2>1. "DATA_PASSTHROUGH" \in DataReport
      BY DEF DataReport
    <2> QED BY <2>1, DataReportOK
  <1> HIDE DEF r, y
  <1>4. OK(x, k, S)
    BY <1>2, <1>3, BufferUsed
  <1> QED BY <1>1, <1>4

(* A request of the firmware update.                                       *)
LEMMA OtaReqOK ==
    ASSUME NEW m, NEW k, NEW S, OK(m, k, S), NEW len \in Nat
    PROVE  OK(handle_ota_req(m, len), k, S)
  <1> DEFINE r == tuya_ble_malloc(m, len, len)
             y == data_report(r.m, "OTA_RESPONSE", 5)
             x == IF r.ptr = NULL THEN r.m ELSE tuya_ble_free(y, r.ptr)
  <1>1. handle_ota_req(m, len) = x
    BY Zenon DEF handle_ota_req, Callback, tuya_ble_inter_event_response,
                 WithBuffer, Either, Same
  <1>2. r = tuya_ble_malloc(m, len, len)
    OBVIOUS
  <1>3. \A T \in SUBSET Nat : OK(r.m, k, T) => OK(y, k, T)
    <2>1. "OTA_RESPONSE" \in DataReport /\ 5 \in Nat
      BY DEF DataReport
    <2> QED BY <2>1, DataReportOK
  <1> HIDE DEF r, y
  <1>4. OK(x, k, S)
    BY <1>2, <1>3, BufferUsed
  <1> QED BY <1>1, <1>4

(* Data for the firmware of the MCU.                                       *)
LEMMA McuOtaOK ==
    ASSUME NEW m, NEW k, NEW S, OK(m, k, S), NEW len \in Nat
    PROVE  OK(mcu_ota_data_from_ble_handler(m, len), k, S)
  <1> DEFINE w == len - 1 + 7
             r == tuya_ble_malloc(m, w, w)
             x == IF r.ptr = NULL THEN r.m ELSE tuya_ble_free(r.m, r.ptr)
  <1>1. mcu_ota_data_from_ble_handler(m, len) = x
    BY Zenon DEF mcu_ota_data_from_ble_handler, Callback, tuya_ble_inter_event_response,
                 WithBuffer, Either, Same
  <1>2. w \in Nat
    OBVIOUS
  <1> HIDE DEF w
  <1>3. r = tuya_ble_malloc(m, w, w)
    OBVIOUS
  <1> HIDE DEF r
  <1>4. OK(x, k, S)
    BY <1>2, <1>3, BufferUsed
  <1> QED BY <1>1, <1>4

(* Pairing.                                                                *)
LEMMA PairOK ==
    ASSUME NEW m, NEW k, NEW S, OK(m, k, S)
    PROVE  OK(handle_pair_req(m), k, S)
  <1> DEFINE flagged == [m EXCEPT !.bound_flag = TRUE]
             changed == tuya_ble_adv_change(flagged)
             bound == IF m.bound_flag THEN m ELSE changed
             paired == [bound EXCEPT !.status = "paired"]
             once == tuya_ble_commData_send(paired, 1, Encrypted)
  <1>1. handle_pair_req(m) = tuya_ble_commData_send(once, 0, Encrypted)
    BY Zenon DEF handle_pair_req
  <1>2. OK(flagged, k, S)
    BY BoundFlagOK
  <1> HIDE DEF flagged
  <1>3. OK(changed, k, S)
    BY <1>2, AdvChangeOK
  <1> HIDE DEF changed
  <1>4. OK(bound, k, S)
    BY <1>3
  <1> HIDE DEF bound
  <1>5. OK(paired, k, S)
    BY <1>4, StatusOK
  <1> HIDE DEF paired
  <1>6. OK(once, k, S)
    BY <1>5, AnswerOK
  <1> HIDE DEF once
  <1>7. OK(tuya_ble_commData_send(once, 0, Encrypted), k, S)
    BY <1>6, AnswerOK
  <1> QED BY <1>1, <1>7

(* Unbinding.                                                              *)
LEMMA UnbondOK ==
    ASSUME NEW m, NEW k, NEW S, OK(m, k, S)
    PROVE  OK(handle_unbond_req(m), k, S)
  <1> DEFINE sent == tuya_ble_commData_send(m, 1, Encrypted)
             gone == tuya_ble_gap_disconnect(sent)
             flagged == [gone EXCEPT !.bound_flag = FALSE]
             changed == tuya_ble_adv_change(flagged)
  <1>1. handle_unbond_req(m) = [changed EXCEPT !.status = "unconn"]
    BY Zenon DEF handle_unbond_req
  <1>2. OK(sent, k, S)
    BY AnswerOK
  <1> HIDE DEF sent
  <1>3. OK(gone, k, S)
    BY <1>2, DisconnectOK
  <1> HIDE DEF gone
  <1>4. OK(flagged, k, S)
    BY <1>3, BoundFlagOK
  <1> HIDE DEF flagged
  <1>5. OK(changed, k, S)
    BY <1>4, AdvChangeOK
  <1> HIDE DEF changed
  <1>6. OK([changed EXCEPT !.status = "unconn"], k, S)
    BY <1>5, StatusOK
  <1> QED BY <1>1, <1>6

(* Every command of the phone.                                             *)
LEMMA CommandOK ==
    ASSUME NEW m, NEW k, NEW S, OK(m, k, S), NEW msg \in Message
    PROVE  \A x \in tuya_ble_evt_process(m, msg) : OK(x, k, S)
  <1> DEFINE len == DataLen(msg.data)
  <1>1. msg.cmd \in Command /\ msg.data \in Datum /\ m.dp \in Datum
    BY MemoryAssumption, DeviceIs
  <1>2. len \in Nat
    BY <1>1, DatumIs
  <1>3. tuya_ble_evt_process(m, msg) =
          CASE msg.cmd = "QRY_DEV_INFO" -> {tuya_ble_commData_send(m, 84, Encrypted)}
            [] msg.cmd = "PAIR" -> {handle_pair_req(m)}
            [] msg.cmd = "UNBONDING" -> {handle_unbond_req(m)}
            [] msg.cmd = "DP_WRITE" -> {handle_dp_write_req(m, msg.data)}
            [] msg.cmd = "STATE_QUERY" -> {handle_dp_query_req(m, len)}
            [] msg.cmd = "NET_CONFIG_INFO" -> {handle_net_config_info_req(m, len)}
            [] msg.cmd = "DATA_PASSTHROUGH" -> {handle_ble_passthrough_data_req(m, len)}
            [] msg.cmd = "OTA_DATA" -> {handle_ota_req(m, len),
                                        mcu_ota_data_from_ble_handler(m, len)}
            [] msg.cmd = "FLAG_REPORT_RESP" ->
                  {handle_dp_data_with_flag_report_res(m, ev) :
                      ev \in {"DP_DATA_WITH_FLAG", "DP_DATA_WITH_FLAG_AND_TIME"}}
    BY Zenon DEF tuya_ble_evt_process
  <1> HIDE DEF len
  <1>4. /\ OK(tuya_ble_commData_send(m, 84, Encrypted), k, S)
        /\ OK(handle_pair_req(m), k, S) /\ OK(handle_unbond_req(m), k, S)
        /\ OK(handle_dp_write_req(m, msg.data), k, S)
        /\ OK(handle_dp_query_req(m, len), k, S)
        /\ OK(handle_net_config_info_req(m, len), k, S)
        /\ OK(handle_ble_passthrough_data_req(m, len), k, S)
        /\ OK(handle_ota_req(m, len), k, S)
        /\ OK(mcu_ota_data_from_ble_handler(m, len), k, S)
    BY <1>1, <1>2, AnswerOK, PairOK, UnbondOK, DpWriteOK, QueryOK, NetConfigReqOK,
       PassthroughOK, OtaReqOK, McuOtaOK
  <1>5. ASSUME NEW ev \in {"DP_DATA_WITH_FLAG", "DP_DATA_WITH_FLAG_AND_TIME"}
        PROVE  OK(handle_dp_data_with_flag_report_res(m, ev), k, S)
    <2>1. ev \in DpReport
      BY DEF DpReport
    <2>2. OK(dp_data_report(m, ev, m.dp), k, S)
      BY <1>1, <2>1, DpReportOK
    <2> QED BY <2>2 DEF handle_dp_data_with_flag_report_res
  <1>6. CASE msg.cmd = "OTA_DATA"
    BY <1>3, <1>4, <1>6
  <1>7. CASE msg.cmd = "FLAG_REPORT_RESP"
    BY <1>3, <1>5, <1>7
  <1>8. CASE msg.cmd = "QRY_DEV_INFO"
    BY <1>3, <1>4, <1>8
  <1>9. CASE msg.cmd = "PAIR"
    BY <1>3, <1>4, <1>9
  <1>10. CASE msg.cmd = "UNBONDING"
    BY <1>3, <1>4, <1>10
  <1>11. CASE msg.cmd = "DP_WRITE"
    BY <1>3, <1>4, <1>11
  <1>12. CASE msg.cmd = "STATE_QUERY"
    BY <1>3, <1>4, <1>12
  <1>13. CASE msg.cmd = "NET_CONFIG_INFO"
    BY <1>3, <1>4, <1>13
  <1>14. CASE msg.cmd = "DATA_PASSTHROUGH"
    BY <1>3, <1>4, <1>14
  <1> QED BY <1>1, <1>6, <1>7, <1>8, <1>9, <1>10, <1>11, <1>12, <1>13, <1>14 DEF Command

-------------------------------------------------------------------------------
(***************************************************************************)
(* Reception of a message.                                                 *)
(***************************************************************************)

(* The message being put together gives up its buffer.                     *)
LEMMA RecvGivesUp ==
    ASSUME NEW m, NEW k, NEW S, OK(m, k, S)
    PROVE  LET n == [m EXCEPT !.recv = NoPacket]
           IN  /\ OK(n, k, S \union ({m.recv.buf} \ {NULL})) /\ n.recv = NoPacket
               /\ m.recv.buf \notin S
  <1> DEFINE n == [m EXCEPT !.recv = NoPacket]
  <1>1. m \in Devices /\ S \in SUBSET Nat /\ m.recv.buf \in Pointer
    BY DeviceIs DEF Packets
  <1>2. NoPacket \in Packets /\ NoPacket.buf = NULL
    BY DEF NoPacket, Packets, Pointer
  <1> HIDE DEF NoPacket
  <1>3. /\ n \in Devices /\ n.heap = m.heap /\ n.misuse = m.misuse
        /\ n.events = m.events /\ n.queue = m.queue /\ n.recv = NoPacket
    BY <1>1, <1>2 DEF Devices
  <1> HIDE DEF n
  <1> DEFINE A == Addresses(m.heap)  E == Carried(m.events, k)  Q == ToSet(m.queue)
             p == m.recv.buf  T == S \union ({p} \ {NULL})
  <1>4. Divided(A, E, Q, p, S) /\ NULL \notin E
    BY DEF OK, Carried
  <1>5. \A q \in Q : q # NULL
    <2>1. Q \in SUBSET A
      BY <1>4 DEF Divided
    <2>2. A \in SUBSET Nat
      BY AddressesAre, <1>1 DEF OK, SoundHeap, Devices
    <2> HIDE DEF A, Q
    <2> QED BY <2>1, <2>2, HeapAssumption
  <1>6. T \in SUBSET Nat
    BY <1>1 DEF Pointer
  <1>7. Divided(A, E, Q, NULL, T) /\ p \notin S
    <2>1. T = S \union ({p} \ {NULL})
      OBVIOUS
    <2>2. NULL \notin T
      BY <1>6, HeapAssumption
    <2> HIDE DEF A, E, Q, p, T
    <2> QED BY <1>4, <1>5, <2>1, <2>2 DEF Divided
  <1>8. Divided(Addresses(n.heap), Carried(n.events, k), ToSet(n.queue), n.recv.buf, T)
    BY <1>2, <1>3, <1>7
  <1> HIDE DEF T
  <1>9. OK(n, k, T)
    BY <1>3, <1>6, <1>8 DEF OK
  <1> QED BY <1>3, <1>7, <1>9 DEF T, n

(* The message being put together takes a buffer that the handler holds.   *)
LEMMA RecvTakes ==
    ASSUME NEW m, NEW k, NEW S, OK(m, k, S), NEW q \in S, m.recv.buf = NULL, NEW msg \in Message
    PROVE  OK([m EXCEPT !.recv = [buf |-> q, msg |-> msg]], k, S \ {q})
  <1> DEFINE c == [buf |-> q, msg |-> msg]
             n == [m EXCEPT !.recv = c]
  <1>1. m \in Devices /\ S \in SUBSET Nat
    BY DeviceIs
  <1>2. c \in Packets /\ c.buf = q
    BY <1>1 DEF Packets, Pointer
  <1> HIDE DEF c
  <1>3. /\ n \in Devices /\ n.heap = m.heap /\ n.misuse = m.misuse
        /\ n.events = m.events /\ n.queue = m.queue /\ n.recv = c
    BY <1>1, <1>2 DEF Devices
  <1> HIDE DEF n
  <1> DEFINE A == Addresses(m.heap)  E == Carried(m.events, k)  Q == ToSet(m.queue)  T == S \ {q}
  <1>4. Divided(A, E, Q, NULL, S)
    BY DEF OK
  <1>5. Divided(A, E, Q, q, T) /\ T \in SUBSET Nat
    <2>1. q # NULL /\ T = S \ {q}
      BY <1>1, HeapAssumption
    <2> HIDE DEF A, E, Q, T
    <2> QED BY <1>1, <1>4, <2>1 DEF Divided
  <1>6. Divided(Addresses(n.heap), Carried(n.events, k), ToSet(n.queue), n.recv.buf, T)
    BY <1>2, <1>3, <1>5
  <1> HIDE DEF T
  <1>7. OK(n, k, T)
    BY <1>3, <1>5, <1>6 DEF OK
  <1> QED BY <1>7 DEF T, n, c

(* The buffer of the message being received is released.                   *)
LEMMA PacketFreeOK ==
    ASSUME NEW m, NEW k, NEW S, OK(m, k, S)
    PROVE  LET y == tuya_ble_air_recv_packet_free(m)
           IN  OK(y, k, S) /\ y.recv = NoPacket
  <1> DEFINE n == [m EXCEPT !.recv = NoPacket]
             p == m.recv.buf
             T == S \union ({p} \ {NULL})
  <1>1. OK(n, k, T) /\ n.recv = NoPacket /\ p \notin S
    BY RecvGivesUp
  <1>2. tuya_ble_air_recv_packet_free(m) = tuya_ble_free(n, p)
    BY DEF tuya_ble_air_recv_packet_free
  <1>3. p \in T \union {NULL} /\ T \ {p} = S
    BY <1>1
  <1> HIDE DEF n, p, T
  <1>4. OK(tuya_ble_free(n, p), k, T \ {p}) /\ tuya_ble_free(n, p).recv = n.recv
    BY <1>1, <1>3, FreeMaybe
  <1> QED BY <1>1, <1>2, <1>3, <1>4

(* The lengths of a message, encrypted and decrypted.                      *)
LEMMA AirLenIs ==
    ASSUME NEW msg \in Message
    PROVE  PlainLen(msg) \in Nat /\ AirLen(msg) \in Nat /\ PlainLen(msg) <= AirLen(msg)
  <1>1. DataLen(msg.data) \in Nat
    BY MemoryAssumption, DatumIs
  <1>2. 14 + DataLen(msg.data) \in Nat
    BY <1>1
  <1>3. PlainLen(msg) \in Nat
    BY <1>2, PaddedIs DEF PlainLen
  <1> QED BY <1>3 DEF AirLen, Encrypted

(* The first packet of a message: the buffer of a message that was cut off *)
(* is released, a new one is allocated.                                    *)
LEMMA FirstOK ==
    ASSUME NEW m, NEW k, NEW S, OK(m, k, S), NEW msg \in Message
    PROVE  OK(ble_data_unpack_first(m, msg), k, S)
  <1> DEFINE freed == tuya_ble_air_recv_packet_free(m)
             w == AirLen(msg)
             r == tuya_ble_malloc(freed, w, w)
  <1>1. ble_data_unpack_first(m, msg) =
          IF w > TUYA_BLE_AIR_FRAME_MAX THEN freed
          ELSE IF r.ptr = NULL THEN r.m
          ELSE [r.m EXCEPT !.recv = [buf |-> r.ptr, msg |-> msg]]
    BY Zenon DEF ble_data_unpack_first, WithBuffer, Either, Same
  <1>2. OK(freed, k, S) /\ freed.recv = NoPacket
    BY PacketFreeOK
  <1>3. w \in Nat /\ w <= w
    BY AirLenIs
  <1> HIDE DEF freed, w
  <1>4. Got(r, freed, k, S)
    BY <1>2, <1>3, MallocGot
  <1> HIDE DEF r
  <1>5. CASE r.ptr = NULL
    BY <1>1, <1>2, <1>4, <1>5 DEF Got
  <1>6. CASE r.ptr # NULL
    <2> DEFINE p == r.ptr  n == r.m
    <2>1. PICK T \in SUBSET Nat : OK(n, k, T) /\ p \in T /\ T \ {p} = S
      BY <1>4, <1>6 DEF Got
    <2>2. n.recv.buf = NULL
      BY <1>2, <1>4, <1>6 DEF Got, Beside, NoPacket
    <2> HIDE DEF n, p
    <2>3. OK([n EXCEPT !.recv = [buf |-> p, msg |-> msg]], k, T \ {p})
      BY <2>1, <2>2, RecvTakes
    <2> QED BY <1>1, <1>2, <1>6, <2>1, <2>3 DEF n, p
  <1> QED BY <1>5, <1>6

(* The last packet of a message: decrypted into a buffer that goes with    *)
(* the command's event, and the buffer of reception is released.           *)
LEMMA LastOK ==
    ASSUME NEW m, NEW k, NEW S, OK(m, k, S), m.recv.buf # NULL, NEW answer
    PROVE  OK(tuya_ble_commonData_rx_proc(m, answer), k, S)
  <1> DEFINE msg == m.recv.msg
             len == PlainLen(msg) + 1
             allowed == m.status = "paired" \/ msg.cmd \in BeforePairing
             r == tuya_ble_malloc(m, AirLen(msg), PlainLen(msg))
             decrypted == tuya_ble_air_recv_packet_free(r.m)
             s == tuya_ble_malloc(decrypted, len, len)
             event == IF s.ptr = NULL THEN s.m ELSE PostedWith(s.m, "BLE_CMD", s.ptr, len, msg)
             done == IF answer = "taken" /\ allowed THEN event ELSE decrypted
  <1>1. msg \in Message
    <2>1. m.recv \in Packets
      BY DeviceIs
    <2> QED BY <2>1 DEF Packets
  <1>2. tuya_ble_commonData_rx_proc(m, answer) =
          IF answer = "refused" THEN tuya_ble_air_recv_packet_free(m)
          ELSE IF r.ptr = NULL THEN tuya_ble_air_recv_packet_free(r.m)
          ELSE tuya_ble_free(done, r.ptr)
    BY Zenon DEF tuya_ble_commonData_rx_proc, WithBuffer, Either, Same
  <1>3. PlainLen(msg) \in Nat /\ AirLen(msg) \in Nat /\ PlainLen(msg) <= AirLen(msg)
        /\ len \in Nat /\ len <= len
    BY <1>1, AirLenIs
  <1>4. OK(tuya_ble_air_recv_packet_free(m), k, S)
    BY PacketFreeOK
  <1> HIDE DEF msg, len, allowed
  <1>5. Got(r, m, k, S)
    BY <1>3, MallocGot
  <1> HIDE DEF r
  <1>6. CASE r.ptr = NULL
    BY <1>2, <1>4, <1>5, <1>6 DEF Got
  <1>7. CASE r.ptr # NULL
    <2> DEFINE p == r.ptr  n == r.m
    <2>1. PICK T \in SUBSET Nat : OK(n, k, T) /\ p \in T /\ T \ {p} = S
      BY <1>5, <1>7 DEF Got
    <2>2. OK(decrypted, k, T)
      <3> HIDE DEF n, p
      <3>1. OK(tuya_ble_air_recv_packet_free(n), k, T)
        BY <2>1, PacketFreeOK
      <3> QED BY <3>1 DEF n
    <2> HIDE DEF n, p, decrypted
    <2>3. Got(s, decrypted, k, T)
      BY <1>3, <2>2, MallocGot
    <2> HIDE DEF s
    <2>4. OK(event, k, T)
      <3>1. CASE s.ptr = NULL
        BY <2>2, <2>3, <3>1 DEF Got
      <3>2. CASE s.ptr # NULL
        <4> DEFINE q == s.ptr  x == s.m
        <4>1. PICK U \in SUBSET Nat : OK(x, k, U) /\ q \in U /\ U \ {q} = T
          BY <2>3, <3>2 DEF Got
        <4>2. "BLE_CMD" \in Carriers /\ msg \in Message \union {NULL}
          BY <1>1 DEF Carriers
        <4> HIDE DEF q, x
        <4>3. OK(PostedWith(x, "BLE_CMD", q, len, msg), k, U \ {q})
          BY <1>1, <1>3, <4>1, <4>2, PostedWithOK
        <4> QED BY <3>2, <4>1, <4>3 DEF q, x
      <3> QED BY <3>1, <3>2
    <2> HIDE DEF event
    <2>5. OK(done, k, T)
      BY <2>2, <2>4
    <2> HIDE DEF done
    <2>6. OK(tuya_ble_free(done, p), k, T \ {p})
      BY <2>1, <2>5, FreeOK
    <2> QED BY <1>2, <1>4, <1>7, <2>1, <2>6 DEF p
  <1> QED BY <1>6, <1>7

-------------------------------------------------------------------------------
(***************************************************************************)
(* Handlers and steps.                                                     *)
(***************************************************************************)

(* The event whose turn it is hands its buffer to the handler.             *)
LEMMA BeginOK ==
    ASSUME NEW m, OK(m, 1, {}), m.events # <<>>
    PROVE  LET e == Head(m.events)
           IN  e \in Events /\ OK(m, 2, {e.buf} \ {NULL})
  <1> DEFINE ev == m.events  e == Head(ev)  S == {e.buf} \ {NULL}
  <1>1. ev \in Seq(Events) /\ Len(ev) \in Nat /\ Len(ev) >= 1 /\ e = ev[1] /\ e \in Events
    <2>1. ev \in Seq(Events) /\ ev # <<>>
      BY DeviceIs
    <2> HIDE DEF ev
    <2> QED BY <2>1
  <1>2. e.buf \in Pointer /\ S \in SUBSET Nat
    BY <1>1 DEF Events, Pointer
  <1> HIDE DEF ev, e
  <1>3. 1 .. Len(ev) = {1} \union (2 .. Len(ev)) /\ 1 \notin 2 .. Len(ev)
        /\ 2 \in {1, 2} /\ 2 <= Len(ev) + 1
    BY <1>1
  <1>4. Unshared(ev, 1, m.queue)
        /\ Divided(Addresses(m.heap), Carried(ev, 1), ToSet(m.queue), m.recv.buf, {})
    BY DEF OK, ev
  <1>5. Carried(ev, 1) = Carried(ev, 2) \union S
    <2>1. {ev[i].buf : i \in 1 .. Len(ev)} = {ev[i].buf : i \in 2 .. Len(ev)} \union {e.buf}
      BY <1>1, <1>3
    <2> QED BY <2>1 DEF Carried
  <1>6. Carried(ev, 2) \intersect S = {}
    <2>1. \A i \in 2 .. Len(ev) : ev[i].buf = e.buf => e.buf = NULL
      BY <1>1, <1>3, <1>4 DEF Unshared
    <2> QED BY <2>1 DEF Carried
  <1>7. Unshared(ev, 2, m.queue)
    BY <1>3, <1>4 DEF Unshared
  <1>8. Divided(Addresses(m.heap), Carried(ev, 2), ToSet(m.queue), m.recv.buf, S)
    <2> DEFINE A == Addresses(m.heap)  E == Carried(ev, 1)  F == Carried(ev, 2)
               Q == ToSet(m.queue)  p == m.recv.buf
    <2>1. Divided(A, E, Q, p, {}) /\ E = F \union S /\ F \intersect S = {}
      BY <1>4, <1>5, <1>6
    <2>2. Divided(A, F, Q, p, S)
      <3> HIDE DEF A, E, F, Q, p, S
      <3> QED BY <2>1 DEF Divided
    <2> QED BY <2>2
  <1> HIDE DEF S
  <1>9. OK(m, 2, S)
    BY <1>2, <1>3, <1>7, <1>8 DEF OK, ev
  <1> QED BY <1>1, <1>9 DEF ev, e, S

(* A handler that holds nothing more returns: its event is gone.           *)
LEMMA EndOK ==
    ASSUME NEW m, OK(m, 2, {})
    PROVE  OK([m EXCEPT !.events = Tail(@)], 1, {})
  <1> DEFINE ev == m.events  tl == Tail(ev)  n == [m EXCEPT !.events = tl]
  <1>1. m \in Devices /\ ev \in Seq(Events) /\ Len(ev) + 1 >= 2
    BY DeviceIs DEF OK
  <1>2. /\ tl \in Seq(Events) /\ Len(tl) = Len(ev) - 1 /\ Len(ev) \in Nat /\ Len(tl) \in Nat
        /\ \A i \in 1 .. Len(tl) : tl[i] = ev[i + 1]
    <2> HIDE DEF ev
    <2>1. ev # <<>> /\ Len(ev) \in Nat
      BY <1>1
    <2> QED BY <1>1, <2>1, HeadTailProperties
  <1>0. n = [m EXCEPT !.events = Tail(@)]
    BY <1>1 DEF Devices
  <1> HIDE DEF tl
  <1>3. /\ n \in Devices /\ n.heap = m.heap /\ n.misuse = m.misuse
        /\ n.events = tl /\ n.queue = m.queue /\ n.recv = m.recv
    BY <1>1, <1>2 DEF Devices
  <1> HIDE DEF n, ev
  <1>4. Unshared(ev, 2, m.queue)
        /\ Divided(Addresses(m.heap), Carried(ev, 2), ToSet(m.queue), m.recv.buf, {})
        /\ Sound(m.heap) /\ m.misuse = FALSE
    BY DEF OK, ev
  <1>5. /\ \A i \in 1 .. Len(tl) : i + 1 \in 2 .. Len(ev)
        /\ \A i \in 2 .. Len(ev) : i - 1 \in 1 .. Len(tl) /\ (i - 1) + 1 = i
        /\ 1 <= Len(tl) + 1
    BY <1>2
  <1>6. Carried(tl, 1) = Carried(ev, 2)
    <2>1. \A i \in 2 .. Len(ev) : ev[i] = tl[i - 1]
      BY <1>2, <1>5
    <2> DEFINE A == {tl[i].buf : i \in 1 .. Len(tl)}  B == {ev[i].buf : i \in 2 .. Len(ev)}
    <2>2. A \in SUBSET B
      <3>1. \A i \in 1 .. Len(tl) : tl[i].buf = ev[i + 1].buf /\ i + 1 \in 2 .. Len(ev)
        BY <1>2, <1>5
      <3> QED BY <3>1
    <2>3. B \in SUBSET A
      BY <1>5, <2>1
    <2>4. A = B
      BY <2>2, <2>3
    <2> QED BY <2>4 DEF Carried
  <1>7. Unshared(tl, 1, m.queue)
    <2>1. ASSUME NEW i \in 1 .. Len(tl), NEW j \in 1 .. Len(tl),
                 tl[i].buf = tl[j].buf, tl[i].buf # NULL
          PROVE  i = j
      <3>1. ev[i + 1].buf = ev[j + 1].buf /\ ev[i + 1].buf # NULL
        BY <1>2, <2>1
      <3>2. i + 1 = j + 1
        BY <1>4, <1>5, <3>1 DEF Unshared
      <3> QED BY <3>2
    <2> QED BY <1>4, <2>1 DEF Unshared
  <1>8. OK(n, 1, {})
    BY <1>3, <1>4, <1>5, <1>6, <1>7 DEF OK
  <1> QED BY <1>0, <1>8

-----------------------------------------------------------------------------
(* The inductive invariant: memory is in order between any two steps, and  *)
(* what the environment keeps has its type.                                *)
InOrder == OK(Still, 1, {}) /\ phone \in Message \union {NULL}

(* The choices of the environment concern no memory.                       *)
LEMMA DeviceOK ==
    ASSUME OK(Still, 1, {}), NEW credit \in Nat, NEW encrypts \in BOOLEAN
    PROVE  OK(Device(credit, encrypts), 1, {}) /\ Device(credit, encrypts).events = events
  <1> DEFINE n == Device(credit, encrypts)
  <1>1. Still \in Devices
    BY DeviceIs
  <1>2. /\ n \in Devices /\ n.heap = Still.heap /\ n.misuse = Still.misuse
        /\ n.events = Still.events /\ n.queue = Still.queue /\ n.recv = Still.recv
    BY <1>1 DEF Devices, Device, Still
  <1>3. n.events = events
    BY DEF Device
  <1> HIDE DEF n
  <1>4. OK(n, 1, {})
    BY <1>2, Unchanging
  <1> QED BY <1>3, <1>4 DEF n

(* The device that a step computes is in order in the next state.          *)
LEMMA BecomesOK ==
    ASSUME NEW m, OK(m, 1, {}), Becomes(m)
    PROVE  OK(Still, 1, {})'
  <1> DEFINE n == [link |-> m.link, term_pending |-> m.term_pending, status |-> m.status,
                   bound_flag |-> m.bound_flag, heap |-> m.heap, events |-> m.events,
                   queue |-> m.queue, flag |-> m.flag, recv |-> m.recv, dp |-> m.dp,
                   misuse |-> m.misuse, credit |-> 0, encrypts |-> TRUE]
  <1>1. m \in Devices
    BY DeviceIs
  <1>2. /\ n \in Devices /\ n.heap = m.heap /\ n.misuse = m.misuse
        /\ n.events = m.events /\ n.queue = m.queue /\ n.recv = m.recv
    BY <1>1 DEF Devices
  <1>3. Still' = n
    BY DEF Still, Device, Becomes
  <1> HIDE DEF n
  <1>4. OK(n, 1, {})
    BY <1>2, Unchanging
  <1> QED BY <1>3, <1>4

(* A handler that leaves nothing held keeps the invariant.                 *)
LEMMA HandledOK ==
    ASSUME InOrder, NEW m, OK(m, 2, {}), Becomes([m EXCEPT !.events = Tail(@)]),
           UNCHANGED <<phone, inputs>>
    PROVE  InOrder'
  <1> DEFINE n == [m EXCEPT !.events = Tail(@)]
  <1>1. OK(n, 1, {})
    BY EndOK
  <1> HIDE DEF n
  <1>2. Becomes(n)
    BY DEF n
  <1>3. OK(Still, 1, {})'
    BY <1>1, <1>2, BecomesOK
  <1> QED BY <1>3 DEF InOrder

(* What the device and its first event are when a handler begins.          *)
Begins(m) == /\ OK(m, 2, {Head(events).buf} \ {NULL})
             /\ OK(m, 1, {}) /\ Head(events) \in Events /\ m.events = events

(* Every handler begins in order, holding the buffer of its event.         *)
LEMMA HandlerBegins ==
    ASSUME InOrder, events # <<>>, NEW credit \in 0 .. (IF link THEN MaxCredit ELSE 0),
           NEW encrypts \in BOOLEAN
    PROVE  Begins(Device(credit, encrypts))
  <1> DEFINE m == Device(credit, encrypts)
  <1>1. credit \in Nat
    BY MemoryAssumption
  <1>2. OK(m, 1, {}) /\ m.events = events
    BY <1>1, DeviceOK DEF InOrder
  <1> HIDE DEF m
  <1>3. OK(m, 2, {Head(m.events).buf} \ {NULL}) /\ Head(m.events) \in Events
    BY <1>2, BeginOK
  <1>4. Begins(m)
    BY <1>2, <1>3 DEF Begins
  <1> QED BY <1>4 DEF m

(* Without a buffer in the event the handler has none to free.             *)
LEMMA NothingHeld ==
    ASSUME NEW m, Begins(m), Head(events).ev \notin Carriers
    PROVE  OK(m, 2, {})
  <1> DEFINE e == Head(events)  S == {e.buf} \ {NULL}
  <1>1. e \in Events /\ OK(m, 2, S)
    BY DEF Begins
  <1> HIDE DEF e
  <1>2. e.buf = NULL
    BY <1>1 DEF Events, e
  <1>3. S = {}
    BY <1>2
  <1> QED BY <1>1, <1>3

(* A handler that released what its event brought holds nothing.           *)
LEMMA FreedLast ==
    ASSUME NEW p, NEW m, OK(m, 2, ({p} \ {NULL}) \ {p})
    PROVE  OK(m, 2, {})
  <1>1. ({p} \ {NULL}) \ {p} = {}
    OBVIOUS
  <1> QED BY <1>1

(* The handler of a change of the connection keeps the invariant.          *)
LEMMA ConnectChangeOK ==
    ASSUME InOrder, tuya_ble_handle_connect_change_evt PROVE InOrder'
  <1>1. CASE /\ Is("CONNECTED") /\ Handled(LAMBDA m, e : {[m EXCEPT !.status = "unauth"]})
    <2>1. /\ events # <<>> /\ Head(events).ev = "CONNECTED" /\ UNCHANGED <<phone, inputs>>
      BY <1>1 DEF Is, Handled
    <2>2. PICK credit \in 0 .. (IF link THEN MaxCredit ELSE 0), encrypts \in BOOLEAN :
             \E m \in {[Device(credit, encrypts) EXCEPT !.status = "unauth"]} :
                Becomes([m EXCEPT !.events = Tail(@)])
      BY <1>1, Zenon DEF Handled
    <2> DEFINE d == Device(credit, encrypts)  m == [d EXCEPT !.status = "unauth"]
    <2>3. Becomes([m EXCEPT !.events = Tail(@)])
      BY <2>2
    <2>4. Begins(d)
      BY <2>1, HandlerBegins
    <2> HIDE DEF d
    <2>5. OK(d, 2, {})
      <3>1. Head(events).ev \notin Carriers
        BY <2>1 DEF Carriers, DpReport, DataReport
      <3> QED BY <2>4, <3>1, NothingHeld
    <2>6. OK(m, 2, {})
      BY <2>5, StatusOK
    <2> HIDE DEF m
    <2> QED BY <2>1, <2>3, <2>6, HandledOK
  <1>2. CASE /\ Is("DISCONNECTED")
             /\ Handled(LAMBDA m, e :
                    {[tuya_ble_air_recv_packet_free(m) EXCEPT !.status = "unconn"]})
    <2>1. /\ events # <<>> /\ Head(events).ev = "DISCONNECTED" /\ UNCHANGED <<phone, inputs>>
      BY <1>2 DEF Is, Handled
    <2>2. PICK credit \in 0 .. (IF link THEN MaxCredit ELSE 0), encrypts \in BOOLEAN :
             \E m \in {[tuya_ble_air_recv_packet_free(Device(credit, encrypts))
                            EXCEPT !.status = "unconn"]} :
                Becomes([m EXCEPT !.events = Tail(@)])
      BY <1>2, Zenon DEF Handled
    <2> DEFINE d == Device(credit, encrypts)  n == tuya_ble_air_recv_packet_free(d)
               m == [n EXCEPT !.status = "unconn"]
    <2>3. Becomes([m EXCEPT !.events = Tail(@)])
      BY <2>2
    <2>4. Begins(d)
      BY <2>1, HandlerBegins
    <2> HIDE DEF d
    <2>5. OK(d, 2, {})
      <3>1. Head(events).ev \notin Carriers
        BY <2>1 DEF Carriers, DpReport, DataReport
      <3> QED BY <2>4, <3>1, NothingHeld
    <2>6. OK(n, 2, {})
      BY <2>5, PacketFreeOK
    <2> HIDE DEF n
    <2>7. OK(m, 2, {})
      BY <2>6, StatusOK
    <2> HIDE DEF m
    <2> QED BY <2>1, <2>3, <2>7, HandledOK
  <1> QED BY <1>1, <1>2 DEF tuya_ble_handle_connect_change_evt

(* So does sending,                                                        *)
LEMMA GattSendStepOK == ASSUME InOrder, GattSend PROVE InOrder'
  <1>1. /\ events # <<>> /\ Head(events).ev = "GATT_SEND_DATA" /\ UNCHANGED <<phone, inputs>>
    BY DEF GattSend, Is, Handled
  <1>2. PICK credit \in 0 .. (IF link THEN MaxCredit ELSE 0), encrypts \in BOOLEAN :
           \E m \in {tuya_ble_gatt_send_data_handle(Device(credit, encrypts))} :
              Becomes([m EXCEPT !.events = Tail(@)])
    BY Zenon DEF GattSend, Handled
  <1> DEFINE d == Device(credit, encrypts)  m == tuya_ble_gatt_send_data_handle(d)
  <1>3. Becomes([m EXCEPT !.events = Tail(@)])
    BY <1>2
  <1>4. Begins(d)
    BY <1>1, HandlerBegins
  <1> HIDE DEF d
  <1>5. OK(d, 2, {})
    <2>1. Head(events).ev \notin Carriers
      BY <1>1 DEF Carriers, DpReport, DataReport
    <2> QED BY <1>4, <2>1, NothingHeld
  <1>6. OK(m, 2, {})
    BY <1>5, GattSendOK
  <1> HIDE DEF m
  <1> QED BY <1>1, <1>3, <1>6, HandledOK

(* the first packet of a message,                                          *)
LEMMA FirstReceivedOK == ASSUME InOrder, FirstReceived PROVE InOrder'
  <1>1. /\ events # <<>> /\ Head(events).ev = "FIRST_RECEIVED" /\ UNCHANGED <<phone, inputs>>
    BY DEF FirstReceived, Is, Handled
  <1>2. PICK credit \in 0 .. (IF link THEN MaxCredit ELSE 0), encrypts \in BOOLEAN :
           \E m \in {ble_data_unpack_first(Device(credit, encrypts), Head(events).msg)} :
              Becomes([m EXCEPT !.events = Tail(@)])
    BY Zenon DEF FirstReceived, Handled
  <1> DEFINE d == Device(credit, encrypts)  msg == Head(events).msg
             m == ble_data_unpack_first(d, msg)
  <1>3. Becomes([m EXCEPT !.events = Tail(@)])
    BY <1>2
  <1>4. Begins(d)
    BY <1>1, HandlerBegins
  <1> HIDE DEF d
  <1>5. OK(d, 2, {})
    <2>1. Head(events).ev \notin Carriers
      BY <1>1 DEF Carriers, DpReport, DataReport
    <2> QED BY <1>4, <2>1, NothingHeld
  <1>6. msg \in Message
    BY <1>1, <1>4 DEF Begins, Events
  <1> HIDE DEF msg
  <1>7. OK(m, 2, {})
    BY <1>5, <1>6, FirstOK
  <1> HIDE DEF m
  <1> QED BY <1>1, <1>3, <1>7, HandledOK

(* the last one,                                                           *)
LEMMA LastReceivedOK == ASSUME InOrder, LastReceived PROVE InOrder'
  <1>1. /\ events # <<>> /\ Head(events).ev = "LAST_RECEIVED" /\ UNCHANGED <<phone, inputs>>
    BY DEF LastReceived, Is, Handled
  <1>2. PICK credit \in 0 .. (IF link THEN MaxCredit ELSE 0), encrypts \in BOOLEAN :
           \E m \in IF Device(credit, encrypts).recv.buf = NULL THEN {Device(credit, encrypts)}
                    ELSE {tuya_ble_commonData_rx_proc(Device(credit, encrypts), answer) :
                             answer \in Answer} :
              Becomes([m EXCEPT !.events = Tail(@)])
    BY Zenon DEF LastReceived, Handled
  <1> DEFINE d == Device(credit, encrypts)
  <1>3. PICK m \in IF d.recv.buf = NULL THEN {d}
                   ELSE {tuya_ble_commonData_rx_proc(d, answer) : answer \in Answer} :
           Becomes([m EXCEPT !.events = Tail(@)])
    BY <1>2
  <1>4. Begins(d)
    BY <1>1, HandlerBegins
  <1> HIDE DEF d
  <1>5. OK(d, 2, {})
    <2>1. Head(events).ev \notin Carriers
      BY <1>1 DEF Carriers, DpReport, DataReport
    <2> QED BY <1>4, <2>1, NothingHeld
  <1>6. OK(m, 2, {})
    BY <1>3, <1>5, LastOK
  <1> QED BY <1>1, <1>3, <1>6, HandledOK

(* the handler of a command,                                               *)
LEMMA BleCmdOK == ASSUME InOrder, tuya_ble_handle_ble_cmd_evt PROVE InOrder'
  <1>1. /\ events # <<>> /\ Head(events).ev = "BLE_CMD" /\ UNCHANGED <<phone, inputs>>
    BY DEF tuya_ble_handle_ble_cmd_evt, Is, Handled
  <1>2. PICK credit \in 0 .. (IF link THEN MaxCredit ELSE 0), encrypts \in BOOLEAN :
           \E m \in {tuya_ble_free(n, Head(events).buf) :
                        n \in tuya_ble_evt_process(Device(credit, encrypts), Head(events).msg)} :
              Becomes([m EXCEPT !.events = Tail(@)])
    BY Zenon DEF tuya_ble_handle_ble_cmd_evt, Handled
  <1> DEFINE d == Device(credit, encrypts)  msg == Head(events).msg  p == Head(events).buf
             S == {p} \ {NULL}
  <1>3. PICK n \in tuya_ble_evt_process(d, msg) :
           Becomes([tuya_ble_free(n, p) EXCEPT !.events = Tail(@)])
    BY <1>2
  <1>4. Begins(d)
    BY <1>1, HandlerBegins
  <1> HIDE DEF d
  <1>5. OK(d, 2, S) /\ msg \in Message /\ p \in S \union {NULL}
    BY <1>1, <1>4 DEF Begins, Events
  <1> HIDE DEF msg, p, S
  <1>6. OK(n, 2, S)
    BY <1>3, <1>5, CommandOK
  <1> DEFINE m == tuya_ble_free(n, p)
  <1>7. OK(m, 2, S \ {p})
    BY <1>5, <1>6, FreeMaybe
  <1>8. Becomes([m EXCEPT !.events = Tail(@)])
    BY <1>3
  <1> HIDE DEF m
  <1>9. OK(m, 2, {})
    BY <1>7, FreedLast DEF S
  <1> QED BY <1>1, <1>8, <1>9, HandledOK

(* An event with a buffer, or none, as its handler finds it.               *)
LEMMA Held ==
    ASSUME NEW m, Begins(m)
    PROVE  LET e == Head(events)
               S == {e.buf} \ {NULL}
           IN  OK(m, 2, S) /\ e \in Events /\ e.buf \in S \union {NULL} /\ S \ {e.buf} = {}
  BY DEF Begins

(* and of a report of data points,                                         *)
LEMMA DpReportedOK == ASSUME InOrder, tuya_ble_handle_dp_data_reported_evt PROVE InOrder'
  <1>1. /\ events # <<>> /\ UNCHANGED <<phone, inputs>>
    BY DEF tuya_ble_handle_dp_data_reported_evt, Handled
  <1>2. PICK credit \in 0 .. (IF link THEN MaxCredit ELSE 0), encrypts \in BOOLEAN :
           \E m \in {IF Prefix(Head(events).ev) > 0
                     THEN handle_prefixed_evt(Device(credit, encrypts), Head(events))
                     ELSE handle_plain_evt(Device(credit, encrypts), Head(events), Encrypted)} :
              Becomes([m EXCEPT !.events = Tail(@)])
    BY Zenon DEF tuya_ble_handle_dp_data_reported_evt, Handled
  <1> DEFINE d == Device(credit, encrypts)  e == Head(events)  S == {e.buf} \ {NULL}
             m == IF Prefix(e.ev) > 0 THEN handle_prefixed_evt(d, e)
                  ELSE handle_plain_evt(d, e, Encrypted)
  <1>3. Becomes([m EXCEPT !.events = Tail(@)])
    BY <1>2
  <1>4. Begins(d)
    BY <1>1, HandlerBegins
  <1> HIDE DEF d
  <1>5. OK(d, 2, S) /\ e \in Events /\ e.buf \in S \union {NULL} /\ S \ {e.buf} = {}
    BY <1>4, Held
  <1> HIDE DEF e, S
  <1>6. OK(handle_prefixed_evt(d, e), 2, S \ {e.buf})
    BY <1>5, PrefixedOK
  <1>7. OK(handle_plain_evt(d, e, Encrypted), 2, S \ {e.buf})
    <2>1. Encrypted \in Nat
      BY DEF Encrypted
    <2> QED BY <1>5, <2>1, PlainOK
  <1>8. OK(m, 2, {})
    BY <1>5, <1>6, <1>7
  <1> HIDE DEF m
  <1> QED BY <1>1, <1>3, <1>8, HandledOK

(* of other data,                                                          *)
LEMMA DataEvtOK == ASSUME InOrder, tuya_ble_handle_data_evt PROVE InOrder'
  <1>1. /\ events # <<>> /\ UNCHANGED <<phone, inputs>>
    BY DEF tuya_ble_handle_data_evt, Handled
  <1>2. PICK credit \in 0 .. (IF link THEN MaxCredit ELSE 0), encrypts \in BOOLEAN :
           \E m \in {handle_plain_evt(Device(credit, encrypts), Head(events), Encrypted)} :
              Becomes([m EXCEPT !.events = Tail(@)])
    BY Zenon DEF tuya_ble_handle_data_evt, Handled
  <1> DEFINE d == Device(credit, encrypts)  e == Head(events)  S == {e.buf} \ {NULL}
             m == handle_plain_evt(d, e, Encrypted)
  <1>3. Becomes([m EXCEPT !.events = Tail(@)])
    BY <1>2
  <1>4. Begins(d)
    BY <1>1, HandlerBegins
  <1> HIDE DEF d
  <1>5. OK(d, 2, S) /\ e \in Events /\ e.buf \in S \union {NULL} /\ S \ {e.buf} = {}
    BY <1>4, Held
  <1> HIDE DEF e, S
  <1>6. OK(m, 2, S \ {e.buf})
    <2>1. Encrypted \in Nat
      BY DEF Encrypted
    <2> QED BY <1>5, <2>1, PlainOK
  <1> HIDE DEF m
  <1>7. OK(m, 2, {})
    BY <1>5, <1>6
  <1> QED BY <1>1, <1>3, <1>7, HandledOK

(* of a test's answer,                                                     *)
LEMMA ProdTestOK == ASSUME InOrder, tuya_ble_handle_data_prod_test_response_evt PROVE InOrder'
  <1>1. /\ events # <<>> /\ UNCHANGED <<phone, inputs>>
    BY DEF tuya_ble_handle_data_prod_test_response_evt, Handled
  <1>2. PICK credit \in 0 .. (IF link THEN MaxCredit ELSE 0), encrypts \in BOOLEAN :
           \E m \in {tuya_ble_free(Device(credit, encrypts), Head(events).buf),
                     handle_plain_evt(Device(credit, encrypts), Head(events),
                         IF Device(credit, encrypts).status = "paired" THEN Encrypted ELSE Plain)} :
              Becomes([m EXCEPT !.events = Tail(@)])
    BY Zenon DEF tuya_ble_handle_data_prod_test_response_evt, Handled
  <1> DEFINE d == Device(credit, encrypts)  e == Head(events)  S == {e.buf} \ {NULL}
             en_len == IF d.status = "paired" THEN Encrypted ELSE Plain
             x == tuya_ble_free(d, e.buf)
             y == handle_plain_evt(d, e, en_len)
  <1>3. PICK m \in {x, y} : Becomes([m EXCEPT !.events = Tail(@)])
    BY <1>2
  <1>4. Begins(d)
    BY <1>1, HandlerBegins
  <1>5. en_len \in Nat
    BY DEF Encrypted, Plain
  <1> HIDE DEF d, en_len
  <1>6. OK(d, 2, S) /\ e \in Events /\ e.buf \in S \union {NULL} /\ S \ {e.buf} = {}
    BY <1>4, Held
  <1> HIDE DEF e, S
  <1>7. OK(y, 2, S \ {e.buf})
    BY <1>5, <1>6, PlainOK
  <1>8. OK(x, 2, S \ {e.buf})
    BY <1>6, FreeMaybe
  <1> HIDE DEF x, y
  <1>9. OK(m, 2, {})
    BY <1>3, <1>6, <1>7, <1>8
  <1> QED BY <1>1, <1>3, <1>9, HandledOK

(* and of a network configuration.                                         *)
LEMMA NetConfigEvtOK == ASSUME InOrder, tuya_ble_handle_net_config_response_evt PROVE InOrder'
  <1>1. /\ events # <<>> /\ Head(events).ev = "NET_CONFIG_RESPONSE" /\ UNCHANGED <<phone, inputs>>
    BY DEF tuya_ble_handle_net_config_response_evt, Is, Handled
  <1>2. PICK credit \in 0 .. (IF link THEN MaxCredit ELSE 0), encrypts \in BOOLEAN :
           \E m \in {tuya_ble_commData_send(Device(credit, encrypts), 2, Encrypted)} :
              Becomes([m EXCEPT !.events = Tail(@)])
    BY Zenon DEF tuya_ble_handle_net_config_response_evt, Handled
  <1> DEFINE d == Device(credit, encrypts)  m == tuya_ble_commData_send(d, 2, Encrypted)
  <1>3. Becomes([m EXCEPT !.events = Tail(@)])
    BY <1>2
  <1>4. Begins(d)
    BY <1>1, HandlerBegins
  <1> HIDE DEF d
  <1>5. OK(d, 2, {})
    <2>1. Head(events).ev \notin Carriers
      BY <1>1 DEF Carriers, DpReport, DataReport
    <2> QED BY <1>4, <2>1, NothingHeld
  <1>6. OK(m, 2, {})
    BY <1>5, AnswerOK
  <1> HIDE DEF m
  <1> QED BY <1>1, <1>3, <1>6, HandledOK

-----------------------------------------------------------------------------
LEMMA WorldOK ==
    ASSUME NEW m, OK(m, 1, {}), Becomes(m), phone' \in Message \union {NULL}
    PROVE  InOrder'
  <1>1. OK(Still, 1, {})'
    BY BecomesOK
  <1> QED BY <1>1 DEF InOrder

(* An event without buffer posted between two handlers.                    *)
LEMMA PostedNothing ==
    ASSUME NEW m, OK(m, 1, {}),
           NEW ev \in {"CONNECTED", "DISCONNECTED", "LAST_RECEIVED"},
           NEW msg \in Message \union {NULL}
    PROVE  OK(Posted(m, ev, msg), 1, {})
  <1>1. ev \in EventName /\ ev \notin {"BLE_CMD", "FIRST_RECEIVED"}
    BY DEF EventName
  <1> QED BY <1>1, PostedOK

(* What happens between two handlers: the link, the phone, the             *)
(* application.                                                            *)
LEMMA WorldStepOK ==
    ASSUME InOrder,
           \/ tuya_ble_connected_handler \/ LinkLost \/ tuya_ble_disconnected_handler
           \/ PhoneBegins \/ PhoneEnds \/ ApplicationReports
    PROVE  InOrder'
  <1> DEFINE d == Still
  <1>1. OK(d, 1, {}) /\ phone \in Message \union {NULL}
    BY DEF InOrder
  <1>2. CASE tuya_ble_connected_handler
    <2> DEFINE n == [d EXCEPT !.link = TRUE]  m == Posted(n, "CONNECTED", NULL)
    <2>1. Becomes(m) /\ phone' = NULL
      BY <1>2 DEF tuya_ble_connected_handler, Input
    <2> HIDE DEF d
    <2>2. OK(n, 1, {})
      BY <1>1, LinkOK
    <2> HIDE DEF n
    <2>3. OK(m, 1, {})
      BY <2>2, PostedNothing
    <2> HIDE DEF m
    <2> QED BY <2>1, <2>3, WorldOK
  <1>3. CASE LinkLost
    <2> DEFINE m == tuya_ble_gap_disconnect(d)
    <2>1. Becomes(m) /\ phone' = phone
      BY <1>3 DEF LinkLost
    <2> HIDE DEF d
    <2>2. OK(m, 1, {})
      BY <1>1, DisconnectOK
    <2> HIDE DEF m
    <2> QED BY <1>1, <2>1, <2>2, WorldOK
  <1>4. CASE tuya_ble_disconnected_handler
    <2> DEFINE n == [d EXCEPT !.term_pending = FALSE]  m == Posted(n, "DISCONNECTED", NULL)
    <2>1. Becomes(m) /\ phone' = NULL
      BY <1>4 DEF tuya_ble_disconnected_handler
    <2> HIDE DEF d
    <2>2. OK(n, 1, {})
      BY <1>1, LinkOK
    <2> HIDE DEF n
    <2>3. OK(m, 1, {})
      BY <2>2, PostedNothing
    <2> HIDE DEF m
    <2> QED BY <2>1, <2>3, WorldOK
  <1>5. CASE PhoneBegins
    <2>1. PICK msg \in Message : Becomes(Posted(d, "FIRST_RECEIVED", msg)) /\ phone' = msg
      BY <1>5 DEF PhoneBegins, Input
    <2> HIDE DEF d
    <2> DEFINE m == Posted(d, "FIRST_RECEIVED", msg)
    <2>2. OK(m, 1, {})
      <3>1. "FIRST_RECEIVED" \in EventName /\ msg \in Message \union {NULL}
        BY DEF EventName
      <3> QED BY <1>1, <3>1, PostedOK
    <2>3. Becomes(m)
      BY <2>1
    <2> HIDE DEF m
    <2> QED BY <2>1, <2>2, <2>3, WorldOK
  <1>6. CASE PhoneEnds
    <2> DEFINE m == Posted(d, "LAST_RECEIVED", phone)
    <2>1. Becomes(m) /\ phone' = NULL
      BY <1>6 DEF PhoneEnds
    <2> HIDE DEF d
    <2>2. OK(m, 1, {})
      BY <1>1, PostedNothing
    <2> HIDE DEF m
    <2> QED BY <2>1, <2>2, WorldOK
  <1>7. CASE ApplicationReports
    <2>1. PICK r \in Report :
             /\ Becomes(IF IsDp(r.ev) THEN dp_data_report(d, r.ev, r.data)
                        ELSE data_report(d, r.ev, DataLen(r.data)))
             /\ phone' = phone
      BY <1>7 DEF ApplicationReports, Input
    <2> HIDE DEF d
    <2> DEFINE x == dp_data_report(d, r.ev, r.data)
               y == data_report(d, r.ev, DataLen(r.data))
               m == IF IsDp(r.ev) THEN x ELSE y
    <2>2. r.ev \in DpReport \union DataReport /\ r.data \in Datum /\ DataLen(r.data) \in Nat
      BY MemoryAssumption, DatumIs
    <2>3. CASE IsDp(r.ev)
      <3>1. r.ev \in DpReport
        BY <2>3 DEF IsDp
      <3>2. OK(x, 1, {})
        BY <1>1, <2>2, <3>1, DpReportOK
      <3>3. Becomes(x)
        BY <2>1, <2>3
      <3> HIDE DEF x
      <3> QED BY <1>1, <2>1, <3>2, <3>3, WorldOK
    <2>4. CASE ~IsDp(r.ev)
      <3>1. r.ev \in DataReport
        BY <2>2, <2>4 DEF IsDp
      <3>2. OK(y, 1, {})
        BY <1>1, <2>2, <3>1, DataReportOK
      <3>3. Becomes(y)
        BY <2>1, <2>4
      <3> HIDE DEF y
      <3> QED BY <1>1, <2>1, <3>2, <3>3, WorldOK
    <2> QED BY <2>3, <2>4
  <1> QED BY <1>2, <1>3, <1>4, <1>5, <1>6, <1>7

(* At the start the heap is one free block and nothing is held.            *)
LEMMA InitInOrder == ASSUME Init PROVE InOrder
  <1> DEFINE d == Still
  <1>1. /\ d.heap = prvHeapInit /\ d.events = <<>> /\ d.queue = <<>> /\ d.recv = NoPacket
        /\ d.misuse = FALSE /\ phone = NULL
    BY DEF Init, Still, Device
  <1>2. SoundHeap(d.heap) /\ d.heap.used = {} /\ Sound(d.heap) /\ d.heap \in Heaps
    <2>1. SoundHeap(d.heap)
      BY <1>1, InitSound
    <2>2. d.heap.used = {}
      BY <1>1 DEF prvHeapInit
    <2> HIDE DEF d
    <2> QED BY <2>1, <2>2 DEF SoundHeap
  <1>3. NoData \in Datum /\ NoPacket \in Packets /\ NoPacket.buf = NULL
        /\ <<>> \in Seq(Events) /\ <<>> \in Seq(Nat)
    BY DatumIs DEF NoPacket, Packets, Pointer
  <1>4. d \in Devices
    <2>1. heap \in Heaps
      BY <1>2 DEF Still, Device
    <2> HIDE DEF NoData, NoPacket
    <2> QED BY <1>3, <2>1 DEF Init, Still, Device, Devices
  <1> HIDE DEF d
  <1>5. Addresses(d.heap) = {} /\ Carried(d.events, 1) = {} /\ ToSet(d.queue) = {}
        /\ Unshared(d.events, 1, d.queue) /\ 1 <= Len(d.events) + 1
    BY <1>1, <1>2 DEF Addresses, Carried, ToSet, Unshared
  <1>6. Divided(Addresses(d.heap), Carried(d.events, 1), ToSet(d.queue), d.recv.buf, {})
    BY <1>1, <1>3, <1>5 DEF Divided
  <1>7. OK(d, 1, {})
    BY <1>1, <1>2, <1>4, <1>5, <1>6 DEF OK
  <1> QED BY <1>1, <1>7 DEF InOrder, d

(* Every step keeps the invariant.                                         *)
LEMMA StepInOrder == ASSUME InOrder, [Next]_vars PROVE InOrder'
  <1>1. CASE UNCHANGED vars
    BY <1>1 DEF InOrder, Still, Device, vars
  <1>2. CASE Next
    BY <1>2, WorldStepOK, ConnectChangeOK, GattSendStepOK, FirstReceivedOK, LastReceivedOK,
       BleCmdOK, DpReportedOK, DataEvtOK, ProdTestOK, NetConfigEvtOK DEF Next
  <1> QED BY <1>1, <1>2

(* Every allocated block always has exactly one owner, the heap is sound,  *)
(* and no block was released twice or written past its end.                *)
THEOREM MemoryInOrder == Spec => []InOrder
  BY InitInOrder, StepInOrder, PTL DEF Spec

-------------------------------------------------------------------------------
(***************************************************************************)
(* What the runs check.                                                    *)
(***************************************************************************)

(* No buffer occurs twice in a list of pointers.                           *)
Sole(L) == \A i, j \in DOMAIN L : L[i] = L[j] /\ L[i] # NULL => i = j

(* Two such lists without a common buffer are one.                         *)
LEMMA SoleConcat ==
    ASSUME NEW X, NEW P \in Seq(X), NEW Q \in Seq(X), Sole(P), Sole(Q),
           ToSet(P) \intersect ToSet(Q) \in SUBSET {NULL}
    PROVE  /\ P \o Q \in Seq(X) /\ Sole(P \o Q)
           /\ ToSet(P \o Q) = ToSet(P) \union ToSet(Q)
  <1> DEFINE R == P \o Q
  <1>1. /\ R \in Seq(X) /\ Len(R) = Len(P) + Len(Q)
        /\ \A i \in 1 .. Len(P) : R[i] = P[i]
        /\ \A i \in 1 .. Len(Q) : R[Len(P) + i] = Q[i]
        /\ Len(P) \in Nat /\ Len(Q) \in Nat
    BY ConcatProperties
  <1>2. DOMAIN P = 1 .. Len(P) /\ DOMAIN Q = 1 .. Len(Q) /\ DOMAIN R = 1 .. Len(R)
    BY <1>1
  <1> HIDE DEF R
  <1>3. \A i \in DOMAIN R : \/ i \in DOMAIN P /\ R[i] = P[i]
                            \/ i - Len(P) \in DOMAIN Q /\ R[i] = Q[i - Len(P)] /\ i \in Nat
    <2>1. ASSUME NEW i \in DOMAIN R, i > Len(P)
          PROVE  i - Len(P) \in DOMAIN Q /\ R[i] = Q[i - Len(P)] /\ i \in Nat
      <3>1. i - Len(P) \in 1 .. Len(Q) /\ Len(P) + (i - Len(P)) = i /\ i \in Nat
        BY <1>1, <1>2, <2>1
      <3> QED BY <1>1, <1>2, <3>1
    <2>2. ASSUME NEW i \in DOMAIN R, ~(i > Len(P)) PROVE i \in DOMAIN P /\ R[i] = P[i]
      BY <1>1, <1>2, <2>2
    <2> QED BY <2>1, <2>2
  <1>4. /\ \A i \in DOMAIN P : i \in DOMAIN R /\ R[i] = P[i]
        /\ \A i \in DOMAIN Q : Len(P) + i \in DOMAIN R /\ R[Len(P) + i] = Q[i]
    BY <1>1, <1>2
  <1>5. ToSet(R) = ToSet(P) \union ToSet(Q)
    BY <1>3, <1>4 DEF ToSet
  <1>6. Sole(R)
    <2>1. ASSUME NEW i \in DOMAIN R, NEW j \in DOMAIN R, R[i] = R[j], R[i] # NULL PROVE i = j
      <3>1. \A l \in DOMAIN P, n \in DOMAIN Q : P[l] = Q[n] => P[l] = NULL
        BY DEF ToSet
      <3>2. CASE i \in DOMAIN P /\ R[i] = P[i] /\ j \in DOMAIN P /\ R[j] = P[j]
        BY <2>1, <3>2 DEF Sole
      <3>3. CASE /\ i - Len(P) \in DOMAIN Q /\ R[i] = Q[i - Len(P)] /\ i \in Nat
                 /\ j - Len(P) \in DOMAIN Q /\ R[j] = Q[j - Len(P)] /\ j \in Nat
        <4>1. i - Len(P) = j - Len(P)
          BY <2>1, <3>3 DEF Sole
        <4> QED BY <1>1, <3>3, <4>1
      <3> QED BY <1>3, <2>1, <3>1, <3>2, <3>3
    <2> QED BY <2>1 DEF Sole
  <1> QED BY <1>1, <1>5, <1>6 DEF R

(* The invariant in the words of the property that the run checks.         *)
LEMMA OwnedIs == ASSUME InOrder PROVE BuffersOwned
  <1> DEFINE B == [i \in DOMAIN events |-> events[i].buf]
             q == gatt_send_queue  p == air_recv_packet.buf
             A == Addresses(heap)  E == Carried(events, 1)  Q == ToSet(q)
             L == (B \o q) \o <<p>>
  <1>1. /\ events \in Seq(Events) /\ q \in Seq(Nat) /\ air_recv_packet \in Packets
        /\ Unshared(events, 1, q) /\ Divided(A, E, Q, p, {})
    <2>1. OK(Still, 1, {})
      BY DEF InOrder
    <2>2. /\ Still.events \in Seq(Events) /\ Still.queue \in Seq(Nat) /\ Still.recv \in Packets
          /\ Unshared(Still.events, 1, Still.queue)
          /\ Divided(Addresses(Still.heap), Carried(Still.events, 1), ToSet(Still.queue),
                     Still.recv.buf, {})
      BY <2>1, DeviceIs DEF OK
    <2>3. Still.events = events /\ Still.queue = q /\ Still.recv = air_recv_packet
          /\ Still.heap = heap
      BY DEF Still, Device
    <2> HIDE DEF q
    <2> QED BY <2>2, <2>3
  <1>2. p \in Pointer /\ <<p>> \in Seq(Pointer) /\ ToSet(<<p>>) = {p} /\ Sole(<<p>>)
    <2>1. p \in Pointer
      BY <1>1 DEF Packets
    <2> HIDE DEF p
    <2> QED BY <2>1 DEF ToSet, Sole
  <1>3. q \in Seq(Pointer)
    <2>1. q \in [1 .. Len(q) -> Pointer] /\ Len(q) \in Nat
      <3>1. \A i \in 1 .. Len(q) : q[i] \in Pointer
        BY <1>1, ElementOfSeq DEF Pointer
      <3> QED BY <1>1, <3>1
    <2> QED BY <2>1
  <1>4. DOMAIN events = 1 .. Len(events) /\ Len(events) \in Nat
    BY <1>1
  <1>5. B \in Seq(Pointer) /\ DOMAIN B = 1 .. Len(events)
        /\ \A i \in 1 .. Len(events) : B[i] = events[i].buf
    <2>1. \A i \in 1 .. Len(events) : events[i].buf \in Pointer
      BY <1>1, ElementOfSeq DEF Events
    <2>2. B \in [1 .. Len(events) -> Pointer]
      BY <1>4, <2>1
    <2> QED BY <1>4, <2>2
  <1> HIDE DEF B, p, q
  <1>6. ToSet(B) \ {NULL} = E
    BY <1>5 DEF ToSet, Carried
  <1>7. Sole(B) /\ Sole(q)
    BY <1>1, <1>5 DEF Unshared, Sole
  <1>8. NULL \notin Q
    <2>1. \A i \in DOMAIN q : q[i] \in Nat
      BY <1>1
    <2> QED BY <2>1, HeapAssumption DEF ToSet
  <1>9. /\ B \o q \in Seq(Pointer) /\ Sole(B \o q)
        /\ ToSet(B \o q) = ToSet(B) \union Q
    <2>1. ToSet(B) \intersect ToSet(q) \in SUBSET {NULL}
      BY <1>1, <1>6 DEF Divided
    <2> QED BY <1>3, <1>5, <1>7, <2>1, SoleConcat
  <1>10. Sole(L) /\ ToSet(L) = ToSet(B) \union Q \union {p}
    <2> DEFINE M == B \o q  O == <<p>>
    <2>1. ToSet(M) \intersect ToSet(O) \in SUBSET {NULL}
      BY <1>1, <1>2, <1>6, <1>9 DEF Divided
    <2>2. M \in Seq(Pointer) /\ O \in Seq(Pointer) /\ Sole(M) /\ Sole(O)
      BY <1>2, <1>9
    <2> HIDE DEF M, O
    <2>3. Sole(M \o O) /\ ToSet(M \o O) = ToSet(M) \union ToSet(O)
      BY <2>1, <2>2, SoleConcat
    <2> QED BY <1>2, <1>9, <2>3 DEF M, O
  <1>11. A = ToSet(L) \ {NULL}
    <2>1. A = E \union Q \union ({p} \ {NULL})
      BY <1>1 DEF Divided
    <2> QED BY <1>6, <1>8, <1>10, <2>1
  <1>12. Owned = L
    BY DEF Owned, B, p, q
  <1>13. A = {b.at : b \in heap.used}
    BY DEF Addresses
  <1> HIDE DEF L, A
  <1> QED BY <1>10, <1>11, <1>12, <1>13 DEF BuffersOwned, Sole

(* The blocks tile the heap whatever is allocated and released: the free   *)
(* list is in the order of addresses, no two free blocks touch, no block   *)
(* overlaps another, and the counter of free bytes is the sum of the free  *)
(* blocks.                                                                 *)
THEOREM HeapStaysSound == Spec => []HeapSound
  <1>1. InOrder => HeapSound
    BY DEF InOrder, OK, Still, Device, HeapSound
  <1> QED BY <1>1, MemoryInOrder, PTL

(* No handler, on any of its paths, failing allocations included, releases *)
(* a block that is not allocated (a double free) or writes past the end of *)
(* its block.                                                              *)
THEOREM NoMisuseEver == Spec => []NoMisuse
  <1>1. InOrder => NoMisuse
    BY DEF InOrder, OK, Still, Device, NoMisuse
  <1> QED BY <1>1, MemoryInOrder, PTL

(* Every allocated block is owned by exactly one event, packet in the send *)
(* queue or message being received: nothing leaks, and nothing has two     *)
(* owners.                                                                 *)
THEOREM EveryBufferOwned == Spec => []BuffersOwned
  BY OwnedIs, MemoryInOrder, PTL

===================================================================================
