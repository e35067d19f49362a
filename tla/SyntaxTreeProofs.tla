-------------------------- MODULE SyntaxTreeProofs --------------------------
(***************************************************************************)
(* That the syntax nodes are the flat outputs of SourceEvaluation, form    *)
(* trees and never change once made, for every library and text.           *)
(*                                                                         *)
(* clone and flat are recursive functions over the nodes of a heap.  They  *)
(* are defined because a node is older than its children (Descends), and   *)
(* what is shown of them is shown from the leaves upwards (FromLeaves).    *)
(* A clone has the type, range and children of its original, in the same   *)
(* order (ClonesAre); two nodes with these in common are flat alike        *)
(* (FlatAlike), so a clone is as flat as its original was (ClonesFlat).    *)
(* Since a heap only grows (Grows), what stood for an output still does    *)
(* (StandsWider), and over(...) stands for what Under says (UnderStands).  *)
(* The invariant TreeInv says so of every variable that holds an output.   *)
(***************************************************************************)
EXTENDS SyntaxTree, SourceEvaluationProofs, WellFoundedInduction

-----------------------------------------------------------------------------
(* Induction.                                                              *)

(* A set of numbers has a least one, unless it is empty.                   *)
LEMMA Least ==
  ASSUME NEW T, T \subseteq Nat, T # {}
  PROVE  \E n \in T : \A m \in T : n <= m
<1>1. PICK R : R = {ss \in Nat \X Nat : ss[1] < ss[2]}
  OBVIOUS
<1>2. R = OpToRel(<, Nat)
  BY <1>1 DEF OpToRel
<1>3. IsWellFoundedOn(R, Nat)
  BY <1>2, NatLessThanWellFounded
<1>4. PICK x \in T : \A y \in T : ~ (<<y, x>> \in R)
  BY <1>3, WFMin
<1>5. \A y \in T : y < x => <<y, x>> \in R
  BY <1>1
<1>6. \A y \in T : ~(y < x)
  BY <1>4, <1>5, Zenon
<1> QED
  BY <1>6

(* What has 0, and n + 1 whenever it has n, has every number.              *)
LEMMA Counting ==
  ASSUME NEW S, 0 \in S, \A n \in Nat : n \in S => n + 1 \in S
  PROVE  Nat \subseteq S
<1> DEFINE T == {n \in Nat : n \notin S}
<1> SUFFICES ASSUME T # {} PROVE FALSE
  OBVIOUS
<1>1. PICK n \in T : \A m \in T : n <= m
  BY Least
<1>2. n # 0 /\ n \in Nat
  OBVIOUS
<1>3. n - 1 \in Nat /\ n - 1 \notin T /\ n - 1 + 1 = n
  BY <1>1, <1>2
<1> QED
  BY <1>2, <1>3

(* A heap in which every node is younger than its parent.                  *)
Descends(h) == /\ h \in Heap
               /\ \A n \in DOMAIN h : \A k \in DOMAIN h[n].children :
                    h[n].children[k] \in n + 1 .. Len(h)

(* The fields of a node.                                                   *)
LEMMA HeapType ==
  ASSUME NEW h \in Heap
  PROVE  /\ Len(h) \in Nat /\ DOMAIN h = 1 .. Len(h)
         /\ \A n \in DOMAIN h :
              /\ h[n] \in SyntaxNode
              /\ h[n].type \in AnyName /\ h[n].range \in Span
              /\ h[n].parent \in Nat /\ h[n].children \in Seq(Nat)
              /\ DOMAIN h[n].children = 1 .. Len(h[n].children)
              /\ Len(h[n].children) \in Nat
<1>1. Len(h) \in Nat /\ DOMAIN h = 1 .. Len(h)
  BY DEF Heap
<1>2. ASSUME NEW n \in DOMAIN h
      PROVE  h[n] \in SyntaxNode
  BY <1>1, ElementOfSeq DEF Heap
<1>3. ASSUME NEW n \in DOMAIN h
      PROVE  /\ h[n].type \in AnyName /\ h[n].range \in Span
             /\ h[n].parent \in Nat /\ h[n].children \in Seq(Nat)
  BY <1>2 DEF SyntaxNode
<1>4. ASSUME NEW n \in DOMAIN h
      PROVE  /\ DOMAIN h[n].children = 1 .. Len(h[n].children)
             /\ Len(h[n].children) \in Nat
  BY <1>3, LenProperties
<1> QED
  BY <1>1, <1>2, <1>3, <1>4

(* What a node has whenever its children have it, all nodes have.          *)
LEMMA FromLeaves ==
  ASSUME NEW h, Descends(h), NEW S,
         \A n \in DOMAIN h :
           (\A k \in DOMAIN h[n].children : h[n].children[k] \in S) => n \in S
  PROVE  DOMAIN h \subseteq S
<1> DEFINE T == {d \in Nat : \A n \in DOMAIN h : Len(h) - n < d => n \in S}
<1>1. Len(h) \in Nat /\ DOMAIN h = 1 .. Len(h)
  BY HeapType DEF Descends
<1>2. 0 \in T
  BY <1>1
<1>3. ASSUME NEW d \in Nat, d \in T PROVE d + 1 \in T
  <2> SUFFICES ASSUME NEW n \in DOMAIN h, Len(h) - n < d + 1 PROVE n \in S
    OBVIOUS
  <2>1. ASSUME NEW k \in DOMAIN h[n].children PROVE h[n].children[k] \in S
    <3>1. h[n].children[k] \in n + 1 .. Len(h)
      BY DEF Descends
    <3>2. PICK c : c = h[n].children[k]
      OBVIOUS
    <3>3. c \in DOMAIN h /\ Len(h) - c < d
      BY <1>1, <3>1, <3>2
    <3> QED
      BY <1>3, <3>2, <3>3
  <2> QED
    BY <2>1
<1> HIDE DEF T
<1>4. Len(h) + 1 \in T
  BY <1>1, <1>2, <1>3, Counting
<1> QED
  BY <1>1, <1>4 DEF T

-----------------------------------------------------------------------------
(* The functions that the definitions choose exist, and so have the values *)
(* that are written down for them.                                         *)

IsAdopting(F, h, p, clones, n) ==
  F = [k \in 0 .. n |->
         IF k = 0 THEN h
         ELSE append(clones[k][F[k - 1]], p, Len(F[k - 1]) + 1)]

(* What the loop over the clones has after each of them.                   *)
LEMMA AdoptingExists ==
  ASSUME NEW h, NEW p, NEW clones, NEW n \in Nat
  PROVE  \E F : IsAdopting(F, h, p, clones, n)
<1> DEFINE After(x, k) == append(clones[k][x], p, Len(x) + 1)
           S == {m \in Nat : \E F : F = [k \in 0 .. m |->
                               IF k = 0 THEN h ELSE After(F[k - 1], k)]}
<1>1. 0 \in S
  <2> DEFINE F == [k \in 0 .. 0 |-> h]
  <2>1. F = [k \in 0 .. 0 |-> IF k = 0 THEN h ELSE After(F[k - 1], k)]
    OBVIOUS
  <2> HIDE DEF F
  <2> QED
    BY <2>1
<1>2. ASSUME NEW m \in Nat, m \in S PROVE m + 1 \in S
  <2> HIDE DEF After
  <2>1. PICK F : F = [k \in 0 .. m |-> IF k = 0 THEN h ELSE After(F[k - 1], k)]
    BY <1>2
  <2> DEFINE G == [k \in 0 .. m + 1 |-> IF k = 0 THEN h ELSE After(F[k - 1], k)]
  <2>2. \A k \in 0 .. m : G[k] = F[k]
    <3>1. \A k \in 0 .. m : F[k] = IF k = 0 THEN h ELSE After(F[k - 1], k)
      BY <2>1
    <3> QED
      BY <3>1
  <2>3. G = [k \in 0 .. m + 1 |-> IF k = 0 THEN h ELSE After(G[k - 1], k)]
    <3>1. \A k \in 0 .. m + 1 : k # 0 => F[k - 1] = G[k - 1]
      <4>1. \A k \in 0 .. m + 1 : k # 0 => k - 1 \in 0 .. m
        OBVIOUS
      <4> QED
        BY <2>2, <4>1, Zenon
    <3>2. \A k \in 0 .. m + 1 :
            (IF k = 0 THEN h ELSE After(F[k - 1], k))
              = (IF k = 0 THEN h ELSE After(G[k - 1], k))
      BY <3>1
    <3> QED
      BY <3>2
  <2> HIDE DEF G
  <2> QED
    BY <2>3
<1> HIDE DEF S
<1>3. n \in S
  BY <1>1, <1>2, Counting
<1> QED
  BY <1>3 DEF S, IsAdopting

LEMMA AdoptedIs ==
  ASSUME NEW h, NEW p, NEW clones, Len(clones) \in Nat
  PROVE  \E F : /\ adopted(h, p, clones) = F[Len(clones)]
                /\ F[0] = h
                /\ \A k \in 1 .. Len(clones) :
                     F[k] = append(clones[k][F[k - 1]], p, Len(F[k - 1]) + 1)
<1> DEFINE F == CHOOSE G : G = [k \in 0 .. Len(clones) |->
                  IF k = 0 THEN h
                  ELSE append(clones[k][G[k - 1]], p, Len(G[k - 1]) + 1)]
<1>1. \E G : G = [k \in 0 .. Len(clones) |->
                  IF k = 0 THEN h
                  ELSE append(clones[k][G[k - 1]], p, Len(G[k - 1]) + 1)]
  <2>1. PICK G : IsAdopting(G, h, p, clones, Len(clones))
    BY AdoptingExists
  <2>2. G = [k \in 0 .. Len(clones) |->
               IF k = 0 THEN h
               ELSE append(clones[k][G[k - 1]], p, Len(G[k - 1]) + 1)]
    BY <2>1 DEF IsAdopting
  <2> QED
    BY <2>2, Zenon
<1>2. F = [k \in 0 .. Len(clones) |->
                  IF k = 0 THEN h
                  ELSE append(clones[k][F[k - 1]], p, Len(F[k - 1]) + 1)]
  BY <1>1
<1>3. adopted(h, p, clones) = F[Len(clones)]
  BY DEF adopted
<1> HIDE DEF F
<1>4. F[0] = h
  BY <1>2
<1>5. ASSUME NEW k \in 1 .. Len(clones)
      PROVE  F[k] = append(clones[k][F[k - 1]], p, Len(F[k - 1]) + 1)
  <2>1. k \in 0 .. Len(clones) /\ k # 0
    OBVIOUS
  <2>2. F[k] = IF k = 0 THEN h
               ELSE append(clones[k][F[k - 1]], p, Len(F[k - 1]) + 1)
    BY <1>2, <2>1, Zenon
  <2> QED
    BY <2>1, <2>2, Zenon
<1> QED
  BY <1>3, <1>4, <1>5

(* What C has for the children of n.                                       *)
OfChildren(C, h, n) == [k \in DOMAIN h[n].children |-> C[h[n].children[k]]]

CopyOf(h, n, clones) ==
  [g \in Heap |-> adopted(made(g, h[n].type, h[n].range), Len(g) + 1, clones)]

(* The value at a node is defined from those at younger ones.              *)
LEMMA CopyExists ==
  ASSUME NEW h, Descends(h)
  PROVE  \E C : C = [n \in DOMAIN h |-> CopyOf(h, n, OfChildren(C, h, n))]
<1> DEFINE From(d) == Len(h) + 1 - d .. Len(h)
           S == {d \in Nat : d <= Len(h) =>
                   \E C : C = [n \in From(d) |-> CopyOf(h, n, OfChildren(C, h, n))]}
<1>0. Len(h) \in Nat /\ DOMAIN h = 1 .. Len(h)
  BY HeapType DEF Descends
<1>1. 0 \in S
  <2> DEFINE C == [n \in From(0) |-> h]
  <2>1. From(0) = {}
    BY <1>0
  <2>2. C = [n \in From(0) |-> CopyOf(h, n, OfChildren(C, h, n))]
    BY <2>1
  <2> HIDE DEF C, From
  <2> QED
    BY <2>2
<1>2. ASSUME NEW d \in Nat, d \in S PROVE d + 1 \in S
  <2> SUFFICES ASSUME d + 1 <= Len(h)
               PROVE  \E D : D = [n \in From(d + 1) |->
                                    CopyOf(h, n, OfChildren(D, h, n))]
    OBVIOUS
  <2>1. PICK C : C = [n \in From(d) |-> CopyOf(h, n, OfChildren(C, h, n))]
    BY <1>0, <1>2
  <2> DEFINE D == [n \in From(d + 1) |-> CopyOf(h, n, OfChildren(C, h, n))]
  <2>2. \A n \in From(d) : n \in From(d + 1)
    BY <1>0
  <2>3. \A n \in From(d + 1) : \A k \in DOMAIN h[n].children :
           h[n].children[k] \in From(d)
    <3> SUFFICES ASSUME NEW n \in From(d + 1), NEW k \in DOMAIN h[n].children
                 PROVE  h[n].children[k] \in From(d)
      OBVIOUS
    <3>1. n \in DOMAIN h /\ n \in Nat
      BY <1>0
    <3>2. h[n].children[k] \in n + 1 .. Len(h)
      BY <3>1 DEF Descends
    <3> QED
      BY <1>0, <3>1, <3>2
  <2> HIDE DEF From
  <2>4. \A n \in From(d) : D[n] = C[n]
    <3>1. \A n \in From(d) : C[n] = CopyOf(h, n, OfChildren(C, h, n))
      BY <2>1
    <3> QED
      BY <2>2, <3>1
  <2>5. \A n \in From(d + 1) : OfChildren(D, h, n) = OfChildren(C, h, n)
    <3> HIDE DEF D
    <3> QED
      BY <2>3, <2>4 DEF OfChildren
  <2>6. D = [n \in From(d + 1) |-> CopyOf(h, n, OfChildren(D, h, n))]
    <3>1. \A n \in From(d + 1) :
            CopyOf(h, n, OfChildren(C, h, n)) = CopyOf(h, n, OfChildren(D, h, n))
      BY <2>5
    <3> QED
      BY <3>1
  <2> HIDE DEF D
  <2> QED
    BY <2>6
<1> HIDE DEF S
<1>3. Len(h) \in S
  BY <1>0, <1>1, <1>2, Counting
<1>4. From(Len(h)) = DOMAIN h
  BY <1>0
<1> HIDE DEF From
<1>5. PICK C : C = [n \in From(Len(h)) |-> CopyOf(h, n, OfChildren(C, h, n))]
  BY <1>0, <1>3 DEF S
<1> QED
  BY <1>4, <1>5

LEMMA CloneIs ==
  ASSUME NEW h, Descends(h)
  PROVE  clone(h) = [n \in DOMAIN h |-> CopyOf(h, n, OfChildren(clone(h), h, n))]
<1> DEFINE C == CHOOSE copy : copy = [n \in DOMAIN h |->
        [g \in Heap |->
           adopted(made(g, h[n].type, h[n].range), Len(g) + 1,
                   [k \in DOMAIN h[n].children |-> copy[h[n].children[k]]])]]
<1>1. \E copy : copy = [n \in DOMAIN h |->
        [g \in Heap |->
           adopted(made(g, h[n].type, h[n].range), Len(g) + 1,
                   [k \in DOMAIN h[n].children |-> copy[h[n].children[k]]])]]
  <2>1. PICK D : D = [n \in DOMAIN h |-> CopyOf(h, n, OfChildren(D, h, n))]
    BY CopyExists
  <2> QED
    BY <2>1, Zenon DEF CopyOf, OfChildren
<1>2. C = [n \in DOMAIN h |->
        [g \in Heap |->
           adopted(made(g, h[n].type, h[n].range), Len(g) + 1,
                   [k \in DOMAIN h[n].children |-> C[h[n].children[k]]])]]
  BY <1>1, Zenon
<1>3. clone(h) = C
  BY Zenon DEF clone
<1> HIDE DEF C
<1>4. C = [n \in DOMAIN h |-> CopyOf(h, n, OfChildren(C, h, n))]
  BY <1>2, Zenon DEF CopyOf, OfChildren
<1> QED
  BY <1>3, <1>4

(* A node before what is flat below it.                                    *)
Heading(h, n, below) ==
  <<[type |-> h[n].type, range |-> h[n].range, depth |-> 0]>>
    \o Indented(Seqs!FlattenSeq(below))

(* The same of what is flat below a node.                                  *)
LEMMA FlatNodesExist ==
  ASSUME NEW h, Descends(h)
  PROVE  \E C : C = [n \in DOMAIN h |-> Heading(h, n, OfChildren(C, h, n))]
<1> DEFINE From(d) == Len(h) + 1 - d .. Len(h)
           S == {d \in Nat : d <= Len(h) =>
                   \E C : C = [n \in From(d) |-> Heading(h, n, OfChildren(C, h, n))]}
<1>0. Len(h) \in Nat /\ DOMAIN h = 1 .. Len(h)
  BY HeapType DEF Descends
<1>1. 0 \in S
  <2> DEFINE C == [n \in From(0) |-> h]
  <2>1. From(0) = {}
    BY <1>0
  <2>2. C = [n \in From(0) |-> Heading(h, n, OfChildren(C, h, n))]
    BY <2>1
  <2> HIDE DEF C, From
  <2> QED
    BY <2>2
<1>2. ASSUME NEW d \in Nat, d \in S PROVE d + 1 \in S
  <2> SUFFICES ASSUME d + 1 <= Len(h)
               PROVE  \E D : D = [n \in From(d + 1) |->
                                    Heading(h, n, OfChildren(D, h, n))]
    OBVIOUS
  <2>1. PICK C : C = [n \in From(d) |-> Heading(h, n, OfChildren(C, h, n))]
    BY <1>0, <1>2
  <2> DEFINE D == [n \in From(d + 1) |-> Heading(h, n, OfChildren(C, h, n))]
  <2>2. \A n \in From(d) : n \in From(d + 1)
    BY <1>0
  <2>3. \A n \in From(d + 1) : \A k \in DOMAIN h[n].children :
           h[n].children[k] \in From(d)
    <3> SUFFICES ASSUME NEW n \in From(d + 1), NEW k \in DOMAIN h[n].children
                 PROVE  h[n].children[k] \in From(d)
      OBVIOUS
    <3>1. n \in DOMAIN h /\ n \in Nat
      BY <1>0
    <3>2. h[n].children[k] \in n + 1 .. Len(h)
      BY <3>1 DEF Descends
    <3> QED
      BY <1>0, <3>1, <3>2
  <2> HIDE DEF From
  <2>4. \A n \in From(d) : D[n] = C[n]
    <3>1. \A n \in From(d) : C[n] = Heading(h, n, OfChildren(C, h, n))
      BY <2>1
    <3> QED
      BY <2>2, <3>1
  <2>5. \A n \in From(d + 1) : OfChildren(D, h, n) = OfChildren(C, h, n)
    <3> HIDE DEF D
    <3> QED
      BY <2>3, <2>4 DEF OfChildren
  <2>6. D = [n \in From(d + 1) |-> Heading(h, n, OfChildren(D, h, n))]
    <3>1. \A n \in From(d + 1) :
            Heading(h, n, OfChildren(C, h, n)) = Heading(h, n, OfChildren(D, h, n))
      BY <2>5
    <3> QED
      BY <3>1
  <2> HIDE DEF D
  <2> QED
    BY <2>6
<1> HIDE DEF S
<1>3. Len(h) \in S
  BY <1>0, <1>1, <1>2, Counting
<1>4. From(Len(h)) = DOMAIN h
  BY <1>0
<1> HIDE DEF From
<1>5. PICK C : C = [n \in From(Len(h)) |-> Heading(h, n, OfChildren(C, h, n))]
  BY <1>0, <1>3 DEF S
<1> QED
  BY <1>4, <1>5

LEMMA FlatIs ==
  ASSUME NEW h, Descends(h)
  PROVE  flat(h) = [n \in DOMAIN h |-> Heading(h, n, OfChildren(flat(h), h, n))]
<1> DEFINE C == CHOOSE below : below = [n \in DOMAIN h |->
        <<[type |-> h[n].type, range |-> h[n].range, depth |-> 0]>>
          \o Indented(Seqs!FlattenSeq([k \in DOMAIN h[n].children |->
                                         below[h[n].children[k]]]))]
<1>1. \E below : below = [n \in DOMAIN h |->
        <<[type |-> h[n].type, range |-> h[n].range, depth |-> 0]>>
          \o Indented(Seqs!FlattenSeq([k \in DOMAIN h[n].children |->
                                         below[h[n].children[k]]]))]
  <2>1. PICK D : D = [n \in DOMAIN h |-> Heading(h, n, OfChildren(D, h, n))]
    BY FlatNodesExist
  <2> QED
    BY <2>1, Zenon DEF Heading, OfChildren
<1>2. C = [n \in DOMAIN h |->
        <<[type |-> h[n].type, range |-> h[n].range, depth |-> 0]>>
          \o Indented(Seqs!FlattenSeq([k \in DOMAIN h[n].children |->
                                         C[h[n].children[k]]]))]
  BY <1>1, Zenon
<1>3. flat(h) = C
  BY Zenon DEF flat
<1> HIDE DEF C
<1>4. C = [n \in DOMAIN h |-> Heading(h, n, OfChildren(C, h, n))]
  BY <1>2, Zenon DEF Heading, OfChildren
<1> QED
  BY <1>3, <1>4

-----------------------------------------------------------------------------
(* Sequences of sequences.                                                 *)

(* F has what the first 1, 2, 3 ... of n sequences are together.           *)
IsFlat(F, s, n) ==
  F = [i \in 1 .. n |-> IF i = 1 THEN s[i] ELSE F[i-1] \o s[i]]

(* The function that FlattenSeq chooses exists: each of its values is      *)
(* defined from the one before it.                                         *)
LEMMA FlatExists ==
  ASSUME NEW s, NEW n \in Nat
  PROVE  \E F : IsFlat(F, s, n)
<1> DEFINE S == {m \in Nat : \E F : IsFlat(F, s, m)}
<1>1. 0 \in S
  <2> DEFINE F == [i \in 1 .. 0 |-> s[i]]
  <2>1. F = [i \in 1 .. 0 |-> IF i = 1 THEN s[i] ELSE F[i-1] \o s[i]]
    OBVIOUS
  <2>2. IsFlat(F, s, 0)
    BY <2>1 DEF IsFlat
  <2> QED
    BY <2>2
<1>2. ASSUME NEW m \in Nat, m \in S PROVE m + 1 \in S
  <2>1. PICK F : IsFlat(F, s, m)
    BY <1>2
  <2>2. F = [i \in 1 .. m |-> IF i = 1 THEN s[i] ELSE F[i-1] \o s[i]]
    BY <2>1 DEF IsFlat
  <2> DEFINE G == [i \in 1 .. m + 1 |-> IF i = 1 THEN s[i] ELSE F[i-1] \o s[i]]
  <2>3. \A i \in 1 .. m : G[i] = F[i]
    <3>1. \A i \in 1 .. m : F[i] = IF i = 1 THEN s[i] ELSE F[i-1] \o s[i]
      BY <2>2
    <3> QED
      BY <3>1
  <2>4. G = [i \in 1 .. m + 1 |-> IF i = 1 THEN s[i] ELSE G[i-1] \o s[i]]
    <3>1. \A i \in 1 .. m + 1 : i # 1 => F[i-1] = G[i-1]
      <4>1. \A i \in 1 .. m + 1 : i # 1 => i - 1 \in 1 .. m
        OBVIOUS
      <4> QED
        BY <2>3, <4>1, Zenon
    <3>2. \A i \in 1 .. m + 1 : G[i] = IF i = 1 THEN s[i] ELSE F[i-1] \o s[i]
      OBVIOUS
    <3>3. \A i \in 1 .. m + 1 :
            (IF i = 1 THEN s[i] ELSE F[i-1] \o s[i])
              = (IF i = 1 THEN s[i] ELSE G[i-1] \o s[i])
      BY <3>1
    <3> QED
      BY <3>3
  <2> HIDE DEF G
  <2>5. IsFlat(G, s, m + 1)
    BY <2>4 DEF IsFlat
  <2> QED
    BY <2>5
<1> HIDE DEF S
<1>3. n \in S
  BY <1>1, <1>2, Counting
<1> QED
  BY <1>3 DEF S

(* So FlattenSeq is its last value.                                        *)
LEMMA FlattenIs ==
  ASSUME NEW s, Len(s) \in Nat, Len(s) # 0
  PROVE  \E F : IsFlat(F, s, Len(s)) /\ Seqs!FlattenSeq(s) = F[Len(s)]
<1> DEFINE F == CHOOSE G : G = [i \in 1 .. Len(s) |->
                                  IF i = 1 THEN s[i] ELSE G[i-1] \o s[i]]
<1>1. \E G : G = [i \in 1 .. Len(s) |-> IF i = 1 THEN s[i] ELSE G[i-1] \o s[i]]
  BY FlatExists DEF IsFlat
<1>2. F = [i \in 1 .. Len(s) |-> IF i = 1 THEN s[i] ELSE F[i-1] \o s[i]]
  BY <1>1
<1>3. Seqs!FlattenSeq(s) = F[Len(s)]
  BY DEF Seqs!FlattenSeq
<1> HIDE DEF F
<1> QED
  BY <1>2, <1>3 DEF IsFlat

(* Sequences over S are together one over S.                               *)
LEMMA FlatType ==
  ASSUME NEW S, NEW s \in Seq(Seq(S)), NEW F, IsFlat(F, s, Len(s))
  PROVE  \A i \in 1 .. Len(s) : F[i] \in Seq(S)
<1> DEFINE T == {m \in Nat : m \in 1 .. Len(s) => F[m] \in Seq(S)}
<1>0. \A i \in 1 .. Len(s) : F[i] = IF i = 1 THEN s[i] ELSE F[i-1] \o s[i]
  BY DEF IsFlat
<1>1. 0 \in T
  OBVIOUS
<1>2. ASSUME NEW m \in Nat, m \in T PROVE m + 1 \in T
  <2> SUFFICES ASSUME m + 1 \in 1 .. Len(s) PROVE F[m + 1] \in Seq(S)
    OBVIOUS
  <2>1. s[m + 1] \in Seq(S)
    BY ElementOfSeq
  <2>2. CASE m = 0
    BY <1>0, <2>1, <2>2
  <2>3. CASE m # 0
    <3>1. m \in 1 .. Len(s) /\ m + 1 - 1 = m
      BY <2>3
    <3>2. F[m] \in Seq(S)
      BY <1>2, <3>1
    <3>3. F[m + 1] = F[m] \o s[m + 1]
      <4>1. PICK k : k = m + 1 /\ k \in 1 .. Len(s) /\ k # 1 /\ k - 1 = m
        BY <3>1
      <4>2. F[k] = F[k - 1] \o s[k]
        BY <1>0, <4>1, Zenon
      <4> QED
        BY <4>1, <4>2, Zenon
    <3> QED
      BY <2>1, <3>2, <3>3, ConcatProperties, Zenon
  <2> QED
    BY <2>2, <2>3
<1> HIDE DEF T
<1>3. Nat \subseteq T
  BY <1>1, <1>2, Counting
<1> QED
  BY <1>3 DEF T

(* FlattenSeq of sequences over S is a sequence over S.                    *)
LEMMA FlattenType ==
  ASSUME NEW S, NEW s \in Seq(Seq(S))
  PROVE  Seqs!FlattenSeq(s) \in Seq(S)
<1>1. CASE s = <<>>
  BY <1>1 DEF Seqs!FlattenSeq
<1>2. CASE s # <<>>
  <2>1. Len(s) \in Nat /\ Len(s) # 0
    BY <1>2
  <2>2. PICK F : IsFlat(F, s, Len(s)) /\ Seqs!FlattenSeq(s) = F[Len(s)]
    BY <2>1, FlattenIs
  <2> QED
    BY <2>1, <2>2, FlatType
<1> QED
  BY <1>1, <1>2

(* The provers take sequences apart when they meet \o; under a name of its *)
(* own they leave them whole.                                              *)
Followed(x, y) == x \o y

LEMMA Regroup ==
  \A S : \A x, y, z \in Seq(S) :
    Followed(Followed(x, y), z) = Followed(x, Followed(y, z))
BY ConcatAssociative DEF Followed

(* A single sequence is flat already.                                      *)
LEMMA FlattenOne ==
  ASSUME NEW s
  PROVE  Seqs!FlattenSeq(<<s>>) = s
<1>1. PICK w : w = <<s>>
  OBVIOUS
<1>2. Len(w) = 1 /\ w[1] = s /\ Len(w) \in Nat /\ Len(w) # 0
  BY <1>1
<1>3. PICK F : IsFlat(F, w, Len(w)) /\ Seqs!FlattenSeq(w) = F[Len(w)]
  BY <1>2, FlattenIs, Zenon
<1>4. F = [i \in 1 .. Len(w) |-> IF i = 1 THEN w[i] ELSE F[i - 1] \o w[i]]
  BY <1>3, Zenon DEF IsFlat
<1>5. F[1] = w[1]
  BY <1>2, <1>4
<1> QED
  BY <1>1, <1>2, <1>3, <1>5

(* Two sequences of sequences, one after the other.                        *)
LEMMA FlattenBoth ==
  ASSUME NEW S, NEW s \in Seq(Seq(S)), NEW t \in Seq(Seq(S))
  PROVE  Seqs!FlattenSeq(s \o t) = Seqs!FlattenSeq(s) \o Seqs!FlattenSeq(t)
<1>0. Len(s) \in Nat /\ Len(t) \in Nat
  OBVIOUS
<1>1. Seqs!FlattenSeq(s) \in Seq(S) /\ Seqs!FlattenSeq(t) \in Seq(S)
  BY FlattenType
<1>2. CASE Len(s) = 0
  <2>1. s = <<>> /\ s \o t = t /\ Seqs!FlattenSeq(s) = <<>>
    BY <1>2 DEF Seqs!FlattenSeq
  <2> QED
    BY <1>1, <2>1
<1>3. CASE Len(t) = 0
  <2>1. t = <<>> /\ s \o t = s /\ Seqs!FlattenSeq(t) = <<>>
    BY <1>3 DEF Seqs!FlattenSeq
  <2> QED
    BY <1>1, <2>1
<1>4. CASE Len(s) # 0 /\ Len(t) # 0
  <2> DEFINE u == s \o t
  <2>1. /\ u \in Seq(Seq(S)) /\ Len(u) = Len(s) + Len(t)
        /\ \A i \in 1 .. Len(s) : u[i] = s[i]
        /\ \A i \in 1 .. Len(t) : u[Len(s) + i] = t[i]
    BY ConcatProperties
  <2> HIDE DEF u
  <2>2. PICK F : IsFlat(F, s, Len(s)) /\ Seqs!FlattenSeq(s) = F[Len(s)]
    BY <1>0, <1>4, FlattenIs
  <2>3. PICK G : IsFlat(G, t, Len(t)) /\ Seqs!FlattenSeq(t) = G[Len(t)]
    BY <1>0, <1>4, FlattenIs
  <2>4. PICK H : IsFlat(H, u, Len(u)) /\ Seqs!FlattenSeq(u) = H[Len(u)]
    <3>1. Len(u) \in Nat /\ Len(u) # 0
      BY <1>0, <1>4, <2>1
    <3> QED
      BY <3>1, FlattenIs, Zenon
  <2>5. \A i \in 1 .. Len(s) : F[i] = IF i = 1 THEN s[i] ELSE F[i - 1] \o s[i]
    BY <2>2 DEF IsFlat
  <2>6. \A i \in 1 .. Len(t) : G[i] = IF i = 1 THEN t[i] ELSE G[i - 1] \o t[i]
    BY <2>3 DEF IsFlat
  <2>7. \A i \in 1 .. Len(u) : H[i] = IF i = 1 THEN u[i] ELSE H[i - 1] \o u[i]
    BY <2>4 DEF IsFlat
  <2>8. /\ \A i \in 1 .. Len(s) : F[i] \in Seq(S)
        /\ \A i \in 1 .. Len(t) : G[i] \in Seq(S) /\ t[i] \in Seq(S)
    BY <2>2, <2>3, FlatType, ElementOfSeq
  <2> DEFINE T1 == {m \in Nat : m \in 1 .. Len(s) => H[m] = F[m]}
             T2 == {m \in Nat : m \in 1 .. Len(t) =>
                      H[Len(s) + m] = Followed(F[Len(s)], G[m])}
  <2>9. 0 \in T1 /\ 0 \in T2
    OBVIOUS
  <2>10. ASSUME NEW m \in Nat, m \in T1 PROVE m + 1 \in T1
    <3> SUFFICES ASSUME m + 1 \in 1 .. Len(s) PROVE H[m + 1] = F[m + 1]
      OBVIOUS
    <3>1. PICK k : k = m + 1 /\ k \in 1 .. Len(s) /\ k \in 1 .. Len(u) /\ k - 1 = m
      BY <1>0, <2>1
    <3>2. u[k] = s[k]
      BY <2>1, <3>1
    <3>3. k # 1 => H[m] = F[m]
      BY <2>10, <3>1
    <3>4. H[k] = IF k = 1 THEN u[k] ELSE H[k - 1] \o u[k]
      BY <2>7, <3>1, Zenon
    <3>5. F[k] = IF k = 1 THEN s[k] ELSE F[k - 1] \o s[k]
      BY <2>5, <3>1, Zenon
    <3> QED
      BY <3>1, <3>2, <3>3, <3>4, <3>5, Zenon
  <2>11. ASSUME NEW i \in 1 .. Len(s) PROVE H[i] = F[i]
    <3> HIDE DEF T1
    <3>1. i \in Nat
      BY <1>0
    <3>2. i \in T1
      BY <2>9, <2>10, <3>1, Counting
    <3> QED
      BY <3>2 DEF T1
  <2>12. ASSUME NEW m \in Nat, m \in T2 PROVE m + 1 \in T2
    <3> SUFFICES ASSUME m + 1 \in 1 .. Len(t)
                 PROVE  H[Len(s) + (m + 1)] = Followed(F[Len(s)], G[m + 1])
      OBVIOUS
    <3>1. PICK k : k = m + 1 /\ k \in 1 .. Len(t) /\ k - 1 = m
      BY <1>0
    <3>2. PICK j : /\ j = Len(s) + (m + 1) /\ j \in 1 .. Len(u) /\ j # 1
                   /\ j - 1 = Len(s) + m /\ u[j] = t[k]
      <4>1. PICK a, b, c : a = Len(s) /\ b = Len(t) /\ c = Len(u)
        OBVIOUS
      <4>2. PICK j : j = a + (m + 1)
        OBVIOUS
      <4>3. /\ a \in Nat /\ a # 0 /\ b \in Nat /\ c = a + b
            /\ k = m + 1 /\ k \in 1 .. b
        BY <1>0, <1>4, <2>1, <3>1, <4>1, Zenon
      <4>4. j = a + k /\ j \in 1 .. c /\ j # 1 /\ j - 1 = a + m
        BY ONLY <4>2, <4>3, m \in Nat
      <4>5. u[a + k] = t[k]
        BY <2>1, <4>1, <4>3, Zenon
      <4> QED
        BY <4>1, <4>2, <4>4, <4>5, Zenon
    <3>3. H[j] = H[j - 1] \o t[k]
      <4>1. H[j] = IF j = 1 THEN u[j] ELSE H[j - 1] \o u[j]
        BY <2>7, <3>2, Zenon
      <4> QED
        BY <3>2, <4>1, Zenon
    <3>4. G[k] = IF k = 1 THEN t[k] ELSE G[k - 1] \o t[k]
      BY <2>6, <3>1, Zenon
    <3>5. CASE m = 0
      <4>1. Len(s) \in 1 .. Len(s) /\ Len(s) + m = Len(s) /\ k = 1
        BY <1>0, <1>4, <3>1, <3>5
      <4>2. H[j - 1] = F[Len(s)]
        BY <2>11, <3>2, <4>1, Zenon
      <4> QED
        BY <3>1, <3>2, <3>3, <3>4, <4>1, <4>2, Zenon DEF Followed
    <3>6. CASE m # 0
      <4>1. m \in 1 .. Len(t) /\ k # 1 /\ Len(s) \in 1 .. Len(s)
        BY <1>0, <1>4, <3>1, <3>6
      <4>2. H[j - 1] = Followed(F[Len(s)], G[m])
        BY <2>12, <3>2, <4>1
      <4>3. PICK f, g, x : f = F[Len(s)] /\ g = G[m] /\ x = t[k]
        OBVIOUS
      <4>4. f \in Seq(S) /\ g \in Seq(S) /\ x \in Seq(S)
        BY <2>8, <3>1, <4>1, <4>3
      <4> HIDE DEF T1, T2
      <4>5. Followed(Followed(f, g), x) = Followed(f, Followed(g, x))
        BY <4>4, Regroup
      <4>6. (f \o g) \o x = f \o (g \o x)
        BY <4>5, Zenon DEF Followed
      <4>7. G[k] = g \o x
        BY <3>1, <3>4, <4>1, <4>3, Zenon
      <4>8. H[j] = (f \o g) \o x
        BY <3>3, <4>2, <4>3, Zenon DEF Followed
      <4> QED
        BY <3>1, <3>2, <4>3, <4>6, <4>7, <4>8, Zenon DEF Followed
    <3> QED
      BY <3>5, <3>6
  <2> HIDE DEF T1, T2
  <2>13. Len(t) \in T2
    BY <1>0, <2>9, <2>12, Counting
  <2>14. H[Len(s) + Len(t)] = F[Len(s)] \o G[Len(t)]
    <3>1. H[Len(s) + Len(t)] = Followed(F[Len(s)], G[Len(t)])
      BY <1>0, <1>4, <2>13 DEF T2
    <3> QED
      BY <3>1, Zenon DEF Followed
  <2>15. Seqs!FlattenSeq(u) = Seqs!FlattenSeq(s) \o Seqs!FlattenSeq(t)
    BY <2>1, <2>2, <2>3, <2>4, <2>14, Zenon
  <2> QED
    BY <2>15 DEF u
<1> QED
  BY <1>0, <1>2, <1>3, <1>4

-----------------------------------------------------------------------------
(* The heap.                                                               *)

(* A node is younger than its parent, and the children of one are in the   *)
(* order of their age.                                                     *)
Tidy(h) ==
  /\ h \in Heap
  /\ \A n \in DOMAIN h : \A k \in DOMAIN h[n].children :
       /\ h[n].children[k] \in n + 1 .. Len(h)
       /\ h[h[n].children[k]].parent = n
       /\ \A j \in DOMAIN h[n].children :
            j < k => h[n].children[j] < h[n].children[k]

(* h holds all of g, and the next node of h has no parent.                 *)
Grows(g, h) == /\ Tidy(h)
               /\ Len(g) < Len(h)
               /\ \A i \in 1 .. Len(g) : h[i] = g[i]
               /\ h[Len(g) + 1].parent = NoParent

(* A tidy heap has the order the recursion rests on.                       *)
LEMMA TidyDescends ==
  ASSUME NEW h, Tidy(h)
  PROVE  Descends(h) /\ h \in Heap
BY DEF Tidy, Descends

(* append writes the parent of one node and the children of another.       *)
LEMMA AppendIs ==
  ASSUME NEW y \in Heap, NEW p \in DOMAIN y, NEW c \in DOMAIN y, p # c
  PROVE  /\ append(y, p, c) \in Heap
         /\ Len(append(y, p, c)) = Len(y)
         /\ \A i \in 1 .. Len(y) :
              /\ append(y, p, c)[i].type = y[i].type
              /\ append(y, p, c)[i].range = y[i].range
              /\ append(y, p, c)[i].children
                   = IF i = p THEN Append(y[p].children, c) ELSE y[i].children
              /\ append(y, p, c)[i].parent = IF i = c THEN p ELSE y[i].parent
<1> DEFINE z == append(y, p, c)
<1>1. /\ Len(y) \in Nat /\ DOMAIN y = 1 .. Len(y) /\ p \in Nat /\ c \in Nat
      /\ \A i \in 1 .. Len(y) :
           /\ y[i] \in SyntaxNode
           /\ y[i].type \in AnyName /\ y[i].range \in Span
           /\ y[i].parent \in Nat /\ y[i].children \in Seq(Nat)
  BY HeapType
<1>2. /\ DOMAIN z = 1 .. Len(y)
      /\ z = [i \in 1 .. Len(y) |->
               IF i = c THEN [y[i] EXCEPT !.parent = p]
               ELSE IF i = p THEN [y[i] EXCEPT !.children = Append(@, c)]
               ELSE y[i]]
  BY <1>1 DEF append
<1> HIDE DEF z
<1>3. ASSUME NEW i \in 1 .. Len(y)
      PROVE  /\ z[i] \in SyntaxNode
             /\ z[i].type = y[i].type /\ z[i].range = y[i].range
             /\ z[i].children
                  = IF i = p THEN Append(y[p].children, c) ELSE y[i].children
             /\ z[i].parent = IF i = c THEN p ELSE y[i].parent
  <2>0. y[i] = [type |-> y[i].type, range |-> y[i].range,
                parent |-> y[i].parent, children |-> y[i].children]
    BY <1>1 DEF SyntaxNode
  <2>1. CASE i = c
    <3>1. z[i] = [y[i] EXCEPT !.parent = p]
      BY <1>2, <2>1
    <3>2. z[i] = [type |-> y[i].type, range |-> y[i].range,
                  parent |-> p, children |-> y[i].children]
      BY <1>1, <3>1 DEF SyntaxNode
    <3> QED
      BY <1>1, <2>1, <3>2 DEF SyntaxNode
  <2>2. CASE i = p
    <3>1. z[i] = [y[i] EXCEPT !.children = Append(@, c)]
      BY <1>2, <2>2
    <3>2. Append(y[i].children, c) \in Seq(Nat)
      BY <1>1, AppendProperties
    <3>3. z[i] = [type |-> y[i].type, range |-> y[i].range,
                  parent |-> y[i].parent, children |-> Append(y[i].children, c)]
      BY <1>1, <3>1 DEF SyntaxNode
    <3> HIDE DEF append
    <3>4. PICK kids : kids = Append(y[i].children, c)
      OBVIOUS
    <3> QED
      BY <1>1, <2>2, <3>2, <3>3, <3>4 DEF SyntaxNode
  <2>3. CASE i # c /\ i # p
    BY <1>1, <1>2, <2>3
  <2> QED
    BY <2>1, <2>2, <2>3
<1>4. z \in Heap /\ Len(z) = Len(y)
  <2>1. z \in [1 .. Len(y) -> SyntaxNode]
    BY <1>2, <1>3
  <2>2. Len(y) \in Nat
    BY <1>1
  <2>3. z \in Seq(SyntaxNode)
    BY <2>1, <2>2
  <2>4. DOMAIN z = 1 .. Len(y)
    BY <1>2
  <2> QED
    BY <2>2, <2>3, <2>4 DEF Heap
<1> QED
  BY <1>3, <1>4 DEF z

(* A new node has neither parent nor children.                             *)
LEMMA MadeIs ==
  ASSUME NEW g, Tidy(g), NEW type \in AnyName, NEW range \in Span
  PROVE  /\ Grows(g, made(g, type, range))
         /\ Len(made(g, type, range)) = Len(g) + 1
         /\ made(g, type, range)[Len(g) + 1].type = type
         /\ made(g, type, range)[Len(g) + 1].range = range
         /\ made(g, type, range)[Len(g) + 1].children = <<>>
<1> DEFINE n == [type |-> type, range |-> range,
                 parent |-> NoParent, children |-> <<>>]
           h == Append(g, n)
<1>1. g \in Heap /\ g \in Seq(SyntaxNode) /\ Len(g) \in Nat
  BY HeapType DEF Tidy, Heap
<1>2. n \in SyntaxNode
  BY DEF SyntaxNode, NoParent
<1>3. made(g, type, range) = h
  BY DEF made
<1>4. n.type = type /\ n.range = range /\ n.parent = NoParent /\ n.children = <<>>
  OBVIOUS
<1> HIDE DEF n
<1>5. /\ h \in Seq(SyntaxNode) /\ Len(h) = Len(g) + 1 /\ h[Len(g) + 1] = n
      /\ \A i \in 1 .. Len(g) : h[i] = g[i]
  BY <1>1, <1>2, AppendProperties
<1>6. DOMAIN h = 1 .. Len(g) + 1 /\ DOMAIN g = 1 .. Len(g)
  BY <1>1, <1>5
<1> HIDE DEF h
<1>7. Tidy(h)
  <2> SUFFICES ASSUME NEW i \in DOMAIN h, NEW k \in DOMAIN h[i].children
               PROVE  /\ h[i].children[k] \in i + 1 .. Len(h)
                      /\ h[h[i].children[k]].parent = i
                      /\ \A j \in DOMAIN h[i].children :
                           j < k => h[i].children[j] < h[i].children[k]
    BY <1>5 DEF Tidy, Heap
  <2>1. i # Len(g) + 1
    BY <1>4, <1>5
  <2>2. i \in 1 .. Len(g)
    BY <1>1, <1>6, <2>1
  <2>3. h[i] = g[i]
    BY <1>5, <2>2
  <2>4. /\ g[i].children[k] \in i + 1 .. Len(g)
        /\ g[g[i].children[k]].parent = i
        /\ \A j \in DOMAIN g[i].children :
             j < k => g[i].children[j] < g[i].children[k]
    BY <1>6, <2>2, <2>3 DEF Tidy
  <2>5. PICK c : c = g[i].children[k]
    OBVIOUS
  <2>6. c \in i + 1 .. Len(h) /\ h[c].parent = i
    BY <1>1, <1>5, <2>2, <2>4, <2>5
  <2> QED
    BY <2>3, <2>4, <2>5, <2>6
<1> QED
  BY <1>1, <1>3, <1>4, <1>5, <1>7 DEF Grows

(* y has a new node after those of x; it is appended to one of these.      *)
LEMMA AppendTidy ==
  ASSUME NEW x, Tidy(x), NEW y, Grows(x, y), NEW p \in DOMAIN x
  PROVE  LET z == append(y, p, Len(x) + 1) IN
           /\ Tidy(z)
           /\ Len(z) = Len(y)
           /\ z[p].parent = x[p].parent
           /\ \A i \in 1 .. Len(y) :
                /\ z[i].type = y[i].type /\ z[i].range = y[i].range
                /\ z[i].children = IF i = p THEN Append(x[p].children, Len(x) + 1)
                                            ELSE y[i].children
           /\ \A i \in 1 .. Len(x) : i # p => z[i] = x[i]
<1> DEFINE c == Len(x) + 1
           z == append(y, p, c)
<1>1. /\ x \in Heap /\ Len(x) \in Nat /\ DOMAIN x = 1 .. Len(x)
      /\ y \in Heap /\ Len(y) \in Nat /\ DOMAIN y = 1 .. Len(y)
      /\ Tidy(y) /\ Len(x) < Len(y)
      /\ \A i \in 1 .. Len(x) : y[i] = x[i]
      /\ y[c].parent = NoParent
  BY HeapType DEF Grows, Tidy
<1>2. p \in 1 .. Len(x) /\ p \in 1 .. Len(y) /\ c \in 1 .. Len(y) /\ p # c
      /\ y[p] = x[p]
  BY <1>1
<1>3. /\ z \in Heap /\ Len(z) = Len(y)
      /\ \A i \in 1 .. Len(y) :
           /\ z[i].type = y[i].type
           /\ z[i].range = y[i].range
           /\ z[i].children = IF i = p THEN Append(x[p].children, c)
                                       ELSE y[i].children
           /\ z[i].parent = IF i = c THEN p ELSE y[i].parent
  <2>1. y \in Heap /\ p \in DOMAIN y /\ c \in DOMAIN y /\ p # c
    BY <1>1, <1>2
  <2> HIDE DEF c
  <2>2. /\ append(y, p, c) \in Heap
        /\ Len(append(y, p, c)) = Len(y)
        /\ \A i \in 1 .. Len(y) :
             /\ append(y, p, c)[i].type = y[i].type
             /\ append(y, p, c)[i].range = y[i].range
             /\ append(y, p, c)[i].children
                  = IF i = p THEN Append(y[p].children, c) ELSE y[i].children
             /\ append(y, p, c)[i].parent = IF i = c THEN p ELSE y[i].parent
    BY <2>1, AppendIs
  <2> QED
    BY <1>2, <2>2
<1>4. \A i \in 1 .. Len(x) : i # p => z[i] = x[i]
  BY <1>1, <1>2 DEF append
<1> HIDE DEF z
<1>5. DOMAIN z = 1 .. Len(y)
  BY <1>3, HeapType
<1>6. x[p].children \in Seq(Nat) /\ Len(x[p].children) \in Nat
      /\ DOMAIN x[p].children = 1 .. Len(x[p].children)
  BY <1>1, HeapType
<1>7. /\ Append(x[p].children, c) \in Seq(Nat)
      /\ DOMAIN Append(x[p].children, c) = 1 .. Len(x[p].children) + 1
      /\ Append(x[p].children, c)[Len(x[p].children) + 1] = c
      /\ \A k \in 1 .. Len(x[p].children) :
           Append(x[p].children, c)[k] = x[p].children[k]
  BY <1>1, <1>6, AppendProperties
<1>8. ASSUME NEW i \in DOMAIN z, NEW k \in DOMAIN z[i].children
      PROVE  /\ z[i].children[k] \in i + 1 .. Len(z)
             /\ z[z[i].children[k]].parent = i
             /\ \A j \in DOMAIN z[i].children :
                  j < k => z[i].children[j] < z[i].children[k]
  <2>0. i \in 1 .. Len(y)
    BY <1>5
  <2>1. CASE i # p
    <3>1. z[i].children = y[i].children
      BY <1>3, <2>0, <2>1
    <3>2. /\ y[i].children[k] \in i + 1 .. Len(y)
          /\ y[y[i].children[k]].parent = i
          /\ \A j \in DOMAIN y[i].children :
               j < k => y[i].children[j] < y[i].children[k]
      BY <1>1, <2>0, <3>1 DEF Tidy
    <3>3. PICK d : d = y[i].children[k]
      OBVIOUS
    <3>4. d # c
      BY <1>1, <2>0, <3>2, <3>3 DEF NoParent
    <3>5. d \in 1 .. Len(y)
      BY <1>1, <2>0, <3>2, <3>3
    <3>6. z[d].parent = i
      BY <1>3, <3>2, <3>3, <3>4, <3>5
    <3> QED
      BY <1>3, <3>1, <3>2, <3>3, <3>6
  <2>2. CASE i = p
    <3>1. z[p].children = Append(x[p].children, c)
      BY <1>2, <1>3
    <3>2. \A j \in 1 .. Len(x[p].children) :
            /\ x[p].children[j] \in p + 1 .. Len(x)
            /\ x[x[p].children[j]].parent = p
            /\ \A l \in 1 .. Len(x[p].children) :
                 l < j => x[p].children[l] < x[p].children[j]
      BY <1>6 DEF Tidy
    <3> DEFINE s == x[p].children
               t == Append(s, c)
    <3>3. /\ DOMAIN t = 1 .. Len(s) + 1 /\ t[Len(s) + 1] = c /\ Len(s) \in Nat
          /\ \A j \in 1 .. Len(s) : t[j] = s[j]
      BY <1>6, <1>7
    <3>4. \A j \in 1 .. Len(s) :
            /\ s[j] \in p + 1 .. Len(x)
            /\ x[s[j]].parent = p
            /\ \A l \in 1 .. Len(s) : l < j => s[l] < s[j]
      BY <3>2
    <3>5. z[i].children = t
      BY <2>2, <3>1
    <3> HIDE DEF s, t
    <3>6. CASE k = Len(s) + 1
      <4>1. z[i].children[k] = c
        BY <3>3, <3>5, <3>6
      <4>2. c \in i + 1 .. Len(z)
        BY <1>1, <1>2, <1>3, <2>2
      <4>3. z[c].parent = i
        BY <1>2, <1>3, <2>2
      <4>4. ASSUME NEW j \in DOMAIN z[i].children, j < k
            PROVE  z[i].children[j] < c
        <5>1. j \in 1 .. Len(s)
          BY <3>3, <3>5, <3>6, <4>4
        <5>2. t[j] = s[j] /\ s[j] \in p + 1 .. Len(x)
          BY <3>3, <3>4, <5>1
        <5> QED
          BY <1>1, <1>2, <3>5, <5>2
      <4> QED
        BY <4>1, <4>2, <4>3, <4>4
    <3>7. CASE k # Len(s) + 1
      <4>1. k \in 1 .. Len(s)
        BY <3>3, <3>5, <3>7
      <4>2. PICK d : d = s[k]
        OBVIOUS
      <4>3. z[i].children[k] = d
        BY <3>3, <3>5, <4>1, <4>2
      <4>4. d \in p + 1 .. Len(x) /\ x[d].parent = p
        BY <3>4, <4>1, <4>2
      <4>5. d # c /\ d # p /\ d \in 1 .. Len(x) /\ d \in 1 .. Len(y)
        BY <1>1, <1>2, <4>4
      <4>6. z[d].parent = i
        BY <1>1, <1>3, <2>2, <4>4, <4>5
      <4>7. d \in i + 1 .. Len(z)
        BY <1>1, <1>2, <1>3, <2>2, <4>4
      <4>8. ASSUME NEW j \in DOMAIN z[i].children, j < k
            PROVE  z[i].children[j] < d
        <5>1. j \in 1 .. Len(s)
          BY <3>3, <3>5, <4>1, <4>8
        <5> QED
          BY <3>3, <3>4, <3>5, <4>1, <4>2, <4>8, <5>1
      <4> QED
        BY <4>3, <4>6, <4>7, <4>8
    <3> QED
      BY <3>6, <3>7
  <2> QED
    BY <2>1, <2>2
<1>9. Tidy(z)
  BY <1>3, <1>8 DEF Tidy
<1>10. z[p].parent = x[p].parent
  BY <1>2, <1>3
<1> QED
  BY <1>3, <1>4, <1>9, <1>10 DEF z

-----------------------------------------------------------------------------
(* Clones.                                                                 *)

(* What y has after x is in h as well, but for the parents.                *)
Holds(h, x, y) == /\ Len(y) <= Len(h)
                  /\ \A i \in Len(x) + 1 .. Len(y) :
                       /\ h[i].type = y[i].type
                       /\ h[i].range = y[i].range
                       /\ h[i].children = y[i].children

(* The new node of h is over the first n of the clones.                    *)
IsOver(g, h, type, range, clones, n) ==
  /\ Grows(g, h)
  /\ h[Len(g) + 1].type = type
  /\ h[Len(g) + 1].range = range
  /\ Len(h[Len(g) + 1].children) = n
  /\ \A k \in 1 .. n :
       \E x : /\ Tidy(x) /\ Len(g) < Len(x)
              /\ h[Len(g) + 1].children[k] = Len(x) + 1
              /\ Holds(h, x, clones[k][x])

(* Another clone is appended.                                              *)
LEMMA OverOneMore ==
  ASSUME NEW g, Tidy(g), NEW h, NEW type, NEW range, NEW clones, NEW n \in Nat,
         IsOver(g, h, type, range, clones, n), Grows(h, clones[n + 1][h])
  PROVE  IsOver(g, append(clones[n + 1][h], Len(g) + 1, Len(h) + 1),
                type, range, clones, n + 1)
<1> DEFINE p == Len(g) + 1
           y == clones[n + 1][h]
           z == append(y, p, Len(h) + 1)
<1>1. /\ Tidy(h) /\ Len(g) < Len(h) /\ Len(g) \in Nat /\ Len(h) \in Nat
      /\ DOMAIN h = 1 .. Len(h) /\ Len(y) \in Nat /\ Len(h) < Len(y)
      /\ p \in DOMAIN h /\ p \in 1 .. Len(h) /\ p \in 1 .. Len(y)
      /\ \A i \in 1 .. Len(g) : h[i] = g[i]
      /\ h[p].parent = NoParent
      /\ \A i \in 1 .. Len(h) : y[i] = h[i]
  BY HeapType DEF IsOver, Grows, Tidy
<1>2. /\ Tidy(z)
      /\ Len(z) = Len(y)
      /\ z[p].parent = h[p].parent
      /\ \A i \in 1 .. Len(y) :
           /\ z[i].type = y[i].type /\ z[i].range = y[i].range
           /\ z[i].children = IF i = p THEN Append(h[p].children, Len(h) + 1)
                                       ELSE y[i].children
      /\ \A i \in 1 .. Len(h) : i # p => z[i] = h[i]
  BY <1>1, AppendTidy
<1>3. /\ h[p].type = type /\ h[p].range = range /\ Len(h[p].children) = n
      /\ \A k \in 1 .. n : \E x : /\ Tidy(x) /\ Len(g) < Len(x)
                                /\ h[p].children[k] = Len(x) + 1
                                /\ Holds(h, x, clones[k][x])
  BY DEF IsOver
<1> HIDE DEF y, z
<1>4. Grows(g, z)
  BY <1>1, <1>2 DEF Grows
<1>5. z[p].type = type /\ z[p].range = range
  BY <1>1, <1>2, <1>3
<1>6. h[p].children \in Seq(Nat)
  BY <1>1, HeapType DEF Tidy
<1>7. z[p].children = Append(h[p].children, Len(h) + 1)
  BY <1>1, <1>2
<1>8. /\ Len(z[p].children) = n + 1
      /\ z[p].children[n + 1] = Len(h) + 1
      /\ \A k \in 1 .. n : z[p].children[k] = h[p].children[k]
  BY <1>1, <1>3, <1>6, <1>7, AppendProperties
<1>9. ASSUME NEW k \in 1 .. n + 1
      PROVE  \E x : /\ Tidy(x) /\ Len(g) < Len(x)
                    /\ z[p].children[k] = Len(x) + 1
                    /\ Holds(z, x, clones[k][x])
  <2>1. CASE k = n + 1
    <3>1. clones[k][h] = y
      BY <2>1 DEF y
    <3>2. Holds(z, h, y)
      BY <1>1, <1>2 DEF Holds
    <3> QED
      BY <1>1, <1>8, <2>1, <3>1, <3>2
  <2>2. CASE k # n + 1
    <3>1. k \in 1 .. n
      BY <2>2
    <3>2. PICK x : /\ Tidy(x) /\ Len(g) < Len(x)
                   /\ h[p].children[k] = Len(x) + 1
                   /\ Holds(h, x, clones[k][x])
      BY <1>3, <3>1
    <3> DEFINE w == clones[k][x]
    <3>3. Len(x) \in Nat
      BY <3>2, HeapType DEF Tidy
    <3> HIDE DEF w
    <3>4. Holds(h, x, w)
      BY <3>2 DEF w
    <3>5. Holds(z, x, w)
      <4>1. Len(w) <= Len(h) /\ Len(h) \in Nat /\ p \in Nat /\ p <= Len(x)
        BY <1>1, <3>2, <3>3, <3>4 DEF Holds
      <4>2. ASSUME NEW i \in Len(x) + 1 .. Len(w)
            PROVE  z[i] = h[i]
        <5>1. i \in 1 .. Len(h) /\ i # p
          BY <3>3, <4>1
        <5> QED
          BY <1>2, <5>1, Zenon
      <4>3. Len(w) <= Len(z)
        BY <1>1, <1>2, <4>1
      <4> QED
        BY <3>4, <4>2, <4>3, Zenon DEF Holds
    <3>6. Holds(z, x, clones[k][x])
      BY <3>5 DEF w
    <3> QED
      BY <1>8, <3>1, <3>2, <3>6
  <2> QED
    BY <2>1, <2>2
<1>10. IsOver(g, z, type, range, clones, n + 1)
  BY <1>4, <1>5, <1>8, <1>9 DEF IsOver
<1> QED
  BY <1>10 DEF z, y

(* A new node, once all the clones are appended to it.                     *)
LEMMA AdoptedOver ==
  ASSUME NEW g, Tidy(g), NEW type \in AnyName, NEW range \in Span, NEW clones,
         Len(clones) \in Nat,
         \A k \in 1 .. Len(clones) : \A x : Tidy(x) => Grows(x, clones[k][x])
  PROVE  IsOver(g, adopted(made(g, type, range), Len(g) + 1, clones),
                type, range, clones, Len(clones))
<1>1. PICK F : /\ adopted(made(g, type, range), Len(g) + 1, clones)
                    = F[Len(clones)]
               /\ F[0] = made(g, type, range)
               /\ \A k \in 1 .. Len(clones) :
                    F[k] = append(clones[k][F[k - 1]], Len(g) + 1, Len(F[k - 1]) + 1)
  <2>1. PICK m, q : m = made(g, type, range) /\ q = Len(g) + 1
    OBVIOUS
  <2>2. \E F : /\ adopted(m, q, clones) = F[Len(clones)]
               /\ F[0] = m
               /\ \A k \in 1 .. Len(clones) :
                    F[k] = append(clones[k][F[k - 1]], q, Len(F[k - 1]) + 1)
    <3>1. Len(clones) \in Nat
      OBVIOUS
    <3> QED
      BY ONLY <3>1, AdoptedIs
  <2> QED
    BY <2>1, <2>2, Zenon
<1> DEFINE T == {n \in Nat : n <= Len(clones) =>
                   IsOver(g, F[n], type, range, clones, n)}
<1>2. 0 \in T
  <2>1. IsOver(g, made(g, type, range), type, range, clones, 0)
    BY MadeIs DEF IsOver
  <2> QED
    BY <1>1, <2>1
<1>3. ASSUME NEW n \in Nat, n \in T PROVE n + 1 \in T
  <2> SUFFICES ASSUME n + 1 <= Len(clones)
               PROVE  IsOver(g, F[n + 1], type, range, clones, n + 1)
    OBVIOUS
  <2>1. IsOver(g, F[n], type, range, clones, n)
    BY <1>3
  <2>2. PICK k : k = n + 1 /\ k \in 1 .. Len(clones) /\ k - 1 = n
    OBVIOUS
  <2>3. Grows(F[n], clones[k][F[n]])
    BY <2>1, <2>2 DEF IsOver, Grows
  <2>4. F[k] = append(clones[k][F[n]], Len(g) + 1, Len(F[n]) + 1)
    BY <1>1, <2>2
  <2> QED
    BY <2>1, <2>2, <2>3, <2>4, OverOneMore
<1> HIDE DEF T
<1>4. Len(clones) \in T
  BY <1>2, <1>3, Counting
<1>5. IsOver(g, F[Len(clones)], type, range, clones, Len(clones))
  BY <1>4 DEF T
<1> QED
  BY <1>1, <1>5

(* A clone of a node is a node of its type and range over clones of its    *)
(* children.                                                               *)
LEMMA ClonesAre ==
  ASSUME NEW h, Tidy(h)
  PROVE  \A n \in DOMAIN h : \A g : Tidy(g) =>
           IsOver(g, clone(h)[n][g], h[n].type, h[n].range,
                  OfChildren(clone(h), h, n), Len(h[n].children))
<1> DEFINE S == {n \in DOMAIN h : \A g : Tidy(g) =>
                   IsOver(g, clone(h)[n][g], h[n].type, h[n].range,
                          OfChildren(clone(h), h, n), Len(h[n].children))}
<1>1. ASSUME NEW n \in DOMAIN h,
             \A k \in DOMAIN h[n].children : h[n].children[k] \in S
      PROVE  n \in S
  <2> SUFFICES ASSUME NEW g, Tidy(g)
               PROVE  IsOver(g, clone(h)[n][g], h[n].type, h[n].range,
                             OfChildren(clone(h), h, n), Len(h[n].children))
    OBVIOUS
  <2>1. /\ h[n].type \in AnyName /\ h[n].range \in Span
        /\ Len(h[n].children) \in Nat
        /\ DOMAIN h[n].children = 1 .. Len(h[n].children)
    BY HeapType DEF Tidy
  <2> DEFINE clones == OfChildren(clone(h), h, n)
  <2>2. clone(h)[n][g] = adopted(made(g, h[n].type, h[n].range), Len(g) + 1, clones)
    <3>1. clone(h)[n] = CopyOf(h, n, clones)
      BY CloneIs, TidyDescends
    <3>2. g \in Heap
      BY TidyDescends
    <3> HIDE DEF clones
    <3> QED
      BY <3>1, <3>2 DEF CopyOf
  <2>3. Len(clones) = Len(h[n].children)
        /\ \A k \in 1 .. Len(h[n].children) :
             clones[k] = clone(h)[h[n].children[k]]
    BY <2>1 DEF OfChildren
  <2>4. ASSUME NEW k \in 1 .. Len(clones), NEW x, Tidy(x)
        PROVE  Grows(x, clones[k][x])
    <3>1. h[n].children[k] \in S
      BY <1>1, <2>1, <2>3
    <3> QED
      BY <2>3, <2>4, <3>1 DEF IsOver
  <2> HIDE DEF clones
  <2>5. IsOver(g, clone(h)[n][g], h[n].type, h[n].range, clones, Len(clones))
    BY <2>1, <2>2, <2>3, <2>4, AdoptedOver
  <2> QED
    BY <2>3, <2>5 DEF clones
<1> HIDE DEF S
<1>2. DOMAIN h \subseteq S
  BY <1>1, TidyDescends, FromLeaves
<1> QED
  BY <1>2 DEF S

-----------------------------------------------------------------------------
(* Flat nodes.                                                             *)

LEMMA IndentedType ==
  ASSUME NEW nodes \in Seq(Node)
  PROVE  Indented(nodes) \in Seq(Node)
<1>1. Len(nodes) \in Nat
  OBVIOUS
<1>2. ASSUME NEW n \in 1 .. Len(nodes)
      PROVE  [nodes[n] EXCEPT !.depth = @ + 1] \in Node
  <2>1. nodes[n] \in Node
    BY ElementOfSeq
  <2> QED
    BY <2>1, Deeper
<1>3. Indented(nodes) \in [1 .. Len(nodes) -> Node]
  BY <1>2 DEF Indented
<1> QED
  BY <1>1, <1>3

(* What is flat at a node, from its children.                              *)
LEMMA FlatAt ==
  ASSUME NEW h, Descends(h), NEW n \in DOMAIN h
  PROVE  flat(h)[n] = Heading(h, n, OfChildren(flat(h), h, n))
<1>1. flat(h) = [m \in DOMAIN h |-> Heading(h, m, OfChildren(flat(h), h, m))]
  BY FlatIs
<1>2. PICK f : f = flat(h)
  OBVIOUS
<1>3. f = [m \in DOMAIN h |-> Heading(h, m, OfChildren(f, h, m))]
  BY <1>1, <1>2, Zenon
<1>4. f[n] = Heading(h, n, OfChildren(f, h, n))
  BY <1>3
<1> QED
  BY <1>2, <1>4, Zenon

(* Flat nodes are nodes.                                                   *)
LEMMA FlatNodes ==
  ASSUME NEW h, Tidy(h)
  PROVE  \A n \in DOMAIN h : flat(h)[n] \in Seq(Node)
<1> DEFINE S == {n \in DOMAIN h : flat(h)[n] \in Seq(Node)}
<1>1. ASSUME NEW n \in DOMAIN h,
             \A k \in DOMAIN h[n].children : h[n].children[k] \in S
      PROVE  n \in S
  <2> DEFINE below == OfChildren(flat(h), h, n)
             root == [type |-> h[n].type, range |-> h[n].range, depth |-> 0]
  <2>1. /\ h[n].type \in AnyName /\ h[n].range \in Span
        /\ Len(h[n].children) \in Nat
        /\ DOMAIN h[n].children = 1 .. Len(h[n].children)
    BY HeapType DEF Tidy
  <2>2. below \in [1 .. Len(h[n].children) -> Seq(Node)]
    BY <1>1, <2>1 DEF OfChildren
  <2>3. below \in Seq(Seq(Node))
    <3> HIDE DEF below
    <3> QED
      BY <2>1, <2>2
  <2>4. root \in Node
    BY <2>1 DEF Node
  <2> HIDE DEF root, below
  <2>5. <<root>> \in Seq(Node)
    BY <2>4, Singleton
  <2>6. Indented(Seqs!FlattenSeq(below)) \in Seq(Node)
    BY <2>3, FlattenType, IndentedType
  <2>7. <<root>> \o Indented(Seqs!FlattenSeq(below)) \in Seq(Node)
    BY <2>5, <2>6, ConcatProperties
  <2>8. flat(h)[n] \in Seq(Node)
    <3>1. flat(h)[n] = Heading(h, n, below)
      BY TidyDescends, FlatAt DEF below
    <3>2. Heading(h, n, below) = <<root>> \o Indented(Seqs!FlattenSeq(below))
      BY Zenon DEF Heading, root
    <3> QED
      BY <2>7, <3>1, <3>2, Zenon
  <2> QED
    BY <2>8
<1> HIDE DEF S
<1>2. DOMAIN h \subseteq S
  BY <1>1, TidyDescends, FromLeaves
<1> QED
  BY <1>2 DEF S

(* Nodes of two heaps that are alike and have children that are alike are  *)
(* flat alike.                                                             *)
Alike(R, h, g) ==
  \A m \in DOMAIN h : \A n : <<m, n>> \in R =>
    /\ n \in DOMAIN g
    /\ h[m].type = g[n].type /\ h[m].range = g[n].range
    /\ DOMAIN h[m].children = DOMAIN g[n].children
    /\ \A k \in DOMAIN h[m].children :
         <<h[m].children[k], g[n].children[k]>> \in R

LEMMA FlatAlike ==
  ASSUME NEW h, NEW g, Descends(h), Descends(g), NEW R, Alike(R, h, g)
  PROVE  \A m \in DOMAIN h : \A n : <<m, n>> \in R => flat(h)[m] = flat(g)[n]
<1> DEFINE S == {m \in DOMAIN h : \A n : <<m, n>> \in R => flat(h)[m] = flat(g)[n]}
<1>1. ASSUME NEW m \in DOMAIN h,
             \A k \in DOMAIN h[m].children : h[m].children[k] \in S
      PROVE  m \in S
  <2> SUFFICES ASSUME NEW n, <<m, n>> \in R PROVE flat(h)[m] = flat(g)[n]
    OBVIOUS
  <2>1. /\ n \in DOMAIN g
        /\ h[m].type = g[n].type /\ h[m].range = g[n].range
        /\ DOMAIN h[m].children = DOMAIN g[n].children
        /\ \A k \in DOMAIN h[m].children :
             <<h[m].children[k], g[n].children[k]>> \in R
    BY DEF Alike
  <2>2. \A k \in DOMAIN h[m].children :
           flat(h)[h[m].children[k]] = flat(g)[g[n].children[k]]
    BY <1>1, <2>1
  <2>3. OfChildren(flat(h), h, m) = OfChildren(flat(g), g, n)
    BY <2>1, <2>2 DEF OfChildren
  <2>4. flat(h)[m] = Heading(h, m, OfChildren(flat(h), h, m))
        /\ flat(g)[n] = Heading(g, n, OfChildren(flat(g), g, n))
    BY <2>1, FlatAt
  <2>5. Heading(h, m, OfChildren(flat(h), h, m))
          = Heading(g, n, OfChildren(flat(h), h, m))
    BY <2>1, Zenon DEF Heading
  <2> QED
    BY <2>3, <2>4, <2>5, Zenon
<1> HIDE DEF S
<1>2. DOMAIN h \subseteq S
  BY <1>1, FromLeaves
<1> QED
  BY <1>2 DEF S

(* A heap that grows keeps what its nodes are.                             *)
LEMMA GrowingKeeps ==
  ASSUME NEW h, Tidy(h), NEW g, Grows(h, g)
  PROVE  /\ DOMAIN h \subseteq DOMAIN g
         /\ \A n \in DOMAIN h : g[n] = h[n] /\ flat(g)[n] = flat(h)[n]
<1>1. /\ Descends(h) /\ Descends(g)
      /\ DOMAIN h = 1 .. Len(h) /\ DOMAIN g = 1 .. Len(g)
      /\ Len(h) \in Nat /\ Len(g) \in Nat /\ Len(h) < Len(g)
      /\ \A n \in DOMAIN h : g[n] = h[n]
  BY TidyDescends, HeapType DEF Grows
<1>2. DOMAIN h \subseteq DOMAIN g
  BY <1>1
<1> DEFINE R == {<<n, n>> : n \in DOMAIN h}
<1>3. Alike(R, h, g)
  <2> SUFFICES ASSUME NEW m \in DOMAIN h, NEW n, <<m, n>> \in R
               PROVE  /\ n \in DOMAIN g
                      /\ h[m].type = g[n].type /\ h[m].range = g[n].range
                      /\ DOMAIN h[m].children = DOMAIN g[n].children
                      /\ \A k \in DOMAIN h[m].children :
                           <<h[m].children[k], g[n].children[k]>> \in R
    BY Zenon DEF Alike
  <2>1. n = m
    OBVIOUS
  <2>2. g[n] = h[m] /\ n \in DOMAIN g
    BY <1>1, <1>2, <2>1
  <2>3. ASSUME NEW k \in DOMAIN h[m].children
        PROVE  <<h[m].children[k], g[n].children[k]>> \in R
    <3>1. h[m].children[k] \in m + 1 .. Len(h)
      BY <1>1 DEF Descends
    <3>2. h[m].children[k] \in DOMAIN h
      BY <1>1, <3>1
    <3> QED
      BY <2>2, <3>2
  <2> QED
    BY <2>2, <2>3
<1>4. ASSUME NEW n \in DOMAIN h PROVE flat(g)[n] = flat(h)[n]
  <2>1. <<n, n>> \in R
    OBVIOUS
  <2> HIDE DEF R
  <2> QED
    BY <1>1, <1>3, <2>1, FlatAlike
<1> QED
  BY <1>1, <1>2, <1>4

(* A clone is what the node was when it was cloned.                        *)
LEMMA ClonesFlat ==
  ASSUME NEW h, Tidy(h), NEW g, Tidy(g),
         NEW n \in DOMAIN h, NEW x, Tidy(x), Holds(g, x, clone(h)[n][x])
  PROVE  flat(g)[Len(x) + 1] = flat(h)[n]
<1> DEFINE Cloned(m, i) == \E y : /\ Tidy(y) /\ i = Len(y) + 1
                                  /\ Holds(g, y, clone(h)[m][y])
           R == {r \in (DOMAIN h) \X (DOMAIN g) : Cloned(r[1], r[2])}
<1>1. /\ Len(g) \in Nat /\ DOMAIN g = 1 .. Len(g)
      /\ Len(h) \in Nat /\ DOMAIN h = 1 .. Len(h)
      /\ Descends(h) /\ Descends(g)
  BY TidyDescends, HeapType
<1>2. ASSUME NEW m \in DOMAIN h, NEW y, Tidy(y), Holds(g, y, clone(h)[m][y])
      PROVE  /\ Len(y) + 1 \in DOMAIN g
             /\ <<m, Len(y) + 1>> \in R
             /\ h[m].type = g[Len(y) + 1].type
             /\ h[m].range = g[Len(y) + 1].range
             /\ DOMAIN h[m].children = DOMAIN g[Len(y) + 1].children
             /\ \A k \in DOMAIN h[m].children :
                  \E w : /\ Tidy(w)
                         /\ g[Len(y) + 1].children[k] = Len(w) + 1
                         /\ Holds(g, w, clone(h)[h[m].children[k]][w])
  <2> DEFINE e == clone(h)[m][y]
             i == Len(y) + 1
             clones == OfChildren(clone(h), h, m)
  <2>1. IsOver(y, e, h[m].type, h[m].range, clones, Len(h[m].children))
    BY <1>2, ClonesAre
  <2> HIDE DEF e
  <2>2. /\ Len(h[m].children) \in Nat
        /\ DOMAIN h[m].children = 1 .. Len(h[m].children)
    BY HeapType DEF Tidy
  <2>3. \A k \in 1 .. Len(h[m].children) : clones[k] = clone(h)[h[m].children[k]]
    BY <2>2 DEF OfChildren
  <2> HIDE DEF clones
  <2>4. /\ Tidy(e) /\ Len(y) < Len(e)
        /\ e[i].type = h[m].type /\ e[i].range = h[m].range
        /\ Len(e[i].children) = Len(h[m].children)
        /\ \A k \in 1 .. Len(h[m].children) :
             \E w : /\ Tidy(w) /\ Len(y) < Len(w)
                    /\ e[i].children[k] = Len(w) + 1
                    /\ Holds(e, w, clones[k][w])
    BY <2>1 DEF IsOver, Grows
  <2>5. /\ Len(y) \in Nat /\ Len(e) \in Nat /\ DOMAIN e = 1 .. Len(e)
        /\ i \in 1 .. Len(e)
    BY <1>2, <2>4, HeapType DEF Tidy
  <2>6. /\ Len(e) <= Len(g)
        /\ \A j \in i .. Len(e) : /\ g[j].type = e[j].type
                                 /\ g[j].range = e[j].range
                                 /\ g[j].children = e[j].children
    BY <1>2 DEF Holds, e
  <2>7. i \in DOMAIN g /\ i \in i .. Len(e)
    BY <1>1, <2>4, <2>5, <2>6
  <2>8. /\ g[i].type = h[m].type /\ g[i].range = h[m].range
        /\ g[i].children = e[i].children
    BY <2>4, <2>6, <2>7
  <2>9. DOMAIN e[i].children = 1 .. Len(h[m].children)
    <3>1. i \in DOMAIN e /\ e \in Heap
      BY <2>4, <2>5 DEF Tidy
    <3>2. DOMAIN e[i].children = 1 .. Len(e[i].children)
      BY <3>1, HeapType
    <3> QED
      BY <2>4, <3>2
  <2>10. <<m, i>> \in R
    <3>1. Cloned(m, i)
      BY <1>2
    <3> HIDE DEF Cloned
    <3> QED
      BY <2>7, <3>1
  <2>11. ASSUME NEW k \in DOMAIN h[m].children
         PROVE  \E w : /\ Tidy(w)
                       /\ g[i].children[k] = Len(w) + 1
                       /\ Holds(g, w, clone(h)[h[m].children[k]][w])
    <3>1. PICK w : /\ Tidy(w) /\ Len(y) < Len(w)
                   /\ e[i].children[k] = Len(w) + 1
                   /\ Holds(e, w, clones[k][w])
      BY <2>2, <2>4
    <3>2. clones[k] = clone(h)[h[m].children[k]]
      BY <2>2, <2>3
    <3>3. PICK v : v = clones[k][w]
      OBVIOUS
    <3>4. Len(w) \in Nat
      BY <3>1, HeapType DEF Tidy
    <3>5. /\ Len(v) <= Len(e)
          /\ \A j \in Len(w) + 1 .. Len(v) : /\ e[j].type = v[j].type
                                           /\ e[j].range = v[j].range
                                           /\ e[j].children = v[j].children
      BY <3>1, <3>3 DEF Holds
    <3>6. Len(v) \in Nat
      <4>1. h[m].children[k] \in DOMAIN h
        BY <1>1 DEF Descends
      <4>2. Grows(w, v)
        BY <3>1, <3>2, <3>3, <4>1, ClonesAre DEF IsOver
      <4> QED
        BY <4>2, HeapType DEF Grows, Tidy
    <3>7. \A j \in Len(w) + 1 .. Len(v) : j \in i .. Len(e)
      BY <2>5, <3>1, <3>4, <3>5, <3>6
    <3>8. Holds(g, w, v)
      BY <1>1, <2>5, <2>6, <3>5, <3>6, <3>7 DEF Holds
    <3>9. g[i].children[k] = Len(w) + 1
      BY <2>8, <3>1
    <3> QED
      BY <3>1, <3>2, <3>3, <3>8, <3>9
  <2> QED
    BY <2>2, <2>7, <2>8, <2>9, <2>10, <2>11
<1>3. Alike(R, h, g)
  <2> SUFFICES ASSUME NEW m \in DOMAIN h, NEW i, <<m, i>> \in R
               PROVE  /\ i \in DOMAIN g
                      /\ h[m].type = g[i].type /\ h[m].range = g[i].range
                      /\ DOMAIN h[m].children = DOMAIN g[i].children
                      /\ \A k \in DOMAIN h[m].children :
                           <<h[m].children[k], g[i].children[k]>> \in R
    BY Zenon DEF Alike
  <2>1. PICK y : /\ Tidy(y) /\ i = Len(y) + 1
                 /\ Holds(g, y, clone(h)[m][y])
    OBVIOUS
  <2> HIDE DEF R
  <2>2. /\ i \in DOMAIN g
        /\ h[m].type = g[i].type /\ h[m].range = g[i].range
        /\ DOMAIN h[m].children = DOMAIN g[i].children
        /\ \A k \in DOMAIN h[m].children :
                  \E w : /\ Tidy(w)
                         /\ g[i].children[k] = Len(w) + 1
                         /\ Holds(g, w, clone(h)[h[m].children[k]][w])
    BY <1>2, <2>1
  <2>3. ASSUME NEW k \in DOMAIN h[m].children
        PROVE  <<h[m].children[k], g[i].children[k]>> \in R
    <3>1. h[m].children[k] \in DOMAIN h
      BY <1>1 DEF Descends
    <3>2. PICK w : /\ Tidy(w)
                   /\ g[i].children[k] = Len(w) + 1
                   /\ Holds(g, w, clone(h)[h[m].children[k]][w])
      BY <2>2
    <3>3. <<h[m].children[k], Len(w) + 1>> \in R
      BY <1>2, <3>1, <3>2
    <3> QED
      BY <3>2, <3>3
  <2> QED
    BY <2>2, <2>3
<1>4. <<n, Len(x) + 1>> \in R
  BY <1>2
<1> HIDE DEF R
<1> QED
  BY <1>1, <1>3, <1>4, FlatAlike

(* The nodes of an output are flat one after the other.                    *)
LEMMA FlatNone ==
  ASSUME NEW h
  PROVE  FlatIn(h, <<>>) = <<>>
<1>1. PICK none : none = [n \in DOMAIN <<>> |-> flat(h)[<<>>[n]]]
  OBVIOUS
<1>2. none = <<>> /\ Len(none) = 0
  BY <1>1
<1> QED
  BY <1>1, <1>2, Zenon DEF FlatIn, Seqs!FlattenSeq

LEMMA FlatOne ==
  ASSUME NEW h, NEW n
  PROVE  FlatIn(h, <<n>>) = flat(h)[n]
<1>1. PICK f : f = flat(h)
  OBVIOUS
<1>2. [i \in DOMAIN <<n>> |-> f[<<n>>[i]]] = <<f[n]>>
  OBVIOUS
<1>3. FlatIn(h, <<n>>) = Seqs!FlattenSeq(<<f[n]>>)
  BY <1>1, <1>2, Zenon DEF FlatIn
<1> QED
  BY <1>1, <1>3, FlattenOne, Zenon

LEMMA FlatSequence ==
  ASSUME NEW h, Tidy(h), NEW nodes \in Seq(DOMAIN h)
  PROVE  [n \in DOMAIN nodes |-> flat(h)[nodes[n]]] \in Seq(Seq(Node))
<1>1. Len(nodes) \in Nat /\ DOMAIN nodes = 1 .. Len(nodes)
  OBVIOUS
<1>2. \A n \in DOMAIN nodes : nodes[n] \in DOMAIN h
  BY <1>1, ElementOfSeq
<1>3. [n \in DOMAIN nodes |-> flat(h)[nodes[n]]] \in [1 .. Len(nodes) -> Seq(Node)]
  BY <1>1, <1>2, FlatNodes
<1> QED
  BY <1>1, <1>3

LEMMA FlatInType ==
  ASSUME NEW h, Tidy(h), NEW nodes \in Seq(DOMAIN h)
  PROVE  FlatIn(h, nodes) \in Seq(Node)
BY FlatSequence, FlattenType DEF FlatIn

LEMMA FlatBoth ==
  ASSUME NEW h, Tidy(h), NEW s \in Seq(DOMAIN h), NEW t \in Seq(DOMAIN h)
  PROVE  FlatIn(h, s \o t) = FlatIn(h, s) \o FlatIn(h, t)
<1> DEFINE F(r) == [n \in DOMAIN r |-> flat(h)[r[n]]]
<1>1. F(s) \in Seq(Seq(Node)) /\ F(t) \in Seq(Seq(Node))
  BY FlatSequence
<1>2. F(s \o t) = F(s) \o F(t)
  <2>1. PICK u, f : u = s \o t /\ f = flat(h)
    OBVIOUS
  <2>2. /\ Len(s) \in Nat /\ Len(t) \in Nat
        /\ DOMAIN s = 1 .. Len(s) /\ DOMAIN t = 1 .. Len(t)
    OBVIOUS
  <2>3. /\ DOMAIN u = 1 .. Len(s) + Len(t)
        /\ \A i \in 1 .. Len(s) : u[i] = s[i]
        /\ \A i \in 1 .. Len(t) : u[Len(s) + i] = t[i]
    BY <2>1, ConcatProperties
  <2>4. PICK a, b, c : a = F(s) /\ b = F(t) /\ c = F(u)
    OBVIOUS
  <2>5. /\ a \in Seq(Seq(Node)) /\ b \in Seq(Seq(Node))
        /\ DOMAIN a = DOMAIN s /\ DOMAIN b = DOMAIN t
        /\ \A i \in DOMAIN s : a[i] = f[s[i]]
        /\ \A i \in DOMAIN t : b[i] = f[t[i]]
    BY <1>1, <2>1, <2>4
  <2>6. Len(a) = Len(s) /\ Len(b) = Len(t)
    BY <2>2, <2>5
  <2>7. c = [i \in 1 .. Len(s) + Len(t) |-> f[u[i]]]
    BY <2>1, <2>3, <2>4
  <2> HIDE DEF F
  <2>8. PICK d : d = a \o b
    OBVIOUS
  <2>9. /\ d \in Seq(Seq(Node)) /\ Len(d) = Len(s) + Len(t)
        /\ \A i \in 1 .. Len(s) : d[i] = a[i]
        /\ \A i \in 1 .. Len(t) : d[Len(s) + i] = b[i]
    <3>1. /\ d \in Seq(Seq(Node)) /\ Len(d) = Len(a) + Len(b)
          /\ \A i \in 1 .. Len(a) : d[i] = a[i]
          /\ \A i \in 1 .. Len(b) : d[Len(a) + i] = b[i]
      <4>1. a \in Seq(Seq(Node)) /\ b \in Seq(Seq(Node))
        BY <2>5
      <4> QED
        BY ONLY <4>1, <2>8, ConcatProperties
    <3> QED
      BY <2>6, <3>1
  <2>10. ASSUME NEW i \in 1 .. Len(s) + Len(t) PROVE c[i] = d[i]
    <3>1. c[i] = f[u[i]]
      BY <2>7
    <3>2. CASE i \in 1 .. Len(s)
      BY <2>2, <2>3, <2>5, <2>9, <3>1, <3>2
    <3>3. CASE i \notin 1 .. Len(s)
      <4>1. PICK j : j = i - Len(s) /\ j \in 1 .. Len(t) /\ i = Len(s) + j
        BY <2>2, <3>3
      <4>2. u[i] = t[j] /\ d[i] = b[j]
        BY <2>3, <2>9, <4>1
      <4>3. b[j] = f[t[j]]
        BY <2>2, <2>5, <4>1
      <4> QED
        BY <3>1, <4>2, <4>3, Zenon
    <3> QED
      BY <3>2, <3>3
  <2>11. DOMAIN d = 1 .. Len(s) + Len(t)
    BY <2>9
  <2>12. d = [i \in 1 .. Len(s) + Len(t) |-> d[i]]
    BY <2>9, <2>11
  <2>13. c = d
    BY <2>7, <2>10, <2>12
  <2> QED
    BY <2>1, <2>4, <2>8, <2>13, Zenon
<1>3. /\ FlatIn(h, s) = Seqs!FlattenSeq(F(s))
      /\ FlatIn(h, t) = Seqs!FlattenSeq(F(t))
      /\ FlatIn(h, s \o t) = Seqs!FlattenSeq(F(s \o t))
  BY Zenon DEF FlatIn
<1> HIDE DEF F
<1>4. Seqs!FlattenSeq(F(s) \o F(t)) = Seqs!FlattenSeq(F(s)) \o Seqs!FlattenSeq(F(t))
  BY <1>1, FlattenBoth
<1> QED
  BY <1>2, <1>3, <1>4, Zenon

(* What a heap held is as flat in a heap that has grown.                   *)
LEMMA FlatKept ==
  ASSUME NEW h, Tidy(h), NEW g, Grows(h, g), NEW nodes \in Seq(DOMAIN h)
  PROVE  FlatIn(g, nodes) = FlatIn(h, nodes)
<1>1. \A n \in DOMAIN nodes : nodes[n] \in DOMAIN h
  BY ElementOfSeq
<1>2. \A n \in DOMAIN nodes : flat(g)[nodes[n]] = flat(h)[nodes[n]]
  BY <1>1, GrowingKeeps
<1>3. [n \in DOMAIN nodes |-> flat(g)[nodes[n]]]
        = [n \in DOMAIN nodes |-> flat(h)[nodes[n]]]
  BY <1>2
<1> QED
  BY <1>3, Zenon DEF FlatIn

(* The node that is made over clones of nodes.                             *)
LEMMA OverIs ==
  ASSUME NEW h, Tidy(h), NEW type \in AnyName, NEW range \in Span,
         NEW nodes \in Seq(DOMAIN h)
  PROVE  /\ Grows(h, over(h, type, range, nodes))
         /\ FlatIn(over(h, type, range, nodes), <<Len(h) + 1>>)
              = <<[type |-> type, range |-> range, depth |-> 0]>>
                  \o Indented(FlatIn(h, nodes))
<1> DEFINE clones == [k \in DOMAIN nodes |-> clone(h)[nodes[k]]]
           e == over(h, type, range, nodes)
           p == Len(h) + 1
<1>1. Len(nodes) \in Nat /\ DOMAIN nodes = 1 .. Len(nodes)
  OBVIOUS
<1>2. \A k \in DOMAIN nodes : nodes[k] \in DOMAIN h
  BY <1>1, ElementOfSeq
<1>3. /\ Len(clones) = Len(nodes)
      /\ \A k \in 1 .. Len(nodes) : clones[k] = clone(h)[nodes[k]]
  BY <1>1
<1>4. e = adopted(made(h, type, range), p, clones)
  BY DEF over
<1> HIDE DEF e, clones
<1>5. \A k \in 1 .. Len(clones) : \A x : Tidy(x) => Grows(x, clones[k][x])
  BY <1>1, <1>2, <1>3, ClonesAre DEF IsOver
<1>6. IsOver(h, e, type, range, clones, Len(clones))
  BY <1>1, <1>3, <1>4, <1>5, AdoptedOver
<1>7. /\ Grows(h, e) /\ Tidy(e) /\ Len(h) < Len(e)
      /\ e[p].type = type /\ e[p].range = range
      /\ Len(e[p].children) = Len(nodes)
      /\ \A k \in 1 .. Len(nodes) :
           \E x : /\ Tidy(x) /\ e[p].children[k] = Len(x) + 1
                  /\ Holds(e, x, clones[k][x])
  BY <1>3, <1>6 DEF IsOver, Grows
<1>8. p \in DOMAIN e
  BY <1>7, HeapType DEF Tidy
<1>9. DOMAIN e[p].children = 1 .. Len(nodes)
  BY <1>7, <1>8, HeapType DEF Tidy
<1>10. ASSUME NEW k \in 1 .. Len(nodes)
       PROVE  flat(e)[e[p].children[k]] = flat(h)[nodes[k]]
  <2>1. PICK x : /\ Tidy(x) /\ e[p].children[k] = Len(x) + 1
                 /\ Holds(e, x, clones[k][x])
    BY <1>7
  <2>2. clones[k] = clone(h)[nodes[k]] /\ nodes[k] \in DOMAIN h
    BY <1>1, <1>2, <1>3
  <2> QED
    BY <1>7, <2>1, <2>2, ClonesFlat
<1>11. OfChildren(flat(e), e, p) = [k \in DOMAIN nodes |-> flat(h)[nodes[k]]]
  BY <1>1, <1>9, <1>10 DEF OfChildren
<1>12. flat(e)[p] = Heading(e, p, OfChildren(flat(e), e, p))
  BY <1>7, <1>8, TidyDescends, FlatAt
<1>13. flat(e)[p] = <<[type |-> type, range |-> range, depth |-> 0]>>
                     \o Indented(FlatIn(h, nodes))
  BY <1>7, <1>11, <1>12, Zenon DEF Heading, FlatIn
<1> HIDE DEF p
<1>14. FlatIn(e, <<p>>) = flat(e)[p]
  BY FlatOne
<1> QED
  BY <1>7, <1>13, <1>14, Zenon DEF e, p

-----------------------------------------------------------------------------
(* Nodes that stand for an output.                                         *)

Roots(h) == {n \in DOMAIN h : h[n].parent = NoParent}

StandsFor(h, nodes, o) == /\ nodes \in Seq(Roots(h))
                          /\ FlatIn(h, nodes) = o.nodes

Wider(h, g) == g = h \/ Grows(h, g)

(* A root is a node of its heap.                                           *)
LEMMA RootNodes ==
  ASSUME NEW h, NEW nodes \in Seq(Roots(h))
  PROVE  nodes \in Seq(DOMAIN h)
BY DEF Roots

(* Nodes that stand for an output do so for good.                          *)
LEMMA WiderTidy ==
  ASSUME NEW h, Tidy(h), NEW g, Wider(h, g)
  PROVE  Tidy(g)
BY DEF Wider, Grows

LEMMA StandsWider ==
  ASSUME NEW h, Tidy(h), NEW g, Wider(h, g), NEW nodes, NEW o, StandsFor(h, nodes, o)
  PROVE  StandsFor(g, nodes, o)
<1>1. CASE g = h
  BY <1>1
<1>2. CASE Grows(h, g)
  <2>1. nodes \in Seq(Roots(h)) /\ FlatIn(h, nodes) = o.nodes
    BY DEF StandsFor
  <2>2. nodes \in Seq(DOMAIN h)
    BY <2>1, RootNodes
  <2>3. FlatIn(g, nodes) = o.nodes
    BY <1>2, <2>1, <2>2, FlatKept
  <2>4. Roots(h) \subseteq Roots(g)
    BY <1>2, GrowingKeeps DEF Roots
  <2>5. nodes \in Seq(Roots(g))
    BY <2>1, <2>4
  <2> QED
    BY <2>3, <2>5 DEF StandsFor
<1> QED
  BY <1>1, <1>2 DEF Wider

(* No nodes stand for an output without any.                               *)
LEMMA NoneStands ==
  ASSUME NEW h, NEW o, o.nodes = <<>>
  PROVE  StandsFor(h, <<>>, o)
BY FlatNone DEF StandsFor

(* Joined outputs have the nodes of both.                                  *)
LEMMA JoinStands ==
  ASSUME NEW h, Tidy(h), NEW s, NEW t, NEW first, NEW second,
         StandsFor(h, s, first), StandsFor(h, t, second)
  PROVE  StandsFor(h, s \o t, joinOutputs(first, second))
<1>1. /\ s \in Seq(Roots(h)) /\ t \in Seq(Roots(h))
      /\ FlatIn(h, s) = first.nodes /\ FlatIn(h, t) = second.nodes
  BY DEF StandsFor
<1>2. s \in Seq(DOMAIN h) /\ t \in Seq(DOMAIN h)
  BY <1>1, RootNodes
<1>3. FlatIn(h, s \o t) = first.nodes \o second.nodes
  BY <1>1, <1>2, FlatBoth
<1>4. first.nodes \in Seq(Node) /\ second.nodes \in Seq(Node)
  BY <1>1, <1>2, FlatInType
<1>5. joinOutputs(first, second).nodes = first.nodes \o second.nodes
  <2>1. PICK x, y : x = first.nodes /\ y = second.nodes
    OBVIOUS
  <2>2. joinOutputs(first, second).nodes = IF x = <<>> THEN y ELSE x \o y
    BY <2>1 DEF joinOutputs
  <2>3. <<>> \o y = y
    BY <1>4, <2>1, ConcatEmptySeq
  <2> QED
    BY <2>1, <2>2, <2>3, Zenon
<1>6. s \o t \in Seq(Roots(h))
  BY <1>1, ConcatProperties
<1> QED
  BY <1>3, <1>5, <1>6 DEF StandsFor

(* The flat output with a node above it.                                   *)
LEMMA UnderIs ==
  ASSUME NEW type, NEW range, NEW o
  PROVE  Under(type, range, o).nodes
           = <<[type |-> type, range |-> range, depth |-> 0]>> \o Indented(o.nodes)
BY DEF Under, Indented

(* The range of that node.                                                 *)
LEMMA UnderRange ==
  ASSUME NEW type \in AnyName, NEW range \in Span, NEW o \in Output
  PROVE  Under(type, range, o).nodes[1].range = range
<1>1. PICK root, below : /\ root = [type |-> type, range |-> range, depth |-> 0]
                         /\ below = Indented(o.nodes)
  OBVIOUS
<1>2. below \in Seq(Node) /\ root \in Node
  BY <1>1, IndentedType DEF Output, Node
<1>3. (<<root>> \o below)[1] = root
  BY <1>2
<1>4. Under(type, range, o).nodes = <<root>> \o below
  <2>1. Under(type, range, o).nodes
          = <<[type |-> type, range |-> range, depth |-> 0]>> \o Indented(o.nodes)
    BY UnderIs
  <2> QED
    BY <1>1, <2>1, Zenon
<1>5. Under(type, range, o).nodes[1] = root
  BY <1>3, <1>4, Zenon
<1> QED
  BY <1>1, <1>5

(* The node that is made over the clones stands for it.                    *)
LEMMA UnderStands ==
  ASSUME NEW h, Tidy(h), NEW type \in AnyName, NEW range \in Span,
         NEW nodes, NEW o, StandsFor(h, nodes, o)
  PROVE  /\ Grows(h, over(h, type, range, nodes))
         /\ StandsFor(over(h, type, range, nodes), <<Len(h) + 1>>,
                      Under(type, range, o))
<1> DEFINE e == over(h, type, range, nodes)
           p == Len(h) + 1
<1>1. nodes \in Seq(Roots(h)) /\ FlatIn(h, nodes) = o.nodes
  BY DEF StandsFor
<1>2. nodes \in Seq(DOMAIN h)
  BY <1>1, RootNodes
<1>3. /\ Grows(h, e)
      /\ FlatIn(e, <<p>>) = <<[type |-> type, range |-> range, depth |-> 0]>>
                              \o Indented(o.nodes)
  BY <1>1, <1>2, OverIs
<1> HIDE DEF e
<1>4. Under(type, range, o).nodes
        = <<[type |-> type, range |-> range, depth |-> 0]>> \o Indented(o.nodes)
  BY UnderIs
<1>5. p \in Roots(e)
  <2>1. Tidy(e) /\ Len(h) < Len(e) /\ e[p].parent = NoParent
    BY <1>3 DEF Grows
  <2>2. p \in DOMAIN e
    BY <2>1, HeapType DEF Tidy
  <2> QED
    BY <2>1, <2>2 DEF Roots
<1> HIDE DEF p
<1>6. <<p>> \in Seq(Roots(e))
  BY <1>5, Singleton
<1>7. StandsFor(e, <<p>>, Under(type, range, o))
  BY <1>3, <1>4, <1>6, Zenon DEF StandsFor
<1> QED
  BY <1>3, <1>7 DEF e, p

-----------------------------------------------------------------------------
(* The inductive invariant: the heap is tidy, and the nodes beside every   *)
(* variable that holds an output stand for it.                             *)

MemoFor(h, memo, records) ==
  /\ DOMAIN memo = DOMAIN records
  /\ \A k \in DOMAIN records : StandsFor(h, memo[k], records[k].out)

StackFor(h, acc, frames) ==
  /\ acc \in Seq(Seq(Nat))
  /\ Len(acc) = Len(frames)
  /\ \A n \in 1 .. Len(frames) : StandsFor(h, acc[n], frames[n].acc)

(* What fails has no nodes.                                                *)
BestFor(h, nodes, o) == /\ StandsFor(h, nodes, o)
                        /\ Succeeds(o) \/ o.nodes = <<>>

HeapFor(h) == /\ Tidy(h)
              /\ StandsFor(h, outNodes, out)
              /\ BestFor(h, bestNodes, best)
              /\ MemoFor(h, memoNodes, history)
              /\ StackFor(h, accNodes, stack)

TreeInv == HeapFor(heap)

(* What is to be shown of a step, and what is known before it.             *)
LEMMA TreeInvNext ==
  ASSUME Tidy(heap'), StandsFor(heap', outNodes', out'),
         BestFor(heap', bestNodes', best'),
         MemoFor(heap', memoNodes', history'),
         StackFor(heap', accNodes', stack')
  PROVE  TreeInv'
BY DEF TreeInv, HeapFor

LEMMA TreeInvNow ==
  ASSUME TreeInv
  PROVE  /\ Tidy(heap)
         /\ StandsFor(heap, outNodes, out)
         /\ BestFor(heap, bestNodes, best)
         /\ MemoFor(heap, memoNodes, history)
         /\ StackFor(heap, accNodes, stack)
BY DEF TreeInv, HeapFor

(* What stands in a heap stands in one that has grown.                     *)
LEMMA BestWider ==
  ASSUME NEW h, Tidy(h), NEW g, Wider(h, g), NEW nodes, NEW o, BestFor(h, nodes, o)
  PROVE  BestFor(g, nodes, o)
BY StandsWider DEF BestFor

LEMMA MemoWider ==
  ASSUME NEW h, Tidy(h), NEW g, Wider(h, g), NEW memo, NEW records,
         MemoFor(h, memo, records)
  PROVE  MemoFor(g, memo, records)
BY StandsWider DEF MemoFor

LEMMA StackWider ==
  ASSUME NEW h, Tidy(h), NEW g, Wider(h, g), NEW acc, NEW frames,
         StackFor(h, acc, frames)
  PROVE  StackFor(g, acc, frames)
BY StandsWider DEF StackFor

(* A record is written with nodes that stand for its output.               *)
LEMMA MemoAdds ==
  ASSUME NEW h, MemoFor(h, memoNodes, history),
         NEW record, NEW state, NEW o, NEW nodes,
         Remember(record, state, o), Memoised(record, nodes),
         StandsFor(h, nodes, o)
  PROVE  MemoFor(h, memoNodes', history')
<1>1. /\ DOMAIN history' = DOMAIN history \cup {record}
      /\ history'[record].out = o
      /\ \A k \in DOMAIN history : k # record => history'[k] = history[k]
  BY DEF Remember
<1>2. /\ DOMAIN memoNodes' = DOMAIN memoNodes \cup {record}
      /\ memoNodes'[record] = nodes
      /\ \A k \in DOMAIN memoNodes : k # record => memoNodes'[k] = memoNodes[k]
  BY DEF Memoised
<1>3. DOMAIN memoNodes = DOMAIN history
      /\ \A k \in DOMAIN history : StandsFor(h, memoNodes[k], history[k].out)
  BY DEF MemoFor
<1>4. ASSUME NEW k \in DOMAIN history'
      PROVE  StandsFor(h, memoNodes'[k], history'[k].out)
  BY <1>1, <1>2, <1>3
<1> QED
  BY <1>1, <1>2, <1>3, <1>4 DEF MemoFor

(* The node references are numbers.                                        *)
LEMMA StandsType ==
  ASSUME NEW h, Tidy(h), NEW nodes, NEW o, StandsFor(h, nodes, o)
  PROVE  nodes \in Seq(Nat)
<1>1. DOMAIN h = 1 .. Len(h) /\ Len(h) \in Nat
  BY HeapType DEF Tidy
<1>2. Roots(h) \subseteq Nat
  BY <1>1 DEF Roots
<1> QED
  BY <1>2 DEF StandsFor

(* A frame that is pushed holds no nodes,                                  *)
LEMMA StackPushes ==
  ASSUME NEW h, Tidy(h), NEW acc, NEW frames \in Seq(Frame),
         StackFor(h, acc, frames),
         NEW frame \in Frame, frame.acc = FAILURE
  PROVE  StackFor(h, Append(acc, <<>>), Append(frames, frame))
<1> DEFINE a == Append(acc, <<>>)
           f == Append(frames, frame)
<1>1. /\ acc \in Seq(Seq(Nat)) /\ Len(acc) = Len(frames) /\ Len(frames) \in Nat
      /\ \A n \in 1 .. Len(frames) : StandsFor(h, acc[n], frames[n].acc)
  BY DEF StackFor
<1>2. /\ f \in Seq(Frame) /\ Len(f) = Len(frames) + 1
      /\ f[Len(frames) + 1] = frame
      /\ \A n \in 1 .. Len(frames) : f[n] = frames[n]
  BY AppendProperties
<1>3. PICK none : none = <<>> /\ none \in Seq(Nat)
  <2>1. <<>> \in Seq(Nat)
    OBVIOUS
  <2> QED
    BY <2>1, Zenon
<1>4. /\ a \in Seq(Seq(Nat)) /\ Len(a) = Len(acc) + 1
      /\ a[Len(acc) + 1] = none
      /\ \A n \in 1 .. Len(acc) : a[n] = acc[n]
  <2>1. a = Append(acc, none)
    BY <1>3
  <2> HIDE DEF a
  <2> QED
    BY <1>1, <1>3, <2>1, AppendProperties
<1> HIDE DEF a, f
<1>5. ASSUME NEW n \in 1 .. Len(f)
      PROVE  StandsFor(h, a[n], f[n].acc)
  <2>1. CASE n = Len(frames) + 1
    <3>1. a[n] = <<>> /\ f[n].acc.nodes = <<>>
      BY <1>1, <1>2, <1>3, <1>4, <2>1 DEF FAILURE, ReachedAt
    <3> QED
      BY <3>1, NoneStands
  <2>2. CASE n # Len(frames) + 1
    <3>1. n \in 1 .. Len(frames)
      BY <1>1, <1>2, <2>2
    <3> QED
      BY <1>1, <1>2, <1>4, <3>1
  <2> QED
    BY <2>1, <2>2
<1> QED
  BY <1>1, <1>2, <1>4, <1>5 DEF StackFor, a, f

(* one that is popped takes its nodes with it,                             *)
LEMMA StackPops ==
  ASSUME NEW h, Tidy(h), NEW acc, NEW frames \in Seq(Frame), frames # <<>>,
         StackFor(h, acc, frames)
  PROVE  StackFor(h, Seqs!Front(acc), SubSeq(frames, 1, Len(frames) - 1))
<1> DEFINE a == SubSeq(acc, 1, Len(acc) - 1)
           f == SubSeq(frames, 1, Len(frames) - 1)
<1>1. /\ acc \in Seq(Seq(Nat)) /\ Len(acc) = Len(frames)
      /\ \A n \in 1 .. Len(frames) : StandsFor(h, acc[n], frames[n].acc)
  BY DEF StackFor
<1>2. /\ Len(frames) \in Nat \ {0}
      /\ f \in Seq(Frame) /\ Len(f) = Len(frames) - 1
      /\ \A n \in 1 .. Len(frames) - 1 : f[n] = frames[n]
  BY WithoutLast
<1>3. acc # <<>>
  BY <1>1, <1>2
<1>4. /\ a \in Seq(Seq(Nat)) /\ Len(a) = Len(acc) - 1
      /\ \A n \in 1 .. Len(acc) - 1 : a[n] = acc[n]
  BY <1>1, <1>3, WithoutLast
<1>5. Seqs!Front(acc) = a
  BY DEF Seqs!Front
<1> HIDE DEF a, f
<1>6. ASSUME NEW n \in 1 .. Len(f) PROVE StandsFor(h, a[n], f[n].acc)
  <2>1. n \in 1 .. Len(frames) - 1 /\ n \in 1 .. Len(frames)
    BY <1>2
  <2> QED
    BY <1>1, <1>2, <1>4, <2>1
<1>7. StackFor(h, a, f)
  BY <1>1, <1>2, <1>4, <1>6 DEF StackFor
<1> QED
  BY <1>5, <1>7 DEF f

(* and one that goes on replaces them.                                     *)
LEMMA StackHolds ==
  ASSUME NEW h, Tidy(h), NEW nodes, NEW o, StandsFor(h, nodes, o),
         LibraryOK, StackOK, stack # <<>>,
         StackFor(h, accNodes, stack),
         NEW kid, NEW turn, NEW i, Again(kid, turn, o, i),
         accNodes' = [accNodes EXCEPT ![Len(stack)] = nodes]
  PROVE  StackFor(h, accNodes', stack')
<1>1. /\ accNodes \in Seq(Seq(Nat)) /\ Len(accNodes) = Len(stack)
      /\ \A n \in 1 .. Len(stack) : StandsFor(h, accNodes[n], stack[n].acc)
  BY DEF StackFor
<1>2. stack' = [stack EXCEPT ![Len(stack)].turn = turn, ![Len(stack)].acc = o]
  BY DEF Again
<1>3. /\ Len(stack') = Len(stack)
      /\ \A n \in 1 .. Len(stack) : n # Len(stack) => stack'[n] = stack[n]
      /\ stack'[Len(stack)].acc = o
  BY <1>2, AgainStack
<1>4. nodes \in Seq(Nat)
  BY StandsType
<1>5. Len(stack) \in Nat /\ Len(stack) \in 1 .. Len(stack)
  BY TopType
<1>6. /\ accNodes' \in Seq(Seq(Nat))
      /\ Len(accNodes') = Len(accNodes)
      /\ \A n \in 1 .. Len(accNodes) :
           accNodes'[n] = IF n = Len(stack) THEN nodes ELSE accNodes[n]
  BY <1>1, <1>4, <1>5, ExceptSeq
<1>7. ASSUME NEW n \in 1 .. Len(stack')
      PROVE  StandsFor(h, accNodes'[n], stack'[n].acc)
  BY <1>1, <1>3, <1>5, <1>6
<1> QED
  BY <1>1, <1>3, <1>6, <1>7 DEF StackFor

-----------------------------------------------------------------------------
(* What a visit returns.                                                   *)

LEMMA ReturnedStands ==
  ASSUME TypeOK, Tidy(heap), NEW r \in RuleIds, NEW i \in Index,
         NEW o \in Output, NEW nodes, StandsFor(heap, nodes, o),
         out' = Wrapped(r, i, o), Returned(r, o, nodes)
  PROVE  Wider(heap, heap') /\ StandsFor(heap', outNodes', out')
<1>1. CASE Wraps(r, o)
  <2> DEFINE type == lib.rules[r].name
             range == RangeBetween(popped, i, o.idx)
  <2>1. popped \in Nat /\ i \in Int /\ o.idx \in Int
    BY TextType DEF Output, Index, TypeOK
  <2>2. range \in Span
    BY <2>1, RangeBetweenType DEF TypeOK
  <2>3. type \in AnyName
    BY <1>1, RuleType DEF Wraps, AnyName, TypeOK
  <2>4. out' = Under(type, range, o)
    BY <1>1 DEF Wrapped
  <2>5. heap' = over(heap, type, out'.nodes[1].range, nodes)
        /\ outNodes' = <<Len(heap) + 1>>
    BY <1>1 DEF Returned
  <2> HIDE DEF type, range
  <2>6. out'.nodes[1].range = range
    BY <2>2, <2>3, <2>4, UnderRange
  <2>7. /\ Grows(heap, over(heap, type, range, nodes))
        /\ StandsFor(over(heap, type, range, nodes), <<Len(heap) + 1>>,
                     Under(type, range, o))
    BY <2>2, <2>3, UnderStands
  <2> QED
    BY <2>4, <2>5, <2>6, <2>7 DEF Wider
<1>2. CASE ~Wraps(r, o)
  BY <1>2 DEF Wrapped, Returned, Wider
<1> QED
  BY <1>1, <1>2

-----------------------------------------------------------------------------
(* The steps.                                                              *)

LEMMA NoNodes ==
  ASSUME NEW i
  PROVE  FAILURE.nodes = <<>> /\ ReachedAt(i).nodes = <<>>
BY DEF FAILURE, ReachedAt

(* What a frame is resumed with.                                           *)
LEMMA ResumedStands ==
  ASSUME TypeOK, TreeInv, ResumeStep
  PROVE  /\ pc = "return" /\ stack # <<>>
         /\ StandsFor(heap, outNodes, out)
         /\ StandsFor(heap, accNodes[Len(stack)], Top.acc)
         /\ StandsFor(heap, HeldNodes, Held)
         /\ StandsFor(heap, JoinedNodes, Joined)
<1>1. pc = "return" /\ stack # <<>>
  BY DEF ResumeStep, ResumeAlias, ResumeOptional, ResumeNot, ResumeAnyBut,
         ResumeOr, ResumeAnd, ResumeXOr, ResumeSequence, ResumeRepeat, Resumed
<1>2. StandsFor(heap, outNodes, out) /\ Tidy(heap)
  BY TreeInvNow
<1>3. StandsFor(heap, accNodes[Len(stack)], Top.acc)
  <2>1. Len(stack) \in 1 .. Len(stack)
    BY <1>1, TopType DEF TypeOK
  <2> QED
    BY <2>1, TreeInvNow DEF StackFor, Top
<1>4. StandsFor(heap, HeldNodes, Held)
  BY <1>2, <1>3 DEF HeldNodes, Held
<1>5. StandsFor(heap, JoinedNodes, Joined)
  <2>1. StandsFor(heap, accNodes[Len(stack)] \o outNodes, joinOutputs(Top.acc, out))
    BY <1>2, <1>3, JoinStands
  <2>2. CASE Top.turn = 1
    BY <1>2, <2>2 DEF JoinedNodes, Joined
  <2>3. CASE Top.turn # 1
    <3>1. JoinedNodes = accNodes[Len(stack)] \o outNodes
      BY <2>3, Zenon DEF JoinedNodes
    <3>2. Joined = joinOutputs(Top.acc, out)
      BY <2>3, Zenon DEF Joined
    <3> QED
      BY <2>1, <3>1, <3>2, Zenon
  <2> QED
    BY <2>2, <2>3
<1> QED
  BY <1>1, <1>2, <1>3, <1>4, <1>5

Gives(o) == o \in Output /\ (o.nodes # <<>> => StandsFor(heap, Passed, o))
Keeps(o) == o \in Output /\ StandsFor(heap, KeptNodes, o)

(* A frame completes with the nodes it passes on, or goes on with those    *)
(* it keeps.                                                               *)
LEMMA ResumeStands ==
  ASSUME TypeOK, TreeInv, ResumeStep
  PROVE  \/ \E o : Complete(o) /\ Gives(o)
         \/ \E kid, turn, o, i : Again(kid, turn, o, i) /\ Keeps(o)
<1>1. /\ pc = "return" /\ stack # <<>>
      /\ StandsFor(heap, outNodes, out)
      /\ StandsFor(heap, accNodes[Len(stack)], Top.acc)
      /\ StandsFor(heap, HeldNodes, Held)
      /\ StandsFor(heap, JoinedNodes, Joined)
      /\ StandsFor(heap, <<>>, FAILURE)
  BY ResumedStands, NoNodes, NoneStands
<1>2. /\ out \in Output /\ FAILURE \in Output /\ Held \in Output
      /\ Joined \in Output /\ Top.acc \in Output /\ ReachedAt(Top.at) \in Output
      /\ Present(Top.at) => ReachedAt(Top.at + 1) \in Output
  BY <1>1, ResumedType
<1>3. /\ Gives(FAILURE) /\ Gives(ReachedAt(Top.at))
      /\ Present(Top.at) => Gives(ReachedAt(Top.at + 1))
  BY <1>2, NoNodes DEF Gives
<1>4. CASE ResumeAlias
  <2>1. TopRule.kind = "Alias" /\ Complete(out)
    BY <1>4 DEF ResumeAlias, Resumed
  <2>2. Gives(out)
    BY <1>1, <1>2, <2>1 DEF Gives, Passed
  <2> QED
    BY <2>1, <2>2
<1>5. CASE ResumeOptional
  <2>1. TopRule.kind = "Optional"
        /\ Complete(IF Succeeds(out) THEN out ELSE ReachedAt(Top.at))
    BY <1>5 DEF ResumeOptional, Resumed
  <2>2. Gives(out)
    BY <1>1, <1>2, <2>1 DEF Gives, Passed
  <2> QED
    BY <1>3, <2>1, <2>2
<1>6. CASE ResumeNot \/ ResumeAnyBut
  BY <1>3, <1>6 DEF ResumeNot, ResumeAnyBut
<1>7. CASE ResumeOr
  <2>1. TopRule.kind = "Or"
    BY <1>7 DEF ResumeOr, Resumed
  <2>2. Gives(out)
    BY <1>1, <1>2, <2>1 DEF Gives, Passed
  <2>3. Keeps(FAILURE)
    BY <1>1, <1>2, <2>1 DEF Keeps, KeptNodes
  <2> QED
    BY <1>3, <1>7, <2>2, <2>3 DEF ResumeOr
<1>8. CASE ResumeAnd
  <2>1. TopRule.kind = "And"
    BY <1>8 DEF ResumeAnd, Resumed
  <2>2. Gives(Held)
    BY <1>1, <1>2, <2>1 DEF Gives, Passed
  <2>3. Keeps(Held)
    BY <1>1, <1>2, <2>1 DEF Keeps, KeptNodes
  <2> QED
    BY <1>3, <1>8, <2>2, <2>3 DEF ResumeAnd
<1>9. CASE ResumeXOr
  <2>1. TopRule.kind = "XOr"
    BY <1>9 DEF ResumeXOr, Resumed
  <2>2. Top.turn > 1 /\ Succeeds(out) => Gives(out)
    BY <1>1, <1>2, <2>1 DEF Gives, Passed
  <2>3. ~(Top.turn > 1 /\ Succeeds(out)) => Gives(Held)
    BY <1>1, <1>2, <2>1 DEF Gives, Passed
  <2>4. Keeps(Held)
    BY <1>1, <1>2, <2>1 DEF Keeps, KeptNodes
  <2> QED
    BY <1>3, <1>9, <2>2, <2>3, <2>4 DEF ResumeXOr
<1>10. CASE ResumeSequence
  <2>1. TopRule.kind = "Sequence"
    BY <1>10 DEF ResumeSequence, Resumed
  <2>2. Gives(Joined)
    BY <1>1, <1>2, <2>1 DEF Gives, Passed
  <2>3. Keeps(Joined)
    BY <1>1, <1>2, <2>1 DEF Keeps, KeptNodes
  <2> QED
    BY <1>3, <1>10, <2>2, <2>3 DEF ResumeSequence
<1>11. CASE ResumeRepeat
  <2>1. TopRule.kind = "Repeat"
    BY <1>11 DEF ResumeRepeat, Resumed
  <2>2. Gives(Top.acc)
    BY <1>1, <1>2, <2>1 DEF Gives, Passed
  <2>3. Keeps(Joined)
    BY <1>1, <1>2, <2>1 DEF Keeps, KeptNodes
  <2>4. CASE RepeatNeeded
    BY <1>3, <2>3, <2>4 DEF RepeatNeeded
  <2>5. CASE RepeatMore
    BY <1>3, <2>2, <2>3, <2>5 DEF RepeatMore
  <2> QED
    BY <1>11, <2>4, <2>5 DEF ResumeRepeat
<1>12. \/ ResumeAlias \/ ResumeOptional \/ ResumeNot \/ ResumeAnyBut
       \/ ResumeOr \/ ResumeAnd \/ ResumeXOr
       \/ ResumeSequence \/ ResumeRepeat
  BY Zenon DEF ResumeStep
<1> QED
  BY ONLY <1>4, <1>5, <1>6, <1>7, <1>8, <1>9, <1>10, <1>11, <1>12, Zenon

(* A rule returns: its nodes are remembered, a symbol clones them.         *)
LEMMA CompletingStep ==
  ASSUME TypeOK, TreeInv, Completing
  PROVE  TreeInv' /\ Wider(heap, heap')
<1> DEFINE record == <<Top.rule, Top.key>>
           nodes == IF history'[record].out.nodes = <<>> THEN <<>> ELSE Passed
<1>1. /\ ResumeStep /\ Len(stack') < Len(stack)
      /\ Memoised(record, nodes)
      /\ Returned(Top.rule, history'[record].out, nodes)
      /\ accNodes' = Seqs!Front(accNodes)
      /\ UNCHANGED bestNodes
  BY DEF Completing
<1>2. LibraryOK /\ StackOK /\ stack # <<>>
  BY <1>1, ResumeShape DEF TypeOK
<1>3. Len(stack) \in Nat /\ Top.rule \in RuleIds /\ Top.at \in Index
  BY <1>2, TopType
<1>4. PICK o : Complete(o) /\ Gives(o)
  <2>1. ASSUME NEW kid, NEW turn, NEW o, NEW i, Again(kid, turn, o, i)
        PROVE  FALSE
    <3>1. Len(stack') = Len(stack)
      BY <1>2, <2>1, AgainStack DEF Again
    <3> QED
      BY <1>1, <1>3, <3>1
  <2> QED
    BY <1>1, <2>1, ResumeStands
<1>5. /\ Remember(record, "Completed", o)
      /\ stack' = SubSeq(stack, 1, Len(stack) - 1)
      /\ out' = Wrapped(Top.rule, Top.at, o)
      /\ UNCHANGED best
  BY <1>4 DEF Complete, Return, LibraryUnchanged
<1>6. history'[record].out = o
  BY <1>5 DEF Remember
<1> HIDE DEF record
<1>7. /\ Tidy(heap)
      /\ BestFor(heap, bestNodes, best)
      /\ MemoFor(heap, memoNodes, history)
      /\ StackFor(heap, accNodes, stack)
  BY TreeInvNow
<1>8. StandsFor(heap, nodes, o)
  BY <1>4, <1>6, NoneStands DEF Gives
<1> HIDE DEF nodes
<1>9. Wider(heap, heap') /\ StandsFor(heap', outNodes', out')
  BY <1>1, <1>3, <1>4, <1>5, <1>6, <1>7, <1>8, ReturnedStands DEF Gives
<1>10. MemoFor(heap, memoNodes', history')
  BY <1>1, <1>5, <1>7, <1>8, MemoAdds
<1>11. StackFor(heap, accNodes', stack')
  BY <1>1, <1>2, <1>5, <1>7, StackPops DEF StackOK
<1> QED
  BY <1>1, <1>5, <1>7, <1>9, <1>10, <1>11,
     WiderTidy, BestWider, MemoWider, StackWider, TreeInvNext

(* A rule goes on to another child.                                        *)
LEMMA ContinuingStep ==
  ASSUME TypeOK, TreeInv, Continuing
  PROVE  TreeInv'
<1>1. /\ ResumeStep /\ Len(stack') = Len(stack)
      /\ accNodes' = [accNodes EXCEPT ![Len(stack)] = KeptNodes]
      /\ UNCHANGED <<heap, outNodes, bestNodes, memoNodes>>
  BY DEF Continuing
<1>2. LibraryOK /\ StackOK /\ stack # <<>>
  BY <1>1, ResumeShape DEF TypeOK
<1>3. PICK kid, turn, o, i : Again(kid, turn, o, i) /\ Keeps(o)
  <2>1. ASSUME NEW o, Complete(o)
        PROVE  FALSE
    <3>1. Len(stack') = Len(stack) - 1 /\ Len(stack) \in Nat
      BY <1>2, <2>1, WithoutLast DEF Complete, StackOK
    <3> QED
      BY <1>1, <3>1
  <2> QED
    BY <1>1, <2>1, ResumeStands
<1>4. UNCHANGED <<history, out, best>>
  BY <1>3 DEF Again, LibraryUnchanged
<1>5. /\ Tidy(heap)
      /\ StandsFor(heap, outNodes, out)
      /\ BestFor(heap, bestNodes, best)
      /\ MemoFor(heap, memoNodes, history)
      /\ StackFor(heap, accNodes, stack)
  BY TreeInvNow
<1>6. StackFor(heap, accNodes', stack')
  BY <1>1, <1>2, <1>3, <1>5, StackHolds DEF Keeps
<1> QED
  BY <1>1, <1>4, <1>5, <1>6, TreeInvNext

(* The memo answers, and a remembered match is cloned under a new node.    *)
LEMMA RecallingStep ==
  ASSUME TypeOK, TreeInv, Recalling
  PROVE  TreeInv' /\ Wider(heap, heap')
<1>1. /\ Remembered(Record)
      /\ out' = Wrapped(rule, at, history[Record].out)
      /\ Returned(rule, history[Record].out, memoNodes[Record])
      /\ UNCHANGED <<bestNodes, accNodes, memoNodes>>
      /\ UNCHANGED <<history, stack, best>>
  BY DEF Recalling, VisitCompleted, Return, LibraryUnchanged
<1>2. rule \in RuleIds /\ at \in Index
  BY DEF Recalling, VisitCompleted, TypeOK, ControlOK
<1>3. history[Record].out \in Output
  BY <1>1 DEF TypeOK, HistoryOK, HistoryRecord, Remembered
<1>4. /\ Tidy(heap)
      /\ BestFor(heap, bestNodes, best)
      /\ MemoFor(heap, memoNodes, history)
      /\ StackFor(heap, accNodes, stack)
  BY TreeInvNow
<1>5. StandsFor(heap, memoNodes[Record], history[Record].out)
  BY <1>1, <1>4 DEF MemoFor, Remembered
<1>6. Wider(heap, heap') /\ StandsFor(heap', outNodes', out')
  BY <1>1, <1>2, <1>3, <1>4, <1>5, ReturnedStands
<1> QED
  BY <1>1, <1>4, <1>6, WiderTidy, BestWider, MemoWider, StackWider, TreeInvNext

(* What a terminal, a cycle or a missing name gives has no nodes.          *)
LEMMA WithoutNodesStep ==
  ASSUME TypeOK, TreeInv, WithoutNodes
  PROVE  TreeInv'
<1>1. /\ VisitCycle \/ MissingAlias \/ TerminalStep
      /\ Memoised(Record, <<>>)
      /\ outNodes' = <<>>
      /\ UNCHANGED <<heap, bestNodes, accNodes>>
  BY DEF WithoutNodes
<1>2. \E o, state : /\ Remember(Record, state, o)
                    /\ o.nodes = <<>> /\ out'.nodes = <<>>
                    /\ UNCHANGED <<stack, best>>
  <2>1. ~Succeeds(FAILURE)
    BY DEF Succeeds, FAILURE, ReachedAt
  <2>2. \A r, i : Wrapped(r, i, FAILURE) = FAILURE
    BY <2>1 DEF Wrapped, Wraps
  <2>3. \A r, i, o : lib.rules[r].kind # "Alias" => Wrapped(r, i, o) = o
    BY DEF Wrapped, Wraps
  <2>4. CASE VisitCycle
    BY <2>2, <2>4, NoNodes DEF VisitCycle, Return, LibraryUnchanged
  <2>5. CASE MissingAlias
    BY <2>2, <2>5, NoNodes DEF MissingAlias, Answer, Return, LibraryUnchanged
  <2>6. CASE TerminalStep
    <3>1. lib.rules[rule].kind # "Alias"
      BY <2>6 DEF TerminalStep, AcceptAny, AcceptEnd, AcceptCharRange,
                  AcceptValues, Fresh
    <3>2. \E o : Answer(o) /\ o.nodes = <<>>
      BY <2>6, NoNodes DEF TerminalStep, AcceptAny, AcceptEnd, AcceptCharRange,
                           AcceptValues
    <3>3. PICK o : Answer(o) /\ o.nodes = <<>>
      BY <3>2
    <3> QED
      BY <2>3, <3>1, <3>3 DEF Answer, Return, LibraryUnchanged
  <2> QED
    BY <1>1, <2>4, <2>5, <2>6
<1>3. PICK o, state : /\ Remember(Record, state, o)
                      /\ o.nodes = <<>> /\ out'.nodes = <<>>
                      /\ UNCHANGED <<stack, best>>
  BY <1>2
<1>4. /\ Tidy(heap)
      /\ BestFor(heap, bestNodes, best)
      /\ MemoFor(heap, memoNodes, history)
      /\ StackFor(heap, accNodes, stack)
  BY TreeInvNow
<1>5. MemoFor(heap, memoNodes', history')
  BY <1>1, <1>3, <1>4, NoneStands, MemoAdds
<1>6. StandsFor(heap, outNodes', out')
  BY <1>1, <1>3, NoneStands
<1> QED
  BY <1>1, <1>3, <1>4, <1>5, <1>6, TreeInvNext

(* A rule waits for its first child.                                       *)
LEMMA DescendingStep ==
  ASSUME TypeOK, TreeInv, Descending
  PROVE  TreeInv'
<1> DEFINE frame == [rule |-> rule, at |-> at, key |-> KeyOf(at),
                     turn |-> 1, acc |-> FAILURE]
<1>1. /\ Remember(Record, "Processing", FAILURE)
      /\ stack' = Append(stack, frame)
      /\ UNCHANGED <<out, best>>
      /\ Memoised(Record, <<>>)
      /\ accNodes' = Append(accNodes, <<>>)
      /\ UNCHANGED <<heap, outNodes, bestNodes>>
      /\ pc = "visit"
  BY DEF Descending, Descend, Fresh, LibraryUnchanged
<1>2. frame \in Frame /\ frame.acc = FAILURE
  <2>1. rule \in RuleIds /\ at \in Index /\ KeyOf(at) \in Index
    BY <1>1, KeyOfType DEF TypeOK, ControlOK
  <2>2. FAILURE \in Output
    BY <2>1, ReachedAtType
  <2> QED
    BY <2>1, <2>2 DEF Frame
<1> HIDE DEF frame
<1>3. /\ Tidy(heap)
      /\ StandsFor(heap, outNodes, out)
      /\ BestFor(heap, bestNodes, best)
      /\ MemoFor(heap, memoNodes, history)
      /\ StackFor(heap, accNodes, stack)
  BY TreeInvNow
<1>4. MemoFor(heap, memoNodes', history')
  BY <1>1, <1>3, NoNodes, NoneStands, MemoAdds
<1>5. StackFor(heap, accNodes', stack')
  BY <1>1, <1>2, <1>3, StackPushes DEF TypeOK, StackOK
<1> QED
  BY <1>1, <1>3, <1>4, <1>5, TreeInvNext

(* The library loop keeps the nodes of the longest match,                  *)
LEMMA LoopStep ==
  ASSUME TypeOK, TreeInv, Trying \/ Taking
  PROVE  TreeInv'
<1>1. /\ Tidy(heap)
      /\ StandsFor(heap, outNodes, out)
      /\ BestFor(heap, bestNodes, best)
      /\ MemoFor(heap, memoNodes, history)
      /\ StackFor(heap, accNodes, stack)
  BY TreeInvNow
<1>2. CASE Trying
  <2>1. UNCHANGED nodeVars /\ UNCHANGED <<out, best, history, stack>>
    BY <1>2 DEF Trying, TrySymbol, LibraryUnchanged
  <2> QED
    BY <1>1, <2>1, TreeInvNext DEF nodeVars
<1>3. CASE Taking
  <2>1. /\ UNCHANGED <<heap, outNodes, accNodes, memoNodes>>
        /\ UNCHANGED <<out, history, stack>>
        /\ IF out.idx > best.idx THEN best' = out ELSE UNCHANGED best
        /\ bestNodes' = IF best' # best THEN outNodes ELSE bestNodes
    BY <1>3 DEF Taking, TakeResult
  <2>2. out.idx > best.idx => Succeeds(out)
    BY DEF TypeOK, ResultOK, Output, Index, Succeeds
  <2>3. BestFor(heap, bestNodes', best')
    BY <1>1, <2>1, <2>2 DEF BestFor
  <2> QED
    BY <1>1, <2>1, <2>3, TreeInvNext
<1> QED
  BY <1>2, <1>3

(* and clones them under the node of the winner.                           *)
LEMMA ReturningStep ==
  ASSUME TypeOK, TreeInv, Returning
  PROVE  TreeInv' /\ Wider(heap, heap')
<1>1. /\ Tidy(heap)
      /\ StandsFor(heap, bestNodes, best)
      /\ BestFor(heap, bestNodes, best)
      /\ MemoFor(heap, memoNodes, history)
      /\ StackFor(heap, accNodes, stack)
  BY TreeInvNow DEF BestFor
<1>2. UNCHANGED <<best, history, stack>>
      /\ UNCHANGED <<bestNodes, accNodes, memoNodes>>
  BY DEF Returning, Found, NothingFound, LibraryUnchanged
<1>3. CASE /\ Found
           /\ heap' = over(heap, winner, out'.nodes[1].range, bestNodes)
           /\ outNodes' = <<Len(heap) + 1>>
  <2> DEFINE polled == ReachBetween(0, best.idx)
             left   == popped + Lesser(best.idx, polled - popped)
             range  == RangeBetween(left, 0, best.idx)
  <2>1. /\ WindowTypeOK /\ best \in Output /\ winner \in AnyName
        /\ best.idx \in Nat
    BY <1>3 DEF Found, TypeOK, ResultOK, Output, Succeeds, Index
  <2>2. polled \in fetched .. Len(text)
    <3>1. 0 \in Index /\ best.idx \in Int
      BY <2>1 DEF Index
    <3> QED
      BY <2>1, <3>1, ReachBounds
  <2> HIDE DEF polled
  <2>3. left \in Nat
    BY <2>1, <2>2, TextType DEF Lesser
  <2>4. out' = Under(winner, range, best)
    BY <1>3 DEF Found, polled
  <2> HIDE DEF left
  <2>5. range \in Span
    BY <2>1, <2>3, RangeBetweenType
  <2> HIDE DEF range
  <2>6. heap' = over(heap, winner, range, bestNodes)
    BY <1>3, <2>1, <2>4, <2>5, UnderRange
  <2>7. Grows(heap, heap') /\ StandsFor(heap', outNodes', out')
    BY <1>1, <1>3, <2>1, <2>4, <2>5, <2>6, UnderStands
  <2>8. Wider(heap, heap')
    BY <2>7 DEF Wider
  <2> QED
    BY <1>1, <1>2, <2>7, <2>8, WiderTidy, BestWider, MemoWider, StackWider,
       TreeInvNext
<1>4. CASE NothingFound /\ outNodes' = <<>> /\ UNCHANGED heap
  <2>1. out' = best /\ best.nodes = <<>>
    BY <1>1, <1>4 DEF NothingFound, BestFor
  <2>2. StandsFor(heap', outNodes', out')
    BY <1>4, <2>1, NoneStands
  <2> QED
    BY <1>1, <1>2, <1>4, <2>2, TreeInvNext DEF Wider
<1> QED
  BY <1>3, <1>4 DEF Returning

(* Nothing has been made yet.                                              *)
LEMMA TreeInvInit ==
  ASSUME TreeInit
  PROVE  TreeInv
<1>1. /\ heap = <<>> /\ outNodes = <<>> /\ bestNodes = <<>>
      /\ accNodes = <<>> /\ memoNodes = <<>>
      /\ out = FAILURE /\ best = FAILURE /\ stack = <<>> /\ history = <<>>
  BY DEF TreeInit, Init, Begin
<1>2. Tidy(heap)
  BY <1>1 DEF Tidy, Heap
<1>3. StandsFor(heap, outNodes, out) /\ BestFor(heap, bestNodes, best)
  BY <1>1, NoNodes, NoneStands DEF BestFor
<1>4. MemoFor(heap, memoNodes, history)
  BY <1>1 DEF MemoFor
<1>5. StackFor(heap, accNodes, stack)
  BY <1>1 DEF StackFor
<1> QED
  BY <1>2, <1>3, <1>4, <1>5 DEF TreeInv, HeapFor

(* Every step keeps the invariant and all nodes there are.                 *)
LEMMA TreeInvStep ==
  ASSUME TypeOK, TreeInv, [TreeNext]_<<vars, nodeVars>>
  PROVE  TreeInv' /\ Wider(heap, heap')
<1>1. CASE Recalling \/ Completing \/ Returning
  BY <1>1, RecallingStep, CompletingStep, ReturningStep
<1>2. CASE WithoutNodes \/ Descending \/ Continuing \/ Trying \/ Taking
  <2>1. UNCHANGED heap
    BY <1>2 DEF WithoutNodes, Descending, Continuing, Trying, Taking, nodeVars
  <2> QED
    BY <1>2, <2>1, WithoutNodesStep, DescendingStep, ContinuingStep, LoopStep
    DEF Wider
<1>3. CASE UNCHANGED <<vars, nodeVars>>
  <2>1. UNCHANGED nodeVars /\ UNCHANGED <<out, best, history, stack>>
    BY <1>3 DEF vars, evalVars
  <2> QED
    BY <2>1, TreeInvNow, TreeInvNext DEF nodeVars, Wider
<1> QED
  BY <1>1, <1>2, <1>3 DEF TreeNext, TreeStep

-----------------------------------------------------------------------------
(* The theorems.                                                           *)

(* The evaluator with objects takes the steps of the evaluator with flat   *)
(* outputs: what is proved of SourceEvaluation holds of it too.            *)
THEOREM NodesChangeNothing == TreeSpec => Spec
<1>1. TreeInit => Init
  BY DEF TreeInit
<1>2. [TreeNext]_<<vars, nodeVars>> => [Next]_vars
  <2> SUFFICES ASSUME [TreeNext]_<<vars, nodeVars>>
               PROVE  [Next]_vars
    OBVIOUS
  <2>1. CASE Recalling \/ WithoutNodes \/ Descending
    BY <2>1 DEF Recalling, WithoutNodes, Descending, Next, Step, CacheStep
  <2>2. CASE Completing \/ Continuing
    BY <2>2 DEF Completing, Continuing, Next, Step
  <2>3. CASE Trying \/ Taking \/ Returning
    BY <2>3 DEF Trying, Taking, Returning, Next, Step, LibraryStep
  <2>4. CASE UNCHANGED <<vars, nodeVars>>
    BY <2>4
  <2> QED
    BY <2>1, <2>2, <2>3, <2>4 DEF TreeNext, TreeStep
<1> QED
  BY <1>1, <1>2, PTL DEF TreeSpec, Spec

LEMMA NodesStand == TreeSpec => []TreeInv
<1>1. TreeInit => TreeInv
  BY TreeInvInit
<1>2. TypeOK /\ TreeInv /\ [TreeNext]_<<vars, nodeVars>> => TreeInv'
  BY TreeInvStep
<1> QED
  BY <1>1, <1>2, NodesChangeNothing, TypeCorrect, PTL DEF TreeSpec

(* Wherever an output is kept, its node objects are what the flat output   *)
(* says they are, whatever the library and the text: a node that was       *)
(* given a parent later was a clone of it.                                 *)
THEOREM NodesRepresent == TreeSpec => []Represents
<1>1. TypeOK /\ TreeInv => Represents
  <2> SUFFICES ASSUME TypeOK, TreeInv
               PROVE  Represents
    OBVIOUS
  <2>1. Flat(outNodes) = out.nodes /\ Flat(bestNodes) = best.nodes
    BY TreeInvNow DEF BestFor, StandsFor, Flat
  <2>2. /\ DOMAIN memoNodes = DOMAIN history
        /\ \A k \in DOMAIN history : Flat(memoNodes[k]) = history[k].out.nodes
    BY TreeInvNow DEF MemoFor, StandsFor, Flat
  <2>3. DOMAIN accNodes = 1 .. Len(stack) /\ DOMAIN stack = 1 .. Len(stack)
    BY TreeInvNow, LenProperties DEF StackFor, TypeOK, StackOK
  <2>4. \A n \in DOMAIN stack : Flat(accNodes[n]) = stack[n].acc.nodes
    BY <2>3, TreeInvNow DEF StackFor, StandsFor, Flat
  <2> QED
    BY <2>1, <2>2, <2>3, <2>4 DEF Represents
<1> QED
  BY <1>1, NodesChangeNothing, TypeCorrect, NodesStand, PTL

(* The nodes an output holds have no parent.                               *)
LEMMA KeptAreRoots ==
  ASSUME TreeInv, NEW n \in Kept
  PROVE  n \in Roots(heap)
<1>1. PICK nodes : /\ nodes \in {outNodes, bestNodes}
                                   \cup Seqs!ToSet(accNodes)
                                   \cup {memoNodes[k] : k \in DOMAIN memoNodes}
                   /\ n \in Seqs!ToSet(nodes)
  BY DEF Kept
<1>2. nodes \in Seq(Roots(heap))
  <2>1. CASE nodes \in {outNodes, bestNodes}
    BY <2>1, TreeInvNow DEF BestFor, StandsFor
  <2>2. CASE nodes \in Seqs!ToSet(accNodes)
    <3>1. PICK m \in 1 .. Len(accNodes) : nodes = accNodes[m]
      BY <2>2, TreeInvNow, LenProperties DEF Seqs!ToSet, StackFor
    <3>2. m \in 1 .. Len(stack)
      BY <3>1, TreeInvNow DEF StackFor
    <3> QED
      BY <3>1, <3>2, TreeInvNow DEF StackFor, StandsFor
  <2>3. CASE nodes \in {memoNodes[k] : k \in DOMAIN memoNodes}
    BY <2>3, TreeInvNow DEF MemoFor, StandsFor
  <2> QED
    BY <1>1, <2>1, <2>2, <2>3
<1>3. PICK m \in DOMAIN nodes : n = nodes[m]
  BY <1>1 DEF Seqs!ToSet
<1> QED
  BY <1>2, <1>3, LenProperties, ElementOfSeq

(* Whatever is done with an output, its nodes stay as they were made:      *)
(* only nodes that no output holds yet are given a parent or children.     *)
THEOREM NodesAreFinal == TreeSpec => NodesStay
<1>1. TypeOK /\ TreeInv /\ [TreeNext]_<<vars, nodeVars>>
        => [\A n \in DOMAIN heap : n \in DOMAIN heap' /\ heap'[n] = heap[n]
           ]_<<vars, nodeVars>>
  <2> SUFFICES ASSUME TypeOK, TreeInv, [TreeNext]_<<vars, nodeVars>>,
                      NEW n \in DOMAIN heap
               PROVE  n \in DOMAIN heap' /\ heap'[n] = heap[n]
    OBVIOUS
  <2>1. Tidy(heap) /\ Tidy(heap') /\ Wider(heap, heap')
    BY TreeInvStep, TreeInvNow DEF TreeInv, HeapFor
  <2>2. CASE Grows(heap, heap')
    BY <2>1, <2>2, GrowingKeeps
  <2> QED
    BY <2>1, <2>2 DEF Wider
<1> QED
  BY <1>1, NodesChangeNothing, TypeCorrect, NodesStand, PTL
  DEF TreeSpec, NodesStay

(* The nodes below a match are a tree, whatever the library and the text:  *)
(* no node has two parents or two places below one, and a node that an     *)
(* output holds is still free to be cloned under another.                  *)
THEOREM NodesAreTrees == TreeSpec => []Trees
<1>1. TreeInv => Trees
  <2> SUFFICES ASSUME TreeInv
               PROVE  Trees
    OBVIOUS
  <2>1. Tidy(heap)
    BY TreeInvNow
  <2>2. \A p \in DOMAIN heap : \A n \in DOMAIN heap[p].children :
          heap[heap[p].children[n]].parent = p
    BY <2>1 DEF Tidy
  <2>3. ASSUME NEW p \in DOMAIN heap, NEW q \in DOMAIN heap,
               NEW m \in DOMAIN heap[p].children,
               NEW n \in DOMAIN heap[q].children,
               heap[p].children[m] = heap[q].children[n]
        PROVE  p = q /\ m = n
    <3>1. p = q
      BY <2>2, <2>3
    <3>2. DOMAIN heap[p].children = 1 .. Len(heap[p].children)
          /\ \A k \in DOMAIN heap[p].children : heap[p].children[k] \in Nat
          /\ Len(heap[p].children) \in Nat
      <4>1. heap \in Heap /\ heap[p].children \in Seq(Nat)
        BY <2>1, HeapType DEF Tidy
      <4> QED
        BY <4>1, LenProperties, ElementOfSeq
    <3>3. \A j, k \in DOMAIN heap[p].children :
            j < k => heap[p].children[j] < heap[p].children[k]
      BY <2>1 DEF Tidy
    <3> DEFINE c == heap[p].children
    <3>4. c[m] = c[n] /\ m \in 1 .. Len(c) /\ n \in 1 .. Len(c)
      BY <2>3, <3>1, <3>2
    <3>5. ~(m < n) /\ ~(n < m)
      <4>1. \A i, j \in 1 .. Len(c) : i < j => c[i] < c[j] /\ c[i] \in Nat
        BY <3>2, <3>3
      <4> HIDE DEF c
      <4> QED
        BY <3>4, <4>1
    <3> QED
      BY <3>1, <3>2, <3>4, <3>5
  <2>4. \A n \in Kept : heap[n].parent = NoParent
    BY KeptAreRoots DEF Roots
  <2> QED
    BY <2>2, <2>3, <2>4 DEF Trees
<1> QED
  BY <1>1, NodesStand, PTL

=============================================================================
