---------------------------- MODULE ConsoleProofs ----------------------------
(***************************************************************************)
(* Whatever the standard input holds, however it ends and whenever the     *)
(* supplier is cleared: the position is one of the line or one behind it,  *)
(* a clear drops the rest of the current line and no other line, and the   *)
(* console is a source of characters (CharSource), but for a torn last     *)
(* line.                                                                   *)
(***************************************************************************)
EXTENDS ConsoleCharSupplier, SequenceTheorems, WellFoundedInduction, TLAPS

(* A stream that has met its end has no line left.                         *)
Spent == ~good => stdin = <<>>

ConsoleInv == TypeOK /\ Spent

-----------------------------------------------------------------------------
LEMMA StartsOK == Init => ConsoleInv
<1> SUFFICES ASSUME Init
             PROVE  TypeOK /\ Spent
  BY DEF ConsoleInv
<1>1. stdin \in Seq(Seq(Nat))
  BY InputsAssumption DEF Init
<1>2. line = <<>> /\ size = -1 /\ pos = 0 /\ given = <<>>
  BY DEF Init
<1>3. {torn, good, inputComplete} \subseteq BOOLEAN
  BY DEF Init
<1> QED
  BY <1>1, <1>2, <1>3 DEF TypeOK, Spent, end, Init

(* A line is read whole and from its beginning, or the current one goes on.*)
LEMMA NextLineOK ==
  ASSUME ConsoleInv, NextLine
  PROVE  /\ line' \in Seq(Nat)
         /\ stdin' \in Seq(Seq(Nat))
         /\ good' \in BOOLEAN
         /\ ~good' => stdin' = <<>>
         /\ size' = Len(line') /\ size' \in Nat
         /\ From \in 0 .. size'
<1> USE DEF ConsoleInv, TypeOK, Spent
<1>0. good \in BOOLEAN /\ torn \in BOOLEAN
  OBVIOUS
<1>1. CASE NeedsLine
  <2>1. Getline \in Seq(Nat)
    <3>1. CASE good /\ stdin # <<>>
      <4>1. Head(stdin) \in Seq(Nat)
        BY <3>1
      <4> QED
        BY <3>1, <4>1 DEF Getline
    <3>2. CASE ~good
      BY <3>2 DEF Getline
    <3>3. CASE good /\ stdin = <<>>
      BY <3>3 DEF Getline
    <3> QED
      BY <3>1, <3>2, <3>3
  <2>2. line' \in Seq(Nat) /\ size' = Len(line') /\ good' = StillGood
    BY <1>1, <2>1 DEF NextLine
  <2>3. size' \in Nat /\ From = 0
    BY <1>1, <2>2 DEF From
  <2>4. stdin' = IF good /\ stdin # <<>> THEN Tail(stdin) ELSE stdin
    BY <1>1 DEF NextLine
  <2>5. stdin' \in Seq(Seq(Nat))
    BY <2>4
  <2>6. ASSUME ~good' PROVE stdin' = <<>>
    <3>1. CASE good /\ stdin # <<>>
      <4>1. ~(Len(stdin) > 1)
        BY <2>2, <2>6, <3>1 DEF StillGood
      <4>2. Tail(stdin) = <<>>
        BY <3>1, <4>1
      <4> QED
        BY <2>4, <3>1, <4>2
    <3>2. CASE ~(good /\ stdin # <<>>)
      BY <2>4, <3>2
    <3> QED
      BY <3>1, <3>2
  <2>7. good' \in BOOLEAN
    BY <2>2, <1>0 DEF StillGood
  <2> QED
    BY <2>2, <2>3, <2>5, <2>6, <2>7
<1>2. CASE ~NeedsLine
  <2>1. /\ line' = line /\ size' = size /\ good' = good /\ stdin' = stdin
    BY <1>2 DEF NextLine
  <2>2. pos \in Int /\ size \in Int /\ Len(line) \in Nat
    OBVIOUS
  <2>3. pos <= size /\ 0 <= pos /\ From = pos
    BY <1>2, <2>2 DEF NeedsLine, From
  <2>4. size = Len(line)
    BY <2>2, <2>3
  <2> QED
    BY <2>1, <2>2, <2>3, <2>4, <1>0
<1> QED
  BY <1>1, <1>2

LEMMA SupplyOK == ConsoleInv /\ Supply => ConsoleInv'
<1> SUFFICES ASSUME ConsoleInv, Supply
             PROVE  ConsoleInv'
  OBVIOUS
<1>1. /\ line' \in Seq(Nat) /\ stdin' \in Seq(Seq(Nat))
      /\ good' \in BOOLEAN /\ (~good' => stdin' = <<>>)
      /\ size' = Len(line') /\ size' \in Nat /\ From \in 0 .. size'
  BY NextLineOK DEF Supply
<1>2. given \in Seq(Nat) /\ torn' \in BOOLEAN
  BY DEF ConsoleInv, TypeOK, Supply
<1>3. CASE line' = end
  <2>1. pos' = From /\ given' = given /\ inputComplete' = TRUE
    BY <1>3 DEF Supply
  <2> QED
    BY <1>1, <1>2, <2>1 DEF ConsoleInv, TypeOK, Spent
<1>4. CASE line' # end
  <2>1. /\ pos' = From + 1 /\ inputComplete' = inputComplete
        /\ given' = Append(given, IF From < size' THEN line'[From + 1]
                                                  ELSE NewLine)
    BY <1>4 DEF Supply
  <2>2. From < size' => line'[From + 1] \in Nat
    BY <1>1
  <2>3. given' \in Seq(Nat)
    BY <1>2, <2>1, <2>2 DEF NewLine
  <2>4. inputComplete' \in BOOLEAN
    BY <2>1 DEF ConsoleInv, TypeOK
  <2>5. pos' \in 0 .. size' + 1
    BY <1>1, <2>1
  <2> QED
    BY <1>1, <1>2, <2>3, <2>4, <2>5 DEF ConsoleInv, TypeOK, Spent
<1> QED
  BY <1>3, <1>4

LEMMA ConsoleStep == ConsoleInv /\ [Next]_consoleVars => ConsoleInv'
<1> SUFFICES ASSUME ConsoleInv, [Next]_consoleVars
             PROVE  ConsoleInv'
  OBVIOUS
<1>1. CASE Supply
  BY <1>1, SupplyOK
<1>2. CASE SupplyEOF \/ UNCHANGED consoleVars
  BY <1>2 DEF SupplyEOF, consoleVars, ConsoleInv, TypeOK, Spent
<1>3. CASE clear
  <2>1. line' = <<>> /\ size' = -1 /\ pos' = 0 /\ given' = <<>>
    BY <1>3 DEF clear
  <2>2. inputComplete' = FALSE /\ UNCHANGED <<stdin, torn, good>>
    BY <1>3 DEF clear
  <2>3. stdin' \in Seq(Seq(Nat)) /\ Spent'
    BY <2>2 DEF ConsoleInv, TypeOK, Spent
  <2>4. {torn, good, inputComplete}' \subseteq BOOLEAN
    BY <2>2 DEF ConsoleInv, TypeOK
  <2>5. <<>> \in Seq(Nat) /\ 0 \in 0 .. (-1) + 1
    OBVIOUS
  <2> QED
    BY <2>1, <2>3, <2>4, <2>5 DEF ConsoleInv, TypeOK, end
<1> QED
  BY <1>1, <1>2, <1>3 DEF Next

(* Every variable keeps its type, the position is in the line or one       *)
(* behind it (line.at never throws), and the size is that of the line but  *)
(* for an empty one that stands for none (ConsoleCharSupplier.h).          *)
THEOREM ConsoleTypeCorrect == Spec => []TypeOK
<1>1. ConsoleInv => TypeOK
  BY DEF ConsoleInv
<1> QED
  BY StartsOK, ConsoleStep, <1>1, PTL DEF Spec

-----------------------------------------------------------------------------
(* No lines supply nothing.                                                *)
LEMMA NoLines == BlockOf(<<>>) = <<>>
<1> DEFINE none == [n \in 1 .. 0 |-> Append(<<>>[n], NewLine)]
<1>1. Len(<<>>) = 0 /\ DOMAIN <<>> = {}
  OBVIOUS
<1>2. BlockOf(<<>>) = FlattenSeq(none)
  BY <1>1 DEF BlockOf
<1>3. none = <<>>
  OBVIOUS
<1>4. FlattenSeq(<<>>) = <<>>
  BY <1>1 DEF FlattenSeq
<1> QED
  BY <1>2, <1>3, <1>4

LEMMA ClearStep ==
  ASSUME ConsoleInv, Next, given # <<>>, given' = <<>>
  PROVE  Coming' = (IF good THEN BlockOf(stdin) ELSE <<>>)
<1>1. ~Supply
  <2>1. given \in Seq(Nat)
    BY DEF ConsoleInv, TypeOK
  <2>2. SUFFICES ASSUME Supply PROVE FALSE
    OBVIOUS
  <2>3. given' = given \/ \E c : given' = Append(given, c)
    BY <2>2 DEF Supply
  <2> QED
    BY <2>1, <2>3
<1>2. ~SupplyEOF
  BY DEF SupplyEOF, consoleVars
<1>3. clear
  BY <1>1, <1>2 DEF Next
<1>4. Coming' = BlockOf(stdin)
  <2>1. ~inputComplete' /\ pos' = 0 /\ size' = -1 /\ stdin' = stdin
    BY <1>3 DEF clear
  <2>2. NeedsLine'
    BY <2>1 DEF NeedsLine
  <2>3. BlockOf(stdin)' = BlockOf(stdin)
    BY <2>1 DEF BlockOf
  <2> QED
    BY <2>1, <2>2, <2>3 DEF Coming
<1>5. ~good => BlockOf(stdin) = <<>>
  BY NoLines DEF ConsoleInv, Spent
<1> QED
  BY <1>4, <1>5

(* A clear drops what is left of the line the console is at; all lines     *)
(* behind it are still to come, and nothing comes twice.                   *)
THEOREM ClearDropsOneLine == Spec => ClearDropsLine
<1>1. ConsoleInv /\ [Next]_consoleVars =>
        [given # <<>> /\ given' = <<>> =>
           Coming' = (IF good THEN BlockOf(stdin) ELSE <<>>)]_consoleVars
  BY ClearStep
<1> QED
  BY StartsOK, ConsoleStep, <1>1, PTL DEF Spec, ClearDropsLine

-----------------------------------------------------------------------------
(* A set of numbers has a least one, unless it is empty.                   *)
LEMMA Least ==
  ASSUME NEW T, T \subseteq Nat, T # {}
  PROVE  \E n \in T : \A m \in T : n <= m
<1>1. PICK R : R = {ss \in Nat \X Nat : ss[1] < ss[2]}
  OBVIOUS
<1>2. R = OpToRel(<, Nat)
  BY <1>1 DEF OpToRel
<1>3. IsWellFoundedOn(R, Nat)
  BY <1>2, NatLessThanWellFounded
<1>4. PICK x \in T : \A y \in T : ~ (<<y, x>> \in R)
  BY <1>3, WFMin
<1>5. \A y \in T : y < x => <<y, x>> \in R
  BY <1>1
<1>6. \A y \in T : ~(y < x)
  BY <1>4, <1>5, Zenon
<1> QED
  BY <1>6

(* Induction, for a set instead of a formula: what has 0, and n + 1        *)
(* whenever it has n, has every number.                                    *)
LEMMA Counting ==
  ASSUME NEW S, 0 \in S, \A n \in Nat : n \in S => n + 1 \in S
  PROVE  Nat \subseteq S
<1> DEFINE T == {n \in Nat : n \notin S}
<1> SUFFICES ASSUME T # {} PROVE FALSE
  OBVIOUS
<1>1. PICK n \in T : \A m \in T : n <= m
  BY Least
<1>2. n # 0 /\ n \in Nat
  OBVIOUS
<1>3. n - 1 \in Nat /\ n - 1 \notin T /\ n - 1 + 1 = n
  BY <1>1, <1>2
<1> QED
  BY <1>2, <1>3

(* F has what the first 1, 2, 3 ... of n sequences are together.           *)
IsFlat(F, s, n) ==
  F = [i \in 1 .. n |-> IF i = 1 THEN s[i] ELSE F[i-1] \o s[i]]

(* The function that FlattenSeq chooses exists: each of its values is      *)
(* defined from the one before it.                                         *)
LEMMA FlatExists ==
  ASSUME NEW s, NEW n \in Nat
  PROVE  \E F : IsFlat(F, s, n)
<1> DEFINE S == {m \in Nat : \E F : IsFlat(F, s, m)}
<1>1. 0 \in S
  <2> DEFINE F == [i \in 1 .. 0 |-> s[i]]
  <2>1. F = [i \in 1 .. 0 |-> IF i = 1 THEN s[i] ELSE F[i-1] \o s[i]]
    OBVIOUS
  <2>2. IsFlat(F, s, 0)
    BY <2>1 DEF IsFlat
  <2> QED
    BY <2>2
<1>2. ASSUME NEW m \in Nat, m \in S PROVE m + 1 \in S
  <2>1. PICK F : IsFlat(F, s, m)
    BY <1>2
  <2>2. F = [i \in 1 .. m |-> IF i = 1 THEN s[i] ELSE F[i-1] \o s[i]]
    BY <2>1 DEF IsFlat
  <2> DEFINE G == [i \in 1 .. m + 1 |-> IF i = 1 THEN s[i] ELSE F[i-1] \o s[i]]
  <2>3. \A i \in 1 .. m : G[i] = F[i]
    <3>1. \A i \in 1 .. m : F[i] = IF i = 1 THEN s[i] ELSE F[i-1] \o s[i]
      BY <2>2
    <3> QED
      BY <3>1
  <2>4. G = [i \in 1 .. m + 1 |-> IF i = 1 THEN s[i] ELSE G[i-1] \o s[i]]
    <3>1. \A i \in 1 .. m + 1 : i # 1 => F[i-1] = G[i-1]
      <4>1. \A i \in 1 .. m + 1 : i # 1 => i - 1 \in 1 .. m
        OBVIOUS
      <4> QED
        BY <2>3, <4>1, Zenon
    <3>2. \A i \in 1 .. m + 1 : G[i] = IF i = 1 THEN s[i] ELSE F[i-1] \o s[i]
      OBVIOUS
    <3>3. \A i \in 1 .. m + 1 :
            (IF i = 1 THEN s[i] ELSE F[i-1] \o s[i])
              = (IF i = 1 THEN s[i] ELSE G[i-1] \o s[i])
      BY <3>1
    <3> QED
      BY <3>3
  <2> HIDE DEF G
  <2>5. IsFlat(G, s, m + 1)
    BY <2>4 DEF IsFlat
  <2> QED
    BY <2>5
<1> HIDE DEF S
<1>3. n \in S
  BY <1>1, <1>2, Counting
<1> QED
  BY <1>3 DEF S

(* So FlattenSeq is its last value.                                        *)
LEMMA FlattenIs ==
  ASSUME NEW s, Len(s) \in Nat, Len(s) # 0
  PROVE  \E F : IsFlat(F, s, Len(s)) /\ FlattenSeq(s) = F[Len(s)]
<1> DEFINE F == CHOOSE G : G = [i \in 1 .. Len(s) |->
                                  IF i = 1 THEN s[i] ELSE G[i-1] \o s[i]]
<1>1. \E G : G = [i \in 1 .. Len(s) |-> IF i = 1 THEN s[i] ELSE G[i-1] \o s[i]]
  BY FlatExists DEF IsFlat
<1>2. F = [i \in 1 .. Len(s) |-> IF i = 1 THEN s[i] ELSE F[i-1] \o s[i]]
  BY <1>1
<1>3. FlattenSeq(s) = F[Len(s)]
  BY DEF FlattenSeq
<1> HIDE DEF F
<1> QED
  BY <1>2, <1>3 DEF IsFlat

(* Sequences over S are together one over S.                               *)
LEMMA FlatType ==
  ASSUME NEW S, NEW s \in Seq(Seq(S)), NEW F, IsFlat(F, s, Len(s))
  PROVE  \A i \in 1 .. Len(s) : F[i] \in Seq(S)
<1> DEFINE T == {m \in Nat : m \in 1 .. Len(s) => F[m] \in Seq(S)}
<1>0. \A i \in 1 .. Len(s) : F[i] = IF i = 1 THEN s[i] ELSE F[i-1] \o s[i]
  BY DEF IsFlat
<1>1. 0 \in T
  OBVIOUS
<1>2. ASSUME NEW m \in Nat, m \in T PROVE m + 1 \in T
  <2> SUFFICES ASSUME m + 1 \in 1 .. Len(s) PROVE F[m + 1] \in Seq(S)
    OBVIOUS
  <2>1. s[m + 1] \in Seq(S)
    BY ElementOfSeq
  <2>2. CASE m = 0
    BY <1>0, <2>1, <2>2
  <2>3. CASE m # 0
    <3>1. m \in 1 .. Len(s) /\ m + 1 - 1 = m
      BY <2>3
    <3>2. F[m] \in Seq(S)
      BY <1>2, <3>1
    <3>3. F[m + 1] = F[m] \o s[m + 1]
      <4>1. PICK k : k = m + 1 /\ k \in 1 .. Len(s) /\ k # 1 /\ k - 1 = m
        BY <3>1
      <4>2. F[k] = F[k - 1] \o s[k]
        BY <1>0, <4>1, Zenon
      <4> QED
        BY <4>1, <4>2, Zenon
    <3> QED
      BY <2>1, <3>2, <3>3, ConcatProperties, Zenon
  <2> QED
    BY <2>2, <2>3
<1> HIDE DEF T
<1>3. Nat \subseteq T
  BY <1>1, <1>2, Counting
<1> QED
  BY <1>3 DEF T

(* The provers take sequences apart when they meet \o; under a name of its *)
(* own they leave them whole.                                              *)
Joined(x, y) == x \o y

LEMMA Regroup ==
  \A S : \A x, y, z \in Seq(S) :
    Joined(Joined(x, y), z) = Joined(x, Joined(y, z))
BY ConcatAssociative DEF Joined

(* The first sequence comes first, and the others follow it.               *)
LEMMA FlattenFirst ==
  ASSUME NEW S, NEW a \in Seq(S), NEW t \in Seq(Seq(S)), NEW s \in Seq(Seq(S)),
         Len(s) = Len(t) + 1, s[1] = a, \A i \in 1 .. Len(t) : s[i + 1] = t[i]
  PROVE  FlattenSeq(s) = a \o FlattenSeq(t)
<1>0. Len(t) \in Nat
  OBVIOUS
<1>1. PICK F : IsFlat(F, s, Len(s)) /\ FlattenSeq(s) = F[Len(s)]
  BY <1>0, FlattenIs
<1>2. \A i \in 1 .. Len(s) : F[i] = IF i = 1 THEN s[i] ELSE F[i-1] \o s[i]
  BY <1>1 DEF IsFlat
<1>3. CASE Len(t) = 0
  <2>1. FlattenSeq(s) = a
    BY <1>1, <1>2, <1>3
  <2>2. t = <<>> /\ FlattenSeq(t) = t
    BY <1>3 DEF FlattenSeq
  <2> QED
    BY <2>1, <2>2, ConcatEmptySeq
<1>4. CASE Len(t) # 0
  <2>1. PICK G : IsFlat(G, t, Len(t)) /\ FlattenSeq(t) = G[Len(t)]
    BY <1>0, <1>4, FlattenIs
  <2>2. \A i \in 1 .. Len(t) : G[i] = IF i = 1 THEN t[i] ELSE G[i-1] \o t[i]
    BY <2>1 DEF IsFlat
  <2>3. \A i \in 1 .. Len(t) : G[i] \in Seq(S) /\ t[i] \in Seq(S)
    BY <2>1, FlatType, ElementOfSeq
  <2> DEFINE T == {m \in Nat : m \in 1 .. Len(t) => F[m + 1] = a \o G[m]}
  <2>4. 0 \in T
    OBVIOUS
  <2>5. ASSUME NEW m \in Nat, m \in T PROVE m + 1 \in T
    <3> SUFFICES ASSUME m + 1 \in 1 .. Len(t)
                 PROVE  F[m + 1 + 1] = a \o G[m + 1]
      OBVIOUS
    <3>1. m + 1 + 1 \in 1 .. Len(s) /\ m + 1 + 1 # 1 /\ m + 1 + 1 - 1 = m + 1
      BY <1>0
    <3>2. F[m + 1 + 1] = F[m + 1] \o t[m + 1]
      <4>0. PICK k : k = m + 1 + 1
        OBVIOUS
      <4>1. k \in 1 .. Len(s) /\ k # 1 /\ k - 1 = m + 1
        BY <1>0, <4>0
      <4>2. F[k] = F[k - 1] \o s[k]
        BY <1>2, <4>1, Zenon
      <4>3. s[k] = t[m + 1]
        BY <4>0
      <4> QED
        BY <4>0, <4>1, <4>2, <4>3, Zenon
    <3>5. m = 0 => F[m + 1] = a /\ G[m + 1] = t[m + 1]
      BY <1>0, <1>2, <2>2
    <3>3. CASE m = 0
      BY <3>2, <3>3, <3>5, Zenon
    <3>4. CASE m # 0
      <4>1. m \in 1 .. Len(t) /\ m + 1 # 1 /\ m + 1 - 1 = m
        BY <1>0, <3>4
      <4>2. F[m + 1] = a \o G[m]
        BY <2>5, <4>1
      <4>3. G[m + 1] = G[m] \o t[m + 1]
        <5>1. PICK k : k = m + 1 /\ k \in 1 .. Len(t) /\ k # 1 /\ k - 1 = m
          BY <4>1
        <5>2. G[k] = G[k - 1] \o t[k]
          BY <2>2, <5>1, Zenon
        <5> QED
          BY <5>1, <5>2, Zenon
      <4>4. PICK g, u : g = G[m] /\ u = t[m + 1]
        OBVIOUS
      <4>5. g \in Seq(S) /\ u \in Seq(S)
        BY <2>3, <4>1, <4>4
      <4> HIDE DEF T
      <4>6. Joined(Joined(a, g), u) = Joined(a, Joined(g, u))
        BY <4>5, Regroup
      <4>7. (a \o g) \o u = a \o (g \o u)
        BY <4>6, Zenon DEF Joined
      <4> QED
        BY <3>2, <4>2, <4>3, <4>4, <4>7, Zenon
    <3> QED
      BY <3>3, <3>4
  <2> HIDE DEF T
  <2>6. Len(t) \in T
    BY <1>0, <2>4, <2>5, Counting
  <2>7. F[Len(t) + 1] = a \o G[Len(t)]
    BY <1>0, <1>4, <2>6 DEF T
  <2> QED
    BY <1>1, <2>1, <2>7
<1> QED
  BY <1>3, <1>4

(* FlattenSeq of sequences over S is a sequence over S.                    *)
LEMMA FlattenType ==
  ASSUME NEW S, NEW s \in Seq(Seq(S))
  PROVE  FlattenSeq(s) \in Seq(S)
<1>1. CASE s = <<>>
  BY <1>1 DEF FlattenSeq
<1>2. CASE s # <<>>
  <2>1. Len(s) \in Nat /\ Len(s) # 0
    BY <1>2
  <2>2. PICK F : IsFlat(F, s, Len(s)) /\ FlattenSeq(s) = F[Len(s)]
    BY <2>1, FlattenIs
  <2> QED
    BY <2>1, <2>2, FlatType
<1> QED
  BY <1>1, <1>2

-----------------------------------------------------------------------------
(* u is how many of the lines stand before the end of input.               *)
Before(lines, u) == /\ u \in 0 .. Len(lines)
                    /\ \A n \in 1 .. u : lines[n] # end
                    /\ u # Len(lines) => lines[u + 1] = end

(* What lines supply is what those before the first empty one hold.        *)
LEMMA BlockIs ==
  ASSUME NEW lines \in Seq(Seq(Nat))
  PROVE  \E u : /\ Before(lines, u)
                /\ BlockOf(lines)
                     = FlattenSeq([n \in 1 .. u |-> Append(lines[n], NewLine)])
<1> DEFINE ends == {n \in DOMAIN lines : lines[n] = end}
           upto == IF ends = {} THEN Len(lines) ELSE Min(ends) - 1
<1>1. Len(lines) \in Nat /\ DOMAIN lines = 1 .. Len(lines)
  OBVIOUS
<1>2. BlockOf(lines)
        = FlattenSeq([n \in 1 .. upto |-> Append(lines[n], NewLine)])
  BY DEF BlockOf
<1>3. CASE ends = {}
  <2>1. upto = Len(lines) /\ \A n \in 1 .. Len(lines) : lines[n] # end
    BY <1>1, <1>3
  <2>2. Before(lines, Len(lines))
    BY <1>1, <2>1 DEF Before
  <2>3. BlockOf(lines)
          = FlattenSeq([n \in 1 .. Len(lines) |-> Append(lines[n], NewLine)])
    BY <1>2, <2>1
  <2> QED
    BY <2>2, <2>3
<1>4. CASE ends # {}
  <2>1. ends \subseteq Nat
    BY <1>1
  <2>2. \E x \in ends : \A y \in ends : x <= y
    BY <1>4, <2>1, Least
  <2>3. Min(ends) \in ends /\ \A y \in ends : Min(ends) <= y
    BY <2>2 DEF Min
  <2>4. PICK m : m = Min(ends)
    OBVIOUS
  <2>5. m \in 1 .. Len(lines) /\ lines[m] = end /\ upto = m - 1
    BY <1>1, <1>4, <2>3, <2>4
  <2>6. ASSUME NEW n \in 1 .. m - 1 PROVE lines[n] # end
    <3>1. n \in 1 .. Len(lines) /\ ~(m <= n)
      BY <1>1, <2>5
    <3> QED
      BY <1>1, <2>3, <2>4, <3>1
  <2>7. m - 1 \in 0 .. Len(lines) /\ m - 1 + 1 = m
    BY <1>1, <2>5
  <2>8. Before(lines, m - 1)
    BY <2>5, <2>6, <2>7 DEF Before
  <2> QED
    BY <1>2, <2>5, <2>8
<1> QED
  BY <1>3, <1>4

(* There is one such number of lines.                                      *)
LEMMA BeforeUnique ==
  ASSUME NEW lines \in Seq(Seq(Nat)), NEW u, NEW v,
         Before(lines, u), Before(lines, v)
  PROVE  u = v
<1>1. Len(lines) \in Nat /\ u \in 0 .. Len(lines) /\ v \in 0 .. Len(lines)
  BY DEF Before
<1>2. ~(u < v)
  BY <1>1 DEF Before
<1>3. ~(v < u)
  BY <1>1 DEF Before
<1> QED
  BY <1>1, <1>2, <1>3

(* A line with its newline is a sequence of characters.                    *)
LEMMA LinesType ==
  ASSUME NEW lines \in Seq(Seq(Nat)), NEW u, Before(lines, u)
  PROVE  /\ [n \in 1 .. u |-> Append(lines[n], NewLine)] \in Seq(Seq(Nat))
         /\ Len([n \in 1 .. u |-> Append(lines[n], NewLine)]) = u
         /\ u \in Nat
<1>1. Len(lines) \in Nat /\ u \in 0 .. Len(lines)
  BY DEF Before
<1>2. \A n \in 1 .. u : Append(lines[n], NewLine) \in Seq(Nat)
  <2> TAKE n \in 1 .. u
  <2>1. lines[n] \in Seq(Nat)
    BY <1>1, ElementOfSeq
  <2> QED
    BY <2>1, AppendProperties DEF NewLine
<1>3. u \in Nat
  BY <1>1
<1> QED
  BY <1>2, <1>3, IsASeq

(* What the lines up to the empty one hold is a text.                      *)
LEMMA BlockType ==
  ASSUME NEW lines \in Seq(Seq(Nat))
  PROVE  BlockOf(lines) \in Seq(Nat)
<1>1. PICK u : /\ Before(lines, u)
               /\ BlockOf(lines)
                    = FlattenSeq([n \in 1 .. u |-> Append(lines[n], NewLine)])
  BY BlockIs
<1>2. [n \in 1 .. u |-> Append(lines[n], NewLine)] \in Seq(Seq(Nat))
  BY <1>1, LinesType
<1> QED
  BY <1>1, <1>2, FlattenType

(* An empty line ends the text before it has begun.                        *)
LEMMA BlockOfEmptyLine ==
  ASSUME NEW lines \in Seq(Seq(Nat)), lines # <<>>, Head(lines) = end
  PROVE  BlockOf(lines) = <<>>
<1>1. PICK u : /\ Before(lines, u)
               /\ BlockOf(lines)
                    = FlattenSeq([n \in 1 .. u |-> Append(lines[n], NewLine)])
  BY BlockIs
<1>2. Len(lines) \in Nat /\ Len(lines) # 0 /\ lines[1] = end
  OBVIOUS
<1>3. u = 0
  BY <1>1, <1>2 DEF Before
<1>4. Len([n \in 1 .. u |-> Append(lines[n], NewLine)]) = 0
  BY <1>1, <1>3, LinesType
<1>5. [n \in 1 .. u |-> Append(lines[n], NewLine)] = <<>>
  BY <1>3
<1>6. FlattenSeq(<<>>) = <<>>
  BY DEF FlattenSeq
<1> QED
  BY <1>1, <1>5, <1>6

(* The first line comes first, with its newline, then those behind it.     *)
LEMMA BlockFirst ==
  ASSUME NEW lines \in Seq(Seq(Nat)), lines # <<>>, Head(lines) # end
  PROVE  BlockOf(lines) = Append(Head(lines), NewLine) \o BlockOf(Tail(lines))
<1> DEFINE t == Tail(lines)
<1>1. /\ t \in Seq(Seq(Nat)) /\ Len(lines) \in Nat /\ Len(t) \in Nat
      /\ Len(lines) = Len(t) + 1 /\ lines[1] = Head(lines)
      /\ \A i \in 1 .. Len(t) : t[i] = lines[i + 1]
  OBVIOUS
<1>2. Head(lines) \in Seq(Nat)
  OBVIOUS
<1> HIDE DEF t
<1>3. PICK v : /\ Before(t, v)
               /\ BlockOf(t)
                    = FlattenSeq([n \in 1 .. v |-> Append(t[n], NewLine)])
  BY <1>1, BlockIs
<1>4. PICK u : /\ Before(lines, u)
               /\ BlockOf(lines)
                    = FlattenSeq([n \in 1 .. u |-> Append(lines[n], NewLine)])
  BY BlockIs
<1>5. v \in 0 .. Len(t) /\ v \in Nat
  BY <1>1, <1>3 DEF Before
<1>6. Before(lines, v + 1)
  <2>1. v + 1 \in 0 .. Len(lines)
    BY <1>1, <1>5
  <2>2. ASSUME NEW n \in 1 .. v + 1 PROVE lines[n] # end
    <3>1. CASE n = 1
      BY <1>1, <3>1
    <3>2. CASE n # 1
      <4>1. PICK k : k = n - 1
        OBVIOUS
      <4>2. k \in 1 .. v /\ k \in 1 .. Len(t) /\ n = k + 1
        BY <1>1, <1>5, <3>2, <4>1
      <4>3. t[k] # end
        BY <1>3, <4>2 DEF Before
      <4>4. t[k] = lines[k + 1]
        BY <1>1, <4>2, Zenon
      <4> QED
        BY <4>2, <4>3, <4>4, Zenon
    <3> QED
      BY <3>1, <3>2
  <2>3. ASSUME v + 1 # Len(lines) PROVE lines[v + 1 + 1] = end
    <3>1. v # Len(t) /\ v + 1 \in 1 .. Len(t)
      BY <1>1, <1>5, <2>3
    <3>2. t[v + 1] = end
      BY <1>3, <3>1 DEF Before
    <3> QED
      BY <1>1, <3>1, <3>2, Zenon
  <2> QED
    BY <2>1, <2>2, <2>3 DEF Before
<1>7. u = v + 1
  BY <1>4, <1>6, BeforeUnique
<1> DEFINE a == Append(Head(lines), NewLine)
           s == [n \in 1 .. u |-> Append(lines[n], NewLine)]
           r == [n \in 1 .. v |-> Append(t[n], NewLine)]
<1>8. a \in Seq(Nat)
  BY <1>2, AppendProperties DEF NewLine
<1>9. s \in Seq(Seq(Nat)) /\ Len(s) = u /\ r \in Seq(Seq(Nat)) /\ Len(r) = v
  BY <1>1, <1>3, <1>4, LinesType
<1>10. s[1] = a
  BY <1>1, <1>5, <1>7
<1>11. ASSUME NEW i \in 1 .. v PROVE s[i + 1] = r[i]
  <2>1. i \in 1 .. Len(t) /\ i + 1 \in 1 .. u
    BY <1>1, <1>5, <1>7
  <2>2. t[i] = lines[i + 1]
    BY <1>1, <2>1
  <2>3. /\ s[i + 1] = Append(lines[i + 1], NewLine)
        /\ r[i] = Append(t[i], NewLine)
    BY <2>1, Zenon
  <2> QED
    BY <2>2, <2>3, Zenon
<1> HIDE DEF a, s, r
<1>12. FlattenSeq(s) = a \o FlattenSeq(r)
  <2>1. Len(s) = Len(r) + 1
    BY <1>7, <1>9
  <2>2. \A i \in 1 .. Len(r) : s[i + 1] = r[i]
    BY <1>9, <1>11
  <2> QED
    BY <1>8, <1>9, <1>10, <2>1, <2>2, FlattenFirst
<1>13. BlockOf(lines) = FlattenSeq(s) /\ BlockOf(t) = FlattenSeq(r)
  BY <1>3, <1>4 DEF s, r
<1> QED
  BY <1>12, <1>13, Zenon DEF a, t

-----------------------------------------------------------------------------
(* The lines that are left after a step.                                   *)
LEMMA PrimedBlock == BlockOf(stdin)' = BlockOf(stdin')
BY DEF BlockOf

(* Behind a line only its newline is left of it.                           *)
LEMMA NoRest ==
  ASSUME NEW l \in Seq(Nat), NEW b \in Seq(Nat)
  PROVE  SubSeq(l, Len(l) + 1, Len(l)) \o <<NewLine>> \o b = <<NewLine>> \o b
<1>1. SubSeq(l, Len(l) + 1, Len(l)) = <<>>
  BY SubSeqEmpty
<1>2. <<NewLine>> \in Seq(Nat)
  BY DEF NewLine
<1>3. <<>> \o <<NewLine>> = <<NewLine>>
  BY <1>2, ConcatEmptySeq
<1> QED
  BY <1>1, <1>3

(* Within a line, its next character comes first.                          *)
LEMMA FirstOfRest ==
  ASSUME NEW l \in Seq(Nat), NEW b \in Seq(Nat), NEW k \in Nat, k < Len(l)
  PROVE  /\ l[k + 1] \in Nat
         /\ SubSeq(l, k + 1, Len(l)) \o <<NewLine>> \o b
              = <<l[k + 1]>> \o (SubSeq(l, k + 2, Len(l)) \o <<NewLine>> \o b)
<1>1. Len(l) \in Nat /\ \A i \in 1 .. Len(l) : l[i] \in Nat
  BY ElementOfSeq
<1>2. l[k + 1] \in Nat
  BY <1>1
<1>3. SubSeq(l, k + 1, Len(l)) = <<l[k + 1]>> \o SubSeq(l, k + 2, Len(l))
  BY <1>1, <1>2, SubSeqRecursiveFirst
<1>4. PICK x, y, z : /\ x = <<l[k + 1]>> /\ y = SubSeq(l, k + 2, Len(l))
                     /\ z = <<NewLine>>
  OBVIOUS
<1>5. x \in Seq(Nat) /\ z \in Seq(Nat)
  BY <1>2, <1>4 DEF NewLine
<1>6. y \in Seq(Nat)
  <2>1. \A i \in k + 2 .. Len(l) : l[i] \in Nat
    BY <1>1
  <2> QED
    BY <1>1, <1>4, <2>1, SubSeqProperties
<1>7. Joined(Joined(Joined(x, y), z), b) = Joined(x, Joined(Joined(y, z), b))
  <2>1. Joined(y, z) \in Seq(Nat)
    BY <1>5, <1>6, ConcatProperties DEF Joined
  <2>2. Joined(Joined(x, y), z) = Joined(x, Joined(y, z))
    BY <1>5, <1>6, Regroup
  <2>3. Joined(Joined(x, Joined(y, z)), b) = Joined(x, Joined(Joined(y, z), b))
    BY <1>5, <2>1, Regroup
  <2> QED
    BY <2>2, <2>3
<1>8. ((x \o y) \o z) \o b = x \o ((y \o z) \o b)
  BY <1>7, Zenon DEF Joined
<1> QED
  BY <1>2, <1>3, <1>4, <1>8, Zenon

(* What is to come is a text.                                              *)
LEMMA ComingType == ConsoleInv => Coming \in Seq(Nat)
<1> SUFFICES ASSUME ConsoleInv PROVE Coming \in Seq(Nat)
  OBVIOUS
<1>1. /\ stdin \in Seq(Seq(Nat)) /\ line \in Seq(Nat) /\ Len(line) \in Nat
      /\ size \in {-1, Len(line)} /\ pos \in 0 .. size + 1
      /\ (size = -1 => line = end)
  BY DEF ConsoleInv, TypeOK
<1>2. BlockOf(stdin) \in Seq(Nat)
  BY <1>1, BlockType
<1>3. CASE inputComplete \/ (line = end /\ ~NeedsLine)
  BY <1>3 DEF Coming
<1>4. CASE ~inputComplete /\ NeedsLine
  BY <1>2, <1>4 DEF Coming
<1>5. CASE ~inputComplete /\ line # end /\ ~NeedsLine
  <2>1. Coming = SubSeq(line, pos + 1, size) \o <<NewLine>> \o BlockOf(stdin)
    BY <1>5 DEF Coming
  <2>2. size = Len(line) /\ pos \in Nat
    BY <1>1, <1>5
  <2>3. \A i \in pos + 1 .. size : line[i] \in Nat
    BY <1>1, <2>2, ElementOfSeq
  <2>4. SubSeq(line, pos + 1, size) \in Seq(Nat)
    BY <1>1, <2>2, <2>3, SubSeqProperties
  <2>5. <<NewLine>> \in Seq(Nat)
    BY DEF NewLine
  <2> QED
    BY <1>2, <2>1, <2>4, <2>5, ConcatProperties, Zenon
<1> QED
  BY <1>3, <1>4, <1>5

(* When supply() meets the end of input, nothing was to come.              *)
LEMMA SupplyEnds ==
  ASSUME ConsoleInv, Supply, line' = end
  PROVE  Coming = <<>> /\ Coming' = <<>> /\ given' = given
<1>1. given' = given /\ inputComplete'
  BY DEF Supply
<1>2. Coming' = <<>>
  BY <1>1 DEF Coming
<1>3. stdin \in Seq(Seq(Nat)) /\ (~good => stdin = <<>>) /\ ~inputComplete
  BY DEF ConsoleInv, TypeOK, Spent, Supply
<1>4. CASE ~NeedsLine
  <2>1. line = end
    BY <1>4 DEF Supply, NextLine
  <2> QED
    BY <1>1, <1>2, <1>4, <2>1 DEF Coming
<1>5. CASE NeedsLine
  <2>1. Coming = BlockOf(stdin)
    BY <1>3, <1>5 DEF Coming
  <2>2. stdin = <<>> => Coming = <<>>
    BY <2>1, NoLines
  <2>3. ASSUME stdin # <<>> PROVE Coming = <<>>
    <3>1. Head(stdin) = end
      BY <1>3, <1>5, <2>3 DEF Supply, NextLine, Getline
    <3> QED
      BY <1>3, <2>1, <2>3, <3>1, BlockOfEmptyLine
  <2> QED
    BY <1>1, <1>2, <2>2, <2>3
<1> QED
  BY <1>4, <1>5

(* Otherwise the first character that was to come is supplied, unless the  *)
(* torn line is supplied again.                                            *)
LEMMA SupplyTakes ==
  ASSUME ConsoleInv, Supply, ~Stuck, line' # end
  PROVE  \E c \in Nat : given' = Append(given, c) /\ Coming = <<c>> \o Coming'
<1>1. /\ stdin \in Seq(Seq(Nat)) /\ line \in Seq(Nat)
      /\ size \in {-1, Len(line)} /\ pos \in 0 .. size + 1
      /\ (size = -1 => line = end) /\ ~inputComplete
      /\ Len(line) \in Nat
  BY DEF ConsoleInv, TypeOK, Supply
<1>2. /\ given' = Append(given, IF From < size' THEN line'[From + 1]
                                                 ELSE NewLine)
      /\ pos' = From + 1 /\ ~inputComplete'
  BY <1>1 DEF Supply
<1>3. BlockOf(stdin) \in Seq(Nat)
  BY <1>1, BlockType
<1>4. CASE NeedsLine
  <2>1. /\ line' = Getline /\ size' = Len(line')
        /\ stdin' = IF good /\ stdin # <<>> THEN Tail(stdin) ELSE stdin
        /\ From = 0
    BY <1>4 DEF Supply, NextLine, From
  <2>2. good
    BY <2>1 DEF Stuck, Getline
  <2>3. stdin # <<>>
    BY <2>1, <2>2 DEF Getline, end
  <2>4. line' = Head(stdin) /\ stdin' = Tail(stdin)
    BY <2>1, <2>2, <2>3 DEF Getline
  <2>5. /\ line' \in Seq(Nat) /\ stdin' \in Seq(Seq(Nat))
        /\ Len(line') \in Nat /\ Len(line') > 0
    <3>1. Head(stdin) \in Seq(Nat) /\ Tail(stdin) \in Seq(Seq(Nat))
      BY <1>1, <2>3
    <3> QED
      BY <2>4, <3>1 DEF end
  <2>6. BlockOf(stdin') \in Seq(Nat)
    BY <2>5, BlockType
  <2>7. Coming = Append(line', NewLine) \o BlockOf(stdin')
    <3>1. Coming = BlockOf(stdin)
      BY <1>1, <1>4 DEF Coming
    <3> QED
      BY <1>1, <2>3, <2>4, <3>1, BlockFirst
  <2>8. Coming' = SubSeq(line', 2, size') \o <<NewLine>> \o BlockOf(stdin')
    <3>1. ~NeedsLine' /\ pos' = 1
      BY <1>2, <2>1, <2>5 DEF NeedsLine
    <3>2. Coming' = SubSeq(line', pos' + 1, size') \o <<NewLine>>
                      \o BlockOf(stdin)'
      BY <1>2, <3>1 DEF Coming, end
    <3> QED
      BY <3>1, <3>2, PrimedBlock
  <2>9. PICK l, b : l = line' /\ b = BlockOf(stdin')
    OBVIOUS
  <2>10. l \in Seq(Nat) /\ b \in Seq(Nat) /\ 0 < Len(l) /\ Len(l) \in Nat
    BY <2>5, <2>6, <2>9
  <2>11. /\ l[1] \in Nat
         /\ SubSeq(l, 1, Len(l)) \o <<NewLine>> \o b
              = <<l[1]>> \o (SubSeq(l, 2, Len(l)) \o <<NewLine>> \o b)
    <3>1. PICK k \in Nat : k = 0 /\ k + 1 = 1 /\ k + 2 = 2
      OBVIOUS
    <3>2. /\ l[k + 1] \in Nat
          /\ SubSeq(l, k + 1, Len(l)) \o <<NewLine>> \o b
               = <<l[k + 1]>> \o (SubSeq(l, k + 2, Len(l)) \o <<NewLine>> \o b)
      BY <2>10, <3>1, FirstOfRest
    <3> QED
      BY <3>1, <3>2, Zenon
  <2>12. SubSeq(l, 1, Len(l)) = l
    BY <2>10, SubSeqFull
  <2>13. Append(l, NewLine) = l \o <<NewLine>>
    BY <2>10, AppendIsConcat DEF NewLine
  <2>14. Coming = <<l[1]>> \o Coming'
    BY <2>1, <2>7, <2>8, <2>9, <2>11, <2>12, <2>13, Zenon
  <2>15. given' = Append(given, l[1])
    BY <1>2, <2>1, <2>5, <2>9
  <2> QED
    BY <2>11, <2>14, <2>15, Zenon
<1>5. CASE ~NeedsLine
  <2>1. line' = line /\ size' = size /\ stdin' = stdin /\ From = pos
    BY <1>5 DEF Supply, NextLine, From
  <2>2. size = Len(line) /\ pos \in Nat /\ pos <= size
    BY <1>1, <1>5, <2>1 DEF NeedsLine
  <2>3. Coming = SubSeq(line, pos + 1, Len(line)) \o <<NewLine>>
                   \o BlockOf(stdin)
    BY <1>1, <1>5, <2>1, <2>2 DEF Coming
  <2>4. BlockOf(stdin)' = BlockOf(stdin)
    BY <2>1, PrimedBlock
  <2>5. CASE pos < size
    <3>1. ~NeedsLine' /\ pos' = pos + 1
      BY <1>2, <2>1, <2>2, <2>5 DEF NeedsLine
    <3>2. Coming' = SubSeq(line', pos' + 1, size') \o <<NewLine>>
                      \o BlockOf(stdin)'
      BY <1>2, <3>1 DEF Coming, end
    <3>3. pos' + 1 = pos + 2
      BY <2>2, <3>1
    <3>4. Coming' = SubSeq(line, pos + 2, Len(line)) \o <<NewLine>>
                      \o BlockOf(stdin)
      BY <2>1, <2>2, <2>4, <3>2, <3>3, Zenon
    <3>5. /\ line[pos + 1] \in Nat
          /\ SubSeq(line, pos + 1, Len(line)) \o <<NewLine>> \o BlockOf(stdin)
               = <<line[pos + 1]>>
                   \o (SubSeq(line, pos + 2, Len(line)) \o <<NewLine>>
                        \o BlockOf(stdin))
      BY <1>1, <1>3, <2>2, <2>5, FirstOfRest
    <3>6. Coming = <<line[pos + 1]>> \o Coming'
      BY <2>3, <3>4, <3>5, Zenon
    <3>7. given' = Append(given, line[pos + 1])
      BY <1>2, <2>1, <2>5
    <3> QED
      BY <3>5, <3>6, <3>7
  <2>6. CASE pos = size
    <3>1. NeedsLine'
      BY <1>2, <2>1, <2>2, <2>6 DEF NeedsLine
    <3>2. Coming' = BlockOf(stdin)
      BY <1>2, <2>4, <3>1 DEF Coming
    <3>3. SubSeq(line, Len(line) + 1, Len(line)) \o <<NewLine>>
              \o BlockOf(stdin)
            = <<NewLine>> \o BlockOf(stdin)
      BY <1>1, <1>3, NoRest
    <3>4. Coming = <<NewLine>> \o Coming'
      BY <2>2, <2>3, <2>6, <3>2, <3>3, Zenon
    <3>5. given' = Append(given, NewLine)
      BY <1>2, <2>1, <2>2, <2>6
    <3>6. NewLine \in Nat
      BY DEF NewLine
    <3> QED
      BY <3>4, <3>5, <3>6
  <2> QED
    BY <2>2, <2>5, <2>6
<1> QED
  BY <1>4, <1>5
(* At first nothing has been supplied, and all lines are to come.          *)
LEMMA SourceStarts == Init => Source!SourceInit
<1> SUFFICES ASSUME Init PROVE Source!SourceInit
  OBVIOUS
<1>1. ConsoleInv /\ given = <<>>
  BY StartsOK DEF Init
<1>2. Coming \in Seq(Nat)
  BY <1>1, ComingType
<1>3. given \o Coming = Coming /\ Len(given) = 0
  BY <1>1, <1>2, ConcatEmptySeq
<1> QED
  BY <1>2, <1>3 DEF Source!SourceInit

(* A supply() takes one character of the text or changes nothing; a        *)
(* clear() starts another text.                                            *)
LEMMA SourceStep ==
  ASSUME ConsoleInv, [Next]_consoleVars
  PROVE  [~Stuck => Source!SourceNext]_Source!sourceVars
<1> SUFFICES ASSUME ~Stuck
             PROVE  Source!SourceNext \/ UNCHANGED Source!sourceVars
  OBVIOUS
<1>0. given \in Seq(Nat) /\ Coming \in Seq(Nat) /\ Coming' \in Seq(Nat)
  <2>1. ConsoleInv'
    BY ConsoleStep
  <2>2. ConsoleInv' => (Coming \in Seq(Nat))'
    BY ComingType, PTL
  <2>3. given \in Seq(Nat)
    BY DEF ConsoleInv, TypeOK
  <2> QED
    BY <2>1, <2>2, <2>3, ComingType
<1>1. CASE Supply /\ line' = end
  <2>1. Coming' = Coming /\ given' = given
    BY <1>1, SupplyEnds
  <2> QED
    BY <2>1 DEF Source!sourceVars
<1>2. CASE Supply /\ line' # end
  <2>1. PICK c \in Nat : given' = Append(given, c) /\ Coming = <<c>> \o Coming'
    BY <1>2, SupplyTakes
  <2>2. PICK g, r, n : g = given /\ r = Coming' /\ n = <<c>>
    OBVIOUS
  <2>3. g \in Seq(Nat) /\ r \in Seq(Nat) /\ n \in Seq(Nat)
    BY <1>0, <2>2
  <2>4. given' = g \o n
    BY <2>1, <2>2, <2>3, AppendIsConcat
  <2>5. Joined(Joined(g, n), r) = Joined(g, Joined(n, r))
    BY <2>3, Regroup
  <2>6. (g \o n) \o r = g \o (n \o r)
    BY <2>5, Zenon DEF Joined
  <2>7. (given \o Coming)' = given \o Coming
    BY <2>1, <2>2, <2>4, <2>6, Zenon
  <2>8. Len(given)' = Len(given) + 1
    BY <1>0, <2>1
  <2>9. Len(given) # Len(given \o Coming)
    <3>1. Len(Coming) = 1 + Len(Coming') /\ Len(Coming') \in Nat
      BY <1>0, <2>1
    <3>2. Len(given \o Coming) = Len(given) + Len(Coming)
      BY <1>0
    <3> QED
      BY <1>0, <3>1, <3>2
  <2> QED
    BY <2>7, <2>8, <2>9 DEF Source!SourceNext, Source!Take, Source!AtEnd
<1>3. CASE SupplyEOF \/ UNCHANGED consoleVars
  <2>1. UNCHANGED consoleVars
    BY <1>3 DEF SupplyEOF
  <2>2. Coming' = Coming /\ given' = given
    BY <2>1 DEF consoleVars, Coming, NeedsLine, BlockOf
  <2> QED
    BY <2>2 DEF Source!sourceVars
<1>4. CASE clear
  <2>1. given' = <<>> /\ Len(given)' = 0
    BY <1>4 DEF clear
  <2>2. (given \o Coming)' = Coming'
    BY <1>0, <2>1, ConcatEmptySeq
  <2> QED
    BY <1>0, <2>1, <2>2 DEF Source!SourceNext, Source!Restart
<1> QED
  BY <1>1, <1>2, <1>3, <1>4 DEF Next

(* The console implements the source of characters that the token supplier *)
(* relies on: it supplies the characters of its lines up to an empty one,  *)
(* each once and in order, then the end of input until it is cleared, and  *)
(* after a clear another text; but for a torn last line, which is supplied *)
(* again and again.                                                        *)
THEOREM ConsoleIsSource == Spec => ImplementsSource
<1>1. ConsoleInv /\ [Next]_consoleVars =>
        [~Stuck => Source!SourceNext]_Source!sourceVars
  BY SourceStep
<1> QED
  BY StartsOK, ConsoleStep, SourceStarts, <1>1, PTL DEF Spec, ImplementsSource

=============================================================================
