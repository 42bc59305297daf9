------------------------------ MODULE IptProofs ------------------------------
(***************************************************************************)
(* The commands of the iptables engine change no rule of another program,  *)
(* leave every hook at most once, and make the suite's part of the kernel  *)
(* the candidate or what the transaction found, for any policies, tables   *)
(* and disturbances.  Lists, runs of commands and what a batch is made of  *)
(* come first; then an invariant about hooks (IptInv: every pending commit *)
(* was prepared from a table with the hooks that are there now) and, on    *)
(* top of it, one about the suite's part (OwnInv).                         *)
(***************************************************************************)
EXTENDS IptBatch, FiniteSetTheorems, WellFoundedInduction, TLAPS

(***************************************************************************)
(* Lists                                                                   *)
(***************************************************************************)
Members(s) == {s[i] : i \in DOMAIN s}
IsList(s) == Len(s) \in Nat /\ s \in [1..Len(s) -> Members(s)]

LEMMA ListFacts ==
  /\ \A s : IsList(s) => DOMAIN s = 1..Len(s) /\ s \in Seq(Members(s)) /\ Len(s) \in Nat
  /\ \A s, S : s \in Seq(S) => IsList(s) /\ Members(s) \subseteq S
BY DEF IsList, Members

LEMMA Short ==
  /\ IsList(<<>>) /\ Members(<<>>) = {} /\ Len(<<>>) = 0
  /\ \A a : IsList(<<a>>) /\ Members(<<a>>) = {a} /\ Len(<<a>>) = 1 /\ <<a>>[1] = a
<1>1. IsList(<<>>) /\ Members(<<>>) = {} /\ Len(<<>>) = 0
  BY DEF IsList, Members
<1>2. ASSUME NEW a PROVE IsList(<<a>>) /\ Members(<<a>>) = {a} /\ Len(<<a>>) = 1 /\ <<a>>[1] = a
  BY DEF IsList, Members
<1> QED
  BY <1>1, <1>2

\* What follows a list keeps its place after it.
LEMMA Joined ==
  ASSUME NEW s, NEW t, IsList(s), IsList(t)
  PROVE  /\ IsList(s \o t) /\ Len(s \o t) = Len(s) + Len(t)
         /\ \A i \in 1..Len(s) : (s \o t)[i] = s[i]
         /\ \A i \in 1..Len(t) : (s \o t)[Len(s) + i] = t[i]
         /\ Members(s \o t) = Members(s) \cup Members(t)
<1>1. s \in Seq(Members(s) \cup Members(t)) /\ t \in Seq(Members(s) \cup Members(t))
  BY ListFacts DEF IsList
<1>2. s \o t \in Seq(Members(s) \cup Members(t)) /\ Len(s \o t) = Len(s) + Len(t)
  BY <1>1
<1>3. /\ \A i \in 1..Len(s) : (s \o t)[i] = s[i]
      /\ \A i \in 1..Len(t) : (s \o t)[Len(s) + i] = t[i]
  BY <1>1
<1>4. IsList(s \o t) /\ DOMAIN (s \o t) = 1..(Len(s) + Len(t))
  BY <1>2, ListFacts
<1>5. Members(s) \subseteq Members(s \o t)
  BY <1>3, <1>4 DEF Members, IsList
<1>6. ASSUME NEW i \in DOMAIN t PROVE t[i] \in Members(s \o t)
  <2>1. i \in 1..Len(t) /\ Len(s) \in Nat /\ Len(t) \in Nat
    BY DEF IsList
  <2>2. Len(s) + i \in DOMAIN (s \o t)
    BY <2>1, <1>4
  <2> QED
    BY <2>1, <2>2, <1>3 DEF Members
<1>7. Members(t) \subseteq Members(s \o t)
  BY <1>6 DEF Members
<1> QED
  BY <1>2, <1>3, <1>4, <1>5, <1>7, ListFacts

LEMMA Mapped ==
  ASSUME NEW s, IsList(s), NEW f, f = [i \in DOMAIN s |-> f[i]]
  PROVE  IsList(f) /\ DOMAIN f = DOMAIN s /\ Len(f) = Len(s)
<1>1. DOMAIN s = 1..Len(s) /\ Len(s) \in Nat
  BY ListFacts DEF IsList
<1>2. f \in [1..Len(s) -> Members(f)]
  BY <1>1 DEF Members
<1>3. f \in Seq(Members(f)) /\ Len(f) = Len(s)
  BY <1>1, <1>2
<1> QED
  BY <1>1, <1>2, <1>3, ListFacts

LEMMA Least ==
  ASSUME NEW S, S \subseteq Nat, S # {}
  PROVE  \E n \in S : \A m \in S : n <= m
<1> DEFINE less == {ss \in Nat \X Nat : ss[1] < ss[2]}
<1>1. IsWellFoundedOn(less, Nat)
  BY NatLessThanWellFounded DEF OpToRel
<1>2. \E n \in S : \A m \in S : <<m, n>> \notin less
  <2> HIDE DEF less
  <2> QED
    BY <1>1, WFMin
<1>3. PICK n \in S : \A m \in S : <<m, n>> \notin less
  BY <1>2
<1>4. ASSUME NEW m \in S PROVE n <= m
  <2>1. <<m, n>> \in Nat \X Nat
    OBVIOUS
  <2>2. ~(<<m, n>>[1] < <<m, n>>[2])
    BY <2>1, <1>3, Zenon
  <2>3. ~(m < n) /\ m \in Nat /\ n \in Nat
    BY <2>2
  <2> QED
    BY <2>3
<1> QED
  BY <1>4

\* What holds at the beginning, and one step further whenever it holds, holds to the end.
LEMMA Climb ==
  ASSUME NEW n \in Nat, NEW S, 0 \in S, \A i \in 1..n : i - 1 \in S => i \in S
  PROVE  \A i \in 0..n : i \in S
<1> DEFINE fails == {i \in 0..n : i \notin S}
<1> SUFFICES ASSUME fails # {} PROVE FALSE
  OBVIOUS
<1>1. PICK m \in fails : \A j \in fails : m <= j
  <2>1. fails \subseteq Nat
    OBVIOUS
  <2> HIDE DEF fails
  <2> QED
    BY <2>1, Least
<1>2. m \in 1..n /\ m - 1 \in 0..n /\ m - 1 < m
  BY <1>1
<1>3. m - 1 \notin fails
  BY <1>1, <1>2
<1> QED
  BY <1>1, <1>2, <1>3

\* A finite set in some order, each of its members once.
LEMMA InOrder ==
  ASSUME NEW S, IsFiniteSet(S)
  PROVE  /\ IsList(SetToSeq(S)) /\ Members(SetToSeq(S)) = S
         /\ \A i, j \in DOMAIN SetToSeq(S) : SetToSeq(S)[i] = SetToSeq(S)[j] => i = j
<1> DEFINE n == Cardinality(S)
           s == SetToSeq(S)
<1>1. n \in Nat /\ \E f \in [1..n -> S] : IsInjective(f)
  BY FS_CardinalityType DEF ExistsBijection, Bijection, Injection, IsInjective
<1>2. s \in [1..n -> S] /\ IsInjective(s)
  BY <1>1 DEF SetToSeq
<1> HIDE DEF s
<1>3. s \in Injection(1..n, S)
  BY <1>2 DEF Injection, IsInjective
<1>4. Cardinality(1..n) = n
  BY <1>1, FS_Interval
<1>5. s \in Surjection(1..n, S)
  BY <1>3, <1>4, FS_Injection
<1>6. S \subseteq Members(s)
  BY <1>2, <1>5 DEF Surjection, Members
<1>7. s \in Seq(S)
  BY <1>1, <1>2
<1>8. \A i, j \in DOMAIN s : s[i] = s[j] => i = j
  BY <1>2 DEF IsInjective
<1> QED
  BY <1>6, <1>7, <1>8, ListFacts DEF s

(***************************************************************************)
(* Runs of commands                                                        *)
(***************************************************************************)
\* A run makes one step for each command.
LEMMA RunIs ==
  ASSUME NEW s, IsList(s), NEW table
  PROVE  \E x : /\ x[0] = table /\ \A i \in 1..Len(s) : x[i] = Do(x[i - 1], s[i])
                /\ x[Len(s)] = Run(s, table)
<1> DEFINE n == Len(s)
           Step(f, S) == IF S = {} THEN table ELSE Do(f[S \ {Max(S)}], s[Max(S)])
           Goes(f, m) == f = [S \in SUBSET (1..m) |-> Step(f, S)]
           able == {m \in 0..n : \E f : Goes(f, m)}
<1>1. n \in Nat /\ DOMAIN s = 1..n
  BY ListFacts
<1>2. 0 \in able
  <2> DEFINE f == [S \in SUBSET (1..0) |-> table]
  <2>1. \A S \in SUBSET (1..0) : S = {}
    OBVIOUS
  <2>2. \A S \in SUBSET (1..0) : f[S] = Step(f, S)
    BY <2>1
  <2>3. Goes(f, 0)
    BY <2>2
  <2> QED
    BY <2>3, <1>1
<1>3. ASSUME NEW m \in 1..n, m - 1 \in able PROVE m \in able
  <2>1. PICK f : Goes(f, m - 1)
    BY <1>3
  <2> DEFINE g == [S \in SUBSET (1..m) |-> IF m \in S THEN Do(f[S \ {m}], s[m]) ELSE f[S]]
  <2>2. \A S \in SUBSET (1..(m - 1)) : f[S] = Step(f, S)
    BY <2>1
  <2>3. ASSUME NEW S \in SUBSET (1..m), m \in S PROVE g[S] = Step(g, S)
    <3>1. Max(S) = m
      <4>1. \A y \in S : m >= y
        BY <1>1
      <4>2. ASSUME NEW x \in S, \A y \in S : x >= y PROVE x = m
        <5>1. x >= m /\ m >= x /\ x \in Int /\ m \in Int
          BY <4>1, <4>2, <2>3, <1>1
        <5> QED
          BY <5>1
      <4> QED
        BY <4>1, <4>2, <2>3 DEF Max
    <3>2. S \ {m} \in SUBSET (1..m) /\ m \notin S \ {m}
      OBVIOUS
    <3>3. g[S \ {m}] = f[S \ {m}]
      BY <3>2
    <3>4. g[S] = Do(f[S \ {m}], s[m])
      BY <2>3
    <3> HIDE DEF g
    <3> QED
      BY <3>1, <3>3, <3>4, <2>3
  <2>4. ASSUME NEW S \in SUBSET (1..m), m \notin S PROVE g[S] = Step(g, S)
    <3>1. S \in SUBSET (1..(m - 1)) /\ g[S] = f[S]
      BY <2>4, <1>1
    <3>2. f[S] = Step(f, S)
      BY <3>1, <2>2
    <3>3. m \notin S \ {Max(S)} /\ S \ {Max(S)} \in SUBSET (1..m)
      BY <2>4
    <3>4. g[S \ {Max(S)}] = f[S \ {Max(S)}]
      BY <3>3
    <3> HIDE DEF g
    <3> QED
      BY <3>1, <3>2, <3>4
  <2>5. \A S \in SUBSET (1..m) : g[S] = Step(g, S)
    BY <2>3, <2>4
  <2>6. g = [S \in SUBSET (1..m) |-> g[S]]
    OBVIOUS
  <2> HIDE DEF g
  <2>7. Goes(g, m)
    BY <2>5, <2>6
  <2>8. \E h : Goes(h, m)
    <3> HIDE DEF Goes
    <3> QED
      BY <2>7
  <2>9. m \in 0..n
    BY <1>1
  <2> HIDE DEF Goes
  <2> QED
    BY <2>8, <2>9
<1>4. n \in able
  <2> HIDE DEF able
  <2>1. \A i \in 0..n : i \in able
    BY <1>1, <1>2, <1>3, Climb
  <2> QED
    BY <2>1, <1>1
<1>5. Run(s, table) = (CHOOSE f : Goes(f, n))[1..n]
  BY <1>1 DEF Run, FoldLeft, MapThenFoldSet
<1> DEFINE f == CHOOSE f : Goes(f, n)
<1>6. Goes(f, n)
  BY <1>4
<1>7. \A S \in SUBSET (1..n) : f[S] = Step(f, S)
  <2> HIDE DEF f
  <2> QED
    BY <1>6
<1> DEFINE x == [i \in 0..n |-> f[1..i]]
<1>8. Run(s, table) = f[1..n]
  BY <1>5
<1> HIDE DEF f
<1>9. x[0] = table
  <2>1. 1..0 = {} /\ {} \in SUBSET (1..n)
    OBVIOUS
  <2>2. f[{}] = table
    BY <2>1, <1>7
  <2>3. x[0] = f[1..0]
    BY <1>1
  <2> QED
    BY <2>1, <2>2, <2>3
<1>10. ASSUME NEW i \in 1..n PROVE x[i] = Do(x[i - 1], s[i])
  <2>1. 1..i \in SUBSET (1..n) /\ 1..i # {} /\ i \in 0..n /\ i - 1 \in 0..n
    BY <1>1, SMTT(60)
  <2>2. Max(1..i) = i
    <3>1. i \in 1..i /\ \A y \in 1..i : i >= y
      BY <1>1
    <3>2. ASSUME NEW z \in 1..i, \A y \in 1..i : z >= y PROVE z = i
      <4>1. z >= i /\ i >= z /\ z \in Int /\ i \in Int
        BY <3>1, <3>2
      <4> QED
        BY <4>1
    <3> QED
      BY <3>1, <3>2 DEF Max
  <2>3. (1..i) \ {i} = 1..(i - 1)
    BY <1>1
  <2> QED
    BY <2>1, <2>2, <2>3, <1>7
<1>11. x[n] = Run(s, table)
  BY <1>1, <1>8
<1> QED
  BY <1>9, <1>10, <1>11

LEMMA RunShort ==
  \A table : Run(<<>>, table) = table /\ \A cmd : Run(<<cmd>>, table) = Do(table, cmd)
<1> SUFFICES ASSUME NEW table PROVE Run(<<>>, table) = table /\ \A cmd : Run(<<cmd>>, table) = Do(table, cmd)
  OBVIOUS
<1>1. Run(<<>>, table) = table
  <2>1. PICK x : x[0] = table /\ x[Len(<<>>)] = Run(<<>>, table)
    BY Short, RunIs
  <2> QED
    BY <2>1, Short
<1>2. ASSUME NEW cmd PROVE Run(<<cmd>>, table) = Do(table, cmd)
  <2> DEFINE s == <<cmd>>
  <2>1. IsList(s) /\ Len(s) = 1 /\ s[1] = cmd
    BY Short
  <2> HIDE DEF s
  <2>2. PICK x : x[0] = table /\ (\A i \in 1..Len(s) : x[i] = Do(x[i - 1], s[i])) /\ x[Len(s)] = Run(s, table)
    BY <2>1, RunIs
  <2>3. x[1] = Do(x[1 - 1], s[1]) /\ x[1] = Run(s, table)
    BY <2>1, <2>2
  <2> QED
    BY <2>1, <2>2, <2>3 DEF s
<1> QED
  BY <1>1, <1>2

\* A run of two lists is a run of one after the other.
LEMMA RunJoined ==
  ASSUME NEW a, IsList(a), NEW b, IsList(b), NEW table
  PROVE  Run(a \o b, table) = Run(b, Run(a, table))
<1> DEFINE ab == a \o b
           n == Len(a)
           m == Len(b)
<1>1. /\ IsList(ab) /\ Len(ab) = n + m /\ n \in Nat /\ m \in Nat
      /\ (\A i \in 1..n : ab[i] = a[i]) /\ \A i \in 1..m : ab[n + i] = b[i]
  BY Joined DEF IsList
<1> HIDE DEF ab
<1>2. PICK x : x[0] = table /\ (\A i \in 1..n : x[i] = Do(x[i - 1], a[i])) /\ x[n] = Run(a, table)
  BY RunIs
<1>3. PICK y : y[0] = Run(a, table) /\ (\A i \in 1..m : y[i] = Do(y[i - 1], b[i])) /\ y[m] = Run(b, Run(a, table))
  BY RunIs
<1>4. PICK z : z[0] = table /\ (\A i \in 1..(n + m) : z[i] = Do(z[i - 1], ab[i])) /\ z[n + m] = Run(ab, table)
  <2>1. \E z : z[0] = table /\ (\A i \in 1..Len(ab) : z[i] = Do(z[i - 1], ab[i])) /\ z[Len(ab)] = Run(ab, table)
    BY <1>1, RunIs
  <2> QED
    BY <2>1, <1>1
<1> HIDE DEF n, m
<1>5. z[n] = x[n]
  <2> DEFINE S == {i \in 0..n : z[i] = x[i]}
  <2>1. 0 \in S
    BY <1>1, <1>2, <1>4
  <2>2. ASSUME NEW i \in 1..n, i - 1 \in S PROVE i \in S
    <3>1. i \in 1..(n + m) /\ i \in 0..n /\ ab[i] = a[i] /\ z[i - 1] = x[i - 1]
      BY <1>1, <2>2
    <3>2. z[i] = Do(z[i - 1], ab[i]) /\ x[i] = Do(x[i - 1], a[i])
      BY <3>1, <1>2, <1>4
    <3> QED
      BY <3>1, <3>2
  <2>3. \A i \in 0..n : i \in S
    <3> HIDE DEF S
    <3> QED
      BY <2>1, <2>2, <1>1, Climb
  <2> QED
    BY <2>3, <1>1
<1>6. z[n + m] = y[m]
  <2> DEFINE S == {i \in 0..m : z[n + i] = y[i]}
  <2>1. 0 \in S
    <3>1. n + 0 = n /\ 0 \in 0..m
      BY <1>1
    <3> QED
      BY <3>1, <1>2, <1>3, <1>5
  <2>2. ASSUME NEW i \in 1..m, i - 1 \in S PROVE i \in S
    <3>1. n + i \in 1..(n + m) /\ i \in 0..m /\ ab[n + i] = b[i] /\ z[n + (i - 1)] = y[i - 1] /\ n + (i - 1) = (n + i) - 1
      BY <1>1, <2>2
    <3>2. z[n + i] = Do(z[(n + i) - 1], ab[n + i]) /\ y[i] = Do(y[i - 1], b[i])
      BY <3>1, <1>3, <1>4
    <3> QED
      BY <3>1, <3>2
  <2>3. \A i \in 0..m : i \in S
    <3> HIDE DEF S
    <3> QED
      BY <2>1, <2>2, <1>1, Climb
  <2> QED
    BY <2>3, <1>1
<1> QED
  BY <1>3, <1>4, <1>6 DEF ab

\* Lists put one after another.
LEMMA Flattened ==
  ASSUME NEW ss, IsList(ss), \A i \in DOMAIN ss : IsList(ss[i])
  PROVE  /\ Len(ss) = 0 => FlattenSeq(ss) = <<>>
         /\ Len(ss) # 0 => \E f : /\ f[1] = ss[1] /\ \A i \in 2..Len(ss) : f[i] = f[i - 1] \o ss[i]
                                  /\ FlattenSeq(ss) = f[Len(ss)]
                                  /\ \A m \in 1..Len(ss) :
                                       IsList(f[m]) /\ Members(f[m]) = UNION {Members(ss[i]) : i \in 1..m}
         /\ IsList(FlattenSeq(ss)) /\ Members(FlattenSeq(ss)) = UNION {Members(ss[i]) : i \in DOMAIN ss}
<1> DEFINE n == Len(ss)
           Step(f, i) == IF i = 1 THEN ss[i] ELSE f[i - 1] \o ss[i]
           Goes(f, m) == f = [i \in 1..m |-> Step(f, i)]
           Upto(m) == UNION {Members(ss[i]) : i \in 1..m}
<1>1. n \in Nat /\ DOMAIN ss = 1..n
  BY ListFacts
<1>2. CASE n = 0
  <2>1. ss = <<>>
    BY <1>1, <1>2 DEF IsList
  <2>2. FlattenSeq(ss) = ss
    BY <1>2 DEF FlattenSeq
  <2> QED
    BY <1>2, <2>1, <2>2, Short
<1>3. CASE n # 0
  <2> DEFINE able == {m \in 0..n : \E f : Goes(f, m)}
  <2>1. 0 \in able
    <3>1. Goes([i \in 1..0 |-> <<>>], 0)
      OBVIOUS
    <3>2. 0 \in 0..n
      BY <1>1
    <3> HIDE DEF Goes
    <3> QED
      BY <3>1, <3>2
  <2>2. ASSUME NEW m \in 1..n, m - 1 \in able PROVE m \in able
    <3>1. PICK f : Goes(f, m - 1)
      BY <2>2
    <3> DEFINE g == [i \in 1..m |-> IF i = m THEN Step(f, m) ELSE f[i]]
    <3>2. \A i \in 1..(m - 1) : f[i] = Step(f, i)
      BY <3>1
    <3>3. ASSUME NEW i \in 1..m PROVE g[i] = Step(g, i)
      <4>1. i # 1 => i - 1 \in 1..m /\ i - 1 # m
        BY <1>1
      <4>2. i # 1 => g[i - 1] = f[i - 1]
        BY <4>1
      <4>3. g[i] = Step(f, i)
        <5>1. i # m => i \in 1..(m - 1)
          BY <1>1
        <5> QED
          BY <5>1, <3>2
      <4> HIDE DEF g
      <4> QED
        BY <4>2, <4>3
    <3>4. Goes(g, m)
      BY <3>3
    <3>5. \E h : Goes(h, m)
      <4> HIDE DEF Goes, g
      <4> QED
        BY <3>4
    <3>6. m \in 0..n
      BY <1>1
    <3> HIDE DEF Goes
    <3> QED
      BY <3>5, <3>6
  <2>3. \E f : Goes(f, n)
    <3>1. \A i \in 0..n : i \in able
      <4> HIDE DEF able
      <4> QED
        BY <1>1, <2>1, <2>2, Climb
    <3>2. n \in able
      <4>1. n \in 0..n
        BY <1>1, SMTT(60)
      <4> HIDE DEF able
      <4> QED
        BY <3>1, <4>1
    <3> HIDE DEF Goes
    <3> QED
      BY <3>2
  <2> DEFINE f == CHOOSE f : Goes(f, n)
  <2>4. Goes(f, n)
    BY <2>3, ZenonT(60)
  <2>5. FlattenSeq(ss) = f[n]
    BY <1>3 DEF FlattenSeq
  <2> HIDE DEF f
  <2>6. \A i \in 1..n : f[i] = Step(f, i)
    BY <2>4
  <2>7. f[1] = ss[1] /\ \A i \in 2..n : f[i] = f[i - 1] \o ss[i]
    <3>1. 1 \in 1..n /\ \A i \in 2..n : i \in 1..n /\ i # 1
      BY <1>1, <1>3
    <3> QED
      BY <3>1, <2>6
  <2> DEFINE S == {m \in 0..n : m = 0 \/ (IsList(f[m]) /\ Members(f[m]) = Upto(m))}
  <2>8. 0 \in S
    BY <1>1
  <2>9. ASSUME NEW m \in 1..n, m - 1 \in S PROVE m \in S
    <3>1. m \in 0..n /\ IsList(ss[m])
      BY <1>1
    <3>2. CASE m = 1
      <4>1. Upto(m) = Members(ss[1])
        BY <3>2
      <4> QED
        BY <4>1, <2>7, <3>1, <3>2
    <3>3. CASE m # 1
      <4>1. f[m] = f[m - 1] \o ss[m] /\ m - 1 # 0
        <5>1. m \in 2..n /\ m - 1 # 0
          BY <3>3, <1>1
        <5> QED
          BY <5>1, <2>7
      <4>2. IsList(f[m - 1]) /\ Members(f[m - 1]) = Upto(m - 1)
        BY <4>1, <2>9
      <4>3. Upto(m) = Upto(m - 1) \cup Members(ss[m])
        <5>1. 1..m = 1..(m - 1) \cup {m}
          BY <1>1
        <5> QED
          BY <5>1
      <4>4. IsList(f[m]) /\ Members(f[m]) = Members(f[m - 1]) \cup Members(ss[m])
        BY <3>1, <4>1, <4>2, Joined
      <4> QED
        BY <3>1, <4>2, <4>3, <4>4
    <3> QED
      BY <3>2, <3>3
  <2>10. \A m \in 0..n : m \in S
    <3> HIDE DEF S
    <3> QED
      BY <1>1, <2>8, <2>9, Climb
  <2>11. \A m \in 1..n : IsList(f[m]) /\ Members(f[m]) = Upto(m)
    BY <2>10, <1>1
  <2>12. n \in 1..n
    BY <1>1, <1>3
  <2> QED
    BY <1>1, <1>3, <2>5, <2>7, <2>11, <2>12
<1> QED
  BY <1>2, <1>3

\* A run of many lists runs them in turn.
LEMMA RunEach ==
  ASSUME NEW ss, IsList(ss), \A i \in DOMAIN ss : IsList(ss[i]), NEW table
  PROVE  \E x : /\ x[0] = table /\ \A i \in 1..Len(ss) : x[i] = Run(ss[i], x[i - 1])
                /\ x[Len(ss)] = Run(FlattenSeq(ss), table)
<1> DEFINE n == Len(ss)
<1>1. n \in Nat /\ DOMAIN ss = 1..n
  BY ListFacts
<1>2. CASE n = 0
  <2>1. FlattenSeq(ss) = <<>>
    BY <1>2, Flattened
  <2> DEFINE x == [i \in 0..0 |-> table]
  <2>2. x[0] = table /\ x[n] = Run(FlattenSeq(ss), table) /\ 1..n = {}
    BY <1>2, <2>1, RunShort
  <2> HIDE DEF x
  <2> QED
    BY <2>2
<1>3. CASE n # 0
  <2>1. PICK f : /\ f[1] = ss[1] /\ \A i \in 2..n : f[i] = f[i - 1] \o ss[i]
                 /\ FlattenSeq(ss) = f[n]
    BY <1>3, Flattened
  <2> DEFINE S == {m \in 0..n : m = 0 \/ IsList(f[m])}
  <2>2. 0 \in S
    BY <1>1
  <2>3. ASSUME NEW m \in 1..n, m - 1 \in S PROVE m \in S
    <3>1. m \in 0..n /\ IsList(ss[m])
      BY <1>1
    <3>2. CASE m = 1
      BY <2>1, <3>1, <3>2
    <3>3. CASE m # 1
      <4>1. f[m] = f[m - 1] \o ss[m] /\ IsList(f[m - 1])
        <5>1. m \in 2..n /\ m - 1 # 0
          BY <3>3, <1>1
        <5> QED
          BY <5>1, <2>1, <2>3
      <4>2. IsList(f[m])
        BY <3>1, <4>1, Joined
      <4> QED
        BY <3>1, <4>2
    <3> QED
      BY <3>2, <3>3
  <2>4. \A m \in 0..n : m \in S
    <3> HIDE DEF S
    <3> QED
      BY <1>1, <2>2, <2>3, Climb
  <2>5. \A m \in 1..n : IsList(f[m])
    BY <2>4, <1>1
  <2> DEFINE x == [i \in 0..n |-> IF i = 0 THEN table ELSE Run(f[i], table)]
  <2>6. ASSUME NEW i \in 1..n PROVE x[i] = Run(ss[i], x[i - 1])
    <3>1. x[i] = Run(f[i], table) /\ IsList(ss[i])
      BY <1>1
    <3>2. CASE i = 1
      <4>1. x[i - 1] = table
        BY <1>1, <3>2
      <4> QED
        BY <3>1, <3>2, <4>1, <2>1
    <3>3. CASE i # 1
      <4>1. i - 1 \in 1..n /\ i \in 2..n /\ i - 1 \in 0..n /\ i - 1 # 0
        BY <1>1, <3>3
      <4>2. x[i - 1] = Run(f[i - 1], table) /\ IsList(f[i - 1]) /\ f[i] = f[i - 1] \o ss[i]
        BY <4>1, <2>1, <2>5
      <4> HIDE DEF x
      <4> QED
        BY <3>1, <4>2, RunJoined
    <3> QED
      BY <3>2, <3>3
  <2>7. x[0] = table /\ x[n] = Run(FlattenSeq(ss), table)
    BY <1>1, <1>3, <2>1
  <2> HIDE DEF x
  <2> QED
    BY <2>6, <2>7
<1> QED
  BY <1>2, <1>3

(***************************************************************************)
(* Chains of rules                                                         *)
(***************************************************************************)
LEMMA Stripped ==
  ASSUME NEW s, IsList(s)
  PROVE  \E w : /\ w[0] = <<>>
                /\ \A i \in 1..Len(s) : w[i] = IF IsHook(s[i]) THEN w[i - 1] ELSE Append(w[i - 1], s[i])
                /\ WithoutHooks(s) = w[Len(s)]
<1> DEFINE n == Len(s)
           Step(f, i) == IF i = 0 THEN <<>> ELSE IF IsHook(s[i]) THEN f[i - 1] ELSE Append(f[i - 1], s[i])
           Goes(f, m) == f = [i \in 0..m |-> Step(f, i)]
           able == {m \in 0..n : \E f : Goes(f, m)}
<1>1. n \in Nat
  BY ListFacts
<1>2. 0 \in able
  <2> DEFINE f == [i \in 0..0 |-> <<>>]
  <2>1. \A i \in 0..0 : f[i] = Step(f, i)
    OBVIOUS
  <2>2. Goes(f, 0) /\ 0 \in 0..n
    BY <2>1, <1>1
  <2> HIDE DEF Goes
  <2> QED
    BY <2>2
<1>3. ASSUME NEW m \in 1..n, m - 1 \in able PROVE m \in able
  <2>1. PICK f : Goes(f, m - 1)
    BY <1>3
  <2> DEFINE g == [i \in 0..m |-> IF i = m THEN Step(f, m) ELSE f[i]]
  <2>2. \A i \in 0..(m - 1) : f[i] = Step(f, i)
    BY <2>1
  <2>3. ASSUME NEW i \in 0..m PROVE g[i] = Step(g, i)
    <3>1. i # 0 => i - 1 \in 0..m /\ i - 1 # m
      BY <1>1
    <3>2. i # 0 => g[i - 1] = f[i - 1]
      BY <3>1
    <3>3. g[i] = Step(f, i)
      <4>1. i # m => i \in 0..(m - 1)
        BY <1>1
      <4> QED
        BY <4>1, <2>2
    <3> HIDE DEF g
    <3> QED
      BY <3>2, <3>3
  <2>4. Goes(g, m)
    BY <2>3
  <2>5. m \in 0..n
    BY <1>1
  <2> HIDE DEF Goes, g
  <2> QED
    BY <2>4, <2>5
<1>4. n \in able
  <2>1. \A i \in 0..n : i \in able
    <3> HIDE DEF able
    <3> QED
      BY <1>1, <1>2, <1>3, Climb
  <2>2. n \in 0..n
    BY <1>1
  <2> HIDE DEF able
  <2> QED
    BY <2>1, <2>2
<1> DEFINE f == CHOOSE f : Goes(f, n)
<1>5. Goes(f, n)
  BY <1>4, ZenonT(60)
<1>6. WithoutHooks(s) = f[n]
  BY DEF WithoutHooks
<1> HIDE DEF f
<1>7. \A i \in 0..n : f[i] = Step(f, i)
  BY <1>5, ZenonT(60)
<1>8. f[0] = <<>> /\ \A i \in 1..n : f[i] = IF IsHook(s[i]) THEN f[i - 1] ELSE Append(f[i - 1], s[i])
  BY <1>1, <1>7
<1> QED
  BY <1>6, <1>8

\* What RemoveFirst leaves.
LEMMA Removal ==
  ASSUME NEW s, IsList(s), NEW r \in Members(s)
  PROVE  \E k \in DOMAIN s :
           /\ s[k] = r /\ \A j \in 1..(k - 1) : s[j] # r
           /\ IsList(RemoveFirst(s, r)) /\ Len(RemoveFirst(s, r)) = Len(s) - 1
           /\ \A i \in 1..(k - 1) : RemoveFirst(s, r)[i] = s[i]
           /\ \A i \in k..(Len(s) - 1) : RemoveFirst(s, r)[i] = s[i + 1]
<1> DEFINE n == Len(s)
           I == {i \in 1..n : s[i] = r}
           k == Min(I)
<1>1. n \in Nat /\ DOMAIN s = 1..n /\ s \in Seq(Members(s))
  BY ListFacts
<1>2. I # {} /\ I \subseteq Nat
  BY <1>1 DEF Members
<1>3. k \in I /\ \A j \in I : k <= j
  <2>1. \E m \in I : \A j \in I : m <= j
    BY <1>2, Least
  <2> QED
    BY <2>1 DEF Min
<1>4. RemoveFirst(s, r) = SubSeq(s, 1, k - 1) \o SubSeq(s, k + 1, n)
  <2>1. \E i \in 1..n : s[i] = r
    BY <1>2
  <2>2. SelectInSeq(s, LAMBDA v : v = r) = k
    BY <1>2 DEF SelectInSeq
  <2> HIDE DEF k
  <2> QED
    BY <2>1, <2>2 DEF RemoveFirst, RemoveAt
<1> DEFINE a == SubSeq(s, 1, k - 1)
           b == SubSeq(s, k + 1, n)
<1> HIDE DEF k
<1>5. k \in 1..n /\ s[k] = r /\ \A j \in 1..(k - 1) : s[j] # r
  BY <1>1, <1>3
<1>6. a \in Seq(Members(s)) /\ Len(a) = k - 1 /\ \A i \in 1..(k - 1) : a[i] = s[i]
  BY <1>1, <1>5
<1>7. b \in Seq(Members(s)) /\ Len(b) = n - k /\ \A i \in 1..(n - k) : b[i] = s[k + i]
  <2>1. k + 1 \in 1..(n + 1) /\ n \in k..n /\ n - (k + 1) + 1 = n - k
    BY <1>1, <1>5
  <2>2. b \in Seq(Members(s)) /\ Len(b) = n - (k + 1) + 1 /\ \A i \in 1..(n - (k + 1) + 1) : b[i] = s[(k + 1) + i - 1]
    <3> DEFINE m == k + 1
    <3>1. m \in 1..(n + 1) /\ m \in Int
      BY <2>1
    <3>2. b = SubSeq(s, m, n)
      OBVIOUS
    <3> HIDE DEF m, b
    <3>3. b \in Seq(Members(s)) /\ Len(b) = n - m + 1 /\ \A i \in 1..(n - m + 1) : b[i] = s[m + i - 1]
      BY <3>1, <3>2, <1>1
    <3> QED
      BY <3>3 DEF m
  <2> HIDE DEF b
  <2>3. \A i \in 1..(n - k) : (k + 1) + i - 1 = k + i
    BY <1>1, <1>5
  <2> QED
    BY <2>1, <2>2, <2>3
<1> HIDE DEF a, b
<1>8. /\ IsList(a \o b) /\ Len(a \o b) = n - 1
      /\ (\A i \in 1..(k - 1) : (a \o b)[i] = a[i]) /\ \A i \in 1..(n - k) : (a \o b)[(k - 1) + i] = b[i]
  <2>1. IsList(a) /\ IsList(b)
    BY <1>6, <1>7, ListFacts
  <2>2. /\ IsList(a \o b) /\ Len(a \o b) = Len(a) + Len(b)
        /\ (\A i \in 1..Len(a) : (a \o b)[i] = a[i]) /\ \A i \in 1..Len(b) : (a \o b)[Len(a) + i] = b[i]
    BY <2>1, Joined
  <2>3. Len(a) = k - 1 /\ Len(b) = n - k /\ (k - 1) + (n - k) = n - 1
    BY <1>1, <1>5, <1>6, <1>7
  <2> QED
    BY <2>2, <2>3
<1>9. ASSUME NEW i \in k..(n - 1) PROVE (a \o b)[i] = s[i + 1]
  <2>1. i - (k - 1) \in 1..(n - k) /\ (k - 1) + (i - (k - 1)) = i /\ k + (i - (k - 1)) = i + 1
    BY <1>1, <1>5
  <2> DEFINE j == i - (k - 1)
  <2>2. j \in 1..(n - k) /\ (k - 1) + j = i /\ k + j = i + 1
    BY <2>1
  <2> HIDE DEF j
  <2>3. (a \o b)[(k - 1) + j] = b[j] /\ b[j] = s[k + j]
    BY <2>2, <1>7, <1>8
  <2> QED
    BY <2>2, <2>3
<1>10. RemoveFirst(s, r) = a \o b
  BY <1>4 DEF a, b
<1> QED
  BY <1>1, <1>5, <1>6, <1>8, <1>9, <1>10, ZenonT(60)

LEMMA HookInFront ==
  ASSUME NEW s, IsList(s), NEW r, IsHook(r)
  PROVE  WithoutHooks(<<r>> \o s) = WithoutHooks(s)
<1> DEFINE t == <<r>> \o s
           n == Len(s)
<1>1. n \in Nat /\ IsList(t) /\ Len(t) = n + 1 /\ t[1] = r /\ \A i \in 1..n : t[i + 1] = s[i]
  <2>1. IsList(<<r>>) /\ Len(<<r>>) = 1 /\ <<r>>[1] = r
    BY Short
  <2> DEFINE first == <<r>>
  <2> HIDE DEF first
  <2>2. /\ n \in Nat /\ IsList(first \o s) /\ Len(first \o s) = 1 + n /\ (first \o s)[1] = r
        /\ \A i \in 1..n : (first \o s)[1 + i] = s[i]
    <3>1. n \in Nat
      BY ListFacts
    <3> QED
      BY <2>1, <3>1, Joined DEF first
  <2> QED
    BY <2>2 DEF first
<1> HIDE DEF t
<1>2. PICK w : /\ w[0] = <<>>
               /\ \A i \in 1..n : w[i] = IF IsHook(s[i]) THEN w[i - 1] ELSE Append(w[i - 1], s[i])
               /\ WithoutHooks(s) = w[n]
  BY Stripped
<1>3. PICK z : /\ z[0] = <<>>
               /\ \A i \in 1..(n + 1) : z[i] = IF IsHook(t[i]) THEN z[i - 1] ELSE Append(z[i - 1], t[i])
               /\ WithoutHooks(t) = z[n + 1]
  <2>1. \E z : /\ z[0] = <<>>
               /\ \A i \in 1..Len(t) : z[i] = IF IsHook(t[i]) THEN z[i - 1] ELSE Append(z[i - 1], t[i])
               /\ WithoutHooks(t) = z[Len(t)]
    BY <1>1, Stripped
  <2> QED
    BY <2>1, <1>1
<1> HIDE DEF n
<1> DEFINE S == {i \in 0..n : z[i + 1] = w[i]}
<1>4. 0 \in S
  <2>1. 1 \in 1..(n + 1) /\ 0 \in 0..n
    BY <1>1
  <2>2. z[1] = z[1 - 1]
    BY <2>1, <1>1, <1>3
  <2> QED
    BY <2>1, <2>2, <1>2, <1>3
<1>5. ASSUME NEW i \in 1..n, i - 1 \in S PROVE i \in S
  <2>1. i + 1 \in 1..(n + 1) /\ i \in 0..n /\ (i + 1) - 1 = i /\ (i - 1) + 1 = i
    BY <1>1
  <2>2. z[i] = w[i - 1] /\ t[i + 1] = s[i]
    BY <2>1, <1>1, <1>5
  <2>3. z[i + 1] = IF IsHook(t[i + 1]) THEN z[(i + 1) - 1] ELSE Append(z[(i + 1) - 1], t[i + 1])
    BY <2>1, <1>3
  <2>4. z[i + 1] = w[i]
    BY <2>1, <2>2, <2>3, <1>2
  <2> QED
    BY <2>1, <2>4
<1>6. \A i \in 0..n : i \in S
  <2> HIDE DEF S
  <2> QED
    BY <1>1, <1>4, <1>5, Climb
<1> QED
  BY <1>1, <1>2, <1>3, <1>6 DEF t

LEMMA HookRemoved ==
  ASSUME NEW s, IsList(s), NEW r \in Members(s), IsHook(r)
  PROVE  WithoutHooks(RemoveFirst(s, r)) = WithoutHooks(s)
<1> DEFINE n == Len(s)
           t == RemoveFirst(s, r)
<1>1. n \in Nat /\ DOMAIN s = 1..n
  BY ListFacts
<1>2. PICK k \in DOMAIN s : /\ s[k] = r /\ IsList(t) /\ Len(t) = n - 1
                            /\ \A i \in 1..(k - 1) : t[i] = s[i]
                            /\ \A i \in k..(n - 1) : t[i] = s[i + 1]
  BY Removal
<1> HIDE DEF t
<1>3. PICK w : /\ w[0] = <<>>
               /\ \A i \in 1..n : w[i] = IF IsHook(s[i]) THEN w[i - 1] ELSE Append(w[i - 1], s[i])
               /\ WithoutHooks(s) = w[n]
  BY Stripped
<1>4. PICK z : /\ z[0] = <<>>
               /\ \A i \in 1..(n - 1) : z[i] = IF IsHook(t[i]) THEN z[i - 1] ELSE Append(z[i - 1], t[i])
               /\ WithoutHooks(t) = z[n - 1]
  <2>1. \E z : /\ z[0] = <<>>
               /\ \A i \in 1..Len(t) : z[i] = IF IsHook(t[i]) THEN z[i - 1] ELSE Append(z[i - 1], t[i])
               /\ WithoutHooks(t) = z[Len(t)]
    BY <1>2, Stripped
  <2> QED
    BY <2>1, <1>2
<1> HIDE DEF n
<1>5. k \in 1..n
  BY <1>1
\* Before its place nothing differs, and from there on the longer list is one behind.
<1> DEFINE S == {i \in 0..n : (i < k => z[i] = w[i]) /\ (i >= k => z[i - 1] = w[i])}
<1>6. 0 \in S
  BY <1>1, <1>3, <1>4, <1>5
<1>7. ASSUME NEW i \in 1..n, i - 1 \in S PROVE i \in S
  <2>1. i \in 0..n
    BY <1>1
  <2>2. CASE i < k
    <3>1. i \in 1..(n - 1) /\ i \in 1..(k - 1) /\ i - 1 < k
      BY <2>2, <1>1, <1>5
    <3>2. z[i - 1] = w[i - 1] /\ t[i] = s[i]
      BY <3>1, <1>2, <1>7
    <3>3. z[i] = w[i]
      BY <3>1, <3>2, <1>3, <1>4
    <3> QED
      BY <2>1, <2>2, <3>3, <1>5
  <2>3. CASE i = k
    <3>1. i - 1 < k /\ ~(i < k)
      BY <2>3, <1>5
    <3>2. z[i - 1] = w[i - 1]
      BY <3>1, <1>7
    <3>3. w[i] = w[i - 1]
      BY <2>3, <1>2, <1>3
    <3> QED
      BY <2>1, <3>1, <3>2, <3>3
  <2>4. CASE i > k
    <3>1. i - 1 \in 1..(n - 1) /\ i - 1 \in k..(n - 1) /\ i - 1 >= k /\ ~(i < k) /\ (i - 1) + 1 = i
      BY <2>4, <1>1, <1>5
    <3>2. z[(i - 1) - 1] = w[i - 1]
      BY <3>1, <1>7
    <3>3. t[i - 1] = s[i]
      BY <3>1, <1>2
    <3>4. z[i - 1] = w[i]
      BY <3>1, <3>2, <3>3, <1>3, <1>4
    <3> QED
      BY <2>1, <3>1, <3>4
  <2> QED
    BY <2>2, <2>3, <2>4, <1>1, <1>5
<1>8. \A i \in 0..n : i \in S
  <2> HIDE DEF S
  <2> QED
    BY <1>1, <1>6, <1>7, Climb
<1>9. n \in S /\ n >= k
  BY <1>1, <1>5, <1>8
<1> QED
  BY <1>3, <1>4, <1>9 DEF t

\* How often a rule is there.
LEMMA Counted ==
  ASSUME NEW s, IsList(s), NEW r
  PROVE  /\ Count(s, r) \in Nat
         /\ Count(s, r) = 0 <=> r \notin Members(s)
         /\ Count(s, r) <= 1 <=> \A i, j \in DOMAIN s : s[i] = r /\ s[j] = r => i = j
<1> DEFINE I == {i \in DOMAIN s : s[i] = r}
<1>1. IsFiniteSet(I)
  <2>1. DOMAIN s = 1..Len(s) /\ Len(s) \in Nat
    BY ListFacts
  <2>2. IsFiniteSet(1..Len(s)) /\ I \subseteq 1..Len(s)
    BY <2>1, FS_Interval
  <2> QED
    BY <2>2, FS_Subset
<1>2. Count(s, r) = Cardinality(I)
  BY DEF Count
<1>3. Cardinality(I) \in Nat /\ (Cardinality(I) = 0 <=> I = {})
  BY <1>1, FS_CardinalityType, FS_EmptySet
<1>4. Cardinality(I) = 1 <=> \E x : I = {x}
  BY <1>1, FS_Singleton
<1>5. I = {} <=> r \notin Members(s)
  BY DEF Members
<1>6. Cardinality(I) <= 1 <=> \A i, j \in I : i = j
  <2> HIDE DEF I
  <2>1. Cardinality(I) <= 1 <=> Cardinality(I) = 0 \/ Cardinality(I) = 1
    BY <1>3
  <2>2. (I = {} \/ \E x : I = {x}) <=> \A i, j \in I : i = j
    OBVIOUS
  <2> QED
    BY <2>1, <2>2, <1>3, <1>4
<1>7. (\A i, j \in I : i = j) <=> \A i, j \in DOMAIN s : s[i] = r /\ s[j] = r => i = j
  OBVIOUS
<1> HIDE DEF I
<1> QED
  BY <1>2, <1>3, <1>5, <1>6, <1>7

(***************************************************************************)
(* Tables                                                                  *)
(***************************************************************************)
IsTable(x) == x = [c \in DOMAIN x |-> x[c]] /\ \A c \in DOMAIN x : IsList(x[c])
Deeds == {"declare", "flush", "delete", "insert", "append", "remove"}

\* A command that is accepted changes one chain.
LEMMA Outcomes ==
  ASSUME NEW x, IsTable(x), NEW cmd, cmd.do \in Deeds, x # None, NEW y, y = Do(x, cmd), y # None
  PROVE  /\ IsTable(y)
         /\ \A d : d # cmd.chain => (d \in DOMAIN x <=> d \in DOMAIN y) /\ (d \in DOMAIN x => y[d] = x[d])
         /\ cmd.do = "declare" => cmd.chain \in DOMAIN y /\ y[cmd.chain] = <<>>
         /\ cmd.do # "declare" => cmd.chain \in DOMAIN x
         /\ cmd.do # "remove" => cmd.chain \in DOMAIN y
         /\ cmd.do = "flush" => y[cmd.chain] = <<>>
         /\ cmd.do = "delete" =>
              cmd.rule \in Members(x[cmd.chain]) /\ y[cmd.chain] = RemoveFirst(x[cmd.chain], cmd.rule)
         /\ cmd.do \in {"insert", "append"} => cmd.rule.to = None \/ cmd.rule.to \in DOMAIN x
         /\ cmd.do = "insert" => y[cmd.chain] = <<cmd.rule>> \o x[cmd.chain]
         /\ cmd.do = "append" => y[cmd.chain] = x[cmd.chain] \o <<cmd.rule>>
         /\ cmd.do = "remove" => x[cmd.chain] = <<>> /\ cmd.chain \notin DOMAIN y /\ ~Jumps(x, cmd.chain)
<1> DEFINE c == cmd.chain
           r == cmd.rule
<1>1. CASE cmd.do = "declare"
  <2>1. y = Extend(x, c, <<>>)
    BY <1>1 DEF Do
  <2>2. /\ DOMAIN y = DOMAIN x \cup {c} /\ y[c] = <<>> /\ (\A d \in DOMAIN x : d # c => y[d] = x[d])
        /\ y = [d \in DOMAIN y |-> y[d]]
    BY <2>1 DEF Extend
  <2> HIDE DEF c
  <2>3. IsTable(y)
    BY <2>2, Short DEF IsTable
  <2> QED
    BY <1>1, <2>2, <2>3 DEF c
<1>2. CASE cmd.do # "declare"
  <2>1. c \in DOMAIN x
    BY <1>2 DEF Do
  <2>2. ASSUME NEW new, IsList(new), y = [x EXCEPT ![c] = new]
        PROVE  /\ IsTable(y) /\ DOMAIN y = DOMAIN x /\ y[c] = new /\ \A d \in DOMAIN x : d # c => y[d] = x[d]
    <3> HIDE DEF c
    <3> QED
      BY <2>1, <2>2 DEF IsTable
  <2>3. IsList(x[c])
    BY <2>1 DEF IsTable
  <2>4. CASE cmd.do = "flush"
    <3>1. y = [x EXCEPT ![c] = <<>>]
      BY <2>4, <2>1 DEF Do
    <3> QED
      BY <2>1, <2>2, <2>4, <3>1, Short
  <2>5. CASE cmd.do = "delete"
    <3>1. Count(x[c], r) # 0 /\ y = [x EXCEPT ![c] = RemoveFirst(x[c], r)]
      BY <2>5, <2>1 DEF Do
    <3>2. r \in Members(x[c])
      BY <2>3, <3>1, Counted
    <3>3. IsList(RemoveFirst(x[c], r))
      BY <2>3, <3>2, Removal
    <3>4. /\ IsTable(y) /\ DOMAIN y = DOMAIN x /\ y[c] = RemoveFirst(x[c], r) /\ \A d \in DOMAIN x : d # c => y[d] = x[d]
      BY <2>2, <3>1, <3>3
    <3> QED
      BY <2>1, <2>5, <3>2, <3>4
  <2>6. CASE cmd.do = "insert"
    <3>1. (r.to = None \/ r.to \in DOMAIN x) /\ y = [x EXCEPT ![c] = <<r>> \o x[c]]
      BY <2>6, <2>1 DEF Do
    <3>2. IsList(<<r>> \o x[c])
      BY <2>3, Short, Joined
    <3>3. /\ IsTable(y) /\ DOMAIN y = DOMAIN x /\ y[c] = <<r>> \o x[c] /\ \A d \in DOMAIN x : d # c => y[d] = x[d]
      BY <2>2, <3>1, <3>2
    <3> QED
      BY <2>1, <2>6, <3>1, <3>3
  <2>7. CASE cmd.do = "append"
    <3>1. (r.to = None \/ r.to \in DOMAIN x) /\ y = [x EXCEPT ![c] = x[c] \o <<r>>]
      BY <2>7, <2>1 DEF Do
    <3>2. IsList(x[c] \o <<r>>)
      BY <2>3, Short, Joined
    <3>3. /\ IsTable(y) /\ DOMAIN y = DOMAIN x /\ y[c] = x[c] \o <<r>> /\ \A d \in DOMAIN x : d # c => y[d] = x[d]
      BY <2>2, <3>1, <3>2
    <3> QED
      BY <2>1, <2>7, <3>1, <3>3
  <2>8. CASE cmd.do = "remove"
    <3>1. x[c] = <<>> /\ ~Jumps(x, c) /\ y = [d \in DOMAIN x \ {c} |-> x[d]]
      BY <2>8, <2>1 DEF Do
    <3>2. DOMAIN y = DOMAIN x \ {c} /\ (\A d \in DOMAIN y : y[d] = x[d]) /\ y = [d \in DOMAIN y |-> y[d]]
      BY <3>1
    <3> HIDE DEF c
    <3>3. IsTable(y)
      BY <3>2 DEF IsTable
    <3> QED
      BY <2>1, <2>8, <3>1, <3>2, <3>3 DEF c
  <2> QED
    BY <1>2, <2>4, <2>5, <2>6, <2>7, <2>8 DEF Deeds
<1> QED
  BY <1>1, <1>2

\* A command that is refused stops the run.
LEMMA Refused == \A cmd : Do(None, cmd) = None
BY DEF Do

\* The tables a run goes through when none of its commands is refused.
LEMMA RunSteps ==
  ASSUME NEW x, IsTable(x), NEW s, IsList(s), \A i \in 1..Len(s) : s[i].do \in Deeds, Run(s, x) # None
  PROVE  \E y : /\ y[0] = x /\ y[Len(s)] = Run(s, x)
                /\ \A i \in 0..Len(s) : IsTable(y[i]) /\ y[i] # None
                /\ \A i \in 1..Len(s) : y[i] = Do(y[i - 1], s[i])
<1> DEFINE n == Len(s)
<1>1. n \in Nat
  BY ListFacts
<1>2. PICK y : y[0] = x /\ (\A i \in 1..n : y[i] = Do(y[i - 1], s[i])) /\ y[n] = Run(s, x)
  BY RunIs
<1> HIDE DEF n
<1> DEFINE S == {i \in 0..n : y[n - i] # None}
<1>3. \A i \in 0..n : i \in S
  <2>1. 0 \in S
    BY <1>1, <1>2 DEF n
  <2>2. ASSUME NEW i \in 1..n, i - 1 \in S PROVE i \in S
    <3>1. n - (i - 1) \in 1..n /\ (n - (i - 1)) - 1 = n - i /\ i \in 0..n
      BY <1>1
    <3>2. y[n - (i - 1)] = Do(y[n - i], s[n - (i - 1)]) /\ y[n - (i - 1)] # None
      BY <3>1, <1>2, <2>2
    <3>3. y[n - i] # None
      BY <3>2, Refused
    <3> QED
      BY <3>1, <3>3
  <2> HIDE DEF S
  <2> QED
    BY <1>1, <2>1, <2>2, Climb
<1>4. ASSUME NEW i \in 0..n PROVE y[i] # None
  <2>1. n - i \in 0..n /\ n - (n - i) = i
    BY <1>1
  <2>2. y[n - (n - i)] # None
    BY <2>1, <1>3
  <2> QED
    BY <2>1, <2>2
<1> DEFINE T == {i \in 0..n : IsTable(y[i])}
<1>5. \A i \in 0..n : i \in T
  <2>1. 0 \in T
    BY <1>1, <1>2
  <2>2. ASSUME NEW i \in 1..n, i - 1 \in T PROVE i \in T
    <3>1. i \in 0..n /\ i - 1 \in 0..n
      BY <1>1
    <3>2. y[i] = Do(y[i - 1], s[i]) /\ y[i] # None /\ y[i - 1] # None /\ IsTable(y[i - 1]) /\ s[i].do \in Deeds
      BY <3>1, <1>2, <1>4, <2>2 DEF n
    <3> DEFINE before == y[i - 1]
               after == y[i]
               cmd == s[i]
    <3> HIDE DEF before, after, cmd
    <3>3. IsTable(before) /\ before # None /\ cmd.do \in Deeds /\ after = Do(before, cmd) /\ after # None
      BY <3>2 DEF before, after, cmd
    <3>4. IsTable(after)
      BY <3>3, Outcomes
    <3> QED
      BY <3>1, <3>4 DEF after
  <2> HIDE DEF T
  <2> QED
    BY <1>1, <2>1, <2>2, Climb
<1> QED
  BY <1>2, <1>4, <1>5 DEF n

(***************************************************************************)
(* Rules of other programs                                                 *)
(***************************************************************************)
\* The command is about a chain of the suite, or a hook in a chain of another program.
Suitable(cmd) ==
  \/ /\ cmd.chain \in SuiteChain
     /\ cmd.do \in {"declare", "flush", "append", "remove"}
     /\ cmd.do = "append" => ~IsHook(cmd.rule)
  \/ /\ cmd.chain \notin SuiteChain
     /\ cmd.do \in {"insert", "delete"}
     /\ IsHook(cmd.rule)

OthersIn(x) == [c \in DOMAIN x \ SuiteChain |-> WithoutHooks(x[c])]

LEMMA DoKeepsOthers ==
  ASSUME NEW x, IsTable(x), x # None, NEW cmd, Suitable(cmd), NEW y, y = Do(x, cmd), y # None
  PROVE  OthersIn(y) = OthersIn(x)
<1> DEFINE at == cmd.chain
<1>3. cmd.do \in Deeds /\ (at \in SuiteChain \/ (cmd.do \in {"insert", "delete"} /\ IsHook(cmd.rule)))
  BY DEF Suitable, Deeds
<1>4. /\ \A d : d # at => (d \in DOMAIN x <=> d \in DOMAIN y) /\ (d \in DOMAIN x => y[d] = x[d])
      /\ cmd.do # "declare" => at \in DOMAIN x
      /\ cmd.do # "remove" => at \in DOMAIN y
      /\ cmd.do = "delete" => cmd.rule \in Members(x[at]) /\ y[at] = RemoveFirst(x[at], cmd.rule)
      /\ cmd.do = "insert" => y[at] = <<cmd.rule>> \o x[at]
  BY <1>3, Outcomes
<1> HIDE DEF at
<1>1. DOMAIN y \ SuiteChain = DOMAIN x \ SuiteChain
  BY <1>3, <1>4
<1>2. ASSUME NEW c \in DOMAIN x \ SuiteChain PROVE WithoutHooks(y[c]) = WithoutHooks(x[c])
  <2>1. CASE c # at
    <3>1. y[c] = x[c]
      BY <2>1, <1>4
    <3> QED
      BY <3>1
  <2>2. CASE c = at
    <3>1. IsList(x[c])
      BY DEF IsTable
    <3>2. CASE cmd.do = "insert"
      <4>1. y[c] = <<cmd.rule>> \o x[c] /\ IsHook(cmd.rule)
        BY <2>2, <3>2, <1>3, <1>4
      <4> QED
        BY <3>1, <4>1, HookInFront
    <3>3. CASE cmd.do = "delete"
      <4>1. y[c] = RemoveFirst(x[c], cmd.rule) /\ cmd.rule \in Members(x[c]) /\ IsHook(cmd.rule)
        BY <2>2, <3>3, <1>3, <1>4
      <4> QED
        BY <3>1, <4>1, HookRemoved
    <3> QED
      BY <2>2, <3>2, <3>3, <1>3
  <2> QED
    BY <2>1, <2>2
<1> QED
  BY <1>1, <1>2 DEF OthersIn

\* So are all the commands of a run.
LEMMA RunKeepsOthers ==
  ASSUME NEW x, IsTable(x), NEW s, IsList(s), \A i \in 1..Len(s) : Suitable(s[i]), Run(s, x) # None
  PROVE  IsTable(Run(s, x)) /\ OthersIn(Run(s, x)) = OthersIn(x)
<1> DEFINE n == Len(s)
<1>1. n \in Nat /\ \A i \in 1..n : s[i].do \in Deeds
  BY ListFacts DEF Suitable, Deeds
<1>2. PICK y : /\ y[0] = x /\ y[n] = Run(s, x)
               /\ \A i \in 0..n : IsTable(y[i]) /\ y[i] # None
               /\ \A i \in 1..n : y[i] = Do(y[i - 1], s[i])
  BY <1>1, RunSteps
<1> DEFINE S == {i \in 0..n : OthersIn(y[i]) = OthersIn(x)}
<1>3. \A i \in 0..n : i \in S
  <2>1. 0 \in S
    BY <1>1, <1>2
  <2>2. ASSUME NEW i \in 1..n, i - 1 \in S PROVE i \in S
    <3>1. i \in 0..n /\ i - 1 \in 0..n
      BY <1>1
    <3>2. OthersIn(y[i]) = OthersIn(y[i - 1])
      BY <3>1, <1>2, DoKeepsOthers
    <3> QED
      BY <3>1, <3>2, <2>2
  <2> HIDE DEF S
  <2> QED
    BY <1>1, <2>1, <2>2, Climb
<1>4. n \in 0..n
  BY <1>1
<1> QED
  BY <1>2, <1>3, <1>4

(***************************************************************************)
(* What ip_transaction prepares                                            *)
(***************************************************************************)
\* A bundle has lists of rules for chains of the suite, and hooks outside of them.
IsBundle(b) ==
  /\ \A f \in Families : DOMAIN b.rules[f] \subseteq Table
  /\ \A f \in Families : \A t \in DOMAIN b.rules[f] :
       /\ DOMAIN b.rules[f][t] \subseteq SuiteChain
       /\ \A c \in DOMAIN b.rules[f][t] :
            IsList(b.rules[f][t][c]) /\ \A r \in Members(b.rules[f][t][c]) : ~IsHook(r)
  /\ IsFiniteSet(b.hooks)
  /\ \A h \in b.hooks : /\ h = [table |-> h.table, parent |-> h.parent, chain |-> h.chain]
                        /\ h.parent \notin SuiteChain /\ h.chain \in SuiteChain

LEMMA CommandIs ==
  /\ \A do, c, r : Command(do, c, r).do = do /\ Command(do, c, r).chain = c /\ Command(do, c, r).rule = r
  /\ \A do, c : Plain(do, c).do = do /\ Plain(do, c).chain = c
  /\ \A c : IsHook(Hook(c))
BY DEF Command, Plain, Hook, IsHook

\* One list for each member of a set.
LEMMA InTurn ==
  ASSUME NEW S, IsFiniteSet(S), NEW parts, parts = [i \in DOMAIN SetToSeq(S) |-> parts[i]],
         \A i \in DOMAIN SetToSeq(S) : IsList(parts[i])
  PROVE  /\ IsList(parts) /\ DOMAIN parts = DOMAIN SetToSeq(S) /\ Len(parts) = Len(SetToSeq(S))
         /\ IsList(FlattenSeq(parts))
         /\ Members(FlattenSeq(parts)) = UNION {Members(parts[i]) : i \in DOMAIN SetToSeq(S)}
<1>1. IsList(SetToSeq(S))
  BY InOrder
<1>2. IsList(parts) /\ DOMAIN parts = DOMAIN SetToSeq(S) /\ Len(parts) = Len(SetToSeq(S))
  BY <1>1, Mapped
<1> QED
  BY <1>2, Flattened

FlushOf(desired, present, c) ==
  (IF c \in DOMAIN desired THEN <<Plain("declare", c)>> ELSE <<>>) \o
  (IF c \in present \cup DOMAIN desired THEN <<Plain("flush", c)>> ELSE <<>>)
Flushes(owned, desired, present) ==
  [i \in DOMAIN SetToSeq(owned) |-> FlushOf(desired, present, SetToSeq(owned)[i])]

LEMMA FlushesList ==
  ASSUME NEW owned, IsFiniteSet(owned), owned \subseteq SuiteChain, NEW desired, NEW present
  PROVE  /\ DeclareAndFlush(owned, desired, present) = FlattenSeq(Flushes(owned, desired, present))
         /\ IsList(Flushes(owned, desired, present))
         /\ DOMAIN Flushes(owned, desired, present) = DOMAIN SetToSeq(owned)
         /\ \A i \in DOMAIN SetToSeq(owned) : IsList(Flushes(owned, desired, present)[i])
         /\ IsList(FlattenSeq(Flushes(owned, desired, present)))
         /\ \A cmd \in Members(FlattenSeq(Flushes(owned, desired, present))) : Suitable(cmd) /\ cmd.chain \in SuiteChain
<1> DEFINE order == SetToSeq(owned)
           parts == Flushes(owned, desired, present)
<1>1. DeclareAndFlush(owned, desired, present) = FlattenSeq(parts)
  BY DEF DeclareAndFlush, Each, Flushes, FlushOf
<1>2. ASSUME NEW i \in DOMAIN order
      PROVE  IsList(parts[i]) /\ \A cmd \in Members(parts[i]) : Suitable(cmd) /\ cmd.chain \in SuiteChain
  <2> DEFINE c == order[i]
             a == IF c \in DOMAIN desired THEN <<Plain("declare", c)>> ELSE <<>>
             b == IF c \in present \cup DOMAIN desired THEN <<Plain("flush", c)>> ELSE <<>>
  <2>1. c \in SuiteChain
    BY InOrder DEF Members
  <2>2. parts[i] = a \o b
    BY DEF Flushes, FlushOf
  <2>3. \A do \in {"declare", "flush"} : Suitable(Plain(do, c)) /\ Plain(do, c).chain \in SuiteChain
    BY <2>1, CommandIs DEF Suitable
  <2> HIDE DEF c
  <2>4. IsList(a) /\ IsList(b) /\ \A cmd \in Members(a) \cup Members(b) : Suitable(cmd) /\ cmd.chain \in SuiteChain
    BY <2>3, Short
  <2> HIDE DEF a, b
  <2> QED
    BY <2>2, <2>4, Joined
<1>3. parts = [i \in DOMAIN order |-> parts[i]]
  BY DEF Flushes
<1> HIDE DEF parts
<1>4. /\ IsList(parts) /\ DOMAIN parts = DOMAIN order /\ IsList(FlattenSeq(parts))
      /\ Members(FlattenSeq(parts)) = UNION {Members(parts[i]) : i \in DOMAIN order}
  BY <1>2, <1>3, InTurn
<1> QED
  BY <1>1, <1>2, <1>4 DEF parts

\* The commands for one hook.
Live(h, live) == IF h.parent \in DOMAIN live THEN Count(live[h.parent], Hook(h.chain)) ELSE 0

LEMMA HookList ==
  ASSUME NEW h, h.parent \notin SuiteChain, NEW wanted, NEW live, IsTable(live)
  PROVE  /\ IsList(HookCommands(h, wanted, live))
         /\ \A cmd \in Members(HookCommands(h, wanted, live)) : Suitable(cmd)
<1> DEFINE count == Live(h, live)
           delete == Command("delete", h.parent, Hook(h.chain))
           insert == Command("insert", h.parent, Hook(h.chain))
           a == Repeat(count, delete)
           b == IF h \in wanted THEN <<insert>> ELSE <<>>
<1>1. HookCommands(h, wanted, live) = IF h \in wanted /\ count = 1 THEN <<>> ELSE a \o b
  BY DEF HookCommands, Live
<1>2. count \in Nat
  BY Counted DEF Live, IsTable
<1>3. Suitable(delete) /\ Suitable(insert)
  BY CommandIs DEF Suitable, Deeds
<1> HIDE DEF delete, insert
<1>4. IsList(a) /\ Members(a) \subseteq {delete}
  <2>1. a \in Seq({delete})
    BY <1>2 DEF Repeat
  <2> QED
    BY <2>1, ListFacts
<1>5. IsList(b) /\ Members(b) \subseteq {insert}
  BY Short
<1> HIDE DEF a, b
<1>6. IsList(a \o b) /\ Members(a \o b) \subseteq {delete, insert}
  BY <1>4, <1>5, Joined
<1> QED
  BY <1>1, <1>3, <1>6, Short

HookParts(hooks, wanted, live) ==
  [i \in DOMAIN SetToSeq(hooks) |-> HookCommands(SetToSeq(hooks)[i], wanted, live)]

LEMMA HookPartsList ==
  ASSUME NEW hooks, IsFiniteSet(hooks), \A h \in hooks : h.parent \notin SuiteChain,
         NEW wanted, NEW live, IsTable(live)
  PROVE  /\ Each(hooks, LAMBDA h : HookCommands(h, wanted, live)) = FlattenSeq(HookParts(hooks, wanted, live))
         /\ IsList(HookParts(hooks, wanted, live))
         /\ DOMAIN HookParts(hooks, wanted, live) = DOMAIN SetToSeq(hooks)
         /\ \A i \in DOMAIN SetToSeq(hooks) : IsList(HookParts(hooks, wanted, live)[i])
         /\ IsList(FlattenSeq(HookParts(hooks, wanted, live)))
         /\ \A cmd \in Members(FlattenSeq(HookParts(hooks, wanted, live))) : Suitable(cmd)
<1> DEFINE order == SetToSeq(hooks)
           parts == HookParts(hooks, wanted, live)
<1>1. Each(hooks, LAMBDA h : HookCommands(h, wanted, live)) = FlattenSeq(parts)
  BY DEF Each, HookParts
<1>2. ASSUME NEW i \in DOMAIN order
      PROVE  IsList(parts[i]) /\ \A cmd \in Members(parts[i]) : Suitable(cmd)
  <2>1. order[i] \in hooks
    BY InOrder DEF Members
  <2>2. parts[i] = HookCommands(order[i], wanted, live)
    BY DEF HookParts
  <2> HIDE DEF order, parts
  <2> QED
    BY <2>1, <2>2, HookList
<1>3. parts = [i \in DOMAIN order |-> parts[i]]
  BY DEF HookParts
<1> HIDE DEF parts
<1>4. /\ IsList(parts) /\ DOMAIN parts = DOMAIN order /\ IsList(FlattenSeq(parts))
      /\ Members(FlattenSeq(parts)) = UNION {Members(parts[i]) : i \in DOMAIN order}
  BY <1>2, <1>3, InTurn
<1> QED
  BY <1>1, <1>2, <1>4 DEF parts

AppendsOf(desired, c) == [i \in DOMAIN desired[c] |-> Command("append", c, desired[c][i])]
AppendParts(desired) == [i \in DOMAIN SetToSeq(DOMAIN desired) |-> AppendsOf(desired, SetToSeq(DOMAIN desired)[i])]

LEMMA AppendsList ==
  ASSUME NEW desired, IsFiniteSet(DOMAIN desired), DOMAIN desired \subseteq SuiteChain,
         \A c \in DOMAIN desired : IsList(desired[c]) /\ \A r \in Members(desired[c]) : ~IsHook(r)
  PROVE  /\ Appends(desired) = FlattenSeq(AppendParts(desired))
         /\ IsList(AppendParts(desired))
         /\ DOMAIN AppendParts(desired) = DOMAIN SetToSeq(DOMAIN desired)
         /\ \A i \in DOMAIN SetToSeq(DOMAIN desired) : IsList(AppendParts(desired)[i])
         /\ IsList(FlattenSeq(AppendParts(desired)))
         /\ \A cmd \in Members(FlattenSeq(AppendParts(desired))) : Suitable(cmd) /\ cmd.chain \in SuiteChain
<1> DEFINE order == SetToSeq(DOMAIN desired)
           parts == AppendParts(desired)
<1>1. Appends(desired) = FlattenSeq(parts)
  BY DEF Appends, Each, AppendParts, AppendsOf
<1>2. ASSUME NEW i \in DOMAIN order
      PROVE  IsList(parts[i]) /\ \A cmd \in Members(parts[i]) : Suitable(cmd) /\ cmd.chain \in SuiteChain
  <2> DEFINE c == order[i]
  <2>1. c \in DOMAIN desired
    BY InOrder DEF Members
  <2>2. parts[i] = AppendsOf(desired, c)
    BY DEF AppendParts
  <2> HIDE DEF c
  <2> DEFINE list == AppendsOf(desired, c)
  <2>3. list = [j \in DOMAIN desired[c] |-> Command("append", c, desired[c][j])]
    BY DEF AppendsOf
  <2>4. IsList(list) /\ DOMAIN list = DOMAIN desired[c]
    BY <2>1, <2>3, Mapped
  <2>5. ASSUME NEW cmd \in Members(list) PROVE Suitable(cmd) /\ cmd.chain \in SuiteChain
    <3>1. PICK j \in DOMAIN desired[c] : cmd = Command("append", c, desired[c][j])
      BY <2>3 DEF Members
    <3>2. c \in SuiteChain /\ ~IsHook(desired[c][j])
      BY <2>1 DEF Members
    <3> QED
      BY <3>1, <3>2, CommandIs DEF Suitable
  <2> QED
    BY <2>2, <2>4, <2>5
<1>3. parts = [i \in DOMAIN order |-> parts[i]]
  BY DEF AppendParts
<1> HIDE DEF parts
<1>4. /\ IsList(parts) /\ DOMAIN parts = DOMAIN order /\ IsList(FlattenSeq(parts))
      /\ Members(FlattenSeq(parts)) = UNION {Members(parts[i]) : i \in DOMAIN order}
  BY <1>2, <1>3, InTurn
<1> QED
  BY <1>1, <1>2, <1>4 DEF parts

RemoveParts(gone) == [i \in DOMAIN SetToSeq(gone) |-> <<Plain("remove", SetToSeq(gone)[i])>>]

LEMMA RemovesList ==
  ASSUME NEW owned, NEW desired, NEW present, NEW gone, gone = (owned \ DOMAIN desired) \cap present,
         IsFiniteSet(gone), gone \subseteq SuiteChain
  PROVE  /\ RemoveOld(owned, desired, present) = FlattenSeq(RemoveParts(gone))
         /\ IsList(RemoveParts(gone))
         /\ DOMAIN RemoveParts(gone) = DOMAIN SetToSeq(gone)
         /\ \A i \in DOMAIN SetToSeq(gone) : IsList(RemoveParts(gone)[i])
         /\ IsList(FlattenSeq(RemoveParts(gone)))
         /\ \A cmd \in Members(FlattenSeq(RemoveParts(gone))) : Suitable(cmd) /\ cmd.chain \in SuiteChain
<1> DEFINE order == SetToSeq(gone)
           parts == RemoveParts(gone)
<1>1. RemoveOld(owned, desired, present) = FlattenSeq(parts)
  BY DEF RemoveOld, Each, RemoveParts
<1>2. ASSUME NEW i \in DOMAIN order
      PROVE  IsList(parts[i]) /\ \A cmd \in Members(parts[i]) : Suitable(cmd) /\ cmd.chain \in SuiteChain
  <2>1. order[i] \in SuiteChain
    BY InOrder DEF Members
  <2>2. parts[i] = <<Plain("remove", order[i])>>
    BY DEF RemoveParts
  <2> DEFINE cmd == Plain("remove", order[i])
  <2>3. Suitable(cmd) /\ cmd.chain \in SuiteChain
    BY <2>1, CommandIs DEF Suitable
  <2> HIDE DEF cmd
  <2>4. IsList(<<cmd>>) /\ Members(<<cmd>>) = {cmd}
    BY Short
  <2> QED
    BY <2>2, <2>3, <2>4 DEF cmd
<1>3. parts = [i \in DOMAIN order |-> parts[i]]
  BY DEF RemoveParts
<1> HIDE DEF parts
<1>4. /\ IsList(parts) /\ DOMAIN parts = DOMAIN order /\ IsList(FlattenSeq(parts))
      /\ Members(FlattenSeq(parts)) = UNION {Members(parts[i]) : i \in DOMAIN order}
  BY <1>2, <1>3, InTurn
<1> QED
  BY <1>1, <1>2, <1>4 DEF parts

Desired(target, f, t) == IF t \in DOMAIN target.rules[f] THEN target.rules[f][t] ELSE <<>>
OwnedBy(target, union, f, t) ==
  (UNION {DOMAIN b.rules[f][t] : b \in {b \in union : t \in DOMAIN b.rules[f]}}) \cup DOMAIN Desired(target, f, t)
Wanted(target) == target.hooks
HooksOf(target, union, t) == {h \in (UNION {b.hooks : b \in union}) \cup Wanted(target) : h.table = t}
Gone(target, union, live, f, t) ==
  (OwnedBy(target, union, f, t) \ DOMAIN Desired(target, f, t)) \cap DOMAIN live[f][t]

\* What the commands for a table are made from.
LEMMA Material ==
  ASSUME NEW target, IsBundle(target), NEW union, IsFiniteSet(union), \A b \in union : IsBundle(b),
         NEW f \in Families, NEW t
  PROVE  /\ OwnedBy(target, union, f, t) \subseteq SuiteChain /\ IsFiniteSet(OwnedBy(target, union, f, t))
         /\ DOMAIN Desired(target, f, t) \subseteq OwnedBy(target, union, f, t)
         /\ IsFiniteSet(DOMAIN Desired(target, f, t))
         /\ \A c \in DOMAIN Desired(target, f, t) :
              /\ IsList(Desired(target, f, t)[c]) /\ \A r \in Members(Desired(target, f, t)[c]) : ~IsHook(r)
         /\ IsFiniteSet(HooksOf(target, union, t))
         /\ \A h \in HooksOf(target, union, t) :
              /\ h = [table |-> h.table, parent |-> h.parent, chain |-> h.chain]
              /\ h.table = t /\ h.parent \notin SuiteChain /\ h.chain \in SuiteChain
<1> DEFINE desired == Desired(target, f, t)
<1>1. DOMAIN desired \subseteq SuiteChain /\ \A c \in DOMAIN desired : IsList(desired[c]) /\ \A r \in Members(desired[c]) : ~IsHook(r)
  <2>1. CASE t \in DOMAIN target.rules[f]
    <3>1. desired = target.rules[f][t] /\ IsBundle(target)
      BY <2>1 DEF Desired
    <3> HIDE DEF desired
    <3> QED
      BY <2>1, <3>1 DEF IsBundle
  <2>2. CASE t \notin DOMAIN target.rules[f]
    <3>1. desired = <<>>
      BY <2>2 DEF Desired
    <3> QED
      BY <3>1
  <2> QED
    BY <2>1, <2>2
<1>2. OwnedBy(target, union, f, t) \subseteq SuiteChain
  <2>1. \A b \in {b \in union : t \in DOMAIN b.rules[f]} : DOMAIN b.rules[f][t] \subseteq SuiteChain
    BY DEF IsBundle
  <2> HIDE DEF desired
  <2> QED
    BY <1>1, <2>1 DEF OwnedBy, desired
<1>3. DOMAIN desired \subseteq OwnedBy(target, union, f, t)
  BY DEF OwnedBy
<1>4. IsFiniteSet(SuiteChain)
  BY IptAssumption
<1>5. IsFiniteSet(HooksOf(target, union, t))
  <2> DEFINE of == {b.hooks : b \in union}
  <2>1. IsFiniteSet(of)
    <3> DEFINE m == [b \in union |-> b.hooks]
    <3>1. m \in Surjection(union, of)
      BY DEF Surjection
    <3> QED
      BY <3>1, FS_Surjection
  <2>2. \A s \in of : IsFiniteSet(s)
    BY DEF IsBundle
  <2>3. IsFiniteSet(UNION of)
    BY <2>1, <2>2, FS_UNION
  <2>4. IsFiniteSet(Wanted(target))
    BY FS_EmptySet DEF Wanted, IsBundle
  <2>5. IsFiniteSet((UNION of) \cup Wanted(target))
    BY <2>3, <2>4, FS_Union
  <2>6. HooksOf(target, union, t) \subseteq (UNION of) \cup Wanted(target)
    BY DEF HooksOf
  <2> QED
    BY <2>5, <2>6, FS_Subset
<1>6. ASSUME NEW h \in HooksOf(target, union, t)
      PROVE  /\ h = [table |-> h.table, parent |-> h.parent, chain |-> h.chain]
             /\ h.table = t /\ h.parent \notin SuiteChain /\ h.chain \in SuiteChain
  <2>1. \E b : IsBundle(b) /\ h \in b.hooks
    <3>1. CASE h \in Wanted(target)
      BY <3>1 DEF Wanted
    <3>2. CASE h \notin Wanted(target)
      BY <3>2 DEF HooksOf
    <3> QED
      BY <3>1, <3>2
  <2>2. h.table = t
    BY DEF HooksOf
  <2> QED
    BY <2>1, <2>2 DEF IsBundle
<1> QED
  BY <1>1, <1>2, <1>3, <1>4, <1>5, <1>6, FS_Subset

\* They come in four parts.
LEMMA InParts ==
  ASSUME NEW target, IsBundle(target), NEW union, IsFiniteSet(union), \A b \in union : IsBundle(b),
         NEW f \in Families, NEW t, NEW live, IsTable(live[f][t])
  PROVE  LET owned   == OwnedBy(target, union, f, t)
             desired == Desired(target, f, t)
             flushes == FlattenSeq(Flushes(owned, desired, DOMAIN live[f][t]))
             hooks   == FlattenSeq(HookParts(HooksOf(target, union, t), Wanted(target), live[f][t]))
             appends == FlattenSeq(AppendParts(desired))
             removes == FlattenSeq(RemoveParts(Gone(target, union, live, f, t)))
         IN /\ TableCommands(target, union, live, f, t) = ((flushes \o hooks) \o appends) \o removes
            /\ IsList(flushes) /\ IsList(hooks) /\ IsList(appends) /\ IsList(removes)
            /\ \A cmd \in Members(flushes) \cup Members(appends) \cup Members(removes) :
                 Suitable(cmd) /\ cmd.chain \in SuiteChain
            /\ \A cmd \in Members(hooks) : Suitable(cmd)
            /\ IsList(TableCommands(target, union, live, f, t))
            /\ \A cmd \in Members(TableCommands(target, union, live, f, t)) : Suitable(cmd)
<1> DEFINE owned   == OwnedBy(target, union, f, t)
           desired == Desired(target, f, t)
           present == DOMAIN live[f][t]
           wanted  == Wanted(target)
           hooks   == HooksOf(target, union, t)
           gone    == Gone(target, union, live, f, t)
           A == FlattenSeq(Flushes(owned, desired, present))
           B == FlattenSeq(HookParts(hooks, wanted, live[f][t]))
           C == FlattenSeq(AppendParts(desired))
           D == FlattenSeq(RemoveParts(gone))
<1>1. TableCommands(target, union, live, f, t) =
        Ordered(DeclareAndFlush(owned, desired, present),
                Each(hooks, LAMBDA h : HookCommands(h, wanted, live[f][t])),
                Appends(desired), RemoveOld(owned, desired, present))
  BY DEF TableCommands, OwnedBy, Desired, HooksOf, Wanted
<1>2. /\ owned \subseteq SuiteChain /\ IsFiniteSet(owned) /\ DOMAIN desired \subseteq owned /\ IsFiniteSet(DOMAIN desired)
      /\ \A c \in DOMAIN desired : IsList(desired[c]) /\ \A r \in Members(desired[c]) : ~IsHook(r)
      /\ IsFiniteSet(hooks) /\ \A h \in hooks : h.parent \notin SuiteChain
  BY Material
<1>3. gone = (owned \ DOMAIN desired) \cap present /\ IsFiniteSet(gone) /\ gone \subseteq SuiteChain
  <2>1. gone = (owned \ DOMAIN desired) \cap present
    BY DEF Gone
  <2> HIDE DEF gone, owned, desired
  <2> QED
    BY <2>1, <1>2, FS_Subset
<1> HIDE DEF owned, desired, present, wanted, hooks, gone
<1>4. DeclareAndFlush(owned, desired, present) = A /\ IsList(A) /\ \A cmd \in Members(A) : Suitable(cmd) /\ cmd.chain \in SuiteChain
  BY <1>2, FlushesList
<1>5. Each(hooks, LAMBDA h : HookCommands(h, wanted, live[f][t])) = B /\ IsList(B) /\ \A cmd \in Members(B) : Suitable(cmd)
  BY <1>2, HookPartsList
<1>6. Appends(desired) = C /\ IsList(C) /\ \A cmd \in Members(C) : Suitable(cmd) /\ cmd.chain \in SuiteChain
  <2>1. DOMAIN desired \subseteq SuiteChain
    BY <1>2
  <2> QED
    BY <2>1, <1>2, AppendsList
<1>7. RemoveOld(owned, desired, present) = D /\ IsList(D) /\ \A cmd \in Members(D) : Suitable(cmd) /\ cmd.chain \in SuiteChain
  BY ONLY <1>3, RemovesList DEF D
<1> HIDE DEF A, B, C, D
<1>8. TableCommands(target, union, live, f, t) = ((A \o B) \o C) \o D
  <2>1. Ordered(A, B, C, D) = ((A \o B) \o C) \o D
    BY DEF Ordered
  <2> QED
    BY <2>1, <1>1, <1>4, <1>5, <1>6, <1>7
<1>9. IsList(A \o B) /\ Members(A \o B) = Members(A) \cup Members(B)
  BY <1>4, <1>5, Joined
<1>10. IsList((A \o B) \o C) /\ Members((A \o B) \o C) = Members(A \o B) \cup Members(C)
  BY <1>6, <1>9, Joined
<1>11. IsList(((A \o B) \o C) \o D) /\ Members(((A \o B) \o C) \o D) = Members((A \o B) \o C) \cup Members(D)
  BY <1>7, <1>10, Joined
<1>12. \A cmd \in Members(((A \o B) \o C) \o D) : Suitable(cmd)
  BY <1>4, <1>5, <1>6, <1>7, <1>9, <1>10, <1>11
<1> QED
  BY <1>4, <1>5, <1>6, <1>7, <1>8, <1>11, <1>12 DEF A, B, C, D, owned, desired, present, wanted, hooks, gone

Distinct(s) == \A i, j \in DOMAIN s : s[i] = s[j] => i = j

LEMMA JoinedDistinct ==
  ASSUME NEW s, IsList(s), Distinct(s), NEW t, IsList(t), Distinct(t), Members(s) \cap Members(t) = {}
  PROVE  Distinct(s \o t)
<1> DEFINE u == s \o t
           n == Len(s)
           m == Len(t)
<1>1. /\ IsList(u) /\ Len(u) = n + m /\ n \in Nat /\ m \in Nat
      /\ (\A i \in 1..n : u[i] = s[i]) /\ \A i \in 1..m : u[n + i] = t[i]
  BY Joined, ListFacts
<1>2. DOMAIN s = 1..n /\ DOMAIN t = 1..m /\ DOMAIN u = 1..(n + m)
  BY <1>1, ListFacts
<1> HIDE DEF u, n, m
<1>3. ASSUME NEW i \in DOMAIN u
      PROVE  (i \in 1..n /\ u[i] = s[i]) \/ (i - n \in 1..m /\ u[i] = t[i - n])
  <2>1. i \in 1..n \/ i - n \in 1..m
    BY <1>1, <1>2
  <2>2. i - n \in 1..m => u[n + (i - n)] = t[i - n] /\ n + (i - n) = i
    BY <1>1, <1>2
  <2> QED
    BY <2>1, <2>2, <1>1
<1>4. ASSUME NEW i \in 1..n, NEW j \in 1..m PROVE s[i] # t[j]
  BY <1>2 DEF Members
<1>5. ASSUME NEW i \in DOMAIN u, NEW j \in DOMAIN u, u[i] = u[j] PROVE i = j
  <2>1. CASE i \in 1..n /\ u[i] = s[i] /\ j \in 1..n /\ u[j] = s[j]
    BY <2>1, <1>2, <1>5 DEF Distinct
  <2>2. CASE i - n \in 1..m /\ u[i] = t[i - n] /\ j - n \in 1..m /\ u[j] = t[j - n]
    <3>1. i - n = j - n
      BY <2>2, <1>2, <1>5 DEF Distinct
    <3> QED
      BY <3>1, <1>1, <1>2
  <2> QED
    BY <2>1, <2>2, <1>3, <1>4, <1>5
<1> QED
  BY <1>5 DEF Distinct, u

LEMMA FlattenedDistinct ==
  ASSUME NEW ss, IsList(ss), \A i \in DOMAIN ss : IsList(ss[i]) /\ Distinct(ss[i]),
         \A i, j \in DOMAIN ss : i # j => Members(ss[i]) \cap Members(ss[j]) = {}
  PROVE  Distinct(FlattenSeq(ss))
<1> DEFINE n == Len(ss)
<1>1. n \in Nat /\ DOMAIN ss = 1..n
  BY ListFacts
<1>2. CASE n = 0
  <2>1. FlattenSeq(ss) = <<>>
    BY <1>2, Flattened
  <2> QED
    BY <2>1 DEF Distinct
<1>3. CASE n # 0
  <2>1. PICK f : /\ f[1] = ss[1] /\ \A i \in 2..n : f[i] = f[i - 1] \o ss[i]
                 /\ FlattenSeq(ss) = f[n]
                 /\ \A m \in 1..n : IsList(f[m]) /\ Members(f[m]) = UNION {Members(ss[i]) : i \in 1..m}
    BY <1>3, Flattened
  <2> DEFINE S == {m \in 0..n : m = 0 \/ Distinct(f[m])}
  <2>2. 0 \in S
    BY <1>1
  <2>3. ASSUME NEW m \in 1..n, m - 1 \in S PROVE m \in S
    <3>1. m \in 0..n /\ IsList(ss[m]) /\ Distinct(ss[m])
      BY <1>1
    <3>2. CASE m = 1
      BY <2>1, <3>1, <3>2
    <3>3. CASE m # 1
      <4>1. f[m] = f[m - 1] \o ss[m] /\ Distinct(f[m - 1]) /\ m - 1 \in 1..n
        <5>1. m \in 2..n /\ m - 1 # 0 /\ m - 1 \in 1..n
          BY <3>3, <1>1
        <5> QED
          BY <5>1, <2>1, <2>3
      <4>2. IsList(f[m - 1]) /\ Members(f[m - 1]) = UNION {Members(ss[i]) : i \in 1..(m - 1)}
        BY <4>1, <2>1
      <4>3. \A i \in 1..(m - 1) : i \in DOMAIN ss /\ m \in DOMAIN ss /\ i # m
        BY <1>1
      <4>4. \A i \in 1..(m - 1) : Members(ss[i]) \cap Members(ss[m]) = {}
        BY <4>3
      <4>5. Members(f[m - 1]) \cap Members(ss[m]) = {}
        BY <4>2, <4>4
      <4>6. Distinct(f[m])
        BY <3>1, <4>1, <4>2, <4>5, JoinedDistinct
      <4> QED
        BY <3>1, <4>6
    <3> QED
      BY <3>2, <3>3
  <2>4. \A m \in 0..n : m \in S
    <3> HIDE DEF S
    <3> QED
      BY <1>1, <2>2, <2>3, Climb
  <2>5. Distinct(f[n])
    BY <2>4, <1>1, <1>3
  <2> QED
    BY <2>1, <2>5
<1> QED
  BY <1>2, <1>3

LEMMA Rest ==
  ASSUME NEW s, IsList(s), s # <<>>
  PROVE  /\ IsList(Tail(s)) /\ 1 \in DOMAIN s /\ Head(s) = s[1] /\ Len(s) \in Nat
         /\ DOMAIN Tail(s) = 1..(Len(s) - 1)
         /\ \A i \in 1..(Len(s) - 1) : i + 1 \in DOMAIN s /\ Tail(s)[i] = s[i + 1]
         /\ \A j \in DOMAIN s : j = 1 \/ \E i \in DOMAIN Tail(s) : Tail(s)[i] = s[j]
<1>1. s \in Seq(Members(s)) /\ DOMAIN s = 1..Len(s) /\ Len(s) \in Nat
  BY ListFacts
<1>2. Tail(s) \in Seq(Members(s)) /\ Len(s) # 0 /\ Head(s) = s[1]
  BY <1>1
<1>3. Len(Tail(s)) = Len(s) - 1 /\ \A i \in 1..(Len(s) - 1) : Tail(s)[i] = s[i + 1]
  BY <1>1, <1>2
<1>4. IsList(Tail(s)) /\ DOMAIN Tail(s) = 1..(Len(s) - 1)
  BY <1>2, <1>3, ListFacts
<1>5. ASSUME NEW j \in DOMAIN s, j # 1 PROVE \E i \in DOMAIN Tail(s) : Tail(s)[i] = s[j]
  <2>1. j - 1 \in 1..(Len(s) - 1) /\ (j - 1) + 1 = j
    BY <1>1, <1>5
  <2>2. Tail(s)[j - 1] = s[(j - 1) + 1]
    BY <2>1, <1>3
  <2> QED
    BY <2>1, <2>2, <1>4
<1>6. 1 \in DOMAIN s /\ \A i \in 1..(Len(s) - 1) : i + 1 \in DOMAIN s
  BY <1>1, <1>2
<1> QED
  BY <1>1, <1>2, <1>3, <1>4, <1>5, <1>6

TablesIn(union, f) == UNION {DOMAIN b.rules[f] : b \in union}
OrderOf(union, f) ==
  (IF "filter" \in TablesIn(union, f) THEN <<"filter">> ELSE <<>>) \o SetToSeq(TablesIn(union, f) \ {"filter"})
Entry(target, union, live, f, t) ==
  [family |-> f, table |-> t, commands |-> TableCommands(target, union, live, f, t)]
CommitsOf(target, union, live, f) ==
  [i \in DOMAIN OrderOf(union, f) |-> Entry(target, union, live, f, OrderOf(union, f)[i])]

LEMMA OrderIs ==
  ASSUME NEW union, \A b \in union : IsBundle(b), NEW f \in Families
  PROVE  /\ IsList(OrderOf(union, f)) /\ Distinct(OrderOf(union, f))
         /\ Members(OrderOf(union, f)) = TablesIn(union, f) /\ TablesIn(union, f) \subseteq Table
<1> DEFINE T == TablesIn(union, f)
           a == IF "filter" \in T THEN <<"filter">> ELSE <<>>
           b == SetToSeq(T \ {"filter"})
<1>1. T \subseteq Table
  BY DEF TablesIn, IsBundle
<1>2. IsFiniteSet(T \ {"filter"})
  <2>1. IsFiniteSet(Table)
    BY IptAssumption
  <2> HIDE DEF T
  <2> QED
    BY <1>1, <2>1, FS_Subset
<1>3. OrderOf(union, f) = a \o b
  BY DEF OrderOf
<1> HIDE DEF T
<1>4. IsList(b) /\ Members(b) = T \ {"filter"} /\ Distinct(b)
  BY <1>2, InOrder DEF Distinct
<1>5. IsList(a) /\ Distinct(a) /\ Members(a) = T \cap {"filter"}
  <2>1. CASE "filter" \in T
    <3>1. a = <<"filter">>
      BY <2>1
    <3>2. IsList(<<"filter">>) /\ Members(<<"filter">>) = {"filter"} /\ Distinct(<<"filter">>)
      BY Short DEF Distinct
    <3> HIDE DEF a
    <3> QED
      BY <2>1, <3>1, <3>2
  <2>2. CASE "filter" \notin T
    <3>1. a = <<>>
      BY <2>2
    <3>2. IsList(<<>>) /\ Members(<<>>) = {} /\ Distinct(<<>>)
      BY Short DEF Distinct
    <3> HIDE DEF a
    <3> QED
      BY <2>2, <3>1, <3>2
  <2> QED
    BY <2>1, <2>2
<1> HIDE DEF a, b
<1>6. IsList(a \o b) /\ Members(a \o b) = T
  <2>1. IsList(a \o b) /\ Members(a \o b) = Members(a) \cup Members(b)
    BY <1>4, <1>5, Joined
  <2> QED
    BY <2>1, <1>4, <1>5
<1>7. Distinct(a \o b)
  BY <1>4, <1>5, JoinedDistinct
<1> QED
  BY <1>1, <1>3, <1>6, <1>7 DEF T

LEMMA CommitsList ==
  ASSUME NEW target, NEW union, \A b \in union : IsBundle(b), NEW live, NEW f \in Families
  PROVE  /\ IsList(CommitsOf(target, union, live, f)) /\ Distinct(CommitsOf(target, union, live, f))
         /\ Members(CommitsOf(target, union, live, f)) = {Entry(target, union, live, f, t) : t \in TablesIn(union, f)}
<1> DEFINE order == OrderOf(union, f)
           s == CommitsOf(target, union, live, f)
<1>1. IsList(order) /\ Distinct(order) /\ Members(order) = TablesIn(union, f)
  BY OrderIs
<1>2. s = [i \in DOMAIN order |-> Entry(target, union, live, f, order[i])]
  BY DEF CommitsOf
<1> HIDE DEF order, s
<1>3. IsList(s) /\ DOMAIN s = DOMAIN order
  BY <1>1, <1>2, Mapped
<1>4. ASSUME NEW i \in DOMAIN s, NEW j \in DOMAIN s, s[i] = s[j] PROVE i = j
  <2>1. s[i].table = order[i] /\ s[j].table = order[j]
    BY <1>2, <1>3 DEF Entry
  <2> QED
    BY <2>1, <1>1, <1>3, <1>4 DEF Distinct
<1>5. Members(s) = {Entry(target, union, live, f, t) : t \in Members(order)}
  BY <1>2, <1>3 DEF Members
<1> QED
  BY <1>1, <1>3, <1>4, <1>5 DEF Distinct, s

\* One commit for each family and table that a bundle has.
LEMMA Batched ==
  ASSUME NEW target, NEW union, \A b \in union : IsBundle(b), NEW live
  PROVE  LET batched == Prepare(target, union, live) IN
         /\ IsList(batched)
         /\ \A i \in DOMAIN batched : \E f \in Families : \E t \in TablesIn(union, f) :
              t \in Table /\ batched[i] = Entry(target, union, live, f, t)
         /\ \A f \in Families : \A t \in TablesIn(union, f) :
              \E i \in DOMAIN batched : batched[i] = Entry(target, union, live, f, t)
         /\ \A i, j \in DOMAIN batched :
              batched[i].family = batched[j].family /\ batched[i].table = batched[j].table => i = j
<1> DEFINE ss == [i \in DOMAIN Family |-> CommitsOf(target, union, live, Family[i])]
           batched == Prepare(target, union, live)
<1>0. ASSUME NEW f \in Families
      PROVE  /\ IsList(CommitsOf(target, union, live, f)) /\ Distinct(CommitsOf(target, union, live, f))
             /\ Members(CommitsOf(target, union, live, f)) = {Entry(target, union, live, f, t) : t \in TablesIn(union, f)}
  BY CommitsList
<1>1. batched = FlattenSeq(ss)
  BY DEF Prepare, CommitsOf, OrderOf, TablesIn, Entry
<1>2. IsList(Family) /\ Distinct(Family)
  BY IptAssumption, ListFacts DEF Distinct, IsInjective
<1>3. \A i \in DOMAIN Family : Family[i] \in Families
  BY DEF Families, Range
<1>4. Families = {Family[i] : i \in DOMAIN Family}
  BY DEF Families, Range
<1>5. \A i \in DOMAIN Family : ss[i] = CommitsOf(target, union, live, Family[i])
  OBVIOUS
<1>6. ss = [i \in DOMAIN Family |-> ss[i]]
  OBVIOUS
<1> HIDE DEF ss, batched
<1>7. IsList(ss) /\ DOMAIN ss = DOMAIN Family
  BY <1>2, <1>6, Mapped
<1>8. ASSUME NEW i \in DOMAIN ss
      PROVE  /\ IsList(ss[i]) /\ Distinct(ss[i])
             /\ Members(ss[i]) = {Entry(target, union, live, Family[i], t) : t \in TablesIn(union, Family[i])}
  <2> DEFINE f == Family[i]
  <2>1. f \in Families /\ ss[i] = CommitsOf(target, union, live, f)
    BY <1>3, <1>5, <1>7
  <2> HIDE DEF f
  <2> QED
    BY <2>1, <1>0 DEF f
<1>9. ASSUME NEW i \in DOMAIN ss, NEW j \in DOMAIN ss, i # j PROVE Members(ss[i]) \cap Members(ss[j]) = {}
  <2>1. Family[i] # Family[j]
    BY <1>2, <1>7, <1>9 DEF Distinct
  <2>2. \A e \in Members(ss[i]) : e.family = Family[i]
    BY <1>8 DEF Entry
  <2>3. \A e \in Members(ss[j]) : e.family = Family[j]
    BY <1>8 DEF Entry
  <2> QED
    BY <2>1, <2>2, <2>3
<1>10. IsList(batched) /\ Members(batched) = UNION {Members(ss[i]) : i \in DOMAIN ss}
  BY <1>1, <1>7, <1>8, Flattened
<1>11. Distinct(batched)
  BY <1>1, <1>7, <1>8, <1>9, FlattenedDistinct
<1>12. ASSUME NEW e
       PROVE  e \in Members(batched)
                <=> \E f \in Families : \E t \in TablesIn(union, f) : e = Entry(target, union, live, f, t)
  <2>1. e \in Members(batched) <=> \E i \in DOMAIN Family : e \in Members(ss[i])
    BY <1>7, <1>10
  <2>2. \A i \in DOMAIN Family :
          e \in Members(ss[i]) <=> \E t \in TablesIn(union, Family[i]) : e = Entry(target, union, live, Family[i], t)
    BY <1>7, <1>8
  <2> QED
    BY <2>1, <2>2, <1>4
<1>13. ASSUME NEW i \in DOMAIN batched
       PROVE  \E f \in Families : \E t \in TablesIn(union, f) : t \in Table /\ batched[i] = Entry(target, union, live, f, t)
  <2>1. batched[i] \in Members(batched)
    BY DEF Members
  <2>2. PICK f \in Families : \E t \in TablesIn(union, f) : batched[i] = Entry(target, union, live, f, t)
    BY <2>1, <1>12
  <2>3. PICK t \in TablesIn(union, f) : batched[i] = Entry(target, union, live, f, t)
    BY <2>2
  <2>4. t \in Table
    BY OrderIs
  <2> QED
    BY <2>3, <2>4
<1>14. ASSUME NEW f \in Families, NEW t \in TablesIn(union, f)
       PROVE  \E i \in DOMAIN batched : batched[i] = Entry(target, union, live, f, t)
  <2>1. Entry(target, union, live, f, t) \in Members(batched)
    BY <1>12
  <2> QED
    BY <2>1 DEF Members
<1>15. ASSUME NEW i \in DOMAIN batched, NEW j \in DOMAIN batched,
              batched[i].family = batched[j].family, batched[i].table = batched[j].table
       PROVE  i = j
  <2>1. PICK f, t : batched[i] = Entry(target, union, live, f, t)
    BY <1>13
  <2>2. PICK g, u : batched[j] = Entry(target, union, live, g, u)
    BY <1>13
  <2>3. batched[i].family = f /\ batched[i].table = t /\ batched[j].family = g /\ batched[j].table = u
    BY <2>1, <2>2 DEF Entry
  <2>4. batched[i] = batched[j]
    BY <2>1, <2>2, <2>3, <1>15
  <2> QED
    BY <2>4, <1>11 DEF Distinct
<1> QED
  BY <1>10, <1>13, <1>14, <1>15 DEF batched

(***************************************************************************)
(* Hooks                                                                   *)
(***************************************************************************)
Once(s, r) == \A i, j \in DOMAIN s : s[i] = r /\ s[j] = r => i = j

LEMMA FrontIs ==
  ASSUME NEW s, IsList(s), NEW r
  PROVE  /\ IsList(<<r>> \o s) /\ Members(<<r>> \o s) = Members(s) \cup {r}
         /\ \A q : Once(s, q) /\ (q = r => q \notin Members(s)) => Once(<<r>> \o s, q)
<1> DEFINE first == <<r>>
           t == first \o s
           n == Len(s)
<1>1. IsList(first) /\ Len(first) = 1 /\ first[1] = r /\ Members(first) = {r}
  BY Short
<1> HIDE DEF first
<1>2. /\ IsList(t) /\ Len(t) = 1 + n /\ n \in Nat /\ t[1] = r /\ (\A i \in 1..n : t[1 + i] = s[i])
      /\ Members(t) = Members(s) \cup {r}
  <2>1. /\ IsList(t) /\ Len(t) = Len(first) + n
        /\ (\A i \in 1..Len(first) : t[i] = first[i]) /\ \A i \in 1..n : t[Len(first) + i] = s[i]
        /\ Members(t) = Members(first) \cup Members(s)
    <3>1. IsList(first) /\ IsList(s)
      BY <1>1
    <3> QED
      BY ONLY <3>1, Joined
  <2>2. n \in Nat
    BY ListFacts
  <2> HIDE DEF t, n
  <2> QED
    BY <1>1, <2>1, <2>2
<1>3. DOMAIN t = 1..(1 + n) /\ DOMAIN s = 1..n
  BY <1>2, ListFacts
<1> HIDE DEF t, n
<1>4. ASSUME NEW q, Once(s, q), q = r => q \notin Members(s), NEW i \in DOMAIN t, NEW j \in DOMAIN t, t[i] = q, t[j] = q
      PROVE  i = j
  <2>1. ASSUME NEW k \in DOMAIN t, k # 1 PROVE k - 1 \in DOMAIN s /\ t[k] = s[k - 1]
    <3>1. k - 1 \in 1..n /\ 1 + (k - 1) = k
      BY <2>1, <1>2, <1>3
    <3> QED
      BY <3>1, <1>2, <1>3
  <2>2. CASE i = 1 \/ j = 1
    <3>1. q = r
      BY <2>2, <1>2, <1>4
    <3>2. \A k \in DOMAIN s : s[k] # q
      BY <3>1, <1>4 DEF Members
    <3> QED
      BY <2>1, <2>2, <3>2, <1>4
  <2>3. CASE i # 1 /\ j # 1
    <3>1. i - 1 = j - 1
      BY <2>1, <2>3, <1>4 DEF Once
    <3> QED
      BY <3>1, <1>2, <1>3
  <2> QED
    BY <2>2, <2>3
<1>5. \A q : Once(s, q) /\ (q = r => q \notin Members(s)) => Once(t, q)
  BY <1>4 DEF Once
<1> QED
  BY <1>2, <1>5 DEF t, first

LEMMA BackIs ==
  ASSUME NEW s, IsList(s), NEW r
  PROVE  /\ IsList(s \o <<r>>) /\ Members(s \o <<r>>) = Members(s) \cup {r}
         /\ \A q : Once(s, q) /\ q # r => Once(s \o <<r>>, q)
<1> DEFINE last == <<r>>
           t == s \o last
           n == Len(s)
<1>1. IsList(last) /\ Len(last) = 1 /\ last[1] = r /\ Members(last) = {r}
  BY Short
<1> HIDE DEF last
<1>2. /\ IsList(t) /\ Len(t) = n + 1 /\ n \in Nat /\ t[n + 1] = r /\ (\A i \in 1..n : t[i] = s[i])
      /\ Members(t) = Members(s) \cup {r}
  <2>1. /\ IsList(t) /\ Len(t) = n + Len(last)
        /\ (\A i \in 1..n : t[i] = s[i]) /\ \A i \in 1..Len(last) : t[n + i] = last[i]
        /\ Members(t) = Members(s) \cup Members(last)
    BY <1>1, Joined, ZenonT(60)
  <2>2. n \in Nat
    BY ListFacts
  <2> HIDE DEF t, n
  <2> QED
    BY <1>1, <2>1, <2>2
<1>3. DOMAIN t = 1..(n + 1) /\ DOMAIN s = 1..n
  BY <1>2, ListFacts
<1> HIDE DEF t, n
<1>4. ASSUME NEW q, Once(s, q), q # r, NEW i \in DOMAIN t, NEW j \in DOMAIN t, t[i] = q, t[j] = q
      PROVE  i = j
  <2>1. i \in 1..n /\ j \in 1..n
    BY <1>2, <1>3, <1>4
  <2> QED
    BY <2>1, <1>2, <1>3, <1>4 DEF Once
<1>5. \A q : Once(s, q) /\ q # r => Once(t, q)
  BY <1>4 DEF Once
<1> QED
  BY <1>2, <1>5 DEF t, last

LEMMA RemovedIs ==
  ASSUME NEW s, IsList(s), NEW r \in Members(s)
  PROVE  /\ IsList(RemoveFirst(s, r)) /\ Members(RemoveFirst(s, r)) \subseteq Members(s)
         /\ \A q : q # r /\ q \in Members(s) => q \in Members(RemoveFirst(s, r))
         /\ \A q : Once(s, q) => Once(RemoveFirst(s, r), q)
         /\ Once(s, r) => r \notin Members(RemoveFirst(s, r))
<1> DEFINE t == RemoveFirst(s, r)
           n == Len(s)
<1>1. PICK k \in DOMAIN s :
           /\ s[k] = r
           /\ IsList(t) /\ Len(t) = n - 1
           /\ \A i \in 1..(k - 1) : t[i] = s[i]
           /\ \A i \in k..(n - 1) : t[i] = s[i + 1]
  BY Removal
<1>2. n \in Nat /\ DOMAIN s = 1..n
  BY ListFacts
<1> HIDE DEF t, n
<1>3. DOMAIN t = 1..(n - 1)
  BY <1>1, ListFacts
\* Where the member i of the shorter list was in the longer one.
<1> DEFINE was(i) == IF i < k THEN i ELSE i + 1
<1>4. ASSUME NEW i \in DOMAIN t PROVE was(i) \in DOMAIN s /\ was(i) # k /\ t[i] = s[was(i)]
  <2>1. CASE i < k
    <3>1. i \in 1..(k - 1)
      BY <2>1, <1>2, <1>3
    <3> QED
      BY <2>1, <3>1, <1>1, <1>2, <1>3
  <2>2. CASE ~(i < k)
    <3>1. i \in k..(n - 1) /\ i + 1 \in 1..n /\ i + 1 # k
      BY <2>2, <1>2, <1>3
    <3> QED
      BY <2>2, <3>1, <1>1, <1>2
  <2> QED
    BY <2>1, <2>2
<1>5. ASSUME NEW j \in DOMAIN s, j # k PROVE \E i \in DOMAIN t : t[i] = s[j]
  <2>1. CASE j < k
    <3>1. j \in 1..(k - 1) /\ j \in 1..(n - 1)
      BY <2>1, <1>2
    <3> QED
      BY <3>1, <1>1, <1>3
  <2>2. CASE ~(j < k)
    <3>1. j - 1 \in k..(n - 1) /\ j - 1 \in 1..(n - 1) /\ (j - 1) + 1 = j
      BY <2>2, <1>2, <1>5
    <3>2. t[j - 1] = s[(j - 1) + 1]
      BY <3>1, <1>1
    <3> QED
      BY <3>1, <3>2, <1>3
  <2> QED
    BY <2>1, <2>2
<1>6. ASSUME NEW i \in DOMAIN t, NEW j \in DOMAIN t, was(i) = was(j) PROVE i = j
  BY <1>2, <1>3, <1>6
<1> HIDE DEF was
<1>7. Members(t) \subseteq Members(s)
  BY <1>4 DEF Members
<1>8. ASSUME NEW q, q # r, q \in Members(s) PROVE q \in Members(t)
  BY <1>1, <1>5, <1>8 DEF Members
<1>9. ASSUME NEW q, Once(s, q) PROVE Once(t, q)
  BY <1>4, <1>6, <1>9 DEF Once
<1>10. ASSUME Once(s, r) PROVE r \notin Members(t)
  BY <1>1, <1>4, <1>10 DEF Once, Members
<1> QED
  BY <1>1, <1>7, <1>8, <1>9, <1>10 DEF t

Has(x, c, r) == c \in DOMAIN x /\ r \in Members(x[c])
Clean(x) == \A c \in DOMAIN x \cap SuiteChain : \A r \in Members(x[c]) : ~IsHook(r)
Single(x) == \A c \in DOMAIN x \ SuiteChain : \A d \in SuiteChain : Once(x[c], Hook(d))
Sound(x) == IsTable(x) /\ Clean(x) /\ Single(x)

\* What a run leaves of the chains that its commands are not about.
SameBeyond(x, y, S) ==
  \A c : c \notin S => (c \in DOMAIN x <=> c \in DOMAIN y) /\ (c \in DOMAIN x => y[c] = x[c])

LEMMA DoInSuite ==
  ASSUME NEW x, Sound(x), x # None, NEW cmd, Suitable(cmd), cmd.chain \in SuiteChain, NEW y, y = Do(x, cmd), y # None
  PROVE  Sound(y) /\ SameBeyond(x, y, SuiteChain)
<1> DEFINE at == cmd.chain
<1>1. cmd.do \in {"declare", "flush", "append", "remove"} /\ (cmd.do = "append" => ~IsHook(cmd.rule)) /\ cmd.do \in Deeds
  BY DEF Suitable, Deeds
<1>2. /\ IsTable(y)
      /\ \A d : d # at => (d \in DOMAIN x <=> d \in DOMAIN y) /\ (d \in DOMAIN x => y[d] = x[d])
      /\ cmd.do = "declare" => at \in DOMAIN y /\ y[at] = <<>>
      /\ cmd.do # "declare" => at \in DOMAIN x
      /\ cmd.do = "flush" => y[at] = <<>>
      /\ cmd.do = "append" => y[at] = x[at] \o <<cmd.rule>>
      /\ cmd.do = "remove" => at \notin DOMAIN y
  BY <1>1, Outcomes DEF Sound
<1>3. SameBeyond(x, y, SuiteChain)
  BY <1>2 DEF SameBeyond
<1>4. Single(y)
  <2>1. ASSUME NEW c \in DOMAIN y \ SuiteChain PROVE c \in DOMAIN x \ SuiteChain /\ y[c] = x[c]
    BY <1>3 DEF SameBeyond
  <2> QED
    BY <2>1 DEF Single, Sound
<1>5. ASSUME NEW c \in DOMAIN y \cap SuiteChain, NEW r \in Members(y[c]) PROVE ~IsHook(r)
  <2>1. CASE c # at
    <3>1. c \in DOMAIN x /\ y[c] = x[c]
      BY <2>1, <1>2
    <3> QED
      BY <3>1, <1>5 DEF Sound, Clean
  <2>2. CASE c = at /\ cmd.do \in {"declare", "flush"}
    <3>1. y[c] = <<>>
      BY <2>2, <1>2
    <3> QED
      BY <3>1, <1>5, Short
  <2>3. CASE c = at /\ cmd.do = "append"
    <3>1. y[c] = x[c] \o <<cmd.rule>> /\ c \in DOMAIN x /\ IsList(x[c])
      BY <2>3, <1>2 DEF Sound, IsTable
    <3>2. Members(y[c]) = Members(x[c]) \cup {cmd.rule}
      BY <3>1, BackIs
    <3> QED
      BY <2>3, <3>1, <3>2, <1>1, <1>5 DEF Sound, Clean
  <2> QED
    BY <2>1, <2>2, <2>3, <1>1, <1>2
<1> QED
  BY <1>2, <1>3, <1>4, <1>5 DEF Sound, Clean

LEMMA RunInSuite ==
  ASSUME NEW x, Sound(x), NEW s, IsList(s), \A cmd \in Members(s) : Suitable(cmd) /\ cmd.chain \in SuiteChain,
         Run(s, x) # None
  PROVE  Sound(Run(s, x)) /\ SameBeyond(x, Run(s, x), SuiteChain) /\ x # None
<1> DEFINE n == Len(s)
<1>1. n \in Nat /\ \A i \in 1..n : s[i].do \in Deeds /\ Suitable(s[i]) /\ s[i].chain \in SuiteChain
  <2>1. n \in Nat /\ \A i \in 1..n : s[i] \in Members(s)
    BY ListFacts DEF Members
  <2> QED
    BY <2>1 DEF Suitable, Deeds
<1>2. PICK y : /\ y[0] = x /\ y[n] = Run(s, x)
               /\ \A i \in 0..n : IsTable(y[i]) /\ y[i] # None
               /\ \A i \in 1..n : y[i] = Do(y[i - 1], s[i])
  <2>1. IsTable(x) /\ \A i \in 1..n : s[i].do \in Deeds
    BY <1>1 DEF Sound
  <2> QED
    BY <2>1, RunSteps
<1> DEFINE S == {i \in 0..n : Sound(y[i]) /\ SameBeyond(x, y[i], SuiteChain)}
<1>3. \A i \in 0..n : i \in S
  <2>1. 0 \in S
    BY <1>1, <1>2 DEF SameBeyond
  <2>2. ASSUME NEW i \in 1..n, i - 1 \in S PROVE i \in S
    <3>1. i \in 0..n /\ i - 1 \in 0..n
      BY <1>1
    <3>2. Sound(y[i]) /\ SameBeyond(y[i - 1], y[i], SuiteChain)
      BY <3>1, <1>1, <1>2, <2>2, DoInSuite
    <3>3. SameBeyond(x, y[i], SuiteChain)
      BY <3>2, <2>2 DEF SameBeyond
    <3> QED
      BY <3>1, <3>2, <3>3
  <2> HIDE DEF S
  <2> QED
    BY <1>1, <2>1, <2>2, Climb
<1>4. n \in 0..n /\ 0 \in 0..n
  BY <1>1
<1> QED
  BY <1>2, <1>3, <1>4

LEMMA RunRefused ==
  ASSUME NEW s, IsList(s)
  PROVE  Run(s, None) = None
<1> DEFINE n == Len(s)
<1>1. n \in Nat
  BY ListFacts
<1>2. PICK y : y[0] = None /\ (\A i \in 1..n : y[i] = Do(y[i - 1], s[i])) /\ y[n] = Run(s, None)
  BY RunIs
<1> HIDE DEF n
<1> DEFINE S == {i \in 0..n : y[i] = None}
<1>3. \A i \in 0..n : i \in S
  <2>1. 0 \in S
    BY <1>1, <1>2
  <2>2. ASSUME NEW i \in 1..n, i - 1 \in S PROVE i \in S
    <3>1. i \in 0..n /\ y[i - 1] = None /\ y[i] = Do(y[i - 1], s[i])
      BY <1>1, <1>2, <2>2
    <3> QED
      BY <3>1, Refused
  <2> HIDE DEF S
  <2> QED
    BY <1>1, <2>1, <2>2, Climb
<1> QED
  BY <1>1, <1>2, <1>3

\* When many lists are accepted, each is accepted in its turn.
LEMMA EachAccepted ==
  ASSUME NEW ss, IsList(ss), \A i \in DOMAIN ss : IsList(ss[i]), NEW table, Run(FlattenSeq(ss), table) # None
  PROVE  \E x : /\ x[0] = table /\ \A i \in 1..Len(ss) : x[i] = Run(ss[i], x[i - 1])
                /\ x[Len(ss)] = Run(FlattenSeq(ss), table)
                /\ \A i \in 0..Len(ss) : x[i] # None
<1> DEFINE n == Len(ss)
<1>1. n \in Nat /\ DOMAIN ss = 1..n
  BY ListFacts
<1>2. PICK x : /\ x[0] = table /\ \A i \in 1..n : x[i] = Run(ss[i], x[i - 1])
               /\ x[n] = Run(FlattenSeq(ss), table)
  BY RunEach
<1> HIDE DEF n
<1> DEFINE S == {i \in 0..n : x[n - i] # None}
<1>3. \A i \in 0..n : i \in S
  <2>1. 0 \in S
    BY <1>1, <1>2
  <2>2. ASSUME NEW i \in 1..n, i - 1 \in S PROVE i \in S
    <3>1. n - (i - 1) \in 1..n /\ (n - (i - 1)) - 1 = n - i /\ i \in 0..n
      BY <1>1
    <3>2. x[n - (i - 1)] = Run(ss[n - (i - 1)], x[n - i]) /\ x[n - (i - 1)] # None
      BY <3>1, <1>2, <2>2
    <3>3. IsList(ss[n - (i - 1)])
      BY <3>1, <1>1
    <3>4. x[n - i] # None
      BY <3>2, <3>3, RunRefused
    <3> QED
      BY <3>1, <3>4
  <2> HIDE DEF S
  <2> QED
    BY <1>1, <2>1, <2>2, Climb
<1>4. ASSUME NEW i \in 0..n PROVE x[i] # None
  <2>1. n - i \in 0..n /\ n - (n - i) = i
    BY <1>1
  <2>2. x[n - (n - i)] # None
    BY <2>1, <1>3
  <2> QED
    BY <2>1, <2>2
<1> QED
  BY <1>2, <1>4 DEF n

\* What is prepared for a hook: nothing, or one command.
LEMMA HookCommandsAre ==
  ASSUME NEW h, h.parent \notin SuiteChain, h.chain \in SuiteChain, NEW wanted, NEW live, Sound(live)
  PROVE  LET r == Hook(h.chain) IN
         /\ h \in wanted /\ Has(live, h.parent, r) => HookCommands(h, wanted, live) = <<>>
         /\ h \in wanted /\ ~Has(live, h.parent, r) => HookCommands(h, wanted, live) = <<Command("insert", h.parent, r)>>
         /\ h \notin wanted /\ Has(live, h.parent, r) => HookCommands(h, wanted, live) = <<Command("delete", h.parent, r)>>
         /\ h \notin wanted /\ ~Has(live, h.parent, r) => HookCommands(h, wanted, live) = <<>>
<1> DEFINE r == Hook(h.chain)
           count == Live(h, live)
           delete == Command("delete", h.parent, r)
           b == IF h \in wanted THEN <<Command("insert", h.parent, r)>> ELSE <<>>
<1>1. HookCommands(h, wanted, live) = IF h \in wanted /\ count = 1 THEN <<>> ELSE Repeat(count, delete) \o b
  BY DEF HookCommands, Live
<1>2. count = IF Has(live, h.parent, r) THEN 1 ELSE 0
  <2>1. CASE h.parent \notin DOMAIN live
    BY <2>1 DEF Live, Has
  <2>2. CASE h.parent \in DOMAIN live
    <3> DEFINE s == live[h.parent]
    <3>1. IsList(s) /\ Once(s, r)
      BY <2>2 DEF Sound, IsTable, Single
    <3> HIDE DEF s, r
    <3>2. Count(s, r) \in Nat /\ (Count(s, r) = 0 <=> r \notin Members(s)) /\ Count(s, r) <= 1
      BY <3>1, Counted DEF Once
    <3>3. Count(s, r) = IF r \in Members(s) THEN 1 ELSE 0
      BY <3>2
    <3> QED
      BY <2>2, <3>3 DEF Live, Has, s, r
  <2> QED
    BY <2>1, <2>2
<1>3. Repeat(0, delete) = <<>> /\ Repeat(1, delete) = <<delete>>
  BY DEF Repeat
<1>4. <<>> \o <<>> = <<>> /\ (\A a : <<>> \o <<a>> = <<a>> /\ <<a>> \o <<>> = <<a>>)
  OBVIOUS
<1>5. <<>> \o b = b /\ (h \notin wanted => <<delete>> \o b = <<delete>>)
  BY <1>4
<1>6. CASE h \in wanted
  <2>1. b = <<Command("insert", h.parent, r)>>
    BY <1>6
  <2>2. Has(live, h.parent, r) => HookCommands(h, wanted, live) = <<>>
    <3> HIDE DEF count, r, delete, b
    <3> QED
      BY <1>1, <1>2, <1>6
  <2>3. ASSUME ~Has(live, h.parent, r) PROVE HookCommands(h, wanted, live) = b
    <3> HIDE DEF count, r, delete, b
    <3>1. count = 0
      BY <1>2, <2>3
    <3>2. HookCommands(h, wanted, live) = Repeat(0, delete) \o b
      BY <1>1, <3>1
    <3>3. <<>> \o b = b
      BY <1>5
    <3> QED
      BY <3>2, <3>3, <1>3
  <2> HIDE DEF b
  <2> QED
    BY <1>6, <2>1, <2>2, <2>3
<1>7. CASE h \notin wanted
  <2>1. b = <<>>
    BY <1>7
  <2>2. Has(live, h.parent, r) => HookCommands(h, wanted, live) = <<delete>>
    <3> HIDE DEF count, r, delete, b
    <3> QED
      BY <1>1, <1>2, <1>3, <1>5, <1>7
  <2>3. ~Has(live, h.parent, r) => HookCommands(h, wanted, live) = <<>>
    <3> HIDE DEF count, r, delete, b
    <3> QED
      BY <2>1, <1>1, <1>2, <1>3, <1>5, <1>7
  <2> HIDE DEF b
  <2> QED
    BY <1>7, <2>2, <2>3
<1> QED
  BY <1>6, <1>7

LEMMA HookIs ==
  /\ \A c, d : Hook(c) = Hook(d) => c = d
  /\ \A c : IsHook(Hook(c))
BY DEF Hook, IsHook

\* The commands for one hook leave it there exactly when it is wanted, and touch nothing else.
LEMMA HookStep ==
  ASSUME NEW h, h.parent \notin SuiteChain, h.chain \in SuiteChain, NEW wanted, NEW live, Sound(live),
         NEW x, Sound(x), x # None, Has(x, h.parent, Hook(h.chain)) <=> Has(live, h.parent, Hook(h.chain)),
         NEW y, y = Run(HookCommands(h, wanted, live), x), y # None
  PROVE  /\ Sound(y) /\ SameBeyond(x, y, {h.parent}) /\ \A c : c \in DOMAIN x <=> c \in DOMAIN y
         /\ Has(y, h.parent, Hook(h.chain)) <=> h \in wanted
         /\ \A r : r # Hook(h.chain) => (Has(y, h.parent, r) <=> Has(x, h.parent, r))
<1> DEFINE r == Hook(h.chain)
           p == h.parent
           commands == HookCommands(h, wanted, live)
<1>0. IsHook(r) /\ p \notin SuiteChain
  BY HookIs
<1>1. /\ h \in wanted /\ Has(x, p, r) => commands = <<>>
      /\ h \in wanted /\ ~Has(x, p, r) => commands = <<Command("insert", p, r)>>
      /\ h \notin wanted /\ Has(x, p, r) => commands = <<Command("delete", p, r)>>
      /\ h \notin wanted /\ ~Has(x, p, r) => commands = <<>>
  BY HookCommandsAre
<1> HIDE DEF commands
<1>2. CASE commands = <<>>
  <2>1. y = x
    BY <1>2, RunShort DEF commands
  <2>2. Has(x, p, r) <=> h \in wanted
    <3>1. <<>> # <<Command("insert", p, r)>> /\ <<>> # <<Command("delete", p, r)>>
      OBVIOUS
    <3> QED
      BY <1>1, <1>2, <3>1
  <2> QED
    BY <2>1, <2>2 DEF SameBeyond
\* A command that changes one list.
<1>3. ASSUME NEW new, IsList(new), p \in DOMAIN x, IsTable(y), p \in DOMAIN y, y[p] = new, SameBeyond(x, y, {p}),
             \A d \in SuiteChain : Once(new, Hook(d)),
             r \in Members(new) <=> h \in wanted,
             \A q : q # r => (q \in Members(new) <=> q \in Members(x[p]))
      PROVE  /\ Sound(y) /\ SameBeyond(x, y, {p}) /\ \A c : c \in DOMAIN x <=> c \in DOMAIN y
             /\ Has(y, p, r) <=> h \in wanted
             /\ \A q : q # r => (Has(y, p, q) <=> Has(x, p, q))
  <2> HIDE DEF r, p
  <2>1. \A c : c \in DOMAIN x <=> c \in DOMAIN y
    BY <1>3 DEF SameBeyond
  <2>2. \A c \in DOMAIN x : c # p => y[c] = x[c]
    BY <1>3 DEF SameBeyond
  <2>3. Clean(y)
    BY <1>0, <2>1, <2>2 DEF Sound, Clean
  <2>4. Single(y)
    <3>1. ASSUME NEW c \in DOMAIN y \ SuiteChain, NEW d \in SuiteChain PROVE Once(y[c], Hook(d))
      <4>1. CASE c = p
        BY <4>1, <1>3
      <4>2. CASE c # p
        <5>1. y[c] = x[c] /\ c \in DOMAIN x \ SuiteChain
          BY <4>2, <2>1, <2>2
        <5> QED
          BY <5>1 DEF Sound, Single
      <4> QED
        BY <4>1, <4>2
    <3> QED
      BY <3>1 DEF Single
  <2> QED
    BY <1>3, <2>1, <2>3, <2>4 DEF Sound, Has
<1>4. ASSUME NEW do \in {"insert", "delete"}, commands = <<Command(do, p, r)>>
      PROVE  /\ p \in DOMAIN x /\ IsTable(y) /\ p \in DOMAIN y /\ SameBeyond(x, y, {p})
             /\ do = "insert" => y[p] = <<r>> \o x[p]
             /\ do = "delete" => r \in Members(x[p]) /\ y[p] = RemoveFirst(x[p], r)
             /\ IsList(x[p]) /\ \A d \in SuiteChain : Once(x[p], Hook(d))
  <2> DEFINE cmd == Command(do, p, r)
  <2>1. y = Do(x, cmd)
    BY <1>4, RunShort DEF commands
  <2>2. cmd.do = do /\ cmd.chain = p /\ cmd.rule = r /\ do \in Deeds
    BY CommandIs DEF Deeds
  <2> HIDE DEF cmd, p, r
  <2>3. /\ IsTable(y)
        /\ \A d : d # cmd.chain => (d \in DOMAIN x <=> d \in DOMAIN y) /\ (d \in DOMAIN x => y[d] = x[d])
        /\ cmd.do # "declare" => cmd.chain \in DOMAIN x
        /\ cmd.do # "remove" => cmd.chain \in DOMAIN y
        /\ cmd.do = "delete" =>
             cmd.rule \in Members(x[cmd.chain]) /\ y[cmd.chain] = RemoveFirst(x[cmd.chain], cmd.rule)
        /\ cmd.do = "insert" => y[cmd.chain] = <<cmd.rule>> \o x[cmd.chain]
    <3>1. IsTable(x) /\ cmd.do \in Deeds
      BY <2>2 DEF Sound
    <3> QED
      BY <2>1, <3>1, Outcomes
  <2>4. p \in DOMAIN x /\ p \in DOMAIN y /\ SameBeyond(x, y, {p})
    BY <2>2, <2>3 DEF SameBeyond
  <2>5. IsList(x[p]) /\ \A d \in SuiteChain : Once(x[p], Hook(d))
    BY <2>4, <1>0 DEF Sound, IsTable, Single
  <2> QED
    BY <2>2, <2>3, <2>4, <2>5
<1>5. CASE commands = <<Command("insert", p, r)>> /\ h \in wanted /\ ~Has(x, p, r)
  <2>1. /\ p \in DOMAIN x /\ IsTable(y) /\ p \in DOMAIN y /\ SameBeyond(x, y, {p}) /\ y[p] = <<r>> \o x[p]
        /\ IsList(x[p]) /\ \A d \in SuiteChain : Once(x[p], Hook(d))
    BY <1>4, <1>5
  <2>2. r \notin Members(x[p])
    BY <2>1, <1>5 DEF Has
  <2> DEFINE new == <<r>> \o x[p]
  <2>3. /\ IsList(new) /\ Members(new) = Members(x[p]) \cup {r}
        /\ \A q : Once(x[p], q) /\ (q = r => q \notin Members(x[p])) => Once(new, q)
    BY <2>1, FrontIs
  <2>4. \A d \in SuiteChain : Once(new, Hook(d))
    BY <2>1, <2>2, <2>3
  <2>5. (r \in Members(new) <=> h \in wanted) /\ \A q : q # r => (q \in Members(new) <=> q \in Members(x[p]))
    BY <2>3, <1>5
  <2>6. y[p] = new
    BY <2>1
  <2> HIDE DEF new
  <2> QED
    BY <2>1, <2>3, <2>4, <2>5, <2>6, <1>3
<1>6. CASE commands = <<Command("delete", p, r)>> /\ h \notin wanted /\ Has(x, p, r)
  <2>1. /\ p \in DOMAIN x /\ IsTable(y) /\ p \in DOMAIN y /\ SameBeyond(x, y, {p})
        /\ r \in Members(x[p]) /\ y[p] = RemoveFirst(x[p], r)
        /\ IsList(x[p]) /\ \A d \in SuiteChain : Once(x[p], Hook(d))
    BY <1>4, <1>6
  <2> DEFINE new == RemoveFirst(x[p], r)
  <2>2. /\ IsList(new) /\ Members(new) \subseteq Members(x[p])
        /\ \A q : q # r /\ q \in Members(x[p]) => q \in Members(new)
        /\ \A q : Once(x[p], q) => Once(new, q)
        /\ Once(x[p], r) => r \notin Members(new)
    BY <2>1, RemovedIs
  <2>3. \A d \in SuiteChain : Once(new, Hook(d))
    BY <2>1, <2>2
  <2>4. (r \in Members(new) <=> h \in wanted) /\ \A q : q # r => (q \in Members(new) <=> q \in Members(x[p]))
    BY <2>1, <2>2, <1>6
  <2>5. y[p] = new
    BY <2>1
  <2> HIDE DEF new
  <2> QED
    BY <2>1, <2>2, <2>3, <2>4, <2>5, <1>3
<1> QED
  BY <1>1, <1>2, <1>5, <1>6

IsHookOf(h, t) ==
  /\ h = [table |-> h.table, parent |-> h.parent, chain |-> h.chain]
  /\ h.table = t /\ h.parent \notin SuiteChain /\ h.chain \in SuiteChain
AreHooks(hooks) == IsFiniteSet(hooks) /\ \E t : \A h \in hooks : IsHookOf(h, t)
HasHook(x, h) == Has(x, h.parent, Hook(h.chain))
Parents(hooks) == {h.parent : h \in hooks}

\* The commands for the hooks of a table leave there those that are wanted, and no others of them.
LEMMA HookPhase ==
  ASSUME NEW hooks, AreHooks(hooks), NEW wanted, NEW live, Sound(live),
         NEW x, Sound(x), \A h \in hooks : HasHook(x, h) <=> HasHook(live, h),
         NEW y, y = Run(FlattenSeq(HookParts(hooks, wanted, live)), x), y # None
  PROVE  /\ Sound(y) /\ SameBeyond(x, y, Parents(hooks)) /\ \A c : c \in DOMAIN x <=> c \in DOMAIN y
         /\ \A h \in hooks : HasHook(y, h) <=> h \in wanted
         /\ \A c, r : (\A h \in hooks : c # h.parent \/ r # Hook(h.chain)) => (Has(y, c, r) <=> Has(x, c, r))
         /\ x # None
<1> DEFINE order == SetToSeq(hooks)
           parts == HookParts(hooks, wanted, live)
           n == Len(parts)
           parents == Parents(hooks)
<1>0. PICK t : IsFiniteSet(hooks) /\ \A h \in hooks : IsHookOf(h, t)
  BY DEF AreHooks
<1>1. /\ IsList(parts) /\ DOMAIN parts = DOMAIN order /\ \A i \in DOMAIN order : IsList(parts[i])
  <2>1. IsTable(live) /\ \A h \in hooks : h.parent \notin SuiteChain
    BY <1>0 DEF Sound, IsHookOf
  <2> QED
    BY <1>0, <2>1, HookPartsList
<1>2. /\ IsList(order) /\ Members(order) = hooks
      /\ \A i, j \in DOMAIN order : order[i] = order[j] => i = j
  BY <1>0, InOrder
<1>3. \A i \in DOMAIN order : parts[i] = HookCommands(order[i], wanted, live)
  BY DEF HookParts
<1>4. PICK z : /\ z[0] = x /\ \A i \in 1..n : z[i] = Run(parts[i], z[i - 1])
               /\ z[n] = y
               /\ \A i \in 0..n : z[i] # None
  <2>1. \E z : /\ z[0] = x /\ \A i \in 1..Len(parts) : z[i] = Run(parts[i], z[i - 1])
               /\ z[Len(parts)] = Run(FlattenSeq(parts), x)
               /\ \A i \in 0..Len(parts) : z[i] # None
    <3> HIDE DEF parts
    <3>1. (\A i \in DOMAIN parts : IsList(parts[i])) /\ Run(FlattenSeq(parts), x) # None
      BY <1>1 DEF parts
    <3> QED
      BY <1>1, <3>1, EachAccepted
  <2> QED
    BY <2>1
<1>5. n \in Nat /\ DOMAIN order = 1..n
  BY <1>1, ListFacts
<1> HIDE DEF order, parts, n
<1>6. \A i \in 1..n : order[i] \in hooks /\ IsHookOf(order[i], t)
  BY <1>0, <1>2, <1>5 DEF Members
<1>7. \A h \in hooks : \E i \in 1..n : order[i] = h
  BY <1>2, <1>5 DEF Members
<1>8. ASSUME NEW i \in 1..n, NEW j \in 1..n, i # j
      PROVE  order[i].parent # order[j].parent \/ Hook(order[i].chain) # Hook(order[j].chain)
  <2>1. order[i] # order[j]
    BY <1>2, <1>5, <1>8
  <2>2. order[i].parent # order[j].parent \/ order[i].chain # order[j].chain
    BY <2>1, <1>6 DEF IsHookOf
  <2> QED
    BY <2>2, HookIs
<1> DEFINE Keeps(i) == \A c, r : (\A k \in 1..i : c # order[k].parent \/ r # Hook(order[k].chain)) => (Has(z[i], c, r) <=> Has(x, c, r))
           Done(i) == \A k \in 1..i : HasHook(z[i], order[k]) <=> order[k] \in wanted
           S == {i \in 0..n : /\ Sound(z[i]) /\ SameBeyond(x, z[i], parents) /\ \A c : c \in DOMAIN x <=> c \in DOMAIN z[i]
                              /\ Keeps(i) /\ Done(i)}
<1>9. 0 \in S
  BY <1>4, <1>5 DEF SameBeyond
<1>10. ASSUME NEW i \in 1..n, i - 1 \in S PROVE i \in S
  <2> DEFINE h == order[i]
             before == z[i - 1]
             after == z[i]
  <2>1. i \in 0..n /\ i - 1 \in 0..n /\ 1..i = 1..(i - 1) \cup {i} /\ i \notin 1..(i - 1) /\ 1..(i - 1) \subseteq 1..n
    BY <1>5
  <2>2. /\ Sound(before) /\ SameBeyond(x, before, parents) /\ \A c : c \in DOMAIN x <=> c \in DOMAIN before
        /\ Keeps(i - 1) /\ Done(i - 1)
    BY <1>10
  <2>3. h \in hooks /\ h.parent \notin SuiteChain /\ h.chain \in SuiteChain
    BY <1>6 DEF IsHookOf
  <2>4. Has(before, h.parent, Hook(h.chain)) <=> Has(live, h.parent, Hook(h.chain))
    <3>1. \A k \in 1..(i - 1) : h.parent # order[k].parent \/ Hook(h.chain) # Hook(order[k].chain)
      BY <2>1, <1>8
    <3>2. Has(before, h.parent, Hook(h.chain)) <=> Has(x, h.parent, Hook(h.chain))
      BY <2>2, <3>1
    <3> QED
      BY <2>3, <3>2 DEF HasHook
  <2>5. after = Run(HookCommands(h, wanted, live), before) /\ after # None /\ before # None
    <3>1. z[i] = Run(parts[i], z[i - 1]) /\ z[i] # None /\ z[i - 1] # None /\ parts[i] = HookCommands(order[i], wanted, live)
      BY <1>3, <1>4, <1>5, <2>1
    <3> QED
      BY <3>1
  <2> HIDE DEF h, before, after, S, Keeps, Done
  <2>6. /\ Sound(after) /\ SameBeyond(before, after, {h.parent}) /\ \A c : c \in DOMAIN before <=> c \in DOMAIN after
        /\ Has(after, h.parent, Hook(h.chain)) <=> h \in wanted
        /\ \A r : r # Hook(h.chain) => (Has(after, h.parent, r) <=> Has(before, h.parent, r))
    <3>1. Sound(before) /\ Sound(live)
      BY <2>2
    <3> QED
      BY ONLY <3>1, <2>3, <2>4, <2>5, HookStep
  <2>7. \A c, r : c # h.parent \/ r # Hook(h.chain) => (Has(after, c, r) <=> Has(before, c, r))
    BY <2>6 DEF SameBeyond, Has
  <2>8. SameBeyond(x, after, parents)
    <3>1. h.parent \in parents
      BY <2>3 DEF Parents
    <3> HIDE DEF parents
    <3> QED
      BY <2>2, <2>6, <3>1 DEF SameBeyond
  <2>9. Keeps(i)
    <3> SUFFICES ASSUME NEW c, NEW r, \A k \in 1..i : c # order[k].parent \/ r # Hook(order[k].chain)
                 PROVE  Has(z[i], c, r) <=> Has(x, c, r)
      BY DEF Keeps
    <3>1. (c # h.parent \/ r # Hook(h.chain)) /\ \A k \in 1..(i - 1) : c # order[k].parent \/ r # Hook(order[k].chain)
      BY <2>1 DEF h
    <3>2. Has(z[i - 1], c, r) <=> Has(x, c, r)
      BY <2>2, <3>1 DEF Keeps
    <3>3. Has(after, c, r) <=> Has(before, c, r)
      BY <2>7, <3>1
    <3> QED
      BY <3>2, <3>3 DEF before, after
  <2>10. Done(i)
    <3>1. ASSUME NEW k \in 1..i PROVE HasHook(z[i], order[k]) <=> order[k] \in wanted
      <4>1. CASE k = i
        BY <4>1, <2>6 DEF HasHook, h, after
      <4>2. CASE k # i
        <5>1. k \in 1..(i - 1) /\ k \in 1..n
          BY <4>2, <2>1
        <5>2. HasHook(z[i - 1], order[k]) <=> order[k] \in wanted
          BY <5>1, <2>2 DEF Done
        <5>3. order[k].parent # h.parent \/ Hook(order[k].chain) # Hook(h.chain)
          BY <5>1, <4>2, <1>8 DEF h
        <5>4. Has(after, order[k].parent, Hook(order[k].chain)) <=> Has(before, order[k].parent, Hook(order[k].chain))
          BY <5>3, <2>7
        <5> QED
          BY <5>2, <5>4 DEF HasHook, before, after
      <4> QED
        BY <4>1, <4>2
    <3> QED
      BY <3>1 DEF Done
  <2>11. \A c : c \in DOMAIN x <=> c \in DOMAIN after
    BY <2>2, <2>6
  <2> QED
    BY <2>1, <2>6, <2>8, <2>9, <2>10, <2>11 DEF S, after
<1>11. n \in S
  <2>1. \A i \in 0..n : i \in S
    <3> HIDE DEF S
    <3> QED
      BY <1>5, <1>9, <1>10, Climb
  <2>2. n \in 0..n
    BY <1>5
  <2> HIDE DEF S
  <2> QED
    BY <2>1, <2>2
<1>12. \A h \in hooks : HasHook(y, h) <=> h \in wanted
  BY <1>4, <1>7, <1>11
<1>13. \A c, r : (\A h \in hooks : c # h.parent \/ r # Hook(h.chain)) => (Has(y, c, r) <=> Has(x, c, r))
  BY <1>4, <1>6, <1>11
<1>14. x # None
  BY <1>4, <1>5
<1> QED
  BY <1>4, <1>11, <1>12, <1>13, <1>14

\* A table after an accepted commit: the hooks that are wanted, everything of others as it was.
LEMMA TableOutcome ==
  ASSUME NEW target, IsBundle(target), NEW union, IsFiniteSet(union), \A b \in union : IsBundle(b),
         NEW f \in Families, NEW t, NEW live, Sound(live[f][t]),
         NEW x, Sound(x), \A h \in HooksOf(target, union, t) : HasHook(x, h) <=> HasHook(live[f][t], h),
         NEW y, y = Run(TableCommands(target, union, live, f, t), x), y # None
  PROVE  /\ Sound(y) /\ OthersIn(y) = OthersIn(x)
         /\ \A c : c \notin SuiteChain => (c \in DOMAIN x <=> c \in DOMAIN y)
         /\ \A h \in HooksOf(target, union, t) : HasHook(y, h) <=> h \in Wanted(target)
         /\ \A c, r : c \notin SuiteChain /\ (\A h \in HooksOf(target, union, t) : c # h.parent \/ r # Hook(h.chain))
                        => (Has(y, c, r) <=> Has(x, c, r))
<1> DEFINE owned   == OwnedBy(target, union, f, t)
           desired == Desired(target, f, t)
           wanted  == Wanted(target)
           hooks   == HooksOf(target, union, t)
           gone    == Gone(target, union, live, f, t)
           A == FlattenSeq(Flushes(owned, desired, DOMAIN live[f][t]))
           B == FlattenSeq(HookParts(hooks, wanted, live[f][t]))
           C == FlattenSeq(AppendParts(desired))
           D == FlattenSeq(RemoveParts(gone))
           all == TableCommands(target, union, live, f, t)
<1>1. /\ all = ((A \o B) \o C) \o D
      /\ IsList(A) /\ IsList(B) /\ IsList(C) /\ IsList(D) /\ IsList(all)
      /\ \A cmd \in Members(A) \cup Members(C) \cup Members(D) : Suitable(cmd) /\ cmd.chain \in SuiteChain
      /\ \A cmd \in Members(all) : Suitable(cmd)
  <2>1. IsTable(live[f][t])
    BY DEF Sound
  <2> QED
    BY <2>1, InParts
<1>2. IsFiniteSet(hooks) /\ \A h \in hooks : IsHookOf(h, t)
  <2>1. IsFiniteSet(hooks) /\ \A h \in hooks :
              /\ h = [table |-> h.table, parent |-> h.parent, chain |-> h.chain]
              /\ h.table = t /\ h.parent \notin SuiteChain /\ h.chain \in SuiteChain
    BY Material
  <2> QED
    BY <2>1 DEF IsHookOf
<1>0. AreHooks(hooks)
  BY <1>2 DEF AreHooks
<1> HIDE DEF owned, desired, wanted, hooks, gone, A, B, C, D, all
<1> DEFINE x1 == Run(A, x)
           x2 == Run(B, x1)
           x3 == Run(C, x2)
<1>3. y = Run(D, x3)
  <2>1. IsList(A \o B) /\ IsList((A \o B) \o C)
    BY <1>1, Joined
  <2>2. Run(A \o B, x) = x2
    BY <1>1, RunJoined
  <2>3. Run((A \o B) \o C, x) = x3
    BY <1>1, <2>1, <2>2, RunJoined
  <2>4. Run(((A \o B) \o C) \o D, x) = Run(D, x3)
    BY <1>1, <2>1, <2>3, RunJoined
  <2> QED
    BY <1>1, <2>4 DEF all
<1> HIDE DEF x1, x2, x3
<1>4. x3 # None /\ x2 # None /\ x1 # None /\ x # None
  BY <1>1, <1>3, RunRefused DEF x1, x2, x3
<1>5. Sound(x1) /\ SameBeyond(x, x1, SuiteChain)
  <2>1. Run(A, x) # None /\ \A cmd \in Members(A) : Suitable(cmd) /\ cmd.chain \in SuiteChain
    BY <1>1, <1>4 DEF x1
  <2> QED
    BY <1>1, <2>1, RunInSuite DEF x1
<1>6. /\ Sound(x2) /\ \A c : c \in DOMAIN x1 <=> c \in DOMAIN x2
      /\ \A h \in hooks : HasHook(x2, h) <=> h \in wanted
      /\ \A c, r : (\A h \in hooks : c # h.parent \/ r # Hook(h.chain)) => (Has(x2, c, r) <=> Has(x1, c, r))
  <2>1. x2 = Run(FlattenSeq(HookParts(hooks, wanted, live[f][t])), x1)
    BY DEF x2, B
  <2>2. \A h \in hooks : HasHook(x1, h) <=> HasHook(live[f][t], h)
    <3>1. \A h \in hooks : HasHook(x1, h) <=> HasHook(x, h)
      BY <1>2, <1>5 DEF IsHookOf, HasHook, Has, SameBeyond
    <3> QED
      BY <3>1 DEF hooks
  <2> DEFINE lv == live[f][t]
  <2>3. Sound(lv) /\ x2 = Run(FlattenSeq(HookParts(hooks, wanted, lv)), x1) /\ \A h \in hooks : HasHook(x1, h) <=> HasHook(lv, h)
    BY <2>1, <2>2
  <2> HIDE DEF lv
  <2> QED
    BY ONLY <2>3, <1>0, <1>4, <1>5, HookPhase
<1>7. Sound(x3) /\ SameBeyond(x2, x3, SuiteChain)
  <2>1. Run(C, x2) # None /\ \A cmd \in Members(C) : Suitable(cmd) /\ cmd.chain \in SuiteChain
    BY <1>1, <1>4 DEF x3
  <2> QED
    BY <1>1, <1>6, <2>1, RunInSuite DEF x3
<1>8. Sound(y) /\ SameBeyond(x3, y, SuiteChain)
  <2>1. Run(D, x3) # None /\ \A cmd \in Members(D) : Suitable(cmd) /\ cmd.chain \in SuiteChain
    BY <1>1, <1>3
  <2> QED
    BY <1>1, <1>3, <1>7, <2>1, RunInSuite
<1>9. OthersIn(y) = OthersIn(x)
  <2>1. \A i \in 1..Len(all) : Suitable(all[i])
    BY <1>1, ListFacts DEF Members
  <2>2. IsTable(x) /\ Run(all, x) # None
    BY DEF Sound, all
  <2> QED
    BY <1>1, <2>1, <2>2, RunKeepsOthers DEF all
<1>10. \A c : c \notin SuiteChain => (c \in DOMAIN x <=> c \in DOMAIN y)
  BY <1>5, <1>6, <1>7, <1>8 DEF SameBeyond
<1>11. \A c, r : c \notin SuiteChain => (Has(y, c, r) <=> Has(x2, c, r)) /\ (Has(x1, c, r) <=> Has(x, c, r))
  BY <1>5, <1>7, <1>8 DEF SameBeyond, Has
<1>12. \A h \in hooks : HasHook(y, h) <=> h \in wanted
  BY <1>2, <1>6, <1>11 DEF HasHook, IsHookOf
<1>13. \A c, r : c \notin SuiteChain /\ (\A h \in hooks : c # h.parent \/ r # Hook(h.chain))
                   => (Has(y, c, r) <=> Has(x, c, r))
  BY <1>6, <1>11
<1> QED
  BY <1>8, <1>9, <1>10, <1>12, <1>13 DEF hooks, wanted

(***************************************************************************)
(* The invariant                                                           *)
(***************************************************************************)
IsKernel(k) ==
  /\ k = [f \in Families |-> [t \in Table |-> k[f][t]]]
  /\ \A f \in Families : \A t \in Table : Sound(k[f][t]) /\ Shared[t] \subseteq DOMAIN k[f][t]

AreBundles(union) == IsFiniteSet(union) /\ \A b \in union : IsBundle(b)

IsJournal(j) ==
  /\ j = [previous |-> j.previous, candidate |-> j.candidate, disabled |-> j.disabled,
          snapshot |-> j.snapshot, handed |-> j.handed]
  /\ j.previous \in Policy \cup {None} /\ j.candidate \in Policy
  /\ IsBundle(j.snapshot)

\* What the pending commits are for, and the bundles they were prepared from.
Aim(j, at) == IF at = "apply" THEN (IF j.disabled THEN NoBundle ELSE Bundle(j.candidate)) ELSE j.snapshot
Sides(j, at) == Bundles({j.previous, j.candidate}) \cup (IF at = "apply" THEN {} ELSE {j.snapshot})

SameHooks(x, y) == \A c, d : c \notin SuiteChain /\ d \in SuiteChain => (Has(x, c, Hook(d)) <=> Has(y, c, Hook(d)))

\* The commands of a commit were prepared from a table that has the hooks which are there now.
Stands(e, target, union, k, undisturbed) ==
  /\ e.family \in Families /\ e.table \in Table
  /\ \E live : /\ Sound(live[e.family][e.table])
               /\ e = Entry(target, union, live, e.family, e.table)
               /\ SameHooks(k[e.family][e.table], live[e.family][e.table])
               /\ undisturbed => live[e.family][e.table] = k[e.family][e.table]

IsBatch(b, target, union, k, undisturbed) ==
  /\ IsList(b)
  /\ \A i \in DOMAIN b : Stands(b[i], target, union, k, undisturbed)
  /\ \A i, j \in DOMAIN b : b[i].family = b[j].family /\ b[i].table = b[j].table => i = j

IptInv ==
  /\ IsKernel(kernel)
  /\ current \in Policy \cup {None} /\ disturbed \in 0..MaxDisturbances
  /\ pc \in {"idle", "apply", "recover", "rollback"}
  /\ journal # NoJournal \/ pc # "idle" => IsJournal(journal)
  /\ batch # <<>> => pc \in {"apply", "rollback"}
  /\ IsBatch(batch, Aim(journal, pc), Sides(journal, pc), kernel, fresh)

LEMMA FamiliesAre == Families = {Family[i] : i \in DOMAIN Family}
BY DEF Families, Range

LEMMA BundleIs == \A p \in Policy : IsBundle(Bundle(p))
<1> SUFFICES ASSUME NEW p \in Policy PROVE IsBundle(Bundle(p))
  OBVIOUS
<1>1. Bundle(p).rules = Rules[p] /\ Bundle(p).hooks = Hooks[p]
  BY DEF Bundle
<1>2. ASSUME NEW f \in Families
      PROVE  /\ DOMAIN Rules[p][f] \subseteq Table
             /\ \A t \in DOMAIN Rules[p][f] :
                  /\ DOMAIN Rules[p][f][t] \subseteq SuiteChain
                  /\ \A c \in DOMAIN Rules[p][f][t] :
                       IsList(Rules[p][f][t][c]) /\ \A r \in Members(Rules[p][f][t][c]) : ~IsHook(r)
  <2>1. PICK i \in DOMAIN Family : f = Family[i]
    BY FamiliesAre
  <2>2. DOMAIN Rules[p][f] \subseteq Table
    BY <2>1, IptAssumption
  <2>3. ASSUME NEW t \in DOMAIN Rules[p][f]
        PROVE  /\ DOMAIN Rules[p][f][t] \subseteq SuiteChain
               /\ \A c \in DOMAIN Rules[p][f][t] :
                       /\ Rules[p][f][t][c] \in Seq(Range(Rules[p][f][t][c]))
                       /\ \A r \in Range(Rules[p][f][t][c]) : ~IsHook(r)
    BY <2>1, IptAssumption
  <2>4. \A s : Range(s) = Members(s)
    BY DEF Range, Members
  <2> QED
    BY <2>2, <2>3, <2>4, ListFacts
<1>3. /\ IsFiniteSet(Hooks[p])
      /\ \A h \in Hooks[p] : /\ h = [table |-> h.table, parent |-> h.parent, chain |-> h.chain]
                             /\ h.parent \notin SuiteChain /\ h.chain \in SuiteChain
  BY IptAssumption
<1> QED
  BY <1>1, <1>2, <1>3 DEF IsBundle

LEMMA NothingIs == IsBundle(NoBundle)
<1>1. NoBundle.hooks = {} /\ NoBundle.rules = [f \in Families |-> <<>>] /\ DOMAIN <<>> = {}
  BY DEF NoBundle
<1>2. \A f \in Families : DOMAIN NoBundle.rules[f] = {}
  BY <1>1
<1> QED
  BY <1>1, <1>2, FS_EmptySet DEF IsBundle

LEMMA SnapshotIs ==
  ASSUME NEW p \in Policy \cup {None}, NEW k, IsKernel(k)
  PROVE  IsBundle(Snapshot(p, k))
<1>1. CASE p = None
  BY <1>1, NothingIs DEF Snapshot
<1>2. CASE p # None
  <2> DEFINE s == Snapshot(p, k)
             rules == [f \in Families |-> [t \in DOMAIN Rules[p][f] |->
                        [c \in DOMAIN Rules[p][f][t] \cap DOMAIN k[f][t] |-> k[f][t][c]]]]
  <2>1. s.rules = rules /\ s.hooks = Hooks[p]
    BY <1>2 DEF Snapshot
  <2>2. /\ \A f \in Families : DOMAIN Rules[p][f] \subseteq Table
        /\ \A f \in Families : \A t \in DOMAIN Rules[p][f] : DOMAIN Rules[p][f][t] \subseteq SuiteChain
        /\ IsFiniteSet(Hooks[p])
        /\ \A h \in Hooks[p] : /\ h = [table |-> h.table, parent |-> h.parent, chain |-> h.chain]
                               /\ h.parent \notin SuiteChain /\ h.chain \in SuiteChain
    <3>1. IsBundle(Bundle(p)) /\ Bundle(p).rules = Rules[p] /\ Bundle(p).hooks = Hooks[p]
      BY <1>2, BundleIs DEF Bundle
    <3> QED
      BY <3>1 DEF IsBundle
  <2>3. ASSUME NEW f \in Families
        PROVE  /\ DOMAIN rules[f] \subseteq Table
               /\ \A t \in DOMAIN rules[f] :
                    /\ DOMAIN rules[f][t] \subseteq SuiteChain
                    /\ \A c \in DOMAIN rules[f][t] : IsList(rules[f][t][c]) /\ \A r \in Members(rules[f][t][c]) : ~IsHook(r)
    <3>1. rules[f] = [t \in DOMAIN Rules[p][f] |-> [c \in DOMAIN Rules[p][f][t] \cap DOMAIN k[f][t] |-> k[f][t][c]]]
      OBVIOUS
    <3>2. ASSUME NEW t \in DOMAIN Rules[p][f]
          PROVE  /\ DOMAIN rules[f][t] \subseteq SuiteChain
                 /\ \A c \in DOMAIN rules[f][t] : IsList(rules[f][t][c]) /\ \A r \in Members(rules[f][t][c]) : ~IsHook(r)
      <4> DEFINE x == k[f][t]
                 chains == [c \in DOMAIN Rules[p][f][t] \cap DOMAIN x |-> x[c]]
      <4>1. rules[f][t] = chains
        BY <3>1
      <4>2. Sound(x) /\ DOMAIN Rules[p][f][t] \subseteq SuiteChain
        BY <2>2 DEF IsKernel
      <4> HIDE DEF x, rules
      <4>3. \A c \in DOMAIN chains : chains[c] = x[c] /\ c \in DOMAIN x \cap SuiteChain
        BY <4>2
      <4>4. DOMAIN chains \subseteq SuiteChain
        BY <4>3
      <4> HIDE DEF chains
      <4> QED
        BY <4>1, <4>2, <4>3, <4>4 DEF Sound, IsTable, Clean
    <3>3. DOMAIN rules[f] = DOMAIN Rules[p][f]
      BY <3>1
    <3> HIDE DEF rules
    <3> QED
      BY <3>2, <3>3, <2>2
  <2> HIDE DEF s, rules
  <2>4. IsBundle(s)
    BY <2>1, <2>2, <2>3 DEF IsBundle
  <2> QED
    BY <2>4 DEF s
<1> QED
  BY <1>1, <1>2

LEMMA SidesAre ==
  /\ \A p \in Policy \cup {None}, q \in Policy : AreBundles(Bundles({p, q}))
  /\ \A p \in Policy \cup {None}, q \in Policy : \A s : IsBundle(s) => AreBundles(Bundles({p, q}) \cup {s})
<1>1. ASSUME NEW p \in Policy \cup {None}, NEW q \in Policy PROVE AreBundles(Bundles({p, q}))
  <2> DEFINE both == {Bundle(p)} \cup {Bundle(q)}
  <2>1. IsFiniteSet(both)
    BY FS_Singleton, FS_Union
  <2>2. Bundles({p, q}) \subseteq both
    BY DEF Bundles
  <2>3. \A b \in Bundles({p, q}) : \E r \in Policy : b = Bundle(r)
    BY DEF Bundles, Present
  <2> HIDE DEF both
  <2> QED
    BY <2>1, <2>2, <2>3, FS_Subset, BundleIs DEF AreBundles
<1>2. ASSUME NEW p \in Policy \cup {None}, NEW q \in Policy, NEW s, IsBundle(s)
      PROVE  AreBundles(Bundles({p, q}) \cup {s})
  <2> DEFINE more == {s}
  <2>1. IsFiniteSet(more)
    BY FS_Singleton
  <2>2. \A b \in more : IsBundle(b)
    BY <1>2
  <2> HIDE DEF more
  <2>3. AreBundles(Bundles({p, q}))
    BY <1>1
  <2>4. IsFiniteSet(Bundles({p, q}) \cup more)
    BY <2>1, <2>3, FS_Union DEF AreBundles
  <2> QED
    BY <2>2, <2>3, <2>4 DEF AreBundles, more
<1> QED
  BY <1>1, <1>2

\* A batch as it is prepared from the kernel.
LEMMA PreparedIs ==
  ASSUME NEW k, IsKernel(k), NEW target, IsBundle(target), NEW union, AreBundles(union)
  PROVE  IsBatch(Prepare(target, union, k), target, union, k, TRUE)
<1> DEFINE b == Prepare(target, union, k)
<1>1. /\ IsList(b)
      /\ \A i \in DOMAIN b : \E f \in Families : \E t \in TablesIn(union, f) :
           t \in Table /\ b[i] = Entry(target, union, k, f, t)
      /\ \A i, j \in DOMAIN b : b[i].family = b[j].family /\ b[i].table = b[j].table => i = j
  <2>1. \A c \in union : IsBundle(c)
    BY DEF AreBundles
  <2> QED
    BY <2>1, Batched
<1> HIDE DEF b
<1>2. ASSUME NEW i \in DOMAIN b PROVE Stands(b[i], target, union, k, TRUE)
  <2>1. PICK f \in Families : \E t \in Table : b[i] = Entry(target, union, k, f, t)
    BY <1>1
  <2>2. PICK t \in Table : b[i] = Entry(target, union, k, f, t)
    BY <2>1
  <2>3. b[i].family = f /\ b[i].table = t
    BY <2>2 DEF Entry
  <2>4. Sound(k[f][t]) /\ SameHooks(k[f][t], k[f][t])
    BY DEF IsKernel, SameHooks
  <2> QED
    BY <2>2, <2>3, <2>4 DEF Stands
<1> QED
  BY <1>1, <1>2 DEF IsBatch, b

(***************************************************************************)
(* Steps of the kernel                                                     *)
(***************************************************************************)
With(k, f, t, y) == [k EXCEPT ![f][t] = y]

LEMMA TableChanged ==
  ASSUME NEW k, IsKernel(k), NEW f \in Families, NEW t \in Table, NEW y, Sound(y), Shared[t] \subseteq DOMAIN y,
         NEW j, j = With(k, f, t, y)
  PROVE  /\ IsKernel(j) /\ j[f][t] = y
         /\ \A g \in Families : \A u \in Table : g # f \/ u # t => j[g][u] = k[g][u]
<1>1. k = [g \in Families |-> [u \in Table |-> k[g][u]]]
  BY DEF IsKernel
<1>2. DOMAIN k = Families /\ \A g \in Families : DOMAIN k[g] = Table
  BY <1>1
<1>3. j = [g \in Families |-> IF g = f THEN [u \in Table |-> IF u = t THEN y ELSE k[g][u]] ELSE k[g]]
  BY <1>2 DEF With
<1>4. j[f][t] = y /\ \A g \in Families : \A u \in Table : g # f \/ u # t => j[g][u] = k[g][u]
  BY <1>3
<1>5. j = [g \in Families |-> [u \in Table |-> j[g][u]]]
  BY <1>1, <1>3
<1>6. ASSUME NEW g \in Families, NEW u \in Table PROVE Sound(j[g][u]) /\ Shared[u] \subseteq DOMAIN j[g][u]
  BY <1>4 DEF IsKernel
<1> QED
  BY <1>4, <1>5, <1>6 DEF IsKernel

\* A rule that is no hook comes to a chain of another program, or goes.
LEMMA ForeignStep ==
  ASSUME NEW k, IsKernel(k), NEW f \in Families, NEW t \in Table, NEW c \in DOMAIN k[f][t], c \notin SuiteChain,
         NEW r, ~IsHook(r),
         NEW new, \/ new = <<r>> \o k[f][t][c] \/ new = k[f][t][c] \o <<r>>
                  \/ Count(k[f][t][c], r) > 0 /\ new = RemoveFirst(k[f][t][c], r),
         NEW j, j = [k EXCEPT ![f][t][c] = new]
  PROVE  IsKernel(j) /\ \A g \in Families : \A u \in Table : SameHooks(j[g][u], k[g][u])
<1> DEFINE x == k[f][t]
           y == [x EXCEPT ![c] = new]
<1>1. Sound(x) /\ Shared[t] \subseteq DOMAIN x
  BY DEF IsKernel
<1>2. j = With(k, f, t, y)
  BY DEF With
<1>3. new = <<r>> \o x[c] \/ new = x[c] \o <<r>> \/ (Count(x[c], r) > 0 /\ new = RemoveFirst(x[c], r))
  OBVIOUS
<1> HIDE DEF x
<1>4. c \in DOMAIN x
  BY DEF x
<1>5. IsList(x[c]) /\ \A d \in SuiteChain : Once(x[c], Hook(d))
  BY <1>1, <1>4 DEF Sound, IsTable, Single
<1>6. \A d : Hook(d) # r
  BY HookIs
<1>7. /\ IsList(new) /\ \A d \in SuiteChain : Once(new, Hook(d))
      /\ \A d : Hook(d) \in Members(new) <=> Hook(d) \in Members(x[c])
  <2>1. CASE new = <<r>> \o x[c]
    <3>1. /\ IsList(new) /\ Members(new) = Members(x[c]) \cup {r}
          /\ \A q : Once(x[c], q) /\ (q = r => q \notin Members(x[c])) => Once(new, q)
      BY <2>1, <1>5, FrontIs
    <3> QED
      BY <3>1, <1>5, <1>6, SMTT(60)
  <2>2. CASE new = x[c] \o <<r>>
    <3>1. /\ IsList(new) /\ Members(new) = Members(x[c]) \cup {r}
          /\ \A q : Once(x[c], q) /\ q # r => Once(new, q)
      BY <2>2, <1>5, BackIs
    <3> QED
      BY SMTT(60), <3>1, <1>5, <1>6
  <2>3. CASE Count(x[c], r) > 0 /\ new = RemoveFirst(x[c], r)
    <3>1. r \in Members(x[c])
      <4>1. Count(x[c], r) # 0
        BY <2>3
      <4> QED
        BY <4>1, <1>5, Counted
    <3>2. /\ IsList(new) /\ Members(new) \subseteq Members(x[c])
          /\ \A q : q # r /\ q \in Members(x[c]) => q \in Members(new)
          /\ \A q : Once(x[c], q) => Once(new, q)
      BY <2>3, <3>1, <1>5, RemovedIs
    <3> QED
      BY <3>2, <1>5, <1>6
  <2> QED
    BY <2>1, <2>2, <2>3, <1>3
<1>8. y = [d \in DOMAIN y |-> y[d]] /\ DOMAIN y = DOMAIN x /\ y[c] = new /\ \A d \in DOMAIN x : d # c => y[d] = x[d]
  BY <1>1, <1>4 DEF Sound, IsTable
<1> HIDE DEF y
<1>9. Sound(y)
  <2>1. IsTable(y)
    BY <1>1, <1>7, <1>8 DEF Sound, IsTable
  <2>2. Clean(y)
    BY <1>1, <1>8 DEF Sound, Clean
  <2>3. Single(y)
    BY <1>1, <1>7, <1>8 DEF Sound, Single
  <2> QED
    BY <2>1, <2>2, <2>3 DEF Sound
<1>10. Shared[t] \subseteq DOMAIN y
  BY <1>1, <1>8
<1>11. /\ IsKernel(j) /\ j[f][t] = y
       /\ \A g \in Families : \A u \in Table : g # f \/ u # t => j[g][u] = k[g][u]
  <2> HIDE DEF x
  <2> QED
    BY ONLY IsKernel(k), f \in Families, t \in Table, <1>2, <1>9, <1>10, TableChanged
<1>12. SameHooks(y, x)
  BY <1>7, <1>8 DEF SameHooks, Has
<1> QED
  BY <1>11, <1>12 DEF SameHooks, x

LEMMA EmptyIs == IsKernel(Empty)
<1>1. Empty = [f \in Families |-> [t \in Table |-> [c \in Shared[t] |-> <<>>]]]
  BY DEF Empty
<1>2. ASSUME NEW f \in Families, NEW t \in Table PROVE Empty[f][t] = [c \in Shared[t] |-> <<>>]
  BY <1>1
<1>3. Empty = [f \in Families |-> [t \in Table |-> Empty[f][t]]]
  BY <1>1
<1>4. ASSUME NEW S PROVE Sound([c \in S |-> <<>>])
  BY Short DEF Sound, IsTable, Clean, Single, Once
<1> QED
  BY <1>2, <1>3, <1>4 DEF IsKernel

LEMMA DockerIs ==
  ASSUME NEW k, IsKernel(k)
  PROVE  IsKernel(WithDocker(k)) /\ \A f \in Families : \A t \in Table : SameHooks(WithDocker(k)[f][t], k[f][t])
<1> DEFINE j == WithDocker(k)
           D(x) == [c \in DOMAIN x \cup {"DOCKER-USER"} |->
                     IF c = "FORWARD" THEN <<DockerJump>> \o x[c]
                     ELSE IF c \in DOMAIN x THEN x[c] ELSE <<>>]
<1>1. k = [f \in Families |-> [t \in Table |-> k[f][t]]] /\ "filter" \in Table
  BY IptAssumption DEF IsKernel
<1>2. j = [f \in Families |-> [k[f] EXCEPT !["filter"] = D(k[f]["filter"])]]
  BY DEF WithDocker
<1> HIDE DEF D
<1>3. \A f \in Families : k[f] = [t \in Table |-> k[f][t]]
  BY <1>1
<1>4. \A f \in Families : j[f] = [t \in Table |-> IF t = "filter" THEN D(k[f]["filter"]) ELSE k[f][t]]
  BY <1>1, <1>2, <1>3
<1>5. j = [f \in Families |-> [t \in Table |-> j[f][t]]]
  BY <1>2, <1>4
<1>6. \A f \in Families : \A t \in Table : j[f][t] = IF t = "filter" THEN D(k[f]["filter"]) ELSE k[f][t]
  BY <1>4
<1> HIDE DEF j
<1>7. ASSUME NEW f \in Families, NEW x, x = k[f]["filter"]
      PROVE  Sound(D(x)) /\ DOMAIN x \subseteq DOMAIN D(x) /\ SameHooks(D(x), x)
  <2> DEFINE y == D(x)
  <2>1. /\ y = [c \in DOMAIN y |-> y[c]] /\ DOMAIN y = DOMAIN x \cup {"DOCKER-USER"}
        /\ \A c \in DOMAIN x : c # "FORWARD" => y[c] = x[c]
    BY DEF D
  <2>2. "FORWARD" \in DOMAIN x /\ "FORWARD" \notin SuiteChain /\ "DOCKER-USER" \notin SuiteChain /\ Sound(x)
    BY <1>1, <1>7, IptAssumption DEF IsKernel
  <2>3. y["FORWARD"] = <<DockerJump>> \o x["FORWARD"]
    BY <2>2 DEF D
  <2>4. "DOCKER-USER" \notin DOMAIN x => y["DOCKER-USER"] = <<>>
    BY <2>2 DEF D
  <2> HIDE DEF y
  <2>5. \A d : Hook(d) # DockerJump
    BY DEF Hook, DockerJump
  <2>6. IsList(x["FORWARD"]) /\ \A d \in SuiteChain : Once(x["FORWARD"], Hook(d))
    BY <2>2 DEF Sound, IsTable, Single
  <2>7. /\ IsList(y["FORWARD"]) /\ Members(y["FORWARD"]) = Members(x["FORWARD"]) \cup {DockerJump}
        /\ \A d \in SuiteChain : Once(y["FORWARD"], Hook(d))
    <3>1. /\ IsList(y["FORWARD"]) /\ Members(y["FORWARD"]) = Members(x["FORWARD"]) \cup {DockerJump}
          /\ \A q : Once(x["FORWARD"], q) /\ (q = DockerJump => q \notin Members(x["FORWARD"])) => Once(y["FORWARD"], q)
      BY <2>3, <2>6, FrontIs, SMTT(60)
    <3> QED
      BY <3>1, <2>5, <2>6
  <2>8. ASSUME NEW c \in DOMAIN y
        PROVE  c = "FORWARD" \/ (c \in DOMAIN x /\ y[c] = x[c]) \/ (c \notin DOMAIN x /\ c = "DOCKER-USER" /\ y[c] = <<>>)
    BY <2>1, <2>4
  <2>9. IsTable(y)
    BY <2>1, <2>2, <2>7, <2>8, Short DEF Sound, IsTable
  <2>10. Clean(y)
    BY <2>2, <2>8 DEF Sound, Clean
  <2>11. Single(y)
    BY <2>2, <2>7, <2>8 DEF Sound, Single, Once
  <2>12. SameHooks(y, x)
    <3>1. ASSUME NEW c, c \notin SuiteChain, NEW d \in SuiteChain PROVE Has(y, c, Hook(d)) <=> Has(x, c, Hook(d))
      <4>1. CASE c = "FORWARD"
        BY <4>1, <2>1, <2>2, <2>5, <2>7 DEF Has
      <4>2. CASE c # "FORWARD"
        BY <4>2, <2>1, <2>8, Short DEF Has
      <4> QED
        BY <4>1, <4>2
    <3> QED
      BY <3>1 DEF SameHooks
  <2> QED
    BY <2>1, <2>9, <2>10, <2>11, <2>12 DEF Sound, y
<1>8. ASSUME NEW f \in Families, NEW t \in Table
      PROVE  Sound(j[f][t]) /\ Shared[t] \subseteq DOMAIN j[f][t] /\ SameHooks(j[f][t], k[f][t])
  <2>1. Sound(k[f][t]) /\ Shared[t] \subseteq DOMAIN k[f][t] /\ SameHooks(k[f][t], k[f][t])
    BY DEF IsKernel, SameHooks
  <2>2. CASE t = "filter"
    <3> DEFINE x == k[f]["filter"]
    <3>1. Sound(D(x)) /\ DOMAIN x \subseteq DOMAIN D(x) /\ SameHooks(D(x), x)
      BY <1>7
    <3>2. j[f][t] = D(x) /\ k[f][t] = x
      BY <2>2, <1>6
    <3> HIDE DEF x
    <3> QED
      BY <2>1, <3>1, <3>2
  <2>3. CASE t # "filter"
    BY <2>1, <2>3, <1>6
  <2> QED
    BY <2>2, <2>3
<1> QED
  BY <1>5, <1>8 DEF IsKernel, j

\* A batch stands while nothing happens to hooks.
LEMMA StillStands ==
  ASSUME NEW b, NEW target, NEW union, NEW k, NEW undisturbed, IsBatch(b, target, union, k, undisturbed), NEW j,
         \A f \in Families : \A t \in Table : SameHooks(j[f][t], k[f][t])
  PROVE  IsBatch(b, target, union, j, FALSE)
<1>1. ASSUME NEW i \in DOMAIN b PROVE Stands(b[i], target, union, j, FALSE)
  <2> DEFINE e == b[i]
  <2>1. Stands(e, target, union, k, undisturbed)
    BY DEF IsBatch
  <2> HIDE DEF e
  <2>2. PICK live : /\ Sound(live[e.family][e.table])
                    /\ e = Entry(target, union, live, e.family, e.table)
                    /\ SameHooks(k[e.family][e.table], live[e.family][e.table])
    BY <2>1 DEF Stands
  <2>3. e.family \in Families /\ e.table \in Table
    BY <2>1 DEF Stands
  <2>4. SameHooks(j[e.family][e.table], live[e.family][e.table])
    BY <2>2, <2>3 DEF SameHooks
  <2>5. Stands(e, target, union, j, FALSE)
    BY <2>2, <2>3, <2>4 DEF Stands
  <2> QED
    BY <2>5 DEF e
<1> QED
  BY <1>1 DEF IsBatch

LEMMA NothingPending == \A target, union, k, undisturbed : IsBatch(<<>>, target, union, k, undisturbed)
BY Short, SMTT(60) DEF IsBatch

\* The first commit of a batch, when it is accepted.
LEMMA CommitStep ==
  ASSUME NEW target, IsBundle(target), NEW union, AreBundles(union), NEW k, IsKernel(k), NEW undisturbed,
         NEW b, IsBatch(b, target, union, k, undisturbed), b # <<>>,
         NEW y, y = Run(Head(b).commands, k[Head(b).family][Head(b).table]), y # None,
         NEW j, j = With(k, Head(b).family, Head(b).table, y)
  PROVE  IsKernel(j) /\ IsBatch(Tail(b), target, union, j, undisturbed) /\ Others(j) = Others(k)
<1> DEFINE e == Head(b)
           f == e.family
           t == e.table
           x == k[f][t]
<1>1. IsList(b)
  BY DEF IsBatch
<1>2. /\ IsList(Tail(b)) /\ 1 \in DOMAIN b /\ e = b[1] /\ Len(b) \in Nat
      /\ DOMAIN Tail(b) = 1..(Len(b) - 1)
      /\ \A i \in 1..(Len(b) - 1) : i + 1 \in DOMAIN b /\ Tail(b)[i] = b[i + 1]
  BY <1>1, Rest
<1> HIDE DEF e
<1>3. Stands(e, target, union, k, undisturbed)
  BY <1>2 DEF IsBatch
<1>4. PICK live : /\ Sound(live[f][t])
                  /\ e = Entry(target, union, live, f, t)
                  /\ SameHooks(x, live[f][t])
  BY <1>3 DEF Stands
<1>5. f \in Families /\ t \in Table
  BY <1>3 DEF Stands
<1>6. y = Run(TableCommands(target, union, live, f, t), x)
  <2>1. e.commands = TableCommands(target, union, live, f, t)
    <3> DEFINE g == f
               u == t
    <3> HIDE DEF g, u
    <3>1. e = Entry(target, union, live, g, u)
      BY <1>4 DEF g, u
    <3>2. e.commands = TableCommands(target, union, live, g, u)
      BY <3>1, SMTT(60) DEF Entry
    <3> QED
      BY <3>2 DEF g, u
  <2> QED
    BY <2>1 DEF e
<1>7. Sound(x) /\ Shared[t] \subseteq DOMAIN x
  BY <1>5 DEF IsKernel
<1> HIDE DEF f, t, x
<1>8. \A h \in HooksOf(target, union, t) : h.parent \notin SuiteChain /\ h.chain \in SuiteChain
  <2>1. IsBundle(target) /\ IsFiniteSet(union) /\ \A d \in union : IsBundle(d)
    BY DEF AreBundles
  <2> QED
    BY <1>5, <2>1, Material
<1>9. \A h \in HooksOf(target, union, t) : HasHook(x, h) <=> HasHook(live[f][t], h)
  BY <1>4, <1>8 DEF SameHooks, HasHook
<1>10. /\ Sound(y) /\ OthersIn(y) = OthersIn(x)
       /\ \A c : c \notin SuiteChain => (c \in DOMAIN x <=> c \in DOMAIN y)
  <2>1. IsBundle(target) /\ IsFiniteSet(union) /\ \A d \in union : IsBundle(d)
    BY DEF AreBundles
  <2> QED
    BY ONLY y # None, <2>1, <1>4, <1>5, <1>6, <1>7, <1>9, TableOutcome, SMTT(60)
<1>11. Shared[t] \subseteq DOMAIN y
  BY <1>5, <1>7, <1>10, IptAssumption
<1>12. j = With(k, f, t, y)
  BY DEF e, f, t
<1>13. /\ IsKernel(j) /\ j[f][t] = y
       /\ \A g \in Families : \A u \in Table : g # f \/ u # t => j[g][u] = k[g][u]
  BY ONLY IsKernel(k), <1>5, <1>10, <1>11, <1>12, TableChanged
<1>14. ASSUME NEW i \in DOMAIN Tail(b) PROVE Stands(Tail(b)[i], target, union, j, undisturbed)
  <2> DEFINE d == Tail(b)[i]
  <2>1. i \in 1..(Len(b) - 1) /\ i + 1 \in DOMAIN b /\ d = b[i + 1] /\ i + 1 # 1
    BY <1>2
  <2>2. Stands(d, target, union, k, undisturbed)
    BY <2>1 DEF IsBatch
  <2>3. d.family # f \/ d.table # t
    BY <2>1, <1>2 DEF IsBatch, f, t
  <2> HIDE DEF d
  <2>4. d.family \in Families /\ d.table \in Table
    BY <2>2, SMTT(60) DEF Stands
  <2>5. j[d.family][d.table] = k[d.family][d.table]
    BY <2>3, <2>4, <1>13, ZenonT(60)
  <2>6. Stands(d, target, union, j, undisturbed)
    BY <2>2, <2>5, ZenonT(60) DEF Stands
  <2> QED
    BY <2>6 DEF d
<1>15. ASSUME NEW i \in DOMAIN Tail(b), NEW m \in DOMAIN Tail(b),
              Tail(b)[i].family = Tail(b)[m].family, Tail(b)[i].table = Tail(b)[m].table
       PROVE  i = m
  <2>1. i + 1 \in DOMAIN b /\ m + 1 \in DOMAIN b /\ Tail(b)[i] = b[i + 1] /\ Tail(b)[m] = b[m + 1]
    BY <1>2
  <2>2. i + 1 = m + 1
    BY <2>1, <1>15 DEF IsBatch
  <2> QED
    BY <2>2, <1>2
<1>16. IsBatch(Tail(b), target, union, j, undisturbed)
  BY <1>2, <1>14, <1>15, SMTT(60) DEF IsBatch
<1>17. Others(j) = Others(k)
  <2>1. \A g \in Families : \A u \in Table : OthersIn(j[g][u]) = OthersIn(k[g][u])
    BY <1>10, <1>13, ZenonT(60) DEF x
  <2>2. \A q : Others(q) = [g \in Families |-> [u \in Table |-> OthersIn(q[g][u])]]
    BY DEF Others, OthersIn
  <2> QED
    BY <2>1, <2>2, SMTT(60)
<1> QED
  BY <1>13, <1>16, <1>17, ZenonT(60)

(***************************************************************************)
(* Every step                                                              *)
(***************************************************************************)
LEMMA InvInit == Init => IptInv
<1> SUFFICES ASSUME Init PROVE IptInv
  OBVIOUS
<1>1. IsKernel(WithDocker(Empty))
  BY EmptyIs, DockerIs
<1>2. /\ kernel = WithDocker(Empty) /\ current = None /\ journal = NoJournal /\ pc = "idle" /\ batch = <<>>
      /\ disturbed = 0
  BY DEF Init
<1>3. IsBatch(batch, Aim(journal, pc), Sides(journal, pc), kernel, fresh)
  BY <1>2, NothingPending
<1>4. disturbed \in 0..MaxDisturbances
  BY <1>2, IptAssumption
<1> QED
  BY <1>1, <1>2, <1>3, <1>4 DEF IptInv

LEMMA MarkKeeps ==
  ASSUME NEW j, IsJournal(j), NEW m, m = [j EXCEPT !.handed = FALSE] \/ m = [j EXCEPT !.handed = TRUE]
  PROVE  /\ IsJournal(m) /\ m.previous = j.previous /\ m.candidate = j.candidate
         /\ m.disabled = j.disabled /\ m.snapshot = j.snapshot
<1>1. /\ m.previous = j.previous /\ m.candidate = j.candidate /\ m.disabled = j.disabled /\ m.snapshot = j.snapshot
      /\ m = [previous |-> j.previous, candidate |-> j.candidate, disabled |-> j.disabled,
              snapshot |-> j.snapshot, handed |-> m.handed]
  BY DEF IsJournal
<1> QED
  BY <1>1 DEF IsJournal

LEMMA ApplyStep ==
  ASSUME IptInv, NEW p \in Policy, NEW disabled \in BOOLEAN, Apply(p, disabled)
  PROVE  IptInv'
<1>1. IsBundle(Snapshot(current, kernel))
  BY SnapshotIs DEF IptInv
<1>2. /\ journal' = [previous |-> current, candidate |-> p, disabled |-> disabled,
                     snapshot |-> Snapshot(current, kernel), handed |-> FALSE]
      /\ batch' = Prepare(IF disabled THEN NoBundle ELSE Bundle(p), Bundles({current, p}), kernel)
      /\ pc' = "apply" /\ fresh' = TRUE /\ UNCHANGED <<kernel, current, disturbed>>
  BY DEF Apply
<1>3. IsJournal(journal')
  BY <1>1, <1>2 DEF IptInv, IsJournal
<1>4. Aim(journal', "apply") = IF disabled THEN NoBundle ELSE Bundle(p)
  BY <1>2 DEF Aim
<1>5. Sides(journal', "apply") = Bundles({current, p})
  BY <1>2 DEF Sides
<1> DEFINE target == IF disabled THEN NoBundle ELSE Bundle(p)
           union == Bundles({current, p})
<1>6. IsBundle(target) /\ AreBundles(union) /\ IsKernel(kernel)
  BY BundleIs, NothingIs, SidesAre DEF IptInv
<1> HIDE DEF target, union
<1>7. IsBatch(Prepare(target, union, kernel), target, union, kernel, TRUE)
  BY <1>6, PreparedIs
<1>8. IsBatch(batch', Aim(journal', pc'), Sides(journal', pc'), kernel', fresh')
  <2>1. batch' = Prepare(target, union, kernel) /\ Aim(journal', pc') = target /\ Sides(journal', pc') = union
        /\ kernel' = kernel /\ fresh' = TRUE
    BY <1>2, <1>4, <1>5 DEF target, union
  <2> QED
    BY <1>7, <2>1
<1> QED
  BY <1>2, <1>3, <1>8 DEF IptInv

LEMMA RollbackStep ==
  ASSUME IptInv, Rollback
  PROVE  IptInv'
<1>1. /\ journal # NoJournal /\ pc' = "rollback" /\ fresh' = TRUE /\ UNCHANGED <<kernel, current, disturbed>>
      /\ journal' = [journal EXCEPT !.handed = FALSE]
      /\ batch' = Prepare(journal.snapshot,
                          Bundles({journal.previous, journal.candidate}) \cup {journal.snapshot}, kernel)
  BY DEF Rollback
<1>2. IsJournal(journal)
  BY <1>1 DEF IptInv
<1>3. /\ IsJournal(journal') /\ journal'.previous = journal.previous /\ journal'.candidate = journal.candidate
      /\ journal'.snapshot = journal.snapshot
  BY <1>1, <1>2, MarkKeeps
<1> DEFINE target == journal.snapshot
           union == Bundles({journal.previous, journal.candidate}) \cup {journal.snapshot}
<1>4. IsBundle(target) /\ AreBundles(union) /\ IsKernel(kernel)
  BY <1>2, SidesAre DEF IptInv, IsJournal
<1>5. Aim(journal', "rollback") = target /\ Sides(journal', "rollback") = union
  BY <1>3 DEF Aim, Sides
<1>6. batch' = Prepare(target, union, kernel)
  BY <1>1
<1> HIDE DEF target, union
<1>7. IsBatch(Prepare(target, union, kernel), target, union, kernel, TRUE)
  BY <1>4, PreparedIs
<1>8. IsBatch(batch', Aim(journal', pc'), Sides(journal', pc'), kernel', fresh')
  BY <1>1, <1>5, <1>6, <1>7
<1> QED
  BY <1>1, <1>3, <1>8 DEF IptInv

\* What an accepted commit makes of the kernel.
LEMMA Committed ==
  ASSUME IptInv, pc \in {"apply", "rollback"}, batch # <<>>, Outcome # None
  PROVE  /\ IsKernel(Changed) /\ IsBatch(Tail(batch), Aim(journal, pc), Sides(journal, pc), Changed, fresh)
         /\ Others(Changed) = Others(kernel)
<1> DEFINE target == Aim(journal, pc)
           union == Sides(journal, pc)
           y == Outcome
           j == Changed
<1>1. IsJournal(journal)
  BY DEF IptInv
<1>2. IsBundle(target) /\ AreBundles(union)
  <2>1. /\ journal.previous \in Policy \cup {None} /\ journal.candidate \in Policy /\ IsBundle(journal.snapshot)
    BY <1>1 DEF IsJournal
  <2>2. IsBundle(target)
    BY <2>1, BundleIs, NothingIs DEF Aim
  <2>3. CASE pc = "apply"
    <3>1. union = Bundles({journal.previous, journal.candidate})
      BY <2>3 DEF Sides
    <3> QED
      BY <2>1, <2>2, <3>1, SidesAre
  <2>4. CASE pc # "apply"
    <3>1. union = Bundles({journal.previous, journal.candidate}) \cup {journal.snapshot}
      BY <2>4 DEF Sides
    <3> QED
      BY <2>1, <2>2, <3>1, SidesAre
  <2> QED
    BY <2>3, <2>4
<1>3. y = Run(Head(batch).commands, kernel[Head(batch).family][Head(batch).table])
  BY DEF Outcome
<1>4. j = With(kernel, Head(batch).family, Head(batch).table, y)
  BY DEF Changed, With
<1>5. IsKernel(kernel) /\ IsBatch(batch, target, union, kernel, fresh)
  BY DEF IptInv
<1> HIDE DEF target, union, y, j
<1>6. y # None
  BY DEF y
<1>7. IsKernel(j) /\ IsBatch(Tail(batch), target, union, j, fresh) /\ Others(j) = Others(kernel)
  BY ONLY batch # <<>>, <1>2, <1>3, <1>4, <1>5, <1>6, CommitStep
<1> QED
  BY <1>7 DEF target, union, j

LEMMA CommitSteps ==
  ASSUME IptInv, Commit \/ CommitFails
  PROVE  IptInv' /\ Others(kernel') = Others(kernel)
<1>1. CASE Commit
  <2>1. /\ pc \in {"apply", "rollback"} /\ batch # <<>> /\ Outcome # None /\ kernel' = Changed /\ batch' = Tail(batch)
        /\ UNCHANGED <<current, journal, pc, fresh, disturbed>>
    BY <1>1 DEF Commit
  <2>2. /\ IsKernel(Changed) /\ IsBatch(Tail(batch), Aim(journal, pc), Sides(journal, pc), Changed, fresh)
        /\ Others(Changed) = Others(kernel)
    BY <2>1, Committed
  <2> QED
    BY <2>1, <2>2 DEF IptInv
<1>2. CASE CommitFails
  <2>1. /\ pc \in {"apply", "rollback"} /\ batch # <<>> /\ batch' = <<>> /\ pc' \in {"recover", "idle"}
        /\ kernel' = kernel \/ (Outcome # None /\ kernel' = Changed)
        /\ UNCHANGED <<current, journal, fresh, disturbed>>
    BY <1>2 DEF CommitFails
  <2>2. IsKernel(kernel') /\ Others(kernel') = Others(kernel)
    BY <2>1, Committed DEF IptInv
  <2>3. IsBatch(batch', Aim(journal', pc'), Sides(journal', pc'), kernel', fresh')
    BY <2>1, NothingPending
  <2>4. IsJournal(journal)
    BY <2>1 DEF IptInv
  <2> QED
    BY <2>1, <2>2, <2>3, <2>4 DEF IptInv
<1> QED
  BY <1>1, <1>2

LEMMA OtherSteps ==
  ASSUME IptInv, Applied \/ RolledBack \/ Confirm \/ ConfirmStops \/ Killed
  PROVE  IptInv'
<1>1. CASE Applied
  <2>1. /\ pc = "apply" /\ batch = <<>> /\ pc' = "idle" /\ journal' = [journal EXCEPT !.handed = TRUE]
        /\ UNCHANGED <<kernel, current, batch, fresh, disturbed>>
    BY <1>1 DEF Applied
  <2>2. IsJournal(journal')
    BY <2>1, MarkKeeps DEF IptInv
  <2>3. IsBatch(batch', Aim(journal', pc'), Sides(journal', pc'), kernel', fresh')
    BY <2>1, NothingPending
  <2> QED
    BY <2>1, <2>2, <2>3 DEF IptInv
<1>2. CASE RolledBack
  <2>1. /\ pc = "rollback" /\ batch = <<>> /\ pc' = "idle" /\ journal' = NoJournal /\ current' = journal.previous
        /\ UNCHANGED <<kernel, batch, fresh, disturbed>>
    BY <1>2 DEF RolledBack
  <2>2. IsJournal(journal)
    BY <2>1 DEF IptInv
  <2>3. IsBatch(batch', Aim(journal', pc'), Sides(journal', pc'), kernel', fresh')
    BY <2>1, NothingPending
  <2> QED
    BY <2>1, <2>2, <2>3 DEF IptInv, IsJournal
<1>3. CASE Confirm
  <2>1. /\ pc = "idle" /\ journal # NoJournal /\ journal' = NoJournal /\ current' \in {None, journal.candidate}
        /\ UNCHANGED <<kernel, pc, batch, fresh, disturbed>>
    BY <1>3 DEF Confirm
  <2>2. IsJournal(journal) /\ batch = <<>>
    BY <2>1 DEF IptInv
  <2>3. IsBatch(batch', Aim(journal', pc'), Sides(journal', pc'), kernel', fresh')
    BY <2>1, <2>2, NothingPending
  <2> QED
    BY <2>1, <2>2, <2>3 DEF IptInv, IsJournal
<1>4. CASE ConfirmStops
  <2>1. /\ pc = "idle" /\ journal # NoJournal /\ current' \in {None, journal.candidate}
        /\ UNCHANGED <<kernel, journal, pc, batch, fresh, disturbed>>
    BY <1>4 DEF ConfirmStops
  <2>2. IsJournal(journal)
    BY <2>1 DEF IptInv
  <2> QED
    BY <2>1, <2>2 DEF IptInv, IsJournal
<1>5. CASE Killed
  <2>1. pc' = "idle" /\ batch' = <<>> /\ UNCHANGED <<kernel, current, journal, fresh, disturbed>>
    BY <1>5 DEF Killed
  <2>2. IsBatch(batch', Aim(journal', pc'), Sides(journal', pc'), kernel', fresh')
    BY <2>1, NothingPending
  <2> QED
    BY <2>1, <2>2 DEF IptInv
<1> QED
  BY <1>1, <1>2, <1>3, <1>4, <1>5

LEMMA ForeignSteps ==
  ASSUME IptInv, Foreign
  PROVE  IptInv'
<1>0. IsKernel(kernel) /\ IsBatch(batch, Aim(journal, pc), Sides(journal, pc), kernel, fresh)
  BY DEF IptInv
<1>1. ASSUME NEW kind, Disturb(kind), IsKernel(kernel'), UNCHANGED <<journal, pc, batch>>,
             \A f \in Families : \A t \in Table : SameHooks(kernel'[f][t], kernel[f][t])
      PROVE  IptInv'
  <2>1. disturbed' \in 0..MaxDisturbances /\ fresh' = FALSE /\ current' = current
    BY <1>1, IptAssumption DEF Disturb, IptInv
  <2> DEFINE target == Aim(journal, pc)
             union == Sides(journal, pc)
  <2>2. IsBatch(batch, target, union, kernel', FALSE)
    <3> HIDE DEF target, union
    <3>1. IsBatch(batch, target, union, kernel, fresh)
      BY <1>0 DEF target, union
    <3> QED
      BY <1>1, <3>1, StillStands
  <2>3. IsBatch(batch', Aim(journal', pc'), Sides(journal', pc'), kernel', fresh')
    BY <1>1, <2>1, <2>2
  <2> QED
    BY <1>1, <2>1, <2>3 DEF IptInv
<1>2. ASSUME NEW s \in Spots PROVE s.family \in Families /\ s.table \in Table /\ s.chain \notin SuiteChain
  BY IptAssumption DEF Families
<1>3. ASSUME NEW r \in ForeignRule PROVE ~IsHook(r)
  BY IptAssumption
<1>4. ASSUME NEW s \in Spots, NEW r \in ForeignRule, ForeignRemoves(s, r) PROVE IptInv'
  <2> DEFINE f == s.family
             t == s.table
             c == s.chain
             new == RemoveFirst(kernel[f][t][c], r)
  <2>1. /\ Disturb("remove") /\ c \in DOMAIN kernel[f][t] /\ Count(kernel[f][t][c], r) > 0
        /\ kernel' = [kernel EXCEPT ![f][t][c] = new]
        /\ UNCHANGED <<journal, pc, batch>>
    BY <1>4 DEF ForeignRemoves
  <2>2. f \in Families /\ t \in Table /\ c \notin SuiteChain
    BY <1>2
  <2> HIDE DEF f, t, c
  <2>3. IsKernel(kernel') /\ \A g \in Families : \A u \in Table : SameHooks(kernel'[g][u], kernel[g][u])
    BY <1>0, <1>3, <2>1, <2>2, ForeignStep
  <2> QED
    BY <1>1, <2>1, <2>3
<1>5. ASSUME NEW s \in Spots, NEW r \in ForeignRule, NEW front \in BOOLEAN, ForeignInserts(s, r, front) PROVE IptInv'
  <2> DEFINE f == s.family
             t == s.table
             c == s.chain
             new == IF front THEN <<r>> \o kernel[f][t][c] ELSE kernel[f][t][c] \o <<r>>
  <2>1. /\ \E kind : Disturb(kind)
        /\ c \in DOMAIN kernel[f][t]
        /\ kernel' = [kernel EXCEPT ![f][t][c] = new]
        /\ UNCHANGED <<journal, pc, batch>>
    BY <1>5 DEF ForeignInserts
  <2>2. f \in Families /\ t \in Table /\ c \notin SuiteChain
    BY <1>2, SMTT(60)
  <2>3. new = <<r>> \o kernel[f][t][c] \/ new = kernel[f][t][c] \o <<r>>
    BY ZenonT(60)
  <2> HIDE DEF f, t, c, new
  <2>4. IsKernel(kernel') /\ \A g \in Families : \A u \in Table : SameHooks(kernel'[g][u], kernel[g][u])
    BY <1>0, <1>3, <2>1, <2>2, <2>3, ForeignStep
  <2> QED
    BY <1>1, <2>1, <2>4
<1>6. ASSUME Reboot PROVE IptInv'
  <2>1. /\ Disturb("reboot") /\ pc' = "idle" /\ batch' = <<>> /\ kernel' = Empty
        /\ journal' = IF journal = NoJournal THEN NoJournal ELSE [journal EXCEPT !.handed = FALSE]
    BY <1>6 DEF Reboot
  <2>2. disturbed' \in 0..MaxDisturbances /\ fresh' = FALSE /\ current' = current
    BY <2>1, IptAssumption DEF Disturb, IptInv
  <2>3. journal' # NoJournal => IsJournal(journal')
    BY <2>1, MarkKeeps DEF IptInv
  <2>4. IsBatch(batch', Aim(journal', pc'), Sides(journal', pc'), kernel', fresh')
    BY <2>1, NothingPending
  <2> QED
    BY <2>1, <2>2, <2>3, <2>4, EmptyIs DEF IptInv
<1>7. ASSUME DockerStarts PROVE IptInv'
  <2>1. Disturb("docker") /\ kernel' = WithDocker(kernel) /\ UNCHANGED <<journal, pc, batch>>
    BY <1>7 DEF DockerStarts
  <2>2. IsKernel(kernel') /\ \A f \in Families : \A t \in Table : SameHooks(kernel'[f][t], kernel[f][t])
    BY <1>0, <2>1, DockerIs
  <2> QED
    BY <1>1, <2>1, <2>2
<1> QED
  BY <1>4, <1>5, <1>6, <1>7 DEF Foreign

LEMMA InvNext ==
  ASSUME IptInv, Next
  PROVE  IptInv'
<1>1. CASE \E p \in Policy, disabled \in BOOLEAN : Apply(p, disabled)
  BY <1>1, ApplyStep
<1>2. CASE Commit \/ CommitFails
  BY <1>2, CommitSteps
<1>3. CASE Rollback
  BY <1>3, RollbackStep
<1>4. CASE Applied \/ RolledBack \/ Confirm \/ ConfirmStops \/ Killed
  BY <1>4, OtherSteps
<1>5. CASE Foreign
  BY <1>5, ForeignSteps
<1> QED
  BY <1>1, <1>2, <1>3, <1>4, <1>5 DEF Next

LEMMA InvStutters ==
  ASSUME IptInv, UNCHANGED vars
  PROVE  IptInv'
BY DEF IptInv, vars

LEMMA InvHolds == Spec => []IptInv
<1>1. IptInv /\ [Next]_vars => IptInv'
  BY InvNext, InvStutters
<1> QED
  BY <1>1, InvInit, PTL DEF Spec

\* Whatever is interrupted or done by others, the kernel keeps the chains that are
\* always there and the records of the engine their meaning.
THEOREM IptTypeSafe == Spec => []TypeOK
<1>1. IptInv => TypeOK
  BY DEF IptInv, IsKernel, TypeOK
<1> QED
  BY <1>1, InvHolds, PTL

\* The suite never changes a rule or a chain of another program, from whatever
\* kernel its commands were prepared (ip_transaction).
THEOREM ForeignSafe == Spec => ForeignKept
<1>1. IptInv /\ [Next]_vars => [Commit \/ CommitFails => Others(kernel') = Others(kernel)]_vars
  BY CommitSteps
<1> QED
  BY <1>1, InvHolds, PTL DEF Spec, ForeignKept

\* No interruption and no repetition leaves a hook twice, for any number of
\* policies, tables and disturbances (ip_transaction, "count" and "keep").
THEOREM HookSafe == Spec => []HookOnce
<1>1. ASSUME IptInv PROVE HookOnce
  <2>1. ASSUME NEW f \in Families, NEW t \in Table, NEW c \in DOMAIN kernel[f][t], NEW d \in SuiteChain
        PROVE  Count(kernel[f][t][c], Hook(d)) <= 1
    <3> DEFINE x == kernel[f][t]
               s == x[c]
    <3>1. Sound(x)
      BY <1>1 DEF IptInv, IsKernel
    <3> HIDE DEF x
    <3>2. IsList(s)
      BY <3>1 DEF Sound, IsTable, x
    <3>3. Once(s, Hook(d))
      <4>1. CASE c \in SuiteChain
        <5>1. Hook(d) \notin Members(s)
          BY <3>1, <4>1, HookIs DEF Sound, Clean, x
        <5> QED
          BY <5>1 DEF Once, Members
      <4>2. CASE c \notin SuiteChain
        BY <3>1, <4>2 DEF Sound, Single, x
      <4> QED
        BY <4>1, <4>2
    <3> HIDE DEF s
    <3>4. Count(s, Hook(d)) <= 1
      BY <3>2, <3>3, Counted DEF Once
    <3> QED
      BY <3>4 DEF s, x
  <2> QED
    BY <2>1 DEF HookOnce
<1> QED
  BY <1>1, InvHolds, PTL

(***************************************************************************)
(* What a commit makes of the suite's own chains                           *)
(***************************************************************************)
\* Two tables have the same in a chain.
SameAt(x, y, c) == (c \in DOMAIN x <=> c \in DOMAIN y) /\ (c \in DOMAIN x => y[c] = x[c])

LEMMA OneChain ==
  ASSUME NEW x, IsTable(x), NEW cmd, cmd.do \in Deeds, x # None, NEW y, y = Do(x, cmd), y # None
  PROVE  \A d : d # cmd.chain => SameAt(x, y, d)
<1>1. /\ \A d : d # cmd.chain => (d \in DOMAIN x <=> d \in DOMAIN y) /\ (d \in DOMAIN x => y[d] = x[d])
      /\ cmd.do # "remove" => cmd.chain \in DOMAIN y
      /\ cmd.do = "delete" => cmd.rule \in Members(x[cmd.chain]) /\ y[cmd.chain] = RemoveFirst(x[cmd.chain], cmd.rule)
      /\ cmd.do = "insert" => y[cmd.chain] = <<cmd.rule>> \o x[cmd.chain]
  BY Outcomes
<1> QED
  BY <1>1 DEF SameAt

\* Commands about one chain change no other.
LEMMA RunAt ==
  ASSUME NEW x, IsTable(x), NEW c, NEW s, IsList(s), \A cmd \in Members(s) : cmd.chain = c /\ cmd.do \in Deeds,
         Run(s, x) # None
  PROVE  IsTable(Run(s, x)) /\ \A d : d # c => SameAt(x, Run(s, x), d)
<1> DEFINE n == Len(s)
<1>1. n \in Nat /\ \A i \in 1..n : s[i].chain = c /\ s[i].do \in Deeds
  BY ListFacts DEF Members
<1>2. PICK y : /\ y[0] = x /\ y[n] = Run(s, x)
               /\ \A i \in 0..n : IsTable(y[i]) /\ y[i] # None
               /\ \A i \in 1..n : y[i] = Do(y[i - 1], s[i])
  BY <1>1, RunSteps
<1> HIDE DEF n
<1> DEFINE S == {i \in 0..n : \A d : d # c => SameAt(x, y[i], d)}
<1>3. \A i \in 0..n : i \in S
  <2>1. 0 \in S
    BY <1>1, <1>2 DEF SameAt
  <2>2. ASSUME NEW i \in 1..n, i - 1 \in S PROVE i \in S
    <3> DEFINE before == y[i - 1]
               after == y[i]
               cmd == s[i]
    <3>1. i \in 0..n /\ i - 1 \in 0..n
      BY <1>1
    <3>2. /\ IsTable(before) /\ before # None /\ after = Do(before, cmd) /\ after # None
          /\ cmd.do \in Deeds /\ cmd.chain = c
      BY <3>1, <1>1, <1>2
    <3>3. \A d : d # c => SameAt(x, before, d)
      BY <2>2
    <3> HIDE DEF before, after, cmd
    <3>4. \A d : d # cmd.chain => SameAt(before, after, d)
      BY <3>2, OneChain
    <3>5. \A d : d # c => SameAt(x, after, d)
      BY <3>2, <3>3, <3>4 DEF SameAt
    <3> QED
      BY <3>1, <3>5 DEF after
  <2> HIDE DEF S
  <2> QED
    BY <1>1, <2>1, <2>2, Climb
<1>4. n \in 0..n
  BY <1>1
<1> QED
  BY <1>2, <1>3, <1>4

\* Each chain in its turn: its commands find it as it was at the beginning, and
\* leave it as it is at the end.
LEMMA Turns ==
  ASSUME NEW x, IsTable(x), NEW order, IsList(order), Distinct(order),
         NEW parts, IsList(parts), Len(parts) = Len(order), \A i \in DOMAIN parts : IsList(parts[i]),
         \A i \in DOMAIN parts : \A cmd \in Members(parts[i]) : cmd.chain = order[i] /\ cmd.do \in Deeds,
         NEW y, y = Run(FlattenSeq(parts), x), y # None
  PROVE  /\ \A c : c \notin Members(order) => SameAt(x, y, c)
         /\ \A i \in DOMAIN order : \E u : /\ IsTable(u) /\ u # None /\ SameAt(x, u, order[i])
                                           /\ Run(parts[i], u) # None /\ SameAt(Run(parts[i], u), y, order[i])
<1> DEFINE n == Len(order)
<1>1. n \in Nat /\ DOMAIN order = 1..n /\ DOMAIN parts = 1..n
  BY ListFacts
<1>2. PICK z : /\ z[0] = x /\ \A i \in 1..n : z[i] = Run(parts[i], z[i - 1])
               /\ z[n] = y
               /\ \A i \in 0..n : z[i] # None
  <2>1. Run(FlattenSeq(parts), x) # None
    OBVIOUS
  <2>2. \E z : /\ z[0] = x /\ \A i \in 1..Len(parts) : z[i] = Run(parts[i], z[i - 1])
               /\ z[Len(parts)] = Run(FlattenSeq(parts), x)
               /\ \A i \in 0..Len(parts) : z[i] # None
    BY <2>1, EachAccepted
  <2> QED
    BY <2>2
<1> HIDE DEF n
<1>3. ASSUME NEW i \in 1..n, IsTable(z[i - 1]) PROVE IsTable(z[i]) /\ \A d : d # order[i] => SameAt(z[i - 1], z[i], d)
  <2> DEFINE before == z[i - 1]
             part == parts[i]
             c == order[i]
  <2>1. /\ IsList(part) /\ z[i] = Run(part, before) /\ z[i] # None
        /\ \A cmd \in Members(part) : cmd.chain = c /\ cmd.do \in Deeds
    <3>1. i \in 0..n
      BY <1>1
    <3> QED
      BY <3>1, <1>1, <1>2
  <2>2. IsTable(before)
    BY <1>3
  <2> HIDE DEF before, part, c
  <2>3. IsTable(Run(part, before)) /\ \A d : d # c => SameAt(before, Run(part, before), d)
    BY <2>1, <2>2, RunAt
  <2> QED
    BY <2>1, <2>3 DEF before, c
<1> DEFINE Untouched(i) == \A c : (\A m \in 1..i : c # order[m]) => SameAt(x, z[i], c)
           S == {i \in 0..n : IsTable(z[i]) /\ Untouched(i)}
<1>4. \A i \in 0..n : i \in S
  <2>1. 0 \in S
    BY <1>1, <1>2 DEF SameAt
  <2>2. ASSUME NEW i \in 1..n, i - 1 \in S PROVE i \in S
    <3>1. i \in 0..n /\ i \in 1..i /\ \A m \in 1..(i - 1) : m \in 1..i
      BY <1>1
    <3>2. IsTable(z[i]) /\ \A d : d # order[i] => SameAt(z[i - 1], z[i], d)
      BY <1>3, <2>2
    <3>3. ASSUME NEW c, \A m \in 1..i : c # order[m] PROVE SameAt(x, z[i], c)
      <4>1. c # order[i] /\ \A m \in 1..(i - 1) : c # order[m]
        BY <3>1, <3>3
      <4>2. SameAt(x, z[i - 1], c) /\ SameAt(z[i - 1], z[i], c)
        BY <4>1, <2>2, <3>2
      <4> QED
        BY <4>2 DEF SameAt
    <3> QED
      BY <3>1, <3>2, <3>3
  <2> HIDE DEF S
  <2> QED
    BY <1>1, <2>1, <2>2, Climb
<1>5. \A c : c \notin Members(order) => SameAt(x, y, c)
  <2>1. n \in 0..n
    BY <1>1
  <2> QED
    BY <2>1, <1>1, <1>2, <1>4 DEF Members
<1>6. ASSUME NEW i \in 1..n
      PROVE  \E u : /\ IsTable(u) /\ u # None /\ SameAt(x, u, order[i])
                    /\ Run(parts[i], u) # None /\ SameAt(Run(parts[i], u), y, order[i])
  <2> DEFINE c == order[i]
             T == {m \in 0..(n - i) : SameAt(z[i], z[i + m], c)}
  <2>1. i - 1 \in 0..n /\ i \in 0..n /\ \A m \in 1..(i - 1) : m \in 1..n /\ m # i
    BY <1>1
  <2>2. SameAt(x, z[i - 1], c)
    <3>1. \A m \in 1..(i - 1) : c # order[m]
      BY <2>1, <1>1 DEF Distinct
    <3> QED
      BY <2>1, <3>1, <1>4
  <2> HIDE DEF c
  <2>3. \A m \in 0..(n - i) : m \in T
    <3>1. 0 \in T
      BY <1>1 DEF SameAt
    <3>2. ASSUME NEW m \in 1..(n - i), m - 1 \in T PROVE m \in T
      <4>1. i + m \in 1..n /\ (i + m) - 1 = i + (m - 1) /\ (i + m) - 1 \in 0..n /\ i + m # i /\ m \in 0..(n - i)
        BY <1>1
      <4>2. IsTable(z[(i + m) - 1])
        BY <4>1, <1>4
      <4>3. c # order[i + m]
        BY <4>1, <1>1 DEF Distinct, c
      <4>4. SameAt(z[(i + m) - 1], z[i + m], c)
        BY <4>1, <4>2, <4>3, <1>3
      <4>5. SameAt(z[i], z[(i + m) - 1], c)
        BY <4>1, <3>2
      <4>6. SameAt(z[i], z[i + m], c)
        BY <4>4, <4>5 DEF SameAt
      <4> QED
        BY <4>1, <4>6
    <3>3. n - i \in Nat
      BY <1>1
    <3> HIDE DEF T
    <3> QED
      BY <3>1, <3>2, <3>3, Climb
  <2>4. SameAt(z[i], y, c)
    <3>1. n - i \in 0..(n - i) /\ i + (n - i) = n
      BY <1>1
    <3>2. SameAt(z[i], z[i + (n - i)], c)
      BY <2>3, <3>1
    <3> QED
      BY <3>1, <3>2, <1>2
  <2>5. IsTable(z[i - 1]) /\ z[i - 1] # None /\ Run(parts[i], z[i - 1]) = z[i] /\ z[i] # None
    BY <2>1, <1>2, <1>4
  <2> QED
    BY <2>2, <2>4, <2>5 DEF c
<1> QED
  BY <1>1, <1>5, <1>6

LEMMA FlushIs ==
  ASSUME NEW desired, NEW present, NEW c
  PROVE  LET s == FlushOf(desired, present, c) IN
         /\ IsList(s) /\ \A cmd \in Members(s) : cmd.chain = c /\ cmd.do \in Deeds
         /\ \A u : IsTable(u) /\ u # None /\ Run(s, u) # None =>
              /\ c \in DOMAIN desired => c \in DOMAIN Run(s, u) /\ Run(s, u)[c] = <<>>
              /\ c \notin DOMAIN desired => (c \in DOMAIN u <=> c \in DOMAIN Run(s, u))
<1> DEFINE s == FlushOf(desired, present, c)
           declare == Plain("declare", c)
           flush == Plain("flush", c)
           a == IF c \in DOMAIN desired THEN <<declare>> ELSE <<>>
           b == IF c \in present \cup DOMAIN desired THEN <<flush>> ELSE <<>>
<1>1. s = a \o b
  BY DEF FlushOf
<1>2. declare.do = "declare" /\ declare.chain = c /\ flush.do = "flush" /\ flush.chain = c
  BY CommandIs
<1>3. declare.do \in Deeds /\ flush.do \in Deeds
  BY <1>2 DEF Deeds
<1> HIDE DEF declare, flush, s
<1>4. IsList(a) /\ IsList(b) /\ Members(a) \subseteq {declare} /\ Members(b) \subseteq {flush}
  BY Short
<1>5. IsList(s) /\ \A cmd \in Members(s) : cmd.chain = c /\ cmd.do \in Deeds
  <2> HIDE DEF a, b
  <2>1. IsList(a \o b) /\ Members(a \o b) = Members(a) \cup Members(b)
    BY <1>4, Joined
  <2> QED
    BY <2>1, <1>1, <1>2, <1>3, <1>4
<1>6. ASSUME NEW u, IsTable(u), u # None, NEW v, v = Run(s, u), v # None
      PROVE  /\ c \in DOMAIN desired => c \in DOMAIN v /\ v[c] = <<>>
             /\ c \notin DOMAIN desired => (c \in DOMAIN u <=> c \in DOMAIN v)
  <2> DEFINE w == Run(a, u)
  <2>1. v = Run(b, w)
    <3> HIDE DEF a, b
    <3> QED
      BY <1>1, <1>4, <1>6, RunJoined
  <2>2. w # None
    <3> HIDE DEF a, b, w
    <3> QED
      BY <2>1, <1>4, <1>6, RunRefused
  <2>3. IsTable(w) /\ (c \in DOMAIN desired \/ w = u)
    <3>1. CASE c \in DOMAIN desired
      <4>1. a = <<declare>>
        BY <3>1
      <4>2. w = Do(u, declare)
        BY <4>1, RunShort
      <4> HIDE DEF w
      <4>3. IsTable(w)
        BY <4>2, <2>2, <1>3, <1>6, Outcomes
      <4> QED
        BY <3>1, <4>3
    <3>2. CASE c \notin DOMAIN desired
      <4>1. a = <<>>
        BY <3>2
      <4>2. w = u
        BY <4>1, RunShort
      <4> QED
        BY <4>2, <1>6
    <3> QED
      BY <3>1, <3>2
  <2> HIDE DEF w
  <2>4. CASE c \in present \cup DOMAIN desired
    <3>1. b = <<flush>>
      BY <2>4
    <3>2. v = Do(w, flush)
      BY <2>1, <3>1, RunShort
    <3>3. c \in DOMAIN w /\ c \in DOMAIN v /\ v[c] = <<>>
      <4>1. /\ IsTable(w) /\ flush.do \in Deeds /\ w # None /\ v = Do(w, flush) /\ v # None
        BY <3>2, <2>2, <2>3, <1>3, <1>6
      <4>2. /\ flush.do # "declare" => flush.chain \in DOMAIN w
            /\ flush.do # "remove" => flush.chain \in DOMAIN v
            /\ flush.do = "flush" => v[flush.chain] = <<>>
            /\ flush.do = "delete" =>
                 flush.rule \in Members(w[flush.chain]) /\ v[flush.chain] = RemoveFirst(w[flush.chain], flush.rule)
            /\ flush.do = "insert" => v[flush.chain] = <<flush.rule>> \o w[flush.chain]
        BY ONLY <4>1, Outcomes
      <4> QED
        BY <4>2, <1>2
    <3> QED
      BY <2>3, <3>3
  <2>5. CASE c \notin present \cup DOMAIN desired
    <3>1. b = <<>> /\ c \notin DOMAIN desired
      BY <2>5
    <3>2. v = u
      BY <2>1, <2>3, <3>1, RunShort
    <3> QED
      BY <3>1, <3>2
  <2> QED
    BY <2>4, <2>5
<1> QED
  BY <1>5, <1>6 DEF s

\* The chains of the candidate are there and empty; no other chain comes or goes.
LEMMA FlushPhase ==
  ASSUME NEW owned, IsFiniteSet(owned), owned \subseteq SuiteChain, NEW desired, DOMAIN desired \subseteq owned, NEW present,
         NEW x, IsTable(x), NEW y, y = Run(FlattenSeq(Flushes(owned, desired, present)), x), y # None
  PROVE  /\ \A c \in DOMAIN desired : c \in DOMAIN y /\ y[c] = <<>>
         /\ \A c : c \notin DOMAIN desired => (c \in DOMAIN x <=> c \in DOMAIN y)
<1> DEFINE order == SetToSeq(owned)
           parts == Flushes(owned, desired, present)
<1>1. IsList(order) /\ Members(order) = owned /\ Distinct(order)
  BY InOrder DEF Distinct
<1>2. IsList(parts) /\ DOMAIN parts = DOMAIN order
  BY FlushesList
<1>3. \A i \in DOMAIN order : parts[i] = FlushOf(desired, present, order[i])
  BY DEF Flushes
<1> HIDE DEF order, parts
<1>4. Len(parts) = Len(order)
  BY <1>1, <1>2, ListFacts
<1>5. ASSUME NEW i \in DOMAIN parts
      PROVE  IsList(parts[i]) /\ \A cmd \in Members(parts[i]) : cmd.chain = order[i] /\ cmd.do \in Deeds
  <2> DEFINE c == order[i]
  <2>1. IsList(FlushOf(desired, present, c)) /\ \A cmd \in Members(FlushOf(desired, present, c)) : cmd.chain = c /\ cmd.do \in Deeds
    BY FlushIs
  <2> QED
    BY <2>1, <1>2, <1>3
<1>6. y = Run(FlattenSeq(parts), x)
  BY DEF parts
<1>7. /\ \A c : c \notin Members(order) => SameAt(x, y, c)
      /\ \A i \in DOMAIN order : \E u : /\ IsTable(u) /\ u # None /\ SameAt(x, u, order[i])
                                        /\ Run(parts[i], u) # None /\ SameAt(Run(parts[i], u), y, order[i])
  BY <1>1, <1>2, <1>4, <1>5, <1>6, Turns
<1>8. ASSUME NEW c \in owned
      PROVE  /\ c \in DOMAIN desired => c \in DOMAIN y /\ y[c] = <<>>
             /\ c \notin DOMAIN desired => (c \in DOMAIN x <=> c \in DOMAIN y)
  <2>1. PICK i \in DOMAIN order : order[i] = c
    BY <1>1 DEF Members
  <2>2. PICK u : /\ IsTable(u) /\ u # None /\ SameAt(x, u, c)
                 /\ Run(parts[i], u) # None /\ SameAt(Run(parts[i], u), y, c)
    BY <2>1, <1>7
  <2> DEFINE v == Run(parts[i], u)
  <2>3. v = Run(FlushOf(desired, present, c), u)
    BY <2>1, <1>3
  <2>4. v # None /\ SameAt(v, y, c)
    BY <2>2
  <2> HIDE DEF v
  <2>5. /\ c \in DOMAIN desired => c \in DOMAIN v /\ v[c] = <<>>
        /\ c \notin DOMAIN desired => (c \in DOMAIN u <=> c \in DOMAIN v)
    BY <2>2, <2>3, <2>4, FlushIs
  <2> QED
    BY <2>2, <2>4, <2>5 DEF SameAt
<1>9. ASSUME NEW c, c \notin owned PROVE c \in DOMAIN x <=> c \in DOMAIN y
  BY <1>1, <1>7, <1>9 DEF SameAt
<1> QED
  BY <1>8, <1>9


LEMMA AppendIs ==
  ASSUME NEW desired, NEW c, IsList(desired[c])
  PROVE  LET s == AppendsOf(desired, c) IN
         /\ IsList(s) /\ \A cmd \in Members(s) : cmd.chain = c /\ cmd.do \in Deeds
         /\ \A u : IsTable(u) /\ u # None /\ c \in DOMAIN u /\ u[c] = <<>> /\ Run(s, u) # None
                   => c \in DOMAIN Run(s, u) /\ Run(s, u)[c] = desired[c]
<1> DEFINE s == AppendsOf(desired, c)
           rules == desired[c]
           n == Len(rules)
<1>1. IsList(rules) /\ n \in Nat /\ DOMAIN rules = 1..n
  BY ListFacts
<1>2. IsList(s) /\ Len(s) = n /\ DOMAIN s = 1..n /\ \A i \in 1..n : s[i] = Command("append", c, rules[i])
  <2>1. s = [i \in DOMAIN rules |-> s[i]] /\ \A i \in DOMAIN rules : s[i] = Command("append", c, rules[i])
    BY DEF AppendsOf
  <2> HIDE DEF s, rules, n
  <2>2. IsList(s) /\ DOMAIN s = DOMAIN rules /\ Len(s) = Len(rules)
    BY <1>1, <2>1, Mapped
  <2> QED
    BY <1>1, <2>1, <2>2 DEF n
<1> HIDE DEF s, rules, n
<1>3. \A i \in 1..n : s[i].chain = c /\ s[i].do = "append" /\ s[i].do \in Deeds /\ s[i].rule = rules[i]
  BY <1>2, CommandIs DEF Deeds
<1>4. ASSUME NEW u, IsTable(u), u # None, c \in DOMAIN u, u[c] = <<>>, Run(s, u) # None
      PROVE  c \in DOMAIN Run(s, u) /\ Run(s, u)[c] = rules
  <2>1. PICK y : /\ y[0] = u /\ y[n] = Run(s, u)
                 /\ \A i \in 0..n : IsTable(y[i]) /\ y[i] # None
                 /\ \A i \in 1..n : y[i] = Do(y[i - 1], s[i])
    <3>1. \A i \in 1..Len(s) : s[i].do \in Deeds
      BY <1>2, <1>3
    <3>2. \E y : /\ y[0] = u /\ y[Len(s)] = Run(s, u)
                 /\ \A i \in 0..Len(s) : IsTable(y[i]) /\ y[i] # None
                 /\ \A i \in 1..Len(s) : y[i] = Do(y[i - 1], s[i])
      BY <1>2, <1>4, <3>1, RunSteps
    <3> QED
      BY <3>2, <1>2
  <2> DEFINE Upto(i) == /\ c \in DOMAIN y[i] /\ IsList(y[i][c]) /\ Len(y[i][c]) = i
                        /\ \A m \in 1..i : y[i][c][m] = rules[m]
             S == {i \in 0..n : Upto(i)}
  <2>2. \A i \in 0..n : i \in S
    <3>1. 0 \in S
      BY <1>1, <1>4, <2>1, Short
    <3>2. ASSUME NEW i \in 1..n, i - 1 \in S PROVE i \in S
      <4> DEFINE before == y[i - 1]
                 after == y[i]
                 cmd == s[i]
                 old == before[c]
                 last == <<rules[i]>>
      <4>1. i \in 0..n /\ i - 1 \in 0..n /\ (i - 1) + 1 = i
        BY <1>1
      <4>2. /\ IsTable(before) /\ before # None /\ after = Do(before, cmd) /\ after # None
            /\ cmd.do \in Deeds /\ cmd.do = "append" /\ cmd.chain = c /\ cmd.rule = rules[i]
        BY <4>1, <1>3, <2>1
      <4>3. IsList(old) /\ Len(old) = i - 1 /\ \A m \in 1..(i - 1) : old[m] = rules[m]
        BY <3>2
      <4>4. IsList(last) /\ Len(last) = 1 /\ last[1] = rules[i]
        BY Short
      <4>5. c \in DOMAIN after /\ after[c] = old \o last
        <5> HIDE DEF before, after, cmd
        <5>1. /\ cmd.do # "remove" => cmd.chain \in DOMAIN after
              /\ cmd.do = "delete" => cmd.rule \in Members(before[cmd.chain]) /\ after[cmd.chain] = RemoveFirst(before[cmd.chain], cmd.rule)
              /\ cmd.do = "insert" => after[cmd.chain] = <<cmd.rule>> \o before[cmd.chain]
              /\ cmd.do = "append" => after[cmd.chain] = before[cmd.chain] \o <<cmd.rule>>
          BY <4>2, Outcomes
        <5> QED
          BY <5>1, <4>2
      <4> HIDE DEF before, old, last
      <4>6. /\ IsList(old \o last) /\ Len(old \o last) = Len(old) + Len(last)
            /\ \A m \in 1..Len(old) : (old \o last)[m] = old[m]
            /\ \A m \in 1..Len(last) : (old \o last)[Len(old) + m] = last[m]
            /\ Members(old \o last) = Members(old) \cup Members(last)
        <5>1. IsList(old) /\ IsList(last)
          BY <4>3, <4>4
        <5> QED
          BY ONLY <5>1, Joined
      <4> HIDE DEF after
      <4>7. ASSUME NEW m \in 1..i PROVE after[c][m] = rules[m]
        <5>1. CASE m = i
          <6>1. m = Len(old) + 1 /\ 1 \in 1..Len(last)
            BY <5>1, <4>1, <4>3, <4>4
          <6> QED
            BY <6>1, <5>1, <4>4, <4>5, <4>6
        <5>2. CASE m # i
          <6>1. m \in 1..(i - 1)
            BY <5>2, <4>1
          <6> QED
            BY <6>1, <4>3, <4>5, <4>6
        <5> QED
          BY <5>1, <5>2
      <4>8. Len(after[c]) = i
        BY <4>1, <4>3, <4>4, <4>5, <4>6
      <4>9. IsList(after[c])
        BY <4>5, <4>6
      <4> QED
        BY <4>1, <4>5, <4>7, <4>8, <4>9 DEF after
    <3> HIDE DEF S
    <3> QED
      BY <1>1, <3>1, <3>2, Climb
  <2> DEFINE last == Run(s, u)[c]
  <2>3. c \in DOMAIN Run(s, u) /\ IsList(last) /\ Len(last) = n /\ \A m \in 1..n : last[m] = rules[m]
    <3>1. n \in S
      BY <1>1, <2>2
    <3> QED
      BY <3>1, <2>1
  <2> HIDE DEF last
  <2>4. last = [i \in 1..n |-> last[i]] /\ rules = [i \in 1..n |-> rules[i]]
    BY <1>1, <2>3 DEF IsList, n
  <2>5. last = rules
    BY <2>3, <2>4
  <2> QED
    BY <2>3, <2>5 DEF last
<1>5. \A cmd \in Members(s) : cmd.chain = c /\ cmd.do \in Deeds
  BY <1>2, <1>3 DEF Members
<1> QED
  BY <1>2, <1>4, <1>5 DEF s, rules

\* The chains of the candidate get their rules.
LEMMA AppendPhase ==
  ASSUME NEW desired, IsFiniteSet(DOMAIN desired), DOMAIN desired \subseteq SuiteChain,
         \A c \in DOMAIN desired : IsList(desired[c]) /\ \A r \in Members(desired[c]) : ~IsHook(r),
         NEW x, IsTable(x), \A c \in DOMAIN desired : c \in DOMAIN x /\ x[c] = <<>>,
         NEW y, y = Run(FlattenSeq(AppendParts(desired)), x), y # None
  PROVE  /\ \A c \in DOMAIN desired : c \in DOMAIN y /\ y[c] = desired[c]
         /\ \A c : c \notin DOMAIN desired => SameAt(x, y, c)
<1> DEFINE order == SetToSeq(DOMAIN desired)
           parts == AppendParts(desired)
<1>1. IsList(order) /\ Members(order) = DOMAIN desired /\ Distinct(order)
  BY InOrder DEF Distinct
<1>2. IsList(parts) /\ DOMAIN parts = DOMAIN order
  BY AppendsList
<1>3. \A i \in DOMAIN order : parts[i] = AppendsOf(desired, order[i])
  BY DEF AppendParts
<1>4. y = Run(FlattenSeq(parts), x)
  OBVIOUS
<1> HIDE DEF order, parts
<1>5. Len(parts) = Len(order)
  BY <1>1, <1>2, ListFacts
<1>6. ASSUME NEW i \in DOMAIN parts
      PROVE  IsList(parts[i]) /\ \A cmd \in Members(parts[i]) : cmd.chain = order[i] /\ cmd.do \in Deeds
  <2> DEFINE c == order[i]
  <2>1. c \in DOMAIN desired
    BY <1>1, <1>2 DEF Members
  <2>2. IsList(AppendsOf(desired, c)) /\ \A cmd \in Members(AppendsOf(desired, c)) : cmd.chain = c /\ cmd.do \in Deeds
    BY <2>1, AppendIs
  <2> QED
    BY <2>2, <1>2, <1>3
<1>7. /\ \A c : c \notin Members(order) => SameAt(x, y, c)
      /\ \A i \in DOMAIN order : \E u : /\ IsTable(u) /\ u # None /\ SameAt(x, u, order[i])
                                        /\ Run(parts[i], u) # None /\ SameAt(Run(parts[i], u), y, order[i])
  BY <1>1, <1>2, <1>4, <1>5, <1>6, Turns
<1>8. ASSUME NEW c \in DOMAIN desired PROVE c \in DOMAIN y /\ y[c] = desired[c]
  <2>1. PICK i \in DOMAIN order : order[i] = c
    BY <1>1 DEF Members
  <2>2. PICK u : /\ IsTable(u) /\ u # None /\ SameAt(x, u, c)
                 /\ Run(parts[i], u) # None /\ SameAt(Run(parts[i], u), y, c)
    BY <2>1, <1>7
  <2> DEFINE v == Run(AppendsOf(desired, c), u)
  <2>3. v # None /\ SameAt(v, y, c)
    BY <2>1, <2>2, <1>3
  <2>4. c \in DOMAIN u /\ u[c] = <<>>
    BY <2>2 DEF SameAt
  <2>5. c \in DOMAIN v /\ v[c] = desired[c]
    BY <2>2, <2>3, <2>4, AppendIs
  <2> HIDE DEF v
  <2> QED
    BY <2>3, <2>5 DEF SameAt
<1> QED
  BY <1>1, <1>7, <1>8

\* The chains that have to go are gone.
LEMMA RemovePhase ==
  ASSUME NEW gone, IsFiniteSet(gone), gone \subseteq SuiteChain, NEW x, IsTable(x),
         NEW y, y = Run(FlattenSeq(RemoveParts(gone)), x), y # None
  PROVE  /\ \A c \in gone : c \notin DOMAIN y
         /\ \A c : c \notin gone => SameAt(x, y, c)
<1> DEFINE order == SetToSeq(gone)
           parts == RemoveParts(gone)
<1>1. IsList(order) /\ Members(order) = gone /\ Distinct(order)
  BY InOrder DEF Distinct
<1>3. parts = [i \in DOMAIN order |-> parts[i]] /\ \A i \in DOMAIN order : parts[i] = <<Plain("remove", order[i])>>
  BY DEF RemoveParts
<1>4. y = Run(FlattenSeq(parts), x)
  OBVIOUS
<1> HIDE DEF order, parts
<1>2. IsList(parts) /\ DOMAIN parts = DOMAIN order
  BY <1>1, <1>3, Mapped
<1>5. Len(parts) = Len(order)
  BY <1>1, <1>2, ListFacts
<1>6. ASSUME NEW i \in DOMAIN parts
      PROVE  IsList(parts[i]) /\ \A cmd \in Members(parts[i]) : cmd.chain = order[i] /\ cmd.do \in Deeds
  <2> DEFINE cmd == Plain("remove", order[i])
  <2>1. cmd.chain = order[i] /\ cmd.do \in Deeds
    BY CommandIs DEF Deeds
  <2>2. parts[i] = <<cmd>>
    BY <1>2, <1>3
  <2> HIDE DEF cmd
  <2> QED
    BY <2>1, <2>2, Short
<1>7. /\ \A c : c \notin Members(order) => SameAt(x, y, c)
      /\ \A i \in DOMAIN order : \E u : /\ IsTable(u) /\ u # None /\ SameAt(x, u, order[i])
                                        /\ Run(parts[i], u) # None /\ SameAt(Run(parts[i], u), y, order[i])
  BY <1>1, <1>2, <1>4, <1>5, <1>6, Turns
<1>8. ASSUME NEW c \in gone PROVE c \notin DOMAIN y
  <2>1. PICK i \in DOMAIN order : order[i] = c
    BY <1>1 DEF Members
  <2>2. PICK u : /\ IsTable(u) /\ u # None /\ SameAt(x, u, c)
                 /\ Run(parts[i], u) # None /\ SameAt(Run(parts[i], u), y, c)
    BY <2>1, <1>7
  <2> DEFINE cmd == Plain("remove", c)
             v == Do(u, cmd)
  <2>3. cmd.do = "remove" /\ cmd.chain = c /\ cmd.do \in Deeds
    BY CommandIs DEF Deeds
  <2>4. parts[i] = <<cmd>>
    BY <2>1, <1>3
  <2> HIDE DEF cmd
  <2>6. v = Do(u, cmd) /\ Run(parts[i], u) = v
    BY <2>4, RunShort
  <2> HIDE DEF v
  <2>7. v # None /\ SameAt(v, y, c)
    BY <2>2, <2>6
  <2>5. /\ cmd.do # "remove" => cmd.chain \in DOMAIN v
        /\ cmd.do = "delete" => cmd.rule \in Members(u[cmd.chain]) /\ v[cmd.chain] = RemoveFirst(u[cmd.chain], cmd.rule)
        /\ cmd.do = "insert" => v[cmd.chain] = <<cmd.rule>> \o u[cmd.chain]
        /\ cmd.do = "remove" => u[cmd.chain] = <<>> /\ cmd.chain \notin DOMAIN v
    <3>1. IsTable(u) /\ u # None /\ cmd.do \in Deeds /\ v = Do(u, cmd) /\ v # None
      BY <2>2, <2>3, <2>6, <2>7
    <3> QED
      BY ONLY <3>1, Outcomes
  <2> QED
    BY <2>3, <2>5, <2>7 DEF SameAt
<1> QED
  BY <1>1, <1>7, <1>8

\* A hook never leads to a chain that is not there.
Anchored(x) == \A c, d : c \notin SuiteChain /\ d \in SuiteChain /\ Has(x, c, Hook(d)) => d \in DOMAIN x

LEMMA DoAnchored ==
  ASSUME NEW x, IsTable(x), x # None, Anchored(x), NEW cmd, Suitable(cmd), NEW y, y = Do(x, cmd), y # None
  PROVE  Anchored(y)
<1> DEFINE at == cmd.chain
           r == cmd.rule
<1>1. cmd.do \in Deeds
  BY DEF Suitable, Deeds
<1>2. /\ \A d : d # at => (d \in DOMAIN x <=> d \in DOMAIN y) /\ (d \in DOMAIN x => y[d] = x[d])
      /\ cmd.do # "declare" => at \in DOMAIN x
      /\ cmd.do # "remove" => at \in DOMAIN y
      /\ cmd.do = "delete" => r \in Members(x[at]) /\ y[at] = RemoveFirst(x[at], r)
      /\ cmd.do \in {"insert", "append"} => r.to = None \/ r.to \in DOMAIN x
      /\ cmd.do = "insert" => y[at] = <<r>> \o x[at]
      /\ cmd.do = "remove" => x[at] = <<>> /\ at \notin DOMAIN y /\ ~Jumps(x, at)
  BY <1>1, Outcomes
<1> HIDE DEF at, r
<1>3. /\ at \in SuiteChain => cmd.do \in {"declare", "flush", "append", "remove"}
      /\ at \notin SuiteChain => cmd.do \in {"insert", "delete"}
  BY DEF Suitable, at
<1>4. ASSUME NEW c, c \notin SuiteChain, NEW d \in SuiteChain, Has(y, c, Hook(d)) PROVE d \in DOMAIN y
  <2>1. Has(x, c, Hook(d)) \/ (cmd.do = "insert" /\ r = Hook(d))
    <3>1. CASE c # at
      BY <3>1, <1>2, <1>4 DEF Has
    <3>2. CASE c = at /\ cmd.do = "insert"
      <4>1. y[at] = <<r>> \o x[at] /\ at \in DOMAIN x /\ IsList(x[at])
        BY <3>2, <1>2 DEF IsTable
      <4>2. Members(y[at]) = Members(x[at]) \cup {r}
        BY <4>1, FrontIs
      <4> QED
        BY <3>2, <4>1, <4>2, <1>4 DEF Has
    <3>3. CASE c = at /\ cmd.do = "delete"
      <4>1. r \in Members(x[at]) /\ y[at] = RemoveFirst(x[at], r) /\ at \in DOMAIN x /\ IsList(x[at])
        BY <3>3, <1>2 DEF IsTable
      <4>2. Members(y[at]) \subseteq Members(x[at])
        BY <4>1, RemovedIs
      <4> QED
        BY <3>3, <4>1, <4>2, <1>4 DEF Has
    <3> QED
      BY <3>1, <3>2, <3>3, <1>3, <1>4
  <2>2. Hook(d).to = d /\ d # None
    BY IptAssumption DEF Hook
  <2>3. d \in DOMAIN x
    BY <2>1, <2>2, <1>2, <1>4 DEF Anchored
  <2>4. CASE d = at /\ cmd.do = "remove"
    <3>1. Has(x, c, Hook(d)) /\ ~Jumps(x, d)
      BY <2>1, <2>4, <1>2
    <3> QED
      BY <3>1, <2>2 DEF Has, Members, Jumps
  <2> QED
    BY <2>3, <2>4, <1>2
<1> QED
  BY <1>4 DEF Anchored

LEMMA RunAnchored ==
  ASSUME NEW x, IsTable(x), Anchored(x), NEW s, IsList(s), \A cmd \in Members(s) : Suitable(cmd), Run(s, x) # None
  PROVE  Anchored(Run(s, x))
<1> DEFINE n == Len(s)
<1>1. n \in Nat /\ \A i \in 1..n : Suitable(s[i]) /\ s[i].do \in Deeds
  <2>1. n \in Nat /\ \A i \in 1..n : s[i] \in Members(s)
    BY ListFacts DEF Members
  <2> QED
    BY <2>1 DEF Suitable, Deeds
<1>2. PICK y : /\ y[0] = x /\ y[n] = Run(s, x)
               /\ \A i \in 0..n : IsTable(y[i]) /\ y[i] # None
               /\ \A i \in 1..n : y[i] = Do(y[i - 1], s[i])
  BY <1>1, RunSteps
<1> HIDE DEF n
<1> DEFINE S == {i \in 0..n : Anchored(y[i])}
<1>3. \A i \in 0..n : i \in S
  <2>1. 0 \in S
    BY <1>1, <1>2
  <2>2. ASSUME NEW i \in 1..n, i - 1 \in S PROVE i \in S
    <3>1. i \in 0..n /\ i - 1 \in 0..n
      BY <1>1
    <3> DEFINE before == y[i - 1]
               after == y[i]
               cmd == s[i]
    <3>2. IsTable(before) /\ before # None /\ Anchored(before) /\ Suitable(cmd) /\ after = Do(before, cmd) /\ after # None
      BY <3>1, <1>1, <1>2, <2>2
    <3> HIDE DEF before, after, cmd
    <3>3. Anchored(after)
      BY <3>2, DoAnchored
    <3> QED
      BY <3>1, <3>3 DEF after
  <2> HIDE DEF S
  <2> QED
    BY <1>1, <2>1, <2>2, Climb
<1>4. n \in 0..n
  BY <1>1
<1> QED
  BY <1>2, <1>3, <1>4

SameSuite(x, y) == \A c \in SuiteChain : SameAt(x, y, c)
At(t, c, d) == [table |-> t, parent |-> c, chain |-> d]

\* The suite's chains and hooks in a table are those of the bundles.
Covered(x, target, union, f, t) ==
  /\ \A c \in DOMAIN x \cap SuiteChain : c \in OwnedBy(target, union, f, t)
  /\ \A c, d : c \notin SuiteChain /\ d \in SuiteChain /\ Has(x, c, Hook(d)) => At(t, c, d) \in HooksOf(target, union, t)

\* The suite's chains and hooks in a table are those of the target.
Exactly(x, target, f, t) ==
  /\ \A c \in SuiteChain : c \in DOMAIN x <=> c \in DOMAIN Desired(target, f, t)
  /\ \A c \in DOMAIN Desired(target, f, t) : x[c] = Desired(target, f, t)[c]
  /\ \A c, d : c \notin SuiteChain /\ d \in SuiteChain =>
       (Has(x, c, Hook(d)) <=> At(t, c, d) \in Wanted(target) /\ d \in DOMAIN Desired(target, f, t))

\* A commit makes the suite's chains those of the target.
LEMMA TableChains ==
  ASSUME NEW target, IsBundle(target), NEW union, IsFiniteSet(union), \A b \in union : IsBundle(b),
         NEW f \in Families, NEW t, NEW live, Sound(live[f][t]),
         NEW x, Sound(x), \A h \in HooksOf(target, union, t) : HasHook(x, h) <=> HasHook(live[f][t], h),
         SameSuite(x, live[f][t]), \A c \in DOMAIN x \cap SuiteChain : c \in OwnedBy(target, union, f, t),
         NEW y, y = Run(TableCommands(target, union, live, f, t), x), y # None
  PROVE  /\ \A c \in SuiteChain : c \in DOMAIN y <=> c \in DOMAIN Desired(target, f, t)
         /\ \A c \in DOMAIN Desired(target, f, t) : y[c] = Desired(target, f, t)[c]
<1> DEFINE owned   == OwnedBy(target, union, f, t)
           desired == Desired(target, f, t)
           wanted  == Wanted(target)
           hooks   == HooksOf(target, union, t)
           gone    == Gone(target, union, live, f, t)
           lv      == live[f][t]
           present == DOMAIN lv
           A == FlattenSeq(Flushes(owned, desired, present))
           B == FlattenSeq(HookParts(hooks, wanted, lv))
           C == FlattenSeq(AppendParts(desired))
           D == FlattenSeq(RemoveParts(gone))
           all == TableCommands(target, union, live, f, t)
<1>1. /\ all = ((A \o B) \o C) \o D
      /\ IsList(A) /\ IsList(B) /\ IsList(C) /\ IsList(D) /\ IsList(all)
      /\ \A cmd \in Members(A) \cup Members(C) \cup Members(D) : Suitable(cmd) /\ cmd.chain \in SuiteChain
      /\ \A cmd \in Members(all) : Suitable(cmd)
  <2>1. IsTable(live[f][t])
    BY DEF Sound
  <2> QED
    BY <2>1, InParts
<1>2. IsFiniteSet(hooks) /\ \A h \in hooks : IsHookOf(h, t)
  <2>1. IsFiniteSet(hooks) /\ \A h \in hooks :
              /\ h = [table |-> h.table, parent |-> h.parent, chain |-> h.chain]
              /\ h.table = t /\ h.parent \notin SuiteChain /\ h.chain \in SuiteChain
    BY Material
  <2> QED
    BY <2>1 DEF IsHookOf
<1>3. AreHooks(hooks)
  BY <1>2 DEF AreHooks
<1>4. /\ owned \subseteq SuiteChain /\ IsFiniteSet(owned) /\ DOMAIN desired \subseteq owned /\ IsFiniteSet(DOMAIN desired)
      /\ \A c \in DOMAIN desired : IsList(desired[c]) /\ \A r \in Members(desired[c]) : ~IsHook(r)
  BY Material
<1>5. gone = (owned \ DOMAIN desired) \cap present
  BY DEF Gone
<1>6. /\ SameSuite(x, lv) /\ \A c \in DOMAIN x \cap SuiteChain : c \in owned
      /\ Sound(lv) /\ \A h \in hooks : HasHook(x, h) <=> HasHook(lv, h)
  OBVIOUS
<1>7. y = Run(all, x)
  OBVIOUS
<1> HIDE DEF owned, desired, wanted, hooks, gone, A, B, C, D, all, lv, present
<1> DEFINE x1 == Run(A, x)
           x2 == Run(B, x1)
           x3 == Run(C, x2)
<1>8. y = Run(D, x3)
  <2>1. IsList(A \o B) /\ IsList((A \o B) \o C)
    BY <1>1, Joined
  <2>2. Run(A \o B, x) = x2
    BY <1>1, RunJoined
  <2>3. Run((A \o B) \o C, x) = x3
    BY <1>1, <2>1, <2>2, RunJoined
  <2>4. Run(((A \o B) \o C) \o D, x) = Run(D, x3)
    BY <1>1, <2>1, <2>3, RunJoined
  <2> QED
    BY <1>1, <1>7, <2>4
<1> HIDE DEF x1, x2, x3
<1>9. x3 # None /\ x2 # None /\ x1 # None /\ x # None
  BY <1>1, <1>8, RunRefused DEF x1, x2, x3
<1>10. Sound(x1) /\ SameBeyond(x, x1, SuiteChain)
  <2>1. Run(A, x) # None /\ \A cmd \in Members(A) : Suitable(cmd) /\ cmd.chain \in SuiteChain
    BY <1>1, <1>9 DEF x1
  <2> QED
    BY <1>1, <2>1, RunInSuite DEF x1
<1>11. /\ \A c \in DOMAIN desired : c \in DOMAIN x1 /\ x1[c] = <<>>
       /\ \A c : c \notin DOMAIN desired => (c \in DOMAIN x <=> c \in DOMAIN x1)
  <2>1. x1 = Run(FlattenSeq(Flushes(owned, desired, present)), x) /\ IsTable(x)
    BY DEF x1, A, Sound
  <2> QED
    BY ONLY <1>4, <1>9, <2>1, FlushPhase
<1>12. Sound(x2) /\ SameBeyond(x1, x2, Parents(hooks))
  <2>1. x2 = Run(FlattenSeq(HookParts(hooks, wanted, lv)), x1)
    BY DEF x2, B
  <2>2. \A h \in hooks : HasHook(x1, h) <=> HasHook(lv, h)
    <3>1. \A h \in hooks : HasHook(x1, h) <=> HasHook(x, h)
      BY <1>2, <1>10 DEF IsHookOf, HasHook, Has, SameBeyond
    <3> QED
      BY <3>1, <1>6
  <2>3. /\ Sound(x2) /\ SameBeyond(x1, x2, Parents(hooks)) /\ \A c : c \in DOMAIN x1 <=> c \in DOMAIN x2
        /\ \A h \in hooks : HasHook(x2, h) <=> h \in wanted
        /\ \A c, r : (\A h \in hooks : c # h.parent \/ r # Hook(h.chain)) => (Has(x2, c, r) <=> Has(x1, c, r))
        /\ x1 # None
    BY ONLY <2>1, <2>2, <1>3, <1>6, <1>9, <1>10, HookPhase
  <2> QED
    BY <2>3
<1>13. Sound(x3)
  <2>1. Run(C, x2) # None /\ \A cmd \in Members(C) : Suitable(cmd) /\ cmd.chain \in SuiteChain
    BY <1>1, <1>9 DEF x3
  <2> QED
    BY <1>1, <1>12, <2>1, RunInSuite DEF x3
<1>14. ASSUME NEW c \in SuiteChain PROVE SameAt(x1, x2, c)
  <2>1. c \notin Parents(hooks)
    BY <1>2 DEF Parents, IsHookOf
  <2> QED
    BY <2>1, <1>12 DEF SameBeyond, SameAt
<1>15. /\ \A c \in DOMAIN desired : c \in DOMAIN x3 /\ x3[c] = desired[c]
       /\ \A c : c \notin DOMAIN desired => SameAt(x2, x3, c)
  <2>1. x3 = Run(FlattenSeq(AppendParts(desired)), x2) /\ IsTable(x2) /\ DOMAIN desired \subseteq SuiteChain
    BY <1>4, <1>12 DEF x3, C, Sound
  <2>2. \A c \in DOMAIN desired : c \in DOMAIN x2 /\ x2[c] = <<>>
    BY <2>1, <1>11, <1>14 DEF SameAt
  <2> QED
    BY ONLY <1>4, <1>9, <2>1, <2>2, AppendPhase
<1>16. /\ \A c \in gone : c \notin DOMAIN y
       /\ \A c : c \notin gone => SameAt(x3, y, c)
  <2>1. y = Run(FlattenSeq(RemoveParts(gone)), x3) /\ IsTable(x3)
    BY <1>8, <1>13 DEF D, Sound
  <2>2. IsFiniteSet(gone) /\ gone \subseteq SuiteChain
    <3>1. gone \subseteq owned
      BY <1>5
    <3> QED
      BY <3>1, <1>4, FS_Subset
  <2> QED
    BY ONLY y # None, <2>1, <2>2, RemovePhase
<1>17. ASSUME NEW c \in DOMAIN desired PROVE c \in DOMAIN y /\ y[c] = desired[c]
  BY <1>5, <1>15, <1>16 DEF SameAt
<1>18. ASSUME NEW c \in SuiteChain, c \notin DOMAIN desired PROVE c \notin DOMAIN y
  <2> SUFFICES ASSUME c \in DOMAIN y PROVE FALSE
    OBVIOUS
  <2>1. c \notin gone /\ c \in DOMAIN x3
    BY <1>16 DEF SameAt
  <2>2. c \in DOMAIN x
    BY <2>1, <1>11, <1>14, <1>15, <1>18 DEF SameAt
  <2>3. c \in present /\ c \in owned
    BY <2>2, <1>6 DEF SameSuite, SameAt, present
  <2> QED
    BY <2>1, <2>3, <1>5, <1>18
<1> QED
  BY <1>4, <1>17, <1>18 DEF desired

\* A commit makes the suite's part of a table that of the target.
LEMMA TableExact ==
  ASSUME NEW target, IsBundle(target), NEW union, IsFiniteSet(union), \A b \in union : IsBundle(b),
         NEW f \in Families, NEW t, NEW live, Sound(live[f][t]),
         NEW x, Sound(x), SameHooks(x, live[f][t]), SameSuite(x, live[f][t]), Covered(x, target, union, f, t), Anchored(x),
         NEW y, y = Run(TableCommands(target, union, live, f, t), x), y # None
  PROVE  Exactly(y, target, f, t) /\ Anchored(y)
<1> DEFINE desired == Desired(target, f, t)
           wanted  == Wanted(target)
           hooks   == HooksOf(target, union, t)
           all     == TableCommands(target, union, live, f, t)
<1>1. \A h \in hooks : /\ h = At(t, h.parent, h.chain)
                       /\ h.parent \notin SuiteChain /\ h.chain \in SuiteChain
  <2>1. \A h \in hooks : /\ h = [table |-> h.table, parent |-> h.parent, chain |-> h.chain]
                         /\ h.table = t /\ h.parent \notin SuiteChain /\ h.chain \in SuiteChain
    BY Material
  <2> QED
    BY <2>1 DEF At
<1>2. \A h \in hooks : HasHook(x, h) <=> HasHook(live[f][t], h)
  BY <1>1 DEF SameHooks, HasHook
<1>3. /\ \A c \in SuiteChain : c \in DOMAIN y <=> c \in DOMAIN desired
      /\ \A c \in DOMAIN desired : y[c] = desired[c]
  BY <1>2, TableChains DEF Covered
<1>4. /\ \A h \in hooks : HasHook(y, h) <=> h \in wanted
      /\ \A c, r : c \notin SuiteChain /\ (\A h \in hooks : c # h.parent \/ r # Hook(h.chain))
                     => (Has(y, c, r) <=> Has(x, c, r))
  BY <1>2, TableOutcome
<1>5. Anchored(y)
  <2>1. IsTable(live[f][t]) /\ IsTable(x)
    BY DEF Sound
  <2>2. IsList(all) /\ \A cmd \in Members(all) : Suitable(cmd)
    BY <2>1, InParts
  <2>3. y = Run(all, x)
    OBVIOUS
  <2> HIDE DEF all
  <2> QED
    BY ONLY y # None, Anchored(x), <2>1, <2>2, <2>3, RunAnchored
<1>6. ASSUME NEW c, c \notin SuiteChain, NEW d \in SuiteChain
      PROVE  Has(y, c, Hook(d)) <=> At(t, c, d) \in wanted /\ d \in DOMAIN desired
  <2> DEFINE h == At(t, c, d)
  <2>1. h.table = t /\ h.parent = c /\ h.chain = d
    BY DEF At
  <2>2. h \in wanted => h \in hooks
    BY <2>1 DEF HooksOf
  <2>3. CASE h \in hooks
    <3>1. Has(y, c, Hook(d)) <=> h \in wanted
      BY <2>1, <2>3, <1>4 DEF HasHook
    <3>2. Has(y, c, Hook(d)) => d \in DOMAIN y
      BY <1>5, <1>6 DEF Anchored
    <3> QED
      BY <3>1, <3>2, <1>3
  <2>4. CASE h \notin hooks
    <3>1. ~Has(x, c, Hook(d))
      BY <2>4, <1>6 DEF Covered
    <3>2. \A g \in hooks : c # g.parent \/ Hook(d) # Hook(g.chain)
      BY <2>4, <1>1, HookIs
    <3>3. ~Has(y, c, Hook(d))
      BY <3>1, <3>2, <1>4, <1>6
    <3> QED
      BY <3>3, <2>2, <2>4
  <2> QED
    BY <2>3, <2>4
<1> QED
  BY <1>3, <1>5, <1>6 DEF Exactly

(***************************************************************************)
(* The suite's part of the kernel                                          *)
(***************************************************************************)
SameOwn(x, y) == SameHooks(x, y) /\ SameSuite(x, y)

\* The suite's chains and hooks in a table are of some of the policies.
Confined(x, f, t, P) ==
  /\ \A c \in DOMAIN x \cap SuiteChain : \E p \in P : p # None /\ c \in Owned(p, f, t)
  /\ \A c, d : c \notin SuiteChain /\ d \in SuiteChain /\ Has(x, c, Hook(d)) =>
       \E p \in P : p # None /\ At(t, c, d) \in Hooks[p]

\* Every chain of a policy that is there has its hooks.
Hooked(x, p, t) == p # None => \A h \in Hooks[p] : h.table = t /\ h.chain \in DOMAIN x => HasHook(x, h)

AllAnchored(k) == \A f \in Families : \A t \in Table : Anchored(k[f][t])
AllConfined(k, P) == \A f \in Families : \A t \in Table : Confined(k[f][t], f, t, P)
AllHooked(k, p) == \A f \in Families : \A t \in Table : Hooked(k[f][t], p, t)
AllExact(k, target) == \A f \in Families : \A t \in Table : Exactly(k[f][t], target, f, t)
AllSameOwn(j, k) == \A f \in Families : \A t \in Table : SameOwn(j[f][t], k[f][t])

\* The commands of a commit were prepared from a table with the same chains and hooks of the suite.
Prepared(e, target, union, k) ==
  /\ e.family \in Families /\ e.table \in Table
  /\ \E live : /\ Sound(live[e.family][e.table])
               /\ e = Entry(target, union, live, e.family, e.table)
               /\ SameOwn(k[e.family][e.table], live[e.family][e.table])
AllPrepared(b, target, union, k) == \A i \in DOMAIN b : Prepared(b[i], target, union, k)

\* What has no pending commit is as the target wants it.
Pending(b, f, t) == \E i \in DOMAIN b : b[i].family = f /\ b[i].table = t
Settled(b, target, k) == \A f \in Families : \A t \in Table : Pending(b, f, t) \/ Exactly(k[f][t], target, f, t)

LEMMA PolicyIs ==
  ASSUME NEW p \in Policy
  PROVE  /\ \A f \in Families : \A t : Owned(p, f, t) \subseteq SuiteChain
         /\ \A h \in Hooks[p] : h = At(h.table, h.parent, h.chain) /\ h.parent \notin SuiteChain /\ h.chain \in SuiteChain
<1>1. IsBundle(Bundle(p)) /\ Bundle(p).rules = Rules[p] /\ Bundle(p).hooks = Hooks[p]
  BY BundleIs DEF Bundle
<1>2. /\ \A f \in Families : \A t \in DOMAIN Rules[p][f] : DOMAIN Rules[p][f][t] \subseteq SuiteChain
      /\ \A h \in Hooks[p] : /\ h = [table |-> h.table, parent |-> h.parent, chain |-> h.chain]
                             /\ h.parent \notin SuiteChain /\ h.chain \in SuiteChain
  BY <1>1 DEF IsBundle
<1> QED
  BY <1>2 DEF Owned, At

\* What is said of the suite's part stays when others change only what is theirs.
LEMMA OwnStays ==
  ASSUME NEW x, NEW y, SameOwn(y, x)
  PROVE  /\ Anchored(x) => Anchored(y)
         /\ \A f, t, P : Confined(x, f, t, P) => Confined(y, f, t, P)
         /\ \A p \in Policy \cup {None} : \A t : Hooked(x, p, t) => Hooked(y, p, t)
         /\ \A target, f, t : DOMAIN Desired(target, f, t) \subseteq SuiteChain /\ Exactly(x, target, f, t)
                                => Exactly(y, target, f, t)
<1>1. /\ \A c, d : c \notin SuiteChain /\ d \in SuiteChain => (Has(y, c, Hook(d)) <=> Has(x, c, Hook(d)))
      /\ \A c \in SuiteChain : (c \in DOMAIN y <=> c \in DOMAIN x) /\ (c \in DOMAIN x => y[c] = x[c])
  BY DEF SameOwn, SameHooks, SameSuite, SameAt
<1>2. Anchored(x) => Anchored(y)
  BY <1>1 DEF Anchored
<1>3. ASSUME NEW f, NEW t, NEW P, Confined(x, f, t, P) PROVE Confined(y, f, t, P)
  BY <1>1, <1>3 DEF Confined
<1>4. ASSUME NEW p \in Policy \cup {None}, NEW t, Hooked(x, p, t) PROVE Hooked(y, p, t)
  <2>1. CASE p = None
    BY <2>1 DEF Hooked
  <2>2. CASE p # None
    <3>1. \A h \in Hooks[p] : h.parent \notin SuiteChain /\ h.chain \in SuiteChain
      BY <2>2, PolicyIs
    <3> QED
      BY <3>1, <1>1, <1>4 DEF Hooked, HasHook
  <2> QED
    BY <2>1, <2>2
<1>5. ASSUME NEW target, NEW f, NEW t, DOMAIN Desired(target, f, t) \subseteq SuiteChain, Exactly(x, target, f, t)
      PROVE  Exactly(y, target, f, t)
  <2> DEFINE desired == Desired(target, f, t)
             wanted == Wanted(target)
  <2>1. /\ DOMAIN desired \subseteq SuiteChain
        /\ \A c \in SuiteChain : c \in DOMAIN x <=> c \in DOMAIN desired
        /\ \A c \in DOMAIN desired : x[c] = desired[c]
        /\ \A c, d : c \notin SuiteChain /\ d \in SuiteChain =>
             (Has(x, c, Hook(d)) <=> At(t, c, d) \in wanted /\ d \in DOMAIN desired)
    BY <1>5 DEF Exactly
  <2> HIDE DEF desired, wanted
  <2>2. /\ \A c \in SuiteChain : c \in DOMAIN y <=> c \in DOMAIN desired
        /\ \A c \in DOMAIN desired : y[c] = desired[c]
        /\ \A c, d : c \notin SuiteChain /\ d \in SuiteChain =>
             (Has(y, c, Hook(d)) <=> At(t, c, d) \in wanted /\ d \in DOMAIN desired)
    BY <1>1, <2>1
  <2> QED
    BY <2>2 DEF Exactly, desired, wanted
<1> QED
  BY <1>2, <1>3, <1>4, <1>5

\* The target is a policy, or what there was of one.
Stems(target, p) ==
  /\ p \in Policy /\ target.hooks = Hooks[p]
  /\ \A f \in Families : \A t : DOMAIN Desired(target, f, t) \subseteq Owned(p, f, t)

LEMMA BundleStems == \A p \in Policy : Stems(Bundle(p), p)
BY DEF Stems, Bundle, Desired, Owned

\* The chains of a snapshot.
LEMMA SnapshotHas ==
  ASSUME NEW p \in Policy, NEW k, NEW f \in Families, NEW t
  PROVE  /\ Snapshot(p, k).hooks = Hooks[p]
         /\ \A c : c \in DOMAIN Desired(Snapshot(p, k), f, t) <=> c \in Owned(p, f, t) /\ c \in DOMAIN k[f][t]
         /\ \A c \in DOMAIN Desired(Snapshot(p, k), f, t) : Desired(Snapshot(p, k), f, t)[c] = k[f][t][c]
<1> DEFINE s == Snapshot(p, k)
           rules == [g \in Families |-> [u \in DOMAIN Rules[p][g] |->
                      [c \in DOMAIN Rules[p][g][u] \cap DOMAIN k[g][u] |-> k[g][u][c]]]]
           x == k[f][t]
           desired == Desired(s, f, t)
<1>1. p # None
  BY IptAssumption
<1>2. s.rules = rules /\ s.hooks = Hooks[p]
  BY <1>1 DEF Snapshot
<1>3. rules[f] = [u \in DOMAIN Rules[p][f] |-> [c \in DOMAIN Rules[p][f][u] \cap DOMAIN k[f][u] |-> k[f][u][c]]]
  OBVIOUS
<1>4. DOMAIN <<>> = {}
  OBVIOUS
<1> HIDE DEF s, rules
<1>5. CASE t \in DOMAIN Rules[p][f]
  <2> DEFINE own == Rules[p][f][t]
  <2>1. t \in DOMAIN s.rules[f] /\ s.rules[f][t] = [c \in DOMAIN own \cap DOMAIN x |-> x[c]]
    BY <1>5, <1>2, <1>3
  <2>2. desired = [c \in DOMAIN own \cap DOMAIN x |-> x[c]] /\ Owned(p, f, t) = DOMAIN own
    BY <1>5, <2>1 DEF Desired, Owned
  <2> HIDE DEF own, x, desired
  <2>3. /\ \A c : c \in DOMAIN desired <=> c \in Owned(p, f, t) /\ c \in DOMAIN x
        /\ \A c \in DOMAIN desired : desired[c] = x[c]
    BY <2>2
  <2> QED
    BY <2>3, <1>2 DEF x, desired, s
<1>6. CASE t \notin DOMAIN Rules[p][f]
  <2>1. t \notin DOMAIN s.rules[f]
    BY <1>6, <1>2, <1>3
  <2>2. desired = <<>> /\ Owned(p, f, t) = {}
    BY <1>6, <2>1 DEF Desired, Owned
  <2> HIDE DEF x, desired
  <2> QED
    BY <2>2, <1>2, <1>4 DEF desired, x, s
<1> QED
  BY <1>5, <1>6

LEMMA SnapshotStems == \A p \in Policy : \A k : Stems(Snapshot(p, k), p)
<1> SUFFICES ASSUME NEW p \in Policy, NEW k PROVE Stems(Snapshot(p, k), p)
  OBVIOUS
<1> DEFINE s == Snapshot(p, k)
<1>1. ASSUME NEW f \in Families, NEW t PROVE s.hooks = Hooks[p] /\ DOMAIN Desired(s, f, t) \subseteq Owned(p, f, t)
  <2> DEFINE x == k[f][t]
             desired == Desired(s, f, t)
  <2>1. s.hooks = Hooks[p]
    BY SnapshotHas
  <2>2. /\ \A c : c \in DOMAIN desired <=> c \in Owned(p, f, t) /\ c \in DOMAIN x
        /\ \A c \in DOMAIN desired : desired[c] = x[c]
    BY SnapshotHas
  <2> QED
    BY <2>1, <2>2
<1>2. s.hooks = Hooks[p]
  <2>1. p # None
    BY IptAssumption
  <2> QED
    BY <2>1 DEF Snapshot
<1> QED
  BY <1>1, <1>2 DEF Stems

LEMMA NothingWanted == \A f \in Families : \A t : DOMAIN Desired(NoBundle, f, t) = {} /\ Wanted(NoBundle) = {}
<1>1. DOMAIN <<>> = {} /\ NoBundle.hooks = {} /\ \A f \in Families : NoBundle.rules[f] = <<>>
  BY DEF NoBundle
<1> QED
  BY <1>1 DEF Desired, Wanted

\* A table that is as a policy wants it has nothing of another, and its hooks.
LEMMA ExactConfines ==
  ASSUME NEW x, NEW target, NEW f \in Families, NEW t, Exactly(x, target, f, t), NEW p, Stems(target, p)
  PROVE  (\A P : p \in P => Confined(x, f, t, P)) /\ Hooked(x, p, t)
<1> DEFINE desired == Desired(target, f, t)
           wanted == Wanted(target)
<1>1. /\ \A c \in SuiteChain : c \in DOMAIN x <=> c \in DOMAIN desired
      /\ \A c, d : c \notin SuiteChain /\ d \in SuiteChain =>
           (Has(x, c, Hook(d)) <=> At(t, c, d) \in wanted /\ d \in DOMAIN desired)
  BY DEF Exactly
<1>2. p \in Policy /\ p # None /\ wanted = Hooks[p] /\ DOMAIN desired \subseteq Owned(p, f, t)
  BY IptAssumption DEF Stems, Wanted
<1>3. \A h \in Hooks[p] : h = At(h.table, h.parent, h.chain) /\ h.parent \notin SuiteChain /\ h.chain \in SuiteChain
  BY <1>2, PolicyIs
<1> HIDE DEF desired, wanted
<1>4. \A P : p \in P => Confined(x, f, t, P)
  BY <1>1, <1>2 DEF Confined
<1>5. Hooked(x, p, t)
  BY <1>1, <1>2, <1>3 DEF Hooked, HasHook
<1> QED
  BY <1>4, <1>5

LEMMA NothingConfines ==
  ASSUME NEW x, NEW f \in Families, NEW t
  PROVE  /\ Exactly(x, NoBundle, f, t) => \A P : Confined(x, f, t, P)
         /\ Confined(x, f, t, {None}) => Exactly(x, NoBundle, f, t)
<1> DEFINE desired == Desired(NoBundle, f, t)
           wanted == Wanted(NoBundle)
<1>1. DOMAIN desired = {} /\ wanted = {}
  BY NothingWanted
<1>2. Exactly(x, NoBundle, f, t) <=>
        /\ \A c \in SuiteChain : c \in DOMAIN x <=> c \in DOMAIN desired
        /\ \A c \in DOMAIN desired : x[c] = desired[c]
        /\ \A c, d : c \notin SuiteChain /\ d \in SuiteChain =>
             (Has(x, c, Hook(d)) <=> At(t, c, d) \in wanted /\ d \in DOMAIN desired)
  BY DEF Exactly
<1> HIDE DEF desired, wanted
<1>3. ASSUME Exactly(x, NoBundle, f, t) PROVE \A P : Confined(x, f, t, P)
  BY <1>1, <1>2, <1>3 DEF Confined
<1>4. ASSUME Confined(x, f, t, {None}) PROVE Exactly(x, NoBundle, f, t)
  BY <1>1, <1>2, <1>4 DEF Confined
<1> QED
  BY <1>3, <1>4

\* A kernel that has only what is of one policy, with its hooks, is as its snapshot says.
LEMMA FoundExact ==
  ASSUME NEW k, NEW p \in Policy \cup {None}, AllAnchored(k), AllConfined(k, {p}), AllHooked(k, p)
  PROVE  AllExact(k, Snapshot(p, k))
<1> SUFFICES ASSUME NEW f \in Families, NEW t \in Table PROVE Exactly(k[f][t], Snapshot(p, k), f, t)
  BY DEF AllExact
<1> DEFINE x == k[f][t]
           target == Snapshot(p, k)
           desired == Desired(target, f, t)
           wanted == Wanted(target)
<1>1. Anchored(x) /\ Confined(x, f, t, {p}) /\ Hooked(x, p, t)
  BY DEF AllAnchored, AllConfined, AllHooked
<1>2. CASE p = None
  <2>1. target = NoBundle
    BY <1>2 DEF Snapshot
  <2> QED
    BY <1>1, <1>2, <2>1, NothingConfines
<1>3. CASE p # None
  <2>1. p \in Policy
    BY <1>3
  <2>2. /\ wanted = Hooks[p]
        /\ \A c : c \in DOMAIN desired <=> c \in Owned(p, f, t) /\ c \in DOMAIN x
        /\ \A c \in DOMAIN desired : desired[c] = x[c]
    <3>1. target.hooks = Hooks[p]
      BY <2>1, SnapshotHas
    <3>2. /\ \A c : c \in DOMAIN desired <=> c \in Owned(p, f, t) /\ c \in DOMAIN x
          /\ \A c \in DOMAIN desired : desired[c] = x[c]
      BY <2>1, SnapshotHas
    <3> QED
      BY <3>1, <3>2 DEF Wanted
  <2> HIDE DEF x, target, desired, wanted
  <2>3. \A c \in SuiteChain : c \in DOMAIN x <=> c \in DOMAIN desired
    BY <1>1, <2>2 DEF Confined
  <2>4. ASSUME NEW c, c \notin SuiteChain, NEW d \in SuiteChain
        PROVE  Has(x, c, Hook(d)) <=> At(t, c, d) \in wanted /\ d \in DOMAIN desired
    <3>1. CASE Has(x, c, Hook(d))
      <4>1. d \in DOMAIN x
        BY <3>1, <2>4, <1>1 DEF Anchored
      <4>2. At(t, c, d) \in Hooks[p]
        BY <3>1, <2>4, <1>1 DEF Confined
      <4> QED
        BY <3>1, <4>1, <4>2, <2>2, <2>3
    <3>2. CASE At(t, c, d) \in wanted /\ d \in DOMAIN desired
      <4> DEFINE h == At(t, c, d)
      <4>1. h.table = t /\ h.parent = c /\ h.chain = d /\ h \in Hooks[p] /\ d \in DOMAIN x
        BY <3>2, <2>2 DEF At
      <4> HIDE DEF h
      <4>2. HasHook(x, h)
        BY <4>1, <1>1, <1>3 DEF Hooked
      <4>3. Has(x, c, Hook(d))
        BY <4>1, <4>2 DEF HasHook
      <4> QED
        BY <3>2, <4>3
    <3> QED
      BY <3>1, <3>2
  <2> QED
    BY <2>2, <2>3, <2>4 DEF Exactly, x, target, desired, wanted
<1> QED
  BY <1>2, <1>3

LEMMA DesiredIs ==
  ASSUME NEW target, IsBundle(target)
  PROVE  \A f \in Families : \A t : DOMAIN Desired(target, f, t) \subseteq SuiteChain
<1>1. DOMAIN <<>> = {}
  OBVIOUS
<1> QED
  BY <1>1 DEF Desired, IsBundle

\* What is of a policy is of its bundle.
LEMMA ConfinedCovered ==
  ASSUME NEW x, NEW f, NEW t, NEW P, Confined(x, f, t, P), NEW union, \A p \in P : p # None => Bundle(p) \in union, NEW target
  PROVE  Covered(x, target, union, f, t)
<1>1. ASSUME NEW c \in DOMAIN x \cap SuiteChain PROVE c \in OwnedBy(target, union, f, t)
  <2>1. PICK p \in P : p # None /\ c \in Owned(p, f, t)
    BY DEF Confined
  <2> DEFINE b == Bundle(p)
  <2>2. b \in union /\ b.rules = Rules[p]
    BY <2>1 DEF Bundle
  <2>3. t \in DOMAIN Rules[p][f] /\ c \in DOMAIN Rules[p][f][t]
    BY <2>1 DEF Owned
  <2> HIDE DEF b
  <2>4. b \in {e \in union : t \in DOMAIN e.rules[f]} /\ c \in DOMAIN b.rules[f][t]
    BY <2>2, <2>3
  <2> QED
    BY <2>4 DEF OwnedBy
<1>2. ASSUME NEW c, c \notin SuiteChain, NEW d \in SuiteChain, Has(x, c, Hook(d)) PROVE At(t, c, d) \in HooksOf(target, union, t)
  <2> DEFINE h == At(t, c, d)
  <2>1. PICK p \in P : p # None /\ h \in Hooks[p]
    BY <1>2 DEF Confined
  <2>2. Bundle(p) \in union /\ Bundle(p).hooks = Hooks[p]
    BY <2>1 DEF Bundle
  <2>3. h.table = t
    BY DEF At
  <2> HIDE DEF h
  <2>4. h \in HooksOf(target, union, t)
    BY <2>1, <2>2, <2>3 DEF HooksOf
  <2> QED
    BY <2>4 DEF h
<1> QED
  BY <1>1, <1>2 DEF Covered

\* What is prepared from the kernel as it is.  A table without a commit has nothing of the suite.
LEMMA PreparedReady ==
  ASSUME NEW k, IsKernel(k), AllAnchored(k), NEW target, IsBundle(target), NEW union, AreBundles(union),
         \A f \in Families : DOMAIN target.rules[f] \subseteq TablesIn(union, f),
         \A f \in Families : \A t \in Table : Covered(k[f][t], target, union, f, t)
  PROVE  AllPrepared(Prepare(target, union, k), target, union, k) /\ Settled(Prepare(target, union, k), target, k)
<1> DEFINE b == Prepare(target, union, k)
<1>1. /\ IsList(b)
      /\ \A i \in DOMAIN b : \E f \in Families : \E t \in TablesIn(union, f) :
           t \in Table /\ b[i] = Entry(target, union, k, f, t)
      /\ \A f \in Families : \A t \in TablesIn(union, f) :
           \E i \in DOMAIN b : b[i] = Entry(target, union, k, f, t)
      /\ \A i, j \in DOMAIN b : b[i].family = b[j].family /\ b[i].table = b[j].table => i = j
  <2>1. \A c \in union : IsBundle(c)
    BY DEF AreBundles
  <2> QED
    BY <2>1, Batched
<1> HIDE DEF b
<1>2. ASSUME NEW i \in DOMAIN b PROVE Prepared(b[i], target, union, k)
  <2>1. PICK f \in Families : \E t \in Table : b[i] = Entry(target, union, k, f, t)
    BY <1>1
  <2>2. PICK t \in Table : b[i] = Entry(target, union, k, f, t)
    BY <2>1
  <2>3. b[i].family = f /\ b[i].table = t
    BY <2>2 DEF Entry
  <2>4. Sound(k[f][t]) /\ SameOwn(k[f][t], k[f][t])
    BY DEF IsKernel, SameOwn, SameHooks, SameSuite, SameAt
  <2> QED
    BY <2>2, <2>3, <2>4 DEF Prepared
<1>3. ASSUME NEW f \in Families, NEW t \in Table PROVE Pending(b, f, t) \/ Exactly(k[f][t], target, f, t)
  <2>1. CASE t \in TablesIn(union, f)
    <3>1. PICK i \in DOMAIN b : b[i] = Entry(target, union, k, f, t)
      BY <2>1, <1>1
    <3>2. b[i].family = f /\ b[i].table = t
      BY <3>1 DEF Entry
    <3> QED
      BY <3>2 DEF Pending
  <2>2. CASE t \notin TablesIn(union, f)
    <3> DEFINE x == k[f][t]
               desired == Desired(target, f, t)
               owned == OwnedBy(target, union, f, t)
               wanted == Wanted(target)
    <3>1. DOMAIN <<>> = {} /\ t \notin DOMAIN target.rules[f]
      BY <2>2
    <3>2. DOMAIN desired = {}
      BY <3>1 DEF Desired
    <3>3. owned = {}
      <4>1. \A e \in union : t \notin DOMAIN e.rules[f]
        BY <2>2 DEF TablesIn
      <4> HIDE DEF desired
      <4> QED
        BY <4>1, <3>2 DEF OwnedBy, desired
    <3>4. Covered(x, target, union, f, t) /\ Anchored(x)
      BY DEF AllAnchored
    <3> HIDE DEF desired, x, wanted
    <3>5. \A c \in SuiteChain : c \notin DOMAIN x
      BY <3>3, <3>4 DEF Covered
    <3>6. \A c, d : c \notin SuiteChain /\ d \in SuiteChain => ~Has(x, c, Hook(d))
      BY <3>4, <3>5 DEF Anchored
    <3>7. /\ \A c \in SuiteChain : c \in DOMAIN x <=> c \in DOMAIN desired
          /\ \A c \in DOMAIN desired : x[c] = desired[c]
          /\ \A c, d : c \notin SuiteChain /\ d \in SuiteChain =>
               (Has(x, c, Hook(d)) <=> At(t, c, d) \in wanted /\ d \in DOMAIN desired)
      BY <3>2, <3>5, <3>6, SMTT(60)
    <3> QED
      BY <3>7 DEF Exactly, desired, x, wanted
  <2> QED
    BY <2>1, <2>2
<1> QED
  BY <1>2, <1>3 DEF AllPrepared, Settled, b

\* The first commit of a batch makes its table what the target wants.
LEMMA CommitExact ==
  ASSUME NEW target, IsBundle(target), NEW union, AreBundles(union), NEW k, IsKernel(k), NEW undisturbed,
         NEW b, IsBatch(b, target, union, k, undisturbed), b # <<>>, AllPrepared(b, target, union, k), Settled(b, target, k),
         AllAnchored(k), \A f \in Families : \A t \in Table : Covered(k[f][t], target, union, f, t),
         NEW y, y = Run(Head(b).commands, k[Head(b).family][Head(b).table]), y # None,
         NEW j, j = With(k, Head(b).family, Head(b).table, y)
  PROVE  /\ AllPrepared(Tail(b), target, union, j) /\ Settled(Tail(b), target, j) /\ AllAnchored(j)
         /\ \A f \in Families : \A t \in Table : j[f][t] = k[f][t] \/ Exactly(j[f][t], target, f, t)
<1> DEFINE e == Head(b)
           f == e.family
           t == e.table
           x == k[f][t]
<1>1. IsList(b)
  BY DEF IsBatch
<1>2. /\ IsList(Tail(b)) /\ 1 \in DOMAIN b /\ e = b[1] /\ Len(b) \in Nat
      /\ DOMAIN Tail(b) = 1..(Len(b) - 1)
      /\ \A i \in 1..(Len(b) - 1) : i + 1 \in DOMAIN b /\ Tail(b)[i] = b[i + 1]
      /\ \A i \in DOMAIN b : i = 1 \/ \E m \in DOMAIN Tail(b) : Tail(b)[m] = b[i]
  BY <1>1, Rest
<1> HIDE DEF e
<1>3. Prepared(e, target, union, k)
  BY <1>2 DEF AllPrepared
<1>4. PICK live : /\ Sound(live[f][t])
                  /\ e = Entry(target, union, live, f, t)
                  /\ SameOwn(x, live[f][t])
  BY <1>3 DEF Prepared
<1>5. f \in Families /\ t \in Table
  BY <1>3 DEF Prepared
<1>6. y = Run(TableCommands(target, union, live, f, t), x)
  <2>1. e.commands = TableCommands(target, union, live, f, t)
    <3> DEFINE g == f
               u == t
    <3> HIDE DEF g, u
    <3>1. e = Entry(target, union, live, g, u)
      BY <1>4 DEF g, u
    <3>2. e.commands = TableCommands(target, union, live, g, u)
      BY <3>1, SMTT(60) DEF Entry
    <3> QED
      BY <3>2 DEF g, u
  <2> QED
    BY <2>1 DEF e
<1>7. Sound(x) /\ Anchored(x) /\ Covered(x, target, union, f, t)
  BY <1>5 DEF IsKernel, AllAnchored
<1>8. k = [g \in Families |-> [u \in Table |-> k[g][u]]]
  BY DEF IsKernel
<1>9. j = With(k, f, t, y)
  BY DEF e, f, t
<1> HIDE DEF f, t, x
<1>10. Exactly(y, target, f, t) /\ Anchored(y)
  <2>1. IsBundle(target) /\ IsFiniteSet(union) /\ \A d \in union : IsBundle(d)
    BY DEF AreBundles
  <2>2. SameHooks(x, live[f][t]) /\ SameSuite(x, live[f][t])
    BY <1>4, SMTT(60) DEF SameOwn
  <2> QED
    BY ONLY y # None, <2>1, <2>2, <1>4, <1>5, <1>6, <1>7, TableExact
<1>11. /\ j[f][t] = y
       /\ \A g \in Families : \A u \in Table : g # f \/ u # t => j[g][u] = k[g][u]
  <2>1. j = [g \in Families |-> IF g = f THEN [u \in Table |-> IF u = t THEN y ELSE k[g][u]] ELSE k[g]]
    <3>1. DOMAIN k = Families /\ \A g \in Families : DOMAIN k[g] = Table
      BY <1>8
    <3> QED
      BY <1>5, <1>9, <3>1 DEF With
  <2> QED
    BY <1>5, <2>1, ZenonT(60)
<1>12. ASSUME NEW i \in DOMAIN Tail(b) PROVE Prepared(Tail(b)[i], target, union, j)
  <2> DEFINE d == Tail(b)[i]
  <2>1. i \in 1..(Len(b) - 1) /\ i + 1 \in DOMAIN b /\ d = b[i + 1] /\ i + 1 # 1
    BY <1>2
  <2>2. Prepared(d, target, union, k)
    BY <2>1 DEF AllPrepared
  <2>3. d.family # f \/ d.table # t
    BY <2>1, <1>2 DEF IsBatch, f, t
  <2> HIDE DEF d
  <2>4. d.family \in Families /\ d.table \in Table
    BY <2>2, SMTT(60) DEF Prepared
  <2>5. j[d.family][d.table] = k[d.family][d.table]
    BY <2>3, <2>4, <1>11, ZenonT(60)
  <2>6. Prepared(d, target, union, j)
    BY <2>2, <2>5, ZenonT(60) DEF Prepared
  <2> QED
    BY <2>6 DEF d
<1>13. ASSUME NEW g \in Families, NEW u \in Table
       PROVE  /\ Pending(Tail(b), g, u) \/ Exactly(j[g][u], target, g, u)
              /\ Anchored(j[g][u])
              /\ j[g][u] = k[g][u] \/ Exactly(j[g][u], target, g, u)
  <2>1. CASE g = f /\ u = t
    BY <2>1, <1>10, <1>11, ZenonT(60)
  <2>2. CASE ~(g = f /\ u = t)
    <3>1. j[g][u] = k[g][u] /\ Anchored(k[g][u])
      BY <2>2, <1>11, ZenonT(60) DEF AllAnchored
    <3>2. CASE Pending(b, g, u)
      <4>1. PICK i \in DOMAIN b : b[i].family = g /\ b[i].table = u
        BY <3>2 DEF Pending
      <4>2. i # 1
        BY <4>1, <2>2, <1>2 DEF f, t
      <4>3. Pending(Tail(b), g, u)
        BY <4>1, <4>2, <1>2, SMTT(60) DEF Pending
      <4> QED
        BY <3>1, <4>3
    <3>3. CASE ~Pending(b, g, u)
      BY <3>1, <3>3 DEF Settled
    <3> QED
      BY <3>2, <3>3, ZenonT(60)
  <2> QED
    BY <2>1, <2>2, ZenonT(60)
<1> QED
  BY <1>12, <1>13, ZenonT(60) DEF AllPrepared, Settled, AllAnchored

\* Nothing that is said of the suite's part changes with what is of others.
LEMMA OwnKept ==
  ASSUME NEW k, NEW j, AllSameOwn(j, k)
  PROVE  /\ AllAnchored(k) => AllAnchored(j)
         /\ \A P : AllConfined(k, P) => AllConfined(j, P)
         /\ \A p \in Policy \cup {None} : AllHooked(k, p) => AllHooked(j, p)
         /\ \A target : IsBundle(target) => (AllExact(k, target) => AllExact(j, target))
         /\ \A b, target : IsBundle(target) => (Settled(b, target, k) => Settled(b, target, j))
         /\ \A b, target, union : AllPrepared(b, target, union, k) => AllPrepared(b, target, union, j)
<1>1. ASSUME NEW f \in Families, NEW t \in Table
      PROVE  /\ SameOwn(j[f][t], k[f][t])
             /\ Anchored(k[f][t]) => Anchored(j[f][t])
             /\ \A P : Confined(k[f][t], f, t, P) => Confined(j[f][t], f, t, P)
             /\ \A p \in Policy \cup {None} : Hooked(k[f][t], p, t) => Hooked(j[f][t], p, t)
             /\ \A target : IsBundle(target) => (Exactly(k[f][t], target, f, t) => Exactly(j[f][t], target, f, t))
  <2> DEFINE x == k[f][t]
             y == j[f][t]
  <2>1. SameOwn(y, x)
    BY DEF AllSameOwn
  <2> HIDE DEF x, y
  <2>2. /\ Anchored(x) => Anchored(y)
        /\ \A g, u, P : Confined(x, g, u, P) => Confined(y, g, u, P)
        /\ \A p \in Policy \cup {None} : \A u : Hooked(x, p, u) => Hooked(y, p, u)
        /\ \A target, g, u : DOMAIN Desired(target, g, u) \subseteq SuiteChain /\ Exactly(x, target, g, u)
                               => Exactly(y, target, g, u)
    BY <2>1, OwnStays
  <2>3. \A target : IsBundle(target) => (Exactly(x, target, f, t) => Exactly(y, target, f, t))
    BY <2>2, DesiredIs
  <2> QED
    BY <2>1, <2>2, <2>3 DEF x, y
<1>2. AllAnchored(k) => AllAnchored(j)
  BY <1>1 DEF AllAnchored
<1>3. ASSUME NEW P, AllConfined(k, P) PROVE AllConfined(j, P)
  BY <1>1, <1>3 DEF AllConfined
<1>4. ASSUME NEW p \in Policy \cup {None}, AllHooked(k, p) PROVE AllHooked(j, p)
  BY <1>1, <1>4 DEF AllHooked
<1>5. ASSUME NEW target, IsBundle(target), AllExact(k, target) PROVE AllExact(j, target)
  BY <1>1, <1>5 DEF AllExact
<1>6. ASSUME NEW b, NEW target, IsBundle(target), Settled(b, target, k) PROVE Settled(b, target, j)
  BY <1>1, <1>6 DEF Settled
<1>7. ASSUME NEW b, NEW target, NEW union, AllPrepared(b, target, union, k) PROVE AllPrepared(b, target, union, j)
  <2> SUFFICES ASSUME NEW i \in DOMAIN b PROVE Prepared(b[i], target, union, j)
    BY DEF AllPrepared
  <2> DEFINE e == b[i]
             f == e.family
             t == e.table
  <2>1. Prepared(e, target, union, k)
    BY <1>7 DEF AllPrepared
  <2> HIDE DEF e
  <2>2. PICK live : Sound(live[f][t]) /\ e = Entry(target, union, live, f, t) /\ SameOwn(k[f][t], live[f][t])
    BY <2>1 DEF Prepared
  <2>3. f \in Families /\ t \in Table
    BY <2>1 DEF Prepared
  <2>4. SameOwn(j[f][t], k[f][t])
    BY <2>3, <1>1
  <2>5. SameOwn(j[f][t], live[f][t])
    BY <2>2, <2>4 DEF SameOwn, SameHooks, SameSuite, SameAt
  <2>6. Prepared(e, target, union, j)
    BY <2>2, <2>3, <2>5 DEF Prepared
  <2> QED
    BY <2>6 DEF e
<1> QED
  BY <1>2, <1>3, <1>4, <1>5, <1>6, <1>7

(***************************************************************************)
(* What others do to the suite's part                                      *)
(***************************************************************************)
LEMMA ForeignOwn ==
  ASSUME NEW k, IsKernel(k), NEW f \in Families, NEW t \in Table, NEW c \in DOMAIN k[f][t], c \notin SuiteChain,
         NEW new, NEW j, j = [k EXCEPT ![f][t][c] = new],
         \A g \in Families : \A u \in Table : SameHooks(j[g][u], k[g][u])
  PROVE  AllSameOwn(j, k)
<1> DEFINE x == k[f][t]
           y == [x EXCEPT ![c] = new]
<1>1. k = [g \in Families |-> [u \in Table |-> k[g][u]]]
  BY DEF IsKernel
<1>2. j = [k EXCEPT ![f][t] = y]
  OBVIOUS
<1>3. DOMAIN y = DOMAIN x /\ \A d \in DOMAIN x : d # c => y[d] = x[d]
  OBVIOUS
<1> HIDE DEF y
<1>4. j = [g \in Families |-> IF g = f THEN [u \in Table |-> IF u = t THEN y ELSE k[g][u]] ELSE k[g]]
  <2>1. DOMAIN k = Families /\ \A g \in Families : DOMAIN k[g] = Table
    BY <1>1
  <2> QED
    BY <1>2, <2>1
<1>5. j[f][t] = y /\ \A g \in Families : \A u \in Table : g # f \/ u # t => j[g][u] = k[g][u]
  BY <1>4
<1>6. \A g \in Families : \A u \in Table : SameSuite(j[g][u], k[g][u])
  BY <1>3, <1>5 DEF SameSuite, SameAt
<1> QED
  BY <1>6 DEF AllSameOwn, SameOwn

LEMMA DockerOwn ==
  ASSUME NEW k, IsKernel(k)
  PROVE  AllSameOwn(WithDocker(k), k)
<1> DEFINE j == WithDocker(k)
           D(x) == [c \in DOMAIN x \cup {"DOCKER-USER"} |->
                     IF c = "FORWARD" THEN <<DockerJump>> \o x[c]
                     ELSE IF c \in DOMAIN x THEN x[c] ELSE <<>>]
<1>1. k = [f \in Families |-> [t \in Table |-> k[f][t]]] /\ "filter" \in Table
  BY IptAssumption DEF IsKernel
<1>2. j = [f \in Families |-> [k[f] EXCEPT !["filter"] = D(k[f]["filter"])]]
  BY DEF WithDocker
<1>3. \A f \in Families : \A t \in Table : SameHooks(j[f][t], k[f][t])
  BY DockerIs
<1>4. \A x : \A c \in SuiteChain : c # "FORWARD" => SameAt(D(x), x, c)
  BY IptAssumption DEF SameAt
<1>5. "FORWARD" \notin SuiteChain
  BY <1>1, IptAssumption
<1> HIDE DEF D, j
<1>6. \A f \in Families : \A t \in Table : j[f][t] = IF t = "filter" THEN D(k[f]["filter"]) ELSE k[f][t]
  <2>1. \A f \in Families : k[f] = [t \in Table |-> k[f][t]]
    BY <1>1
  <2> QED
    BY <1>1, <1>2, <2>1
<1>7. ASSUME NEW f \in Families, NEW t \in Table PROVE SameSuite(j[f][t], k[f][t])
  BY <1>4, <1>5, <1>6 DEF SameSuite, SameAt
<1> QED
  BY <1>3, <1>7 DEF AllSameOwn, SameOwn, j

\* A new boot has nothing of the suite.
LEMMA EmptyOwn ==
  /\ AllAnchored(Empty) /\ \A P : AllConfined(Empty, P)
  /\ \A p \in Policy \cup {None} : AllHooked(Empty, p)
<1>1. Empty = [f \in Families |-> [t \in Table |-> [c \in Shared[t] |-> <<>>]]]
  BY DEF Empty
<1>2. ASSUME NEW f \in Families, NEW t \in Table, NEW x, x = Empty[f][t]
      PROVE  /\ \A c \in SuiteChain : c \notin DOMAIN x
             /\ \A c, r : ~Has(x, c, r)
  <2>1. x = [c \in Shared[t] |-> <<>>] /\ Shared[t] \cap SuiteChain = {}
    BY <1>1, <1>2, IptAssumption
  <2> QED
    BY <2>1, Short DEF Has
<1>3. ASSUME NEW f \in Families, NEW t \in Table
      PROVE  /\ Anchored(Empty[f][t]) /\ \A P : Confined(Empty[f][t], f, t, P)
             /\ \A p \in Policy \cup {None} : Hooked(Empty[f][t], p, t)
  <2> DEFINE x == Empty[f][t]
  <2>1. /\ \A c \in SuiteChain : c \notin DOMAIN x
        /\ \A c, r : ~Has(x, c, r)
    BY <1>2
  <2> HIDE DEF x
  <2>2. Anchored(x) /\ \A P : Confined(x, f, t, P)
    BY <2>1 DEF Anchored, Confined
  <2>3. ASSUME NEW p \in Policy \cup {None} PROVE Hooked(x, p, t)
    BY <2>1, PolicyIs DEF Hooked
  <2> QED
    BY <2>2, <2>3 DEF x
<1> QED
  BY <1>3 DEF AllAnchored, AllConfined, AllHooked

(***************************************************************************)
(* The suite's part as a whole                                             *)
(***************************************************************************)
OwnIn(x) ==
  [chains |-> [c \in DOMAIN x \cap SuiteChain |-> x[c]],
   hooks  |-> {at \in (DOMAIN x) \X {Hook(d) : d \in SuiteChain} : Count(x[at[1]], at[2]) > 0}]
WantedIn(target, f, t) ==
  {<<h.parent, Hook(h.chain)>> : h \in {g \in Wanted(target) : g.table = t /\ g.chain \in DOMAIN Desired(target, f, t)}}

LEMMA OwnInIs ==
  ASSUME NEW x, Sound(x), NEW target, IsBundle(target), NEW f \in Families, NEW t \in Table, Exactly(x, target, f, t)
  PROVE  OwnIn(x) = [chains |-> [c \in DOMAIN Desired(target, f, t) |-> Desired(target, f, t)[c]],
                     hooks  |-> WantedIn(target, f, t)]
<1> DEFINE desired == Desired(target, f, t)
           wanted == Wanted(target)
           hooks == {at \in (DOMAIN x) \X {Hook(d) : d \in SuiteChain} : Count(x[at[1]], at[2]) > 0}
<1>1. DOMAIN desired \subseteq SuiteChain
  BY DesiredIs
<1>2. /\ \A c \in SuiteChain : c \in DOMAIN x <=> c \in DOMAIN desired
      /\ \A c \in DOMAIN desired : x[c] = desired[c]
      /\ \A c, d : c \notin SuiteChain /\ d \in SuiteChain =>
           (Has(x, c, Hook(d)) <=> At(t, c, d) \in wanted /\ d \in DOMAIN desired)
  BY DEF Exactly
<1>3. \A h \in wanted : h = At(h.table, h.parent, h.chain) /\ h.parent \notin SuiteChain /\ h.chain \in SuiteChain
  BY DEF IsBundle, Wanted, At
<1>4. WantedIn(target, f, t) = {<<h.parent, Hook(h.chain)>> : h \in {g \in wanted : g.table = t /\ g.chain \in DOMAIN desired}}
  BY DEF WantedIn
<1> HIDE DEF desired, wanted
<1>5. [c \in DOMAIN x \cap SuiteChain |-> x[c]] = [c \in DOMAIN desired |-> desired[c]]
  <2>1. DOMAIN x \cap SuiteChain = DOMAIN desired
    BY <1>1, <1>2
  <2> QED
    BY <2>1, <1>2
<1>6. ASSUME NEW c \in DOMAIN x, NEW d \in SuiteChain
      PROVE  /\ Count(x[c], Hook(d)) > 0 <=> Has(x, c, Hook(d))
             /\ Has(x, c, Hook(d)) => c \notin SuiteChain
  <2>1. IsList(x[c])
    BY DEF Sound, IsTable
  <2>2. Count(x[c], Hook(d)) \in Nat /\ (Count(x[c], Hook(d)) = 0 <=> Hook(d) \notin Members(x[c]))
    BY <2>1, Counted
  <2>3. Count(x[c], Hook(d)) > 0 <=> Hook(d) \in Members(x[c])
    BY <2>2
  <2> QED
    BY <2>3, HookIs DEF Has, Sound, Clean
<1>7. hooks \subseteq WantedIn(target, f, t)
  <2> SUFFICES ASSUME NEW at \in hooks PROVE at \in WantedIn(target, f, t)
    OBVIOUS
  <2>1. PICK c \in DOMAIN x, d \in SuiteChain : at = <<c, Hook(d)>> /\ Count(x[c], Hook(d)) > 0
    OBVIOUS
  <2> DEFINE h == At(t, c, d)
  <2>2. h \in wanted /\ d \in DOMAIN desired
    BY <2>1, <1>2, <1>6
  <2>3. h.table = t /\ h.parent = c /\ h.chain = d
    BY DEF At
  <2> HIDE DEF h
  <2>4. h \in {g \in wanted : g.table = t /\ g.chain \in DOMAIN desired} /\ at = <<h.parent, Hook(h.chain)>>
    BY <2>1, <2>2, <2>3
  <2> QED
    BY <2>4, <1>4
<1>8. WantedIn(target, f, t) \subseteq hooks
  <2> SUFFICES ASSUME NEW at \in WantedIn(target, f, t) PROVE at \in hooks
    OBVIOUS
  <2>1. PICK h \in wanted : h.table = t /\ h.chain \in DOMAIN desired /\ at = <<h.parent, Hook(h.chain)>>
    BY <1>4
  <2> DEFINE c == h.parent
             d == h.chain
  <2>2. h = At(t, c, d) /\ c \notin SuiteChain /\ d \in SuiteChain
    BY <2>1, <1>3
  <2> HIDE DEF c, d
  <2>3. Has(x, c, Hook(d))
    <3>1. d \in DOMAIN desired
      BY <2>1 DEF d
    <3> QED
      BY <3>1, <2>2, <1>2
  <2>4. c \in DOMAIN x /\ Count(x[c], Hook(d)) > 0
    BY <2>2, <2>3, <1>6 DEF Has
  <2>5. at = <<c, Hook(d)>>
    BY <2>1 DEF c, d
  <2> QED
    BY <2>2, <2>4, <2>5
<1>9. hooks = WantedIn(target, f, t)
  BY <1>7, <1>8
<1> QED
  BY <1>5, <1>9 DEF OwnIn, desired

\* Two kernels that are as the same target wants them have the same of the suite.
LEMMA OwnEqual ==
  ASSUME NEW j, IsKernel(j), NEW k, IsKernel(k), NEW target, IsBundle(target), AllExact(j, target), AllExact(k, target)
  PROVE  Own(j) = Own(k)
<1>1. \A f \in Families : \A t \in Table : OwnIn(j[f][t]) = OwnIn(k[f][t])
  <2> SUFFICES ASSUME NEW f \in Families, NEW t \in Table PROVE OwnIn(j[f][t]) = OwnIn(k[f][t])
    OBVIOUS
  <2>1. Sound(j[f][t]) /\ Sound(k[f][t]) /\ Exactly(j[f][t], target, f, t) /\ Exactly(k[f][t], target, f, t)
    BY DEF IsKernel, AllExact
  <2> QED
    BY <2>1, OwnInIs
<1>2. \A q : Own(q) = [f \in Families |-> [t \in Table |-> OwnIn(q[f][t])]]
  BY DEF Own, OwnIn
<1> QED
  BY <1>1, <1>2

\* What a policy, or none, has of the suite.
LEMMA OwnOfIs ==
  ASSUME NEW k, IsKernel(k)
  PROVE  /\ AllExact(k, NoBundle) => Own(k) = NothingOwn
         /\ \A p \in Policy : AllExact(k, Bundle(p)) => Own(k) = OwnOf(p)
<1>1. Own(k) = [f \in Families |-> [t \in Table |-> OwnIn(k[f][t])]]
  BY DEF Own, OwnIn
<1>2. <<>> = [c \in {} |-> c] /\ DOMAIN <<>> = {}
  OBVIOUS
<1>3. ASSUME AllExact(k, NoBundle) PROVE Own(k) = NothingOwn
  <2>1. ASSUME NEW f \in Families, NEW t \in Table PROVE OwnIn(k[f][t]) = [chains |-> <<>>, hooks |-> {}]
    <3> DEFINE x == k[f][t]
    <3>1. Sound(x) /\ Exactly(x, NoBundle, f, t)
      BY <1>3 DEF IsKernel, AllExact
    <3> HIDE DEF x
    <3>2. OwnIn(x) = [chains |-> [c \in DOMAIN Desired(NoBundle, f, t) |-> Desired(NoBundle, f, t)[c]],
                      hooks  |-> WantedIn(NoBundle, f, t)]
      BY <3>1, NothingIs, OwnInIs
    <3>3. DOMAIN Desired(NoBundle, f, t) = {} /\ Wanted(NoBundle) = {}
      BY NothingWanted
    <3>4. WantedIn(NoBundle, f, t) = {}
      BY <3>3 DEF WantedIn
    <3>5. [c \in DOMAIN Desired(NoBundle, f, t) |-> Desired(NoBundle, f, t)[c]] = <<>>
      BY <3>3, <1>2
    <3> QED
      BY <3>2, <3>4, <3>5 DEF x
  <2> QED
    BY <1>1, <2>1 DEF NothingOwn
<1>4. ASSUME NEW p \in Policy, AllExact(k, Bundle(p)) PROVE Own(k) = OwnOf(p)
  <2> DEFINE target == Bundle(p)
  <2>1. IsBundle(target) /\ target.rules = Rules[p] /\ Wanted(target) = Hooks[p]
    BY BundleIs DEF Bundle, Wanted
  <2>2. AllExact(k, target)
    BY <1>4
  <2> HIDE DEF target
  <2>3. ASSUME NEW f \in Families, NEW t \in Table
        PROVE  OwnIn(k[f][t]) =
                 [chains |-> IF t \in DOMAIN Rules[p][f] THEN Rules[p][f][t] ELSE <<>>,
                  hooks  |-> {<<h.parent, Hook(h.chain)>> : h \in {g \in Hooks[p] : g.table = t /\ g.chain \in Owned(p, f, t)}}]
    <3> DEFINE x == k[f][t]
               desired == Desired(target, f, t)
    <3>1. Sound(x) /\ Exactly(x, target, f, t)
      BY <2>2 DEF IsKernel, AllExact
    <3>2. OwnIn(x) = [chains |-> [c \in DOMAIN desired |-> desired[c]], hooks  |-> WantedIn(target, f, t)]
      <4> HIDE DEF x
      <4> QED
        BY <3>1, <2>1, OwnInIs
    <3>3. desired = IF t \in DOMAIN Rules[p][f] THEN Rules[p][f][t] ELSE <<>>
      BY <2>1 DEF Desired
    <3>4. DOMAIN desired = Owned(p, f, t)
      BY <3>3, <1>2 DEF Owned
    <3>5. desired = [c \in DOMAIN desired |-> desired[c]]
      <4>1. CASE t \in DOMAIN Rules[p][f]
        <5>1. PICK i \in DOMAIN Family : f = Family[i]
          BY FamiliesAre
        <5> QED
          BY <4>1, <5>1, <3>3, IptAssumption
      <4>2. CASE t \notin DOMAIN Rules[p][f]
        BY <4>2, <3>3, <1>2
      <4> QED
        BY <4>1, <4>2
    <3> HIDE DEF x
    <3>6. WantedIn(target, f, t) = {<<h.parent, Hook(h.chain)>> : h \in {g \in Hooks[p] : g.table = t /\ g.chain \in Owned(p, f, t)}}
      BY <3>4, <2>1 DEF WantedIn
    <3> QED
      BY <3>2, <3>3, <3>5, <3>6 DEF x
  <2> QED
    BY <1>1, <2>3 DEF OwnOf
<1> QED
  BY <1>3, <1>4

(***************************************************************************)
(* The suite's part of the kernel, step by step                            *)
(***************************************************************************)
\* Without a transaction it is of the current policy, with its hooks; within one
\* it is of the two policies.
Quiet(k, p) == AllConfined(k, {p}) /\ AllHooked(k, p)
Between(k, j) == AllConfined(k, {j.previous, j.candidate})

\* The snapshot is of the kernel that the transaction found.
Recalls(j, past) == IsKernel(past) /\ j.snapshot = Snapshot(j.previous, past) /\ AllExact(past, j.snapshot)

\* What has no pending commit is done, and the pending commits are good.
InHand(b, j, at, k) == Settled(b, Aim(j, at), k) /\ AllPrepared(b, Aim(j, at), Sides(j, at), k)

\* A printed token stands for a kernel that has the candidate.
Delivered(j, at, k) == j.handed => at = "idle" /\ AllExact(k, Aim(j, "apply"))

OwnInv ==
  /\ pc # "idle" => journal # NoJournal
  /\ AllAnchored(kernel)
  /\ journal = NoJournal => Quiet(kernel, current)
  /\ journal # NoJournal => Between(kernel, journal) /\ Recalls(journal, found) /\ Delivered(journal, pc, kernel)
  /\ pc \in {"apply", "rollback"} => InHand(batch, journal, pc, kernel)

LEMMA Sided ==
  ASSUME NEW j, IsJournal(j), NEW at \in {"apply", "rollback"}
  PROVE  /\ IsBundle(Aim(j, at)) /\ AreBundles(Sides(j, at))
         /\ \A f \in Families : DOMAIN Aim(j, at).rules[f] \subseteq TablesIn(Sides(j, at), f)
         /\ \A p \in {j.previous, j.candidate} : p # None => Bundle(p) \in Sides(j, at)
<1> DEFINE target == Aim(j, at)
           union == Sides(j, at)
<1>1. j.previous \in Policy \cup {None} /\ j.candidate \in Policy /\ IsBundle(j.snapshot)
  BY DEF IsJournal
<1>2. IsBundle(target)
  BY <1>1, BundleIs, NothingIs DEF Aim
<1>3. AreBundles(union)
  <2>1. CASE at = "apply"
    <3>1. union = Bundles({j.previous, j.candidate})
      BY <2>1 DEF Sides
    <3> QED
      BY <1>1, <3>1, SidesAre
  <2>2. CASE at = "rollback"
    <3>1. union = Bundles({j.previous, j.candidate}) \cup {j.snapshot}
      BY <2>2 DEF Sides
    <3> QED
      BY <1>1, <3>1, SidesAre
  <2> QED
    BY <2>1, <2>2
<1>4. \A p \in {j.previous, j.candidate} : p # None => Bundle(p) \in union
  BY DEF Sides, Bundles, Present
<1>5. target = NoBundle \/ target \in union
  <2>1. CASE at = "apply"
    <3>1. j.candidate # None
      BY <1>1, IptAssumption
    <3> QED
      BY <2>1, <3>1, <1>4 DEF Aim
  <2>2. CASE at = "rollback"
    BY <2>2 DEF Aim, Sides
  <2> QED
    BY <2>1, <2>2
<1>6. \A f \in Families : DOMAIN NoBundle.rules[f] = {}
  <2>1. DOMAIN <<>> = {} /\ NoBundle.rules = [f \in Families |-> <<>>]
    BY DEF NoBundle
  <2> QED
    BY <2>1
<1> HIDE DEF target, union
<1>7. \A f \in Families : DOMAIN target.rules[f] \subseteq TablesIn(union, f)
  BY <1>5, <1>6 DEF TablesIn
<1> QED
  BY <1>2, <1>3, <1>4, <1>7 DEF target, union

\* Everything of the two policies is among what a batch deals with.
LEMMA BetweenCovered ==
  ASSUME NEW j, IsJournal(j), NEW at \in {"apply", "rollback"}, NEW k, Between(k, j)
  PROVE  \A f \in Families : \A t \in Table : Covered(k[f][t], Aim(j, at), Sides(j, at), f, t)
<1> SUFFICES ASSUME NEW f \in Families, NEW t \in Table PROVE Covered(k[f][t], Aim(j, at), Sides(j, at), f, t)
  OBVIOUS
<1> DEFINE P == {j.previous, j.candidate}
           x == k[f][t]
           union == Sides(j, at)
           target == Aim(j, at)
<1>1. Confined(x, f, t, P)
  BY DEF Between, AllConfined
<1>2. \A p \in P : p # None => Bundle(p) \in union
  BY Sided
<1> HIDE DEF P, x, union, target
<1>3. Covered(x, target, union, f, t)
  BY <1>1, <1>2, ConfinedCovered
<1> QED
  BY <1>3 DEF P, x, union, target

LEMMA Starts ==
  ASSUME NEW j, IsJournal(j), NEW at \in {"apply", "rollback"}, NEW k, IsKernel(k), AllAnchored(k), Between(k, j)
  PROVE  InHand(Prepare(Aim(j, at), Sides(j, at), k), j, at, k)
<1> DEFINE union == Sides(j, at)
           target == Aim(j, at)
<1>1. IsBundle(target) /\ AreBundles(union) /\ \A f \in Families : DOMAIN target.rules[f] \subseteq TablesIn(union, f)
  BY Sided
<1>2. \A f \in Families : \A t \in Table : Covered(k[f][t], target, union, f, t)
  BY BetweenCovered
<1> HIDE DEF union, target
<1>3. AllPrepared(Prepare(target, union, k), target, union, k) /\ Settled(Prepare(target, union, k), target, k)
  BY <1>1, <1>2, PreparedReady
<1> QED
  BY <1>3 DEF InHand, union, target

LEMMA MarkSame ==
  ASSUME NEW j, IsJournal(j), NEW m, m = [j EXCEPT !.handed = FALSE] \/ m = [j EXCEPT !.handed = TRUE]
  PROVE  /\ \A at : Aim(m, at) = Aim(j, at) /\ Sides(m, at) = Sides(j, at)
         /\ \A k : (Between(k, j) => Between(k, m)) /\ (Recalls(j, k) => Recalls(m, k))
<1>1. /\ m.previous = j.previous /\ m.candidate = j.candidate
      /\ m.disabled = j.disabled /\ m.snapshot = j.snapshot
  BY MarkKeeps
<1> QED
  BY <1>1 DEF Aim, Sides, Between, Recalls

LEMMA Apart == \A j : IsJournal(j) => j # NoJournal
<1>1. NoJournal.candidate = None /\ None \notin Policy
  BY IptAssumption DEF NoJournal
<1> QED
  BY <1>1 DEF IsJournal

\* What is exactly as a batch aims at is of one of the two policies.
LEMMA AimConfines ==
  ASSUME NEW j, IsJournal(j), NEW past, Recalls(j, past), NEW at \in {"apply", "rollback"},
         NEW f \in Families, NEW t \in Table, NEW x, Exactly(x, Aim(j, at), f, t)
  PROVE  /\ Confined(x, f, t, {j.previous, j.candidate})
         /\ at = "apply" => LET p == IF j.disabled THEN None ELSE j.candidate IN Confined(x, f, t, {p}) /\ Hooked(x, p, t)
         /\ at = "rollback" => Confined(x, f, t, {j.previous}) /\ Hooked(x, j.previous, t)
<1> DEFINE target == Aim(j, at)
<1>1. j.previous \in Policy \cup {None} /\ j.candidate \in Policy
  BY DEF IsJournal
<1>2. Hooked(x, None, t)
  BY DEF Hooked
<1>3. CASE at = "apply" /\ j.disabled
  <2>1. \A P : Confined(x, f, t, P)
    BY <1>3, NothingConfines DEF Aim
  <2> QED
    BY <2>1, <1>2, <1>3
<1>4. CASE at = "apply" /\ ~j.disabled
  <2> DEFINE p == j.candidate
  <2>1. Stems(target, p) /\ p \in {j.previous, j.candidate} /\ p \in {p}
    BY <1>1, <1>4, BundleStems DEF Aim
  <2>2. Exactly(x, target, f, t)
    OBVIOUS
  <2> HIDE DEF target, p
  <2>3. (\A P : p \in P => Confined(x, f, t, P)) /\ Hooked(x, p, t)
    BY <2>1, <2>2, ExactConfines
  <2> QED
    BY <1>4, <2>1, <2>3 DEF p
<1>5. CASE at = "rollback" /\ j.previous = None
  <2>1. target = NoBundle
    BY <1>5 DEF Aim, Recalls, Snapshot
  <2>2. \A P : Confined(x, f, t, P)
    BY <2>1, NothingConfines
  <2> QED
    BY <2>2, <1>2, <1>5
<1>6. CASE at = "rollback" /\ j.previous # None
  <2> DEFINE p == j.previous
  <2>1. Stems(target, p) /\ p \in {j.previous, j.candidate} /\ p \in {p}
    BY <1>1, <1>6, SnapshotStems DEF Aim, Recalls
  <2>2. Exactly(x, target, f, t)
    OBVIOUS
  <2> HIDE DEF target, p
  <2>3. (\A P : p \in P => Confined(x, f, t, P)) /\ Hooked(x, p, t)
    BY <2>1, <2>2, ExactConfines
  <2> QED
    BY <1>6, <2>1, <2>3 DEF p
<1> QED
  BY <1>3, <1>4, <1>5, <1>6

LEMMA Reached ==
  ASSUME NEW j, IsJournal(j), NEW past, Recalls(j, past), NEW at \in {"apply", "rollback"}, NEW k, AllExact(k, Aim(j, at))
  PROVE  /\ at = "apply" => Quiet(k, IF j.disabled THEN None ELSE j.candidate)
         /\ at = "rollback" => Quiet(k, j.previous)
<1>1. ASSUME NEW f \in Families, NEW t \in Table
      PROVE  /\ at = "apply" => LET p == IF j.disabled THEN None ELSE j.candidate IN
                                  Confined(k[f][t], f, t, {p}) /\ Hooked(k[f][t], p, t)
             /\ at = "rollback" => Confined(k[f][t], f, t, {j.previous}) /\ Hooked(k[f][t], j.previous, t)
  <2> DEFINE x == k[f][t]
  <2>1. Exactly(x, Aim(j, at), f, t)
    BY DEF AllExact
  <2> HIDE DEF x
  <2>2. /\ Confined(x, f, t, {j.previous, j.candidate})
        /\ at = "apply" => LET p == IF j.disabled THEN None ELSE j.candidate IN Confined(x, f, t, {p}) /\ Hooked(x, p, t)
        /\ at = "rollback" => Confined(x, f, t, {j.previous}) /\ Hooked(x, j.previous, t)
    BY <2>1, AimConfines
  <2> QED
    BY <2>2 DEF x
<1> QED
  BY <1>1 DEF Quiet, AllConfined, AllHooked

LEMMA AllDone ==
  ASSUME NEW j, NEW at, NEW k, InHand(<<>>, j, at, k)
  PROVE  AllExact(k, Aim(j, at))
<1>1. DOMAIN <<>> = {}
  OBVIOUS
<1>2. \A f, t : ~Pending(<<>>, f, t)
  BY <1>1 DEF Pending
<1> QED
  BY <1>2 DEF InHand, Settled, AllExact

LEMMA OwnInit == Init => OwnInv
<1> SUFFICES ASSUME Init PROVE OwnInv
  OBVIOUS
<1>1. /\ kernel = WithDocker(Empty) /\ current = None /\ journal = NoJournal /\ pc = "idle"
  BY DEF Init
<1>2. AllSameOwn(WithDocker(Empty), Empty)
  BY EmptyIs, DockerOwn
<1>3. AllAnchored(kernel) /\ Quiet(kernel, current)
  <2> DEFINE j == WithDocker(Empty)
             k == Empty
  <2>1. AllAnchored(k) /\ AllConfined(k, {None}) /\ AllHooked(k, None)
    BY EmptyOwn
  <2>2. AllSameOwn(j, k)
    BY <1>2
  <2> HIDE DEF j, k
  <2>3. AllAnchored(j) /\ AllConfined(j, {None}) /\ AllHooked(j, None)
    <3>1. /\ AllAnchored(k) => AllAnchored(j)
          /\ \A P : AllConfined(k, P) => AllConfined(j, P)
          /\ \A p \in Policy \cup {None} : AllHooked(k, p) => AllHooked(j, p)
      BY <2>2, OwnKept
    <3> QED
      BY <2>1, <3>1
  <2> QED
    BY <1>1, <2>3 DEF Quiet, j
<1> QED
  BY <1>1, <1>3 DEF OwnInv

LEMMA OwnApply ==
  ASSUME IptInv, OwnInv, IptInv', NEW p \in Policy, NEW disabled \in BOOLEAN, Apply(p, disabled)
  PROVE  OwnInv'
<1>1. /\ pc = "idle" /\ journal = NoJournal
      /\ journal' = [previous |-> current, candidate |-> p, disabled |-> disabled,
                     snapshot |-> Snapshot(current, kernel), handed |-> FALSE]
      /\ batch' = Prepare(IF disabled THEN NoBundle ELSE Bundle(p), Bundles({current, p}), kernel)
      /\ pc' = "apply" /\ found' = kernel /\ kernel' = kernel
  BY DEF Apply
<1>2. /\ journal'.previous = current /\ journal'.candidate = p /\ journal'.disabled = disabled
      /\ journal'.snapshot = Snapshot(current, kernel) /\ ~journal'.handed
  BY <1>1
<1>3. IsJournal(journal') /\ journal' # NoJournal
  <2>1. IsJournal(journal')
    BY <1>1 DEF IptInv
  <2> QED
    BY <2>1, Apart
<1>4. IsKernel(kernel) /\ AllAnchored(kernel) /\ AllConfined(kernel, {current}) /\ AllHooked(kernel, current)
      /\ current \in Policy \cup {None}
  BY <1>1 DEF IptInv, OwnInv, Quiet
<1>5. Between(kernel, journal')
  <2>1. AllConfined(kernel, {current, p})
    BY <1>4 DEF AllConfined, Confined
  <2> QED
    BY <1>2, <2>1 DEF Between
<1>6. Recalls(journal', found')
  <2>1. AllExact(kernel, Snapshot(current, kernel))
    BY <1>4, FoundExact
  <2> QED
    BY <1>1, <1>2, <1>4, <2>1 DEF Recalls
<1>7. InHand(batch', journal', pc', kernel')
  <2>1. Aim(journal', "apply") = (IF disabled THEN NoBundle ELSE Bundle(p)) /\ Sides(journal', "apply") = Bundles({current, p})
    BY <1>2 DEF Aim, Sides
  <2> DEFINE j == journal'
             target == Aim(j, "apply")
             union == Sides(j, "apply")
  <2>2. batch' = Prepare(target, union, kernel)
    BY <1>1, <2>1
  <2>3. InHand(Prepare(target, union, kernel), j, "apply", kernel)
    <3>1. IsJournal(j) /\ Between(kernel, j)
      BY <1>3, <1>5
    <3> HIDE DEF j
    <3> QED
      BY <1>4, <3>1, Starts
  <2> QED
    BY <1>1, <2>2, <2>3
<1> QED
  BY <1>1, <1>2, <1>3, <1>4, <1>5, <1>6, <1>7 DEF OwnInv, Delivered

LEMMA OwnRollback ==
  ASSUME IptInv, OwnInv, Rollback
  PROVE  OwnInv'
<1>1. /\ journal # NoJournal /\ pc' = "rollback" /\ kernel' = kernel /\ found' = found
      /\ journal' = [journal EXCEPT !.handed = FALSE]
      /\ batch' = Prepare(journal.snapshot,
                          Bundles({journal.previous, journal.candidate}) \cup {journal.snapshot}, kernel)
  BY DEF Rollback
<1>2. IsJournal(journal) /\ IsKernel(kernel)
  BY <1>1 DEF IptInv
<1>3. IsJournal(journal') /\ journal' # NoJournal /\ ~journal'.handed
  <2>1. IsJournal(journal')
    BY <1>1, <1>2, MarkKeeps
  <2>2. ~journal'.handed
    <3>1. journal = [previous |-> journal.previous, candidate |-> journal.candidate, disabled |-> journal.disabled,
                     snapshot |-> journal.snapshot, handed |-> journal.handed]
      BY <1>2 DEF IsJournal
    <3> QED
      BY <1>1, <3>1
  <2> QED
    BY <2>1, <2>2, Apart
<1>4. AllAnchored(kernel) /\ Between(kernel, journal) /\ Recalls(journal, found)
  BY <1>1 DEF OwnInv
<1>5. /\ Aim(journal', "rollback") = Aim(journal, "rollback") /\ Sides(journal', "rollback") = Sides(journal, "rollback")
      /\ Between(kernel, journal') /\ Recalls(journal', found)
  <2>1. /\ \A at : Aim(journal', at) = Aim(journal, at) /\ Sides(journal', at) = Sides(journal, at)
        /\ \A k : (Between(k, journal) => Between(k, journal')) /\ (Recalls(journal, k) => Recalls(journal', k))
    BY <1>1, <1>2, MarkSame
  <2> QED
    BY <2>1, <1>4
<1>6. InHand(batch', journal', "rollback", kernel)
  <2>1. batch' = Prepare(Aim(journal', "rollback"), Sides(journal', "rollback"), kernel)
    BY <1>1, <1>5 DEF Aim, Sides
  <2> DEFINE j == journal'
  <2>2. IsJournal(j) /\ Between(kernel, j)
    BY <1>3, <1>5
  <2>3. batch' = Prepare(Aim(j, "rollback"), Sides(j, "rollback"), kernel)
    BY <2>1
  <2> HIDE DEF j
  <2>4. InHand(batch', j, "rollback", kernel)
    BY <1>2, <1>4, <2>2, <2>3, Starts
  <2> QED
    BY <2>4 DEF j
<1> QED
  BY <1>1, <1>3, <1>4, <1>5, <1>6 DEF OwnInv, Delivered

\* What an accepted commit makes of the suite's part.
LEMMA OwnCommitted ==
  ASSUME IptInv, OwnInv, pc \in {"apply", "rollback"}, batch # <<>>, Outcome # None
  PROVE  AllAnchored(Changed) /\ InHand(Tail(batch), journal, pc, Changed) /\ Between(Changed, journal)
<1> DEFINE target == Aim(journal, pc)
           union == Sides(journal, pc)
           y == Outcome
           j == Changed
<1>1. IsJournal(journal) /\ Recalls(journal, found) /\ Between(kernel, journal)
  BY DEF IptInv, OwnInv
<1>2. IsBundle(target) /\ AreBundles(union)
  BY <1>1, Sided
<1>3. \A f \in Families : \A t \in Table : Covered(kernel[f][t], target, union, f, t)
  BY <1>1, BetweenCovered
<1>4. /\ y = Run(Head(batch).commands, kernel[Head(batch).family][Head(batch).table])
      /\ j = With(kernel, Head(batch).family, Head(batch).table, y) /\ y # None
  BY DEF Outcome, Changed, With
<1>5. /\ IsKernel(kernel) /\ IsBatch(batch, target, union, kernel, fresh) /\ AllAnchored(kernel)
      /\ AllPrepared(batch, target, union, kernel) /\ Settled(batch, target, kernel)
  BY SMTT(60) DEF IptInv, OwnInv, InHand
<1> HIDE DEF target, union, y, j
<1>6. /\ AllPrepared(Tail(batch), target, union, j) /\ Settled(Tail(batch), target, j) /\ AllAnchored(j)
      /\ \A f \in Families : \A t \in Table : j[f][t] = kernel[f][t] \/ Exactly(j[f][t], target, f, t)
  BY ONLY batch # <<>>, <1>2, <1>3, <1>4, <1>5, CommitExact
<1>7. ASSUME NEW f \in Families, NEW t \in Table
      PROVE  Confined(j[f][t], f, t, {journal.previous, journal.candidate})
  <2>1. Confined(kernel[f][t], f, t, {journal.previous, journal.candidate})
    BY <1>1 DEF Between, AllConfined
  <2>2. CASE Exactly(j[f][t], target, f, t)
    <3> DEFINE x == j[f][t]
    <3>1. Exactly(x, Aim(journal, pc), f, t)
      BY <2>2 DEF target
    <3> HIDE DEF x
    <3>2. /\ Confined(x, f, t, {journal.previous, journal.candidate})
          /\ pc = "apply" => LET p == IF journal.disabled THEN None ELSE journal.candidate IN
                               Confined(x, f, t, {p}) /\ Hooked(x, p, t)
          /\ pc = "rollback" => Confined(x, f, t, {journal.previous}) /\ Hooked(x, journal.previous, t)
      BY <1>1, <3>1, AimConfines
    <3> QED
      BY <3>2 DEF x
  <2> QED
    BY <2>1, <2>2, <1>6
<1>8. Between(j, journal)
  BY <1>7 DEF Between, AllConfined
<1> QED
  BY <1>6, <1>8 DEF InHand, target, union, j

LEMMA OwnCommits ==
  ASSUME IptInv, OwnInv, Commit \/ CommitFails
  PROVE  OwnInv'
<1>1. CASE Commit
  <2>1. /\ pc \in {"apply", "rollback"} /\ batch # <<>> /\ Outcome # None /\ kernel' = Changed /\ batch' = Tail(batch)
        /\ UNCHANGED <<current, journal, pc, found>>
    BY <1>1 DEF Commit
  <2>2. AllAnchored(Changed) /\ InHand(Tail(batch), journal, pc, Changed) /\ Between(Changed, journal)
    BY <2>1, OwnCommitted
  <2>3. journal # NoJournal /\ Recalls(journal, found) /\ ~journal.handed
    BY <2>1 DEF OwnInv, Delivered
  <2> QED
    BY <2>1, <2>2, <2>3 DEF OwnInv, Delivered
<1>2. CASE CommitFails
  <2>1. /\ pc \in {"apply", "rollback"} /\ batch # <<>> /\ pc' \in {"recover", "idle"}
        /\ kernel' = kernel \/ (Outcome # None /\ kernel' = Changed)
        /\ UNCHANGED <<current, journal, found>>
    BY <1>2 DEF CommitFails
  <2>2. journal # NoJournal /\ Recalls(journal, found) /\ ~journal.handed
    BY <2>1 DEF OwnInv, Delivered
  <2>3. AllAnchored(kernel') /\ Between(kernel', journal)
    BY <2>1, <2>2, OwnCommitted DEF OwnInv
  <2> QED
    BY <2>1, <2>2, <2>3 DEF OwnInv, Delivered
<1> QED
  BY <1>1, <1>2

LEMMA OwnOther ==
  ASSUME IptInv, OwnInv, Applied \/ RolledBack \/ Confirm \/ ConfirmStops \/ Killed
  PROVE  OwnInv'
<1>1. CASE Applied
  <2>1. /\ pc = "apply" /\ batch = <<>> /\ pc' = "idle" /\ journal' = [journal EXCEPT !.handed = TRUE]
        /\ kernel' = kernel /\ found' = found
    BY <1>1 DEF Applied
  <2>2. /\ IsJournal(journal) /\ AllAnchored(kernel) /\ Between(kernel, journal) /\ Recalls(journal, found)
        /\ InHand(<<>>, journal, "apply", kernel)
    BY <2>1 DEF IptInv, OwnInv
  <2>3. IsJournal(journal') /\ journal' # NoJournal
    <3>1. IsJournal(journal')
      BY <2>1, <2>2, MarkKeeps
    <3> QED
      BY <3>1, Apart
  <2>4. /\ Aim(journal', "apply") = Aim(journal, "apply")
        /\ Between(kernel, journal') /\ Recalls(journal', found)
    <3>1. /\ \A at : Aim(journal', at) = Aim(journal, at) /\ Sides(journal', at) = Sides(journal, at)
          /\ \A k : (Between(k, journal) => Between(k, journal')) /\ (Recalls(journal, k) => Recalls(journal', k))
      BY <2>1, <2>2, MarkSame
    <3> QED
      BY <3>1, <2>2
  <2>5. AllExact(kernel, Aim(journal, "apply"))
    BY <2>2, AllDone
  <2> QED
    BY <2>1, <2>2, <2>3, <2>4, <2>5 DEF OwnInv, Delivered
<1>2. CASE RolledBack
  <2>1. /\ pc = "rollback" /\ batch = <<>> /\ pc' = "idle" /\ journal' = NoJournal /\ current' = journal.previous
        /\ kernel' = kernel
    BY <1>2 DEF RolledBack
  <2>2. /\ IsJournal(journal) /\ AllAnchored(kernel) /\ Recalls(journal, found)
        /\ InHand(<<>>, journal, "rollback", kernel)
    BY <2>1 DEF IptInv, OwnInv
  <2>3. Quiet(kernel, journal.previous)
    <3>1. AllExact(kernel, Aim(journal, "rollback"))
      BY <2>2, AllDone
    <3>2. /\ "rollback" = "apply" => Quiet(kernel, IF journal.disabled THEN None ELSE journal.candidate)
          /\ "rollback" = "rollback" => Quiet(kernel, journal.previous)
      BY <2>2, <3>1, Reached
    <3> QED
      BY <3>2
  <2> QED
    BY <2>1, <2>2, <2>3 DEF OwnInv
<1>3. CASE Confirm
  <2>1. /\ pc = "idle" /\ journal # NoJournal /\ journal' = NoJournal /\ journal.handed
        /\ current' = (IF journal.disabled THEN None ELSE journal.candidate) /\ kernel' = kernel /\ pc' = pc
    BY <1>3 DEF Confirm
  <2>2. /\ IsJournal(journal) /\ AllAnchored(kernel) /\ Recalls(journal, found)
        /\ AllExact(kernel, Aim(journal, "apply"))
    BY <2>1 DEF IptInv, OwnInv, Delivered
  <2>3. Quiet(kernel, IF journal.disabled THEN None ELSE journal.candidate)
    <3>1. /\ "apply" = "apply" => Quiet(kernel, IF journal.disabled THEN None ELSE journal.candidate)
          /\ "apply" = "rollback" => Quiet(kernel, journal.previous)
      BY <2>2, Reached
    <3> QED
      BY <3>1
  <2> QED
    BY <2>1, <2>2, <2>3 DEF OwnInv
<1>4. CASE ConfirmStops
  <2>1. /\ pc = "idle" /\ journal # NoJournal /\ UNCHANGED <<kernel, journal, pc, batch, found>>
    BY <1>4 DEF ConfirmStops
  <2> QED
    BY <2>1 DEF OwnInv
<1>5. CASE Killed
  <2>1. pc # "idle" /\ pc' = "idle" /\ UNCHANGED <<kernel, current, journal, found>>
    BY <1>5 DEF Killed
  <2>2. journal # NoJournal /\ ~journal.handed
    BY <2>1 DEF OwnInv, Delivered
  <2> QED
    BY <2>1, <2>2 DEF OwnInv, Delivered
<1> QED
  BY <1>1, <1>2, <1>3, <1>4, <1>5

\* Others do nothing to the suite's part.
LEMMA OwnUndisturbed ==
  ASSUME IptInv, OwnInv, AllSameOwn(kernel', kernel), UNCHANGED <<current, journal, pc, batch, found>>
  PROVE  OwnInv'
<1> DEFINE k == kernel
           j == kernel'
<1>1. AllSameOwn(j, k)
  OBVIOUS
<1>2. current \in Policy \cup {None}
  BY DEF IptInv
<1>3. /\ AllAnchored(k) => AllAnchored(j)
      /\ \A P : AllConfined(k, P) => AllConfined(j, P)
      /\ \A p \in Policy \cup {None} : AllHooked(k, p) => AllHooked(j, p)
      /\ \A target : IsBundle(target) => (AllExact(k, target) => AllExact(j, target))
      /\ \A b, target : IsBundle(target) => (Settled(b, target, k) => Settled(b, target, j))
      /\ \A b, target, union : AllPrepared(b, target, union, k) => AllPrepared(b, target, union, j)
  <2> HIDE DEF j, k
  <2> QED
    BY <1>1, OwnKept
<1>4. AllAnchored(j)
  BY <1>3 DEF OwnInv
<1>5. journal = NoJournal => Quiet(j, current)
  BY <1>2, <1>3 DEF OwnInv, Quiet
<1>6. journal # NoJournal => Between(j, journal)
  BY <1>3 DEF OwnInv, Between
<1>7. journal # NoJournal => Delivered(journal, pc, j)
  <2> SUFFICES ASSUME journal # NoJournal, journal.handed PROVE pc = "idle" /\ AllExact(j, Aim(journal, "apply"))
    BY DEF Delivered
  <2>1. pc = "idle" /\ AllExact(k, Aim(journal, "apply"))
    BY DEF OwnInv, Delivered
  <2>2. IsBundle(Aim(journal, "apply"))
    <3>1. IsJournal(journal)
      BY DEF IptInv
    <3> QED
      BY <3>1, Sided
  <2> QED
    BY <2>1, <2>2, <1>3
<1>8. pc \in {"apply", "rollback"} => InHand(batch, journal, pc, j)
  <2> SUFFICES ASSUME pc \in {"apply", "rollback"} PROVE InHand(batch, journal, pc, j)
    OBVIOUS
  <2>1. IsBundle(Aim(journal, pc))
    <3>1. IsJournal(journal)
      BY DEF IptInv
    <3> QED
      BY <3>1, Sided
  <2>2. Settled(batch, Aim(journal, pc), k) /\ AllPrepared(batch, Aim(journal, pc), Sides(journal, pc), k)
    BY DEF OwnInv, InHand
  <2> QED
    BY <2>1, <2>2, <1>3 DEF InHand
<1>9. UNCHANGED <<current, journal, pc, batch, found>>
  OBVIOUS
<1> QED
  BY <1>4, <1>5, <1>6, <1>7, <1>8, <1>9 DEF OwnInv

LEMMA OwnForeign ==
  ASSUME IptInv, OwnInv, Foreign
  PROVE  OwnInv'
<1>0. IsKernel(kernel) /\ current \in Policy \cup {None}
  BY DEF IptInv
<1>1. ASSUME NEW kind, Disturb(kind) PROVE UNCHANGED <<current, found>>
  BY <1>1 DEF Disturb
<1>2. ASSUME NEW s \in Spots PROVE s.family \in Families /\ s.table \in Table /\ s.chain \notin SuiteChain
  BY IptAssumption DEF Families
<1>3. ASSUME NEW r \in ForeignRule PROVE ~IsHook(r)
  BY IptAssumption
<1>4. ASSUME NEW s \in Spots, NEW r \in ForeignRule, ForeignRemoves(s, r) PROVE OwnInv'
  <2> DEFINE f == s.family
             t == s.table
             c == s.chain
             new == RemoveFirst(kernel[f][t][c], r)
  <2>1. /\ Disturb("remove") /\ c \in DOMAIN kernel[f][t] /\ Count(kernel[f][t][c], r) > 0
        /\ kernel' = [kernel EXCEPT ![f][t][c] = new]
        /\ UNCHANGED <<journal, pc, batch>>
    BY <1>4 DEF ForeignRemoves
  <2>2. f \in Families /\ t \in Table /\ c \notin SuiteChain
    BY <1>2
  <2> HIDE DEF f, t, c
  <2>3. IsKernel(kernel') /\ \A g \in Families : \A u \in Table : SameHooks(kernel'[g][u], kernel[g][u])
    BY <1>0, <1>3, <2>1, <2>2, ForeignStep
  <2> HIDE DEF new
  <2>4. AllSameOwn(kernel', kernel)
    BY <1>0, <2>1, <2>2, <2>3, ForeignOwn
  <2> QED
    BY <1>1, <2>1, <2>4, OwnUndisturbed
<1>5. ASSUME NEW s \in Spots, NEW r \in ForeignRule, NEW front \in BOOLEAN, ForeignInserts(s, r, front) PROVE OwnInv'
  <2> DEFINE f == s.family
             t == s.table
             c == s.chain
             new == IF front THEN <<r>> \o kernel[f][t][c] ELSE kernel[f][t][c] \o <<r>>
  <2>1. /\ \E kind : Disturb(kind)
        /\ c \in DOMAIN kernel[f][t]
        /\ kernel' = [kernel EXCEPT ![f][t][c] = new]
        /\ UNCHANGED <<journal, pc, batch>>
    BY <1>5 DEF ForeignInserts
  <2>2. f \in Families /\ t \in Table /\ c \notin SuiteChain
    BY <1>2, SMTT(60)
  <2>3. new = <<r>> \o kernel[f][t][c] \/ new = kernel[f][t][c] \o <<r>>
    BY ZenonT(60)
  <2> HIDE DEF f, t, c, new
  <2>4. IsKernel(kernel') /\ \A g \in Families : \A u \in Table : SameHooks(kernel'[g][u], kernel[g][u])
    BY <1>0, <1>3, <2>1, <2>2, <2>3, ForeignStep
  <2>5. AllSameOwn(kernel', kernel)
    BY <1>0, <2>1, <2>2, <2>4, ForeignOwn
  <2> QED
    BY <1>1, <2>1, <2>5, OwnUndisturbed
<1>6. ASSUME Reboot PROVE OwnInv'
  <2>1. /\ Disturb("reboot") /\ pc' = "idle" /\ kernel' = Empty
        /\ journal' = IF journal = NoJournal THEN NoJournal ELSE [journal EXCEPT !.handed = FALSE]
    BY <1>6 DEF Reboot
  <2>2. current' = current /\ found' = found
    BY <1>1, <2>1
  <2>3. AllAnchored(kernel') /\ (\A P : AllConfined(kernel', P)) /\ \A p \in Policy \cup {None} : AllHooked(kernel', p)
    BY <2>1, EmptyOwn
  <2>4. CASE journal = NoJournal
    BY <2>1, <2>2, <2>3, <2>4, <1>0 DEF OwnInv, Quiet
  <2>5. CASE journal # NoJournal
    <3>1. journal' = [journal EXCEPT !.handed = FALSE] /\ IsJournal(journal) /\ Recalls(journal, found)
      BY <2>1, <2>5 DEF IptInv, OwnInv
    <3>2. Recalls(journal', found)
      <4>1. /\ \A at : Aim(journal', at) = Aim(journal, at) /\ Sides(journal', at) = Sides(journal, at)
            /\ \A k : (Between(k, journal) => Between(k, journal')) /\ (Recalls(journal, k) => Recalls(journal', k))
        BY <3>1, MarkSame
      <4> QED
        BY <3>1, <4>1
    <3>3. ~journal'.handed
      <4>1. journal = [previous |-> journal.previous, candidate |-> journal.candidate, disabled |-> journal.disabled,
                       snapshot |-> journal.snapshot, handed |-> journal.handed]
        BY <3>1 DEF IsJournal
      <4> QED
        BY <3>1, <4>1
    <3>4. journal' # NoJournal
      <4>1. IsJournal(journal')
        BY <3>1, MarkKeeps
      <4> QED
        BY <4>1, Apart
    <3> QED
      BY <2>1, <2>2, <2>3, <3>2, <3>3, <3>4 DEF OwnInv, Delivered, Between
  <2> QED
    BY <2>4, <2>5
<1>7. ASSUME DockerStarts PROVE OwnInv'
  <2>1. Disturb("docker") /\ kernel' = WithDocker(kernel) /\ UNCHANGED <<journal, pc, batch>>
    BY <1>7 DEF DockerStarts
  <2>2. AllSameOwn(kernel', kernel)
    BY <1>0, <2>1, DockerOwn
  <2> QED
    BY <1>1, <2>1, <2>2, OwnUndisturbed
<1> QED
  BY <1>4, <1>5, <1>6, <1>7 DEF Foreign

LEMMA OwnNext ==
  ASSUME IptInv, OwnInv, Next
  PROVE  OwnInv'
<1>0. IptInv'
  BY InvNext
<1>1. CASE \E p \in Policy, disabled \in BOOLEAN : Apply(p, disabled)
  BY <1>0, <1>1, OwnApply
<1>2. CASE Commit \/ CommitFails
  BY <1>2, OwnCommits
<1>3. CASE Rollback
  BY <1>3, OwnRollback
<1>4. CASE Applied \/ RolledBack \/ Confirm \/ ConfirmStops \/ Killed
  BY <1>4, OwnOther
<1>5. CASE Foreign
  BY <1>5, OwnForeign
<1> QED
  BY <1>1, <1>2, <1>3, <1>4, <1>5 DEF Next

LEMMA OwnHolds == Spec => [](IptInv /\ OwnInv)
<1>1. OwnInv /\ UNCHANGED vars => OwnInv'
  BY DEF OwnInv, vars
<1>2. IptInv /\ OwnInv /\ [Next]_vars => OwnInv'
  BY <1>1, OwnNext
<1> QED
  BY <1>2, InvHolds, OwnInit, PTL DEF Spec

\* After the last commit of an application the kernel holds the candidate and nothing
\* else of the suite, whatever mixture the commits started from and whatever others
\* did to their own rules meanwhile (apply_locked; for disabled, nothing of it).
THEOREM IptExactSafe == Spec => []Exact
<1>1. ASSUME IptInv, OwnInv PROVE Exact
  <2> SUFFICES ASSUME pc = "apply", batch = <<>>
               PROVE  Own(kernel) = IF journal.disabled THEN NothingOwn ELSE OwnOf(journal.candidate)
    BY DEF Exact
  <2>1. IsKernel(kernel) /\ journal.candidate \in Policy /\ InHand(<<>>, journal, "apply", kernel)
    BY <1>1 DEF IptInv, IsJournal, OwnInv
  <2>2. AllExact(kernel, IF journal.disabled THEN NoBundle ELSE Bundle(journal.candidate))
    BY <2>1, AllDone DEF Aim
  <2>3. /\ AllExact(kernel, NoBundle) => Own(kernel) = NothingOwn
        /\ \A p \in Policy : AllExact(kernel, Bundle(p)) => Own(kernel) = OwnOf(p)
    BY <2>1, OwnOfIs
  <2> QED
    BY <2>1, <2>2, <2>3
<1> QED
  BY <1>1, OwnHolds, PTL

\* A recovery that ends, begun at any point and however often, leaves the suite's part
\* of the kernel as the transaction found it, also when a boot came between
\* (rollback_locked).
THEOREM IptRestoredSafe == Spec => Restored
<1>1. ASSUME IptInv, OwnInv, RolledBack PROVE Own(kernel) = Own(found)
  <2>1. pc = "rollback" /\ batch = <<>>
    BY <1>1 DEF RolledBack
  <2>2. /\ IsKernel(kernel) /\ IsJournal(journal) /\ Recalls(journal, found)
        /\ InHand(<<>>, journal, "rollback", kernel)
    BY <1>1, <2>1 DEF IptInv, OwnInv
  <2>3. AllExact(kernel, journal.snapshot)
    BY <2>2, AllDone DEF Aim
  <2>4. IsKernel(found) /\ AllExact(found, journal.snapshot) /\ IsBundle(journal.snapshot)
    BY <2>2 DEF Recalls, IsJournal
  <2> QED
    BY <2>2, <2>3, <2>4, OwnEqual
<1>2. IptInv /\ OwnInv /\ [Next]_vars => [RolledBack => Own(kernel) = Own(found)]_vars
  BY <1>1
<1> QED
  BY <1>2, OwnHolds, PTL DEF Spec, Restored
==============================================================================
