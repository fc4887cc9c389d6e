--------------------------- MODULE Dialogs_proofs ---------------------------
(***************************************************************************)
(* What the dialogs change on the screen, one line or character at a time, *)
(* is what they would draw anew: for any list, any text and any size of    *)
(* the terminal.                                                           *)
(*                                                                         *)
(* A lemma about an operation names its result (p = Op(d) => ...), so that *)
(* the steps that cite it speak of p.                                      *)
(***************************************************************************)
EXTENDS Dialogs, SequenceTheorems, FiniteSetTheorems, WellFoundedInduction, TLAPS

-----------------------------------------------------------------------------
(* Sequences and numbers.                                                  *)

\* Every set of numbers has a least one.
LEMMA LeastNumber ==
    ASSUME NEW T \in SUBSET Nat, T # {}
    PROVE  \E m \in T : \A i \in T : m <= i
<1> DEFINE Below == {0..i : i \in T}
           Finite == FiniteSubsetsOf(Nat)
           Smaller2 == StrictSubsetOrdering(Nat)
<1>1. Below \subseteq Finite
  <2> SUFFICES ASSUME NEW i \in T PROVE 0..i \in Finite
    OBVIOUS
  <2>1. IsFiniteSet(0..i)
    BY FS_Interval
  <2> QED BY <2>1 DEF FiniteSubsetsOf
<1>2. Below # {}
  OBVIOUS
<1>3. IsWellFoundedOn(Smaller2, Finite)
  BY FS_StrictSubsetOrderingWellFounded
<1> HIDE DEF Finite, Smaller2
<1>4. PICK U \in Below : \A V \in Below : ~(<<V, U>> \in Smaller2)
  BY <1>1, <1>2, <1>3, WFMin
<1>5. PICK m \in T : U = 0..m
  OBVIOUS
<1>6. ASSUME NEW i \in T, ~(m <= i) PROVE FALSE
  <2>1. 0..i \in Below
    OBVIOUS
  <2>2. 0..i \subseteq 0..m /\ 0..i # 0..m
    <3>1. m \in 0..m /\ m \notin 0..i
      BY <1>6
    <3>2. 0..i \subseteq 0..m
      BY <1>6
    <3> QED BY <3>1, <3>2
  <2>3. <<0..i, 0..m>> \in Smaller2
    BY <2>2 DEF Smaller2, StrictSubsetOrdering
  <2> QED BY <1>4, <1>5, <2>1, <2>3
<1> QED BY <1>6

\* Induction up to n, for a set.
LEMMA Climb ==
    ASSUME NEW n \in Nat, NEW S, 0 \in S, \A i \in 0..(n - 1) : i \in S => i + 1 \in S
    PROVE  n \in S
<1> DEFINE T == {i \in 0..n : i \notin S}
<1> SUFFICES ASSUME n \notin S PROVE FALSE
  OBVIOUS
<1>1. T \in SUBSET Nat /\ T # {}
  BY SMT
<1>2. PICK m \in T : \A i \in T : m <= i
  <2> HIDE DEF T
  <2> QED BY <1>1, LeastNumber
<1>3. m \in 1..n /\ m - 1 \in 0..(n - 1) /\ m - 1 \notin T
  BY <1>2
<1>4. m - 1 \in S
  BY <1>3
<1> QED BY <1>2, <1>3, <1>4

\* A step that maps D into D can be repeated.
LEMMA Iterates ==
    ASSUME NEW D, NEW g \in [D -> D], NEW d \in D
    PROVE  \E f \in [Nat -> D] : f = [i \in Nat |-> IF i = 0 THEN d ELSE g[f[i - 1]]]
<1> DEFINE Part(p, n) == p \in [0..n -> D] /\ p[0] = d /\ \A i \in 1..n : p[i] = g[p[i - 1]]
           S == {n \in Nat : \E p : Part(p, n)}
<1>1. \A n \in Nat : n \in S
  <2> SUFFICES ASSUME NEW n \in Nat PROVE n \in S
    OBVIOUS
  <2>1. 0 \in S
    <3>1. Part([i \in 0..0 |-> d], 0)
      OBVIOUS
    <3> QED BY <3>1
  <2>2. ASSUME NEW i \in 0..(n - 1), i \in S PROVE i + 1 \in S
    <3>1. PICK p : Part(p, i)
      BY <2>2
    <3> DEFINE q == [j \in 0..(i + 1) |-> IF j = i + 1 THEN g[p[i]] ELSE p[j]]
    <3>2. q \in [0..(i + 1) -> D]
      BY <3>1
    <3>3. q[0] = d
      BY <3>1
    <3>4. ASSUME NEW j \in 1..(i + 1) PROVE q[j] = g[q[j - 1]]
      BY <3>1
    <3>5. Part(q, i + 1)
      BY <3>2, <3>3, <3>4
    <3>6. i + 1 \in Nat /\ \E r : Part(r, i + 1)
      <4> HIDE DEF Part, q
      <4> QED BY <3>5
    <3> HIDE DEF Part
    <3> QED BY <3>6
  <2> HIDE DEF S
  <2> QED BY <2>1, <2>2, Climb
<1>2. ASSUME NEW n \in Nat, NEW m \in Nat, n <= m, NEW p, NEW q, Part(p, n), Part(q, m)
      PROVE  p[n] = q[n]
  <2> DEFINE E == {i \in Nat : i <= n => p[i] = q[i]}
  <2>1. 0 \in E
    BY <1>2
  <2>2. ASSUME NEW i \in 0..(n - 1), i \in E PROVE i + 1 \in E
    BY <1>2, <2>2
  <2>3. n \in E
    <3> HIDE DEF E
    <3> QED BY <2>1, <2>2, Climb
  <2> QED BY <2>3
<1> DEFINE P(n) == CHOOSE p : Part(p, n)
           f == [n \in Nat |-> P(n)[n]]
<1>3. ASSUME NEW n \in Nat PROVE Part(P(n), n)
  <2>1. \E p : Part(p, n)
    BY <1>1
  <2> HIDE DEF Part
  <2> QED BY <2>1
<1>4. f \in [Nat -> D]
  <2> HIDE DEF P
  <2> QED BY <1>3
<1>5. f[0] = d
  <2> HIDE DEF P
  <2> QED BY <1>3
<1>6. ASSUME NEW n \in Nat \ {0} PROVE f[n] = g[f[n - 1]]
  <2>1. n - 1 \in Nat
    OBVIOUS
  <2>2. Part(P(n), n) /\ Part(P(n - 1), n - 1)
    <3> HIDE DEF P, Part
    <3> QED BY <1>3, <2>1
  <2>3. P(n - 1)[n - 1] = P(n)[n - 1]
    <3>1. n - 1 <= n
      OBVIOUS
    <3> HIDE DEF P, Part
    <3> QED BY <1>2, <2>1, <2>2, <3>1
  <2>4. P(n)[n] = g[P(n)[n - 1]]
    <3> HIDE DEF P
    <3> QED BY <2>2
  <2> HIDE DEF P
  <2> QED BY <2>1, <2>3, <2>4
<1> HIDE DEF f
<1>7. f = [i \in Nat |-> IF i = 0 THEN d ELSE g[f[i - 1]]]
  BY <1>4, <1>5, <1>6
<1> QED BY <1>4, <1>7

-----------------------------------------------------------------------------
(* Operations that are repeated.                                           *)

\* A repeated operation stays in a set that it maps into itself.
LEMMA StaysIn ==
    ASSUME NEW D, NEW f, f = [i \in Nat |-> f[i]], f[0] \in D,
           \A i \in Nat : f[i] \in D => f[i + 1] \in D
    PROVE  f \in [Nat -> D]
<1> SUFFICES ASSUME NEW i \in Nat PROVE f[i] \in D
  OBVIOUS
<1> DEFINE S == {j \in Nat : f[j] \in D}
<1>1. 0 \in S
  OBVIOUS
<1>2. ASSUME NEW j \in 0..(i - 1), j \in S PROVE j + 1 \in S
  <2>1. j \in Nat /\ f[j] \in D
    BY <1>2
  <2>2. f[j + 1] \in D
    BY <2>1
  <2> QED BY <2>1, <2>2
<1> HIDE DEF S
<1>3. i \in S
  BY <1>1, <1>2, Climb
<1> QED BY <1>3 DEF S

\* The lines that PAGEUP goes up stay in such a set.
LEMMA PageUpRepeats ==
    ASSUME NEW D, \A e \in D : PageUpLine(e) \in D, NEW d \in D, NEW n, n \in Int
    PROVE  LinesUp(d, n) \in D
<1> DEFINE g == [e \in D |-> PageUpLine(e)]
           Good(f) == f = [i \in Nat |-> IF i = 0 THEN d ELSE PageUpLine(f[i - 1])]
           after == CHOOSE f : Good(f)
<1>1. PICK r \in [Nat -> D] : r = [i \in Nat |-> IF i = 0 THEN d ELSE g[r[i - 1]]]
  <2>1. g \in [D -> D]
    OBVIOUS
  <2> HIDE DEF g
  <2> QED BY <2>1, Iterates
<1>2. Good(r)
  <2>1. \A i \in Nat : i # 0 => g[r[i - 1]] = PageUpLine(r[i - 1])
    OBVIOUS
  <2> QED BY <1>1, <2>1
<1>3. Good(after)
  <2> HIDE DEF Good
  <2> QED BY <1>2
<1>4. after = [i \in Nat |-> IF i = 0 THEN d ELSE PageUpLine(after[i - 1])]
  <2> HIDE DEF after
  <2> QED BY <1>3
<1>5. LinesUp(d, n) = after[Larger(n, 0)]
  BY DEF LinesUp, Repeat
<1> HIDE DEF after
<1>6. after[0] = d /\ \A i \in Nat : after[i + 1] = PageUpLine(after[i])
  BY <1>4
<1>7. after \in [Nat -> D]
  <2>1. after = [i \in Nat |-> after[i]]
    BY <1>4
  <2>2. \A i \in Nat : after[i] \in D => after[i + 1] \in D
    BY <1>6
  <2> QED BY <1>6, <2>1, <2>2, StaysIn
<1>8. Larger(n, 0) \in Nat
  BY DEF Larger
<1> QED BY <1>5, <1>7, <1>8

\* The lines that PAGEDOWN goes down stay in such a set.
LEMMA PageDownRepeats ==
    ASSUME NEW D, \A e \in D : PageDownLine(e) \in D, NEW d \in D, NEW n, n \in Int
    PROVE  LinesDown(d, n) \in D
<1> DEFINE g == [e \in D |-> PageDownLine(e)]
           Good(f) == f = [i \in Nat |-> IF i = 0 THEN d ELSE PageDownLine(f[i - 1])]
           after == CHOOSE f : Good(f)
<1>1. PICK r \in [Nat -> D] : r = [i \in Nat |-> IF i = 0 THEN d ELSE g[r[i - 1]]]
  <2>1. g \in [D -> D]
    OBVIOUS
  <2> HIDE DEF g
  <2> QED BY <2>1, Iterates
<1>2. Good(r)
  <2>1. \A i \in Nat : i # 0 => g[r[i - 1]] = PageDownLine(r[i - 1])
    OBVIOUS
  <2> QED BY <1>1, <2>1
<1>3. Good(after)
  <2> HIDE DEF Good
  <2> QED BY <1>2
<1>4. after = [i \in Nat |-> IF i = 0 THEN d ELSE PageDownLine(after[i - 1])]
  <2> HIDE DEF after
  <2> QED BY <1>3
<1>5. LinesDown(d, n) = after[Larger(n, 0)]
  BY DEF LinesDown, Repeat
<1> HIDE DEF after
<1>6. after[0] = d /\ \A i \in Nat : after[i + 1] = PageDownLine(after[i])
  BY <1>4
<1>7. after \in [Nat -> D]
  <2>1. after = [i \in Nat |-> after[i]]
    BY <1>4
  <2>2. \A i \in Nat : after[i] \in D => after[i + 1] \in D
    BY <1>6
  <2> QED BY <1>6, <2>1, <2>2, StaysIn
<1>8. Larger(n, 0) \in Nat
  BY DEF Larger
<1> QED BY <1>5, <1>7, <1>8

GetsFrom(D, d, n) ==
    \E f \in [Nat -> D] :
      /\ f[0] = d /\ \A i \in Nat : f[i + 1] = GetLine(f[i])
      /\ GetLines(d, n) = f[Larger(n, 0)]

\* Reading lines is a sequence of states, each one line further.
LEMMA GetLineRepeats ==
    ASSUME NEW D, \A e \in D : GetLine(e) \in D, NEW d \in D, NEW n, n \in Int
    PROVE  GetsFrom(D, d, n)
<1> DEFINE g == [e \in D |-> GetLine(e)]
           Good(f) == f = [i \in Nat |-> IF i = 0 THEN d ELSE GetLine(f[i - 1])]
           after == CHOOSE f : Good(f)
<1>1. PICK r \in [Nat -> D] : r = [i \in Nat |-> IF i = 0 THEN d ELSE g[r[i - 1]]]
  <2>1. g \in [D -> D]
    OBVIOUS
  <2> HIDE DEF g
  <2> QED BY <2>1, Iterates
<1>2. Good(r)
  <2>1. \A i \in Nat : i # 0 => g[r[i - 1]] = GetLine(r[i - 1])
    OBVIOUS
  <2> QED BY <1>1, <2>1
<1>3. Good(after)
  <2> HIDE DEF Good
  <2> QED BY <1>2
<1>4. after = [i \in Nat |-> IF i = 0 THEN d ELSE GetLine(after[i - 1])]
  <2> HIDE DEF after
  <2> QED BY <1>3
<1>5. GetLines(d, n) = after[Larger(n, 0)]
  BY DEF GetLines, Repeat
<1> HIDE DEF after
<1>6. after[0] = d /\ \A i \in Nat : after[i + 1] = GetLine(after[i])
  BY <1>4
<1>7. after \in [Nat -> D]
  <2>1. after = [i \in Nat |-> after[i]]
    BY <1>4
  <2>2. \A i \in Nat : after[i] \in D => after[i + 1] \in D
    BY <1>6
  <2> QED BY <1>6, <2>1, <2>2, StaysIn
<1> QED BY <1>5, <1>6, <1>7 DEF GetsFrom

GoesBackFrom(D, d, n) ==
    \E f \in [Nat -> D] :
      /\ f[0] = d /\ \A i \in Nat : f[i + 1] = LineBack(f[i])
      /\ LinesBack(d, n) = f[Larger(n, 0)]

\* Going back is a sequence of states, each one line back.
LEMMA LineBackRepeats ==
    ASSUME NEW D, \A e \in D : LineBack(e) \in D, NEW d \in D, NEW n, n \in Int
    PROVE  GoesBackFrom(D, d, n)
<1> DEFINE g == [e \in D |-> LineBack(e)]
           Good(f) == f = [i \in Nat |-> IF i = 0 THEN d ELSE LineBack(f[i - 1])]
           after == CHOOSE f : Good(f)
<1>1. PICK r \in [Nat -> D] : r = [i \in Nat |-> IF i = 0 THEN d ELSE g[r[i - 1]]]
  <2>1. g \in [D -> D]
    OBVIOUS
  <2> HIDE DEF g
  <2> QED BY <2>1, Iterates
<1>2. Good(r)
  <2>1. \A i \in Nat : i # 0 => g[r[i - 1]] = LineBack(r[i - 1])
    OBVIOUS
  <2> QED BY <1>1, <2>1
<1>3. Good(after)
  <2> HIDE DEF Good
  <2> QED BY <1>2
<1>4. after = [i \in Nat |-> IF i = 0 THEN d ELSE LineBack(after[i - 1])]
  <2> HIDE DEF after
  <2> QED BY <1>3
<1>5. LinesBack(d, n) = after[Larger(n, 0)]
  BY DEF LinesBack, Repeat
<1> HIDE DEF after
<1>6. after[0] = d /\ \A i \in Nat : after[i + 1] = LineBack(after[i])
  BY <1>4
<1>7. after \in [Nat -> D]
  <2>1. after = [i \in Nat |-> after[i]]
    BY <1>4
  <2>2. \A i \in Nat : after[i] \in D => after[i + 1] \in D
    BY <1>6
  <2> QED BY <1>6, <2>1, <2>2, StaysIn
<1> QED BY <1>5, <1>6, <1>7 DEF GoesBackFrom

PrintsFrom(D, d, n) ==
    \E f \in [Nat -> D] :
      /\ f[0] = d /\ \A i \in Nat : f[i + 1] = PrintLine(f[i])
      /\ PrintLines(d, n) = f[Larger(n, 0)]

\* Printing a page stays in a set that PrintLine maps into itself.
LEMMA PrintLineRepeats ==
    ASSUME NEW D, \A e \in D : PrintLine(e) \in D, NEW d \in D, NEW n, n \in Int
    PROVE  PrintsFrom(D, d, n)
<1> DEFINE g == [e \in D |-> PrintLine(e)]
           Good(f) == f = [i \in Nat |-> IF i = 0 THEN d ELSE PrintLine(f[i - 1])]
           after == CHOOSE f : Good(f)
<1>1. PICK r \in [Nat -> D] : r = [i \in Nat |-> IF i = 0 THEN d ELSE g[r[i - 1]]]
  <2>1. g \in [D -> D]
    OBVIOUS
  <2> HIDE DEF g
  <2> QED BY <2>1, Iterates
<1>2. Good(r)
  <2>1. \A i \in Nat : i # 0 => g[r[i - 1]] = PrintLine(r[i - 1])
    OBVIOUS
  <2> QED BY <1>1, <2>1
<1>3. Good(after)
  <2> HIDE DEF Good
  <2> QED BY <1>2
<1>4. after = [i \in Nat |-> IF i = 0 THEN d ELSE PrintLine(after[i - 1])]
  <2> HIDE DEF after
  <2> QED BY <1>3
<1>5. PrintLines(d, n) = after[Larger(n, 0)]
  BY DEF PrintLines, Repeat
<1> HIDE DEF after
<1>6. after[0] = d /\ \A i \in Nat : after[i + 1] = PrintLine(after[i])
  BY <1>4
<1>7. after \in [Nat -> D]
  <2>1. after = [i \in Nat |-> after[i]]
    BY <1>4
  <2>2. \A i \in Nat : after[i] \in D => after[i + 1] \in D
    BY <1>6
  <2> QED BY <1>6, <2>1, <2>2, StaysIn
<1> QED BY <1>5, <1>6, <1>7 DEF PrintsFrom

-----------------------------------------------------------------------------
(* What a list shows, and what moves it.                                   *)

\* A menu or a list d, and what its keys may change of it.
Moving == {"choice", "scroll", "lines", "lit"}
HasLines(d) ==
    /\ d = [x \in DOMAIN d |-> d[x]] /\ Moving \cup {"items", "max"} \subseteq DOMAIN d
    /\ d.max \in Nat /\ Count(d) \in Nat
Anything(d) == {d[x] : x \in DOMAIN d} \cup Int \cup [0..(d.max - 1) -> Int] \cup SUBSET Int
Lined(d) ==
    {e \in [DOMAIN d -> Anything(d)] :
       /\ e.choice \in Int /\ e.scroll \in Int /\ e.lines \in [0..(d.max - 1) -> Int]
       /\ e.lit \in SUBSET Int
       /\ \A x \in DOMAIN d : x \notin Moving => e[x] = d[x]}

\* What a dialog with a list keeps, and what may change.
LEMMA LinedHas ==
    ASSUME NEW d, HasLines(d), NEW e \in Lined(d)
    PROVE  /\ e = [x \in DOMAIN d |-> e[x]] /\ HasLines(e)
           /\ e.choice \in Int /\ e.scroll \in Int /\ e.lines \in [0..(d.max - 1) -> Int]
           /\ e.lit \in SUBSET Int
           /\ \A x \in DOMAIN d : x \notin Moving => e[x] = d[x]
           /\ e.max = d.max /\ e.items = d.items
<1>1. /\ e = [x \in DOMAIN d |-> e[x]]
      /\ e.choice \in Int /\ e.scroll \in Int /\ e.lines \in [0..(d.max - 1) -> Int]
      /\ e.lit \in SUBSET Int
      /\ \A x \in DOMAIN d : x \notin Moving => e[x] = d[x]
  <2> HIDE DEF Anything
  <2> QED BY DEF Lined
<1>2. e.max = d.max /\ e.items = d.items
  BY <1>1 DEF HasLines, Moving
<1> QED BY <1>1, <1>2 DEF HasLines, Count

\* How to see that only the view of a list has changed.
LEMMA LinedIs ==
    ASSUME NEW d, HasLines(d), NEW e, e = [x \in DOMAIN d |-> e[x]],
           e.choice \in Int, e.scroll \in Int, e.lines \in [0..(d.max - 1) -> Int],
           e.lit \in SUBSET Int,
           \A x \in DOMAIN d : x \notin Moving => e[x] = d[x]
    PROVE  e \in Lined(d)
<1>1. \A x \in DOMAIN d : e[x] \in Anything(d)
  BY DEF Anything, Moving
<1>2. e \in [DOMAIN d -> Anything(d)]
  BY <1>1
<1> HIDE DEF Anything
<1> QED BY <1>2 DEF Lined

\* The lines of an area that is max lines high, with the item scroll on top.
Shows(lines, scroll, max) == \A l \in 0..(max - 1) : lines[l] = scroll + l

Moved(moved, lines, n, max) ==
    \A l \in 0..(max - 1) : l + n \in 0..(max - 1) => moved[l] = lines[l + n]
Put(new, lines, line, item, max) ==
    \A l \in 0..(max - 1) : new[l] = IF l = line THEN item ELSE lines[l]

\* What printing an item, and scrolling, change.
IsPrinted(p, e, item, line, max) ==
    /\ p.choice = e.choice /\ p.scroll = e.scroll
    /\ Put(p.lines, e.lines, line, item, max)
LitOff(p, e, line) == e.lit = {} \/ e.lit = {line} => p.lit = {}
LitOn(p, e, line) == e.lit = {} => p.lit = {line}
IsScrolled(p, e, n, max) ==
    /\ p.choice = e.choice /\ p.scroll = e.scroll + n
    /\ Moved(p.lines, e.lines, n, max)
    /\ e.lit = {} => p.lit = {}

\* PrintItem of a line that is highlighted, and of one that is not.
Lit(e, item, line) == PrintItem(e, item, line, TRUE)
Plain(e, item, line) == PrintItem(e, item, line, FALSE)

\* Printing an item with the highlight changes its line and nothing else.
LEMMA PrintedOn ==
    ASSUME NEW d, HasLines(d), NEW e \in Lined(d), NEW item, item \in Int, NEW line, line \in Int,
           NEW p, p = Lit(e, item, line)
    PROVE  p \in Lined(d) /\ IsPrinted(p, e, item, line, d.max) /\ LitOn(p, e, line)
<1>1. /\ e = [x \in DOMAIN d |-> e[x]] /\ HasLines(e)
      /\ e.choice \in Int /\ e.scroll \in Int /\ e.lines \in [0..(d.max - 1) -> Int]
      /\ e.lit \in SUBSET Int
      /\ \A x \in DOMAIN d : x \notin Moving => e[x] = d[x]
  BY LinedHas
<1> DEFINE lines == [e.lines EXCEPT ![line] = item]
           lit == e.lit \cup {line}
<1>2. p = [e EXCEPT !.lines = lines, !.lit = lit]
  BY <1>1 DEF Lit, PrintItem, HasLines, Moving
<1>3. lines \in [0..(d.max - 1) -> Int] /\ lit \in SUBSET Int
  <2>1. lines \in [0..(d.max - 1) -> Int]
    BY <1>1
  <2>2. lit \in SUBSET Int
    BY <1>1
  <2> QED BY <2>1, <2>2
<1> HIDE DEF lines, lit
<1>4. /\ p = [x \in DOMAIN d |-> p[x]] /\ p.choice = e.choice /\ p.scroll = e.scroll
      /\ p.lines = lines /\ p.lit = lit
      /\ \A x \in DOMAIN d : x \notin Moving => p[x] = d[x]
  BY <1>1, <1>2 DEF HasLines, Moving
<1>5. p \in Lined(d)
  BY <1>1, <1>3, <1>4, LinedIs
<1>6. Put(lines, e.lines, line, item, d.max)
  BY <1>1 DEF lines, Put
<1>7. e.lit = {} => lit = {line}
  BY DEF lit
<1> QED BY <1>4, <1>5, <1>6, <1>7 DEF IsPrinted, LitOn, LitOff

\* Printing an item without the highlight does the same.
LEMMA PrintedOff ==
    ASSUME NEW d, HasLines(d), NEW e \in Lined(d), NEW item, item \in Int, NEW line, line \in Int,
           NEW p, p = Plain(e, item, line)
    PROVE  p \in Lined(d) /\ IsPrinted(p, e, item, line, d.max) /\ LitOff(p, e, line)
<1>1. /\ e = [x \in DOMAIN d |-> e[x]] /\ HasLines(e)
      /\ e.choice \in Int /\ e.scroll \in Int /\ e.lines \in [0..(d.max - 1) -> Int]
      /\ e.lit \in SUBSET Int
      /\ \A x \in DOMAIN d : x \notin Moving => e[x] = d[x]
  BY LinedHas
<1> DEFINE lines == [e.lines EXCEPT ![line] = item]
           lit == e.lit \ {line}
<1>2. p = [e EXCEPT !.lines = lines, !.lit = lit]
  BY <1>1 DEF Plain, PrintItem, HasLines, Moving
<1>3. lines \in [0..(d.max - 1) -> Int] /\ lit \in SUBSET Int
  <2>1. lines \in [0..(d.max - 1) -> Int]
    BY <1>1
  <2>2. lit \in SUBSET Int
    BY <1>1
  <2> QED BY <2>1, <2>2
<1> HIDE DEF lines, lit
<1>4. /\ p = [x \in DOMAIN d |-> p[x]] /\ p.choice = e.choice /\ p.scroll = e.scroll
      /\ p.lines = lines /\ p.lit = lit
      /\ \A x \in DOMAIN d : x \notin Moving => p[x] = d[x]
  BY <1>1, <1>2 DEF HasLines, Moving
<1>5. p \in Lined(d)
  BY <1>1, <1>3, <1>4, LinedIs
<1>6. Put(lines, e.lines, line, item, d.max)
  BY <1>1 DEF lines, Put
<1>7. e.lit = {} \/ e.lit = {line} => lit = {}
  BY DEF lit
<1> QED BY <1>4, <1>5, <1>6, <1>7 DEF IsPrinted, LitOn, LitOff

\* Scrolling moves the lines, the highlight and the scroll position together.
LEMMA Scrolled ==
    ASSUME NEW d, HasLines(d), NEW e \in Lined(d), NEW n, n \in Int, NEW p, p = DoScroll(e, n)
    PROVE  p \in Lined(d) /\ IsScrolled(p, e, n, d.max)
<1>1. /\ e = [x \in DOMAIN d |-> e[x]] /\ HasLines(e) /\ d.max \in Nat
      /\ e.choice \in Int /\ e.scroll \in Int /\ e.lines \in [0..(d.max - 1) -> Int]
      /\ e.lit \in SUBSET Int
      /\ \A x \in DOMAIN d : x \notin Moving => e[x] = d[x]
  <2>1. d.max \in Nat
    BY DEF HasLines
  <2> QED BY <2>1, LinedHas
<1> DEFINE lines == [l \in 0..(d.max - 1) |-> IF l + n \in 0..(d.max - 1) THEN e.lines[l + n] ELSE -1]
           lit == {l - n : l \in e.lit} \cap 0..(d.max - 1)
<1>2. p = [e EXCEPT !.lines = lines, !.lit = lit, !.scroll = e.scroll + n]
  BY <1>1 DEF DoScroll, HasLines, Moving
<1>3. lines \in [0..(d.max - 1) -> Int] /\ lit \in SUBSET Int
  <2>1. lines \in [0..(d.max - 1) -> Int]
    <3>1. ASSUME NEW l \in 0..(d.max - 1), l + n \in 0..(d.max - 1) PROVE e.lines[l + n] \in Int
      <4>1. PICK k : k = l + n
        OBVIOUS
      <4> QED BY <1>1, <3>1, <4>1
    <3> QED BY <3>1
  <2>2. lit \in SUBSET Int
    <3>1. 0..(d.max - 1) \subseteq Int
      BY <1>1
    <3> QED BY <3>1
  <2> QED BY <2>1, <2>2
<1> HIDE DEF lines, lit
<1>4. /\ p = [x \in DOMAIN d |-> p[x]] /\ p.choice = e.choice /\ p.scroll = e.scroll + n
      /\ p.lines = lines /\ p.lit = lit
      /\ \A x \in DOMAIN d : x \notin Moving => p[x] = d[x]
  BY <1>1, <1>2 DEF HasLines, Moving
<1>5. p \in Lined(d)
  <2>1. p.choice \in Int /\ p.scroll \in Int
    BY <1>1, <1>4
  <2> QED BY <1>3, <1>4, <2>1, LinedIs
<1>6. Moved(lines, e.lines, n, d.max)
  BY DEF lines, Moved
<1>7. e.lit = {} => lit = {}
  BY DEF lit
<1> QED BY <1>4, <1>5, <1>6, <1>7 DEF IsScrolled

\* Lines that show the list still do when it is scrolled down and the last one
\* is printed.
LEMMA NextInView ==
    ASSUME NEW max, max \in Nat, NEW lines, lines \in [0..(max - 1) -> Int], NEW scroll, scroll \in Int,
           Shows(lines, scroll, max), NEW moved, NEW q,
           Moved(moved, lines, 1, max),
           Put(q, moved, max - 1, scroll + max, max)
    PROVE  Shows(q, scroll + 1, max)
<1> SUFFICES ASSUME NEW l \in 0..(max - 1) PROVE q[l] = scroll + 1 + l
  BY DEF Shows
<1>1. CASE l = max - 1
  BY <1>1 DEF Put
<1>2. CASE l # max - 1
  <2>1. l + 1 \in 0..(max - 1)
    BY <1>2
  <2>2. q[l] = lines[l + 1]
    BY <1>2, <2>1 DEF Put, Moved
  <2>3. lines[l + 1] = scroll + (l + 1)
    BY <2>1 DEF Shows
  <2> QED BY <2>2, <2>3
<1> QED BY <1>1, <1>2

\* The same for scrolling up and the first line.
LEMMA LastInView ==
    ASSUME NEW max, max \in Nat, NEW lines, lines \in [0..(max - 1) -> Int], NEW scroll, scroll \in Int,
           Shows(lines, scroll, max), NEW moved, NEW q,
           Moved(moved, lines, -1, max),
           Put(q, moved, 0, scroll - 1, max)
    PROVE  Shows(q, scroll - 1, max)
<1> SUFFICES ASSUME NEW l \in 0..(max - 1) PROVE q[l] = scroll - 1 + l
  BY DEF Shows
<1>1. CASE l = 0
  BY <1>1 DEF Put
<1>2. CASE l # 0
  <2>1. l + -1 \in 0..(max - 1)
    BY <1>2
  <2>2. q[l] = lines[l + -1]
    BY <1>2, <2>1 DEF Put, Moved
  <2>3. lines[l + -1] = scroll + (l + -1)
    BY <2>1 DEF Shows
  <2> QED BY <2>2, <2>3
<1> QED BY <1>1, <1>2

\* While an item is moved, the lines are those of the items from the scroll
\* position on and none is highlighted.
Drawn(d) ==
    /\ d.scroll \in Nat /\ d.scroll + d.max <= Count(d)
    /\ Shows(d.lines, d.scroll, d.max)
    /\ d.choice \in 0..(d.max - 1) /\ d.lit = {}

\* Scrolling by a line and printing the one that has come into view.
LEMMA ScrolledAndPrinted ==
    ASSUME NEW d, HasLines(d), NEW e \in Lined(d), NEW n, n \in Int, NEW f, f = DoScroll(e, n),
           NEW item, item \in Int, NEW line, line \in Int, NEW p, p = Plain(f, item, line)
    PROVE  /\ p \in Lined(d) /\ IsScrolled(f, e, n, d.max)
           /\ IsPrinted(p, f, item, line, d.max) /\ LitOff(p, f, line)
<1>1. f \in Lined(d) /\ IsScrolled(f, e, n, d.max)
  BY Scrolled
<1>2. p \in Lined(d) /\ IsPrinted(p, f, item, line, d.max) /\ LitOff(p, f, line)
  BY <1>1, PrintedOff
<1> QED BY <1>1, <1>2

\* A list that is drawn without highlight is so one line further down.
LEMMA DrawnDown ==
    ASSUME NEW d, HasLines(d), NEW e \in Lined(d), NEW p
    PROVE  p = Plain(DoScroll(e, 1), e.scroll + d.max, d.max - 1) =>
             /\ p \in Lined(d) /\ p.choice = e.choice
             /\ Drawn(e) /\ e.scroll + d.max < Count(d) => Drawn(p)
<1>0. SUFFICES ASSUME p = Plain(DoScroll(e, 1), e.scroll + d.max, d.max - 1)
               PROVE  /\ p \in Lined(d) /\ p.choice = e.choice
                      /\ Drawn(e) /\ e.scroll + d.max < Count(d) => Drawn(p)
  OBVIOUS
<1>1. /\ e.scroll \in Int /\ e.lines \in [0..(d.max - 1) -> Int] /\ d.max \in Nat /\ Count(d) \in Nat
      /\ e.max = d.max /\ e.items = d.items
  BY LinedHas DEF HasLines
<1>2. PICK n : n = 1
  OBVIOUS
<1>3. PICK item : item = e.scroll + d.max
  OBVIOUS
<1>4. PICK line : line = d.max - 1
  OBVIOUS
<1>5. n \in Int
  BY <1>2
<1>6. item \in Int
  BY <1>1, <1>3
<1>7. line \in Int
  BY <1>1, <1>4
<1>8. PICK f : f = DoScroll(e, n)
  OBVIOUS
<1>9. p = Plain(f, item, line)
  BY <1>0, <1>2, <1>3, <1>4, <1>8
<1>10. /\ p \in Lined(d) /\ IsScrolled(f, e, n, d.max)
       /\ IsPrinted(p, f, item, line, d.max) /\ LitOff(p, f, line)
  BY <1>5, <1>6, <1>7, <1>8, <1>9, ScrolledAndPrinted
<1>11. /\ p \in Lined(d) /\ p.choice = e.choice /\ p.scroll = e.scroll + 1
       /\ Moved(f.lines, e.lines, 1, d.max) /\ Put(p.lines, f.lines, d.max - 1, e.scroll + d.max, d.max)
       /\ e.lit = {} => p.lit = {}
  BY <1>2, <1>3, <1>4, <1>10 DEF IsScrolled, IsPrinted, LitOff
<1>12. p.max = d.max /\ p.items = d.items
  BY <1>11, LinedHas
<1>13. ASSUME Drawn(e), e.scroll + d.max < Count(d) PROVE Drawn(p)
  <2>1. /\ e.scroll \in Nat /\ e.choice \in 0..(d.max - 1) /\ e.lit = {}
        /\ Shows(e.lines, e.scroll, d.max) /\ e.scroll + d.max <= Count(d)
    BY <1>1, <1>13 DEF Drawn, Count
  <2>2. Shows(p.lines, e.scroll + 1, d.max)
    BY <1>1, <1>11, <2>1, NextInView
  <2>3. p.scroll \in Nat /\ p.scroll + p.max <= Count(p) /\ p.scroll = e.scroll + 1
    BY <1>1, <1>11, <1>12, <1>13, <2>1 DEF Count
  <2>4. Shows(p.lines, p.scroll, p.max)
    BY <1>12, <2>2, <2>3
  <2>5. p.choice \in 0..(p.max - 1) /\ p.lit = {}
    BY <1>11, <1>12, <2>1
  <2> QED BY <2>3, <2>4, <2>5 DEF Drawn
<1> QED BY <1>11, <1>13

\* The same one line further up.
LEMMA DrawnUp ==
    ASSUME NEW d, HasLines(d), NEW e \in Lined(d), NEW p
    PROVE  p = Plain(DoScroll(e, -1), e.scroll - 1, 0) =>
             /\ p \in Lined(d) /\ p.choice = e.choice
             /\ Drawn(e) /\ e.scroll # 0 => Drawn(p)
<1>0. SUFFICES ASSUME p = Plain(DoScroll(e, -1), e.scroll - 1, 0)
               PROVE  /\ p \in Lined(d) /\ p.choice = e.choice
                      /\ Drawn(e) /\ e.scroll # 0 => Drawn(p)
  OBVIOUS
<1>1. /\ e.scroll \in Int /\ e.lines \in [0..(d.max - 1) -> Int] /\ d.max \in Nat /\ Count(d) \in Nat
      /\ e.max = d.max /\ e.items = d.items
  BY LinedHas DEF HasLines
<1>2. PICK n : n = -1
  OBVIOUS
<1>3. PICK item : item = e.scroll - 1
  OBVIOUS
<1>4. PICK line : line = 0
  OBVIOUS
<1>5. n \in Int
  BY <1>2
<1>6. item \in Int
  BY <1>1, <1>3
<1>7. line \in Int
  BY <1>1, <1>4
<1>8. PICK f : f = DoScroll(e, n)
  OBVIOUS
<1>9. p = Plain(f, item, line)
  BY <1>0, <1>2, <1>3, <1>4, <1>8
<1>10. /\ p \in Lined(d) /\ IsScrolled(f, e, n, d.max)
       /\ IsPrinted(p, f, item, line, d.max) /\ LitOff(p, f, line)
  BY <1>5, <1>6, <1>7, <1>8, <1>9, ScrolledAndPrinted
<1>11. /\ p \in Lined(d) /\ p.choice = e.choice /\ p.scroll = e.scroll + -1
       /\ Moved(f.lines, e.lines, -1, d.max) /\ Put(p.lines, f.lines, 0, e.scroll - 1, d.max)
       /\ e.lit = {} => p.lit = {}
  BY <1>2, <1>3, <1>4, <1>10 DEF IsScrolled, IsPrinted, LitOff
<1>12. p.max = d.max /\ p.items = d.items
  BY <1>11, LinedHas
<1>13. ASSUME Drawn(e), e.scroll # 0 PROVE Drawn(p)
  <2>1. /\ e.scroll \in Nat /\ e.choice \in 0..(d.max - 1) /\ e.lit = {}
        /\ Shows(e.lines, e.scroll, d.max) /\ e.scroll + d.max <= Count(d)
    BY <1>1, <1>13 DEF Drawn, Count
  <2>2. Shows(p.lines, e.scroll - 1, d.max)
    BY <1>1, <1>11, <2>1, LastInView
  <2>3. p.scroll \in Nat /\ p.scroll + p.max <= Count(p) /\ p.scroll = e.scroll - 1
    BY <1>1, <1>11, <1>12, <1>13, <2>1 DEF Count
  <2>4. Shows(p.lines, p.scroll, p.max)
    BY <1>12, <2>2, <2>3
  <2>5. p.choice \in 0..(p.max - 1) /\ p.lit = {}
    BY <1>11, <1>12, <2>1
  <2> QED BY <2>3, <2>4, <2>5 DEF Drawn
<1> QED BY <1>11, <1>13

-----------------------------------------------------------------------------
(* The highlight.                                                          *)

\* FirstOf is a member of a set of natural numbers, or the other value.
LEMMA FirstIs ==
    ASSUME NEW S, NEW a, a \in Int, \A i \in S : i \in Int /\ a <= i, NEW other
    PROVE  FirstOf(S, other) \in S \cup {other}
<1>1. CASE S = {}
  BY <1>1 DEF FirstOf
<1>2. CASE S # {}
  <2> DEFINE T == {i - a : i \in S}
  <2>1. T \subseteq Nat /\ T # {}
    BY <1>2
  <2> HIDE DEF T
  <2>2. PICK m \in T : \A i \in T : m <= i
    BY <2>1, LeastNumber
  <2>3. PICK k \in S : m = k - a
    BY DEF T
  <2>4. \A i \in S : k <= i
    <3> SUFFICES ASSUME NEW i \in S PROVE k <= i
      OBVIOUS
    <3>1. i - a \in T
      BY DEF T
    <3>2. i \in Int /\ k \in Int
      OBVIOUS
    <3> QED BY <2>2, <2>3, <3>1, <3>2
  <2>5. \E j \in S : \A i \in S : j <= i
    BY <2>4
  <2> QED BY <1>2, <2>5 DEF FirstOf
<1> QED BY <1>1, <1>2

\* LastOf is a member of a finite set of numbers, or the other value.
LEMMA LastIs ==
    ASSUME NEW n, n \in Nat, NEW S, S \subseteq 0..(n - 1), NEW other
    PROVE  LastOf(S, other) \in S \cup {other}
<1>1. CASE S = {}
  BY <1>1 DEF LastOf
<1>2. CASE S # {}
  <2> DEFINE T == {n - i : i \in S}
  <2>1. T \subseteq Nat /\ T # {}
    <3>1. \A i \in S : i \in 0..(n - 1)
      OBVIOUS
    <3>2. \A i \in S : n - i \in Nat
      BY <3>1
    <3> QED BY <1>2, <3>2
  <2> HIDE DEF T
  <2>2. PICK m \in T : \A i \in T : m <= i
    BY <2>1, LeastNumber
  <2>3. PICK k \in S : m = n - k
    BY DEF T
  <2>4. \A i \in S : k >= i
    <3> SUFFICES ASSUME NEW i \in S PROVE k >= i
      OBVIOUS
    <3>1. n - i \in T
      BY DEF T
    <3>2. i \in Int /\ k \in Int
      OBVIOUS
    <3> QED BY <2>2, <2>3, <3>1, <3>2
  <2>5. \E j \in S : \A i \in S : j >= i
    BY <2>4
  <2> QED BY <1>2, <2>5 DEF LastOf
<1> QED BY <1>1, <1>2

\* Without its highlight a true list is a drawn one.
LEMMA HighlightedOff ==
    ASSUME NEW d, HasLines(d), NEW e \in Lined(d), NEW p
    PROVE  p = Highlight(e, FALSE) =>
             /\ p \in Lined(d) /\ p.choice = e.choice /\ p.scroll = e.scroll
             /\ e.items # <<>> /\ ListIsTrue(e) => Drawn(p)
<1>0. SUFFICES ASSUME p = Highlight(e, FALSE)
               PROVE  /\ p \in Lined(d) /\ p.choice = e.choice /\ p.scroll = e.scroll
                      /\ e.items # <<>> /\ ListIsTrue(e) => Drawn(p)
  OBVIOUS
<1>1. /\ e.scroll \in Int /\ e.choice \in Int /\ e.max = d.max /\ e.items = d.items
      /\ d.max \in Nat /\ Count(d) \in Nat
  BY LinedHas DEF HasLines
<1>2. PICK item : item = e.scroll + e.choice
  OBVIOUS
<1>3. PICK line : line = e.choice
  OBVIOUS
<1>4. item \in Int
  BY <1>1, <1>2
<1>5. line \in Int
  BY <1>1, <1>3
<1>6. p = Plain(e, item, line)
  BY <1>0, <1>2, <1>3 DEF Plain, Highlight
<1>7. p \in Lined(d) /\ IsPrinted(p, e, item, line, d.max) /\ LitOff(p, e, line)
  BY <1>4, <1>5, <1>6, PrintedOff
<1>8. p.max = d.max /\ p.items = d.items
  BY <1>7, LinedHas
<1>9. p.choice = e.choice /\ p.scroll = e.scroll
  BY <1>7 DEF IsPrinted
<1>10. ASSUME e.items # <<>>, ListIsTrue(e) PROVE Drawn(p)
  <2>1. /\ e.scroll \in 0..(Count(d) - d.max) /\ e.choice \in 0..(d.max - 1) /\ e.lit = {e.choice}
        /\ \A l \in 0..(d.max - 1) : e.lines[l] = e.scroll + l
    BY <1>1, <1>10 DEF ListIsTrue, Count
  <2>2. p.lit = {}
    BY <1>3, <1>7, <2>1 DEF LitOff
  <2>3. Shows(p.lines, p.scroll, p.max)
    <3> SUFFICES ASSUME NEW l \in 0..(d.max - 1) PROVE p.lines[l] = e.scroll + l
      BY <1>8, <1>9 DEF Shows
    <3>1. p.lines[l] = IF l = line THEN item ELSE e.lines[l]
      BY <1>7 DEF IsPrinted, Put
    <3> QED BY <1>2, <1>3, <2>1, <3>1
  <2>4. p.scroll \in Nat /\ p.scroll + p.max <= Count(p) /\ p.choice \in 0..(p.max - 1)
    BY <1>1, <1>8, <1>9, <2>1 DEF Count
  <2> QED BY <2>2, <2>3, <2>4 DEF Drawn
<1> QED BY <1>7, <1>9, <1>10

\* With the highlight a drawn list is a true one.
LEMMA HighlightedOn ==
    ASSUME NEW d, HasLines(d), NEW e \in Lined(d), NEW p
    PROVE  p = Highlight(e, TRUE) =>
             /\ p \in Lined(d) /\ p.scroll = e.scroll
             /\ Drawn(e) => ListIsTrue(p)
<1>0. SUFFICES ASSUME p = Highlight(e, TRUE)
               PROVE  /\ p \in Lined(d) /\ p.scroll = e.scroll
                      /\ Drawn(e) => ListIsTrue(p)
  OBVIOUS
<1>1. /\ e.scroll \in Int /\ e.choice \in Int /\ e.max = d.max /\ e.items = d.items
      /\ d.max \in Nat /\ Count(d) \in Nat
  BY LinedHas DEF HasLines
<1>2. PICK item : item = e.scroll + e.choice
  OBVIOUS
<1>3. PICK line : line = e.choice
  OBVIOUS
<1>4. item \in Int
  BY <1>1, <1>2
<1>5. line \in Int
  BY <1>1, <1>3
<1>6. p = Lit(e, item, line)
  BY <1>0, <1>2, <1>3 DEF Lit, Highlight
<1>7. p \in Lined(d) /\ IsPrinted(p, e, item, line, d.max) /\ LitOn(p, e, line)
  BY <1>4, <1>5, <1>6, PrintedOn
<1>8. p.max = d.max /\ p.items = d.items
  BY <1>7, LinedHas
<1>9. p.choice = e.choice /\ p.scroll = e.scroll
  BY <1>7 DEF IsPrinted
<1>10. ASSUME Drawn(e) PROVE ListIsTrue(p)
  <2>1. /\ e.scroll \in Nat /\ e.scroll + d.max <= Count(d) /\ e.choice \in 0..(d.max - 1)
        /\ \A l \in 0..(d.max - 1) : e.lines[l] = e.scroll + l
        /\ e.lit = {}
    BY <1>1, <1>10 DEF Drawn, Count, Shows
  <2>2. p.lit = {p.choice}
    BY <1>3, <1>7, <1>9, <2>1 DEF LitOn
  <2>3. ASSUME NEW l \in 0..(d.max - 1) PROVE p.lines[l] = e.scroll + l
    <3>1. p.lines[l] = IF l = line THEN item ELSE e.lines[l]
      BY <1>7 DEF IsPrinted, Put
    <3> QED BY <1>2, <1>3, <2>1, <3>1
  <2>4. p.scroll \in 0..(Count(p) - p.max) /\ p.choice \in 0..(p.max - 1)
    BY <1>1, <1>8, <1>9, <2>1 DEF Count
  <2>5. \A l \in 0..(p.max - 1) : p.lines[l] = p.scroll + l
    BY <1>8, <1>9, <2>3
  <2> QED BY <2>2, <2>4, <2>5 DEF ListIsTrue
<1> QED BY <1>7, <1>9, <1>10

-----------------------------------------------------------------------------
(* Moves in a menu.                                                        *)

\* Another line may be chosen without drawing anything.
LEMMA ChosenLine ==
    ASSUME NEW d, HasLines(d), NEW e \in Lined(d), NEW c, c \in Int, NEW p
    PROVE  p = [e EXCEPT !.choice = c] =>
             /\ p \in Lined(d) /\ p.choice = c /\ p.scroll = e.scroll
             /\ Drawn(e) /\ c \in 0..(d.max - 1) => Drawn(p)
<1>0. SUFFICES ASSUME p = [e EXCEPT !.choice = c]
               PROVE  /\ p \in Lined(d) /\ p.choice = c /\ p.scroll = e.scroll
                      /\ Drawn(e) /\ c \in 0..(d.max - 1) => Drawn(p)
  OBVIOUS
<1>1. /\ e = [x \in DOMAIN d |-> e[x]] /\ HasLines(e)
      /\ e.choice \in Int /\ e.scroll \in Int /\ e.lines \in [0..(d.max - 1) -> Int]
      /\ e.lit \in SUBSET Int
      /\ \A x \in DOMAIN d : x \notin Moving => e[x] = d[x]
  BY LinedHas
<1>2. /\ p = [x \in DOMAIN d |-> p[x]] /\ p.choice = c /\ p.scroll = e.scroll
      /\ p.lines = e.lines /\ p.lit = e.lit
      /\ \A x \in DOMAIN d : x \notin Moving => p[x] = d[x]
  BY <1>0, <1>1 DEF HasLines, Moving
<1>3. p.choice \in Int /\ p.scroll \in Int /\ p.lines \in [0..(d.max - 1) -> Int] /\ p.lit \in SUBSET Int
  BY <1>1, <1>2
<1>4. p \in Lined(d)
  BY <1>2, <1>3, LinedIs
<1>5. p.max = d.max /\ p.items = d.items /\ e.max = d.max /\ e.items = d.items
  BY <1>4, LinedHas
<1> QED BY <1>2, <1>4, <1>5 DEF Drawn, Count

\* One line of PAGEUP keeps a list drawn.
LEMMA PageUpLineMoves ==
    ASSUME NEW d, HasLines(d), NEW e \in Lined(d)
    PROVE  PageUpLine(e) \in Lined(d) /\ (Drawn(e) => Drawn(PageUpLine(e)))
<1>1. /\ e.scroll \in Int /\ e.choice \in Int /\ e.max = d.max /\ e.items = d.items
      /\ d.max \in Nat /\ Count(d) \in Nat /\ Count(e) = Count(d)
  BY LinedHas DEF HasLines, Count
<1>2. CASE e.scroll > 0
  <2>1. PICK p : p = Plain(DoScroll(e, -1), e.scroll - 1, 0)
    OBVIOUS
  <2>2. PageUpLine(e) = p
    BY <1>1, <1>2, <2>1 DEF PageUpLine, Plain
  <2>3. /\ p \in Lined(d) /\ p.choice = e.choice
        /\ Drawn(e) /\ e.scroll # 0 => Drawn(p)
    BY <2>1, DrawnUp
  <2>4. e.scroll # 0
    BY <1>1, <1>2
  <2> QED BY <2>2, <2>3, <2>4
<1>3. CASE ~(e.scroll > 0)
  <2>1. PICK c : c = Larger(e.choice - 1, 0)
    OBVIOUS
  <2>2. c \in Int
    BY <1>1, <2>1 DEF Larger, Smaller
  <2>3. PICK p : p = [e EXCEPT !.choice = c]
    OBVIOUS
  <2>4. PageUpLine(e) = p
    BY <1>1, <1>3, <2>1, <2>3 DEF PageUpLine
  <2>5. /\ p \in Lined(d) /\ p.choice = c /\ p.scroll = e.scroll
        /\ Drawn(e) /\ c \in 0..(d.max - 1) => Drawn(p)
    BY <2>2, <2>3, ChosenLine
  <2>6. Drawn(e) => c \in 0..(d.max - 1)
    BY <1>1, <2>1 DEF Drawn, Larger, Smaller
  <2> QED BY <2>4, <2>5, <2>6
<1> QED BY <1>2, <1>3

\* One line of PAGEDOWN keeps a list drawn.
LEMMA PageDownLineMoves ==
    ASSUME NEW d, HasLines(d), NEW e \in Lined(d)
    PROVE  PageDownLine(e) \in Lined(d) /\ (Drawn(e) => Drawn(PageDownLine(e)))
<1>1. /\ e.scroll \in Int /\ e.choice \in Int /\ e.max = d.max /\ e.items = d.items
      /\ d.max \in Nat /\ Count(d) \in Nat /\ Count(e) = Count(d)
  BY LinedHas DEF HasLines, Count
<1>2. CASE e.scroll + e.max < Count(e)
  <2>1. PICK p : p = Plain(DoScroll(e, 1), e.scroll + d.max, d.max - 1)
    OBVIOUS
  <2>2. PageDownLine(e) = p
    BY <1>1, <1>2, <2>1 DEF PageDownLine, Plain
  <2>3. /\ p \in Lined(d) /\ p.choice = e.choice
        /\ Drawn(e) /\ e.scroll + d.max < Count(d) => Drawn(p)
    BY <2>1, DrawnDown
  <2>4. e.scroll + d.max < Count(d)
    BY <1>1, <1>2
  <2> QED BY <2>2, <2>3, <2>4
<1>3. CASE ~(e.scroll + e.max < Count(e))
  <2>1. PICK c : c = IF e.choice + 1 < e.max THEN e.choice + 1 ELSE e.choice
    OBVIOUS
  <2>2. c \in Int
    BY <1>1, <2>1 DEF Larger, Smaller
  <2>3. PICK p : p = [e EXCEPT !.choice = c]
    OBVIOUS
  <2>4. PageDownLine(e) = p
    BY <1>1, <1>3, <2>1, <2>3 DEF PageDownLine
  <2>5. /\ p \in Lined(d) /\ p.choice = c /\ p.scroll = e.scroll
        /\ Drawn(e) /\ c \in 0..(d.max - 1) => Drawn(p)
    BY <2>2, <2>3, ChosenLine
  <2>6. Drawn(e) => c \in 0..(d.max - 1)
    BY <1>1, <2>1 DEF Drawn, Larger, Smaller
  <2> QED BY <2>4, <2>5, <2>6
<1> QED BY <1>2, <1>3

\* UP keeps a list drawn, whether it scrolls or not.
LEMMA MenuUpMoves ==
    ASSUME NEW d, HasLines(d), NEW e \in Lined(d)
    PROVE  MenuUp(e) \in Lined(d) /\ (Drawn(e) => Drawn(MenuUp(e)))
<1>1. /\ e.scroll \in Int /\ e.choice \in Int /\ e.max = d.max /\ e.items = d.items
      /\ d.max \in Nat /\ Count(d) \in Nat /\ Count(e) = Count(d)
  BY LinedHas DEF HasLines, Count
<1>2. CASE e.choice < 2 /\ e.scroll # 0
  <2>1. PICK p : p = Plain(DoScroll(e, -1), e.scroll - 1, 0)
    OBVIOUS
  <2>2. MenuUp(e) = p
    BY <1>1, <1>2, <2>1 DEF MenuUp, Plain
  <2>3. /\ p \in Lined(d) /\ p.choice = e.choice
        /\ Drawn(e) /\ e.scroll # 0 => Drawn(p)
    BY <2>1, DrawnUp
  <2>4. e.scroll # 0
    BY <1>1, <1>2
  <2> QED BY <2>2, <2>3, <2>4
<1>3. CASE ~(e.choice < 2 /\ e.scroll # 0)
  <2>1. PICK c : c = Larger(e.choice - 1, 0)
    OBVIOUS
  <2>2. c \in Int
    BY <1>1, <2>1 DEF Larger, Smaller
  <2>3. PICK p : p = [e EXCEPT !.choice = c]
    OBVIOUS
  <2>4. MenuUp(e) = p
    BY <1>1, <1>3, <2>1, <2>3 DEF MenuUp
  <2>5. /\ p \in Lined(d) /\ p.choice = c /\ p.scroll = e.scroll
        /\ Drawn(e) /\ c \in 0..(d.max - 1) => Drawn(p)
    BY <2>2, <2>3, ChosenLine
  <2>6. Drawn(e) => c \in 0..(d.max - 1)
    BY <1>1, <2>1 DEF Drawn, Larger, Smaller
  <2> QED BY <2>4, <2>5, <2>6
<1> QED BY <1>2, <1>3

\* DOWN keeps a list drawn, whether it scrolls or not.
LEMMA MenuDownMoves ==
    ASSUME NEW d, HasLines(d), NEW e \in Lined(d)
    PROVE  MenuDown(e) \in Lined(d) /\ (Drawn(e) => Drawn(MenuDown(e)))
<1>1. /\ e.scroll \in Int /\ e.choice \in Int /\ e.max = d.max /\ e.items = d.items
      /\ d.max \in Nat /\ Count(d) \in Nat /\ Count(e) = Count(d)
  BY LinedHas DEF HasLines, Count
<1>2. CASE e.choice > e.max - 3 /\ e.scroll + e.max < Count(e)
  <2>1. PICK p : p = Plain(DoScroll(e, 1), e.scroll + d.max, d.max - 1)
    OBVIOUS
  <2>2. MenuDown(e) = p
    BY <1>1, <1>2, <2>1 DEF MenuDown, Plain
  <2>3. /\ p \in Lined(d) /\ p.choice = e.choice
        /\ Drawn(e) /\ e.scroll + d.max < Count(d) => Drawn(p)
    BY <2>1, DrawnDown
  <2>4. e.scroll + d.max < Count(d)
    BY <1>1, <1>2
  <2> QED BY <2>2, <2>3, <2>4
<1>3. CASE ~(e.choice > e.max - 3 /\ e.scroll + e.max < Count(e))
  <2>1. PICK c : c = Smaller(e.choice + 1, e.max - 1)
    OBVIOUS
  <2>2. c \in Int
    BY <1>1, <2>1 DEF Larger, Smaller
  <2>3. PICK p : p = [e EXCEPT !.choice = c]
    OBVIOUS
  <2>4. MenuDown(e) = p
    BY <1>1, <1>3, <2>1, <2>3 DEF MenuDown
  <2>5. /\ p \in Lined(d) /\ p.choice = c /\ p.scroll = e.scroll
        /\ Drawn(e) /\ c \in 0..(d.max - 1) => Drawn(p)
    BY <2>2, <2>3, ChosenLine
  <2>6. Drawn(e) => c \in 0..(d.max - 1)
    BY <1>1, <2>1 DEF Drawn, Larger, Smaller
  <2> QED BY <2>4, <2>5, <2>6
<1> QED BY <1>2, <1>3

\* PAGEUP keeps a list drawn.
LEMMA LinesUpMove ==
    ASSUME NEW d, HasLines(d), NEW e \in Lined(d), NEW n, n \in Int
    PROVE  LinesUp(e, n) \in Lined(d) /\ (Drawn(e) => Drawn(LinesUp(e, n)))
<1>1. LinesUp(e, n) \in Lined(d)
  <2>1. \A x \in Lined(d) : PageUpLine(x) \in Lined(d)
    BY PageUpLineMoves
  <2> QED BY <2>1, PageUpRepeats
<1>2. ASSUME Drawn(e) PROVE Drawn(LinesUp(e, n))
  <2> DEFINE D == {x \in Lined(d) : Drawn(x)}
  <2>1. \A x \in D : PageUpLine(x) \in D
    BY PageUpLineMoves
  <2>2. e \in D
    BY <1>2
  <2> HIDE DEF D
  <2>3. LinesUp(e, n) \in D
    BY <2>1, <2>2, PageUpRepeats
  <2> QED BY <2>3 DEF D
<1> QED BY <1>1, <1>2

\* PAGEDOWN keeps a list drawn.
LEMMA LinesDownMove ==
    ASSUME NEW d, HasLines(d), NEW e \in Lined(d), NEW n, n \in Int
    PROVE  LinesDown(e, n) \in Lined(d) /\ (Drawn(e) => Drawn(LinesDown(e, n)))
<1>1. LinesDown(e, n) \in Lined(d)
  <2>1. \A x \in Lined(d) : PageDownLine(x) \in Lined(d)
    BY PageDownLineMoves
  <2> QED BY <2>1, PageDownRepeats
<1>2. ASSUME Drawn(e) PROVE Drawn(LinesDown(e, n))
  <2> DEFINE D == {x \in Lined(d) : Drawn(x)}
  <2>1. \A x \in D : PageDownLine(x) \in D
    BY PageDownLineMoves
  <2>2. e \in D
    BY <1>2
  <2> HIDE DEF D
  <2>3. LinesDown(e, n) \in D
    BY <2>1, <2>2, PageDownRepeats
  <2> QED BY <2>3 DEF D
<1> QED BY <1>1, <1>2

\* The line a letter goes to is a number.
LEMMA LetterIs ==
    ASSUME NEW d, HasLines(d), NEW e \in Lined(d), NEW key
    PROVE  /\ LetterLine(e, key) \in Int
           /\ Drawn(e) \/ (ListIsTrue(e) /\ e.items # <<>>) => LetterLine(e, key) \in Nat
<1>1. e.max = d.max /\ d.max \in Nat /\ e.choice \in Int
  BY LinedHas DEF HasLines
<1>2. PICK all : all = WithLetter(e, key, 0..(e.max - 1))
  OBVIOUS
<1>3. PICK below : below = WithLetter(e, key, (e.choice + 1)..(e.max - 1))
  OBVIOUS
<1>4. \A l \in all : l \in Nat /\ l \in Int /\ 0 <= l
  <2>1. \A l \in 0..(e.max - 1) : l \in Nat /\ l \in Int /\ 0 <= l
    BY <1>1
  <2> QED BY <1>2, <2>1 DEF WithLetter
<1>5. \A l \in below : l \in Int /\ e.choice + 1 <= l
  <2>1. \A l \in (e.choice + 1)..(e.max - 1) : l \in Int /\ e.choice + 1 <= l
    BY <1>1
  <2> QED BY <1>3, <2>1 DEF WithLetter
<1>6. FirstOf(all, e.max) \in all \cup {e.max}
  BY <1>4, FirstIs
<1>7. PICK hit : hit = FirstOf(all, e.max)
  OBVIOUS
<1>8. hit \in Nat
  BY <1>1, <1>4, <1>6, <1>7
<1>9. FirstOf(below, hit) \in below \cup {hit}
  <2>1. e.choice + 1 \in Int
    BY <1>1
  <2> QED BY <1>5, <2>1, FirstIs
<1>10. LetterLine(e, key) \in below \cup {hit, e.max}
  BY <1>1, <1>2, <1>3, <1>7, <1>9 DEF LetterLine
<1>11. Drawn(e) \/ (ListIsTrue(e) /\ e.items # <<>>) => e.choice \in Nat
  BY <1>1 DEF Drawn, ListIsTrue
<1> QED BY <1>1, <1>5, <1>8, <1>10, <1>11

\* The letter is looked for before and after the highlight is taken away.
LEMMA LetterStays ==
    ASSUME NEW d, HasLines(d), NEW e \in Lined(d), NEW p \in Lined(d), NEW key,
           p.choice = e.choice, p.scroll = e.scroll
    PROVE  LetterLine(p, key) = LetterLine(e, key)
<1>1. p.max = e.max /\ p.items = e.items
  BY LinedHas
<1> QED BY <1>1 DEF LetterLine, WithLetter, ItemAt

\* A move changes the view of the list only.
LEMMA MenuMovedLined ==
    ASSUME NEW d, HasLines(d), NEW e \in Lined(d), NEW key
    PROVE  MenuMoved(e, key) \in Lined(d)
<1>1. e.max = d.max /\ d.max \in Int /\ LetterLine(e, key) \in Int
  BY LinedHas, LetterIs DEF HasLines
<1>2. CASE key = "up"
  BY <1>2, MenuUpMoves DEF MenuMoved
<1>3. CASE key = "down"
  BY <1>3, MenuDownMoves DEF MenuMoved
<1>4. CASE key = "pageup"
  BY <1>1, <1>4, LinesUpMove DEF MenuMoved
<1>5. CASE key = "pagedown"
  BY <1>1, <1>5, LinesDownMove DEF MenuMoved
<1>6. CASE key \notin MenuMoves
  <2>1. PICK c : c = LetterLine(e, key)
    OBVIOUS
  <2>2. PICK p : p = [e EXCEPT !.choice = c]
    OBVIOUS
  <2>3. MenuMoved(e, key) = p
    BY <1>6, <2>1, <2>2 DEF MenuMoved, MenuMoves
  <2>4. /\ p \in Lined(d) /\ p.choice = c /\ p.scroll = e.scroll
        /\ Drawn(e) /\ c \in 0..(d.max - 1) => Drawn(p)
    BY <1>1, <2>1, <2>2, ChosenLine
  <2> QED BY <2>3, <2>4
<1> QED BY <1>2, <1>3, <1>4, <1>5, <1>6 DEF MenuMoves

\* A move keeps a list drawn.
LEMMA MenuMovedDrawn ==
    ASSUME NEW d, HasLines(d), NEW e \in Lined(d), Drawn(e), NEW key,
           key \in MenuMoves \/ LetterLine(e, key) < d.max
    PROVE  Drawn(MenuMoved(e, key))
<1>0. /\ LetterLine(e, key) \in Int
      /\ Drawn(e) \/ (ListIsTrue(e) /\ e.items # <<>>) => LetterLine(e, key) \in Nat
  BY LetterIs
<1>1. e.max = d.max /\ d.max \in Int /\ LetterLine(e, key) \in Nat
  <2>1. e.max = d.max /\ d.max \in Int
    BY LinedHas DEF HasLines
  <2>2. LetterLine(e, key) \in Nat
    BY <1>0
  <2> QED BY <2>1, <2>2
<1>2. CASE key = "up"
  BY <1>2, MenuUpMoves DEF MenuMoved
<1>3. CASE key = "down"
  BY <1>3, MenuDownMoves DEF MenuMoved
<1>4. CASE key = "pageup"
  BY <1>1, <1>4, LinesUpMove DEF MenuMoved
<1>5. CASE key = "pagedown"
  BY <1>1, <1>5, LinesDownMove DEF MenuMoved
<1>6. CASE key \notin MenuMoves
  <2>1. PICK c : c = LetterLine(e, key)
    OBVIOUS
  <2>2. PICK p : p = [e EXCEPT !.choice = c]
    OBVIOUS
  <2>3. MenuMoved(e, key) = p
    BY <1>6, <2>1, <2>2 DEF MenuMoved, MenuMoves
  <2>4. /\ p \in Lined(d) /\ p.choice = c /\ p.scroll = e.scroll
        /\ Drawn(e) /\ c \in 0..(d.max - 1) => Drawn(p)
    BY <1>1, <2>1, <2>2, ChosenLine
  <2>5. c \in 0..(d.max - 1)
    BY <1>1, <1>6, <2>1
  <2> QED BY <2>3, <2>4, <2>5
<1> QED BY <1>2, <1>3, <1>4, <1>5, <1>6 DEF MenuMoves

\* A menu shows its items and highlights one, whatever key moves in it.
LEMMA MenuMoveIsTrue ==
    ASSUME NEW d, HasLines(d), NEW e \in Lined(d), NEW key
    PROVE  /\ MenuMove(e, key) \in Lined(d)
           /\ /\ e.items # <<>> /\ ListIsTrue(e)
              /\ key \in MenuMoves \/ LetterLine(e, key) < e.max
              => ListIsTrue(MenuMove(e, key))
<1>1. PICK off : off = Highlight(e, FALSE)
  OBVIOUS
<1>2. /\ off \in Lined(d) /\ off.choice = e.choice /\ off.scroll = e.scroll
      /\ e.items # <<>> /\ ListIsTrue(e) => Drawn(off)
  BY <1>1, HighlightedOff
<1>3. off \in Lined(d)
  BY <1>2
<1>4. PICK new : new = MenuMoved(off, key)
  OBVIOUS
<1>5. new \in Lined(d)
  BY <1>3, <1>4, MenuMovedLined
<1>6. PICK p : p = Highlight(new, TRUE)
  OBVIOUS
<1>7. /\ p \in Lined(d) /\ p.scroll = new.scroll
      /\ Drawn(new) => ListIsTrue(p)
  BY <1>5, <1>6, HighlightedOn
<1>8. MenuMove(e, key) = p
  BY <1>1, <1>4, <1>6 DEF MenuMove
<1>9. ASSUME e.items # <<>>, ListIsTrue(e), key \in MenuMoves \/ LetterLine(e, key) < e.max
      PROVE  ListIsTrue(p)
  <2>1. LetterLine(off, key) = LetterLine(e, key)
    BY <1>2, LetterStays
  <2>2. e.max = d.max
    BY LinedHas
  <2>3. Drawn(off)
    BY <1>2, <1>9
  <2>4. key \in MenuMoves \/ LetterLine(off, key) < d.max
    BY <1>9, <2>1, <2>2
  <2>5. Drawn(new)
    BY <1>3, <1>4, <2>3, <2>4, MenuMovedDrawn
  <2> QED BY <1>7, <2>5
<1> QED BY <1>7, <1>8, <1>9

-----------------------------------------------------------------------------
(* Menus and radio lists.                                                  *)

\* What a menu and a radio list always are, drawn truly or not.
MenuFields == {"kind", "items", "selected", "saved", "button", "choice", "scroll", "first", "max",
               "lines", "lit", "alive", "resized"}
ListFields == {"kind", "items", "button", "scroll", "max", "choice", "lines", "lit"}
LinesTyped(d) ==
    /\ Count(d) \in Nat /\ d.max \in Nat
    /\ d.choice \in Int /\ d.scroll \in Int /\ d.lines \in [0..(d.max - 1) -> Int] /\ d.lit \in SUBSET Int
IsMenuDialog(d) ==
    /\ d = [x \in MenuFields |-> d[x]] /\ d.kind = "menu"
    /\ LinesTyped(d) /\ d.saved \in Int /\ d.first \in Int /\ d.button \in 0..4
IsListDialog(d) ==
    /\ d = [x \in ListFields |-> d[x]] /\ d.kind = "list"
    /\ LinesTyped(d) /\ d.button \in 0..1

\* A menu has a list.
LEMMA MenuHasLines ==
    ASSUME NEW d, IsMenuDialog(d)
    PROVE  HasLines(d) /\ d \in Lined(d) /\ DOMAIN d = MenuFields
<1>1. DOMAIN d = MenuFields
  BY DEF IsMenuDialog
<1>2. /\ d = [x \in DOMAIN d |-> d[x]]
      /\ d.choice \in Int /\ d.scroll \in Int /\ d.lines \in [0..(d.max - 1) -> Int] /\ d.lit \in SUBSET Int
  BY <1>1 DEF IsMenuDialog, LinesTyped
<1>3. HasLines(d)
  BY <1>1, <1>2 DEF IsMenuDialog, LinesTyped, HasLines, Moving, MenuFields
<1> QED BY <1>1, <1>2, <1>3, LinedIs

\* A radio list has a list.
LEMMA ListHasLines ==
    ASSUME NEW d, IsListDialog(d)
    PROVE  HasLines(d) /\ d \in Lined(d) /\ DOMAIN d = ListFields
<1>1. DOMAIN d = ListFields
  BY DEF IsListDialog
<1>2. /\ d = [x \in DOMAIN d |-> d[x]]
      /\ d.choice \in Int /\ d.scroll \in Int /\ d.lines \in [0..(d.max - 1) -> Int] /\ d.lit \in SUBSET Int
  BY <1>1 DEF IsListDialog, LinesTyped
<1>3. HasLines(d)
  BY <1>1, <1>2 DEF IsListDialog, LinesTyped, HasLines, Moving, ListFields
<1> QED BY <1>1, <1>2, <1>3, LinedIs

\* A menu is one however its list is seen.
LEMMA StillMenu ==
    ASSUME NEW d, IsMenuDialog(d), NEW e \in Lined(d)
    PROVE  IsMenuDialog(e) /\ e.resized = d.resized /\ e.items = d.items
<1>1. HasLines(d) /\ DOMAIN d = MenuFields
  BY MenuHasLines
<1>2. /\ e = [x \in DOMAIN d |-> e[x]] /\ HasLines(e)
      /\ e.choice \in Int /\ e.scroll \in Int /\ e.lines \in [0..(d.max - 1) -> Int]
      /\ e.lit \in SUBSET Int
      /\ \A x \in DOMAIN d : x \notin Moving => e[x] = d[x]
      /\ e.max = d.max /\ e.items = d.items
  BY <1>1, LinedHas
<1>3. /\ e.kind = d.kind /\ e.saved = d.saved /\ e.first = d.first /\ e.button = d.button
      /\ e.resized = d.resized
  BY <1>1, <1>2 DEF MenuFields, Moving
<1>4. LinesTyped(e)
  BY <1>2 DEF LinesTyped, HasLines
<1> QED BY <1>1, <1>2, <1>3, <1>4 DEF IsMenuDialog

\* A radio list is one however its list is seen.
LEMMA StillList ==
    ASSUME NEW d, IsListDialog(d), NEW e \in Lined(d)
    PROVE  IsListDialog(e) /\ e.items = d.items
<1>1. HasLines(d) /\ DOMAIN d = ListFields
  BY ListHasLines
<1>2. /\ e = [x \in DOMAIN d |-> e[x]] /\ HasLines(e)
      /\ e.choice \in Int /\ e.scroll \in Int /\ e.lines \in [0..(d.max - 1) -> Int]
      /\ e.lit \in SUBSET Int
      /\ \A x \in DOMAIN d : x \notin Moving => e[x] = d[x]
      /\ e.max = d.max /\ e.items = d.items
  BY <1>1, LinedHas
<1>3. e.kind = d.kind /\ e.button = d.button
  BY <1>1, <1>2 DEF ListFields, Moving
<1>4. LinesTyped(e)
  BY <1>2 DEF LinesTyped, HasLines
<1> QED BY <1>1, <1>2, <1>3, <1>4 DEF IsListDialog

\* Drawing the lines from the item first on.
LEMMA DrawnAnew ==
    ASSUME NEW d, LinesTyped(d), NEW first, first \in Int, NEW max, max \in Nat, NEW p,
           p = Draw(d, first, max), Moving \cup {"items", "max"} \subseteq DOMAIN d, d = [x \in DOMAIN d |-> d[x]]
    PROVE  /\ LinesTyped(p) /\ p = [x \in DOMAIN d |-> p[x]] /\ p.max = max
           /\ \A x \in DOMAIN d : x \notin {"max", "lines", "lit"} => p[x] = d[x]
           /\ p.choice = d.choice /\ p.scroll = d.scroll /\ p.items = d.items
           /\ first = d.scroll /\ d.scroll \in 0..(Count(d) - max) /\ d.choice \in 0..(max - 1)
              => ListIsTrue(p)
<1> DEFINE lines == [l \in 0..(max - 1) |-> first + l]
           lit == {d.choice} \cap 0..(max - 1)
<1>1. p = [d EXCEPT !.max = max, !.lines = lines, !.lit = lit]
  BY DEF Draw
<1>2. lines \in [0..(max - 1) -> Int] /\ lit \in SUBSET Int
  <2>1. lines \in [0..(max - 1) -> Int]
    <3>1. \A l \in 0..(max - 1) : first + l \in Int
      OBVIOUS
    <3> QED BY <3>1
  <2>2. lit \in SUBSET Int
    BY DEF LinesTyped
  <2> QED BY <2>1, <2>2
<1>3. (\A l \in 0..(max - 1) : lines[l] = first + l) /\ (d.choice \in 0..(max - 1) => lit = {d.choice})
  OBVIOUS
<1> HIDE DEF lines, lit
<1>4. /\ p = [x \in DOMAIN d |-> p[x]] /\ p.max = max /\ p.lines = lines /\ p.lit = lit
      /\ \A x \in DOMAIN d : x \notin {"max", "lines", "lit"} => p[x] = d[x]
      /\ p.choice = d.choice /\ p.scroll = d.scroll /\ p.items = d.items
  BY <1>1 DEF Moving
<1>5. LinesTyped(p)
  BY <1>2, <1>4 DEF LinesTyped, Count
<1>6. ASSUME first = d.scroll, d.scroll \in 0..(Count(d) - max), d.choice \in 0..(max - 1)
      PROVE  ListIsTrue(p)
  BY <1>3, <1>4, <1>6 DEF ListIsTrue, Count
<1> QED BY <1>4, <1>5, <1>6

-----------------------------------------------------------------------------
(* A menu that is drawn.                                                   *)

\* c is the menu d with another item highlighted and other lines shown.
Placed(c, d, a, b, f) ==
    /\ c = [x \in MenuFields |-> c[x]] /\ c.choice = a /\ c.scroll = b /\ c.first = f
    /\ \A x \in MenuFields : x \notin {"choice", "scroll", "first"} => c[x] = d[x]

\* A menu is one wherever the first item and the chosen one are.
LEMMA PlacedMenu ==
    ASSUME NEW d, IsMenuDialog(d), NEW a, a \in Int, NEW b, b \in Int, NEW f, f \in Int, NEW c
    PROVE  Placed(c, d, a, b, f) =>
             /\ IsMenuDialog(c) /\ c.choice = a /\ c.scroll = b /\ c.first = f
             /\ c.items = d.items /\ c.saved = d.saved /\ c.resized = d.resized
<1>0. SUFFICES ASSUME Placed(c, d, a, b, f)
               PROVE /\ IsMenuDialog(c) /\ c.choice = a /\ c.scroll = b /\ c.first = f
                     /\ c.items = d.items /\ c.saved = d.saved /\ c.resized = d.resized
  OBVIOUS
<1>1. d = [x \in MenuFields |-> d[x]] /\ DOMAIN d = MenuFields
  BY DEF IsMenuDialog
<1>2. /\ c = [x \in MenuFields |-> c[x]] /\ c.choice = a /\ c.scroll = b /\ c.first = f
      /\ c.items = d.items /\ c.saved = d.saved /\ c.resized = d.resized
      /\ c.kind = d.kind /\ c.button = d.button /\ c.max = d.max /\ c.lines = d.lines /\ c.lit = d.lit
  BY <1>0, <1>1 DEF Placed, MenuFields
<1> QED BY <1>2 DEF IsMenuDialog, LinesTyped, Count

\* The default item is an item of the list.
LEMMA DefaultIs ==
    ASSUME NEW d, IsMenuDialog(d), NEW e
    PROVE  e = DefaultItem(d) =>
             /\ IsMenuDialog(e) /\ e.scroll = d.scroll /\ e.first = d.first /\ e.items = d.items
             /\ e.saved = d.saved /\ e.resized = d.resized
             /\ d.choice = 0 /\ Count(d) > 0 => e.choice \in 0..(Count(d) - 1)
<1>0. SUFFICES ASSUME e = DefaultItem(d)
               PROVE  /\ IsMenuDialog(e) /\ e.scroll = d.scroll /\ e.first = d.first /\ e.items = d.items
                      /\ e.saved = d.saved /\ e.resized = d.resized
                      /\ d.choice = 0 /\ Count(d) > 0 => e.choice \in 0..(Count(d) - 1)
  OBVIOUS
<1>1. PICK S : S = {i \in 0..(Count(d) - 1) : d.selected = ItemAt(d, i).data}
  OBVIOUS
<1>2. PICK a : a = LastOf(S, d.choice)
  OBVIOUS
<1>3. /\ Count(d) \in Nat /\ d.choice \in Int /\ d.scroll \in Int /\ d.first \in Int
      /\ d = [x \in MenuFields |-> d[x]]
  BY DEF IsMenuDialog, LinesTyped
<1>4. a \in S \cup {d.choice}
  <2>1. S \subseteq 0..(Count(d) - 1)
    BY <1>1
  <2> QED BY <1>2, <1>3, <2>1, LastIs
<1>5. a \in Int
  BY <1>1, <1>3, <1>4
<1>6. Placed(e, d, a, d.scroll, d.first)
  <2>1. e = [d EXCEPT !.choice = LastOf(S, d.choice)]
    BY <1>0, <1>1, <1>3 DEF DefaultItem
  <2>2. e = [d EXCEPT !.choice = a]
    BY <1>2, <2>1
  <2> QED BY <1>3, <2>2 DEF Placed, MenuFields
<1>7. /\ IsMenuDialog(e) /\ e.choice = a /\ e.scroll = d.scroll /\ e.first = d.first
      /\ e.items = d.items /\ e.saved = d.saved /\ e.resized = d.resized
  BY <1>3, <1>5, <1>6, PlacedMenu
<1>8. d.choice = 0 /\ Count(d) > 0 => a \in 0..(Count(d) - 1)
  BY <1>1, <1>3, <1>4
<1> QED BY <1>7, <1>8

\* The scroll position of the last time, or the first item on top.
LEMMA RestoredIs ==
    ASSUME NEW d, IsMenuDialog(d), NEW max, max \in Nat, NEW e
    PROVE  e = Restored(d, max) =>
             /\ IsMenuDialog(e) /\ e.items = d.items /\ e.resized = d.resized
             /\ d.first = 0 /\ d.choice \in 0..(Count(d) - 1) =>
                  \/ /\ e.first = e.scroll /\ e.scroll \in 0..(Count(d) - max)
                     /\ e.choice \in 0..(max - 1)
                  \/ e.first = 0 /\ e.scroll = 0 /\ e.choice \in 0..(Count(d) - 1)
<1>0. SUFFICES ASSUME e = Restored(d, max)
               PROVE  /\ IsMenuDialog(e) /\ e.items = d.items /\ e.resized = d.resized
                      /\ d.first = 0 /\ d.choice \in 0..(Count(d) - 1) =>
                           \/ /\ e.first = e.scroll /\ e.scroll \in 0..(Count(d) - max)
                              /\ e.choice \in 0..(max - 1)
                           \/ e.first = 0 /\ e.scroll = 0 /\ e.choice \in 0..(Count(d) - 1)
  OBVIOUS
<1>1. /\ Count(d) \in Nat /\ d.choice \in Int /\ d.scroll \in Int /\ d.first \in Int /\ d.saved \in Int
      /\ d = [x \in MenuFields |-> d[x]]
  BY DEF IsMenuDialog, LinesTyped
<1>2. CASE /\ d.saved <= d.choice /\ d.choice < d.saved + max
           /\ 0 <= d.saved /\ d.saved + max <= Count(d)
  <2>1. PICK a : a = d.choice - d.saved
    OBVIOUS
  <2>2. a \in Int
    BY <1>1, <2>1
  <2>3. Placed(e, d, a, d.saved, d.saved)
    <3>1. e = [d EXCEPT !.scroll = d.saved, !.first = d.saved, !.choice = a]
      BY <1>0, <1>1, <1>2, <2>1 DEF Restored, MenuFields
    <3> QED BY <1>1, <3>1 DEF Placed, MenuFields
  <2>4. /\ IsMenuDialog(e) /\ e.choice = a /\ e.scroll = d.saved /\ e.first = d.saved
        /\ e.items = d.items /\ e.saved = d.saved /\ e.resized = d.resized
    BY <1>1, <2>2, <2>3, PlacedMenu
  <2>5. a \in 0..(max - 1) /\ d.saved \in 0..(Count(d) - max)
    BY <1>1, <1>2, <2>1
  <2> QED BY <2>4, <2>5
<1>3. CASE ~(/\ d.saved <= d.choice /\ d.choice < d.saved + max
             /\ 0 <= d.saved /\ d.saved + max <= Count(d))
  <2>1. PICK b : b = 0
    OBVIOUS
  <2>2. Placed(e, d, d.choice, b, d.first)
    <3>1. e = [d EXCEPT !.scroll = b]
      BY <1>0, <1>1, <1>3, <2>1 DEF Restored
    <3> QED BY <1>1, <3>1 DEF Placed, MenuFields
  <2>3. b \in Int
    BY <2>1
  <2>4. /\ IsMenuDialog(e) /\ e.choice = d.choice /\ e.scroll = b /\ e.first = d.first
        /\ e.items = d.items /\ e.saved = d.saved /\ e.resized = d.resized
    BY <1>1, <2>2, <2>3, PlacedMenu
  <2> QED BY <2>1, <2>4
<1> QED BY <1>2, <1>3

\* Half of a number is between 0 and the number.
LEMMA Halves ==
    ASSUME NEW n, n \in Nat
    PROVE  n \div 2 \in Nat /\ 2 * (n \div 2) <= n /\ n <= 2 * (n \div 2) + 1
  OBVIOUS

\* The item to begin with in the middle, unless it is near the end.
LEMMA CentredIs ==
    ASSUME NEW d, IsMenuDialog(d), NEW max, max \in Nat, NEW e
    PROVE  e = Centred(d, max) =>
             /\ IsMenuDialog(e) /\ e.items = d.items /\ e.resized = d.resized
             /\ d.choice < max => e = d
             /\ d.choice >= max /\ max > 0 /\ max <= Count(d) /\ d.choice \in 0..(Count(d) - 1) =>
                  e.first = e.scroll /\ e.scroll \in 0..(Count(d) - max) /\ e.choice \in 0..(max - 1)
<1>0. SUFFICES ASSUME e = Centred(d, max)
               PROVE  /\ IsMenuDialog(e) /\ e.items = d.items /\ e.resized = d.resized
                      /\ d.choice < max => e = d
                      /\ d.choice >= max /\ max > 0 /\ max <= Count(d) /\ d.choice \in 0..(Count(d) - 1) =>
                           e.first = e.scroll /\ e.scroll \in 0..(Count(d) - max) /\ e.choice \in 0..(max - 1)
  OBVIOUS
<1>1. /\ Count(d) \in Nat /\ d.choice \in Int /\ d.scroll \in Int /\ d.first \in Int /\ d.saved \in Int
      /\ d = [x \in MenuFields |-> d[x]]
  BY DEF IsMenuDialog, LinesTyped
<1>2. CASE d.choice < max
  BY <1>0, <1>1, <1>2 DEF Centred
<1>3. CASE ~(d.choice < max)
  <2>1. PICK half : half = max \div 2
    OBVIOUS
  <2>2. half \in Nat /\ 2 * half <= max /\ max <= 2 * half + 1
    BY <2>1, Halves
  <2>3. PICK start : start = IF d.choice >= Count(d) - half THEN Count(d) - max ELSE d.choice - half
    OBVIOUS
  <2>4. start \in Int
    BY <1>1, <2>2, <2>3
  <2>5. PICK a : a = d.choice - start
    OBVIOUS
  <2>6. a \in Int
    BY <1>1, <2>4, <2>5
  <2>7. Placed(e, d, a, start, start)
    <3>1. e = [d EXCEPT !.scroll = start, !.first = start, !.choice = a]
      BY <1>0, <1>1, <1>3, <2>1, <2>3, <2>5 DEF Centred, MenuFields
    <3> QED BY <1>1, <3>1 DEF Placed, MenuFields
  <2>8. /\ IsMenuDialog(e) /\ e.choice = a /\ e.scroll = start /\ e.first = start
        /\ e.items = d.items /\ e.saved = d.saved /\ e.resized = d.resized
    BY <2>4, <2>6, <2>7, PlacedMenu
  <2>9. ASSUME max > 0, max <= Count(d), d.choice \in 0..(Count(d) - 1)
        PROVE  start \in 0..(Count(d) - max) /\ a \in 0..(max - 1)
    BY <1>1, <1>3, <2>2, <2>3, <2>4, <2>5, <2>9
  <2> QED BY <1>3, <2>8, <2>9
<1> QED BY <1>2, <1>3

\* A menu that is opened shows its items and highlights one of them.
LEMMA LaidMenuIs ==
    ASSUME NEW d, IsMenuDialog(d), NEW h, h \in Nat, MenuFits(h), NEW p
    PROVE  p = LayMenu(d, h) =>
             /\ IsMenuDialog(p) /\ p.items = d.items /\ p.resized = d.resized
             /\ d.choice = 0 /\ d.first = 0 /\ Count(d) > 0 => ListIsTrue(p)
<1>0. SUFFICES ASSUME p = LayMenu(d, h)
               PROVE  /\ IsMenuDialog(p) /\ p.items = d.items /\ p.resized = d.resized
                      /\ d.choice = 0 /\ d.first = 0 /\ Count(d) > 0 => ListIsTrue(p)
  OBVIOUS
<1>1. PICK max : max = Smaller(h - 14, Count(d))
  OBVIOUS
<1>2. Count(d) \in Nat
  BY DEF IsMenuDialog, LinesTyped
<1>3. max \in Nat /\ max <= Count(d) /\ (Count(d) > 0 => max > 0)
  BY <1>1, <1>2 DEF MenuFits, Smaller
<1>4. PICK e : e = DefaultItem(d)
  OBVIOUS
<1>5. /\ IsMenuDialog(e) /\ e.scroll = d.scroll /\ e.first = d.first /\ e.items = d.items
      /\ e.saved = d.saved /\ e.resized = d.resized
      /\ d.choice = 0 /\ Count(d) > 0 => e.choice \in 0..(Count(d) - 1)
  BY <1>4, DefaultIs
<1>6. IsMenuDialog(e) /\ Count(e) = Count(d)
  BY <1>5 DEF Count
<1>7. PICK f : f = Restored(e, max)
  OBVIOUS
<1>8. /\ IsMenuDialog(f) /\ f.items = e.items /\ f.resized = e.resized
      /\ e.first = 0 /\ e.choice \in 0..(Count(e) - 1) =>
           \/ /\ f.first = f.scroll /\ f.scroll \in 0..(Count(e) - max)
              /\ f.choice \in 0..(max - 1)
           \/ f.first = 0 /\ f.scroll = 0 /\ f.choice \in 0..(Count(e) - 1)
  BY <1>3, <1>6, <1>7, RestoredIs
<1>9. IsMenuDialog(f) /\ Count(f) = Count(d) /\ f.choice \in Int
  BY <1>5, <1>8 DEF Count, IsMenuDialog, LinesTyped
<1>10. PICK c : c = Centred(f, max)
  OBVIOUS
<1>11. /\ IsMenuDialog(c) /\ c.items = f.items /\ c.resized = f.resized
       /\ f.choice < max => c = f
       /\ f.choice >= max /\ max > 0 /\ max <= Count(f) /\ f.choice \in 0..(Count(f) - 1) =>
            c.first = c.scroll /\ c.scroll \in 0..(Count(f) - max) /\ c.choice \in 0..(max - 1)
  BY <1>3, <1>9, <1>10, CentredIs
<1>12. Count(c) = Count(d) /\ c.items = d.items /\ c.resized = d.resized
  BY <1>5, <1>8, <1>11 DEF Count
<1>13. ASSUME d.choice = 0, d.first = 0, Count(d) > 0
       PROVE  c.first = c.scroll /\ c.scroll \in 0..(Count(c) - max) /\ c.choice \in 0..(max - 1)
  <2>1. e.choice \in 0..(Count(d) - 1) /\ e.first = 0
    BY <1>5, <1>13
  <2>2. \/ /\ f.first = f.scroll /\ f.scroll \in 0..(Count(d) - max)
           /\ f.choice \in 0..(max - 1)
        \/ f.first = 0 /\ f.scroll = 0 /\ f.choice \in 0..(Count(d) - 1)
    BY <1>6, <1>8, <2>1
  <2>3. CASE f.choice < max
    <3>1. c = f
      BY <1>11, <2>3
    <3>2. 0 \in 0..(Count(d) - max)
      BY <1>2, <1>3
    <3>3. f.choice \in 0..(max - 1)
      BY <1>3, <1>9, <2>2, <2>3
    <3> QED BY <1>12, <2>2, <3>1, <3>2, <3>3
  <2>4. CASE f.choice >= max
    <3>1. f.choice \in 0..(Count(d) - 1)
      BY <1>2, <1>3, <1>9, <2>2, <2>4
    <3> QED BY <1>3, <1>9, <1>11, <1>12, <1>13, <2>4, <3>1
  <2> QED BY <1>3, <1>9, <2>3, <2>4
<1>14. PICK q : q = Draw(c, c.first, max)
  OBVIOUS
<1>15. /\ HasLines(c) /\ LinesTyped(c) /\ c.first \in Int /\ DOMAIN c = MenuFields
       /\ c = [x \in DOMAIN c |-> c[x]] /\ Moving \cup {"items", "max"} \subseteq DOMAIN c
  BY <1>11, MenuHasLines DEF IsMenuDialog, HasLines
<1>16. /\ LinesTyped(q) /\ q = [x \in DOMAIN c |-> q[x]] /\ q.max = max
       /\ \A x \in DOMAIN c : x \notin {"max", "lines", "lit"} => q[x] = c[x]
       /\ q.choice = c.choice /\ q.scroll = c.scroll /\ q.items = c.items
       /\ c.first = c.scroll /\ c.scroll \in 0..(Count(c) - max) /\ c.choice \in 0..(max - 1)
          => ListIsTrue(q)
  BY <1>3, <1>14, <1>15, DrawnAnew
<1>17. p = [q EXCEPT !.alive = c.first + max <= Count(d)]
  BY <1>0, <1>1, <1>4, <1>7, <1>10, <1>14 DEF LayMenu
<1>18. /\ p = [x \in MenuFields |-> p[x]] /\ p.items = q.items /\ p.max = q.max /\ p.choice = q.choice
       /\ p.scroll = q.scroll /\ p.lines = q.lines /\ p.lit = q.lit
       /\ p.kind = c.kind /\ p.saved = c.saved /\ p.first = c.first /\ p.button = c.button
       /\ p.resized = c.resized
  BY <1>15, <1>16, <1>17 DEF MenuFields
<1>19. IsMenuDialog(p)
  BY <1>11, <1>16, <1>18 DEF IsMenuDialog, LinesTyped, Count
<1>20. ListIsTrue(q) => ListIsTrue(p)
  BY <1>18 DEF ListIsTrue, Count
<1> QED BY <1>12, <1>13, <1>16, <1>18, <1>19, <1>20

-----------------------------------------------------------------------------
(* The keys of a menu.                                                     *)

\* A turn goes from button to button.
LEMMA TurnedIs ==
    ASSUME NEW n \in 2..5, NEW button \in 0..(n - 1), NEW key
    PROVE  Turned(button, key, n) \in 0..(n - 1)
BY DEF Turned

\* A menu that is opened is one, at its beginning.
LEMMA OpenMenuIs ==
    ASSUME NEW items, Len(items) \in Nat, NEW selected, NEW saved, saved \in Int, NEW d
    PROVE  d = OpenMenu(items, selected, saved) =>
             /\ IsMenuDialog(d) /\ d.choice = 0 /\ d.first = 0 /\ d.items = items
<1>0. SUFFICES ASSUME d = OpenMenu(items, selected, saved)
               PROVE  IsMenuDialog(d) /\ d.choice = 0 /\ d.first = 0 /\ d.items = items
  OBVIOUS
<1>1. /\ d = [x \in MenuFields |-> d[x]] /\ d.kind = "menu" /\ d.items = items /\ d.saved = saved
      /\ d.button = 0 /\ d.choice = 0 /\ d.scroll = 0 /\ d.first = 0 /\ d.max = 0 /\ d.lines = <<>> /\ d.lit = {}
  BY <1>0 DEF OpenMenu, MenuFields
<1>2. <<>> \in [0..(0 - 1) -> Int]
  <2>1. <<>> \in Seq(Int) /\ Len(<<>>) = 0
    BY EmptySeq
  <2>2. <<>> \in [1..Len(<<>>) -> Int]
    BY <2>1, LenProperties
  <2>3. 1..Len(<<>>) = 0..(0 - 1)
    BY <2>1
  <2> QED BY <2>2, <2>3
<1>3. LinesTyped(d)
  <2>1. d.lines \in [0..(d.max - 1) -> Int]
    BY <1>1, <1>2
  <2>2. Count(d) \in Nat
    BY <1>1 DEF Count
  <2>3. d.max \in Nat /\ d.choice \in Int /\ d.scroll \in Int
    BY <1>1
  <2>4. d.lit \in SUBSET Int
    BY <1>1
  <2> QED BY <2>1, <2>2, <2>3, <2>4 DEF LinesTyped
<1> QED BY <1>1, <1>3 DEF IsMenuDialog

\* A menu whose highlighted item is taken is one, with a scroll position.
LEMMA MenuTakenIs ==
    ASSUME NEW d, IsMenuDialog(d)
    PROVE  MenuTaken(d).kind = "menu" /\ MenuTaken(d).saved \in Int
<1>1. DOMAIN d = MenuFields /\ d.kind = "menu" /\ d.scroll \in Int /\ d = [x \in MenuFields |-> d[x]]
  BY DEF IsMenuDialog, LinesTyped
<1>2. PICK items : items = IF d.items = <<>> THEN d.items
                           ELSE [d.items EXCEPT ![d.scroll + d.choice + 1].selected = TRUE]
  OBVIOUS
<1>3. MenuTaken(d) = [d EXCEPT !.saved = d.scroll, !.items = items]
  BY <1>1, <1>2 DEF MenuTaken, MenuFields
<1> QED BY <1>1, <1>3 DEF MenuFields

\* The names of what a menu returns are not that of going on.
LEMMA MenuResults ==
    /\ \A key \in DOMAIN MenuCommands : MenuCommands[key] # "none"
    /\ \A button \in 0..4 : MenuButtons[button + 1] # "none"
<1>1. \A key \in DOMAIN MenuCommands : MenuCommands[key] # "none"
  BY DEF MenuCommands
<1>2. \A button \in 0..4 : MenuButtons[button + 1] # "none"
  BY DEF MenuButtons
<1> QED BY <1>1, <1>2

\* What a menu is after a key, or what it gives back.
MenuGoesOn(d, r) ==
    /\ r.res = "none" /\ IsMenuDialog(r.d)
    /\ (d.resized \/ ListIsTrue(d)) => (r.d.resized \/ ListIsTrue(r.d))
MenuEnds(r) == r.res # "none" /\ r.d.kind = "menu" /\ r.d.saved \in Int

\* A command ends a menu, or leaves it true.
LEMMA MenuCommandIs ==
    ASSUME NEW d, IsMenuDialog(d), NEW key, NEW h, h \in Nat, NEW r
    PROVE  r = MenuCommand(d, key, h) => MenuGoesOn(d, r) \/ MenuEnds(r)
<1>0. SUFFICES ASSUME r = MenuCommand(d, key, h) PROVE MenuGoesOn(d, r) \/ MenuEnds(r)
  OBVIOUS
<1>1. /\ d = [x \in MenuFields |-> d[x]] /\ DOMAIN d = MenuFields /\ d.button \in 0..4
      /\ d.kind = "menu" /\ d.saved \in Int
  BY DEF IsMenuDialog
<1>2. CASE key \in {"left", "right"}
  <2>1. PICK b : b = Turned(d.button, key, 5)
    OBVIOUS
  <2>2. b \in 0..4
    BY <1>1, <2>1, TurnedIs
  <2>3. PICK p : p = [d EXCEPT !.button = b]
    OBVIOUS
  <2>4. r = Going(p)
    <3>1. p = [d EXCEPT !.button = Turned(@, key, 5)]
      BY <1>1, <2>1, <2>3 DEF MenuFields
    <3>2. key \notin DOMAIN MenuCommands /\ key # "enter" /\ key \notin {"e", "x", "esc"} /\ key # "resize"
      BY <1>2 DEF MenuCommands
    <3>3. MenuCommand(d, key, h) = Going([d EXCEPT !.button = Turned(@, key, 5)])
      BY <1>2, <3>2 DEF MenuCommand
    <3> QED BY <1>0, <3>1, <3>3
  <2>5. /\ p = [x \in MenuFields |-> p[x]] /\ p.button = b
        /\ \A x \in MenuFields : x # "button" => p[x] = d[x]
    BY <1>1, <2>3
  <2>6. /\ p.items = d.items /\ p.scroll = d.scroll /\ p.max = d.max /\ p.lines = d.lines
        /\ p.choice = d.choice /\ p.lit = d.lit /\ p.resized = d.resized
        /\ p.kind = d.kind /\ p.saved = d.saved /\ p.first = d.first
    BY <2>5 DEF MenuFields
  <2>7. ListIsTrue(d) => ListIsTrue(p)
    BY <2>6 DEF ListIsTrue, Count
  <2>8. LinesTyped(p)
    BY <2>6 DEF IsMenuDialog, LinesTyped, Count
  <2>9. IsMenuDialog(p)
    BY <1>1, <2>2, <2>5, <2>6, <2>8 DEF IsMenuDialog
  <2> QED BY <2>4, <2>6, <2>7, <2>9 DEF Going, MenuGoesOn
<1>3. CASE key \in DOMAIN MenuCommands
  <2>1. /\ key \notin {"left", "right"} /\ key # "enter"
        /\ key \notin {"e", "x", "esc"} /\ key # "resize"
    BY <1>3 DEF MenuCommands
  <2>2. r = Over(MenuTaken(d), MenuCommands[key])
    BY <1>0, <1>3, <2>1 DEF MenuCommand
  <2> QED BY <1>3, <2>2, MenuTakenIs, MenuResults DEF Over, MenuEnds
<1>4. CASE key = "enter"
  <2>1. key \notin {"left", "right"} /\ key \notin DOMAIN MenuCommands
    BY <1>4 DEF MenuCommands
  <2>2. r = Over(MenuTaken(d), MenuButtons[d.button + 1])
    BY <1>0, <1>4, <2>1 DEF MenuCommand
  <2> QED BY <1>1, <2>2, MenuTakenIs, MenuResults DEF Over, MenuEnds
<1>5. CASE key \in {"e", "x", "esc"}
  <2>1. key \notin {"left", "right"} /\ key \notin DOMAIN MenuCommands /\ key # "enter"
    BY <1>5 DEF MenuCommands
  <2>2. r = Over(d, "esc")
    BY <1>0, <1>5, <2>1 DEF MenuCommand
  <2> QED BY <1>1, <2>2 DEF Over, MenuEnds
<1>6. CASE key = "resize"
  <2>1. key \notin {"left", "right"} /\ key \notin DOMAIN MenuCommands /\ key # "enter" /\ key \notin {"e", "x", "esc"}
    BY <1>6 DEF MenuCommands
  <2>2. r = IF MenuFits(h) THEN Going([LayMenu(d, h) EXCEPT !.resized = TRUE]) ELSE Over(d, "small")
    BY <1>0, <1>6, <2>1 DEF MenuCommand
  <2>3. CASE MenuFits(h)
    <3>1. PICK q : q = LayMenu(d, h)
      OBVIOUS
    <3>2. /\ IsMenuDialog(q) /\ q.items = d.items /\ q.resized = d.resized
          /\ d.choice = 0 /\ d.first = 0 /\ Count(d) > 0 => ListIsTrue(q)
      BY <2>3, <3>1, LaidMenuIs
    <3>3. q = [x \in MenuFields |-> q[x]]
      BY <3>2 DEF IsMenuDialog
    <3>4. PICK p : p = [q EXCEPT !.resized = TRUE]
      OBVIOUS
    <3>5. /\ p = [x \in MenuFields |-> p[x]] /\ p.resized = TRUE
          /\ \A x \in MenuFields : x # "resized" => p[x] = q[x]
      BY <3>3, <3>4 DEF MenuFields
    <3>6. IsMenuDialog(p)
      BY <3>2, <3>5 DEF IsMenuDialog, MenuFields, LinesTyped, Count
    <3>7. r = Going(p)
      BY <2>2, <2>3, <3>1, <3>4
    <3> QED BY <3>5, <3>6, <3>7 DEF Going, MenuGoesOn
  <2>4. CASE ~MenuFits(h)
    BY <1>1, <2>2, <2>4 DEF Over, MenuEnds
  <2> QED BY <2>3, <2>4
<1>7. CASE /\ key \notin {"left", "right"} /\ key \notin DOMAIN MenuCommands /\ key # "enter"
           /\ key \notin {"e", "x", "esc"} /\ key # "resize"
  <2>1. r = Going(d)
    BY <1>0, <1>7 DEF MenuCommand
  <2> QED BY <2>1 DEF Going, MenuGoesOn
<1> QED BY <1>2, <1>3, <1>4, <1>5, <1>6, <1>7

\* Whatever key is pressed in a menu of any length on a terminal of any height,
\* the menu that was true is so again or is over; a menu that was resized is
\* left out (dialog_menu).
THEOREM MenuKeyIs ==
    ASSUME NEW d, IsMenuDialog(d), NEW key, NEW h, h \in Nat, NEW r
    PROVE  r = MenuKey(d, key, h) => MenuGoesOn(d, r) \/ MenuEnds(r)
<1>0. SUFFICES ASSUME r = MenuKey(d, key, h) PROVE MenuGoesOn(d, r) \/ MenuEnds(r)
  OBVIOUS
<1>1. CASE d.items # <<>> /\ (key \in MenuMoves \/ LetterLine(d, key) < d.max)
  <2>1. PICK p : p = MenuMove(d, key)
    OBVIOUS
  <2>2. HasLines(d) /\ d \in Lined(d) /\ DOMAIN d = MenuFields
    BY MenuHasLines
  <2>3. /\ MenuMove(d, key) \in Lined(d)
        /\ /\ d.items # <<>> /\ ListIsTrue(d)
           /\ key \in MenuMoves \/ LetterLine(d, key) < d.max
           => ListIsTrue(MenuMove(d, key))
    BY <2>2, MenuMoveIsTrue
  <2>4. p \in Lined(d) /\ (ListIsTrue(d) => ListIsTrue(p))
    BY <1>1, <2>1, <2>3
  <2>5. IsMenuDialog(p) /\ p.resized = d.resized /\ p.items = d.items
    BY <2>4, StillMenu
  <2>6. r = Going(p)
    BY <1>0, <1>1, <2>1 DEF MenuKey
  <2> QED BY <2>4, <2>5, <2>6 DEF Going, MenuGoesOn
<1>2. CASE ~(d.items # <<>> /\ (key \in MenuMoves \/ LetterLine(d, key) < d.max))
  <2>1. r = MenuCommand(d, key, h)
    BY <1>0, <1>2 DEF MenuKey
  <2> QED BY <2>1, MenuCommandIs
<1> QED BY <1>1, <1>2

-----------------------------------------------------------------------------
(* Moves in a radio list.                                                  *)

\* An item highlighted, the list scrolled down and the next item highlighted
\* leaves a true list (dialog_checklist).
LEMMA LitDown ==
    ASSUME NEW d, HasLines(d), NEW e \in Lined(d), NEW p
    PROVE  p = Lit(DoScroll(e, 1), e.scroll + d.max, d.max - 1) =>
             /\ p \in Lined(d)
             /\ Drawn(e) /\ e.scroll + d.max < Count(d) /\ e.choice = d.max - 1 => ListIsTrue(p)
<1>0. SUFFICES ASSUME p = Lit(DoScroll(e, 1), e.scroll + d.max, d.max - 1)
               PROVE  /\ p \in Lined(d)
                      /\ Drawn(e) /\ e.scroll + d.max < Count(d) /\ e.choice = d.max - 1 => ListIsTrue(p)
  OBVIOUS
<1>1. /\ e.scroll \in Int /\ e.lines \in [0..(d.max - 1) -> Int] /\ d.max \in Nat /\ Count(d) \in Nat
      /\ e.max = d.max /\ e.items = d.items
  BY LinedHas DEF HasLines
<1>2. PICK n : n = 1
  OBVIOUS
<1>3. PICK item : item = e.scroll + d.max
  OBVIOUS
<1>4. PICK line : line = d.max - 1
  OBVIOUS
<1>5. n \in Int
  BY <1>2
<1>6. item \in Int
  BY <1>1, <1>3
<1>7. line \in Int
  BY <1>1, <1>4
<1>8. PICK f : f = DoScroll(e, n)
  OBVIOUS
<1>9. p = Lit(f, item, line)
  BY <1>0, <1>2, <1>3, <1>4, <1>8
<1>10. f \in Lined(d) /\ IsScrolled(f, e, n, d.max)
  BY <1>5, <1>8, Scrolled
<1>11. p \in Lined(d) /\ IsPrinted(p, f, item, line, d.max) /\ LitOn(p, f, line)
  BY <1>6, <1>7, <1>9, <1>10, PrintedOn
<1>12. /\ p \in Lined(d) /\ p.choice = e.choice /\ p.scroll = e.scroll + 1
       /\ Moved(f.lines, e.lines, 1, d.max) /\ Put(p.lines, f.lines, d.max - 1, e.scroll + d.max, d.max)
       /\ e.lit = {} => p.lit = {line}
  BY <1>2, <1>3, <1>4, <1>10, <1>11 DEF IsScrolled, IsPrinted, LitOn
<1>13. p.max = d.max /\ p.items = d.items
  BY <1>11, LinedHas
<1>14. ASSUME Drawn(e), e.scroll + d.max < Count(d), e.choice = d.max - 1 PROVE ListIsTrue(p)
  <2>1. /\ e.scroll \in Nat /\ e.choice \in 0..(d.max - 1) /\ e.lit = {}
        /\ Shows(e.lines, e.scroll, d.max) /\ e.scroll + d.max <= Count(d)
    BY <1>1, <1>14 DEF Drawn, Count
  <2>2. Shows(p.lines, e.scroll + 1, d.max)
    BY <1>1, <1>12, <2>1, NextInView
  <2>3. p.scroll \in 0..(Count(p) - p.max) /\ p.scroll = e.scroll + 1
    BY <1>1, <1>12, <1>13, <1>14, <2>1 DEF Count
  <2>4. \A l \in 0..(p.max - 1) : p.lines[l] = p.scroll + l
    BY <1>13, <2>2, <2>3 DEF Shows
  <2>5. p.choice \in 0..(p.max - 1) /\ p.lit = {p.choice}
    BY <1>4, <1>12, <1>13, <1>14, <2>1
  <2> QED BY <2>3, <2>4, <2>5 DEF ListIsTrue
<1> QED BY <1>11, <1>14

\* The same for scrolling up.
LEMMA LitUp ==
    ASSUME NEW d, HasLines(d), NEW e \in Lined(d), NEW p
    PROVE  p = Lit(DoScroll(e, -1), e.scroll - 1, 0) =>
             /\ p \in Lined(d)
             /\ Drawn(e) /\ e.scroll # 0 /\ e.choice = 0 => ListIsTrue(p)
<1>0. SUFFICES ASSUME p = Lit(DoScroll(e, -1), e.scroll - 1, 0)
               PROVE  /\ p \in Lined(d)
                      /\ Drawn(e) /\ e.scroll # 0 /\ e.choice = 0 => ListIsTrue(p)
  OBVIOUS
<1>1. /\ e.scroll \in Int /\ e.lines \in [0..(d.max - 1) -> Int] /\ d.max \in Nat /\ Count(d) \in Nat
      /\ e.max = d.max /\ e.items = d.items
  BY LinedHas DEF HasLines
<1>2. PICK n : n = -1
  OBVIOUS
<1>3. PICK item : item = e.scroll - 1
  OBVIOUS
<1>4. PICK line : line = 0
  OBVIOUS
<1>5. n \in Int
  BY <1>2
<1>6. item \in Int
  BY <1>1, <1>3
<1>7. line \in Int
  BY <1>1, <1>4
<1>8. PICK f : f = DoScroll(e, n)
  OBVIOUS
<1>9. p = Lit(f, item, line)
  BY <1>0, <1>2, <1>3, <1>4, <1>8
<1>10. f \in Lined(d) /\ IsScrolled(f, e, n, d.max)
  BY <1>5, <1>8, Scrolled
<1>11. p \in Lined(d) /\ IsPrinted(p, f, item, line, d.max) /\ LitOn(p, f, line)
  BY <1>6, <1>7, <1>9, <1>10, PrintedOn
<1>12. /\ p \in Lined(d) /\ p.choice = e.choice /\ p.scroll = e.scroll + -1
       /\ Moved(f.lines, e.lines, -1, d.max) /\ Put(p.lines, f.lines, 0, e.scroll - 1, d.max)
       /\ e.lit = {} => p.lit = {line}
  BY <1>2, <1>3, <1>4, <1>10, <1>11 DEF IsScrolled, IsPrinted, LitOn
<1>13. p.max = d.max /\ p.items = d.items
  BY <1>11, LinedHas
<1>14. ASSUME Drawn(e), e.scroll # 0, e.choice = 0 PROVE ListIsTrue(p)
  <2>1. /\ e.scroll \in Nat /\ e.choice \in 0..(d.max - 1) /\ e.lit = {}
        /\ Shows(e.lines, e.scroll, d.max) /\ e.scroll + d.max <= Count(d)
    BY <1>1, <1>14 DEF Drawn, Count
  <2>2. Shows(p.lines, e.scroll - 1, d.max)
    BY <1>1, <1>12, <2>1, LastInView
  <2>3. p.scroll \in 0..(Count(p) - p.max) /\ p.scroll = e.scroll - 1
    BY <1>1, <1>12, <1>13, <1>14, <2>1 DEF Count
  <2>4. \A l \in 0..(p.max - 1) : p.lines[l] = p.scroll + l
    BY <1>13, <2>2, <2>3 DEF Shows
  <2>5. p.choice \in 0..(p.max - 1) /\ p.lit = {p.choice}
    BY <1>4, <1>12, <1>13, <1>14, <2>1
  <2> QED BY <2>3, <2>4, <2>5 DEF ListIsTrue
<1> QED BY <1>11, <1>14

\* The highlight moves to another line.
LEMMA ListMoveIs ==
    ASSUME NEW d, HasLines(d), NEW e \in Lined(d), NEW line, line \in Int
    PROVE  /\ ListMove(e, line) \in Lined(d)
           /\ e.items # <<>> /\ ListIsTrue(e) /\ line \in 0..(d.max - 1) => ListIsTrue(ListMove(e, line))
<1>1. PICK off : off = Highlight(e, FALSE)
  OBVIOUS
<1>2. /\ off \in Lined(d) /\ off.choice = e.choice /\ off.scroll = e.scroll
      /\ e.items # <<>> /\ ListIsTrue(e) => Drawn(off)
  BY <1>1, HighlightedOff
<1>3. off \in Lined(d)
  BY <1>2
<1>4. PICK new : new = [off EXCEPT !.choice = line]
  OBVIOUS
<1>5. /\ new \in Lined(d) /\ new.choice = line /\ new.scroll = off.scroll
      /\ Drawn(off) /\ line \in 0..(d.max - 1) => Drawn(new)
  BY <1>3, <1>4, ChosenLine
<1>6. PICK p : p = Highlight(new, TRUE)
  OBVIOUS
<1>7. /\ p \in Lined(d) /\ p.scroll = new.scroll
      /\ Drawn(new) => ListIsTrue(p)
  BY <1>5, <1>6, HighlightedOn
<1>8. ListMove(e, line) = p
  BY <1>1, <1>4, <1>6 DEF ListMove
<1> QED BY <1>2, <1>5, <1>7, <1>8

\* UP keeps a radio list true.
LEMMA ListUpIs ==
    ASSUME NEW d, HasLines(d), NEW e \in Lined(d)
    PROVE  ListUp(e) \in Lined(d) /\ (e.items # <<>> /\ ListIsTrue(e) => ListIsTrue(ListUp(e)))
<1>1. /\ e.scroll \in Int /\ e.choice \in Int /\ e.max = d.max /\ e.items = d.items
      /\ d.max \in Nat /\ Count(d) \in Nat /\ Count(e) = Count(d)
  BY LinedHas DEF HasLines, Count
<1>2. CASE e.choice # 0
  <2>1. PICK line : line = e.choice - 1
    OBVIOUS
  <2>2. line \in Int
    BY <1>1, <2>1
  <2>3. ListUp(e) = ListMove(e, line)
    BY <1>2, <2>1 DEF ListUp
  <2>4. /\ ListMove(e, line) \in Lined(d)
        /\ e.items # <<>> /\ ListIsTrue(e) /\ line \in 0..(d.max - 1) => ListIsTrue(ListMove(e, line))
    BY <2>2, ListMoveIs
  <2>5. e.items # <<>> /\ ListIsTrue(e) => line \in 0..(d.max - 1)
    BY <1>1, <1>2, <2>1 DEF ListIsTrue
  <2> QED BY <2>3, <2>4, <2>5
<1>3. CASE e.choice = 0 /\ e.scroll = 0
  BY <1>3 DEF ListUp
<1>4. CASE e.choice = 0 /\ e.scroll # 0
  <2>1. PICK off : off = Highlight(e, FALSE)
    OBVIOUS
  <2>2. /\ off \in Lined(d) /\ off.choice = e.choice /\ off.scroll = e.scroll
        /\ e.items # <<>> /\ ListIsTrue(e) => Drawn(off)
    BY <2>1, HighlightedOff
  <2>3. PICK p : p = Lit(DoScroll(off, -1), off.scroll - 1, 0)
    OBVIOUS
  <2>4. /\ p \in Lined(d)
        /\ Drawn(off) /\ off.scroll # 0 /\ off.choice = 0 => ListIsTrue(p)
    BY <2>2, <2>3, LitUp
  <2>5. off = PrintItem(e, e.scroll, 0, FALSE)
    <3>1. e.scroll + e.choice = e.scroll /\ e.choice = 0
      BY <1>1, <1>4
    <3> QED BY <2>1, <3>1 DEF Highlight
  <2>6. ListUp(e) = PrintItem(DoScroll(PrintItem(e, e.scroll, 0, FALSE), -1), e.scroll - 1, 0, TRUE)
    BY <1>4 DEF ListUp
  <2>7. ListUp(e) = p
    BY <2>2, <2>3, <2>5, <2>6 DEF Lit
  <2> QED BY <1>4, <2>2, <2>4, <2>7
<1> QED BY <1>2, <1>3, <1>4

\* DOWN keeps a radio list true.
LEMMA ListDownIs ==
    ASSUME NEW d, HasLines(d), NEW e \in Lined(d)
    PROVE  ListDown(e) \in Lined(d) /\ (e.items # <<>> /\ ListIsTrue(e) => ListIsTrue(ListDown(e)))
<1>1. /\ e.scroll \in Int /\ e.choice \in Int /\ e.max = d.max /\ e.items = d.items
      /\ d.max \in Nat /\ Count(d) \in Nat /\ Count(e) = Count(d)
  BY LinedHas DEF HasLines, Count
<1> DEFINE last == e.max - 1
<1>2. CASE e.choice # last
  <2>1. PICK line : line = e.choice + 1
    OBVIOUS
  <2>2. line \in Int
    BY <1>1, <2>1
  <2>3. ListDown(e) = ListMove(e, line)
    BY <1>2, <2>1 DEF ListDown
  <2>4. /\ ListMove(e, line) \in Lined(d)
        /\ e.items # <<>> /\ ListIsTrue(e) /\ line \in 0..(d.max - 1) => ListIsTrue(ListMove(e, line))
    BY <2>2, ListMoveIs
  <2>5. e.items # <<>> /\ ListIsTrue(e) => line \in 0..(d.max - 1)
    BY <1>1, <1>2, <2>1 DEF ListIsTrue
  <2> QED BY <2>3, <2>4, <2>5
<1>3. CASE e.choice = last /\ e.scroll + e.choice >= Count(e) - 1
  <2>1. ~(e.choice # last) /\ ~(e.scroll + e.choice < Count(e) - 1)
    BY <1>1, <1>3
  <2>2. ListDown(e) = e
    BY <1>3, <2>1 DEF ListDown
  <2> QED BY <2>2
<1>4. CASE e.choice = last /\ e.scroll + e.choice < Count(e) - 1
  <2>1. PICK off : off = Highlight(e, FALSE)
    OBVIOUS
  <2>2. /\ off \in Lined(d) /\ off.choice = e.choice /\ off.scroll = e.scroll
        /\ e.items # <<>> /\ ListIsTrue(e) => Drawn(off)
    BY <2>1, HighlightedOff
  <2>3. PICK p : p = Lit(DoScroll(off, 1), off.scroll + d.max, d.max - 1)
    OBVIOUS
  <2>4. /\ p \in Lined(d)
        /\ Drawn(off) /\ off.scroll + d.max < Count(d) /\ off.choice = d.max - 1 => ListIsTrue(p)
    BY <2>2, <2>3, LitDown
  <2>5. off = PrintItem(e, e.scroll + last, last, FALSE)
    BY <1>4, <2>1 DEF Highlight
  <2>6. ListDown(e) = PrintItem(DoScroll(PrintItem(e, e.scroll + last, last, FALSE), 1), e.scroll + e.max, last, TRUE)
    <3>1. ~(e.choice # last) /\ ~(e.scroll + e.choice >= Count(e) - 1)
      BY <1>1, <1>4
    <3> QED BY <1>4, <3>1 DEF ListDown
  <2>7. ListDown(e) = p
    BY <1>1, <2>2, <2>3, <2>5, <2>6 DEF Lit
  <2>8. off.scroll + d.max < Count(d) /\ off.choice = d.max - 1
    BY <1>1, <1>4, <2>2
  <2> QED BY <2>2, <2>4, <2>7, <2>8
<1>5. e.choice # last \/ e.scroll + e.choice >= Count(e) - 1 \/ e.scroll + e.choice < Count(e) - 1
  BY <1>1
<1> HIDE DEF last
<1> QED BY <1>2, <1>3, <1>4, <1>5

-----------------------------------------------------------------------------
(* The keys of a radio list.                                               *)

\* A radio list that has been laid out.
IsLaidList(d) == IsListDialog(d) /\ d.max = Smaller(ListHeight, Count(d))

\* Drawing a radio list anew makes it true.
LEMMA LaidListIs ==
    ASSUME NEW d, IsListDialog(d), NEW p
    PROVE  p = LayList(d) =>
             /\ IsLaidList(p)
             /\ \/ d.scroll = 0 /\ d.choice \in 0..(Count(d) - 1)
                \/ d.max = Smaller(ListHeight, Count(d)) /\ d.items # <<>> /\ ListIsTrue(d)
                => ListIsTrue(p)
<1>0. SUFFICES ASSUME p = LayList(d)
      PROVE  /\ IsLaidList(p)
             /\ \/ d.scroll = 0 /\ d.choice \in 0..(Count(d) - 1)
                \/ d.max = Smaller(ListHeight, Count(d)) /\ d.items # <<>> /\ ListIsTrue(d)
                => ListIsTrue(p)
  OBVIOUS
<1>1. /\ d = [x \in ListFields |-> d[x]] /\ DOMAIN d = ListFields /\ d.kind = "list"
      /\ Count(d) \in Nat /\ d.max \in Nat /\ d.choice \in Int /\ d.scroll \in Int /\ d.button \in 0..1
      /\ d.lines \in [0..(d.max - 1) -> Int] /\ d.lit \in SUBSET Int
  BY DEF IsListDialog, LinesTyped
<1>2. ListHeight \in Nat /\ ListHeight > 0
  BY DialogsConstantsOK
<1>3. PICK above : above = Larger(d.choice - ListHeight + 1, 0)
  OBVIOUS
<1>4. above \in Nat
  BY <1>1, <1>2, <1>3 DEF Larger
<1>5. PICK max : max = Smaller(ListHeight, Count(d))
  OBVIOUS
<1>6. max \in Nat
  BY <1>1, <1>2, <1>5 DEF Smaller
<1>7. PICK e : e = IF above = 0 THEN d ELSE [d EXCEPT !.scroll = above, !.choice = @ - above]
  OBVIOUS
<1>8. /\ e = [x \in ListFields |-> e[x]]
      /\ e.scroll = (IF above = 0 THEN d.scroll ELSE above)
      /\ e.choice = (IF above = 0 THEN d.choice ELSE d.choice - above)
      /\ e.items = d.items /\ e.kind = d.kind /\ e.button = d.button /\ e.max = d.max
      /\ e.lines = d.lines /\ e.lit = d.lit
  <2>1. CASE above = 0
    <3>1. e = d
      BY <1>7, <2>1
    <3> QED BY <1>1, <2>1, <3>1
  <2>2. CASE above # 0
    <3>1. e = [d EXCEPT !.scroll = above, !.choice = d.choice - above]
      BY <1>1, <1>7, <2>2
    <3> QED BY <1>1, <2>2, <3>1 DEF ListFields
  <2> QED BY <2>1, <2>2
<1>9. Count(e) = Count(d) /\ e.scroll \in Int /\ e.choice \in Int
  BY <1>1, <1>4, <1>8 DEF Count
<1>10. LinesTyped(e)
  BY <1>1, <1>8, <1>9 DEF LinesTyped
<1>11. PICK first : first = e.scroll
  OBVIOUS
<1>12. first \in Int
  BY <1>9, <1>11
<1>13. p = Draw(e, first, max)
  BY <1>0, <1>3, <1>5, <1>7, <1>8, <1>11 DEF LayList, Count
<1>14. DOMAIN e = ListFields /\ Moving \cup {"items", "max"} \subseteq DOMAIN e
  BY <1>8 DEF Moving, ListFields
<1>15. e = [x \in DOMAIN e |-> e[x]]
  BY <1>8, <1>14
<1>16. /\ LinesTyped(p) /\ p = [x \in DOMAIN e |-> p[x]] /\ p.max = max
       /\ \A x \in DOMAIN e : x \notin {"max", "lines", "lit"} => p[x] = e[x]
       /\ p.choice = e.choice /\ p.scroll = e.scroll /\ p.items = e.items
       /\ first = e.scroll /\ e.scroll \in 0..(Count(e) - max) /\ e.choice \in 0..(max - 1)
          => ListIsTrue(p)
  BY <1>6, <1>10, <1>12, <1>13, <1>14, <1>15, DrawnAnew
<1>17. IsLaidList(p)
  <2>1. p.kind = "list" /\ p.button \in 0..1
    BY <1>1, <1>8, <1>14, <1>16 DEF ListFields
  <2>2. p = [x \in ListFields |-> p[x]]
    BY <1>14, <1>16
  <2>3. p.max = Smaller(ListHeight, Count(p))
    BY <1>5, <1>8, <1>16 DEF Count
  <2> QED BY <1>16, <2>1, <2>2, <2>3 DEF IsLaidList, IsListDialog
<1>18. ASSUME d.scroll = 0, d.choice \in 0..(Count(d) - 1) PROVE ListIsTrue(p)
  <2>1. e.scroll \in 0..(Count(d) - max) /\ e.choice \in 0..(max - 1)
    BY <1>1, <1>2, <1>3, <1>5, <1>8, <1>18 DEF Larger, Smaller
  <2> QED BY <1>9, <1>11, <1>16, <2>1
<1>19. ASSUME d.max = Smaller(ListHeight, Count(d)), d.items # <<>>, ListIsTrue(d) PROVE ListIsTrue(p)
  <2>1. d.scroll \in 0..(Count(d) - max) /\ d.choice \in 0..(max - 1)
    BY <1>5, <1>19 DEF ListIsTrue
  <2>2. above = 0
    BY <1>1, <1>2, <1>3, <1>5, <2>1 DEF Larger, Smaller
  <2>3. e.scroll \in 0..(Count(d) - max) /\ e.choice \in 0..(max - 1)
    BY <1>8, <2>1, <2>2
  <2> QED BY <1>9, <1>11, <1>16, <2>3
<1> QED BY <1>17, <1>18, <1>19

\* A radio list that is opened begins with an item it has.
LEMMA OpenListIs ==
    ASSUME NEW items, Len(items) \in Nat, NEW d
    PROVE  d = OpenList(items) =>
             /\ IsListDialog(d) /\ d.scroll = 0 /\ d.items = items
             /\ Len(items) > 0 => d.choice \in 0..(Count(d) - 1)
<1>0. SUFFICES ASSUME d = OpenList(items)
               PROVE  /\ IsListDialog(d) /\ d.scroll = 0 /\ d.items = items
                      /\ Len(items) > 0 => d.choice \in 0..(Count(d) - 1)
  OBVIOUS
<1>1. PICK marked : marked = {i \in 0..(Len(items) - 1) : items[i + 1].tag = "X"}
  OBVIOUS
<1>2. LastOf(marked, 0) \in marked \cup {0}
  BY <1>1, LastIs
<1>3. PICK last : last = LastOf(marked, 0)
  OBVIOUS
<1>4. PICK a : a = Activated(items)
  OBVIOUS
<1>5. a \in 0..Len(items)
  <2> DEFINE I == {i \in 1..Len(items) : items[i].selected}
  <2>1. a = IF I # {} THEN Min(I) ELSE 0
    BY <1>4 DEF Activated, SelectInSeq
  <2>2. CASE I # {}
    <3>1. I \in SUBSET Nat
      OBVIOUS
    <3>2. \E m \in I : \A i \in I : m <= i
      BY <2>2, <3>1, LeastNumber
    <3>3. Min(I) \in I
      BY <3>2 DEF Min
    <3> QED BY <2>1, <2>2, <3>3
  <2>3. CASE I = {}
    BY <2>1, <2>3
  <2> QED BY <2>2, <2>3
<1>6. PICK choice : choice = IF a # 0 THEN a - 1 ELSE last
  OBVIOUS
<1>7. /\ d = [x \in ListFields |-> d[x]] /\ d.kind = "list" /\ d.items = items /\ d.button = 0 /\ d.scroll = 0
      /\ d.max = 0 /\ d.choice = choice /\ d.lines = <<>> /\ d.lit = {}
  <2>1. d = [kind |-> "list", items |-> items, button |-> 0, scroll |-> 0, max |-> 0,
             choice |-> choice, lines |-> <<>>, lit |-> {}]
    BY <1>0, <1>1, <1>3, <1>4, <1>6 DEF OpenList
  <2> QED BY <2>1 DEF ListFields
<1>8. last \in Int /\ (Len(items) > 0 => last \in 0..(Len(items) - 1))
  BY <1>1, <1>2, <1>3
<1>9. choice \in Int /\ (Len(items) > 0 => choice \in 0..(Len(items) - 1))
  BY <1>5, <1>6, <1>8
<1>10. <<>> \in [0..(0 - 1) -> Int]
  <2>1. <<>> \in Seq(Int) /\ Len(<<>>) = 0
    BY EmptySeq
  <2>2. <<>> \in [1..Len(<<>>) -> Int]
    BY <2>1, LenProperties
  <2>3. 1..Len(<<>>) = 0..(0 - 1)
    BY <2>1
  <2> QED BY <2>2, <2>3
<1>11. LinesTyped(d)
  <2>1. d.lines \in [0..(d.max - 1) -> Int]
    BY <1>7, <1>10
  <2>2. Count(d) \in Nat
    BY <1>7 DEF Count
  <2>3. d.max \in Nat /\ d.choice \in Int /\ d.scroll \in Int
    BY <1>7, <1>9
  <2>4. d.lit \in SUBSET Int
    BY <1>7
  <2> QED BY <2>1, <2>2, <2>3, <2>4 DEF LinesTyped
<1>12. d.button \in 0..1
  BY <1>7
<1> QED BY <1>7, <1>9, <1>11, <1>12 DEF IsListDialog, Count

\* What a radio list is after a key, or what it gives back.
ListGoesOn(d, r) ==
    /\ r.res = "none" /\ IsLaidList(r.d)
    /\ ListIsTrue(d) => ListIsTrue(r.d)
ListEnds(r) == r.res # "none" /\ r.d.kind = "list"

\* A radio list of the right height is one however its list is seen.
LEMMA StillLaid ==
    ASSUME NEW d, IsLaidList(d), NEW e \in Lined(d)
    PROVE  IsLaidList(e) /\ e.items = d.items
<1>1. IsListDialog(e) /\ e.items = d.items
  BY StillList DEF IsLaidList
<1>2. e.max = d.max
  BY ListHasLines, LinedHas DEF IsLaidList
<1> QED BY <1>1, <1>2 DEF IsLaidList, Count

\* A list without items is true.
LEMMA TrueEmpty ==
    ASSUME NEW d, NEW e, e.items = d.items, d.items = <<>>
    PROVE  ListIsTrue(e)
BY DEF ListIsTrue

\* A command ends a radio list, or leaves it true.
LEMMA ListCommandIs ==
    ASSUME NEW d, IsLaidList(d), NEW key, NEW h, h \in Nat, NEW r
    PROVE  r = ListCommand(d, key, h) => ListGoesOn(d, r) \/ ListEnds(r)
<1>0. SUFFICES ASSUME r = ListCommand(d, key, h) PROVE ListGoesOn(d, r) \/ ListEnds(r)
  OBVIOUS
<1>1. /\ d = [x \in ListFields |-> d[x]] /\ DOMAIN d = ListFields /\ d.button \in 0..1
      /\ d.kind = "list" /\ IsListDialog(d)
  BY DEF IsLaidList, IsListDialog
<1>2. ListTaken(d).kind = "list"
  <2>1. PICK items : items = [i \in DOMAIN d.items |->
                                [d.items[i] EXCEPT !.selected = (i = d.scroll + d.choice + 1)]]
    OBVIOUS
  <2>2. ListTaken(d) = [d EXCEPT !.items = items]
    BY <1>1, <2>1 DEF ListTaken, ListFields
  <2> QED BY <1>1, <2>2 DEF ListFields
<1>3. CASE key = "h"
  BY <1>0, <1>2, <1>3 DEF ListCommand, Over, ListEnds
<1>4. CASE key \in {"s", "space", "enter"}
  <2>1. key # "h"
    BY <1>4
  <2>2. r = Over(ListTaken(d), <<"select", "help">>[d.button + 1])
    BY <1>0, <1>4, <2>1 DEF ListCommand
  <2>3. <<"select", "help">>[d.button + 1] # "none"
    BY <1>1
  <2> QED BY <1>2, <2>2, <2>3 DEF Over, ListEnds
<1>5. CASE key \in {"left", "right"}
  <2>1. PICK b : b = Turned(d.button, key, 2)
    OBVIOUS
  <2>2. b \in 0..1
    BY <1>1, <2>1, TurnedIs
  <2>3. PICK p : p = [d EXCEPT !.button = b]
    OBVIOUS
  <2>4. r = Going(p)
    <3>1. p = [d EXCEPT !.button = Turned(@, key, 2)]
      BY <1>1, <2>1, <2>3 DEF ListFields
    <3>2. key # "h" /\ key \notin {"s", "space", "enter"} /\ key \notin {"x", "esc"} /\ key # "resize"
      BY <1>5
    <3>3. ListCommand(d, key, h) = Going([d EXCEPT !.button = Turned(@, key, 2)])
      BY <1>5, <3>2 DEF ListCommand
    <3> QED BY <1>0, <3>1, <3>3
  <2>5. /\ p = [x \in ListFields |-> p[x]] /\ p.button = b
        /\ \A x \in ListFields : x # "button" => p[x] = d[x]
    BY <1>1, <2>3
  <2>6. /\ p.items = d.items /\ p.scroll = d.scroll /\ p.max = d.max /\ p.lines = d.lines
        /\ p.choice = d.choice /\ p.lit = d.lit /\ p.kind = d.kind
    BY <2>5 DEF ListFields
  <2>7. ListIsTrue(d) => ListIsTrue(p)
    BY <2>6 DEF ListIsTrue, Count
  <2>8. LinesTyped(p)
    BY <1>1, <2>6 DEF IsListDialog, LinesTyped, Count
  <2>9. IsLaidList(p)
    BY <1>1, <2>2, <2>5, <2>6, <2>8 DEF IsLaidList, IsListDialog, Count
  <2> QED BY <2>4, <2>7, <2>9 DEF Going, ListGoesOn
<1>6. CASE key \in {"x", "esc"}
  <2>1. key # "h" /\ key \notin {"s", "space", "enter"} /\ key \notin {"left", "right"}
    BY <1>6
  <2>2. r = Over(d, "esc")
    BY <1>0, <1>6, <2>1 DEF ListCommand
  <2> QED BY <1>1, <2>2 DEF Over, ListEnds
<1>7. CASE key = "resize"
  <2>1. key # "h" /\ key \notin {"s", "space", "enter"} /\ key \notin {"left", "right"} /\ key \notin {"x", "esc"}
    BY <1>7
  <2>2. r = IF ListFits(h) THEN Going(LayList(d)) ELSE Over(d, "small")
    BY <1>0, <1>7, <2>1 DEF ListCommand
  <2>3. CASE ListFits(h)
    <3>1. PICK p : p = LayList(d)
      OBVIOUS
    <3>2. /\ IsLaidList(p)
          /\ \/ d.scroll = 0 /\ d.choice \in 0..(Count(d) - 1)
             \/ d.max = Smaller(ListHeight, Count(d)) /\ d.items # <<>> /\ ListIsTrue(d)
             => ListIsTrue(p)
      BY <1>1, <3>1, LaidListIs
    <3>3. d.items # <<>> /\ ListIsTrue(d) => ListIsTrue(p)
      BY <3>2 DEF IsLaidList
    <3>4. p.items = d.items
      BY <1>1, <3>1 DEF LayList, Draw, ListFields
    <3>5. ListIsTrue(d) => ListIsTrue(p)
      BY <3>3, <3>4, TrueEmpty
    <3>6. r = Going(p)
      BY <2>2, <2>3, <3>1
    <3> QED BY <3>2, <3>5, <3>6 DEF Going, ListGoesOn
  <2>4. CASE ~ListFits(h)
    BY <1>1, <2>2, <2>4 DEF Over, ListEnds
  <2> QED BY <2>3, <2>4
<1>8. CASE /\ key # "h" /\ key \notin {"s", "space", "enter"} /\ key \notin {"left", "right"}
           /\ key \notin {"x", "esc"} /\ key # "resize"
  <2>1. r = Going(d)
    BY <1>0, <1>8 DEF ListCommand
  <2> QED BY <2>1 DEF Going, ListGoesOn
<1> QED BY <1>3, <1>4, <1>5, <1>6, <1>7, <1>8

\* Whatever key is pressed in a radio list, it stays true or is over, and
\* resizing draws it anew (dialog_checklist).
THEOREM ListKeyIs ==
    ASSUME NEW d, IsLaidList(d), NEW key, NEW h, h \in Nat, NEW r
    PROVE  r = ListKey(d, key, h) => ListGoesOn(d, r) \/ ListEnds(r)
<1>0. SUFFICES ASSUME r = ListKey(d, key, h) PROVE ListGoesOn(d, r) \/ ListEnds(r)
  OBVIOUS
<1>1. HasLines(d) /\ d \in Lined(d) /\ DOMAIN d = ListFields
  BY ListHasLines DEF IsLaidList
<1>2. d.max \in Nat
  BY <1>1 DEF HasLines
<1>3. PICK all : all = WithLetter(d, key, 0..(d.max - 1))
  OBVIOUS
<1>4. \A l \in all : l \in Nat /\ l \in Int /\ 0 <= l /\ l \in 0..(d.max - 1)
  <2>1. \A l \in 0..(d.max - 1) : l \in Nat /\ l \in Int /\ 0 <= l
    BY <1>2
  <2> QED BY <1>3, <2>1 DEF WithLetter
<1>5. FirstOf(all, d.max) \in all \cup {d.max}
  BY <1>4, FirstIs
<1>6. PICK hit : hit = FirstOf(all, d.max)
  OBVIOUS
<1>7. hit \in Int /\ (hit < d.max => hit \in 0..(d.max - 1))
  BY <1>2, <1>4, <1>5, <1>6
<1>8. CASE key = "up"
  <2>1. PICK p : p = ListUp(d)
    OBVIOUS
  <2>2. ListUp(d) \in Lined(d) /\ (d.items # <<>> /\ ListIsTrue(d) => ListIsTrue(ListUp(d)))
    BY <1>1, ListUpIs
  <2>3. IsLaidList(p) /\ p.items = d.items
    BY <2>1, <2>2, StillLaid
  <2>4. r = Going(p)
    BY <1>0, <1>8, <2>1 DEF ListKey
  <2>5. ListIsTrue(d) => ListIsTrue(p)
    BY <2>1, <2>2, <2>3, TrueEmpty
  <2> QED BY <2>3, <2>4, <2>5 DEF Going, ListGoesOn
<1>9. CASE key = "down"
  <2>1. PICK p : p = ListDown(d)
    OBVIOUS
  <2>2. ListDown(d) \in Lined(d) /\ (d.items # <<>> /\ ListIsTrue(d) => ListIsTrue(ListDown(d)))
    BY <1>1, ListDownIs
  <2>3. IsLaidList(p) /\ p.items = d.items
    BY <2>1, <2>2, StillLaid
  <2>4. r = Going(p)
    BY <1>0, <1>9, <2>1 DEF ListKey
  <2>5. ListIsTrue(d) => ListIsTrue(p)
    BY <2>1, <2>2, <2>3, TrueEmpty
  <2> QED BY <2>3, <2>4, <2>5 DEF Going, ListGoesOn
<1>10. CASE key \notin {"up", "down"} /\ hit < d.max
  <2>1. PICK p : p = ListMove(d, hit)
    OBVIOUS
  <2>2. /\ ListMove(d, hit) \in Lined(d)
        /\ d.items # <<>> /\ ListIsTrue(d) /\ hit \in 0..(d.max - 1) => ListIsTrue(ListMove(d, hit))
    BY <1>1, <1>7, ListMoveIs
  <2>3. IsLaidList(p) /\ p.items = d.items
    BY <2>1, <2>2, StillLaid
  <2>4. r = Going(p)
    BY <1>0, <1>3, <1>6, <1>10, <2>1 DEF ListKey
  <2>5. ListIsTrue(d) => ListIsTrue(p)
    BY <1>7, <1>10, <2>1, <2>2, <2>3, TrueEmpty
  <2> QED BY <2>3, <2>4, <2>5 DEF Going, ListGoesOn
<1>11. CASE key \notin {"up", "down"} /\ ~(hit < d.max)
  <2>1. r = ListCommand(d, key, h)
    BY <1>0, <1>3, <1>6, <1>11 DEF ListKey
  <2> QED BY <2>1, ListCommandIs
<1> QED BY <1>8, <1>9, <1>10, <1>11

-----------------------------------------------------------------------------
(* The input box.                                                          *)

\* The state of an input box, for texts over any set of characters.
Fields(chars) ==
    [kind : {"field"}, rows : Int, text : Seq(chars), pos : Nat, showX : Nat, inputX : Nat,
     button : 0..2, cells : [1..FieldWidth -> chars]]

\* Printing the text again is enough if what is right of it is blank already.
LEMMA ReprintIsTrue ==
    ASSUME NEW chars, Blank \in chars, NEW d \in Fields(chars),
           d.pos = d.showX + d.inputX, d.inputX < FieldWidth, d.pos <= Len(d.text),
           \A i \in 1..FieldWidth : i > Len(d.text) - d.showX + 1 => d.cells[i] = Blank
    PROVE  Reprint(d) \in Fields(chars) /\ FieldIsTrue(Reprint(d))
<1> DEFINE left == Len(d.text) - d.showX
           new == [i \in 1..FieldWidth |->
                     CASE i <= left -> d.text[d.showX + i] [] i = left + 1 -> Blank [] OTHER -> d.cells[i]]
<1>0. /\ d.text \in Seq(chars) /\ d.showX \in Nat /\ d.pos \in Nat /\ d.inputX \in Nat
      /\ d.cells \in [1..FieldWidth -> chars]
  BY DEF Fields
<1>1. Len(d.text) \in Nat /\ left \in Int /\ FieldWidth \in Nat
  <2>1. Len(d.text) \in Nat
    BY <1>0, LenProperties
  <2>2. FieldWidth \in Nat
    BY DialogsConstantsOK
  <2> QED
    BY <1>0, <2>1, <2>2
<1>2. Reprint(d) = [d EXCEPT !.cells = new]
  BY DEF Reprint
<1>3. \A i \in 1..FieldWidth : i <= left => d.text[d.showX + i] \in chars
  <2> SUFFICES ASSUME NEW i \in 1..FieldWidth, i <= left PROVE d.text[d.showX + i] \in chars
    OBVIOUS
  <2>1. d.showX + i \in 1..Len(d.text) /\ d.text \in Seq(chars)
    BY <1>0, <1>1
  <2> QED
    BY <2>1, ElementOfSeq
<1>4. \A i \in 1..FieldWidth :
         /\ new[i] \in chars
         /\ new[i] = IF d.showX + i <= Len(d.text) THEN d.text[d.showX + i] ELSE Blank
  <2> SUFFICES ASSUME NEW i \in 1..FieldWidth
               PROVE  /\ new[i] \in chars
                      /\ new[i] = IF d.showX + i <= Len(d.text) THEN d.text[d.showX + i] ELSE Blank
    OBVIOUS
  <2>1. CASE i <= left
    BY <1>0, <1>1, <1>3, <2>1
  <2>2. CASE i = left + 1
    BY <1>0, <1>1, <2>2
  <2>3. CASE i > left + 1
    BY <1>0, <1>1, <2>3
  <2> QED
    BY <1>0, <1>1, <2>1, <2>2, <2>3
<1>5. new \in [1..FieldWidth -> chars]
  BY <1>4
<1> HIDE DEF new, left
<1>6. Reprint(d) \in Fields(chars)
  BY <1>2, <1>5 DEF Fields
<1>7. /\ Reprint(d).cells = new /\ Reprint(d).text = d.text /\ Reprint(d).showX = d.showX
      /\ Reprint(d).pos = d.pos /\ Reprint(d).inputX = d.inputX
  BY <1>2 DEF Fields
<1> QED
  BY <1>0, <1>1, <1>4, <1>6, <1>7 DEF FieldIsTrue

\* An edit replaces the text when the cursor has been moved.
WithText(d, text) == [d EXCEPT !.text = text]

\* The cursor stays in the box, which is scrolled when it would leave it.
LEMMA CursorLeftMoves ==
    ASSUME NEW chars, NEW d \in Fields(chars), FieldIsTrue(d), NEW text \in Seq(chars),
           NEW e, e = WithText(CursorLeft(d), text), d.pos > 0
    PROVE  /\ e \in Fields(chars) /\ e.text = text /\ e.cells = d.cells
           /\ e.pos = d.pos - 1 /\ e.pos = e.showX + e.inputX /\ e.inputX < FieldWidth
           /\ e.showX = IF d.inputX = 0 THEN d.showX - 1 ELSE d.showX
<1>1. /\ d.showX \in Nat /\ d.inputX \in Nat /\ d.pos = d.showX + d.inputX
      /\ d.inputX < FieldWidth /\ FieldWidth \in Nat
  BY DialogsConstantsOK DEF FieldIsTrue, Fields
<1>2. CASE d.inputX = 0
  <2>1. e = [d EXCEPT !.text = text, !.showX = d.showX - 1, !.pos = d.pos - 1]
    BY <1>2 DEF CursorLeft, Fields, WithText
  <2>2. d.showX - 1 \in Nat /\ d.pos - 1 \in Nat
    BY <1>1, <1>2
  <2>3. /\ e \in Fields(chars) /\ e.text = text /\ e.cells = d.cells
        /\ e.pos = d.pos - 1 /\ e.showX = d.showX - 1 /\ e.inputX = d.inputX
    BY <2>1, <2>2 DEF Fields
  <2> QED
    BY <1>1, <1>2, <2>3
<1>3. CASE d.inputX # 0
  <2>1. e = [d EXCEPT !.text = text, !.inputX = d.inputX - 1, !.pos = d.pos - 1]
    BY <1>3 DEF CursorLeft, Fields, WithText
  <2>2. d.inputX - 1 \in Nat /\ d.pos - 1 \in Nat
    BY <1>1, <1>3
  <2>3. /\ e \in Fields(chars) /\ e.text = text /\ e.cells = d.cells
        /\ e.pos = d.pos - 1 /\ e.showX = d.showX /\ e.inputX = d.inputX - 1
    BY <2>1, <2>2 DEF Fields
  <2> QED
    BY <1>1, <1>3, <2>3
<1> QED
  BY <1>2, <1>3

\* The cursor stays in the box, which is scrolled when it would leave it.
LEMMA CursorRightMoves ==
    ASSUME NEW chars, NEW d \in Fields(chars), FieldIsTrue(d), NEW text \in Seq(chars),
           NEW e, e = WithText(CursorRight(d), text)
    PROVE  /\ e \in Fields(chars) /\ e.text = text /\ e.cells = d.cells
           /\ e.pos = d.pos + 1 /\ e.pos = e.showX + e.inputX /\ e.inputX < FieldWidth
           /\ e.showX = IF d.inputX = FieldWidth - 1 THEN d.showX + 1 ELSE d.showX
<1>1. /\ d.showX \in Nat /\ d.inputX \in Nat /\ d.pos = d.showX + d.inputX
      /\ d.inputX < FieldWidth /\ FieldWidth \in Nat
  BY DialogsConstantsOK DEF FieldIsTrue, Fields
<1>2. CASE d.inputX = FieldWidth - 1
  <2>1. e = [d EXCEPT !.text = text, !.showX = d.showX + 1, !.pos = d.pos + 1]
    BY <1>2 DEF CursorRight, Fields, WithText
  <2>2. d.showX + 1 \in Nat /\ d.pos + 1 \in Nat
    BY <1>1, <1>2
  <2>3. /\ e \in Fields(chars) /\ e.text = text /\ e.cells = d.cells
        /\ e.pos = d.pos + 1 /\ e.showX = d.showX + 1 /\ e.inputX = d.inputX
    BY <2>1, <2>2 DEF Fields
  <2> QED
    BY <1>1, <1>2, <2>3
<1>3. CASE d.inputX # FieldWidth - 1
  <2>1. e = [d EXCEPT !.text = text, !.inputX = d.inputX + 1, !.pos = d.pos + 1]
    BY <1>3 DEF CursorRight, Fields, WithText
  <2>2. d.inputX + 1 \in Nat /\ d.pos + 1 \in Nat
    BY <1>1, <1>3
  <2>3. /\ e \in Fields(chars) /\ e.text = text /\ e.cells = d.cells
        /\ e.pos = d.pos + 1 /\ e.showX = d.showX /\ e.inputX = d.inputX + 1
    BY <2>1, <2>2 DEF Fields
  <2> QED
    BY <1>1, <1>3, <2>3
<1> QED
  BY <1>2, <1>3

\* Rubbing out a character, before any position of any text.
LEMMA RuboutIsTrue ==
    ASSUME NEW chars, Blank \in chars, NEW d \in Fields(chars), FieldIsTrue(d)
    PROVE  Rubout(d) \in Fields(chars) /\ FieldIsTrue(Rubout(d))
<1>0. /\ d.text \in Seq(chars) /\ d.showX \in Nat /\ d.inputX \in Nat /\ d.pos \in Nat
      /\ Len(d.text) \in Nat /\ FieldWidth \in Nat
  BY LenProperties, DialogsConstantsOK DEF Fields
<1>1. CASE d.pos = 0
  BY <1>1 DEF Rubout
<1>2. CASE d.pos > 0
  <2> DEFINE text == SubSeq(d.text, 1, d.pos - 1) \o SubSeq(d.text, d.pos + 1, Len(d.text))
  <2>1. text \in Seq(chars) /\ Len(text) = Len(d.text) - 1
    <3>1. d.pos <= Len(d.text)
      BY DEF FieldIsTrue
    <3>2. SubSeq(d.text, 1, d.pos - 1) \in Seq(chars) /\ Len(SubSeq(d.text, 1, d.pos - 1)) = d.pos - 1
      BY <1>0, <1>2, <3>1, SubSeqProperties
    <3>3. /\ SubSeq(d.text, d.pos + 1, Len(d.text)) \in Seq(chars)
          /\ Len(SubSeq(d.text, d.pos + 1, Len(d.text))) = Len(d.text) - d.pos
      BY <1>0, <1>2, <3>1, SubSeqProperties
    <3> QED
      BY <1>0, <1>2, <3>1, <3>2, <3>3, ConcatProperties
  <2>2. Rubout(d) = Reprint(WithText(CursorLeft(d), text))
    <3>1. CursorLeft(d).text = d.text
      BY DEF CursorLeft, Fields
    <3> QED
      BY <1>0, <1>2, <3>1 DEF Rubout, WithText
  <2> HIDE DEF text
  <2>3. PICK e : e = WithText(CursorLeft(d), text)
    OBVIOUS
  <2>4. /\ e \in Fields(chars) /\ e.text = text /\ e.cells = d.cells
        /\ e.pos = d.pos - 1 /\ e.pos = e.showX + e.inputX /\ e.inputX < FieldWidth
        /\ e.showX = IF d.inputX = 0 THEN d.showX - 1 ELSE d.showX
    BY <1>2, <2>1, <2>3, CursorLeftMoves
  <2>5. \A i \in 1..FieldWidth : i > Len(e.text) - e.showX + 1 => e.cells[i] = Blank
    <3>1. e.showX \in Nat /\ e.showX <= d.showX
      BY <1>0, <2>4 DEF Fields
    <3>2. \A i \in 1..FieldWidth : d.showX + i > Len(d.text) => d.cells[i] = Blank
      BY <1>0 DEF FieldIsTrue
    <3> SUFFICES ASSUME NEW i \in 1..FieldWidth, i > Len(e.text) - e.showX + 1 PROVE e.cells[i] = Blank
      OBVIOUS
    <3>3. Len(e.text) = Len(d.text) - 1 /\ Len(d.text) \in Nat
      BY <2>1, <2>4
    <3>4. d.showX \in Nat /\ i \in Int
      BY <1>0 DEF Fields
    <3>5. d.showX + i > Len(d.text)
      <4>1. i > (Len(d.text) - 1) - e.showX + 1
        BY <3>3
      <4> QED BY <3>1, <3>3, <3>4, <4>1
    <3> QED
      BY <2>4, <3>2, <3>5
  <2>6. e.pos <= Len(e.text)
    BY <1>0, <2>1, <2>4 DEF FieldIsTrue
  <2>7. Reprint(e) \in Fields(chars) /\ FieldIsTrue(Reprint(e))
    BY <2>4, <2>5, <2>6, ReprintIsTrue
  <2> QED
    BY <2>2, <2>3, <2>7
<1> QED
  BY <1>0, <1>1, <1>2

\* Typing a character, before any position of any text.
LEMMA TypedIsTrue ==
    ASSUME NEW chars, Blank \in chars, NEW d \in Fields(chars), FieldIsTrue(d), NEW c \in chars
    PROVE  Typed(d, c) \in Fields(chars) /\ FieldIsTrue(Typed(d, c))
<1>0. /\ d.text \in Seq(chars) /\ d.showX \in Nat /\ d.inputX \in Nat /\ d.pos \in Nat
      /\ Len(d.text) \in Nat /\ FieldWidth \in Nat
  BY LenProperties, DialogsConstantsOK DEF Fields
<1>1. CASE Len(d.text) >= MaxLen
  BY <1>1 DEF Typed
<1>2. CASE ~(Len(d.text) >= MaxLen)
  <2> DEFINE text == SubSeq(d.text, 1, d.pos) \o <<c>> \o SubSeq(d.text, d.pos + 1, Len(d.text))
  <2>1. text \in Seq(chars) /\ Len(text) = Len(d.text) + 1
    <3>1. d.pos <= Len(d.text)
      BY DEF FieldIsTrue
    <3>2. SubSeq(d.text, 1, d.pos) \in Seq(chars) /\ Len(SubSeq(d.text, 1, d.pos)) = d.pos
      BY <1>0, <3>1, SubSeqProperties
    <3>3. /\ SubSeq(d.text, d.pos + 1, Len(d.text)) \in Seq(chars)
          /\ Len(SubSeq(d.text, d.pos + 1, Len(d.text))) = Len(d.text) - d.pos
      BY <1>0, <3>1, SubSeqProperties
    <3>4. <<c>> \in Seq(chars) /\ Len(<<c>>) = 1
      OBVIOUS
    <3>5. /\ SubSeq(d.text, 1, d.pos) \o <<c>> \in Seq(chars)
          /\ Len(SubSeq(d.text, 1, d.pos) \o <<c>>) = d.pos + 1
      BY <1>0, <3>2, <3>4, ConcatProperties
    <3> QED
      BY <1>0, <3>1, <3>3, <3>5, ConcatProperties
  <2>2. Typed(d, c) = Reprint(WithText(CursorRight(d), text))
    <3>1. CursorRight(d).text = d.text
      BY DEF CursorRight, Fields
    <3> QED
      BY <1>0, <1>2, <3>1 DEF Typed, WithText
  <2> HIDE DEF text
  <2>3. PICK e : e = WithText(CursorRight(d), text)
    OBVIOUS
  <2>4. /\ e \in Fields(chars) /\ e.text = text /\ e.cells = d.cells
        /\ e.pos = d.pos + 1 /\ e.pos = e.showX + e.inputX /\ e.inputX < FieldWidth
        /\ e.showX = IF d.inputX = FieldWidth - 1 THEN d.showX + 1 ELSE d.showX
    BY <2>1, <2>3, CursorRightMoves
  <2>5. \A i \in 1..FieldWidth : i > Len(e.text) - e.showX + 1 => e.cells[i] = Blank
    <3>1. e.showX \in Nat /\ e.showX <= d.showX + 1
      BY <1>0, <2>4 DEF Fields
    <3>2. \A i \in 1..FieldWidth : d.showX + i > Len(d.text) => d.cells[i] = Blank
      BY <1>0 DEF FieldIsTrue
    <3> SUFFICES ASSUME NEW i \in 1..FieldWidth, i > Len(e.text) - e.showX + 1 PROVE e.cells[i] = Blank
      OBVIOUS
    <3>3. Len(e.text) = Len(d.text) + 1 /\ Len(d.text) \in Nat
      BY <2>1, <2>4
    <3>4. d.showX \in Nat /\ i \in Int
      BY <1>0 DEF Fields
    <3>5. d.showX + i > Len(d.text)
      <4>1. i > (Len(d.text) + 1) - e.showX + 1
        BY <3>3
      <4> QED BY <3>1, <3>3, <3>4, <4>1
    <3> QED
      BY <2>4, <3>2, <3>5
  <2>6. e.pos <= Len(e.text)
    BY <1>0, <2>1, <2>4 DEF FieldIsTrue
  <2>7. Reprint(e) \in Fields(chars) /\ FieldIsTrue(Reprint(e))
    BY <2>4, <2>5, <2>6, ReprintIsTrue
  <2> QED
    BY <2>2, <2>3, <2>7
<1> QED
  BY <1>1, <1>2

\* Moving the cursor to the left; the text is printed when it is scrolled.
LEMMA MoveLeftIsTrue ==
    ASSUME NEW chars, Blank \in chars, NEW d \in Fields(chars), FieldIsTrue(d)
    PROVE  MoveLeft(d) \in Fields(chars) /\ FieldIsTrue(MoveLeft(d))
<1>0. /\ d.text \in Seq(chars) /\ d.showX \in Nat /\ d.inputX \in Nat /\ d.pos \in Nat
      /\ Len(d.text) \in Nat /\ FieldWidth \in Nat
  BY LenProperties, DialogsConstantsOK DEF Fields
<1>1. CASE d.pos = 0
  BY <1>0, <1>1 DEF MoveLeft
<1>2. CASE d.pos > 0
  <2>1. PICK e : e = CursorLeft(d)
    OBVIOUS
  <2>2. e = WithText(CursorLeft(d), d.text)
    BY <2>1 DEF WithText, CursorLeft, Fields
  <2>3. /\ e \in Fields(chars) /\ e.text = d.text /\ e.cells = d.cells
        /\ e.pos = d.pos - 1 /\ e.pos = e.showX + e.inputX /\ e.inputX < FieldWidth
        /\ e.showX = IF d.inputX = 0 THEN d.showX - 1 ELSE d.showX
    BY <1>0, <1>2, <2>2, CursorLeftMoves
  <2>4. e.showX \in Nat /\ e.inputX \in Nat
    BY <2>3 DEF Fields
  <2>5. CASE d.inputX > 0
    <3>1. MoveLeft(d) = e
      BY <1>0, <1>2, <2>1, <2>5 DEF MoveLeft
    <3>2. e.showX = d.showX /\ Len(e.text) = Len(d.text)
      BY <1>0, <2>3, <2>5
    <3>3. e.pos <= Len(e.text)
      BY <1>0, <2>3 DEF FieldIsTrue
    <3>4. \A i \in 1..FieldWidth :
             e.cells[i] = IF e.showX + i <= Len(e.text) THEN e.text[e.showX + i] ELSE Blank
      <4>1. \A i \in 1..FieldWidth :
               d.cells[i] = IF d.showX + i <= Len(d.text) THEN d.text[d.showX + i] ELSE Blank
        BY DEF FieldIsTrue
      <4> QED
        BY <2>3, <3>2, <4>1
    <3>5. FieldIsTrue(e)
      <4>1. e.inputX \in 0..(FieldWidth - 1)
        BY <1>0, <2>3, <2>4
      <4> QED
        BY <2>3, <3>3, <3>4, <4>1 DEF FieldIsTrue
    <3> QED
      BY <2>3, <3>1, <3>5
  <2>6. CASE d.inputX = 0
    <3>1. MoveLeft(d) = Reprint(e)
      BY <1>0, <1>2, <2>1, <2>6 DEF MoveLeft
    <3>2. \A i \in 1..FieldWidth : i > Len(e.text) - e.showX + 1 => e.cells[i] = Blank
      <4>1. \A i \in 1..FieldWidth : d.showX + i > Len(d.text) => d.cells[i] = Blank
        BY <1>0 DEF FieldIsTrue
      <4>2. e.showX = d.showX - 1 /\ Len(e.text) = Len(d.text)
        BY <2>3, <2>6
      <4> QED
        BY <1>0, <2>3, <4>1, <4>2
    <3>3. e.pos <= Len(e.text)
      BY <1>0, <2>3 DEF FieldIsTrue
    <3>4. Reprint(e) \in Fields(chars) /\ FieldIsTrue(Reprint(e))
      BY <2>3, <3>2, <3>3, ReprintIsTrue
    <3> QED
      BY <3>1, <3>4
  <2> QED
    BY <1>0, <2>5, <2>6
<1> QED
  BY <1>0, <1>1, <1>2

\* Moving it to the right.
LEMMA MoveRightIsTrue ==
    ASSUME NEW chars, Blank \in chars, NEW d \in Fields(chars), FieldIsTrue(d)
    PROVE  MoveRight(d) \in Fields(chars) /\ FieldIsTrue(MoveRight(d))
<1>0. /\ d.text \in Seq(chars) /\ d.showX \in Nat /\ d.inputX \in Nat /\ d.pos \in Nat
      /\ Len(d.text) \in Nat /\ FieldWidth \in Nat
  BY LenProperties, DialogsConstantsOK DEF Fields
<1>1. CASE d.pos >= Len(d.text)
  BY <1>0, <1>1 DEF MoveRight
<1>2. CASE d.pos < Len(d.text)
  <2>1. PICK e : e = CursorRight(d)
    OBVIOUS
  <2>2. e = WithText(CursorRight(d), d.text)
    BY <2>1 DEF WithText, CursorRight, Fields
  <2>3. /\ e \in Fields(chars) /\ e.text = d.text /\ e.cells = d.cells
        /\ e.pos = d.pos + 1 /\ e.pos = e.showX + e.inputX /\ e.inputX < FieldWidth
        /\ e.showX = IF d.inputX = FieldWidth - 1 THEN d.showX + 1 ELSE d.showX
    BY <1>0, <1>2, <2>2, CursorRightMoves
  <2>4. e.showX \in Nat /\ e.inputX \in Nat
    BY <2>3 DEF Fields
  <2>5. CASE d.inputX < FieldWidth - 1
    <3>1. MoveRight(d) = e
      BY <1>0, <1>2, <2>1, <2>5 DEF MoveRight
    <3>2. e.showX = d.showX /\ e.pos <= Len(e.text) /\ e.inputX \in 0..(FieldWidth - 1)
      BY <1>0, <1>2, <2>3, <2>4, <2>5
    <3>3. \A i \in 1..FieldWidth :
             d.cells[i] = IF d.showX + i <= Len(d.text) THEN d.text[d.showX + i] ELSE Blank
      BY DEF FieldIsTrue
    <3>4. \A i \in 1..FieldWidth :
             e.cells[i] = IF e.showX + i <= Len(e.text) THEN e.text[e.showX + i] ELSE Blank
      BY <2>3, <3>2, <3>3
    <3>5. FieldIsTrue(e)
      BY <2>3, <3>2, <3>4 DEF FieldIsTrue
    <3> QED
      BY <2>3, <3>1, <3>5
  <2>6. CASE d.inputX = FieldWidth - 1
    <3>1. MoveRight(d) = Reprint(e)
      BY <1>0, <1>2, <2>1, <2>6 DEF MoveRight
    <3>2. \A i \in 1..FieldWidth : i > Len(e.text) - e.showX + 1 => e.cells[i] = Blank
      <4>1. \A i \in 1..FieldWidth : d.showX + i > Len(d.text) => d.cells[i] = Blank
        BY <1>0 DEF FieldIsTrue
      <4>2. e.showX = d.showX + 1 /\ Len(e.text) = Len(d.text)
        BY <2>3, <2>6
      <4> QED
        BY <1>0, <2>3, <4>1, <4>2
    <3>3. e.pos <= Len(e.text)
      BY <1>0, <1>2, <2>3
    <3>4. Reprint(e) \in Fields(chars) /\ FieldIsTrue(Reprint(e))
      BY <2>3, <3>2, <3>3, ReprintIsTrue
    <3> QED
      BY <3>1, <3>4
  <2>7. d.inputX <= FieldWidth - 1
    BY <1>0 DEF FieldIsTrue
  <2> QED
    BY <1>0, <2>5, <2>6, <2>7
<1> QED
  BY <1>0, <1>1, <1>2

FieldFields == {"kind", "rows", "text", "pos", "showX", "inputX", "button", "cells"}

\* A new window shows the end of the text, with the cursor after it.
LEMMA LaidFieldIs ==
    ASSUME NEW chars, Blank \in chars, NEW d, d = [x \in FieldFields |-> d[x]], d.kind = "field",
           d.rows \in Int, d.text \in Seq(chars), d.button \in 0..2, NEW e
    PROVE  e = LayField(d) => e \in Fields(chars) /\ FieldIsTrue(e)
<1>0. SUFFICES ASSUME e = LayField(d) PROVE e \in Fields(chars) /\ FieldIsTrue(e)
  OBVIOUS
<1> DEFINE len == Len(d.text)
           show == IF len >= FieldWidth THEN len - FieldWidth + 1 ELSE 0
           cells == [i \in 1..FieldWidth |-> IF show + i <= len THEN d.text[show + i] ELSE Blank]
<1>1. len \in Nat /\ FieldWidth \in Nat \ {0}
  BY LenProperties, DialogsConstantsOK
<1>2. show \in Nat /\ len - show \in 0..(FieldWidth - 1)
  BY <1>1
<1>3. e = [d EXCEPT !.pos = len, !.showX = show, !.inputX = len - show, !.cells = cells]
  BY <1>0 DEF LayField
<1> HIDE DEF show
<1>4. \A i \in 1..FieldWidth : show + i <= len => d.text[show + i] \in chars
  BY <1>1, <1>2, ElementOfSeq
<1>5. cells \in [1..FieldWidth -> chars]
  BY <1>4
<1>6. \A i \in 1..FieldWidth : cells[i] = IF show + i <= len THEN d.text[show + i] ELSE Blank
  OBVIOUS
<1> HIDE DEF cells, len
<1>7. e = [kind |-> "field", rows |-> d.rows, text |-> d.text, pos |-> len, showX |-> show,
           inputX |-> len - show, button |-> d.button, cells |-> cells]
  BY <1>3 DEF FieldFields
<1>8. e \in Fields(chars)
  BY <1>1, <1>2, <1>5, <1>7 DEF Fields
<1>9. FieldIsTrue(e)
  BY <1>1, <1>2, <1>6, <1>7 DEF FieldIsTrue, len
<1> QED
  BY <1>8, <1>9

\* Whatever is typed, the box shows the text around the cursor, and the cursor
\* is where the next character goes: for any text and any width of the box.
THEOREM FieldKeepsTrue ==
    ASSUME NEW chars, Blank \in chars, NEW d \in Fields(chars), FieldIsTrue(d),
           NEW e \in {Rubout(d), MoveLeft(d), MoveRight(d)} \cup {Typed(d, c) : c \in chars}
    PROVE  e \in Fields(chars) /\ FieldIsTrue(e)
BY RuboutIsTrue, MoveLeftIsTrue, MoveRightIsTrue, TypedIsTrue

\* What an input box is after a key, or what it gives back.
FieldGoesOn(r, chars) == r.res = "none" /\ r.d \in Fields(chars) /\ FieldIsTrue(r.d)
FieldEnds(r, chars) == r.res # "none" /\ r.d.kind = "field" /\ r.d.text \in Seq(chars)

\* A command ends an input box, or leaves it true.
LEMMA FieldCommandIs ==
    ASSUME NEW chars, Blank \in chars, NEW d \in Fields(chars), FieldIsTrue(d), NEW key, NEW h, NEW r
    PROVE  r = FieldCommand(d, key, h) => FieldGoesOn(r, chars) \/ FieldEnds(r, chars)
<1>0. SUFFICES ASSUME r = FieldCommand(d, key, h) PROVE FieldGoesOn(r, chars) \/ FieldEnds(r, chars)
  OBVIOUS
<1>1. d.kind = "field" /\ d.text \in Seq(chars) /\ d.button \in 0..2 /\ d.rows \in Int
  BY DEF Fields
<1>2. ASSUME NEW b \in 0..2 PROVE FieldGoesOn(Going([d EXCEPT !.button = b]), chars)
  <2>1. PICK p : p = [d EXCEPT !.button = b]
    OBVIOUS
  <2>2. /\ p \in Fields(chars) /\ p.text = d.text /\ p.pos = d.pos /\ p.showX = d.showX
        /\ p.inputX = d.inputX /\ p.cells = d.cells
    BY <2>1 DEF Fields
  <2>3. FieldIsTrue(p)
    BY <2>2 DEF FieldIsTrue
  <2> QED BY <2>1, <2>2, <2>3 DEF FieldGoesOn, Going
<1>3. CASE key \in {"up", "left"}
  <2>1. r = Going([d EXCEPT !.button = Turned(@, "left", 3)])
    BY <1>0, <1>3 DEF FieldCommand
  <2>2. PICK b : b = Turned(d.button, "left", 3)
    OBVIOUS
  <2>3. b \in 0..2
    BY <1>1, <2>2, TurnedIs
  <2>4. r = Going([d EXCEPT !.button = b])
    BY <2>1, <2>2 DEF Fields
  <2> QED BY <1>2, <2>3, <2>4
<1>4. CASE key \in {"down", "right", "tab"}
  <2>1. r = Going([d EXCEPT !.button = Turned(@, "right", 3)])
    BY <1>0, <1>4 DEF FieldCommand
  <2>2. PICK b : b = Turned(d.button, "right", 3)
    OBVIOUS
  <2>3. b \in 0..2
    BY <1>1, <2>2, TurnedIs
  <2>4. r = Going([d EXCEPT !.button = b])
    BY <2>1, <2>2 DEF Fields
  <2> QED BY <1>2, <2>3, <2>4
<1>5. CASE key \in {"o", "h"}
  BY <1>0, <1>1, <1>5 DEF FieldCommand, Over, FieldEnds
<1>6. CASE key \in {"space", "enter"}
  <2>1. r = Over(d, <<"ok", "ok", "help">>[d.button + 1])
    BY <1>0, <1>6 DEF FieldCommand
  <2>2. <<"ok", "ok", "help">>[d.button + 1] # "none"
    BY <1>1
  <2> QED BY <1>1, <2>1, <2>2 DEF Over, FieldEnds
<1>7. CASE key \in {"x", "esc"}
  BY <1>0, <1>1, <1>7 DEF FieldCommand, Over, FieldEnds
<1>8. CASE key = "resize"
  <2>1. r = IF FieldFits(d, h) THEN Going(LayField(d)) ELSE Over(d, "small")
    BY <1>0, <1>8 DEF FieldCommand
  <2>2. CASE FieldFits(d, h)
    <3>1. PICK e : e = LayField(d)
      OBVIOUS
    <3>2. d = [x \in FieldFields |-> d[x]]
      BY DEF Fields, FieldFields
    <3>3. e \in Fields(chars) /\ FieldIsTrue(e)
      BY <1>1, <3>1, <3>2, LaidFieldIs
    <3> QED BY <2>1, <2>2, <3>1, <3>3 DEF Going, FieldGoesOn
  <2>3. CASE ~FieldFits(d, h)
    BY <1>1, <2>1, <2>3 DEF Over, FieldEnds
  <2> QED BY <2>2, <2>3
<1>9. CASE /\ key \notin {"up", "left"} /\ key \notin {"down", "right", "tab"} /\ key \notin {"o", "h"}
           /\ key \notin {"space", "enter"} /\ key \notin {"x", "esc"} /\ key # "resize"
  <2>1. r = Going(d)
    BY <1>0, <1>9 DEF FieldCommand
  <2> QED BY <2>1 DEF Going, FieldGoesOn
<1> QED BY <1>3, <1>4, <1>5, <1>6, <1>7, <1>8, <1>9

\* Whatever key is pressed in an input box, it shows the text around the cursor
\* again or is over, with a text over the same characters (dialog_inputbox).
THEOREM FieldKeyIs ==
    ASSUME NEW chars, Blank \in chars, NEW keys, keys \subseteq chars,
           keys \cap {"backspace", "left", "right"} = {},
           NEW d \in Fields(chars), FieldIsTrue(d), NEW key, NEW h, NEW r
    PROVE  r = FieldKey(d, key, keys, h) => FieldGoesOn(r, chars) \/ FieldEnds(r, chars)
<1>0. SUFFICES ASSUME r = FieldKey(d, key, keys, h) PROVE FieldGoesOn(r, chars) \/ FieldEnds(r, chars)
  OBVIOUS
<1>1. CASE d.button = 0 /\ key \in {"backspace", "left", "right"} \cup keys
  <2>1. PICK e : e = FieldEdit(d, key, keys)
    OBVIOUS
  <2>2. e \in {Rubout(d), MoveLeft(d), MoveRight(d)} \cup {Typed(d, c) : c \in chars}
    <3>1. CASE key \in keys
      <4>1. key \notin {"backspace", "left", "right"} /\ key \in chars
        BY <3>1
      <4>2. e = Typed(d, key)
        BY <2>1, <3>1, <4>1 DEF FieldEdit
      <4> QED BY <4>1, <4>2
    <3>2. CASE key \in {"backspace", "left", "right"}
      <4>1. key \notin keys
        BY <3>2
      <4> QED BY <2>1, <3>2, <4>1 DEF FieldEdit
    <3> QED BY <1>1, <3>1, <3>2
  <2>3. e \in Fields(chars) /\ FieldIsTrue(e)
    BY <2>2, FieldKeepsTrue
  <2>4. r = Going(e)
    BY <1>0, <1>1, <2>1 DEF FieldKey
  <2> QED BY <2>3, <2>4 DEF Going, FieldGoesOn
<1>2. CASE ~(d.button = 0 /\ key \in {"backspace", "left", "right"} \cup keys)
  <2>1. r = FieldCommand(d, key, h)
    BY <1>0, <1>2 DEF FieldKey
  <2> QED BY <2>1, FieldCommandIs
<1> QED BY <1>1, <1>2

\* An input box that is drawn shows its text.
LEMMA OpenFieldIs ==
    ASSUME NEW chars, Blank \in chars, NEW rows, rows \in Int, NEW text, text \in Seq(chars), NEW e
    PROVE  e = LayField(OpenField(rows, text)) => e \in Fields(chars) /\ FieldIsTrue(e)
<1>1. PICK d : d = OpenField(rows, text)
  OBVIOUS
<1>2. /\ d = [x \in FieldFields |-> d[x]] /\ d.kind = "field" /\ d.rows = rows /\ d.text = text
      /\ d.button = 0
  BY <1>1 DEF OpenField, FieldFields
<1>3. d.rows \in Int /\ d.text \in Seq(chars) /\ d.button \in 0..2
  BY <1>2
<1>4. e = LayField(d) => e \in Fields(chars) /\ FieldIsTrue(e)
  BY <1>2, <1>3, LaidFieldIs
<1> QED BY <1>1, <1>4

-----------------------------------------------------------------------------
(* The pointer in a text.                                                  *)

\* What a text box always is.
TextFields == {"kind", "rows", "text", "boxh", "page", "top", "begun", "ended", "length", "passed",
               "hscroll", "updates", "jumps", "hint", "keys", "vscroll"}
IsTextDialog(d) ==
    /\ d = [x \in TextFields |-> d[x]] /\ d.kind = "text"
    /\ d.text.nl \in Nat /\ d.page \in 0..EndOf(d.text) /\ d.length \in Int
    /\ d.boxh \in Nat /\ d.vscroll \in Int /\ (d.rows = 0 \/ (d.rows \in Nat /\ d.rows >= 4))
    /\ d.begun \in BOOLEAN /\ d.ended \in BOOLEAN /\ d.passed \in BOOLEAN

\* d with the pointer at another line.
Leafing == {"page", "begun", "ended", "length", "passed"}
InText(d) == {d[x] : x \in TextFields} \cup Int \cup BOOLEAN
Leafed(d) ==
    {e \in [TextFields -> InText(d)] :
       /\ e.page \in 0..EndOf(d.text) /\ e.length \in Int
       /\ e.begun \in BOOLEAN /\ e.ended \in BOOLEAN /\ e.passed \in BOOLEAN
       /\ \A x \in TextFields : x \notin Leafing => e[x] = d[x]}

\* The end of a text is after its last line.
LEMMA EndIs ==
    ASSUME NEW d, IsTextDialog(d)
    PROVE  EndOf(d.text) \in Nat /\ d.text.nl \in Nat /\ d.text.nl <= EndOf(d.text) /\ EndOf(d.text) <= d.text.nl + 1
<1>1. d.text.nl \in Nat
  BY DEF IsTextDialog
<1>2. EndOf(d.text) = d.text.nl + 1 \/ EndOf(d.text) = d.text.nl + 0
  BY DEF EndOf
<1> QED BY <1>1, <1>2

\* What a text box keeps, and what may change, when its pointer moves.
LEMMA LeafedHas ==
    ASSUME NEW d, IsTextDialog(d), NEW e \in Leafed(d)
    PROVE  /\ e = [x \in TextFields |-> e[x]] /\ DOMAIN e = TextFields
           /\ e.page \in 0..EndOf(d.text) /\ e.length \in Int
           /\ e.begun \in BOOLEAN /\ e.ended \in BOOLEAN /\ e.passed \in BOOLEAN
           /\ \A x \in TextFields : x \notin Leafing => e[x] = d[x]
           /\ e.text = d.text /\ IsTextDialog(e)
<1>1. /\ e = [x \in TextFields |-> e[x]] /\ DOMAIN e = TextFields
      /\ e.page \in 0..EndOf(d.text) /\ e.length \in Int
      /\ e.begun \in BOOLEAN /\ e.ended \in BOOLEAN /\ e.passed \in BOOLEAN
      /\ \A x \in TextFields : x \notin Leafing => e[x] = d[x]
  BY DEF Leafed
<1>2. e.text = d.text /\ e.kind = d.kind /\ e.boxh = d.boxh /\ e.vscroll = d.vscroll /\ e.rows = d.rows
  BY <1>1 DEF Leafing, TextFields
<1>3. IsTextDialog(e)
  BY <1>1, <1>2 DEF IsTextDialog
<1> QED BY <1>1, <1>2, <1>3

\* How to see that only the pointer has moved.
LEMMA LeafedIs ==
    ASSUME NEW d, IsTextDialog(d), NEW e, e = [x \in TextFields |-> e[x]],
           e.page \in 0..EndOf(d.text), e.length \in Int,
           e.begun \in BOOLEAN, e.ended \in BOOLEAN, e.passed \in BOOLEAN,
           \A x \in TextFields : x \notin Leafing => e[x] = d[x]
    PROVE  e \in Leafed(d)
<1>1. \A x \in TextFields : e[x] \in InText(d)
  <2> SUFFICES ASSUME NEW x \in TextFields PROVE e[x] \in InText(d)
    OBVIOUS
  <2>1. CASE x \in Leafing
    <3>1. e.page \in Int
      BY EndIs
    <3> QED BY <2>1, <3>1 DEF Leafing, InText
  <2>2. CASE x \notin Leafing
    BY <2>2 DEF InText
  <2> QED BY <2>1, <2>2
<1>2. e \in [TextFields -> InText(d)]
  BY <1>1
<1> QED BY <1>2 DEF Leafed

\* e with the values of the pointer given.
Pointing(e, page, length, begun, ended, passed) ==
    [e EXCEPT !.page = page, !.length = length, !.begun = begun, !.ended = ended, !.passed = passed]

\* The pointer may be set to any line.
LEMMA LeafedTo ==
    ASSUME NEW d, IsTextDialog(d), NEW e \in Leafed(d), NEW page, page \in 0..EndOf(d.text),
           NEW length, length \in Int, NEW begun, begun \in BOOLEAN, NEW ended, ended \in BOOLEAN,
           NEW passed, passed \in BOOLEAN,
           NEW p, p = Pointing(e, page, length, begun, ended, passed)
    PROVE  /\ p \in Leafed(d)
           /\ p.page = page /\ p.length = length /\ p.begun = begun /\ p.ended = ended /\ p.passed = passed
<1>1. /\ e = [x \in TextFields |-> e[x]] /\ DOMAIN e = TextFields
      /\ \A x \in TextFields : x \notin Leafing => e[x] = d[x]
  BY LeafedHas
<1>2. /\ p = [x \in TextFields |-> p[x]]
      /\ p.page = page /\ p.length = length /\ p.begun = begun /\ p.ended = ended /\ p.passed = passed
      /\ \A x \in TextFields : x \notin Leafing => p[x] = e[x]
  BY <1>1 DEF Leafing, TextFields, Pointing
<1>3. \A x \in TextFields : x \notin Leafing => p[x] = d[x]
  BY <1>1, <1>2
<1>4. p \in Leafed(d)
  BY <1>2, <1>3, LeafedIs
<1> QED BY <1>2, <1>4

\* get_line goes one line further, and tells the end of the text.
LEMMA GetLineIs ==
    ASSUME NEW d, IsTextDialog(d), NEW e \in Leafed(d), NEW p
    PROVE  p = GetLine(e) =>
             /\ p \in Leafed(d)
             /\ p.page = Smaller(e.page + 1, EndOf(d.text)) /\ p.length = e.length /\ p.passed = e.passed
             /\ (p.ended <=> e.page = EndOf(d.text) \/ e.page = d.text.nl)
<1>0. SUFFICES ASSUME p = GetLine(e)
      PROVE  /\ p \in Leafed(d)
             /\ p.page = Smaller(e.page + 1, EndOf(d.text)) /\ p.length = e.length /\ p.passed = e.passed
             /\ (p.ended <=> e.page = EndOf(d.text) \/ e.page = d.text.nl)
  OBVIOUS
<1>1. /\ e = [x \in TextFields |-> e[x]] /\ DOMAIN e = TextFields
      /\ e.page \in 0..EndOf(d.text) /\ e.length \in Int
      /\ e.begun \in BOOLEAN /\ e.ended \in BOOLEAN /\ e.passed \in BOOLEAN
      /\ \A x \in TextFields : x \notin Leafing => e[x] = d[x]
      /\ e.text = d.text /\ IsTextDialog(e)
  BY LeafedHas
<1>2. EndOf(d.text) \in Nat
  BY EndIs
<1>3. PICK page : page = IF e.page = EndOf(d.text) THEN e.page ELSE e.page + 1
  OBVIOUS
<1>4. page \in 0..EndOf(d.text) /\ page = Smaller(e.page + 1, EndOf(d.text))
  BY <1>1, <1>2, <1>3 DEF Smaller
<1>5. PICK ended \in BOOLEAN : ended = (e.page = EndOf(d.text) \/ e.page = d.text.nl)
  OBVIOUS
<1>6. p = [e EXCEPT !.page = page, !.ended = ended]
  BY <1>0, <1>1, <1>3, <1>5 DEF GetLine, TextFields
<1>7. p = Pointing(e, page, e.length, e.begun, ended, e.passed)
  BY <1>1, <1>6 DEF TextFields, Pointing
<1>8. /\ p \in Leafed(d)
      /\ p.page = page /\ p.length = e.length /\ p.begun = e.begun /\ p.ended = ended /\ p.passed = e.passed
  <2>1. page \in 0..EndOf(d.text)
    BY <1>4
  <2>2. e.length \in Int /\ e.begun \in BOOLEAN /\ ended \in BOOLEAN /\ e.passed \in BOOLEAN
    BY <1>1
  <2>3. p \in Leafed(d)
    BY <1>7, <2>1, <2>2, LeafedTo
  <2> QED BY <1>1, <1>6, <2>3 DEF TextFields
<1> QED BY <1>4, <1>5, <1>8

\* print_line moves the pointer and nothing else.
LEMMA PrintLineIs ==
    ASSUME NEW d, IsTextDialog(d), NEW e \in Leafed(d)
    PROVE  PrintLine(e) \in Leafed(d)
<1>1. PICK g : g = GetLine(e)
  OBVIOUS
<1>2. /\ g \in Leafed(d)
      /\ g.page = Smaller(e.page + 1, EndOf(d.text)) /\ g.length = e.length /\ g.passed = e.passed
      /\ (g.ended <=> e.page = EndOf(d.text) \/ e.page = d.text.nl)
  BY <1>1, GetLineIs
<1>3. g \in Leafed(d)
  BY <1>2
<1>4. /\ g = [x \in TextFields |-> g[x]] /\ DOMAIN g = TextFields
      /\ g.page \in 0..EndOf(d.text) /\ g.length \in Int
      /\ g.begun \in BOOLEAN /\ g.ended \in BOOLEAN /\ g.passed \in BOOLEAN
      /\ \A x \in TextFields : x \notin Leafing => g[x] = d[x]
      /\ g.text = d.text /\ IsTextDialog(g)
  BY <1>3, LeafedHas
<1>5. PICK length : length = IF e.passed THEN g.length ELSE g.length + 1
  OBVIOUS
<1>6. length \in Int
  BY <1>4, <1>5
<1>7. PICK passed \in BOOLEAN : passed = (g.ended \/ g.passed)
  BY <1>4
<1>8. PICK p : p = [g EXCEPT !.length = length, !.passed = passed]
  OBVIOUS
<1>9. PrintLine(e) = p
  BY <1>1, <1>2, <1>4, <1>5, <1>7, <1>8 DEF PrintLine, TextFields
<1>10. p = Pointing(g, g.page, length, g.begun, g.ended, passed)
  BY <1>4, <1>8 DEF TextFields, Pointing
<1>11. /\ p \in Leafed(d)
       /\ p.page = g.page /\ p.length = length /\ p.begun = g.begun /\ p.ended = g.ended /\ p.passed = passed
  BY <1>3, <1>4, <1>6, <1>7, <1>10, LeafedTo
<1> QED BY <1>9, <1>11

\* One line back, and whether to go on.
Backs(d) == [d : Leafed(d), stop : BOOLEAN]

IsBack(p, a, d) ==
    /\ p \in Backs(d)
    /\ a.stop => p = a
    /\ ~a.stop /\ a.d.page = EndOf(d.text) /\ a.d.ended =>
         p.d.page = a.d.page /\ ~p.stop /\ ~p.d.ended
    /\ ~a.stop /\ ~(a.d.page = EndOf(d.text) /\ a.d.ended) =>
         /\ p.d.page = Larger(a.d.page - 1, 0) /\ (p.stop <=> a.d.page <= 1)
         /\ p.d.ended <=> a.d.ended

\* One step of back_lines.
LEMMA LineBackIs ==
    ASSUME NEW d, IsTextDialog(d), NEW a \in Backs(d), NEW p
    PROVE  p = LineBack(a) => IsBack(p, a, d)
<1>0. SUFFICES ASSUME p = LineBack(a) PROVE IsBack(p, a, d)
  OBVIOUS
<1>1. PICK e \in Leafed(d) : e = a.d
  BY DEF Backs
<1>2. /\ e = [x \in TextFields |-> e[x]] /\ DOMAIN e = TextFields
      /\ e.page \in 0..EndOf(d.text) /\ e.length \in Int
      /\ e.begun \in BOOLEAN /\ e.ended \in BOOLEAN /\ e.passed \in BOOLEAN
      /\ \A x \in TextFields : x \notin Leafing => e[x] = d[x]
      /\ e.text = d.text /\ IsTextDialog(e)
  BY LeafedHas
<1>3. EndOf(d.text) \in Nat /\ a.stop \in BOOLEAN /\ a = [d |-> e, stop |-> a.stop]
  BY <1>1, EndIs DEF Backs
<1>4. CASE a.stop
  BY <1>0, <1>4 DEF LineBack, IsBack
<1>5. CASE ~a.stop /\ e.page = EndOf(d.text) /\ e.ended
  <2>1. PICK g : g = [e EXCEPT !.ended = FALSE]
    OBVIOUS
  <2>2. p = [d |-> g, stop |-> a.stop]
    <3>1. p = [a EXCEPT !.d.ended = FALSE]
      BY <1>0, <1>1, <1>2, <1>5 DEF LineBack
    <3>2. [a EXCEPT !.d.ended = FALSE] = [a EXCEPT !.d = [@ EXCEPT !.ended = FALSE]]
      OBVIOUS
    <3>3. p = [a EXCEPT !.d = g]
      BY <1>1, <2>1, <3>1, <3>2
    <3>4. DOMAIN a = {"d", "stop"}
      BY DEF Backs
    <3> QED BY <1>3, <3>3, <3>4
  <2>3. g = Pointing(e, e.page, e.length, e.begun, FALSE, e.passed)
    BY <1>2, <2>1 DEF TextFields, Pointing
  <2>4. /\ g \in Leafed(d)
        /\ g.page = e.page /\ g.length = e.length /\ g.begun = e.begun /\ g.ended = FALSE /\ g.passed = e.passed
    <3>1. e.page \in 0..EndOf(d.text)
      BY <1>2
    <3>2. e.length \in Int /\ e.begun \in BOOLEAN /\ FALSE \in BOOLEAN /\ e.passed \in BOOLEAN
      BY <1>2
    <3>3. PICK no : no = FALSE
      OBVIOUS
    <3>4. no \in BOOLEAN /\ g = Pointing(e, e.page, e.length, e.begun, no, e.passed)
      BY <2>3, <3>3
    <3>5. g \in Leafed(d)
      BY <3>1, <3>2, <3>4, LeafedTo
    <3> QED BY <1>2, <2>1, <3>5 DEF TextFields
  <2>5. p \in Backs(d) /\ p.d = g /\ p.stop = a.stop
    BY <1>3, <2>2, <2>4 DEF Backs
  <2> QED BY <1>1, <1>3, <1>5, <2>4, <2>5 DEF IsBack
<1>6. CASE ~a.stop /\ ~(e.page = EndOf(d.text) /\ e.ended)
  <2>1. PICK page : page = Larger(e.page - 1, 0)
    OBVIOUS
  <2>2. page \in 0..EndOf(d.text)
    BY <1>2, <1>3, <2>1 DEF Larger
  <2>3. PICK few \in BOOLEAN : few <=> e.page <= 1
    <3>1. (e.page <= 1) \in BOOLEAN
      BY <1>2
    <3> QED BY <3>1
  <2>4. PICK g : g = [e EXCEPT !.page = page, !.begun = few]
    OBVIOUS
  <2>5. p = [d |-> g, stop |-> few]
    <3>1. ~(~a.stop /\ a.d.page = EndOf(a.d.text) /\ a.d.ended)
      BY <1>1, <1>2, <1>6
    <3>2. LineBack(a) = [d |-> [a.d EXCEPT !.page = Larger(@ - 1, 0), !.begun = a.d.page <= 1],
                         stop |-> a.d.page <= 1]
      BY <1>6, <3>1 DEF LineBack
    <3>3. g = [a.d EXCEPT !.page = Larger(@ - 1, 0), !.begun = a.d.page <= 1]
      <4>1. (e.page <= 1) = few
        BY <1>2, <2>3
      <4>2. g = [e EXCEPT !.page = Larger(@ - 1, 0), !.begun = few]
        BY <1>2, <2>1, <2>4 DEF TextFields
      <4> QED BY <1>1, <4>1, <4>2
    <3>4. (a.d.page <= 1) = few
      BY <1>1, <1>2, <2>3
    <3> QED BY <1>0, <3>2, <3>3, <3>4
  <2>6. g = Pointing(e, page, e.length, few, e.ended, e.passed)
    BY <1>2, <2>4 DEF TextFields, Pointing
  <2>7. /\ g \in Leafed(d)
        /\ g.page = page /\ g.length = e.length /\ g.begun = few /\ g.ended = e.ended /\ g.passed = e.passed
    <3>1. e.length \in Int /\ few \in BOOLEAN /\ e.ended \in BOOLEAN /\ e.passed \in BOOLEAN
      BY <1>2
    <3> QED BY <2>2, <2>6, <3>1, LeafedTo
  <2>8. p \in Backs(d) /\ p.d = g /\ p.stop = few
    BY <2>3, <2>5, <2>7 DEF Backs
  <2> QED BY <1>1, <1>6, <2>1, <2>3, <2>7, <2>8 DEF IsBack
<1> QED BY <1>3, <1>4, <1>5, <1>6

\* Where the pointer is after n lines, and whether the end is reached.
LEMMA GetLinesIs ==
    ASSUME NEW d, IsTextDialog(d), NEW e \in Leafed(d), NEW n, n \in Int, NEW p
    PROVE  p = GetLines(e, n) =>
             /\ p \in Leafed(d)
             /\ n <= 0 => p = e
             /\ n > 0 => /\ p.page = Smaller(e.page + n, EndOf(d.text))
                         /\ (p.ended <=> Smaller(e.page + (n - 1), EndOf(d.text)) \in {EndOf(d.text), d.text.nl})
<1>0. SUFFICES ASSUME p = GetLines(e, n)
      PROVE  /\ p \in Leafed(d)
             /\ n <= 0 => p = e
             /\ n > 0 => /\ p.page = Smaller(e.page + n, EndOf(d.text))
                         /\ (p.ended <=> Smaller(e.page + (n - 1), EndOf(d.text)) \in {EndOf(d.text), d.text.nl})
  OBVIOUS
<1> DEFINE D == Leafed(d)
<1>1. \A g \in D : GetLine(g) \in D
  BY GetLineIs
<1> HIDE DEF D
<1>2. e \in D
  BY DEF D
<1>3. GetsFrom(D, e, n)
  BY <1>1, <1>2, GetLineRepeats
<1>4. PICK f \in [Nat -> D] :
        /\ f[0] = e /\ \A i \in Nat : f[i + 1] = GetLine(f[i])
        /\ GetLines(e, n) = f[Larger(n, 0)]
  BY <1>3 DEF GetsFrom
<1>5. PICK end : end = EndOf(d.text)
  OBVIOUS
<1>6. end \in Nat /\ e.page \in 0..end
  BY <1>5, EndIs, LeafedHas
<1>7. ASSUME NEW i \in Nat
      PROVE  /\ f[i + 1].page = Smaller(f[i].page + 1, end)
             /\ (f[i + 1].ended <=> f[i].page = end \/ f[i].page = d.text.nl)
  <2>1. PICK g \in Leafed(d) : g = f[i]
    BY DEF D
  <2>2. PICK h : h = GetLine(g)
    OBVIOUS
  <2>3. /\ h \in Leafed(d)
        /\ h.page = Smaller(g.page + 1, EndOf(d.text)) /\ h.length = g.length /\ h.passed = g.passed
        /\ (h.ended <=> g.page = EndOf(d.text) \/ g.page = d.text.nl)
    BY <2>2, GetLineIs
  <2>4. f[i + 1] = h
    BY <1>4, <2>1, <2>2
  <2> QED BY <1>5, <2>1, <2>3, <2>4
<1>8. ASSUME NEW m \in Nat PROVE f[m].page = Smaller(e.page + m, end)
  <2> DEFINE S == {i \in Nat : f[i].page = Smaller(e.page + i, end)}
  <2>1. 0 \in S
    <3>1. f[0].page = Smaller(e.page + 0, end)
      BY <1>4, <1>6 DEF Smaller
    <3> QED BY <3>1
  <2>2. ASSUME NEW i \in 0..(m - 1), i \in S PROVE i + 1 \in S
    <3>1. f[i].page = Smaller(e.page + i, end) /\ i \in Nat
      BY <2>2
    <3>2. f[i + 1].page = Smaller(f[i].page + 1, end)
      BY <1>7, <3>1
    <3>3. f[i + 1].page = Smaller(e.page + (i + 1), end)
      BY <1>6, <3>1, <3>2 DEF Smaller
    <3> QED BY <3>1, <3>3
  <2> HIDE DEF S
  <2>3. m \in S
    BY <2>1, <2>2, Climb
  <2> QED BY <2>3 DEF S
<1>9. p \in Leafed(d)
  <2>1. Larger(n, 0) \in Nat
    BY DEF Larger
  <2>2. f[Larger(n, 0)] \in D
    BY <2>1
  <2> QED BY <1>0, <1>4, <2>2 DEF D
<1>10. ASSUME n <= 0 PROVE p = e
  <2>1. Larger(n, 0) = 0
    BY <1>10 DEF Larger
  <2> QED BY <1>0, <1>4, <2>1
<1>11. ASSUME n > 0
       PROVE  /\ p.page = Smaller(e.page + n, end)
              /\ (p.ended <=> Smaller(e.page + (n - 1), end) \in {end, d.text.nl})
  <2>1. Larger(n, 0) = n /\ n \in Nat
    BY <1>11 DEF Larger
  <2>2. p = f[n]
    BY <1>0, <1>4, <2>1
  <2>3. p.page = Smaller(e.page + n, end)
    BY <1>8, <2>1, <2>2
  <2>4. PICK i \in Nat : i = n - 1 /\ n = i + 1
    BY <1>11
  <2>5. f[i].page = Smaller(e.page + (n - 1), end)
    BY <1>8, <2>4
  <2>6. p.ended <=> f[i].page = end \/ f[i].page = d.text.nl
    BY <1>7, <2>2, <2>4
  <2> QED BY <2>3, <2>5, <2>6
<1> QED BY <1>5, <1>9, <1>10, <1>11

\* Where the pointer is after going n lines back: at the end of the text the
\* first line only takes back that the end was reached.
LEMMA BackLinesIs ==
    ASSUME NEW d, IsTextDialog(d), NEW e \in Leafed(d), NEW n, n \in Int, NEW p
    PROVE  p = BackLines(e, n) =>
             /\ p \in Leafed(d)
             /\ n <= 0 => p.page = e.page
             /\ n > 0 => p.page = Larger(IF e.page = EndOf(d.text) /\ e.ended
                                         THEN e.page - (n - 1) ELSE e.page - n, 0)
<1>0. SUFFICES ASSUME p = BackLines(e, n)
      PROVE  /\ p \in Leafed(d)
             /\ n <= 0 => p.page = e.page
             /\ n > 0 => p.page = Larger(IF e.page = EndOf(d.text) /\ e.ended
                                         THEN e.page - (n - 1) ELSE e.page - n, 0)
  OBVIOUS
<1>1. /\ e = [x \in TextFields |-> e[x]] /\ DOMAIN e = TextFields
      /\ e.page \in 0..EndOf(d.text) /\ e.length \in Int
      /\ e.begun \in BOOLEAN /\ e.ended \in BOOLEAN /\ e.passed \in BOOLEAN
      /\ \A x \in TextFields : x \notin Leafing => e[x] = d[x]
      /\ e.text = d.text /\ IsTextDialog(e)
  BY LeafedHas
<1>2. PICK no : no = FALSE
  OBVIOUS
<1>3. PICK g : g = [e EXCEPT !.begun = FALSE]
  OBVIOUS
<1>4. g \in Leafed(d) /\ g.page = e.page /\ g.ended = e.ended
  <2>1. g = Pointing(e, e.page, e.length, no, e.ended, e.passed)
    BY <1>1, <1>2, <1>3 DEF Pointing, TextFields
  <2>2. e.page \in 0..EndOf(d.text)
    BY <1>1
  <2>3. e.length \in Int /\ no \in BOOLEAN /\ e.ended \in BOOLEAN /\ e.passed \in BOOLEAN
    BY <1>1, <1>2
  <2>4. g \in Leafed(d)
    BY <2>1, <2>2, <2>3, LeafedTo
  <2> QED BY <1>1, <1>3, <2>4 DEF TextFields
<1>5. PICK a : a = [d |-> g, stop |-> FALSE]
  OBVIOUS
<1> DEFINE D == Backs(d)
<1>6. a \in D
  BY <1>4, <1>5 DEF Backs
<1>7. \A b \in D : LineBack(b) \in D
  <2> SUFFICES ASSUME NEW b \in Backs(d) PROVE LineBack(b) \in Backs(d)
    OBVIOUS
  <2>1. PICK q : q = LineBack(b)
    OBVIOUS
  <2>2. IsBack(q, b, d)
    BY <2>1, LineBackIs
  <2> QED BY <2>1, <2>2 DEF IsBack
<1> HIDE DEF D
<1>8. GoesBackFrom(D, a, n)
  BY <1>6, <1>7, LineBackRepeats
<1>9. PICK f \in [Nat -> D] :
        /\ f[0] = a /\ \A i \in Nat : f[i + 1] = LineBack(f[i])
        /\ LinesBack(a, n) = f[Larger(n, 0)]
  BY <1>8 DEF GoesBackFrom
<1>10. PICK end : end = EndOf(d.text)
  OBVIOUS
<1>11. end \in Nat /\ e.page \in 0..end
  BY <1>1, <1>10, EndIs
<1> DEFINE late == e.page = end /\ e.ended
           At(i) == Larger(IF late /\ i > 0 THEN e.page - (i - 1) ELSE e.page - i, 0)
           Good(i) == /\ f[i].d.page = At(i) /\ (f[i].stop => At(i) = 0)
                      /\ f[i].d.ended <=> e.ended /\ ~(late /\ i > 0)
<1>12. ASSUME NEW i \in Nat
       PROVE  /\ f[i].stop => f[i + 1] = f[i]
              /\ ~f[i].stop /\ f[i].d.page = end /\ f[i].d.ended =>
                   f[i + 1].d.page = f[i].d.page /\ ~f[i + 1].stop /\ ~f[i + 1].d.ended
              /\ ~f[i].stop /\ ~(f[i].d.page = end /\ f[i].d.ended) =>
                   /\ f[i + 1].d.page = Larger(f[i].d.page - 1, 0)
                   /\ (f[i + 1].stop <=> f[i].d.page <= 1)
                   /\ f[i + 1].d.ended <=> f[i].d.ended
  <2>1. PICK b \in Backs(d) : b = f[i]
    BY DEF D
  <2>2. PICK q : q = LineBack(b)
    OBVIOUS
  <2>3. IsBack(q, b, d)
    BY <2>2, LineBackIs
  <2>4. f[i + 1] = q
    BY <1>9, <2>1, <2>2
  <2> QED BY <1>10, <2>1, <2>3, <2>4 DEF IsBack
<1>13. ASSUME NEW m \in Nat PROVE Good(m)
  <2> DEFINE S == {i \in Nat : Good(i)}
  <2>1. 0 \in S
    <3>1. f[0].d = g /\ f[0].stop = FALSE
      BY <1>5, <1>9
    <3>2. At(0) = e.page
      BY <1>11 DEF Larger
    <3> QED BY <1>1, <1>4, <3>1, <3>2
  <2>2. ASSUME NEW i \in 0..(m - 1), i \in S PROVE i + 1 \in S
    <3>1. Good(i) /\ i \in Nat
      BY <2>2
    <3>2. f[i].stop \in BOOLEAN /\ f[i].d.ended \in BOOLEAN
      <4>1. f[i] \in Backs(d)
        BY <3>1 DEF D
      <4> QED BY <4>1 DEF Backs, Leafed
    <3>3. CASE f[i].stop
      <4>1. f[i + 1] = f[i]
        BY <1>12, <3>1, <3>3
      <4>2. At(i) = 0 /\ At(i + 1) = 0
        BY <1>11, <3>1, <3>3 DEF Larger
      <4>3. i > 0
        BY <1>5, <1>9, <3>1, <3>3
      <4> QED BY <3>1, <4>1, <4>2, <4>3
    <3>4. CASE ~f[i].stop /\ f[i].d.page = end /\ f[i].d.ended
      <4>1. f[i + 1].d.page = end /\ ~f[i + 1].stop /\ ~f[i + 1].d.ended
        BY <1>12, <3>1, <3>4
      <4>2. e.ended /\ ~(late /\ i > 0)
        BY <3>1, <3>4
      <4>3. e.page = end /\ i = 0
        BY <1>11, <3>1, <3>4, <4>2 DEF Larger
      <4> QED BY <1>11, <3>1, <4>1, <4>2, <4>3 DEF Larger
    <3>5. CASE ~f[i].stop /\ ~(f[i].d.page = end /\ f[i].d.ended)
      <4>1. /\ f[i + 1].d.page = Larger(f[i].d.page - 1, 0)
            /\ (f[i + 1].stop <=> f[i].d.page <= 1)
            /\ f[i + 1].d.ended <=> f[i].d.ended
        BY <1>12, <3>1, <3>5
      <4>2. late => i > 0
        BY <1>11, <3>1, <3>5 DEF Larger
      <4>3. At(i + 1) = Larger(At(i) - 1, 0)
        BY <1>11, <3>1, <4>2 DEF Larger
      <4>4. f[i + 1].stop => At(i + 1) = 0
        BY <1>11, <3>1, <4>1, <4>3 DEF Larger
      <4>5. f[i + 1].d.ended <=> e.ended /\ ~(late /\ i + 1 > 0)
        BY <3>1, <4>1, <4>2
      <4> QED BY <3>1, <4>1, <4>3, <4>4, <4>5
    <3> QED BY <3>2, <3>3, <3>4, <3>5
  <2> HIDE DEF S
  <2>3. m \in S
    BY <2>1, <2>2, Climb
  <2> QED BY <2>3 DEF S
<1>14. p = f[Larger(n, 0)].d
  BY <1>0, <1>3, <1>5, <1>9 DEF BackLines
<1>15. p \in Leafed(d)
  <2>1. Larger(n, 0) \in Nat
    BY DEF Larger
  <2>2. f[Larger(n, 0)] \in Backs(d)
    BY <2>1 DEF D
  <2> QED BY <1>14, <2>2 DEF Backs
<1>16. ASSUME n <= 0 PROVE p.page = e.page
  <2>1. Larger(n, 0) = 0
    BY <1>16 DEF Larger
  <2> QED BY <1>4, <1>5, <1>9, <1>14, <2>1
<1>17. ASSUME n > 0 PROVE p.page = Larger(IF e.page = end /\ e.ended THEN e.page - (n - 1) ELSE e.page - n, 0)
  <2>1. Larger(n, 0) = n /\ n \in Nat
    BY <1>17 DEF Larger
  <2>2. f[n].d.page = At(n)
    BY <1>13, <2>1
  <2>3. p = f[n].d
    BY <1>14, <2>1
  <2> QED BY <1>17, <2>2, <2>3
<1> QED BY <1>10, <1>15, <1>16, <1>17

-----------------------------------------------------------------------------
(* The jump keys of a page.                                                *)

\* Numbers closer to each other than m have different remainders.
LEMMA Remainders ==
    ASSUME NEW m, m \in Nat, m > 0, NEW i, i \in Int, NEW j, j \in Int, i < j, j - i < m
    PROVE  i % m # j % m
<1>1. PICK q \in Int : i = q * m + (i % m)
  <2>1. i = (i \div m) * m + (i % m) /\ i \div m \in Int
    OBVIOUS
  <2> QED BY <2>1
<1>2. PICK r \in Int : j = r * m + (j % m)
  <2>1. j = (j \div m) * m + (j % m) /\ j \div m \in Int
    OBVIOUS
  <2> QED BY <2>1
<1>3. i % m \in Int /\ j % m \in Int
  OBVIOUS
<1> SUFFICES ASSUME i % m = j % m PROVE FALSE
  OBVIOUS
<1>4. PICK k \in Int : k = r - q
  OBVIOUS
<1>5. k * m = j - i
  <2>1. (r - q) * m = r * m - q * m
    OBVIOUS
  <2>2. q * m \in Int /\ r * m \in Int
    OBVIOUS
  <2> QED BY <1>1, <1>2, <1>3, <1>4, <2>1, <2>2
<1>6. CASE k >= 1
  <2>1. k * m >= m
    BY <1>6
  <2> QED BY <1>5, <2>1
<1>7. CASE k <= 0
  <2>1. k * m <= 0
    BY <1>7
  <2> QED BY <1>5, <2>1
<1> QED BY <1>6, <1>7

\* Places on one page have keys of their own: those with a key are so close
\* to each other that their numbers differ by less than JumpNb.
LEMMA KeysDiffer ==
    ASSUME NEW n, n \in Nat, NEW page, page \subseteq 1..n,
           \A i, j \in page : \A k \in 1..n : i <= k /\ k <= j => k \in page,
           NEW i, i \in Given(page), NEW j, j \in Given(page), i < j
    PROVE  KeyOf(i) # KeyOf(j)
<1>1. i \in page /\ j \in page /\ i \in 1..n /\ j \in 1..n
  BY DEF Given
<1>2. JumpNb \in Nat /\ JumpNb > 0
  BY DialogsConstantsOK
<1> DEFINE before == {k \in page : k < j}
           between == i..(j - 1)
<1>3. between \subseteq before
  <2> SUFFICES ASSUME NEW k \in i..(j - 1) PROVE k \in page /\ k < j
    OBVIOUS
  <2>1. k \in 1..n /\ i <= k /\ k <= j /\ k < j
    BY <1>1
  <2> QED BY <1>1, <2>1
<1>4. IsFiniteSet(before)
  <2>1. IsFiniteSet(1..n)
    BY FS_Interval
  <2>2. before \subseteq 1..n
    OBVIOUS
  <2> QED BY <2>1, <2>2, FS_Subset
<1>5. Cardinality(before) < JumpNb
  BY DEF Given
<1>6. Cardinality(between) = j - i
  <2>1. Cardinality(between) = (j - 1) - i + 1
    BY <1>1, FS_Interval
  <2> QED BY <1>1, <2>1
<1>7. Cardinality(between) <= Cardinality(before)
  BY <1>3, <1>4, FS_Subset
<1>8. Cardinality(before) \in Nat
  BY <1>4, FS_CardinalityType
<1> HIDE DEF before, between
<1>9. j - i < JumpNb
  BY <1>1, <1>2, <1>5, <1>6, <1>7, <1>8
<1>10. PICK a : a = i - 1
  OBVIOUS
<1>11. PICK b : b = j - 1
  OBVIOUS
<1>12. a \in Int /\ b \in Int /\ a < b /\ b - a < JumpNb
  BY <1>1, <1>9, <1>10, <1>11
<1>13. a % JumpNb # b % JumpNb
  BY <1>2, <1>12, Remainders
<1>14. a % JumpNb \in Int /\ b % JumpNb \in Int
  BY <1>2, <1>12
<1> QED BY <1>10, <1>11, <1>13, <1>14 DEF KeyOf

\* No jump key is 0, which stands for none.
LEMMA KeyIs ==
    ASSUME NEW i, i \in Int
    PROVE  KeyOf(i) # 0
<1>1. JumpNb \in Nat /\ JumpNb > 0
  BY DialogsConstantsOK
<1>2. (i - 1) % JumpNb \in 0..(JumpNb - 1)
  BY <1>1
<1> QED BY <1>2 DEF KeyOf

\* A text box is one of those with a pointer somewhere.
LEMMA LeafedSelf ==
    ASSUME NEW d, IsTextDialog(d)
    PROVE  d \in Leafed(d)
BY LeafedIs DEF IsTextDialog

\* Printing lines moves the pointer and nothing else.
LEMMA PrintLinesIs ==
    ASSUME NEW d, IsTextDialog(d), NEW e \in Leafed(d), NEW n, n \in Int
    PROVE  PrintLines(e, n) \in Leafed(d)
<1> DEFINE D == Leafed(d)
<1>1. \A x \in D : PrintLine(x) \in D
  BY PrintLineIs
<1> HIDE DEF D
<1>2. e \in D
  BY DEF D
<1>3. PrintsFrom(D, e, n)
  BY <1>1, <1>2, PrintLineRepeats
<1>4. Larger(n, 0) \in Nat
  BY DEF Larger
<1>5. PrintLines(e, n) \in D
  BY <1>3, <1>4 DEF PrintsFrom
<1> QED BY <1>5 DEF D

\* p shows the page that d is at.
Paged(p, d) ==
    /\ IsTextDialog(p) /\ p.top = d.page
    /\ \A x \in TextFields : x \notin Leafing \cup {"top"} => p[x] = d[x]

\* print_page shows the page the pointer was at.
LEMMA PrintPageIs ==
    ASSUME NEW d, IsTextDialog(d), NEW p
    PROVE  p = PrintPage(d) => Paged(p, d)
<1>0. SUFFICES ASSUME p = PrintPage(d) PROVE Paged(p, d)
  OBVIOUS
<1>1. /\ d = [x \in TextFields |-> d[x]] /\ DOMAIN d = TextFields /\ d.boxh \in Nat
      /\ d.page \in 0..EndOf(d.text) /\ d.begun \in BOOLEAN /\ d.ended \in BOOLEAN
  BY DEF IsTextDialog
<1>2. PICK e : e = [d EXCEPT !.top = d.page, !.length = 0, !.passed = FALSE]
  OBVIOUS
<1>3. /\ e = [x \in TextFields |-> e[x]] /\ e.top = d.page /\ e.length = 0 /\ ~e.passed /\ e.passed \in BOOLEAN
      /\ \A x \in TextFields : x \notin {"top", "length", "passed"} => e[x] = d[x]
  BY <1>1, <1>2 DEF TextFields
<1>4. /\ e.kind = d.kind /\ e.text = d.text /\ e.page = d.page /\ e.boxh = d.boxh /\ e.vscroll = d.vscroll
      /\ e.rows = d.rows /\ e.begun = d.begun /\ e.ended = d.ended
  BY <1>3 DEF TextFields
<1>5. IsTextDialog(e)
  BY <1>3, <1>4 DEF IsTextDialog
<1>6. PICK n : n = d.boxh
  OBVIOUS
<1>7. n \in Int
  BY <1>1, <1>6
<1>8. e \in Leafed(e)
  BY <1>5, LeafedSelf
<1>9. PrintLines(e, n) \in Leafed(e)
  BY <1>5, <1>7, <1>8, PrintLinesIs
<1>10. p = PrintLines(e, n)
  BY <1>0, <1>2, <1>6 DEF PrintPage
<1>11. p \in Leafed(e)
  BY <1>9, <1>10
<1>12. /\ p = [x \in TextFields |-> p[x]] /\ DOMAIN p = TextFields
       /\ p.page \in 0..EndOf(e.text) /\ p.length \in Int
       /\ p.begun \in BOOLEAN /\ p.ended \in BOOLEAN /\ p.passed \in BOOLEAN
       /\ \A x \in TextFields : x \notin Leafing => p[x] = e[x]
       /\ p.text = e.text /\ IsTextDialog(p)
  BY <1>5, <1>11, LeafedHas
<1>13. p.top = d.page
  BY <1>3, <1>12 DEF TextFields, Leafing
<1>14. \A x \in TextFields : x \notin Leafing \cup {"top"} => p[x] = d[x]
  BY <1>3, <1>12 DEF Leafing
<1> QED BY <1>12, <1>13, <1>14 DEF Paged

\* The places of a text where jump keys may be shown, in the order of its lines.
JumpLines(d) ==
    /\ Len(d.jumps) \in Nat /\ DOMAIN d.jumps = 1..Len(d.jumps) /\ DOMAIN d.hint = DOMAIN d.jumps
    /\ \A i \in DOMAIN d.jumps : d.jumps[i].line \in 0..(d.text.nl - 1)
    /\ \A i, j \in DOMAIN d.jumps : i < j => d.jumps[i].line <= d.jumps[j].line

\* p is d with the keys of a page given anew.
Hinted(p, d, page) ==
    /\ IsTextDialog(p) /\ \A x \in TextFields : x \notin {"keys", "hint"} => p[x] = d[x]
    /\ p.keys = {[key |-> KeyOf(i), target |-> d.jumps[i].target] : i \in Given(page)}
    /\ DOMAIN p.hint = DOMAIN d.hint
    /\ \A i \in DOMAIN d.hint : i \in page => p.hint[i] = IF i \in Given(page) THEN KeyOf(i) ELSE 0

\* update_text gives the jump keys of a page anew.
LEMMA UpdateTextIs ==
    ASSUME NEW d, IsTextDialog(d), NEW from, NEW to, NEW page, page = OnPage(d, from, to), NEW p
    PROVE  p = UpdateText(d, from, to) => Hinted(p, d, page)
<1>0. SUFFICES ASSUME p = UpdateText(d, from, to) PROVE Hinted(p, d, page)
  OBVIOUS
<1>1. d = [x \in TextFields |-> d[x]] /\ DOMAIN d = TextFields
  BY DEF IsTextDialog
<1> DEFINE keys == {[key |-> KeyOf(i), target |-> d.jumps[i].target] : i \in Given(page)}
           hint == [i \in DOMAIN d.hint |-> CASE i \in Given(page) -> KeyOf(i)
                                              [] i \in page \ Given(page) -> 0
                                              [] OTHER -> d.hint[i]]
<1>2. p = [d EXCEPT !.keys = keys, !.hint = hint]
  BY <1>0, <1>1 DEF UpdateText, TextFields
<1>3. /\ DOMAIN hint = DOMAIN d.hint
      /\ \A i \in DOMAIN d.hint : i \in page => hint[i] = IF i \in Given(page) THEN KeyOf(i) ELSE 0
  <2> HIDE DEF keys
  <2> SUFFICES ASSUME NEW i \in DOMAIN d.hint, i \in page
               PROVE  hint[i] = IF i \in Given(page) THEN KeyOf(i) ELSE 0
    OBVIOUS
  <2>1. CASE i \in Given(page)
    BY <2>1
  <2>2. CASE i \notin Given(page)
    BY <2>2
  <2> QED BY <2>1, <2>2
<1> HIDE DEF hint
<1>4. p.keys = keys
  <2> HIDE DEF keys
  <2> QED BY <1>1, <1>2 DEF TextFields
<1>5. /\ p = [x \in TextFields |-> p[x]] /\ p.hint = hint
      /\ \A x \in TextFields : x \notin {"keys", "hint"} => p[x] = d[x]
  <2> HIDE DEF keys
  <2> QED BY <1>1, <1>2 DEF TextFields
<1>6. /\ p.kind = d.kind /\ p.text = d.text /\ p.page = d.page /\ p.boxh = d.boxh /\ p.vscroll = d.vscroll
      /\ p.rows = d.rows /\ p.begun = d.begun /\ p.ended = d.ended /\ p.length = d.length /\ p.passed = d.passed
  BY <1>5 DEF TextFields
<1>7. IsTextDialog(p)
  BY <1>5, <1>6 DEF IsTextDialog
<1> QED BY <1>3, <1>4, <1>5, <1>7 DEF Hinted

\* The lines that are passed to update_text are those that will be shown.
LEMMA Window ==
    ASSUME NEW d, IsTextDialog(d), NEW n, n \in Nat, NEW e, e = GetLines(d, n), NEW b, b = BackLines(e, n)
    PROVE  /\ e \in Leafed(d) /\ b \in Leafed(d)
           /\ \A l \in 0..(d.text.nl - 1) : b.page <= l /\ l < e.page <=> l \in b.page..(b.page + n - 1)
<1>1. d \in Leafed(d)
  BY LeafedSelf
<1>2. n \in Int
  OBVIOUS
<1>3. /\ e \in Leafed(d)
      /\ n <= 0 => e = d
      /\ n > 0 => /\ e.page = Smaller(d.page + n, EndOf(d.text))
                  /\ (e.ended <=> Smaller(d.page + (n - 1), EndOf(d.text)) \in {EndOf(d.text), d.text.nl})
  BY <1>1, <1>2, GetLinesIs
<1>4. e \in Leafed(d)
  BY <1>3
<1>5. /\ b \in Leafed(d)
      /\ n <= 0 => b.page = e.page
      /\ n > 0 => b.page = Larger(IF e.page = EndOf(d.text) /\ e.ended
                                  THEN e.page - (n - 1) ELSE e.page - n, 0)
  BY <1>2, <1>4, BackLinesIs
<1>6. PICK end : end = EndOf(d.text)
  OBVIOUS
<1>7. end \in Nat /\ d.text.nl \in Nat /\ d.text.nl <= end /\ end <= d.text.nl + 1 /\ d.page \in 0..end
  BY <1>6, EndIs DEF IsTextDialog
<1>8. CASE n = 0
  <2>1. b.page = e.page /\ e.page \in Nat
    BY <1>3, <1>5, <1>7, <1>8
  <2> QED BY <1>4, <1>5, <1>8, <2>1
<1>9. CASE n > 0
  <2>1. /\ e.page = Smaller(d.page + n, end)
        /\ e.ended <=> Smaller(d.page + (n - 1), end) \in {end, d.text.nl}
    BY <1>3, <1>6, <1>9
  <2>2. b.page = Larger(IF e.page = end /\ e.ended THEN e.page - (n - 1) ELSE e.page - n, 0)
    BY <1>5, <1>6, <1>9
  <2>3. CASE e.page = end /\ e.ended
    <3>1. b.page = Larger(end - (n - 1), 0)
      BY <2>2, <2>3
    <3>2. b.page \in Nat /\ b.page + n >= end
      BY <1>7, <3>1 DEF Larger
    <3> QED BY <1>4, <1>5, <1>7, <2>3, <3>2
  <2>4. CASE ~(e.page = end /\ e.ended)
    <3>1. e.page = d.page + n
      BY <1>7, <1>9, <2>1, <2>4 DEF Smaller
    <3>2. b.page = d.page
      BY <1>7, <2>2, <2>4, <3>1 DEF Larger
    <3> QED BY <1>4, <1>5, <1>7, <3>1, <3>2
  <2> QED BY <2>3, <2>4
<1> QED BY <1>8, <1>9

\* What stays the same whatever is shown of a text.
SameText(p, d) ==
    /\ p.text = d.text /\ p.jumps = d.jumps /\ p.updates = d.updates /\ p.rows = d.rows /\ p.boxh = d.boxh
    /\ DOMAIN p.hint = DOMAIN d.hint

\* refresh_text_box: the jump keys are those of the lines that are printed, each
\* with the target of its place.
LEMMA RefreshIs ==
    ASSUME NEW d, IsTextDialog(d), d.updates => JumpLines(d), NEW p
    PROVE  p = Refresh(d) => IsTextDialog(p) /\ SameText(p, d) /\ (d.updates => JumpsAreTrue(p))
<1>0. SUFFICES ASSUME p = Refresh(d)
      PROVE  IsTextDialog(p) /\ SameText(p, d) /\ (d.updates => JumpsAreTrue(p))
  OBVIOUS
<1>1. CASE ~d.updates
  <2>1. p = PrintPage(d)
    BY <1>0, <1>1 DEF Refresh
  <2>2. Paged(p, d)
    BY <2>1, PrintPageIs
  <2> QED BY <1>1, <2>2 DEF Paged, SameText, TextFields, Leafing
<1>2. CASE d.updates
  <2>1. PICK n : n = d.boxh
    OBVIOUS
  <2>2. n \in Nat
    BY <2>1 DEF IsTextDialog
  <2>3. PICK e : e = GetLines(d, n)
    OBVIOUS
  <2>4. PICK b : b = BackLines(e, n)
    OBVIOUS
  <2>5. /\ e \in Leafed(d) /\ b \in Leafed(d)
        /\ \A l \in 0..(d.text.nl - 1) : b.page <= l /\ l < e.page <=> l \in b.page..(b.page + n - 1)
    BY <2>2, <2>3, <2>4, Window
  <2>6. b \in Leafed(d)
    BY <2>5
  <2>7. /\ b = [x \in TextFields |-> b[x]] /\ DOMAIN b = TextFields
        /\ b.page \in 0..EndOf(d.text) /\ b.length \in Int
        /\ b.begun \in BOOLEAN /\ b.ended \in BOOLEAN /\ b.passed \in BOOLEAN
        /\ \A x \in TextFields : x \notin Leafing => b[x] = d[x]
        /\ b.text = d.text /\ IsTextDialog(b)
    BY <2>6, LeafedHas
  <2>8. /\ b.jumps = d.jumps /\ b.hint = d.hint /\ b.updates = d.updates /\ b.boxh = d.boxh /\ b.rows = d.rows
    BY <2>7 DEF TextFields, Leafing
  <2>9. PICK page : page = OnPage(b, b.page, e.page)
    OBVIOUS
  <2>10. PICK from : from = b.page
    OBVIOUS
  <2>11. PICK to : to = e.page
    OBVIOUS
  <2>12. page = OnPage(b, from, to) /\ IsTextDialog(b)
    BY <2>7, <2>9, <2>10, <2>11
  <2>13. PICK u : u = UpdateText(b, from, to)
    OBVIOUS
  <2>14. Hinted(u, b, page)
    BY <2>12, <2>13, UpdateTextIs
  <2>15. p = PrintPage(u)
    BY <1>0, <1>2, <2>1, <2>3, <2>4, <2>10, <2>11, <2>13 DEF Refresh, Prepare
  <2>16. IsTextDialog(u)
    BY <2>14 DEF Hinted
  <2>17. Paged(p, u)
    BY <2>15, <2>16, PrintPageIs
  <2>18. /\ u.jumps = d.jumps /\ u.boxh = n /\ u.page = b.page /\ u.text = d.text /\ u.rows = d.rows
         /\ u.updates = d.updates
    BY <2>1, <2>7, <2>8, <2>14 DEF Hinted, TextFields
  <2>19. /\ p.jumps = d.jumps /\ p.boxh = n /\ p.top = b.page /\ p.text = d.text /\ p.rows = d.rows
         /\ p.updates = d.updates /\ p.hint = u.hint /\ p.keys = u.keys
    BY <2>17, <2>18 DEF Paged, TextFields, Leafing
  <2>20. /\ Len(d.jumps) \in Nat /\ DOMAIN d.jumps = 1..Len(d.jumps) /\ DOMAIN d.hint = DOMAIN d.jumps
         /\ \A i \in DOMAIN d.jumps : d.jumps[i].line \in 0..(d.text.nl - 1)
         /\ \A i, j \in DOMAIN d.jumps : i < j => d.jumps[i].line <= d.jumps[j].line
    BY <1>2 DEF JumpLines
  <2>21. /\ p.keys = {[key |-> KeyOf(i), target |-> d.jumps[i].target] : i \in Given(page)}
         /\ DOMAIN p.hint = DOMAIN d.jumps
         /\ \A i \in DOMAIN d.jumps : i \in page => p.hint[i] = IF i \in Given(page) THEN KeyOf(i) ELSE 0
    BY <2>8, <2>14, <2>19, <2>20 DEF Hinted
  <2>22. page = {i \in DOMAIN d.jumps : b.page <= d.jumps[i].line /\ d.jumps[i].line < e.page}
    BY <2>8, <2>9 DEF OnPage
  <2>23. page = {i \in DOMAIN d.jumps : d.jumps[i].line \in b.page..(b.page + n - 1)}
    BY <2>5, <2>20, <2>22
  <2>24. Given(page) \subseteq page
    BY DEF Given
  <2>25. \A i \in page : i \in 1..Len(d.jumps) /\ i \in Int
    BY <2>20, <2>22
  <2>26. JumpsShown(p) = Given(page)
    <3>1. JumpsShown(p) = {i \in DOMAIN d.jumps : d.jumps[i].line \in b.page..(b.page + n - 1) /\ p.hint[i] # 0}
      BY <2>19 DEF JumpsShown
    <3>2. \A i \in page : p.hint[i] # 0 <=> i \in Given(page)
      BY <2>21, <2>22, <2>25, KeyIs
    <3> QED BY <2>23, <2>24, <3>1, <3>2
  <2>27. \A i \in Given(page) : p.hint[i] = KeyOf(i)
    BY <2>21, <2>22, <2>24
  <2>28. p.keys = {[key |-> p.hint[i], target |-> p.jumps[i].target] : i \in JumpsShown(p)}
    BY <2>19, <2>21, <2>26, <2>27
  <2>29. ASSUME NEW i \in Given(page), NEW j \in Given(page), i < j PROVE KeyOf(i) # KeyOf(j)
    <3>1. PICK m : m = Len(d.jumps)
      OBVIOUS
    <3>2. m \in Nat /\ page \subseteq 1..m
      BY <2>20, <2>22, <3>1
    <3>3. \A x, y \in page : \A k \in 1..m : x <= k /\ k <= y => k \in page
      <4> SUFFICES ASSUME NEW x \in page, NEW y \in page, NEW k \in 1..m, x <= k, k <= y PROVE k \in page
        OBVIOUS
      <4>1. x \in 1..m /\ y \in 1..m /\ k \in DOMAIN d.jumps
        BY <2>20, <3>1, <3>2
      <4>2. d.jumps[x].line <= d.jumps[k].line /\ d.jumps[k].line <= d.jumps[y].line
        <5>1. \A g, h \in DOMAIN d.jumps : g <= h => d.jumps[g].line <= d.jumps[h].line
          <6> SUFFICES ASSUME NEW g \in DOMAIN d.jumps, NEW h \in DOMAIN d.jumps, g <= h
                       PROVE  d.jumps[g].line <= d.jumps[h].line
            OBVIOUS
          <6>1. g \in Int /\ h \in Int /\ d.jumps[g].line \in Int
            BY <2>20
          <6>2. CASE g = h
            BY <6>1, <6>2
          <6>3. CASE g < h
            BY <2>20, <6>3
          <6> QED BY <6>1, <6>2, <6>3
        <5> QED BY <2>20, <3>1, <4>1, <5>1
      <4>3. /\ b.page <= d.jumps[x].line /\ d.jumps[y].line < e.page
            /\ d.jumps[x].line \in Int /\ d.jumps[y].line \in Int /\ d.jumps[k].line \in Int
        BY <2>20, <2>22, <4>1
      <4>4. b.page \in Int /\ e.page \in Int
        BY <2>5, EndIs DEF Leafed
      <4> QED BY <2>22, <4>1, <4>2, <4>3, <4>4
    <3> QED BY <2>29, <3>2, <3>3, KeysDiffer
  <2>30. \A i, j \in JumpsShown(p) : p.hint[i] = p.hint[j] => i = j
    <3> SUFFICES ASSUME NEW i \in Given(page), NEW j \in Given(page), KeyOf(i) = KeyOf(j) PROVE i = j
      BY <2>26, <2>27
    <3>1. i \in Int /\ j \in Int
      BY <2>24, <2>25
    <3>2. i < j \/ j < i \/ i = j
      BY <3>1
    <3> QED BY <2>29, <3>2
  <2>31. JumpsAreTrue(p)
    BY <2>28, <2>30 DEF JumpsAreTrue
  <2>32. IsTextDialog(p)
    BY <2>17 DEF Paged
  <2>33. SameText(p, d)
    BY <2>1, <2>19, <2>20, <2>21 DEF SameText
  <2> QED BY <2>31, <2>32, <2>33
<1> QED BY <1>1, <1>2

-----------------------------------------------------------------------------
(* The keys of a text.                                                     *)

\* A text that can be shown, and one that is shown with its jump keys.
Readable(d) == IsTextDialog(d) /\ (d.updates => JumpLines(d))
TrueText(d) == Readable(d) /\ (d.updates => JumpsAreTrue(d))

\* A text that can be shown is true when it is.
LEMMA RefreshTrue ==
    ASSUME NEW d, Readable(d), NEW p
    PROVE  p = Refresh(d) => TrueText(p)
<1>0. SUFFICES ASSUME p = Refresh(d) PROVE TrueText(p)
  OBVIOUS
<1>1. IsTextDialog(d) /\ (d.updates => JumpLines(d))
  BY DEF Readable
<1>2. IsTextDialog(p) /\ SameText(p, d) /\ (d.updates => JumpsAreTrue(p))
  BY <1>0, <1>1, RefreshIs
<1>3. /\ p.text = d.text /\ p.jumps = d.jumps /\ p.updates = d.updates /\ DOMAIN p.hint = DOMAIN d.hint
  BY <1>2 DEF SameText
<1>4. JumpLines(d) => JumpLines(p)
  BY <1>3 DEF JumpLines
<1> QED BY <1>1, <1>2, <1>3, <1>4 DEF TrueText, Readable

\* It can be shown wherever the pointer is.
LEMMA LeafedReadable ==
    ASSUME NEW d, Readable(d), NEW e, e \in Leafed(d)
    PROVE  Readable(e)
<1>1. IsTextDialog(d) /\ (d.updates => JumpLines(d))
  BY DEF Readable
<1>2. /\ e = [x \in TextFields |-> e[x]] /\ DOMAIN e = TextFields
      /\ e.page \in 0..EndOf(d.text) /\ e.length \in Int
      /\ e.begun \in BOOLEAN /\ e.ended \in BOOLEAN /\ e.passed \in BOOLEAN
      /\ \A x \in TextFields : x \notin Leafing => e[x] = d[x]
      /\ e.text = d.text /\ IsTextDialog(e)
  BY <1>1, LeafedHas
<1>3. e.jumps = d.jumps /\ e.updates = d.updates /\ e.hint = d.hint
  BY <1>2 DEF TextFields, Leafing
<1>4. JumpLines(d) => JumpLines(e)
  BY <1>2, <1>3 DEF JumpLines
<1> QED BY <1>1, <1>2, <1>3, <1>4 DEF Readable

\* It can be shown after going back.
LEMMA BackReadable ==
    ASSUME NEW d, Readable(d), NEW n, n \in Int, NEW b
    PROVE  b = BackLines(d, n) => Readable(b)
<1>0. SUFFICES ASSUME b = BackLines(d, n) PROVE Readable(b)
  OBVIOUS
<1>1. IsTextDialog(d)
  BY DEF Readable
<1>2. d \in Leafed(d)
  BY <1>1, LeafedSelf
<1>3. /\ b \in Leafed(d)
      /\ n <= 0 => b.page = d.page
      /\ n > 0 => b.page = Larger(IF d.page = EndOf(d.text) /\ d.ended
                                  THEN d.page - (n - 1) ELSE d.page - n, 0)
  BY <1>0, <1>1, <1>2, BackLinesIs
<1>4. b \in Leafed(d)
  BY <1>3
<1> QED BY <1>4, LeafedReadable

\* Going back and showing it makes it true.
LEMMA BackRefresh ==
    ASSUME NEW d, Readable(d), NEW n, n \in Int, NEW p
    PROVE  p = Refresh(BackLines(d, n)) => TrueText(p)
<1>1. PICK b : b = BackLines(d, n)
  OBVIOUS
<1>2. Readable(b)
  BY <1>1, BackReadable
<1> QED BY <1>1, <1>2, RefreshTrue

\* It can be shown at any column.
LEMMA ScrolledReadable ==
    ASSUME NEW d, Readable(d), NEW n, NEW e
    PROVE  e = [d EXCEPT !.hscroll = n] => Readable(e) /\ e.length = d.length
<1>0. SUFFICES ASSUME e = [d EXCEPT !.hscroll = n] PROVE Readable(e) /\ e.length = d.length
  OBVIOUS
<1>1. IsTextDialog(d) /\ (d.updates => JumpLines(d)) /\ d = [x \in TextFields |-> d[x]]
  BY DEF Readable, IsTextDialog
<1>2. /\ e = [x \in TextFields |-> e[x]] /\ \A x \in TextFields : x # "hscroll" => e[x] = d[x]
  BY <1>0, <1>1 DEF TextFields
<1>3. /\ e.kind = d.kind /\ e.text = d.text /\ e.page = d.page /\ e.boxh = d.boxh /\ e.vscroll = d.vscroll
      /\ e.rows = d.rows /\ e.begun = d.begun /\ e.ended = d.ended /\ e.length = d.length /\ e.passed = d.passed
      /\ e.jumps = d.jumps /\ e.hint = d.hint /\ e.updates = d.updates
  BY <1>2 DEF TextFields
<1>4. IsTextDialog(e)
  BY <1>1, <1>2, <1>3 DEF IsTextDialog
<1>5. JumpLines(d) => JumpLines(e)
  BY <1>3 DEF JumpLines
<1> QED BY <1>1, <1>3, <1>4, <1>5 DEF Readable

\* A box of another height.
LEMMA ResizedReadable ==
    ASSUME NEW d, Readable(d), NEW n, n \in Nat, NEW e
    PROVE  e = [d EXCEPT !.boxh = n] => Readable(e)
<1>0. SUFFICES ASSUME e = [d EXCEPT !.boxh = n] PROVE Readable(e)
  OBVIOUS
<1>1. IsTextDialog(d) /\ (d.updates => JumpLines(d)) /\ d = [x \in TextFields |-> d[x]]
  BY DEF Readable, IsTextDialog
<1>2. /\ e = [x \in TextFields |-> e[x]] /\ e.boxh = n /\ \A x \in TextFields : x # "boxh" => e[x] = d[x]
  BY <1>0, <1>1 DEF TextFields
<1>3. /\ e.kind = d.kind /\ e.text = d.text /\ e.page = d.page /\ e.vscroll = d.vscroll
      /\ e.rows = d.rows /\ e.begun = d.begun /\ e.ended = d.ended /\ e.length = d.length /\ e.passed = d.passed
      /\ e.jumps = d.jumps /\ e.hint = d.hint /\ e.updates = d.updates
  BY <1>2 DEF TextFields
<1>4. IsTextDialog(e)
  BY <1>1, <1>2, <1>3 DEF IsTextDialog
<1>5. JumpLines(d) => JumpLines(e)
  BY <1>3 DEF JumpLines
<1> QED BY <1>1, <1>3, <1>4, <1>5 DEF Readable

\* A text box is true when it is drawn on any terminal that it fits on.
LEMMA LayTextIs ==
    ASSUME NEW d, Readable(d), NEW h, h \in Nat, TextFits(h), NEW p
    PROVE  p = LayText(d, h) => TrueText(p)
<1>0. SUFFICES ASSUME p = LayText(d, h) PROVE TrueText(p)
  OBVIOUS
<1>1. PICK n : n = BoxLines(d, h)
  OBVIOUS
<1>2. n \in Nat
  BY <1>1 DEF BoxLines, TextFits, Readable, IsTextDialog
<1>3. PICK e : e = [d EXCEPT !.boxh = n]
  OBVIOUS
<1>4. Readable(e)
  BY <1>2, <1>3, ResizedReadable
<1>5. p = Refresh(e)
  BY <1>0, <1>1, <1>3 DEF LayText
<1> QED BY <1>4, <1>5, RefreshTrue

\* The pointer set by hand.
LEMMA HomeReadable ==
    ASSUME NEW d, Readable(d)
    PROVE  /\ Readable([d EXCEPT !.begun = TRUE, !.page = 0])
           /\ Readable([d EXCEPT !.ended = TRUE, !.page = EndOf(d.text)])
           /\ [d EXCEPT !.ended = TRUE, !.page = EndOf(d.text)].text = d.text
           /\ Readable([d EXCEPT !.begun = FALSE])
<1>1. IsTextDialog(d) /\ d = [x \in TextFields |-> d[x]] /\ DOMAIN d = TextFields
  BY DEF Readable, IsTextDialog
<1>2. d \in Leafed(d)
  BY <1>1, LeafedSelf
<1>21. EndOf(d.text) \in Nat
  BY <1>1, EndIs
<1>22. IsTextDialog(d)
  BY <1>1
<1>3. d.length \in Int /\ d.begun \in BOOLEAN /\ d.ended \in BOOLEAN /\ d.passed \in BOOLEAN
  BY <1>1 DEF IsTextDialog
<1>23. d.page \in 0..EndOf(d.text)
  BY <1>1 DEF IsTextDialog
<1>4. PICK true : true = TRUE
  OBVIOUS
<1>5. PICK false : false = FALSE
  OBVIOUS
<1>6. PICK top : top = 0
  OBVIOUS
<1>7. PICK end : end = EndOf(d.text)
  OBVIOUS
<1>8. true \in BOOLEAN /\ false \in BOOLEAN
  BY <1>4, <1>5
<1>24. top \in 0..EndOf(d.text)
  BY <1>21, <1>6
<1>25. end \in 0..EndOf(d.text)
  BY <1>21, <1>7
<1>9. PICK a : a = [d EXCEPT !.begun = true, !.page = top]
  OBVIOUS
<1>10. a = Pointing(d, top, d.length, true, d.ended, d.passed)
  BY <1>1, <1>9 DEF TextFields, Pointing
<1>11. a \in Leafed(d)
  BY <1>22, <1>2, <1>3, <1>8, <1>24, <1>10, LeafedTo
<1>12. PICK b : b = [d EXCEPT !.ended = true, !.page = end]
  OBVIOUS
<1>13. b = Pointing(d, end, d.length, d.begun, true, d.passed)
  BY <1>1, <1>12 DEF TextFields, Pointing
<1>14. b \in Leafed(d)
  BY <1>22, <1>2, <1>3, <1>8, <1>25, <1>13, LeafedTo
<1>15. PICK c : c = [d EXCEPT !.begun = false]
  OBVIOUS
<1>16. c = Pointing(d, d.page, d.length, false, d.ended, d.passed)
  BY <1>1, <1>15 DEF TextFields, Pointing
<1>17. c \in Leafed(d)
  BY <1>22, <1>2, <1>3, <1>8, <1>23, <1>16, LeafedTo
<1>18. Readable(a) /\ Readable(b) /\ Readable(c)
  BY <1>11, <1>14, <1>17, LeafedReadable
<1>19. b.text = d.text
  BY <1>1, <1>12 DEF TextFields
<1>20. /\ a = [d EXCEPT !.begun = TRUE, !.page = 0] /\ c = [d EXCEPT !.begun = FALSE]
       /\ b = [d EXCEPT !.ended = TRUE, !.page = EndOf(d.text)]
  BY <1>4, <1>5, <1>6, <1>7, <1>9, <1>12, <1>15
<1> QED BY <1>18, <1>19, <1>20

\* A move in a text keeps it true.
LEMMA TextMoveIs ==
    ASSUME NEW d, TrueText(d), NEW key, NEW p
    PROVE  p = TextMove(d, key) => TrueText(p)
<1>0. SUFFICES ASSUME p = TextMove(d, key) PROVE TrueText(p)
  OBVIOUS
<1>1. Readable(d) /\ d.boxh \in Nat /\ d.length \in Int
  BY DEF TrueText, Readable, IsTextDialog
<1>2. CASE key = "home" /\ ~d.begun
  <2>1. PICK e : e = [d EXCEPT !.begun = TRUE, !.page = 0]
    OBVIOUS
  <2>2. Readable(e)
    BY <1>1, <2>1, HomeReadable
  <2>3. p = Refresh(e)
    BY <1>0, <1>2, <2>1 DEF TextMove
  <2> QED BY <2>2, <2>3, RefreshTrue
<1>3. CASE key = "end"
  <2>1. PICK e : e = [d EXCEPT !.ended = TRUE, !.page = EndOf(d.text)]
    OBVIOUS
  <2>2. Readable(e)
    BY <1>1, <2>1, HomeReadable
  <2>3. PICK n : n = d.boxh
    OBVIOUS
  <2>4. p = Refresh(BackLines(e, n)) /\ n \in Int
    BY <1>0, <1>1, <1>3, <2>1, <2>3 DEF TextMove
  <2> QED BY <2>2, <2>4, BackRefresh
<1>4. CASE key \in {"up", "pageup"} /\ ~d.begun
  <2>1. PICK n : n = IF key = "up" THEN d.length + 1 ELSE d.length + d.boxh
    OBVIOUS
  <2>2. p = Refresh(BackLines(d, n)) /\ n \in Int
    BY <1>0, <1>1, <1>4, <2>1 DEF TextMove
  <2> QED BY <1>1, <2>2, BackRefresh
<1>5. CASE key = "down" /\ ~d.ended
  <2>1. PICK n : n = d.length - 1
    OBVIOUS
  <2>2. p = Refresh(BackLines(d, n)) /\ n \in Int
    BY <1>0, <1>1, <1>5, <2>1 DEF TextMove
  <2> QED BY <1>1, <2>2, BackRefresh
<1>6. CASE key = "pagedown" /\ ~d.ended
  <2>1. PICK e : e = [d EXCEPT !.begun = FALSE]
    OBVIOUS
  <2>2. Readable(e)
    BY <1>1, <2>1, HomeReadable
  <2>3. p = Refresh(e)
    BY <1>0, <1>6, <2>1 DEF TextMove
  <2> QED BY <2>2, <2>3, RefreshTrue
<1>7. ASSUME NEW v, p = Refresh(BackLines([d EXCEPT !.hscroll = v], d.length)) PROVE TrueText(p)
  <2>1. PICK e : e = [d EXCEPT !.hscroll = v]
    OBVIOUS
  <2>2. Readable(e) /\ e.length = d.length
    BY <1>1, <2>1, ScrolledReadable
  <2>3. PICK n : n = d.length
    OBVIOUS
  <2>4. p = Refresh(BackLines(e, n)) /\ n \in Int
    BY <1>1, <1>7, <2>1, <2>3
  <2> QED BY <2>2, <2>4, BackRefresh
<1>8. CASE key \in {"left", "0"} /\ d.hscroll > 0
  <2>1. p = Refresh(BackLines([d EXCEPT !.hscroll = IF key = "0" THEN 0 ELSE @ - 1], d.length))
    BY <1>0, <1>8 DEF TextMove
  <2>2. [d EXCEPT !.hscroll = IF key = "0" THEN 0 ELSE @ - 1]
          = [d EXCEPT !.hscroll = IF key = "0" THEN 0 ELSE d.hscroll - 1]
    BY DEF Readable, IsTextDialog, TextFields
  <2> QED BY <1>7, <2>1, <2>2
<1>9. CASE key = "right" /\ d.hscroll < MaxLen
  <2>1. p = Refresh(BackLines([d EXCEPT !.hscroll = @ + 1], d.length))
    BY <1>0, <1>9 DEF TextMove
  <2>2. [d EXCEPT !.hscroll = @ + 1] = [d EXCEPT !.hscroll = d.hscroll + 1]
    OBVIOUS
  <2> QED BY <1>7, <2>1, <2>2
<1>10. CASE /\ ~(key = "home" /\ ~d.begun) /\ key # "end" /\ ~(key \in {"up", "pageup"} /\ ~d.begun)
            /\ ~(key = "down" /\ ~d.ended) /\ ~(key = "pagedown" /\ ~d.ended)
            /\ ~(key \in {"left", "0"} /\ d.hscroll > 0) /\ ~(key = "right" /\ d.hscroll < MaxLen)
  <2>1. p = d
    BY <1>0, <1>10 DEF TextMove
  <2> QED BY <2>1
<1> QED BY <1>2, <1>3, <1>4, <1>5, <1>6, <1>8, <1>9, <1>10

\* What a key makes of a text: it goes on, or is over.
TextGoesOn(r) == r.res = "none" /\ TrueText(r.d)
TextEnds(r) == r.res # "none" /\ r.d.kind = "text" /\ r.d.vscroll \in Int

\* A text that is over gives back a line.
LEMMA TextOverIs ==
    ASSUME NEW d, Readable(d), NEW p
    PROVE  p = TextOver(d) => p.kind = "text" /\ p.vscroll \in Int
<1>0. SUFFICES ASSUME p = TextOver(d) PROVE p.kind = "text" /\ p.vscroll \in Int
  OBVIOUS
<1>1. PICK n : n = d.length
  OBVIOUS
<1>2. n \in Int
  BY <1>1 DEF Readable, IsTextDialog
<1>3. PICK b : b = BackLines(d, n)
  OBVIOUS
<1>4. Readable(b)
  BY <1>2, <1>3, BackReadable
<1>5. /\ IsTextDialog(b) /\ b = [x \in TextFields |-> b[x]] /\ b.kind = "text" /\ b.text.nl \in Nat
      /\ b.page \in 0..EndOf(b.text)
  BY <1>4 DEF Readable, IsTextDialog
<1>6. b.page \in Int
  BY <1>5, EndIs
<1>7. PICK v : v = Smaller(b.page, b.text.nl)
  OBVIOUS
<1>8. v \in Int
  BY <1>5, <1>6, <1>7 DEF Smaller
<1>9. p = [b EXCEPT !.vscroll = v]
  BY <1>0, <1>1, <1>3, <1>7 DEF TextOver
<1> QED BY <1>5, <1>8, <1>9 DEF TextFields

\* A key that jumps is a digit.
LEMMA HitIs ==
    ASSUME NEW d, NEW key, Hit(d, key) # {}
    PROVE  key \in {"1", "2", "3", "4", "5", "6", "7", "8", "9"}
<1>1. PICK k : k.key \in DOMAIN JumpKey /\ JumpKey[k.key] = key
  BY DEF Hit
<1>2. PICK i : i = k.key
  OBVIOUS
<1>3. i \in 1..9 /\ JumpKey[i] = key
  BY <1>1, <1>2 DEF JumpKey
<1>4. i \in {1, 2, 3, 4, 5, 6, 7, 8, 9}
  BY <1>3
<1> QED BY <1>3, <1>4 DEF JumpKey

\* Whatever key is pressed in a text of any length on a terminal of any height,
\* the jump keys are again those on the screen with their targets, or the text
\* is over (dialog_textbox).
THEOREM TextKeyIs ==
    ASSUME NEW d, TrueText(d), NEW key, NEW h, h \in Nat, NEW r
    PROVE  r = TextKey(d, key, h) => TextGoesOn(r) \/ TextEnds(r)
<1>0. SUFFICES ASSUME r = TextKey(d, key, h) PROVE TextGoesOn(r) \/ TextEnds(r)
  OBVIOUS
<1>1. Readable(d) /\ d.boxh \in Nat /\ d.length \in Int
  BY DEF TrueText, Readable, IsTextDialog
<1>11. Hit(d, key) # {} => key \in {"1", "2", "3", "4", "5", "6", "7", "8", "9"}
  BY HitIs
<1>12. key \notin {"1", "2", "3", "4", "5", "6", "7", "8", "9"} => Hit(d, key) = {}
  BY <1>11
<1>2. CASE key \in TextMoves
  <2>1. PICK p : p = TextMove(d, key)
    OBVIOUS
  <2>2. TrueText(p)
    BY <2>1, TextMoveIs
  <2>4. Hit(d, key) = {} /\ key \notin {"enter", "e", "x", "esc", "resize"}
    BY <1>2, <1>12 DEF TextMoves
  <2>3. r = Going(p)
    BY <1>0, <1>2, <2>1, <2>4 DEF TextKey
  <2> QED BY <2>2, <2>3 DEF Going, TextGoesOn
<1>3. ASSUME NEW res, res # "none", r = Over(TextOver(d), res) PROVE TextEnds(r)
  <2>1. PICK p : p = TextOver(d)
    OBVIOUS
  <2>2. p.kind = "text" /\ p.vscroll \in Int
    BY <1>1, <2>1, TextOverIs
  <2> QED BY <1>3, <2>1, <2>2 DEF Over, TextEnds
<1>4. CASE key \in {"enter", "e", "x", "esc"}
  <2>1. Hit(d, key) = {} /\ key \notin TextMoves /\ key # "resize"
    BY <1>4, <1>12 DEF TextMoves
  <2>2. r = Over(TextOver(d), IF key = "esc" THEN "esc" ELSE "done")
    BY <1>0, <1>4, <2>1 DEF TextKey
  <2> QED BY <1>3, <2>2
<1>5. CASE key = "resize"
  <2>1. PICK n : n = d.boxh + 4
    OBVIOUS
  <2>2. n \in Int
    BY <1>1, <2>1
  <2>3. PICK b : b = BackLines(d, n)
    OBVIOUS
  <2>4. Readable(b)
    BY <1>1, <2>2, <2>3, BackReadable
  <2>8. Hit(d, key) = {} /\ key \notin TextMoves
    BY <1>5, <1>12 DEF TextMoves
  <2>5. r = IF TextFits(h) THEN Going(LayText(b, h)) ELSE Over(b, "small")
    BY <1>0, <1>5, <2>1, <2>3, <2>8 DEF TextKey
  <2>6. CASE TextFits(h)
    <3>1. PICK p : p = LayText(b, h)
      OBVIOUS
    <3>2. TrueText(p)
      BY <2>4, <2>6, <3>1, LayTextIs
    <3> QED BY <2>5, <2>6, <3>1, <3>2 DEF Going, TextGoesOn
  <2>7. CASE ~TextFits(h)
    <3>1. r = Over(b, "small")
      BY <2>5, <2>7
    <3> QED BY <2>4, <3>1 DEF Over, TextEnds, Readable, IsTextDialog
  <2> QED BY <2>6, <2>7
<1>6. CASE key \notin TextMoves /\ key \notin {"enter", "e", "x", "esc"} /\ key # "resize"
  <2>1. CASE Hit(d, key) # {}
    <3>1. r = Over(TextOver(d), key)
      BY <1>0, <1>6, <2>1 DEF TextKey
    <3>2. key # "none"
      BY <1>11, <2>1
    <3> QED BY <1>3, <3>1, <3>2
  <2>2. CASE Hit(d, key) = {}
    <3>1. r = Going(d)
      BY <1>0, <1>6, <2>2 DEF TextKey
    <3> QED BY <3>1 DEF Going, TextGoesOn
  <2> QED BY <2>1, <2>2
<1> QED BY <1>2, <1>4, <1>5, <1>6

=============================================================================
