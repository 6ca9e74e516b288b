----------------------------- MODULE UringProofs ----------------------------
(***************************************************************************)
(* What the io_uring engine keeps, for every size of the rings and every   *)
(* number of slots: the order of the cursors of both rings, the exact      *)
(* accounts of the option chains and the separation of the owners of a     *)
(* slot.                                                                   *)
(*                                                                         *)
(* The proof has two levels.  The first shows that the rings, cells and    *)
(* cursors modulo Wrap, are sequences: a push appends to what the kernel   *)
(* has not taken, a pop removes the first of what the driver has not read, *)
(* and nothing else changes either.  The second is about the sequences     *)
(* only: requests of a slot are counted on their way, in the kernel and on *)
(* their way back.                                                         *)
(***************************************************************************)
EXTENDS UringEngine, FiniteSetTheorems, SequenceTheorems, TLAPS

-----------------------------------------------------------------------------
(* Division with a remainder.                                              *)

LEMMA DivMod ==
  ASSUME NEW S \in Nat, S > 0, NEW x \in Int
  PROVE  /\ x % S \in 0 .. S - 1
         /\ x \div S \in Int
         /\ x = (S * (x \div S)) + (x % S)
OBVIOUS

LEMMA SmallMultiple ==
  ASSUME NEW S \in Nat, S > 0, NEW k \in Int, NEW r \in Int,
         0 <= S * k + r, S * k + r < S, 0 <= r, r < S
  PROVE  k = 0
<1>1. CASE k >= 1
  <2>1. S * k >= S BY <1>1
  <2> QED BY <2>1
<1>2. CASE k <= -1
  <2>1. S * k <= -S BY <1>2
  <2> QED BY <2>1
<1> QED BY <1>1, <1>2

(* The remainder is determined by any way to write the number.             *)
LEMMA ModUnique ==
  ASSUME NEW S \in Nat, S > 0, NEW k \in Int, NEW r \in 0 .. S - 1,
         NEW x \in Int, x = S * k + r
  PROVE  x % S = r
<1> DEFINE p == x \div S
           m == x % S
<1>1. p \in Int /\ m \in 0 .. S - 1 /\ x = S * p + m BY DivMod
<1> HIDE DEF p, m
<1>2. S * (p - k) = S * p - S * k BY <1>1
<1>3. S * (p - k) + m = r BY <1>1, <1>2
<1>4. p - k \in Int BY <1>1
<1>5. p - k = 0 BY <1>1, <1>3, <1>4, SmallMultiple
<1>6. S * (p - k) = 0 BY <1>5, <1>4
<1>7. m = r BY <1>1, <1>3, <1>6
<1> QED BY <1>7 DEF m

(* A step of at most S wraps at most once.                                 *)
LEMMA ModStep ==
  ASSUME NEW S \in Nat, S > 0, NEW a \in Int, NEW m \in 0 .. S
  PROVE  (a + m) % S = IF (a % S) + m < S THEN (a % S) + m ELSE (a % S) + m - S
<1> DEFINE p == a \div S
           r == a % S
<1>1. p \in Int /\ r \in 0 .. S - 1 /\ a = S * p + r BY DivMod
<1> HIDE DEF p, r
<1>2. CASE r + m < S
  <2>1. a + m = S * p + (r + m) /\ r + m \in 0 .. S - 1 /\ a + m \in Int BY <1>1, <1>2
  <2>2. (a + m) % S = r + m BY <2>1, <1>1, ModUnique
  <2> QED BY <2>2, <1>2 DEF r
<1>3. CASE ~(r + m < S)
  <2>1. S * (p + 1) = S * p + S BY <1>1
  <2>2. /\ a + m = S * (p + 1) + (r + m - S) /\ r + m - S \in 0 .. S - 1
        /\ a + m \in Int /\ p + 1 \in Int
    BY <1>1, <1>3, <2>1
  <2>3. (a + m) % S = r + m - S BY <2>2, ModUnique
  <2> QED BY <2>3, <1>3 DEF r
<1> QED BY <1>2, <1>3

LEMMA ModShift ==
  ASSUME NEW S \in Nat, S > 0, NEW W \in Nat, W % S = 0, NEW a \in Int
  PROVE  (a + W) % S = a % S
<1> DEFINE p == a \div S
           r == a % S
           k == W \div S
           z == p + k
           b == a + W
<1>1. p \in Int /\ r \in 0 .. S - 1 /\ a = S * p + r BY DivMod
<1>2. k \in Int /\ W = S * k BY DivMod
<1> HIDE DEF p, r, k
<1>3. S * z = S * p + S * k BY <1>1, <1>2
<1>4. z \in Int /\ b \in Int BY <1>1, <1>2
<1>5. b = S * z + r BY <1>1, <1>2, <1>3
<1> HIDE DEF z, b
<1>6. b % S = r BY <1>1, <1>4, <1>5, ModUnique
<1> QED BY <1>6 DEF r, b
-----------------------------------------------------------------------------
(* Windows of a ring.                                                      *)

Ring(size, E) == [0 .. size - 1 -> E]

(* An equation that stays one.                                             *)
Sums(m, n, k) == k = m + n

(* m entries from h on end where `at' begins.                              *)
Meets(S, h, m, at) == (h + m) % S = at % S

LEMMA FunctionIsSeq ==
  ASSUME NEW E, NEW m \in Nat, NEW f \in [1 .. m -> E]
  PROVE  f \in Seq(E) /\ Len(f) = m
<1>1. f \in Seq(E)
  BY SeqDef
<1>2. Len(f) \in Nat /\ DOMAIN f = 1 .. Len(f) /\ DOMAIN f = 1 .. m
  BY <1>1, LenProperties
<1> DEFINE n == Len(f)
<1> HIDE DEF n
<1>3. n \in Nat /\ 1 .. n = 1 .. m
  BY <1>2 DEF n
<1>4. n = m
  <2>1. CASE n < m
    <3>1. m \in 1 .. m /\ m \notin 1 .. n BY <1>3, <2>1
    <3> QED BY <3>1, <1>3
  <2>2. CASE n > m
    <3>1. n \in 1 .. n /\ n \notin 1 .. m BY <1>3, <2>2
    <3> QED BY <3>1, <1>3
  <2> QED BY <1>3, <2>1, <2>2
<1> QED BY <1>1, <1>4 DEF n

LEMMA WindowType ==
  ASSUME NEW S \in Nat, S > 0, NEW E, NEW cells \in Ring(S, E), NEW h \in Nat, NEW m \in Nat
  PROVE  /\ Window(cells, S, h, m) \in Seq(E)
         /\ Len(Window(cells, S, h, m)) = m
         /\ \A i \in 1 .. m : Window(cells, S, h, m)[i] = cells[(h + (i - 1)) % S]
<1>1. \A i \in 1 .. m : (h + (i - 1)) % S \in 0 .. S - 1
  BY DivMod
<1> DEFINE w == Window(cells, S, h, m)
<1>2. w \in [1 .. m -> E]
  BY <1>1 DEF Window, Ring
<1>3. \A i \in 1 .. m : w[i] = cells[(h + (i - 1)) % S]
  BY DEF Window
<1> HIDE DEF w
<1>4. w \in Seq(E) /\ Len(w) = m
  BY <1>2, FunctionIsSeq
<1> QED BY <1>3, <1>4 DEF w

LEMMA CopiedType ==
  ASSUME NEW S \in Nat, S > 0, NEW E, NEW cells \in Ring(S, E), NEW at \in Nat,
         NEW es \in Seq(E), Len(es) <= S
  PROVE  Copied(cells, S, at, es) \in Ring(S, E)
<1> DEFINE n == Len(es)
           start == at % S
           first == IF n < S - start THEN n ELSE S - start
           new == Copied(cells, S, at, es)
<1>1. n \in Nat /\ start \in 0 .. S - 1 /\ n <= S
  BY DivMod, LenProperties
<1>2. first \in 0 .. n /\ start + first <= S
  <2> HIDE DEF n, start
  <2> QED BY <1>1
<1>3. new = [i \in 0 .. S - 1 |->
               IF i \in start .. start + first - 1 THEN es[i - start + 1]
               ELSE IF i < n - first THEN es[first + i + 1]
               ELSE cells[i]]
  BY DEF Copied
<1> HIDE DEF n, start, first, new
<1>4. \A i \in 0 .. S - 1 : i \in start .. start + first - 1 => i - start + 1 \in 1 .. n
  BY <1>1, <1>2
<1>5. \A i \in 0 .. S - 1 : i < n - first => first + i + 1 \in 1 .. n
  BY <1>1, <1>2
<1>6. \A j \in 1 .. n : es[j] \in E
  BY DEF n
<1>7. new \in Ring(S, E)
  BY <1>3, <1>4, <1>5, <1>6 DEF Ring
<1> QED BY <1>7 DEF new

(* A batch that fits is read back behind what was there.                   *)
LEMMA WindowCopied ==
  ASSUME NEW S \in Nat, S > 0, NEW E, NEW cells \in Ring(S, E), NEW h \in Nat, NEW at \in Nat,
         NEW m \in Nat, NEW es \in Seq(E), NEW k \in Nat, Sums(m, Len(es), k), k <= S,
         Meets(S, h, m, at)
  PROVE  Window(Copied(cells, S, at, es), S, h, k) = Window(cells, S, h, m) \o es
<1> DEFINE n == Len(es)
           start == at % S
           first == IF n < S - start THEN n ELSE S - start
           new == Copied(cells, S, at, es)
           r == h % S
<1>1. n \in Nat /\ start \in 0 .. S - 1 /\ r \in 0 .. S - 1 /\ m + n <= S
  BY DivMod, LenProperties DEF Sums
<1>2. first \in 0 .. n /\ start + first <= S /\ (first = n \/ start + first = S)
  <2> HIDE DEF n, start
  <2> QED BY <1>1
<1>3. new = [i \in 0 .. S - 1 |->
               IF i \in start .. start + first - 1 THEN es[i - start + 1]
               ELSE IF i < n - first THEN es[first + i + 1]
               ELSE cells[i]]
  BY DEF Copied
<1>4. start = IF r + m < S THEN r + m ELSE r + m - S
  <2>1. m \in 0 .. S /\ h \in Int BY <1>1
  <2>2. (h + m) % S = IF (h % S) + m < S THEN (h % S) + m ELSE (h % S) + m - S
    BY <2>1, ModStep
  <2> QED BY <2>2 DEF Meets
<1> HIDE DEF n, start, first, new, r
<1>5. new \in Ring(S, E)
  <2>1. Len(es) <= S BY <1>1 DEF n
  <2> QED BY <2>1, CopiedType DEF new
<1>6. \A j \in 1 .. n : new[(h + (m + j - 1)) % S] = es[j]
  <2> SUFFICES ASSUME NEW j \in 1 .. n
               PROVE  new[(h + (m + j - 1)) % S] = es[j]
    OBVIOUS
  <2> DEFINE x == (h + (m + j - 1)) % S
  <2>1. ((h + m) + (j - 1)) % S = IF ((h + m) % S) + (j - 1) < S THEN ((h + m) % S) + (j - 1)
                                  ELSE ((h + m) % S) + (j - 1) - S
    <3>1. j - 1 \in 0 .. S /\ h + m \in Int BY <1>1
    <3> QED BY <3>1, ModStep
  <2>2. (h + m) + (j - 1) = h + (m + j - 1) BY <1>1
  <2>3. x = IF start + (j - 1) < S THEN start + (j - 1) ELSE start + (j - 1) - S
    BY <2>1, <2>2 DEF start, Meets
  <2> HIDE DEF x
  <2>4. CASE start + (j - 1) < S
    <3>1. x = start + (j - 1) /\ x \in 0 .. S - 1 /\ j <= first BY <1>1, <1>2, <2>3, <2>4
    <3>2. x \in start .. start + first - 1 /\ x - start + 1 = j BY <1>1, <1>2, <3>1
    <3> QED BY <1>3, <3>1, <3>2 DEF x
  <2>5. CASE ~(start + (j - 1) < S)
    <3>1. /\ x = start + (j - 1) - S /\ x \in 0 .. S - 1 /\ start + first = S
          /\ x + 1 = j - first /\ x < n - first /\ x < start
      BY <1>1, <1>2, <2>3, <2>5
    <3>2. x \notin start .. start + first - 1 /\ first + x + 1 = j BY <1>1, <1>2, <3>1
    <3> QED BY <1>3, <3>1, <3>2 DEF x
  <2> QED BY <2>4, <2>5
<1>7. \A i \in 1 .. m : new[(h + (i - 1)) % S] = cells[(h + (i - 1)) % S]
  <2> SUFFICES ASSUME NEW i \in 1 .. m
               PROVE  new[(h + (i - 1)) % S] = cells[(h + (i - 1)) % S]
    OBVIOUS
  <2> DEFINE x == (h + (i - 1)) % S
  <2>1. i - 1 \in 0 .. S /\ h \in Int BY <1>1
  <2>2. x = IF r + (i - 1) < S THEN r + (i - 1) ELSE r + (i - 1) - S
    <3>1. x = IF (h % S) + (i - 1) < S THEN (h % S) + (i - 1) ELSE (h % S) + (i - 1) - S
      BY <2>1, ModStep
    <3> QED BY <3>1 DEF r
  <2> HIDE DEF x
  <2>3. x \in 0 .. S - 1 /\ x \notin start .. start + first - 1 /\ ~(x < n - first)
    BY <1>1, <1>2, <1>4, <2>2
  <2> QED BY <1>3, <2>3 DEF x
<1> DEFINE u == Window(cells, S, h, m)
           v == Window(new, S, h, k)
<1>8. /\ u \in Seq(E) /\ Len(u) = m
      /\ \A i \in 1 .. m : u[i] = cells[(h + (i - 1)) % S]
  <2> HIDE DEF u
  <2>1. u \in Seq(E) BY WindowType DEF u
  <2>2. Len(u) = m BY WindowType DEF u
  <2>3. \A i \in 1 .. m : u[i] = cells[(h + (i - 1)) % S] BY WindowType DEF u
  <2> QED BY <2>1, <2>2, <2>3
<1>9. /\ v \in Seq(E) /\ Len(v) = m + n
      /\ \A i \in 1 .. m + n : v[i] = new[(h + (i - 1)) % S]
  <2> DEFINE w == Window(new, S, h, k)
  <2>1. k \in Nat /\ k = m + n BY DEF n, Sums
  <2> HIDE DEF w
  <2>2. w \in Seq(E) BY <2>1, <1>5, WindowType DEF w
  <2>3. Len(w) = k BY <2>1, <1>5, WindowType DEF w
  <2>4. \A i \in 1 .. k : w[i] = new[(h + (i - 1)) % S] BY <2>1, <1>5, WindowType DEF w
  <2> QED BY <2>1, <2>2, <2>3, <2>4 DEF w
<1> HIDE DEF u, v
<1>10. /\ u \o es \in Seq(E) /\ Len(u \o es) = m + n
       /\ \A i \in 1 .. m + n : (u \o es)[i] = IF i <= m THEN u[i] ELSE es[i - m]
  BY <1>8, ConcatProperties DEF n
<1>11. \A i \in 1 .. m + n : v[i] = (u \o es)[i]
  <2> SUFFICES ASSUME NEW i \in 1 .. m + n
               PROVE  v[i] = (u \o es)[i]
    OBVIOUS
  <2>1. CASE i <= m
    <3>1. i \in 1 .. m BY <2>1, <1>1
    <3> QED BY <3>1, <2>1, <1>7, <1>8, <1>9, <1>10
  <2>2. CASE ~(i <= m)
    <3>1. i - m \in 1 .. n /\ m + (i - m) - 1 = i - 1 BY <2>2, <1>1
    <3>2. new[(h + (m + (i - m) - 1)) % S] = es[i - m] BY <3>1, <1>6
    <3>3. v[i] = es[i - m] BY <3>1, <3>2, <1>9
    <3> QED BY <3>3, <2>2, <1>10
  <2> QED BY <2>1, <2>2
<1>12. v = u \o es
  BY <1>9, <1>10, <1>11, SeqEqual
<1> QED BY <1>12 DEF u, v, new

Placed(cells, S, at, e) == [cells EXCEPT ![at % S] = e]

LEMMA PlacedType ==
  ASSUME NEW S \in Nat, S > 0, NEW E, NEW cells \in Ring(S, E), NEW at \in Nat, NEW e \in E
  PROVE  Placed(cells, S, at, e) \in Ring(S, E)
BY DEF Ring, Placed

(* So is a single entry.                                                   *)
LEMMA WindowPlaced ==
  ASSUME NEW S \in Nat, S > 0, NEW E, NEW cells \in Ring(S, E), NEW h \in Nat, NEW at \in Nat,
         NEW m \in Nat, NEW e \in E, NEW k \in Nat, Sums(m, 1, k), k <= S, Meets(S, h, m, at)
  PROVE  Window(Placed(cells, S, at, e), S, h, k) = Window(cells, S, h, m) \o <<e>>
<1> DEFINE es == <<e>>
<1>1. es \in Seq(E) /\ Len(es) = 1 /\ es[1] = e
  OBVIOUS
<1> DEFINE start == at % S
<1>3. start \in 0 .. S - 1
  BY DivMod
<1>4. Copied(cells, S, at, es) = [cells EXCEPT ![at % S] = e]
  <2> DEFINE all == Copied(cells, S, at, es)
             one == [cells EXCEPT ![start] = e]
  <2> HIDE DEF es
  <2>1. all = [i \in 0 .. S - 1 |->
                 IF i \in start .. start + (IF Len(es) < S - start THEN Len(es) ELSE S - start) - 1
                 THEN es[i - start + 1]
                 ELSE IF i < Len(es) - (IF Len(es) < S - start THEN Len(es) ELSE S - start)
                 THEN es[(IF Len(es) < S - start THEN Len(es) ELSE S - start) + i + 1]
                 ELSE cells[i]]
    BY DEF Copied
  <2> HIDE DEF start
  <2>2. (IF Len(es) < S - start THEN Len(es) ELSE S - start) = 1
    BY <1>1, <1>3
  <2>3. all = [i \in 0 .. S - 1 |->
                 IF i \in start .. start + 1 - 1 THEN es[i - start + 1]
                 ELSE IF i < 1 - 1 THEN es[1 + i + 1] ELSE cells[i]]
    BY <1>1, <2>1, <2>2
  <2> HIDE DEF all
  <2>4. \A i \in 0 .. S - 1 : all[i] = IF i = start THEN e ELSE cells[i]
    <3> SUFFICES ASSUME NEW i \in 0 .. S - 1
                 PROVE  all[i] = IF i = start THEN e ELSE cells[i]
      OBVIOUS
    <3>1. i \in start .. start + 1 - 1 <=> i = start
      BY <1>3
    <3>2. ~(i < 1 - 1) /\ (i = start => i - start + 1 = 1)
      BY <1>3
    <3> QED BY <1>1, <2>3, <3>1, <3>2
  <2>5. all = [i \in 0 .. S - 1 |-> all[i]] /\ one = [i \in 0 .. S - 1 |-> IF i = start THEN e ELSE cells[i]]
    BY <2>3 DEF Ring
  <2>6. all = one
    BY <2>4, <2>5
  <2> QED BY <2>6 DEF start, all
<1>5. Window(Copied(cells, S, at, es), S, h, k) = Window(cells, S, h, m) \o es
  <2> HIDE DEF es
  <2>1. Sums(m, Len(es), k) /\ es \in Seq(E) BY <1>1 DEF Sums
  <2> QED BY <2>1, WindowCopied
<1> QED BY <1>1, <1>4, <1>5 DEF Placed

(* The oldest entry is the first; emptying its cell leaves the others.     *)
LEMMA WindowTaken ==
  ASSUME NEW S \in Nat, S > 0, NEW E, NEW cells \in Ring(S, E), NEW h \in Nat, NEW g \in Nat,
         NEW m \in Nat, NEW n \in Nat, Sums(n, 1, m), m <= S, NEW e \in E, Meets(S, h, 1, g)
  PROVE  Window(cells, S, h, m) = <<cells[h % S]>> \o Window(Placed(cells, S, h, e), S, g, n)
<1> DEFINE new == [cells EXCEPT ![h % S] = e]
           u == Window(cells, S, h, m)
           v == Window(new, S, g, m - 1)
           f == cells[h % S]
           r == h % S
<1>1. new \in Ring(S, E) /\ m - 1 \in Nat /\ r \in 0 .. S - 1 /\ f \in E
  BY DivMod DEF Ring, Sums
<1>2. \A x \in 0 .. S - 1 : x # r => new[x] = cells[x]
  BY DEF Ring
<1> DEFINE k == m - 1
<1>2a. k \in Nat /\ m = 1 + k
  BY <1>1
<1> HIDE DEF new, u, f, r, k
<1>3. u \in Seq(E) BY WindowType DEF u
<1>4. Len(u) = m BY WindowType DEF u
<1>5. \A i \in 1 .. m : u[i] = cells[(h + (i - 1)) % S] BY WindowType DEF u
<1>6. v = Window(new, S, g, k) BY DEF k
<1> HIDE DEF v
<1>7. /\ v \in Seq(E) /\ Len(v) = k
      /\ \A i \in 1 .. k : v[i] = new[(g + (i - 1)) % S]
  <2> DEFINE w == Window(new, S, g, k)
  <2> HIDE DEF w
  <2>1. new \in Ring(S, E) /\ k \in Nat BY <1>1, <1>2a
  <2>2. w \in Seq(E) BY <2>1, WindowType DEF w
  <2>3. Len(w) = k BY <2>1, WindowType DEF w
  <2>4. \A i \in 1 .. k : w[i] = new[(g + (i - 1)) % S] BY <2>1, WindowType DEF w
  <2>5. v = w BY <1>6 DEF w
  <2> QED BY <2>2, <2>3, <2>4, <2>5
<1> DEFINE fs == <<f>>
<1>9. fs \in Seq(E) /\ Len(fs) = 1 /\ fs[1] = f
  BY <1>1
<1> HIDE DEF fs
<1>10. /\ fs \o v \in Seq(E) /\ Len(fs \o v) = m
       /\ \A i \in 1 .. m : (fs \o v)[i] = IF i <= 1 THEN fs[i] ELSE v[i - 1]
  <2>1. fs \o v \in Seq(E) BY <1>7, <1>9, ConcatProperties
  <2>2. Len(fs \o v) = Len(fs) + Len(v) BY <1>7, <1>9, ConcatProperties
  <2>3. \A i \in 1 .. Len(fs) + Len(v) : (fs \o v)[i] = IF i <= Len(fs) THEN fs[i] ELSE v[i - Len(fs)]
    BY <1>7, <1>9, ConcatProperties
  <2> QED BY <2>1, <2>2, <2>3, <1>2a, <1>7, <1>9
<1>11. \A i \in 1 .. m : u[i] = (fs \o v)[i]
  <2> SUFFICES ASSUME NEW i \in 1 .. m
               PROVE  u[i] = (fs \o v)[i]
    OBVIOUS
  <2>1. CASE i = 1
    <3>1. h + (i - 1) = h BY <2>1
    <3>2. u[i] = f BY <1>5, <3>1 DEF f
    <3> QED BY <3>2, <2>1, <1>9, <1>10
  <2>2. CASE i # 1
    <3>1. i - 1 \in 1 .. k /\ (i - 1) - 1 = i - 2 /\ i - 2 \in 0 .. S /\ i - 1 \in 0 .. S
          /\ h \in Int /\ g \in Int /\ h + 1 \in Int
      BY <2>2, <1>2a
    <3> DEFINE x == (h + (i - 1)) % S
               y == (g + (i - 2)) % S
    <3>2. y = IF (g % S) + (i - 2) < S THEN (g % S) + (i - 2) ELSE (g % S) + (i - 2) - S
      BY <3>1, ModStep
    <3>3. ((h + 1) + (i - 2)) % S = IF ((h + 1) % S) + (i - 2) < S THEN ((h + 1) % S) + (i - 2)
                                     ELSE ((h + 1) % S) + (i - 2) - S
      BY <3>1, ModStep
    <3>4. (h + 1) + (i - 2) = h + (i - 1) BY <3>1
    <3>5. x = y BY <3>2, <3>3, <3>4 DEF Meets
    <3>6. x = IF r + (i - 1) < S THEN r + (i - 1) ELSE r + (i - 1) - S
      BY <3>1, ModStep DEF r
    <3> HIDE DEF x, y
    <3>7. x \in 0 .. S - 1 /\ x # r
      BY <1>1, <3>1, <3>6, <2>2
    <3>8. u[i] = cells[x] BY <1>5 DEF x
    <3>9. v[i - 1] = new[y]
      <4>1. v[i - 1] = new[(g + ((i - 1) - 1)) % S] BY <1>7, <3>1
      <4> QED BY <4>1, <3>1 DEF y
    <3>10. ~(i <= 1) BY <2>2
    <3> QED BY <1>2, <1>10, <3>5, <3>7, <3>8, <3>9, <3>10
  <2> QED BY <2>1, <2>2
<1>12. u = fs \o v
  BY <1>3, <1>4, <1>10, <1>11, SeqEqual
<1>13. m - 1 = n BY DEF Sums
<1> QED BY <1>12, <1>13 DEF u, v, fs, f, new, Placed
-----------------------------------------------------------------------------
(* Cursors.                                                                *)

Cursors == 0 .. Wrap - 1

LEMMA SubCases ==
  ASSUME NEW a \in Cursors, NEW b \in Cursors
  PROVE  Sub(a, b) = (IF a >= b THEN a - b ELSE a - b + Wrap) /\ Sub(a, b) \in Cursors
<1>1. Wrap \in Nat /\ Wrap > 0 /\ a \in 0 .. Wrap - 1 /\ b \in 0 .. Wrap - 1
  BY RingAssumption DEF Cursors
<1> DEFINE x == a - b
           r == IF a >= b THEN a - b ELSE a - b + Wrap
           k == IF a >= b THEN 0 ELSE -1
<1>2. x \in Int /\ r \in 0 .. Wrap - 1 /\ k \in Int
  BY <1>1
<1>3. x = Wrap * k + r
  <2>1. CASE a >= b BY <1>1, <2>1
  <2>2. CASE ~(a >= b)
    <3>1. Wrap * k = -Wrap BY <1>1, <2>2
    <3> QED BY <1>1, <2>2, <3>1
  <2> QED BY <2>1, <2>2
<1> HIDE DEF x, r, k
<1>4. x % Wrap = r
  BY <1>1, <1>2, <1>3, ModUnique
<1> QED BY <1>2, <1>4 DEF x, r, Sub, Cursors

LEMMA AddCases ==
  ASSUME NEW a \in Cursors, NEW n \in 0 .. Wrap
  PROVE  Add(a, n) = (IF a + n < Wrap THEN a + n ELSE a + n - Wrap) /\ Add(a, n) \in Cursors
<1>1. Wrap \in Nat /\ Wrap > 0 /\ a \in 0 .. Wrap - 1 /\ n \in 0 .. Wrap
  BY RingAssumption DEF Cursors
<1> DEFINE x == a + n
           r == IF a + n < Wrap THEN a + n ELSE a + n - Wrap
           k == IF a + n < Wrap THEN 0 ELSE 1
<1>2. x \in Int /\ r \in 0 .. Wrap - 1 /\ k \in Int
  BY <1>1
<1>3. x = Wrap * k + r
  <2>1. CASE a + n < Wrap BY <1>1, <2>1
  <2>2. CASE ~(a + n < Wrap)
    <3>1. Wrap * k = Wrap BY <1>1, <2>2
    <3> QED BY <1>1, <2>2, <3>1
  <2> QED BY <2>1, <2>2
<1> HIDE DEF x, r, k
<1>4. x % Wrap = r
  BY <1>1, <1>2, <1>3, ModUnique
<1> QED BY <1>2, <1>4 DEF x, r, Add, Cursors

LEMMA SubAdd ==
  ASSUME NEW x \in Cursors, NEW y \in Cursors, NEW n \in Nat, Sub(x, y) + n < Wrap
  PROVE  Add(x, n) \in Cursors /\ Sub(Add(x, n), y) = Sub(x, y) + n
<1> DEFINE z == Add(x, n)
           d == Sub(x, y)
           w == Sub(z, y)
<1>1. Wrap \in Nat /\ Wrap > 0 BY RingAssumption
<1>2. d = (IF x >= y THEN x - y ELSE x - y + Wrap) /\ d \in Cursors
  BY SubCases
<1> HIDE DEF d
<1>3. n \in 0 .. Wrap
  BY <1>1, <1>2 DEF d, Cursors
<1>4. z = (IF x + n < Wrap THEN x + n ELSE x + n - Wrap) /\ z \in Cursors
  BY <1>3, AddCases
<1> HIDE DEF z
<1>5. w = IF z >= y THEN z - y ELSE z - y + Wrap
  BY <1>4, SubCases
<1> HIDE DEF w
<1>6. d + n < Wrap BY DEF d
<1>7. w = d + n
  BY <1>1, <1>2, <1>4, <1>5, <1>6 DEF Cursors
<1> QED BY <1>4, <1>7 DEF w, d, z

LEMMA SubNext ==
  ASSUME NEW x \in Cursors, NEW y \in Cursors, Sub(x, y) > 0
  PROVE  Add(y, 1) \in Cursors /\ Sub(x, Add(y, 1)) = Sub(x, y) - 1
<1> DEFINE z == Add(y, 1)
           d == Sub(x, y)
           w == Sub(x, z)
<1>1. Wrap \in Nat /\ Wrap > 0 BY RingAssumption
<1>2. d = (IF x >= y THEN x - y ELSE x - y + Wrap) /\ d \in Cursors
  BY SubCases
<1> HIDE DEF d
<1>3. 1 \in 0 .. Wrap
  BY <1>1
<1>4. z = (IF y + 1 < Wrap THEN y + 1 ELSE y + 1 - Wrap) /\ z \in Cursors
  BY <1>3, AddCases
<1> HIDE DEF z
<1>5. w = IF x >= z THEN x - z ELSE x - z + Wrap
  BY <1>4, SubCases
<1> HIDE DEF w
<1>6. d > 0 BY DEF d
<1>7. w = d - 1
  BY <1>1, <1>2, <1>4, <1>5, <1>6 DEF Cursors
<1> QED BY <1>4, <1>7 DEF w, d, z

LEMMA SubSame == \A x \in Cursors : Sub(x, x) = 0
<1>1. Wrap \in Nat BY RingAssumption
<1> QED BY <1>1, SubCases DEF Cursors

(* Cursors of a ring whose size divides Wrap agree with its cells.         *)
LEMMA MeetsTail ==
  ASSUME NEW S \in Nat, S > 0, Wrap % S = 0, NEW x \in Cursors, NEW y \in Cursors
  PROVE  Meets(S, y, Sub(x, y), x)
<1>1. Wrap \in Nat /\ Wrap > 0 /\ x \in Int /\ y \in Int
  BY RingAssumption DEF Cursors
<1>2. Sub(x, y) = (IF x >= y THEN x - y ELSE x - y + Wrap)
  BY SubCases
<1>3. CASE x >= y
  <2>1. y + Sub(x, y) = x BY <1>1, <1>2, <1>3
  <2> QED BY <2>1 DEF Meets
<1>4. CASE ~(x >= y)
  <2>1. y + Sub(x, y) = x + Wrap BY <1>1, <1>2, <1>4
  <2>2. (x + Wrap) % S = x % S BY <1>1, ModShift
  <2> QED BY <2>1, <2>2 DEF Meets
<1> QED BY <1>3, <1>4

LEMMA MeetsNext ==
  ASSUME NEW S \in Nat, S > 0, Wrap % S = 0, NEW y \in Cursors
  PROVE  Meets(S, y, 1, Add(y, 1))
<1>1. Wrap \in Nat /\ Wrap > 0 /\ y \in Int
  BY RingAssumption DEF Cursors
<1> DEFINE z == Add(y, 1)
<1>2. z = IF y + 1 < Wrap THEN y + 1 ELSE y + 1 - Wrap
  <2>1. 1 \in 0 .. Wrap BY <1>1
  <2> QED BY <2>1, AddCases
<1> HIDE DEF z
<1>3. CASE y + 1 < Wrap
  BY <1>2, <1>3 DEF Meets, z
<1>4. CASE ~(y + 1 < Wrap)
  <2>1. z \in Int /\ z + Wrap = y + 1 BY <1>1, <1>2, <1>4
  <2>2. (z + Wrap) % S = z % S BY <1>1, <2>1, ModShift
  <2>3. Meets(S, y, 1, z) BY <2>1, <2>2 DEF Meets
  <2> QED BY <2>3 DEF z
<1> QED BY <1>3, <1>4
-----------------------------------------------------------------------------
(* The submission ring.                                                    *)

SqRings(E) == [khead : Cursors, ktail : Cursors, head : Cursors, tail : Cursors,
               cells : Ring(SqEntries, E)]

SqOrder(q) ==
    /\ Sub(q.tail, q.head) <= SqEntries
    /\ Sub(q.ktail, q.khead) <= Sub(q.tail, q.khead)
    /\ Sub(q.tail, q.khead) <= Sub(q.tail, q.head)

LEMMA SqSize == SqEntries \in Nat /\ SqEntries > 0 /\ Wrap % SqEntries = 0 /\ SqEntries < Wrap /\ Wrap \in Nat
BY RingAssumption

LEMMA CqSize == CqEntries \in Nat /\ CqEntries > 0 /\ Wrap % CqEntries = 0 /\ CqEntries < Wrap /\ Wrap \in Nat
BY RingAssumption

(* A batch for which the cached head shows room is appended.               *)
LEMMA SqPushAll ==
  ASSUME NEW E, NEW q \in SqRings(E), SqOrder(q), NEW es \in Seq(E), HasCapacity(q, Len(es))
  PROVE  /\ PushAll(q, es) \in SqRings(E) /\ SqOrder(PushAll(q, es))
         /\ Unsent(PushAll(q, es)) = Unsent(q) \o es
         /\ PushAll(q, es).ktail = q.ktail /\ PushAll(q, es).khead = q.khead
<1> DEFINE n == Len(es)
           p == PushAll(q, es)
           a == Sub(q.tail, q.khead)
           b == Sub(q.tail, q.head)
           new == Copied(q.cells, SqEntries, q.tail, es)
           z == Add(q.tail, n)
<1>1. /\ q.khead \in Cursors /\ q.ktail \in Cursors /\ q.head \in Cursors /\ q.tail \in Cursors
      /\ q.cells \in Ring(SqEntries, E)
  BY DEF SqRings
<1>2. /\ p.khead = q.khead /\ p.ktail = q.ktail /\ p.head = q.head /\ p.tail = z
      /\ p.cells = new
  BY DEF PushAll, SqRings
<1>3. p \in [khead : {q.khead}, ktail : {q.ktail}, head : {q.head}, tail : {z}, cells : {new}]
  BY DEF PushAll, SqRings
<1>4. n \in Nat BY LenProperties
<1>5. a \in Cursors /\ b \in Cursors /\ Sub(q.ktail, q.khead) \in Cursors
  BY <1>1, SubCases
<1>6. b <= SqEntries /\ a <= b /\ Sub(q.ktail, q.khead) <= a /\ SqEntries - b >= n
  BY DEF SqOrder, HasCapacity, Pending
<1> HIDE DEF n, p, a, b, new, z
<1>7. a + n <= SqEntries /\ b + n <= SqEntries /\ a \in Nat /\ b \in Nat /\ n <= SqEntries
      /\ a + n < Wrap /\ b + n < Wrap /\ a + n \in Nat
  BY <1>4, <1>5, <1>6, SqSize DEF Cursors
<1>8. z \in Cursors /\ Sub(z, q.khead) = a + n
  BY <1>1, <1>4, <1>7, SubAdd DEF a, z
<1>9. Sub(z, q.head) = b + n
  BY <1>1, <1>4, <1>7, SubAdd DEF b, z
<1>10. new \in Ring(SqEntries, E)
  <2>1. q.tail \in Nat /\ Len(es) <= SqEntries BY <1>1, <1>7 DEF Cursors, n
  <2> QED BY <1>1, <2>1, SqSize, CopiedType DEF new
<1>11. p \in SqRings(E)
  BY <1>1, <1>3, <1>8, <1>10 DEF SqRings
<1>12. SqOrder(p)
  <2>1. Sub(p.tail, p.head) = b + n /\ Sub(p.tail, p.khead) = a + n
        /\ Sub(p.ktail, p.khead) = Sub(q.ktail, q.khead)
    BY <1>2, <1>8, <1>9
  <2>2. Sub(q.ktail, q.khead) \in Int BY <1>5 DEF Cursors
  <2> QED BY <1>4, <1>6, <1>7, <2>1, <2>2 DEF SqOrder
<1>13. Unsent(p) = Unsent(q) \o es
  <2> DEFINE k == a + n
             c == q.cells
             h == q.khead
             at == q.tail
  <2>1. Unsent(q) = Window(c, SqEntries, h, a)
    BY DEF Unsent, a
  <2>2. Unsent(p) = Window(new, SqEntries, h, k)
    BY <1>2, <1>8 DEF Unsent
  <2>3. Meets(SqEntries, h, a, at)
    BY <1>1, SqSize, MeetsTail DEF a
  <2>4. k \in Nat /\ Sums(a, Len(es), k) /\ k <= SqEntries /\ a \in Nat
        /\ h \in Nat /\ at \in Nat /\ c \in Ring(SqEntries, E)
    BY <1>1, <1>7 DEF n, Cursors, Sums
  <2>5. new = Copied(c, SqEntries, at, es) BY DEF new
  <2> HIDE DEF k, c, h, at
  <2>6. Window(new, SqEntries, h, k) = Window(c, SqEntries, h, a) \o es
    BY <2>3, <2>4, <2>5, SqSize, WindowCopied
  <2> QED BY <2>1, <2>2, <2>6
<1> QED BY <1>2, <1>11, <1>12, <1>13 DEF p

(* So is a single entry, also into the cell that try_acquire found free.   *)
LEMMA SqPushOne ==
  ASSUME NEW E, NEW q \in SqRings(E), SqOrder(q), NEW e \in E, Sub(q.tail, q.head) < SqEntries
  PROVE  /\ PushOne(q, e) \in SqRings(E) /\ SqOrder(PushOne(q, e))
         /\ Unsent(PushOne(q, e)) = Unsent(q) \o <<e>>
         /\ PushOne(q, e).ktail = q.ktail /\ PushOne(q, e).khead = q.khead
<1> DEFINE p == PushOne(q, e)
           a == Sub(q.tail, q.khead)
           b == Sub(q.tail, q.head)
           new == [q.cells EXCEPT ![q.tail % SqEntries] = e]
           z == Add(q.tail, 1)
<1>1. /\ q.khead \in Cursors /\ q.ktail \in Cursors /\ q.head \in Cursors /\ q.tail \in Cursors
      /\ q.cells \in Ring(SqEntries, E)
  BY DEF SqRings
<1>2. /\ p.khead = q.khead /\ p.ktail = q.ktail /\ p.head = q.head /\ p.tail = z
      /\ p.cells = new
  BY DEF PushOne, SqRings
<1>3. p \in [khead : {q.khead}, ktail : {q.ktail}, head : {q.head}, tail : {z}, cells : {new}]
  BY DEF PushOne, SqRings
<1>5. a \in Cursors /\ b \in Cursors /\ Sub(q.ktail, q.khead) \in Cursors
  BY <1>1, SubCases
<1>6. b < SqEntries /\ a <= b /\ Sub(q.ktail, q.khead) <= a
  BY DEF SqOrder
<1> HIDE DEF p, a, b, new, z
<1>7. a + 1 <= SqEntries /\ b + 1 <= SqEntries /\ a \in Nat /\ b \in Nat /\ a < SqEntries
      /\ a + 1 < Wrap /\ b + 1 < Wrap /\ 1 \in Nat
  BY <1>5, <1>6, SqSize DEF Cursors
<1>8. z \in Cursors /\ Sub(z, q.khead) = a + 1
  BY <1>1, <1>7, SubAdd DEF a, z
<1>9. Sub(z, q.head) = b + 1
  BY <1>1, <1>7, SubAdd DEF b, z
<1> DEFINE c == q.cells
           h == q.khead
           at == q.tail
<1>10. Meets(SqEntries, h, a, at)
  BY <1>1, SqSize, MeetsTail DEF a
<1>11. h \in Nat /\ at \in Nat /\ c \in Ring(SqEntries, E) /\ new = Placed(c, SqEntries, at, e)
  BY <1>1 DEF Cursors, new, Placed
<1>12. Unsent(q) = Window(c, SqEntries, h, a)
  BY DEF Unsent, a
<1>13. Unsent(p) = Window(new, SqEntries, h, a + 1)
  BY <1>2, <1>8 DEF Unsent
<1> HIDE DEF c, h, at
<1>14. new \in Ring(SqEntries, E) /\ Window(new, SqEntries, h, a + 1) = Window(c, SqEntries, h, a) \o <<e>>
  <2> DEFINE k == a + 1
  <2>1. k \in Nat /\ Sums(a, 1, k) /\ k <= SqEntries /\ a \in Nat BY <1>7 DEF Sums
  <2> HIDE DEF k
  <2>2. new \in Ring(SqEntries, E) BY <1>11, SqSize, PlacedType
  <2>3. Window(new, SqEntries, h, k) = Window(c, SqEntries, h, a) \o <<e>>
    BY <1>10, <1>11, <2>1, SqSize, WindowPlaced
  <2> QED BY <2>2, <2>3 DEF k
<1>15. p \in SqRings(E)
  BY <1>1, <1>3, <1>8, <1>14 DEF SqRings
<1>16. SqOrder(p)
  <2>1. Sub(p.tail, p.head) = b + 1 /\ Sub(p.tail, p.khead) = a + 1
        /\ Sub(p.ktail, p.khead) = Sub(q.ktail, q.khead)
    BY <1>2, <1>8, <1>9
  <2>2. Sub(q.ktail, q.khead) \in Int BY <1>5 DEF Cursors
  <2> QED BY <1>6, <1>7, <2>1, <2>2 DEF SqOrder
<1> QED BY <1>2, <1>12, <1>13, <1>14, <1>15, <1>16 DEF p

(* The kernel takes the oldest entry, when one is published.               *)
LEMMA SqTake ==
  ASSUME NEW E, NEW q \in SqRings(E), SqOrder(q), NoEntry \in E, Sub(q.ktail, q.khead) > 0
  PROVE  /\ TakeSq(q) \in SqRings(E) /\ SqOrder(TakeSq(q))
         /\ Unsent(q) = <<FrontSq(q)>> \o Unsent(TakeSq(q))
         /\ Sub(TakeSq(q).ktail, TakeSq(q).khead) = Sub(q.ktail, q.khead) - 1
<1> DEFINE p == TakeSq(q)
           a == Sub(q.tail, q.khead)
           b == Sub(q.tail, q.head)
           d == Sub(q.ktail, q.khead)
           c == q.cells
           h == q.khead
           new == Placed(c, SqEntries, h, NoEntry)
           z == Add(q.khead, 1)
<1>1. /\ q.khead \in Cursors /\ q.ktail \in Cursors /\ q.head \in Cursors /\ q.tail \in Cursors
      /\ q.cells \in Ring(SqEntries, E)
  BY DEF SqRings
<1>2. /\ p.khead = z /\ p.ktail = q.ktail /\ p.head = q.head /\ p.tail = q.tail
      /\ p.cells = new
  BY DEF TakeSq, SqRings, Placed
<1>3. p \in [khead : {z}, ktail : {q.ktail}, head : {q.head}, tail : {q.tail}, cells : {new}]
  BY DEF TakeSq, SqRings, Placed
<1>4. a \in Cursors /\ b \in Cursors /\ d \in Cursors
  BY <1>1, SubCases
<1>5. b <= SqEntries /\ a <= b /\ d <= a /\ d > 0
  BY DEF SqOrder
<1> HIDE DEF p, a, b, d, new, z
<1>6. a > 0 /\ a - 1 \in Nat /\ a \in Nat /\ b \in Nat /\ d \in Nat /\ a <= SqEntries
  BY <1>4, <1>5, SqSize DEF Cursors
<1>7. z \in Cursors /\ Sub(q.tail, z) = a - 1
  BY <1>1, <1>6, SubNext DEF a, z
<1>8. Sub(q.ktail, z) = d - 1
  BY <1>1, <1>5, SubNext DEF d, z
<1>9. new \in Ring(SqEntries, E)
  <2>1. h \in Nat BY <1>1 DEF Cursors
  <2> QED BY <1>1, <2>1, SqSize, PlacedType DEF new
<1>10. p \in SqRings(E)
  BY <1>1, <1>3, <1>7, <1>9 DEF SqRings
<1>11. Sub(p.tail, p.head) = b /\ Sub(p.tail, p.khead) = a - 1 /\ Sub(p.ktail, p.khead) = d - 1
  BY <1>2, <1>7, <1>8 DEF b
<1>12. SqOrder(p)
  BY <1>5, <1>6, <1>11 DEF SqOrder
<1>13. Unsent(q) = <<FrontSq(q)>> \o Unsent(p)
  <2> DEFINE n == a - 1
             f == c[h % SqEntries]
  <2>1. n \in Nat /\ Sums(n, 1, a) /\ a <= SqEntries /\ a \in Nat
    BY <1>6 DEF Sums
  <2>2. Meets(SqEntries, h, 1, z) /\ z \in Nat /\ h \in Nat
    BY <1>1, <1>7, SqSize, MeetsNext DEF z, Cursors
  <2>3. Unsent(q) = Window(c, SqEntries, h, a)
    BY DEF Unsent, a
  <2>4. Unsent(p) = Window(new, SqEntries, z, n)
    BY <1>2, <1>7 DEF Unsent
  <2>5. FrontSq(q) = f
    BY DEF FrontSq
  <2>6. c \in Ring(SqEntries, E) BY <1>1
  <2> HIDE DEF n, c, h
  <2>7. Window(c, SqEntries, h, a) = <<f>> \o Window(Placed(c, SqEntries, h, NoEntry), SqEntries, z, n)
    BY <2>1, <2>2, <2>6, SqSize, WindowTaken
  <2> QED BY <2>3, <2>4, <2>5, <2>7 DEF new
<1> QED BY <1>10, <1>11, <1>12, <1>13 DEF p, d

LEMMA SqPublish ==
  ASSUME NEW E, NEW q \in SqRings(E), SqOrder(q)
  PROVE  /\ PublishSq(q) \in SqRings(E) /\ SqOrder(PublishSq(q))
         /\ Unsent(PublishSq(q)) = Unsent(q)
         /\ Pending(PublishSq(q)) \in 0 .. SqEntries
         /\ Sub(PublishSq(q).ktail, PublishSq(q).khead) = Pending(PublishSq(q))
<1> DEFINE p == PublishSq(q)
           a == Sub(q.tail, q.khead)
<1>1. /\ q.khead \in Cursors /\ q.ktail \in Cursors /\ q.head \in Cursors /\ q.tail \in Cursors
      /\ q.cells \in Ring(SqEntries, E)
  BY DEF SqRings
<1>2. /\ p.khead = q.khead /\ p.ktail = q.tail /\ p.head = q.khead /\ p.tail = q.tail
      /\ p.cells = q.cells
  BY DEF PublishSq, SqRings
<1>3. p \in [khead : {q.khead}, ktail : {q.tail}, head : {q.khead}, tail : {q.tail}, cells : {q.cells}]
  BY DEF PublishSq, SqRings
<1>4. a \in Cursors /\ Sub(q.tail, q.head) \in Cursors
  BY <1>1, SubCases
<1>5. a <= Sub(q.tail, q.head) /\ Sub(q.tail, q.head) <= SqEntries
  BY DEF SqOrder
<1> HIDE DEF p, a
<1>6. a \in 0 .. SqEntries
  BY <1>4, <1>5, SqSize DEF Cursors
<1>7. p \in SqRings(E)
  BY <1>1, <1>3 DEF SqRings
<1>8. Sub(p.tail, p.head) = a /\ Sub(p.tail, p.khead) = a /\ Sub(p.ktail, p.khead) = a
  BY <1>2 DEF a
<1>9. SqOrder(p)
  BY <1>6, <1>8, SqSize DEF SqOrder
<1>10. Unsent(p) = Unsent(q)
  BY <1>2 DEF Unsent
<1> QED BY <1>6, <1>7, <1>8, <1>9, <1>10 DEF p, Pending

LEMMA SqAcquire ==
  ASSUME NEW E, NEW q \in SqRings(E), SqOrder(q), CanAcquire(q)
  PROVE  /\ Acquired(q) \in SqRings(E) /\ SqOrder(Acquired(q))
         /\ Unsent(Acquired(q)) = Unsent(q)
         /\ Sub(Acquired(q).tail, Acquired(q).head) < SqEntries
         /\ Acquired(q).ktail = q.ktail /\ Acquired(q).khead = q.khead
<1> DEFINE p == Acquired(q)
           a == Sub(q.tail, q.khead)
           d == Sub(q.ktail, q.khead)
<1>1. /\ q.khead \in Cursors /\ q.ktail \in Cursors /\ q.head \in Cursors /\ q.tail \in Cursors
      /\ q.cells \in Ring(SqEntries, E)
  BY DEF SqRings
<1>2. /\ p.khead = q.khead /\ p.ktail = q.ktail /\ p.head = q.khead /\ p.tail = q.tail
      /\ p.cells = q.cells
  BY DEF Acquired, SqRings
<1>3. p \in [khead : {q.khead}, ktail : {q.ktail}, head : {q.khead}, tail : {q.tail}, cells : {q.cells}]
  BY DEF Acquired, SqRings
<1>4. a \in Cursors /\ Sub(q.tail, q.head) \in Cursors /\ d \in Cursors
  BY <1>1, SubCases
<1>5. a <= Sub(q.tail, q.head) /\ Sub(q.tail, q.head) <= SqEntries /\ a # SqEntries /\ d <= a
  BY DEF SqOrder, CanAcquire
<1> HIDE DEF p, a, d
<1>6. a \in 0 .. SqEntries - 1
  BY <1>4, <1>5, SqSize DEF Cursors
<1>7. p \in SqRings(E)
  BY <1>1, <1>3 DEF SqRings
<1>8. Sub(p.tail, p.head) = a /\ Sub(p.tail, p.khead) = a /\ Sub(p.ktail, p.khead) = d
  BY <1>2 DEF a, d
<1>9. SqOrder(p)
  BY <1>5, <1>6, <1>8, SqSize DEF SqOrder
<1>10. Unsent(p) = Unsent(q)
  BY <1>2 DEF Unsent
<1>11. Sub(p.tail, p.head) < SqEntries
  BY <1>6, <1>8, SqSize
<1> QED BY <1>2, <1>7, <1>9, <1>10, <1>11 DEF p
-----------------------------------------------------------------------------
(* The completion ring.                                                    *)

CqRings(E) == [khead : Cursors, ktail : Cursors, head : Cursors, available : Nat,
               cells : Ring(CqEntries, E), over : Seq(E)]

CqOrder(q) ==
    /\ Sub(q.ktail, q.khead) <= CqEntries
    /\ q.available <= Observed(q)
    /\ Observed(q) <= Sub(q.ktail, q.khead)

LEMMA CqFields ==
  ASSUME NEW E, NEW q \in CqRings(E), CqOrder(q)
  PROVE  /\ q.khead \in Cursors /\ q.ktail \in Cursors /\ q.head \in Cursors /\ q.available \in Nat
         /\ q.cells \in Ring(CqEntries, E) /\ q.over \in Seq(E) /\ q.head \in Nat /\ q.ktail \in Nat
         /\ Sub(q.ktail, q.khead) \in 0 .. CqEntries /\ Observed(q) \in 0 .. CqEntries
         /\ Observed(q) <= Sub(q.ktail, q.khead) /\ q.available <= Observed(q)
         /\ Unread(q) = Window(q.cells, CqEntries, q.head, Observed(q)) \o q.over
         /\ Window(q.cells, CqEntries, q.head, Observed(q)) \in Seq(E)
         /\ Len(Window(q.cells, CqEntries, q.head, Observed(q))) = Observed(q)
         /\ Unread(q) \in Seq(E)
<1>1. /\ q.khead \in Cursors /\ q.ktail \in Cursors /\ q.head \in Cursors /\ q.available \in Nat
      /\ q.cells \in Ring(CqEntries, E) /\ q.over \in Seq(E)
  BY DEF CqRings
<1>2. Sub(q.ktail, q.khead) \in Cursors /\ Observed(q) \in Cursors
  BY <1>1, SubCases DEF Observed
<1>3. /\ Sub(q.ktail, q.khead) <= CqEntries /\ q.available <= Observed(q)
      /\ Observed(q) <= Sub(q.ktail, q.khead)
  BY DEF CqOrder
<1>4. /\ Sub(q.ktail, q.khead) \in 0 .. CqEntries /\ Observed(q) \in 0 .. CqEntries
      /\ q.head \in Nat /\ q.ktail \in Nat /\ Observed(q) \in Nat
  BY <1>1, <1>2, <1>3, CqSize DEF Cursors
<1> DEFINE o == Observed(q)
           c == q.cells
           h == q.head
           w == Window(c, CqEntries, h, o)
<1>5. o \in Nat /\ c \in Ring(CqEntries, E) /\ h \in Nat BY <1>1, <1>4
<1> HIDE DEF o, c, h, w
<1>6. w \in Seq(E) BY <1>5, CqSize, WindowType DEF w
<1>7. Len(w) = o BY <1>5, CqSize, WindowType DEF w
<1>8. Unread(q) = w \o q.over BY DEF Unread, w, o, c, h
<1>9. Unread(q) \in Seq(E) BY <1>1, <1>6, <1>8, ConcatProperties
<1> QED BY <1>1, <1>3, <1>4, <1>6, <1>7, <1>8, <1>9 DEF w, o, c, h

LEMMA CqPostCell ==
  ASSUME NEW E, NEW q \in CqRings(E), CqOrder(q), NEW e \in E, Room(q), q.over = <<>>
  PROVE  /\ PostCell(q, e) \in CqRings(E) /\ CqOrder(PostCell(q, e))
         /\ Unread(PostCell(q, e)) = Unread(q) \o <<e>>
<1> DEFINE p == PostCell(q, e)
           t == Sub(q.ktail, q.khead)
           o == Observed(q)
           c == q.cells
           h == q.head
           at == q.ktail
           new == Placed(c, CqEntries, at, e)
           z == Add(q.ktail, 1)
           w == Window(c, CqEntries, h, o)
<1>1. /\ q.khead \in Cursors /\ q.ktail \in Cursors /\ q.head \in Cursors /\ q.available \in Nat
      /\ c \in Ring(CqEntries, E) /\ q.over \in Seq(E) /\ h \in Nat /\ at \in Nat
      /\ t \in 0 .. CqEntries /\ o \in 0 .. CqEntries /\ o <= t /\ q.available <= o
      /\ Unread(q) = w \o q.over /\ w \in Seq(E)
  BY CqFields
<1>2. /\ p.khead = q.khead /\ p.ktail = z /\ p.head = q.head /\ p.available = q.available
      /\ p.cells = new /\ p.over = q.over
  BY DEF PostCell, CqRings, Placed
<1>3. p \in [khead : {q.khead}, ktail : {z}, head : {q.head}, available : {q.available},
             cells : {new}, over : {q.over}]
  BY DEF PostCell, CqRings, Placed
<1>4. t < CqEntries BY DEF Room
<1>5. Meets(CqEntries, h, o, at)
  BY <1>1, CqSize, MeetsTail DEF Observed
<1>6. t = Sub(q.ktail, q.khead) /\ o = Sub(q.ktail, q.head)
  BY DEF Observed
<1>7. new = Placed(c, CqEntries, at, e) OBVIOUS
<1> HIDE DEF p, t, o, c, h, at, new, z, w
<1>8. t + 1 < Wrap /\ o + 1 < Wrap /\ 1 \in Nat /\ t \in Nat /\ o \in Nat /\ t + 1 <= CqEntries
  BY <1>1, <1>4, CqSize
<1>9. z \in Cursors /\ Sub(z, q.khead) = t + 1
  BY <1>1, <1>6, <1>8, SubAdd DEF z
<1>10. Sub(z, q.head) = o + 1
  BY <1>1, <1>6, <1>8, SubAdd DEF z
<1>11. new \in Ring(CqEntries, E)
  BY <1>1, <1>7, CqSize, PlacedType
<1>12. p \in CqRings(E)
  BY <1>1, <1>3, <1>9, <1>11 DEF CqRings
<1>13. Sub(p.ktail, p.khead) = t + 1 /\ Observed(p) = o + 1 /\ p.available = q.available
  BY <1>2, <1>9, <1>10 DEF Observed
<1>14. CqOrder(p)
  BY <1>1, <1>8, <1>13, CqSize DEF CqOrder
<1>15. Window(new, CqEntries, h, o + 1) = w \o <<e>>
  <2> DEFINE k == o + 1
  <2>1. k \in Nat /\ Sums(o, 1, k) /\ k <= CqEntries BY <1>1, <1>8, CqSize DEF Sums
  <2> HIDE DEF k
  <2>2. o \in Nat BY <1>8
  <2>3. Window(new, CqEntries, h, k) = Window(c, CqEntries, h, o) \o <<e>>
    BY <1>1, <1>5, <1>7, <2>1, <2>2, CqSize, WindowPlaced
  <2> QED BY <2>3 DEF k, w
<1>16. Unread(p) = (w \o <<e>>) \o <<>>
  BY <1>2, <1>13, <1>15 DEF Unread, h
<1>17. <<e>> \in Seq(E) /\ w \o <<e>> \in Seq(E)
  <2>1. <<e>> \in Seq(E) OBVIOUS
  <2> QED BY <1>1, <2>1, ConcatProperties
<1>18. Unread(p) = w \o <<e>> /\ Unread(q) = w
  BY <1>1, <1>16, <1>17, ConcatEmptySeq
<1> QED BY <1>12, <1>14, <1>18 DEF p

(* A completion is appended, in the ring or aside.                         *)
LEMMA CqPost ==
  ASSUME NEW E, NEW q \in CqRings(E), CqOrder(q), NEW e \in E
  PROVE  /\ Post(q, e) \in CqRings(E) /\ CqOrder(Post(q, e))
         /\ Unread(Post(q, e)) = Unread(q) \o <<e>>
<1>1. CASE q.over = <<>> /\ Room(q)
  <2>1. Post(q, e) = PostCell(q, e) BY <1>1 DEF Post
  <2> QED BY <1>1, <2>1, CqPostCell
<1>2. CASE ~(q.over = <<>> /\ Room(q))
  <2> DEFINE p == Post(q, e)
             new == Append(q.over, e)
             w == Window(q.cells, CqEntries, q.head, Observed(q))
  <2>1. /\ q.khead \in Cursors /\ q.ktail \in Cursors /\ q.head \in Cursors /\ q.available \in Nat
        /\ q.cells \in Ring(CqEntries, E) /\ q.over \in Seq(E)
        /\ Unread(q) = w \o q.over /\ w \in Seq(E)
    BY CqFields
  <2>2. /\ p.khead = q.khead /\ p.ktail = q.ktail /\ p.head = q.head /\ p.available = q.available
        /\ p.cells = q.cells /\ p.over = new
    BY <1>2 DEF Post, CqRings
  <2>3. p \in [khead : {q.khead}, ktail : {q.ktail}, head : {q.head}, available : {q.available},
               cells : {q.cells}, over : {new}]
    BY <1>2 DEF Post, CqRings
  <2>4. new \in Seq(E) /\ new = q.over \o <<e>> /\ <<e>> \in Seq(E)
    BY <2>1, AppendProperties, AppendIsConcat
  <2>5. Observed(p) = Observed(q) BY <2>2 DEF Observed
  <2>6. Unread(p) = w \o new BY <2>2, <2>5 DEF Unread
  <2> HIDE DEF p, new, w
  <2>7. p \in CqRings(E) BY <2>1, <2>3, <2>4 DEF CqRings
  <2>8. CqOrder(p) BY <2>2, <2>5 DEF CqOrder
  <2>9. Unread(p) = Unread(q) \o <<e>>
    <3> DEFINE es == <<e>>
               v == q.over
    <3>1. es \in Seq(E) /\ v \in Seq(E) /\ w \in Seq(E) BY <2>1, <2>4
    <3>2. Unread(p) = w \o (v \o es) /\ Unread(q) = w \o v BY <2>1, <2>4, <2>6
    <3> HIDE DEF es, v
    <3>3. (w \o v) \o es = w \o (v \o es) BY <3>1, ConcatAssociative
    <3>4. Unread(p) = Unread(q) \o es BY <3>2, <3>3
    <3> QED BY <3>4 DEF es
  <2> QED BY <2>7, <2>8, <2>9 DEF p
<1> QED BY <1>1, <1>2

(* What was kept aside enters the ring behind what is there.               *)
LEMMA CqFlush ==
  ASSUME NEW E, NEW q \in CqRings(E), CqOrder(q)
  PROVE  /\ Flush(q) \in CqRings(E) /\ CqOrder(Flush(q))
         /\ Unread(Flush(q)) = Unread(q)
<1> DEFINE p == Flush(q)
           t == Sub(q.ktail, q.khead)
           o == Observed(q)
           c == q.cells
           h == q.head
           at == q.ktail
           v == q.over
           n == IF Len(v) < CqEntries - t THEN Len(v) ELSE CqEntries - t
           es == SubSeq(v, 1, n)
           ds == SubSeq(v, n + 1, Len(v))
           new == Copied(c, CqEntries, at, es)
           z == Add(q.ktail, n)
           w == Window(c, CqEntries, h, o)
<1>1. /\ q.khead \in Cursors /\ q.ktail \in Cursors /\ q.head \in Cursors /\ q.available \in Nat
      /\ c \in Ring(CqEntries, E) /\ v \in Seq(E) /\ h \in Nat /\ at \in Nat
      /\ t \in 0 .. CqEntries /\ o \in 0 .. CqEntries /\ o <= t /\ q.available <= o
      /\ Unread(q) = w \o v /\ w \in Seq(E)
  BY CqFields
<1>2. /\ p.khead = q.khead /\ p.ktail = z /\ p.head = q.head /\ p.available = q.available
      /\ p.cells = new /\ p.over = ds
  BY DEF Flush, CqRings
<1>3. p \in [khead : {q.khead}, ktail : {z}, head : {q.head}, available : {q.available},
             cells : {new}, over : {ds}]
  BY DEF Flush, CqRings
<1>5. Meets(CqEntries, h, o, at)
  BY <1>1, CqSize, MeetsTail DEF Observed
<1>6. t = Sub(q.ktail, q.khead) /\ o = Sub(q.ktail, q.head)
  BY DEF Observed
<1>7. Len(v) \in Nat BY <1>1, LenProperties
<1>8. n \in Nat /\ n <= Len(v) /\ t + n <= CqEntries /\ n <= CqEntries
  <2> DEFINE l == Len(v)
  <2>1. l \in Nat BY <1>7
  <2> HIDE DEF l, t
  <2>2. n = IF l < CqEntries - t THEN l ELSE CqEntries - t BY DEF l
  <2> HIDE DEF n
  <2>3. n \in Nat /\ n <= l /\ t + n <= CqEntries /\ n <= CqEntries
    BY <1>1, <2>1, <2>2, CqSize
  <2> QED BY <2>3 DEF l
<1> HIDE DEF p, t, o, c, h, at, v, n
<1>9. es \in Seq(E) /\ Len(es) = n /\ ds \in Seq(E) /\ v = es \o ds
  <2>1. \A i \in 1 .. Len(v) : v[i] \in E BY <1>1, ElementOfSeq
  <2>2. es \in Seq(E) /\ Len(es) = n
    <3>1. \A i \in 1 .. n : v[i] \in E BY <1>7, <1>8, <2>1
    <3>2. 1 \in Int /\ n \in Int /\ (1 <= n => n - 1 + 1 = n) /\ (~(1 <= n) => n = 0) BY <1>8
    <3> QED BY <3>1, <3>2, SubSeqProperties
  <2>3. ds \in Seq(E)
    <3>1. \A i \in n + 1 .. Len(v) : v[i] \in E BY <1>7, <1>8, <2>1
    <3>2. n + 1 \in Int /\ Len(v) \in Int BY <1>7, <1>8
    <3> QED BY <3>1, <3>2, SubSeqProperties
  <2>4. es \o ds = SubSeq(v, 1, Len(v))
    <3>1. 1 \in 1 .. Len(v) + 1 /\ n \in 1 - 1 .. Len(v) /\ Len(v) \in n .. Len(v)
      BY <1>7, <1>8
    <3> QED BY <1>1, <3>1, ConcatAdjacentSubSeq
  <2> QED BY <1>1, <2>2, <2>3, <2>4, SubSeqFull
<1> HIDE DEF es, ds
<1>10. new = Copied(c, CqEntries, at, es) OBVIOUS
<1> HIDE DEF new, z, w
<1>11. t + n < Wrap /\ o + n < Wrap /\ t \in Nat /\ o \in Nat /\ o + n <= CqEntries
  BY <1>1, <1>8, CqSize
<1>12. z \in Cursors /\ Sub(z, q.khead) = t + n
  BY <1>1, <1>6, <1>8, <1>11, SubAdd DEF z
<1>13. Sub(z, q.head) = o + n
  BY <1>1, <1>6, <1>8, <1>11, SubAdd DEF z
<1>14. new \in Ring(CqEntries, E)
  BY <1>1, <1>8, <1>9, <1>10, CqSize, CopiedType
<1>15. p \in CqRings(E)
  BY <1>1, <1>3, <1>9, <1>12, <1>14 DEF CqRings
<1>16. Sub(p.ktail, p.khead) = t + n /\ Observed(p) = o + n /\ p.available = q.available
  BY <1>2, <1>12, <1>13 DEF Observed
<1>17. CqOrder(p)
  BY <1>1, <1>8, <1>16, CqSize DEF CqOrder
<1>18. Window(new, CqEntries, h, o + n) = w \o es
  <2> DEFINE k == o + n
  <2>1. k \in Nat /\ Sums(o, Len(es), k) /\ k <= CqEntries BY <1>8, <1>9, <1>11 DEF Sums
  <2> HIDE DEF k
  <2>2. o \in Nat /\ es \in Seq(E) BY <1>9, <1>11
  <2>3. Window(new, CqEntries, h, k) = Window(c, CqEntries, h, o) \o es
    <3>1. c \in Ring(CqEntries, E) /\ h \in Nat /\ at \in Nat BY <1>1
    <3>2. CqEntries \in Nat /\ CqEntries > 0 BY CqSize
    <3>3. Window(Copied(c, CqEntries, at, es), CqEntries, h, k) = Window(c, CqEntries, h, o) \o es
      BY <1>5, <2>1, <2>2, <3>1, <3>2, WindowCopied
    <3> QED BY <1>10, <3>3
  <2> QED BY <2>3 DEF k, w
<1>19. Unread(p) = (w \o es) \o ds
  BY <1>2, <1>16, <1>18 DEF Unread, h
<1>20. (w \o es) \o ds = w \o (es \o ds)
  <2>1. w \in Seq(E) /\ es \in Seq(E) /\ ds \in Seq(E) BY <1>1, <1>9
  <2> QED BY <2>1, ConcatAssociative
<1>21. Unread(p) = Unread(q)
  BY <1>1, <1>9, <1>19, <1>20
<1> QED BY <1>15, <1>17, <1>21 DEF p

(* The driver pops the oldest completion, when it has acquired one.        *)
LEMMA CqPop ==
  ASSUME NEW E, NEW q \in CqRings(E), CqOrder(q), NoEntry \in E, q.available > 0
  PROVE  /\ PopCq(q) \in CqRings(E) /\ CqOrder(PopCq(q))
         /\ Unread(q) = <<FrontCq(q)>> \o Unread(PopCq(q))
<1> DEFINE p == PopCq(q)
           t == Sub(q.ktail, q.khead)
           o == Observed(q)
           c == q.cells
           h == q.head
           v == q.over
           new == Placed(c, CqEntries, h, NoEntry)
           z == Add(q.head, 1)
           w == Window(c, CqEntries, h, o)
           f == FrontCq(q)
<1>1. /\ q.khead \in Cursors /\ q.ktail \in Cursors /\ q.head \in Cursors /\ q.available \in Nat
      /\ c \in Ring(CqEntries, E) /\ v \in Seq(E) /\ h \in Nat
      /\ t \in 0 .. CqEntries /\ o \in 0 .. CqEntries /\ o <= t /\ q.available <= o
      /\ Unread(q) = w \o v /\ w \in Seq(E)
  BY CqFields
<1>2. /\ p.khead = q.khead /\ p.ktail = q.ktail /\ p.head = z /\ p.available = q.available - 1
      /\ p.cells = new /\ p.over = v
  BY DEF PopCq, CqRings, Placed
<1>3. p \in [khead : {q.khead}, ktail : {q.ktail}, head : {z}, available : {q.available - 1},
             cells : {new}, over : {v}]
  BY DEF PopCq, CqRings, Placed
<1>4. o = Sub(q.ktail, q.head) BY DEF Observed
<1>5. f = c[h % CqEntries] BY DEF FrontCq
<1>6. new = Placed(c, CqEntries, h, NoEntry) OBVIOUS
<1>7. Meets(CqEntries, h, 1, z)
  BY <1>1, CqSize, MeetsNext
<1> HIDE DEF p, t, o, c, v, new, z, w, f
<1>8. o > 0 /\ o - 1 \in Nat /\ o \in Nat /\ o <= CqEntries
  BY <1>1, CqSize
<1>9. z \in Cursors /\ Sub(q.ktail, z) = o - 1
  BY <1>1, <1>4, <1>8, SubNext DEF z
<1> HIDE DEF h
<1>10. new \in Ring(CqEntries, E)
  BY <1>1, <1>6, CqSize, PlacedType
<1>11. q.available - 1 \in Nat BY <1>1
<1>12. p \in CqRings(E)
  BY <1>1, <1>3, <1>9, <1>10, <1>11 DEF CqRings
<1>13. Sub(p.ktail, p.khead) = t /\ Observed(p) = o - 1 /\ p.available = q.available - 1
  BY <1>2, <1>9 DEF Observed, t
<1>14. CqOrder(p)
  BY <1>1, <1>8, <1>13, CqSize DEF CqOrder
<1> DEFINE n == o - 1
           x == Window(new, CqEntries, z, n)
<1>15. n \in Nat /\ Sums(n, 1, o) /\ z \in Nat
  BY <1>8, <1>9 DEF Sums, Cursors
<1> HIDE DEF n
<1>16. w = <<f>> \o x
  <2>1. Window(c, CqEntries, h, o)
          = <<c[h % CqEntries]>> \o Window(Placed(c, CqEntries, h, NoEntry), CqEntries, z, n)
    <3>1. c \in Ring(CqEntries, E) /\ h \in Nat /\ o \in Nat /\ o <= CqEntries BY <1>1, <1>8
    <3> QED BY <1>7, <1>15, <3>1, CqSize, WindowTaken
  <2> QED BY <1>5, <1>6, <2>1 DEF w
<1>17. x \in Seq(E)
  BY <1>10, <1>15, CqSize, WindowType
<1>18. Unread(p) = x \o v
  BY <1>2, <1>13 DEF Unread, n
<1> HIDE DEF x
<1>19. f \in E
  <2>1. h % CqEntries \in 0 .. CqEntries - 1 BY <1>1, CqSize, DivMod
  <2> QED BY <1>1, <1>5, <2>1 DEF Ring
<1>20. <<f>> \in Seq(E) BY <1>19
<1>21. (<<f>> \o x) \o v = <<f>> \o (x \o v)
  BY <1>1, <1>17, <1>20, ConcatAssociative
<1>22. Unread(q) = <<f>> \o Unread(p)
  BY <1>1, <1>16, <1>18, <1>21
<1> QED BY <1>12, <1>14, <1>22 DEF p, f

LEMMA CqPublish ==
  ASSUME NEW E, NEW q \in CqRings(E), CqOrder(q)
  PROVE  /\ PublishCq(q) \in CqRings(E) /\ CqOrder(PublishCq(q))
         /\ Unread(PublishCq(q)) = Unread(q)
<1> DEFINE p == PublishCq(q)
<1>1. /\ q.khead \in Cursors /\ q.ktail \in Cursors /\ q.head \in Cursors /\ q.available \in Nat
      /\ q.cells \in Ring(CqEntries, E) /\ q.over \in Seq(E)
      /\ Observed(q) \in 0 .. CqEntries /\ q.available <= Observed(q)
  BY CqFields
<1>2. /\ p.khead = q.head /\ p.ktail = q.ktail /\ p.head = q.head /\ p.available = q.available
      /\ p.cells = q.cells /\ p.over = q.over
  BY DEF PublishCq, CqRings
<1>3. p \in [khead : {q.head}, ktail : {q.ktail}, head : {q.head}, available : {q.available},
             cells : {q.cells}, over : {q.over}]
  BY DEF PublishCq, CqRings
<1> HIDE DEF p
<1>4. p \in CqRings(E) BY <1>1, <1>3 DEF CqRings
<1>5. Observed(p) = Observed(q) /\ Sub(p.ktail, p.khead) = Observed(q)
  BY <1>2 DEF Observed
<1>6. CqOrder(p) BY <1>1, <1>2, <1>5, CqSize DEF CqOrder
<1>7. Unread(p) = Unread(q) BY <1>2, <1>5 DEF Unread
<1> QED BY <1>4, <1>6, <1>7 DEF p

LEMMA CqAcquire ==
  ASSUME NEW E, NEW q \in CqRings(E), CqOrder(q)
  PROVE  /\ AcquireCq(q) \in CqRings(E) /\ CqOrder(AcquireCq(q))
         /\ Unread(AcquireCq(q)) = Unread(q)
<1> DEFINE p == AcquireCq(q)
           o == Observed(q)
<1>1. /\ q.khead \in Cursors /\ q.ktail \in Cursors /\ q.head \in Cursors
      /\ q.cells \in Ring(CqEntries, E) /\ q.over \in Seq(E)
      /\ o \in 0 .. CqEntries /\ o \in Nat /\ o <= Sub(q.ktail, q.khead)
      /\ Sub(q.ktail, q.khead) <= CqEntries
  <2>1. /\ q.khead \in Cursors /\ q.ktail \in Cursors /\ q.head \in Cursors
        /\ q.cells \in Ring(CqEntries, E) /\ q.over \in Seq(E)
        /\ o \in 0 .. CqEntries /\ o <= Sub(q.ktail, q.khead)
    BY CqFields
  <2>2. Sub(q.ktail, q.khead) <= CqEntries BY DEF CqOrder
  <2> HIDE DEF o
  <2>3. o \in Nat BY <2>1, CqSize
  <2> QED BY <2>1, <2>2, <2>3
<1>2. /\ p.khead = q.khead /\ p.ktail = q.ktail /\ p.head = q.head /\ p.available = o
      /\ p.cells = q.cells /\ p.over = q.over
  BY DEF AcquireCq, CqRings
<1>3. p \in [khead : {q.khead}, ktail : {q.ktail}, head : {q.head}, available : {o},
             cells : {q.cells}, over : {q.over}]
  BY DEF AcquireCq, CqRings
<1>5. Observed(p) = o /\ Sub(p.ktail, p.khead) = Sub(q.ktail, q.khead)
  BY <1>2 DEF Observed
<1>7. Unread(p) = Unread(q) BY <1>2, <1>5 DEF Unread
<1> HIDE DEF p, o
<1>4. p \in CqRings(E) BY <1>1, <1>3 DEF CqRings
<1>6. CqOrder(p) BY <1>1, <1>2, <1>5, CqSize DEF CqOrder
<1> QED BY <1>4, <1>6, <1>7 DEF p
-----------------------------------------------------------------------------
(* Counting the entries of a slot in a sequence.                           *)

Places(u, s, k) == {i \in DOMAIN u : u[i].k = k /\ u[i].s = s}
Count(u, s, k) == Cardinality(Places(u, s, k))

LEMMA PlacesFinite ==
  ASSUME NEW R, NEW u \in Seq(R), NEW s, NEW k
  PROVE  /\ Places(u, s, k) \subseteq 1 .. Len(u) /\ IsFiniteSet(Places(u, s, k))
         /\ Count(u, s, k) \in Nat
<1>1. DOMAIN u = 1 .. Len(u) /\ Len(u) \in Nat
  BY LenProperties
<1>2. Places(u, s, k) \subseteq 1 .. Len(u)
  BY <1>1 DEF Places
<1>3. IsFiniteSet(1 .. Len(u))
  <2>1. 1 \in Int /\ Len(u) \in Int BY <1>1
  <2> QED BY <2>1, FS_Interval
<1>4. IsFiniteSet(Places(u, s, k))
  BY <1>2, <1>3, FS_Subset
<1> QED BY <1>2, <1>4, FS_CardinalityType DEF Count

(* The places of the second part are shifted.                              *)
LEMMA CountConcat ==
  ASSUME NEW R, NEW u \in Seq(R), NEW v \in Seq(R), NEW s, NEW k
  PROVE  Count(u \o v, s, k) = Count(u, s, k) + Count(v, s, k)
<1> DEFINE n == Len(u)
           m == Len(v)
           w == u \o v
           A == Places(u, s, k)
           B == Places(v, s, k)
           C == {n + i : i \in B}
<1>1. n \in Nat /\ m \in Nat /\ DOMAIN u = 1 .. n /\ DOMAIN v = 1 .. m
  BY LenProperties
<1>2. w \in Seq(R) /\ Len(w) = n + m
  BY ConcatProperties
<1>3. \A i \in 1 .. n + m : w[i] = IF i <= n THEN u[i] ELSE v[i - n]
  BY ConcatProperties
<1>4. DOMAIN w = 1 .. n + m
  BY <1>2, LenProperties
<1>5. A \subseteq 1 .. n /\ B \subseteq 1 .. m /\ IsFiniteSet(A) /\ IsFiniteSet(B)
  BY PlacesFinite
<1>6. Cardinality(A) = Count(u, s, k) /\ Cardinality(B) = Count(v, s, k)
  BY DEF Count
<1>6a. \A i \in 1 .. n : i \in A <=> u[i].k = k /\ u[i].s = s
  BY <1>1 DEF Places
<1>6b. \A i \in 1 .. m : i \in B <=> v[i].k = k /\ v[i].s = s
  BY <1>1 DEF Places
<1>6c. \A i : i \in Places(w, s, k) <=> i \in DOMAIN w /\ w[i].k = k /\ w[i].s = s
  BY DEF Places
<1> HIDE DEF n, m, w, A, B
<1>7. Places(w, s, k) = A \cup C
  <2>1. \A i \in 1 .. n : i \in Places(w, s, k) <=> i \in A
    <3> SUFFICES ASSUME NEW i \in 1 .. n
                 PROVE  i \in Places(w, s, k) <=> i \in A
      OBVIOUS
    <3>1. i \in 1 .. n + m /\ i <= n BY <1>1
    <3>2. w[i] = u[i] BY <1>3, <3>1
    <3> QED BY <1>4, <1>6a, <1>6c, <3>1, <3>2
  <2>2. \A i \in n + 1 .. n + m : i \in Places(w, s, k) <=> i - n \in B
    <3> SUFFICES ASSUME NEW i \in n + 1 .. n + m
                 PROVE  i \in Places(w, s, k) <=> i - n \in B
      OBVIOUS
    <3>1. i \in 1 .. n + m /\ ~(i <= n) /\ i - n \in 1 .. m BY <1>1
    <3>2. w[i] = v[i - n] BY <1>3, <3>1
    <3> QED BY <1>4, <1>6b, <1>6c, <3>1, <3>2
  <2>3. \A i \in n + 1 .. n + m : i - n \in B <=> i \in C
    <3> SUFFICES ASSUME NEW i \in n + 1 .. n + m
                 PROVE  i - n \in B <=> i \in C
      OBVIOUS
    <3>1. i = n + (i - n) BY <1>1
    <3>2. i - n \in B => i \in C BY <3>1
    <3>3. ASSUME NEW j \in B, i = n + j PROVE i - n \in B
      <4>1. j \in 1 .. m BY <1>5
      <4>2. i - n = j BY <3>3, <4>1, <1>1
      <4> QED BY <4>2
    <3> QED BY <3>2, <3>3
  <2>4. C \subseteq n + 1 .. n + m
    BY <1>1, <1>5
  <2>5. Places(w, s, k) \subseteq 1 .. n + m
    BY <1>4, <1>6c
  <2>6. \A i : i \in 1 .. n + m <=> i \in 1 .. n \/ i \in n + 1 .. n + m
    BY <1>1
  <2>7. \A i \in 1 .. n : i \notin n + 1 .. n + m
    BY <1>1
  <2> HIDE DEF C
  <2> QED BY <1>5, <2>1, <2>2, <2>3, <2>4, <2>5, <2>6, <2>7
<1>8. A \cap C = {}
  <2>1. \A i \in C : i > n BY <1>1, <1>5
  <2>2. \A i \in A : i <= n BY <1>1, <1>5
  <2>3. \A i \in A : ~(i > n) BY <1>1, <1>5, <2>2
  <2> HIDE DEF C
  <2> QED BY <2>1, <2>3
<1>9. IsFiniteSet(C) /\ Cardinality(C) = Cardinality(B)
  <2> DEFINE f == [i \in B |-> n + i]
  <2>1. f \in Bijection(B, C)
    <3>1. f \in [B -> C] OBVIOUS
    <3>2. ASSUME NEW i \in B, NEW j \in B, f[i] = f[j] PROVE i = j
      <4>1. i \in 1 .. m /\ j \in 1 .. m BY <1>5
      <4>2. n + i = n + j BY <3>2
      <4> QED BY <4>1, <4>2, <1>1
    <3>3. ASSUME NEW y \in C PROVE \E i \in B : f[i] = y
      OBVIOUS
    <3> QED BY <3>1, <3>2, <3>3 DEF Bijection, Injection, Surjection, IsInjective
  <2>2. ExistsBijection(B, C) BY <2>1 DEF ExistsBijection
  <2> HIDE DEF C
  <2> QED BY <1>5, <2>2, FS_Bijection
<1> HIDE DEF C
<1>10. Cardinality(A \cup C) = Cardinality(A) + Cardinality(C) - Cardinality(A \cap C)
  BY <1>5, <1>9, FS_Union
<1>11. Cardinality(A \cap C) = 0
  BY <1>8, FS_EmptySet
<1>12. Cardinality(A) \in Nat /\ Cardinality(B) \in Nat
  BY <1>5, FS_CardinalityType
<1>13. Count(w, s, k) = Cardinality(A) + Cardinality(B)
  BY <1>7, <1>9, <1>10, <1>11, <1>12 DEF Count
<1> QED BY <1>6, <1>13 DEF w

LEMMA CountOne ==
  ASSUME NEW e, NEW s, NEW k
  PROVE  Count(<<e>>, s, k) = IF e.k = k /\ e.s = s THEN 1 ELSE 0
<1> DEFINE u == <<e>>
<1>1. DOMAIN u = {1} /\ u[1] = e
  OBVIOUS
<1> HIDE DEF u
<1>2. CASE e.k = k /\ e.s = s
  <2>1. Places(u, s, k) = {1} BY <1>1, <1>2 DEF Places
  <2> QED BY <1>2, <2>1, FS_Singleton DEF Count, u
<1>3. CASE ~(e.k = k /\ e.s = s)
  <2>1. Places(u, s, k) = {} BY <1>1, <1>3 DEF Places
  <2> QED BY <1>3, <2>1, FS_EmptySet DEF Count, u
<1> QED BY <1>2, <1>3

LEMMA CountEmpty == \A s, k : Count(<<>>, s, k) = 0
<1> TAKE s, k
<1>1. Places(<<>>, s, k) = {} BY DEF Places
<1> QED BY <1>1, FS_EmptySet DEF Count

LEMMA CountConst ==
  ASSUME NEW n \in Nat, NEW e, NEW s, NEW k, NEW u, DOMAIN u = 1 .. n, \A i \in 1 .. n : u[i] = e
  PROVE  Count(u, s, k) = IF e.k = k /\ e.s = s THEN n ELSE 0
<1>2. CASE e.k = k /\ e.s = s
  <2>1. Places(u, s, k) = 1 .. n BY <1>2 DEF Places
  <2>2. Cardinality(1 .. n) = IF 1 > n THEN 0 ELSE n - 1 + 1
    <3>1. 1 \in Int /\ n \in Int OBVIOUS
    <3> QED BY <3>1, FS_Interval
  <2>3. Cardinality(1 .. n) = n BY <2>2
  <2> QED BY <1>2, <2>1, <2>3 DEF Count
<1>3. CASE ~(e.k = k /\ e.s = s)
  <2>1. Places(u, s, k) = {} BY <1>3 DEF Places
  <2> QED BY <1>3, <2>1, FS_EmptySet DEF Count
<1> QED BY <1>2, <1>3

LEMMA CountPositive ==
  ASSUME NEW R, NEW u \in Seq(R), NEW s, NEW k, NEW i \in DOMAIN u, u[i].k = k, u[i].s = s
  PROVE  Count(u, s, k) > 0
<1>1. IsFiniteSet(Places(u, s, k)) /\ Count(u, s, k) \in Nat
  BY PlacesFinite
<1>2. i \in Places(u, s, k) BY DEF Places
<1>3. Cardinality(Places(u, s, k)) # 0
  BY <1>1, <1>2, FS_EmptySet
<1> QED BY <1>1, <1>3 DEF Count
-----------------------------------------------------------------------------
(* What a slot's entries say.                                              *)

(* A failed completion of the slot is on its way back.                     *)
Fails(r, s) == \E i \in DOMAIN r : r[i].k = "tuning" /\ r[i].s = s /\ r[i].out = "fail"

LEMMA FailsConcat ==
  ASSUME NEW R, NEW u \in Seq(R), NEW v \in Seq(R), NEW s
  PROVE  Fails(u \o v, s) <=> Fails(u, s) \/ Fails(v, s)
<1> DEFINE n == Len(u)
           m == Len(v)
           w == u \o v
<1>1. n \in Nat /\ m \in Nat /\ DOMAIN u = 1 .. n /\ DOMAIN v = 1 .. m
  BY LenProperties
<1>2. w \in Seq(R) /\ Len(w) = n + m
  BY ConcatProperties
<1>3. \A i \in 1 .. n + m : w[i] = IF i <= n THEN u[i] ELSE v[i - n]
  BY ConcatProperties
<1>4. DOMAIN w = 1 .. n + m
  BY <1>2, LenProperties
<1> HIDE DEF n, m, w
<1>5. ASSUME Fails(w, s) PROVE Fails(u, s) \/ Fails(v, s)
  <2>1. PICK i \in 1 .. n + m : w[i].k = "tuning" /\ w[i].s = s /\ w[i].out = "fail"
    BY <1>4, <1>5 DEF Fails
  <2>2. CASE i <= n
    <3>1. i \in 1 .. n /\ w[i] = u[i] BY <1>1, <1>3, <2>2
    <3> QED BY <1>1, <2>1, <3>1 DEF Fails
  <2>3. CASE ~(i <= n)
    <3>1. i - n \in 1 .. m /\ w[i] = v[i - n] BY <1>1, <1>3, <2>3
    <3> QED BY <1>1, <2>1, <3>1 DEF Fails
  <2> QED BY <2>2, <2>3
<1>6. ASSUME Fails(u, s) PROVE Fails(w, s)
  <2>1. PICK i \in 1 .. n : u[i].k = "tuning" /\ u[i].s = s /\ u[i].out = "fail"
    BY <1>1, <1>6 DEF Fails
  <2>2. i \in 1 .. n + m /\ w[i] = u[i] BY <1>1, <1>3
  <2> QED BY <1>4, <2>1, <2>2 DEF Fails
<1>7. ASSUME Fails(v, s) PROVE Fails(w, s)
  <2>1. PICK i \in 1 .. m : v[i].k = "tuning" /\ v[i].s = s /\ v[i].out = "fail"
    BY <1>1, <1>7 DEF Fails
  <2>2. n + i \in 1 .. n + m /\ ~(n + i <= n) /\ (n + i) - n = i BY <1>1
  <2>3. w[n + i] = v[i] BY <1>3, <2>2
  <2> QED BY <1>4, <2>1, <2>2, <2>3 DEF Fails
<1> QED BY <1>5, <1>6, <1>7 DEF w

LEMMA FailsOne ==
  ASSUME NEW e, NEW s
  PROVE  Fails(<<e>>, s) <=> e.k = "tuning" /\ e.s = s /\ e.out = "fail"
<1> DEFINE u == <<e>>
<1>1. DOMAIN u = {1} /\ u[1] = e
  OBVIOUS
<1> HIDE DEF u
<1>2. Fails(u, s) <=> e.k = "tuning" /\ e.s = s /\ e.out = "fail"
  BY <1>1 DEF Fails
<1> QED BY <1>2 DEF u

LEMMA FailsNone ==
  ASSUME NEW R, NEW u \in Seq(R), NEW s, Count(u, s, "tuning") = 0
  PROVE  ~Fails(u, s)
<1>1. IsFiniteSet(Places(u, s, "tuning")) BY PlacesFinite
<1>2. Places(u, s, "tuning") = {} BY <1>1, FS_EmptySet DEF Count
<1> QED BY <1>2 DEF Fails, Places

(* The chained requests of a slot belong to its chain, and a cancellation  *)
(* stands behind requests of its own chain only.                           *)
EntriesOK(u, s, c, held) ==
    /\ \A i \in DOMAIN u : u[i].k \in {"opt", "con"} /\ u[i].s = s => u[i].c = c
    /\ \A i \in DOMAIN u : u[i].k = "cancel" /\ u[i].s = s =>
         /\ \A j \in 1 .. i - 1 : u[j].k \in {"opt", "con"} /\ u[j].s = s => u[j].c = u[i].c
         /\ held => u[i].c = c

LEMMA EntriesPush ==
  ASSUME NEW R, NEW u \in Seq(R), NEW v \in Seq(R), NEW s, NEW c, NEW held,
         EntriesOK(u, s, c, held),
         \A i \in DOMAIN v : v[i].s = s /\ v[i].k \in {"opt", "con", "cancel"} => v[i].c = c
  PROVE  EntriesOK(u \o v, s, c, held)
<1> DEFINE n == Len(u)
           m == Len(v)
           w == u \o v
<1>1. n \in Nat /\ m \in Nat /\ DOMAIN u = 1 .. n /\ DOMAIN v = 1 .. m
  BY LenProperties
<1>2. w \in Seq(R) /\ Len(w) = n + m
  BY ConcatProperties
<1>3. \A i \in 1 .. n + m : w[i] = IF i <= n THEN u[i] ELSE v[i - n]
  BY ConcatProperties
<1>4. DOMAIN w = 1 .. n + m
  BY <1>2, LenProperties
<1> HIDE DEF n, m, w
<1>5. \A i \in 1 .. n : i \in 1 .. n + m /\ w[i] = u[i]
  BY <1>1, <1>3
<1>6. \A i \in 1 .. n + m : i \in 1 .. n \/ (i - n \in 1 .. m /\ w[i] = v[i - n])
  BY <1>1, <1>3
<1>7. \A i \in 1 .. n + m : w[i].k \in {"opt", "con"} /\ w[i].s = s => w[i].c = c
  <2> SUFFICES ASSUME NEW i \in 1 .. n + m, w[i].k \in {"opt", "con"}, w[i].s = s
               PROVE  w[i].c = c
    OBVIOUS
  <2>1. CASE i \in 1 .. n
    <3>1. w[i] = u[i] BY <1>5, <2>1
    <3> QED BY <1>1, <2>1, <3>1 DEF EntriesOK
  <2>2. CASE i \notin 1 .. n
    <3>1. i - n \in DOMAIN v /\ w[i] = v[i - n] BY <1>1, <1>6, <2>2
    <3> QED BY <3>1
  <2> QED BY <2>1, <2>2
<1>8. ASSUME NEW i \in 1 .. n + m, w[i].k = "cancel", w[i].s = s
      PROVE  /\ \A j \in 1 .. i - 1 : w[j].k \in {"opt", "con"} /\ w[j].s = s => w[j].c = w[i].c
             /\ held => w[i].c = c
  <2>1. CASE i \in 1 .. n
    <3>1. \A j \in 1 .. i - 1 : j \in 1 .. n /\ w[j] = u[j] BY <1>1, <1>5, <2>1
    <3>2. w[i] = u[i] BY <1>5, <2>1
    <3> QED BY <1>1, <1>8, <2>1, <3>1, <3>2 DEF EntriesOK
  <2>2. CASE i \notin 1 .. n
    <3>1. w[i].c = c BY <1>1, <1>6, <1>8, <2>2
    <3>2. \A j \in 1 .. i - 1 : j \in 1 .. n + m BY <1>1
    <3> QED BY <1>7, <3>1, <3>2
  <2> QED BY <2>1, <2>2
<1> QED BY <1>4, <1>7, <1>8 DEF EntriesOK, w

LEMMA Prefixed ==
  ASSUME NEW R, NEW f \in R, NEW v \in Seq(R), NEW w, w = <<f>> \o v
  PROVE  /\ w \in Seq(R) /\ DOMAIN w = 1 .. 1 + Len(v) /\ DOMAIN v = 1 .. Len(v) /\ Len(v) \in Nat
         /\ 1 \in DOMAIN w /\ w[1] = f
         /\ \A i \in 1 .. Len(v) : i + 1 \in DOMAIN w /\ w[i + 1] = v[i]
<1> DEFINE fs == <<f>>
           m == Len(v)
<1>1. m \in Nat /\ DOMAIN v = 1 .. m
  BY LenProperties
<1>2. fs \in Seq(R) /\ Len(fs) = 1 /\ fs[1] = f
  OBVIOUS
<1> HIDE DEF fs
<1>3. w = fs \o v BY DEF fs
<1>4. w \in Seq(R) /\ Len(w) = Len(fs) + Len(v)
  <2>1. fs \in Seq(R) BY <1>2
  <2>2. fs \o v \in Seq(R) /\ Len(fs \o v) = Len(fs) + Len(v) BY <2>1, ConcatProperties
  <2> QED BY <1>3, <2>2
<1>5. \A i \in 1 .. Len(fs) + Len(v) : w[i] = IF i <= Len(fs) THEN fs[i] ELSE v[i - Len(fs)]
  <2>1. fs \in Seq(R) BY <1>2
  <2>2. \A i \in 1 .. Len(fs) + Len(v) : (fs \o v)[i] = IF i <= Len(fs) THEN fs[i] ELSE v[i - Len(fs)]
    BY <2>1, ConcatProperties
  <2> QED BY <1>3, <2>2
<1>6. DOMAIN w = 1 .. Len(w) BY <1>4, LenProperties
<1> HIDE DEF m
<1>7. Len(fs) + Len(v) = 1 + m BY <1>2 DEF m
<1>8. DOMAIN w = 1 .. 1 + m BY <1>4, <1>6, <1>7
<1>9. \A i \in 1 .. 1 + m : w[i] = IF i <= 1 THEN fs[i] ELSE v[i - 1]
  BY <1>2, <1>5, <1>7
<1>10. 1 \in DOMAIN w /\ w[1] = f
  <2>1. 1 \in 1 .. 1 + m /\ 1 <= 1 BY <1>1
  <2> QED BY <1>2, <1>8, <1>9, <2>1
<1>11. \A i \in 1 .. m : i + 1 \in DOMAIN w /\ w[i + 1] = v[i]
  <2> SUFFICES ASSUME NEW i \in 1 .. m
               PROVE  i + 1 \in DOMAIN w /\ w[i + 1] = v[i]
    OBVIOUS
  <2>1. i + 1 \in 1 .. 1 + m /\ ~(i + 1 <= 1) /\ (i + 1) - 1 = i BY <1>1
  <2> QED BY <1>8, <1>9, <2>1
<1> QED BY <1>1, <1>4, <1>8, <1>10, <1>11 DEF m

LEMMA EntriesTake ==
  ASSUME NEW R, NEW f \in R, NEW v \in Seq(R), NEW s, NEW c, NEW held, NEW then,
         EntriesOK(<<f>> \o v, s, c, held),
         then => held \/ (f.k \in {"opt", "con"} /\ f.s = s)
  PROVE  EntriesOK(v, s, c, then)
<1> DEFINE m == Len(v)
           w == <<f>> \o v
<1>1. m \in Nat /\ DOMAIN v = 1 .. m BY LenProperties
<1>5. EntriesOK(w, s, c, held) OBVIOUS
<1>6. \A i \in 1 .. m : i + 1 \in DOMAIN w /\ w[i + 1] = v[i] BY Prefixed
<1>7. 1 \in DOMAIN w /\ w[1] = f BY Prefixed
<1> HIDE DEF m, w
<1>8. \A i \in 1 .. m : v[i].k \in {"opt", "con"} /\ v[i].s = s => v[i].c = c
  BY <1>5, <1>6 DEF EntriesOK
<1>9. ASSUME NEW i \in 1 .. m, v[i].k = "cancel", v[i].s = s
      PROVE  /\ \A j \in 1 .. i - 1 : v[j].k \in {"opt", "con"} /\ v[j].s = s => v[j].c = v[i].c
             /\ then => v[i].c = c
  <2> DEFINE x == i + 1
  <2>1. x \in DOMAIN w /\ w[x] = v[i] BY <1>6
  <2>2. /\ \A j \in 1 .. x - 1 : w[j].k \in {"opt", "con"} /\ w[j].s = s => w[j].c = w[x].c
        /\ held => w[x].c = c
    BY <1>5, <1>9, <2>1 DEF EntriesOK
  <2>3. \A j \in 1 .. i - 1 : j \in 1 .. m /\ j + 1 \in 1 .. x - 1 BY <1>1
  <2>4. \A j \in 1 .. i - 1 : w[j + 1] = v[j] BY <1>6, <2>3
  <2>5. 1 \in 1 .. x - 1 BY <1>1
  <2>6. f.k \in {"opt", "con"} /\ f.s = s => f.c = c /\ f.c = v[i].c
    BY <1>5, <1>7, <2>1, <2>2, <2>5 DEF EntriesOK
  <2> HIDE DEF x
  <2> QED BY <2>1, <2>2, <2>3, <2>4, <2>6
<1> QED BY <1>1, <1>8, <1>9 DEF EntriesOK

LEMMA SplitFirst ==
  ASSUME NEW E, NEW R, NEW u \in Seq(R), NEW f, NEW v \in Seq(E), u = <<f>> \o v, f \in E
  PROVE  f \in R /\ v \in Seq(R)
<1> DEFINE m == Len(v)
<1>1. m \in Nat BY LenProperties
<1>2. 1 \in DOMAIN u /\ u[1] = f BY Prefixed
<1>3. \A i \in 1 .. m : i + 1 \in DOMAIN u /\ u[i + 1] = v[i] BY Prefixed
<1>4. DOMAIN u = 1 .. Len(u) BY LenProperties
<1> HIDE DEF m
<1>5. \A i \in DOMAIN u : u[i] \in R
  BY <1>4, ElementOfSeq
<1>6. f \in R BY <1>2, <1>5
<1>7. \A i \in 1 .. m : v[i] \in R BY <1>3, <1>5
<1>8. v \in [1 .. m -> R]
  <2>1. v \in [1 .. m -> E] BY LenProperties DEF m
  <2> QED BY <1>7, <2>1
<1>9. v \in Seq(R) BY <1>1, <1>8, FunctionIsSeq
<1> QED BY <1>6, <1>9
-----------------------------------------------------------------------------
(* The inductive invariant.                                                *)

Requests == [k : {"opt", "con", "cancel"}, s : Slots, c : Nat] \cup [k : {"shutdown", "close"}, s : Slots]
Replies == [k : {"tuning"}, s : Slots, out : {"ok", "fail", "cancel"}]
             \cup [k : {"reply", "closed"}, s : Slots]

Tunings == [live : BOOLEAN, retiring : BOOLEAN, stopped : BOOLEAN,
            phase : {"Idle", "Options", "OptionsConnect"}, count : 1 .. SqEntries,
            error : {"ok", "fail", "cancel"}, next : Slots \cup {None}]
Kerns == [opt : Nat, con : {"none", "wait", "doomed"}, bad : BOOLEAN, c : Nat]
Owners == {"free", "idle", "flying", "cancelled", "retired", "closing"}

TypeInv ==
    /\ tune \in [Slots -> Tunings]
    /\ ready \in [head : Slots \cup {None}, tail : Slots \cup {None}]
    /\ fd \in [Slots -> Owners]
    /\ front \in Slots \cup {None} /\ lied = FALSE
    /\ turn \in {"run", "in", "commit", "wait"} /\ grant \in 0 .. SqEntries
    /\ kern \in [Slots -> Kerns]

SqInv == sq \in SqRings(Requests \cup {NoEntry}) /\ SqOrder(sq) /\ Unsent(sq) \in Seq(Requests)
CqInv == cq \in CqRings(Replies \cup {NoEntry}) /\ CqOrder(cq) /\ Unread(cq) \in Seq(Replies)

(* An enter takes published submissions only.                              *)
GrantInv == turn \in {"commit", "wait"} => grant <= Sub(sq.ktail, sq.khead)

(* A chain: n requests of the slot are outstanding, opts options that have *)
(* not completed, a CONNECT on its way if con > 0, kcon the one in the     *)
(* kernel.                                                                 *)
ChainOK(x, n, opts, con, kcon, bad, failing, due) ==
    /\ ~due => x.next = None
    /\ ~x.live => n = 0 /\ ~due
    /\ x.live /\ x.phase # "Idle" =>
         n = x.count /\ con = 0 /\ kcon = "none" /\ ~due /\ (bad <=> (x.error = "fail" \/ failing))
    /\ x.live /\ x.phase = "Idle" =>
         n = (IF due THEN 0 ELSE 1) /\ opts = 0 /\ ~bad /\ x.error # "fail"

ChainAt(s, due) == ChainOK(tune[s], Outstanding(s), Sent(s, "opt") + kern[s].opt, Sent(s, "con"),
                           kern[s].con, kern[s].bad, Fails(Unread(cq), s), due)

OwnerOK(f, live, closes, first) ==
    /\ f \in {"free", "idle", "closing"} => ~live
    /\ f \in {"flying", "cancelled"} => live
    /\ closes = IF f = "closing" THEN 1 ELSE 0
    /\ first => f = "retired"

OwnerAt(s) == OwnerOK(fd[s], tune[s].live, Sent(s, "close") + Back(s, "closed"), front = s)

EntriesAt(s) == EntriesOK(Unsent(sq), s, kern[s].c, Matches(s))

ListInv(d) == d \in Seq(Slots) /\ IsDue(d) /\ \A s \in Slots : ChainAt(s, s \in ToSet(d))

IInv ==
    /\ TypeInv /\ SqInv /\ CqInv /\ GrantInv
    /\ \A s \in Slots : OwnerAt(s)
    /\ \A s \in Slots : EntriesAt(s)
    /\ \E d \in Seq(Slots) : ListInv(d)
-----------------------------------------------------------------------------
(* What a step does to the counts.                                         *)

LEMMA SentNat ==
  ASSUME SqInv, NEW s, NEW k
  PROVE  Sent(s, k) \in Nat /\ Sent(s, k) = Count(Unsent(sq), s, k)
<1>1. Sent(s, k) = Count(Unsent(sq), s, k) BY DEF Sent, Count, Places
<1>2. Unsent(sq) \in Seq(Requests) BY DEF SqInv
<1>3. Count(Unsent(sq), s, k) \in Nat BY <1>2, PlacesFinite
<1> QED BY <1>1, <1>3

LEMMA BackNat ==
  ASSUME CqInv, NEW s, NEW k
  PROVE  Back(s, k) \in Nat /\ Back(s, k) = Count(Unread(cq), s, k)
<1>1. Back(s, k) = Count(Unread(cq), s, k) BY DEF Back, Count, Places
<1>2. Unread(cq) \in Seq(Replies) BY DEF CqInv
<1>3. Count(Unread(cq), s, k) \in Nat BY <1>2, PlacesFinite
<1> QED BY <1>1, <1>3

(* Entries are appended to the submission ring.                            *)
Pushed(es) ==
    /\ sq' \in SqRings(Requests \cup {NoEntry}) /\ SqOrder(sq')
    /\ Unsent(sq') = Unsent(sq) \o es
    /\ Sub(sq'.ktail, sq'.khead) = Sub(sq.ktail, sq.khead)

LEMMA PushedSq ==
  ASSUME SqInv, NEW es \in Seq(Requests), Pushed(es)
  PROVE  /\ SqInv'
         /\ \A s, k : Sent(s, k)' = Sent(s, k) + Count(es, s, k)
<1>1. Unsent(sq) \in Seq(Requests) BY DEF SqInv
<1>2. Unsent(sq) \o es \in Seq(Requests) BY <1>1, ConcatProperties
<1>3. SqInv' BY <1>2 DEF SqInv, Pushed
<1>4. ASSUME NEW s, NEW k PROVE Sent(s, k)' = Sent(s, k) + Count(es, s, k)
  <2>1. Sent(s, k) = Count(Unsent(sq), s, k) BY SentNat
  <2>2. Sent(s, k)' = Count(Unsent(sq'), s, k) BY DEF Sent, Count, Places
  <2>3. Count(Unsent(sq) \o es, s, k) = Count(Unsent(sq), s, k) + Count(es, s, k)
    BY <1>1, CountConcat
  <2> QED BY <2>1, <2>2, <2>3 DEF Pushed
<1> QED BY <1>3, <1>4

LEMMA RequestsType == \A es \in Seq(Requests) : es \in Seq(Requests \cup {NoEntry})
<1>1. Requests \subseteq Requests \cup {NoEntry} OBVIOUS
<1> QED BY <1>1, SeqMonotonic

LEMMA PushAllSq ==
  ASSUME SqInv, NEW es \in Seq(Requests), HasCapacity(sq, Len(es)), sq' = PushAll(sq, es)
  PROVE  Pushed(es)
<1> DEFINE E == Requests \cup {NoEntry}
           p == PushAll(sq, es)
<1>1. sq \in SqRings(E) /\ SqOrder(sq) /\ es \in Seq(E) BY RequestsType DEF SqInv
<1> HIDE DEF E
<1>2. /\ p \in SqRings(E) /\ SqOrder(p) /\ Unsent(p) = Unsent(sq) \o es
      /\ p.ktail = sq.ktail /\ p.khead = sq.khead
  BY <1>1, SqPushAll
<1> HIDE DEF p
<1>3. sq' = p BY DEF p
<1> QED BY <1>2, <1>3 DEF Pushed, E

LEMMA PushOneSq ==
  ASSUME SqInv, NEW e \in Requests, HasCapacity(sq, 1), sq' = PushOne(sq, e)
  PROVE  Pushed(<<e>>)
<1> DEFINE E == Requests \cup {NoEntry}
           p == PushOne(sq, e)
<1>1. sq \in SqRings(E) /\ SqOrder(sq) /\ e \in E BY DEF SqInv
<1> HIDE DEF E
<1>2. Sub(sq.tail, sq.head) < SqEntries
  <2> DEFINE b == Sub(sq.tail, sq.head)
  <2>1. b \in Cursors BY <1>1, SubCases DEF SqRings
  <2>2. SqEntries - b >= 1 BY DEF HasCapacity, Pending
  <2> HIDE DEF b
  <2>3. b < SqEntries BY <2>1, <2>2, SqSize DEF Cursors
  <2> QED BY <2>3 DEF b
<1>3. /\ p \in SqRings(E) /\ SqOrder(p) /\ Unsent(p) = Unsent(sq) \o <<e>>
      /\ p.ktail = sq.ktail /\ p.khead = sq.khead
  BY <1>1, <1>2, SqPushOne
<1> HIDE DEF p
<1>4. sq' = p BY DEF p
<1> QED BY <1>3, <1>4 DEF Pushed, E

LEMMA PushAcquiredSq ==
  ASSUME SqInv, NEW e \in Requests, CanAcquire(sq), sq' = PushOne(Acquired(sq), e)
  PROVE  Pushed(<<e>>)
<1> DEFINE E == Requests \cup {NoEntry}
           a == Acquired(sq)
           p == PushOne(a, e)
<1>1. sq \in SqRings(E) /\ SqOrder(sq) /\ e \in E BY DEF SqInv
<1> HIDE DEF E
<1>2. /\ a \in SqRings(E) /\ SqOrder(a) /\ Unsent(a) = Unsent(sq)
      /\ Sub(a.tail, a.head) < SqEntries /\ a.ktail = sq.ktail /\ a.khead = sq.khead
  BY <1>1, SqAcquire
<1> HIDE DEF a
<1>3. /\ p \in SqRings(E) /\ SqOrder(p) /\ Unsent(p) = Unsent(a) \o <<e>>
      /\ p.ktail = a.ktail /\ p.khead = a.khead
  BY <1>1, <1>2, SqPushOne
<1> HIDE DEF p
<1>4. sq' = p BY DEF p, a
<1> QED BY <1>2, <1>3, <1>4 DEF Pushed, E

(* The kernel takes the first entry.                                       *)
LEMMA TakenSq ==
  ASSUME SqInv, Sub(sq.ktail, sq.khead) > 0, sq' = TakeSq(sq)
  PROVE  /\ SqInv' /\ FrontSq(sq) \in Requests
         /\ Unsent(sq) = <<FrontSq(sq)>> \o Unsent(sq')
         /\ Sub(sq'.ktail, sq'.khead) = Sub(sq.ktail, sq.khead) - 1
         /\ \A s, k : Sent(s, k) = Count(<<FrontSq(sq)>>, s, k) + Sent(s, k)'
<1> DEFINE E == Requests \cup {NoEntry}
           f == FrontSq(sq)
           v == Unsent(sq')
<1>1. sq \in SqRings(E) /\ SqOrder(sq) /\ NoEntry \in E BY DEF SqInv
<1>2. Unsent(sq) \in Seq(Requests) BY DEF SqInv
<1> HIDE DEF E
<1>3. /\ sq' \in SqRings(E) /\ SqOrder(sq') /\ Unsent(sq) = <<f>> \o v
      /\ Sub(sq'.ktail, sq'.khead) = Sub(sq.ktail, sq.khead) - 1
  BY <1>1, SqTake
<1>4. v \in Seq(E)
  <2> DEFINE c == sq'.cells
             h == sq'.khead
             n == Sub(sq'.tail, sq'.khead)
  <2>1. c \in Ring(SqEntries, E) /\ h \in Cursors /\ n \in Cursors
    BY <1>3, SubCases DEF SqRings
  <2>2. h \in Nat /\ n \in Nat BY <2>1 DEF Cursors
  <2>3. v = Window(c, SqEntries, h, n) BY DEF Unsent
  <2> HIDE DEF c, h, n
  <2> QED BY <2>1, <2>2, <2>3, SqSize, WindowType
<1>5. f \in E
  <2>1. sq.cells \in Ring(SqEntries, E) /\ sq.khead \in Int BY <1>1 DEF SqRings, Cursors
  <2>2. sq.khead % SqEntries \in 0 .. SqEntries - 1 BY <2>1, SqSize, DivMod
  <2> QED BY <2>1, <2>2 DEF Ring, FrontSq
<1> HIDE DEF f, v
<1>6. f \in Requests /\ v \in Seq(Requests)
  BY <1>2, <1>3, <1>4, <1>5, SplitFirst
<1>7. SqInv' BY <1>3, <1>6 DEF SqInv, E, v
<1>8. ASSUME NEW s, NEW k PROVE Sent(s, k) = Count(<<f>>, s, k) + Sent(s, k)'
  <2>1. Sent(s, k) = Count(Unsent(sq), s, k) BY SentNat
  <2>2. Sent(s, k)' = Count(v, s, k) BY DEF Sent, Count, Places, v
  <2> DEFINE fs == <<f>>
  <2>3. fs \in Seq(Requests) BY <1>6
  <2> HIDE DEF fs
  <2>4. Count(fs \o v, s, k) = Count(fs, s, k) + Count(v, s, k)
    BY <1>6, <2>3, CountConcat
  <2> QED BY <1>3, <2>1, <2>2, <2>4 DEF fs
<1> QED BY <1>3, <1>6, <1>7, <1>8 DEF f, v

(* A completion is appended.                                               *)
LEMMA PostedCq ==
  ASSUME CqInv, NEW e \in Replies, cq' = Post(cq, e)
  PROVE  /\ CqInv'
         /\ \A s, k : Back(s, k)' = Back(s, k) + Count(<<e>>, s, k)
         /\ \A s : Fails(Unread(cq'), s) <=> Fails(Unread(cq), s) \/ Fails(<<e>>, s)
<1> DEFINE E == Replies \cup {NoEntry}
           es == <<e>>
<1>1. cq \in CqRings(E) /\ CqOrder(cq) /\ e \in E BY DEF CqInv
<1>2. Unread(cq) \in Seq(Replies) /\ es \in Seq(Replies) BY DEF CqInv
<1> HIDE DEF E
<1>3. cq' \in CqRings(E) /\ CqOrder(cq') /\ Unread(cq') = Unread(cq) \o es
  BY <1>1, CqPost
<1> HIDE DEF es
<1>4. Unread(cq) \o es \in Seq(Replies) BY <1>2, ConcatProperties
<1>5. CqInv' BY <1>3, <1>4 DEF CqInv, E
<1>6. ASSUME NEW s, NEW k PROVE Back(s, k)' = Back(s, k) + Count(es, s, k)
  <2>1. Back(s, k) = Count(Unread(cq), s, k) BY BackNat
  <2>2. Back(s, k)' = Count(Unread(cq'), s, k) BY DEF Back, Count, Places
  <2>3. Count(Unread(cq) \o es, s, k) = Count(Unread(cq), s, k) + Count(es, s, k)
    BY <1>2, CountConcat
  <2> QED BY <1>3, <2>1, <2>2, <2>3
<1>7. ASSUME NEW s PROVE Fails(Unread(cq'), s) <=> Fails(Unread(cq), s) \/ Fails(es, s)
  BY <1>2, <1>3, FailsConcat
<1> QED BY <1>5, <1>6, <1>7 DEF es

(* The oldest completion is popped.                                        *)
LEMMA PoppedCq ==
  ASSUME CqInv, cq.available > 0, cq' = PopCq(cq)
  PROVE  /\ CqInv' /\ FrontCq(cq) \in Replies
         /\ \A s, k : Back(s, k) = Count(<<FrontCq(cq)>>, s, k) + Back(s, k)'
         /\ \A s : Fails(Unread(cq), s) <=> Fails(<<FrontCq(cq)>>, s) \/ Fails(Unread(cq'), s)
<1> DEFINE E == Replies \cup {NoEntry}
           f == FrontCq(cq)
           v == Unread(cq')
           fs == <<f>>
<1>1. cq \in CqRings(E) /\ CqOrder(cq) /\ NoEntry \in E BY DEF CqInv
<1>2. Unread(cq) \in Seq(Replies) BY DEF CqInv
<1> HIDE DEF E
<1>3. cq' \in CqRings(E) /\ CqOrder(cq') /\ Unread(cq) = <<f>> \o v
  BY <1>1, CqPop
<1>4. v \in Seq(E) BY <1>3, CqFields
<1>5. f \in E
  <2>1. cq.cells \in Ring(CqEntries, E) /\ cq.head \in Int BY <1>1 DEF CqRings, Cursors
  <2>2. cq.head % CqEntries \in 0 .. CqEntries - 1 BY <2>1, CqSize, DivMod
  <2> QED BY <2>1, <2>2 DEF Ring, FrontCq
<1> HIDE DEF f, v
<1>6. f \in Replies /\ v \in Seq(Replies)
  BY <1>2, <1>3, <1>4, <1>5, SplitFirst
<1>7. CqInv' BY <1>3, <1>6 DEF CqInv, E, v
<1>8. fs \in Seq(Replies) /\ Unread(cq) = fs \o v BY <1>3, <1>6
<1> HIDE DEF fs
<1>9. ASSUME NEW s, NEW k PROVE Back(s, k) = Count(fs, s, k) + Back(s, k)'
  <2>1. Back(s, k) = Count(Unread(cq), s, k) BY BackNat
  <2>2. Back(s, k)' = Count(v, s, k) BY DEF Back, Count, Places, v
  <2>3. Count(fs \o v, s, k) = Count(fs, s, k) + Count(v, s, k)
    BY <1>6, <1>8, CountConcat
  <2> QED BY <1>8, <2>1, <2>2, <2>3
<1>10. ASSUME NEW s PROVE Fails(Unread(cq), s) <=> Fails(fs, s) \/ Fails(v, s)
  BY <1>6, <1>8, FailsConcat
<1> QED BY <1>6, <1>7, <1>9, <1>10 DEF fs, f, v
-----------------------------------------------------------------------------
(* What a step leaves alone.                                               *)

LEMMA ChainFrame ==
  ASSUME NEW s, NEW d, ChainAt(s, s \in ToSet(d)), tune'[s] = tune[s],
         kern'[s].opt = kern[s].opt, kern'[s].con = kern[s].con, kern'[s].bad = kern[s].bad,
         Sent(s, "opt")' = Sent(s, "opt"), Sent(s, "con")' = Sent(s, "con"),
         Back(s, "tuning")' = Back(s, "tuning"),
         Fails(Unread(cq'), s) <=> Fails(Unread(cq), s)
  PROVE  ChainAt(s, s \in ToSet(d))'
<1>1. Outstanding(s)' = Outstanding(s) BY DEF Outstanding, Held
<1> QED BY <1>1 DEF ChainAt, ChainOK

LEMMA OwnerFrame ==
  ASSUME NEW s, OwnerAt(s), tune'[s].live = tune[s].live, fd'[s] = fd[s],
         Sent(s, "close")' = Sent(s, "close"), Back(s, "closed")' = Back(s, "closed"),
         front' = s => front = s
  PROVE  OwnerAt(s)'
BY DEF OwnerAt, OwnerOK

LEMMA DueFrame ==
  ASSUME NEW d \in Seq(Slots), IsDue(d), ready' = ready,
         \A s \in Slots : tune'[s].next = tune[s].next
  PROVE  IsDue(d)'
<1>1. \A i \in DOMAIN d : d[i] \in Slots BY LenProperties, ElementOfSeq
<1> QED BY <1>1 DEF IsDue

(* A step of the rings' cursors only.                                      *)
LEMMA QuietStep ==
  ASSUME IInv, SqInv', CqInv', Unsent(sq') = Unsent(sq), Unread(cq') = Unread(cq),
         UNCHANGED <<tune, ready, fd, front, kern, lied>>,
         turn' \in {"run", "in", "commit", "wait"}, grant' \in 0 .. SqEntries, GrantInv'
  PROVE  IInv'
<1>1. \A s, k : Sent(s, k)' = Sent(s, k) BY DEF Sent
<1>2. \A s, k : Back(s, k)' = Back(s, k) BY DEF Back
<1>3. TypeInv' BY DEF IInv, TypeInv
<1>4. \A s \in Slots : OwnerAt(s)'
  <2> TAKE s \in Slots
  <2>1. OwnerAt(s) BY DEF IInv
  <2>2. tune'[s].live = tune[s].live /\ fd'[s] = fd[s] /\ (front' = s => front = s) OBVIOUS
  <2> QED BY <1>1, <1>2, <2>1, <2>2, OwnerFrame
<1>5. \A s \in Slots : EntriesAt(s)'
  BY DEF IInv, EntriesAt, Matches
<1>6. \E d \in Seq(Slots) : ListInv(d)'
  <2>1. PICK d \in Seq(Slots) : ListInv(d) BY DEF IInv
  <2>2. IsDue(d)' BY <2>1 DEF ListInv, IsDue
  <2>3. \A s \in Slots : ChainAt(s, s \in ToSet(d))'
    <3> TAKE s \in Slots
    <3>1. ChainAt(s, s \in ToSet(d)) BY <2>1 DEF ListInv
    <3>2. /\ tune'[s] = tune[s] /\ kern'[s].opt = kern[s].opt /\ kern'[s].con = kern[s].con
          /\ kern'[s].bad = kern[s].bad /\ (Fails(Unread(cq'), s) <=> Fails(Unread(cq), s))
      OBVIOUS
    <3> QED BY <1>1, <1>2, <3>1, <3>2, ChainFrame
  <2> QED BY <2>2, <2>3 DEF ListInv
<1> QED BY <1>3, <1>4, <1>5, <1>6 DEF IInv

LEMMA EndDispatchStep == IInv /\ EndDispatch => IInv'
<1> SUFFICES ASSUME IInv, EndDispatch PROVE IInv'
  OBVIOUS
<1> DEFINE E == Replies \cup {NoEntry}
           p == PublishCq(cq)
<1>1. cq \in CqRings(E) /\ CqOrder(cq) BY DEF IInv, CqInv
<1>2. p \in CqRings(E) /\ CqOrder(p) /\ Unread(p) = Unread(cq) BY <1>1, CqPublish
<1>3. cq' = AcquireCq(p) BY DEF EndDispatch, RefreshCq
<1> HIDE DEF p, E
<1>4. cq' \in CqRings(E) /\ CqOrder(cq') /\ Unread(cq') = Unread(p) BY <1>2, <1>3, CqAcquire
<1>5. CqInv' BY <1>2, <1>4 DEF CqInv, IInv, E
<1>6. SqInv' /\ Unsent(sq') = Unsent(sq) /\ UNCHANGED <<tune, ready, fd, front, kern, lied>>
      /\ turn' \in {"run", "in", "commit", "wait"} /\ grant' \in 0 .. SqEntries /\ GrantInv'
  BY DEF IInv, SqInv, TypeInv, GrantInv, EndDispatch
<1>7. Unread(cq') = Unread(cq) BY <1>2, <1>4
<1> QED BY <1>5, <1>6, <1>7, QuietStep

LEMMA CommitStep == IInv /\ Commit => IInv'
<1> SUFFICES ASSUME IInv, Commit PROVE IInv'
  OBVIOUS
<1> DEFINE E == Replies \cup {NoEntry}
           R == Requests \cup {NoEntry}
           p == PublishCq(cq)
           m == Pending(PublishSq(sq))
<1>1. cq \in CqRings(E) /\ CqOrder(cq) /\ sq \in SqRings(R) /\ SqOrder(sq) BY DEF IInv, CqInv, SqInv
<1>2. p \in CqRings(E) /\ CqOrder(p) /\ Unread(p) = Unread(cq) BY <1>1, CqPublish
<1>3. /\ PublishSq(sq) \in SqRings(R) /\ SqOrder(PublishSq(sq)) /\ Unsent(PublishSq(sq)) = Unsent(sq)
      /\ m \in 0 .. SqEntries /\ Sub(PublishSq(sq).ktail, PublishSq(sq).khead) = m
  BY <1>1, SqPublish
<1>4. sq' = PublishSq(sq) BY DEF Commit, Publish
<1>5. SqInv' /\ Unsent(sq') = Unsent(sq) /\ Sub(sq'.ktail, sq'.khead) = m
  BY <1>3, <1>4 DEF SqInv, IInv
<1>6. UNCHANGED <<tune, ready, fd, front, kern, lied>> BY DEF Commit
<1>7. \/ cq' = AcquireCq(p) /\ turn' = "in" /\ grant' = grant
      \/ turn' = "commit" /\ grant' = m /\ (cq' = Flush(p) \/ cq' = p)
  BY DEF Commit
<1> HIDE DEF p, E, R, m
<1>8. cq' \in CqRings(E) /\ CqOrder(cq') /\ Unread(cq') = Unread(p)
  BY <1>2, <1>7, CqAcquire, CqFlush
<1>9. CqInv' /\ Unread(cq') = Unread(cq) BY <1>2, <1>8 DEF CqInv, IInv, E
<1>10. turn' \in {"run", "in", "commit", "wait"} /\ grant' \in 0 .. SqEntries
  BY <1>3, <1>7 DEF IInv, TypeInv
<1>11. GrantInv'
  BY <1>3, <1>5, <1>7, SqSize DEF GrantInv
<1> QED BY <1>5, <1>6, <1>9, <1>10, <1>11, QuietStep

LEMMA WaitStep == IInv /\ Wait => IInv'
<1> SUFFICES ASSUME IInv, Wait PROVE IInv'
  OBVIOUS
<1> DEFINE E == Replies \cup {NoEntry}
           R == Requests \cup {NoEntry}
           p == PublishCq(cq)
           m == Pending(PublishSq(sq))
<1>1. cq \in CqRings(E) /\ CqOrder(cq) /\ sq \in SqRings(R) /\ SqOrder(sq) BY DEF IInv, CqInv, SqInv
<1>2. p \in CqRings(E) /\ CqOrder(p) /\ Unread(p) = Unread(cq) BY <1>1, CqPublish
<1>3. /\ PublishSq(sq) \in SqRings(R) /\ SqOrder(PublishSq(sq)) /\ Unsent(PublishSq(sq)) = Unsent(sq)
      /\ m \in 0 .. SqEntries /\ Sub(PublishSq(sq).ktail, PublishSq(sq).khead) = m
  BY <1>1, SqPublish
<1>4. sq' = PublishSq(sq) BY DEF Wait, Publish
<1>5. SqInv' /\ Unsent(sq') = Unsent(sq) /\ Sub(sq'.ktail, sq'.khead) = m
  BY <1>3, <1>4 DEF SqInv, IInv
<1>6. UNCHANGED <<tune, ready, fd, front, kern, lied>> BY DEF Wait
<1>7. turn' = "wait" /\ grant' = m /\ cq' = Flush(p)
  BY DEF Wait
<1> HIDE DEF p, E, R, m
<1>8. cq' \in CqRings(E) /\ CqOrder(cq') /\ Unread(cq') = Unread(p)
  BY <1>2, <1>7, CqFlush
<1>9. CqInv' /\ Unread(cq') = Unread(cq) BY <1>2, <1>8 DEF CqInv, IInv, E
<1>10. turn' \in {"run", "in", "commit", "wait"} /\ grant' \in 0 .. SqEntries
  BY <1>3, <1>7 DEF IInv, TypeInv
<1>11. GrantInv'
  BY <1>3, <1>5, <1>7, SqSize DEF GrantInv
<1> QED BY <1>5, <1>6, <1>9, <1>10, <1>11, QuietStep

LEMMA LeaveStep == IInv /\ Leave => IInv'
<1> SUFFICES ASSUME IInv, Leave PROVE IInv'
  OBVIOUS
<1> DEFINE E == Replies \cup {NoEntry}
           R == Requests \cup {NoEntry}
<1>1. cq \in CqRings(E) /\ CqOrder(cq) /\ sq \in SqRings(R) /\ SqOrder(sq) BY DEF IInv, CqInv, SqInv
<1>2. sq' = PublishSq(sq) \/ sq' = sq BY DEF Leave
<1>3. cq' = AcquireCq(cq) BY DEF Leave
<1>4. UNCHANGED <<tune, ready, fd, front, kern, lied>> /\ turn' = "in" /\ grant' = 0 BY DEF Leave
<1>5. CqInv' /\ Unread(cq') = Unread(cq)
  BY <1>1, <1>3, CqAcquire DEF CqInv, IInv
<1>6. SqInv' /\ Unsent(sq') = Unsent(sq)
  <2>1. CASE sq' = sq BY <2>1 DEF IInv, SqInv
  <2>2. CASE sq' = PublishSq(sq)
    <3>1. PublishSq(sq) \in SqRings(R) /\ SqOrder(PublishSq(sq)) /\ Unsent(PublishSq(sq)) = Unsent(sq)
      BY <1>1, SqPublish
    <3> QED BY <2>2, <3>1 DEF SqInv, IInv
  <2> QED BY <1>2, <2>1, <2>2
<1>7. turn' \in {"run", "in", "commit", "wait"} /\ grant' \in 0 .. SqEntries /\ GrantInv'
  BY <1>4, SqSize DEF GrantInv
<1> QED BY <1>4, <1>5, <1>6, <1>7, QuietStep
-----------------------------------------------------------------------------
(* The owner of a descriptor.                                              *)

(* Entries of slot s are pushed by a step that changes no other slot; what *)
(* it does to s is for the step to say.                                    *)
LEMMA PushStep ==
  ASSUME IInv, NEW s \in Slots, NEW es \in Seq(Requests), Pushed(es), TypeInv', GrantInv',
         \A i \in DOMAIN es : es[i].s = s /\ (es[i].k \in {"opt", "con", "cancel"} => es[i].c = kern'[s].c),
         cq' = cq, front' \in {front, s, None},
         \A t \in Slots : t # s => tune'[t] = tune[t] /\ kern'[t] = kern[t] /\ fd'[t] = fd[t],
         OwnerAt(s)', EntriesOK(Unsent(sq), s, kern'[s].c, Matches(s)'),
         NEW d \in Seq(Slots), ListInv(d), ChainAt(s, s \in ToSet(d))', ready' = ready,
         tune'[s].next = tune[s].next
  PROVE  IInv'
<1>1. SqInv' /\ \A t, k : Sent(t, k)' = Sent(t, k) + Count(es, t, k)
  BY PushedSq DEF IInv
<1>2. CqInv' /\ \A t, k : Back(t, k)' = Back(t, k)
  BY DEF IInv, CqInv, Back
<1>3. \A t \in Slots : t # s => \A k : Sent(t, k)' = Sent(t, k)
  <2> SUFFICES ASSUME NEW t \in Slots, t # s, NEW k PROVE Sent(t, k)' = Sent(t, k)
    OBVIOUS
  <2>1. Places(es, t, k) = {} BY DEF Places
  <2>2. Count(es, t, k) = 0 BY <2>1, FS_EmptySet DEF Count
  <2>3. Sent(t, k) \in Nat BY SentNat DEF IInv
  <2> QED BY <1>1, <2>2, <2>3
<1>4. \A t \in Slots : OwnerAt(t)'
  <2> SUFFICES ASSUME NEW t \in Slots, t # s PROVE OwnerAt(t)'
    OBVIOUS
  <2>1. OwnerAt(t) BY DEF IInv
  <2>2. tune'[t].live = tune[t].live /\ fd'[t] = fd[t] /\ (front' = t => front = t)
    BY SlotAssumption
  <2> QED BY <1>2, <1>3, <2>1, <2>2, OwnerFrame
<1>5. \A t \in Slots : EntriesAt(t)'
  <2> SUFFICES ASSUME NEW t \in Slots PROVE EntriesAt(t)'
    OBVIOUS
  <2> DEFINE u == Unsent(sq)
             c == kern'[t].c
             h == Matches(t)'
  <2>1. EntriesOK(u, t, c, h)
    <3>1. CASE t = s BY <3>1
    <3>2. CASE t # s
      <4>1. EntriesAt(t) BY DEF IInv
      <4>2. kern'[t] = kern[t] BY <3>2
      <4> QED BY <4>1, <4>2 DEF EntriesAt, Matches
    <3> QED BY <3>1, <3>2
  <2>2. \A i \in DOMAIN es : es[i].s = t /\ es[i].k \in {"opt", "con", "cancel"} => es[i].c = c
    OBVIOUS
  <2>3. u \in Seq(Requests) BY DEF IInv, SqInv
  <2>4. Unsent(sq') = u \o es BY DEF Pushed
  <2> HIDE DEF u, c, h
  <2>5. EntriesOK(u \o es, t, c, h) BY <2>1, <2>2, <2>3, EntriesPush
  <2> QED BY <2>4, <2>5 DEF EntriesAt, c, h
<1>6. ListInv(d)'
  <2>1. IsDue(d)'
    <3>1. \A t \in Slots : tune'[t].next = tune[t].next OBVIOUS
    <3>2. IsDue(d) BY DEF ListInv
    <3> QED BY <3>1, <3>2, DueFrame
  <2>2. \A t \in Slots : ChainAt(t, t \in ToSet(d))'
    <3> SUFFICES ASSUME NEW t \in Slots, t # s PROVE ChainAt(t, t \in ToSet(d))'
      OBVIOUS
    <3>1. ChainAt(t, t \in ToSet(d)) BY DEF ListInv
    <3>2. /\ tune'[t] = tune[t] /\ kern'[t].opt = kern[t].opt /\ kern'[t].con = kern[t].con
          /\ kern'[t].bad = kern[t].bad /\ (Fails(Unread(cq'), t) <=> Fails(Unread(cq), t))
      OBVIOUS
    <3> QED BY <1>2, <1>3, <3>1, <3>2, ChainFrame
  <2> QED BY <2>1, <2>2 DEF ListInv
<1> QED BY <1>1, <1>2, <1>4, <1>5, <1>6 DEF IInv

LEMMA SlotTypes ==
  ASSUME IInv, NEW s \in Slots
  PROVE  /\ tune[s] \in Tunings /\ kern[s] \in Kerns /\ fd[s] \in Owners
         /\ kern[s].c \in Nat /\ kern[s].opt \in Nat /\ Held(s) \in Nat
         /\ tune[s].count \in Nat /\ tune[s].count > 0
         /\ \A k : Sent(s, k) \in Nat /\ Back(s, k) \in Nat
         /\ OwnerAt(s) /\ EntriesAt(s)
<1>1. tune[s] \in Tunings /\ kern[s] \in Kerns /\ fd[s] \in Owners BY DEF IInv, TypeInv
<1>2. kern[s].c \in Nat /\ kern[s].opt \in Nat /\ tune[s].count \in 1 .. SqEntries
  BY <1>1 DEF Kerns, Tunings
<1>3. Held(s) \in Nat BY <1>2 DEF Held
<1>4. tune[s].count \in Nat /\ tune[s].count > 0 BY <1>2, SqSize
<1>5. \A k : Sent(s, k) \in Nat /\ Back(s, k) \in Nat BY SentNat, BackNat DEF IInv
<1> QED BY <1>1, <1>2, <1>3, <1>4, <1>5 DEF IInv

(* Nothing of a slot without a chain is on its way or in the kernel.       *)
LEMMA IdleSlot ==
  ASSUME IInv, NEW s \in Slots, ~tune[s].live, NEW d, ListInv(d)
  PROVE  /\ s \notin ToSet(d) /\ tune[s].next = None
         /\ Sent(s, "opt") = 0 /\ Sent(s, "con") = 0 /\ Back(s, "tuning") = 0
         /\ kern[s].opt = 0 /\ kern[s].con = "none" /\ ~Fails(Unread(cq), s) /\ ~Matches(s)
<1>1. ChainAt(s, s \in ToSet(d)) BY DEF ListInv
<1>2. Outstanding(s) = 0 /\ s \notin ToSet(d) /\ tune[s].next = None
  BY <1>1 DEF ChainAt, ChainOK
<1>3. /\ kern[s].opt \in Nat /\ \A k : Sent(s, k) \in Nat /\ Back(s, k) \in Nat
  BY SlotTypes
<1>4. /\ Sent(s, "opt") = 0 /\ Sent(s, "con") = 0 /\ Back(s, "tuning") = 0
      /\ kern[s].opt = 0 /\ kern[s].con = "none"
  <2> DEFINE a == Sent(s, "opt")
             b == Sent(s, "con")
             c == Back(s, "tuning")
             o == kern[s].opt
             w == IF kern[s].con = "none" THEN 0 ELSE 1
  <2>1. a \in Nat /\ b \in Nat /\ c \in Nat /\ o \in Nat /\ w \in Nat BY <1>3
  <2>2. a + b + (o + w) + c = 0 BY <1>2 DEF Outstanding, Held
  <2>3. w = 0 => kern[s].con = "none" OBVIOUS
  <2> HIDE DEF a, b, c, o, w
  <2>4. a = 0 /\ b = 0 /\ c = 0 /\ o = 0 /\ w = 0 BY <2>1, <2>2
  <2> QED BY <2>3, <2>4 DEF a, b, c, o
<1>5. ~Fails(Unread(cq), s)
  <2>1. Unread(cq) \in Seq(Replies) BY DEF IInv, CqInv
  <2>2. Count(Unread(cq), s, "tuning") = 0 BY <1>4, BackNat DEF IInv
  <2> QED BY <2>1, <2>2, FailsNone
<1> QED BY <1>2, <1>4, <1>5 DEF Matches

LEMMA BeginStep ==
  ASSUME IInv, NEW s \in Slots, NEW n \in Counts, NEW b \in BOOLEAN, Begin(s, n, b)
  PROVE  IInv'
<1> DEFINE c == kern[s].c + 1
           e == [k |-> "opt", s |-> s, c |-> c]
           es == [i \in 1 .. n |-> e]
           x == tune'[s]
<1>1. PICK d \in Seq(Slots) : ListInv(d) BY DEF IInv
<1>2. /\ tune[s] \in Tunings /\ kern[s] \in Kerns /\ fd[s] \in Owners
      /\ kern[s].c \in Nat /\ OwnerAt(s) /\ EntriesAt(s) /\ \A k : Sent(s, k) \in Nat /\ Back(s, k) \in Nat
  BY SlotTypes
<1>3. fd[s] \in {"free", "idle"} BY DEF Begin
<1>4. ~tune[s].live BY <1>2, <1>3 DEF OwnerAt, OwnerOK
<1>5. /\ s \notin ToSet(d) /\ tune[s].next = None
      /\ Sent(s, "opt") = 0 /\ Sent(s, "con") = 0 /\ Back(s, "tuning") = 0
      /\ kern[s].opt = 0 /\ kern[s].con = "none" /\ ~Fails(Unread(cq), s) /\ ~Matches(s)
  BY <1>1, <1>4, IdleSlot
<1>6. n \in Nat /\ n > 0 /\ n \in 1 .. SqEntries BY EngineAssumption, SqSize
<1>7. c \in Nat /\ e \in Requests BY <1>2 DEF Requests
<1>8. es \in Seq(Requests) /\ Len(es) = n
  <2> HIDE DEF e
  <2>1. es \in [1 .. n -> Requests] BY <1>7
  <2> HIDE DEF es
  <2> QED BY <1>6, <2>1, FunctionIsSeq
<1>9. Pushed(es)
  <2>1. sq' = PushAll(sq, es) /\ HasCapacity(sq, n) BY DEF Begin
  <2>2. SqInv BY DEF IInv
  <2> HIDE DEF es
  <2> QED BY <1>8, <2>1, <2>2, PushAllSq
<1>10. /\ x.live = TRUE /\ x.retiring = FALSE /\ x.stopped = FALSE /\ x.count = n /\ x.error = "ok"
       /\ x.next = None /\ x.phase = (IF b THEN "OptionsConnect" ELSE "Options") /\ x \in Tunings
       /\ \A t \in Slots : t # s => tune'[t] = tune[t]
       /\ tune' \in [Slots -> Tunings]
  <2> DEFINE y == [NoChain EXCEPT !.live = TRUE, !.count = n,
                     !.phase = IF b THEN "OptionsConnect" ELSE "Options"]
  <2>1. y \in [live : {TRUE}, retiring : {FALSE}, stopped : {FALSE},
               phase : {IF b THEN "OptionsConnect" ELSE "Options"}, count : {n},
               error : {"ok"}, next : {None}]
    BY DEF NoChain
  <2>2. tune' = [tune EXCEPT ![s] = y] BY DEF Begin
  <2> HIDE DEF y
  <2>3. y \in Tunings BY <1>6, <2>1 DEF Tunings
  <2>4. tune \in [Slots -> Tunings] BY DEF IInv, TypeInv
  <2>5. tune' \in [Slots -> Tunings] /\ x = y /\ \A t \in Slots : t # s => tune'[t] = tune[t]
    BY <2>2, <2>3, <2>4
  <2> QED BY <2>1, <2>3, <2>5
<1>11. /\ kern' \in [Slots -> Kerns] /\ \A t \in Slots : t # s => kern'[t] = kern[t]
       /\ kern'[s].opt = kern[s].opt /\ kern'[s].con = kern[s].con /\ kern'[s].bad = FALSE
       /\ kern'[s].c = c
  <2>1. kern \in [Slots -> Kerns] BY DEF IInv, TypeInv
  <2>2. kern' = [kern EXCEPT ![s].c = @ + 1, ![s].bad = FALSE] BY DEF Begin
  <2>3. /\ \A t \in Slots : t # s => kern'[t] = kern[t]
        /\ kern'[s].opt = kern[s].opt /\ kern'[s].con = kern[s].con /\ kern'[s].bad = FALSE
        /\ kern'[s].c = c
    BY <2>1, <2>2 DEF Kerns
  <2>4. kern'[s] \in [opt : {kern[s].opt}, con : {kern[s].con}, bad : {FALSE}, c : {c}]
    BY <2>1, <2>2 DEF Kerns
  <2> HIDE DEF c
  <2>5. kern'[s] \in Kerns BY <1>2, <1>7, <2>4 DEF Kerns
  <2>6. DOMAIN kern' = Slots /\ kern' = [t \in Slots |-> kern'[t]] BY <2>1, <2>2
  <2>7. \A t \in Slots : kern'[t] \in Kerns BY <2>1, <2>3, <2>5
  <2> QED BY <2>3, <2>6, <2>7
<1>12. /\ cq' = cq /\ ready' = ready /\ front' = front /\ turn' = turn /\ grant' = grant /\ lied' = lied
       /\ fd' = [fd EXCEPT ![s] = "flying"] /\ turn \in {"run", "in"}
  BY DEF Begin, Running
<1>13. /\ fd' \in [Slots -> Owners] /\ fd'[s] = "flying" /\ \A t \in Slots : t # s => fd'[t] = fd[t]
  BY <1>12 DEF IInv, TypeInv, Owners
<1>14. TypeInv' BY <1>10, <1>11, <1>12, <1>13 DEF IInv, TypeInv
<1>15. GrantInv' BY <1>12 DEF GrantInv
<1>16. \A t, k : Sent(t, k)' = Sent(t, k) + Count(es, t, k)
  BY <1>8, <1>9, PushedSq DEF IInv
<1>17. /\ Sent(s, "opt")' = n /\ Sent(s, "con")' = 0 /\ Sent(s, "close")' = Sent(s, "close")
       /\ \A k : Back(s, k)' = Back(s, k)
  <2>1. /\ Count(es, s, "opt") = n /\ Count(es, s, "con") = 0 /\ Count(es, s, "close") = 0
    <3>1. e.k = "opt" /\ e.s = s OBVIOUS
    <3> HIDE DEF e
    <3>2. DOMAIN es = 1 .. n /\ \A i \in 1 .. n : es[i] = e OBVIOUS
    <3> HIDE DEF es
    <3>3. \A k : Count(es, s, k) = IF e.k = k /\ e.s = s THEN n ELSE 0 BY <1>6, <3>2, CountConst
    <3> QED BY <3>1, <3>3
  <2>2. \A k : Back(s, k)' = Back(s, k) BY <1>12 DEF Back
  <2> HIDE DEF es
  <2> QED BY <1>2, <1>5, <1>6, <1>16, <2>1, <2>2
<1> HIDE DEF x
<1>18. OwnerAt(s)'
  <2>1. front # s BY <1>2, <1>3 DEF OwnerAt, OwnerOK
  <2> QED BY <1>2, <1>3, <1>10, <1>12, <1>13, <1>17, <2>1 DEF OwnerAt, OwnerOK, x
<1>19. ChainAt(s, s \in ToSet(d))'
  <2>1. Outstanding(s)' = n
    <3>1. Held(s)' = 0 BY <1>5, <1>11 DEF Held
    <3> QED BY <1>5, <1>6, <1>17, <3>1 DEF Outstanding
  <2>2. ~Fails(Unread(cq'), s) BY <1>5, <1>12
  <2> QED BY <1>5, <1>10, <1>11, <1>17, <2>1, <2>2 DEF ChainAt, ChainOK, x
<1>20. EntriesOK(Unsent(sq), s, kern'[s].c, Matches(s)')
  <2> DEFINE u == Unsent(sq)
  <2>1. u \in Seq(Requests) BY DEF IInv, SqInv
  <2>2. Count(u, s, "opt") = 0 /\ Count(u, s, "con") = 0 BY <1>5, SentNat DEF IInv
  <2>3. Matches(s)' = FALSE BY <1>5, <1>11 DEF Matches
  <2>4. DOMAIN u = 1 .. Len(u) /\ Len(u) \in Nat BY <2>1, LenProperties
  <2> HIDE DEF u
  <2>5. \A i \in DOMAIN u : ~(u[i].k \in {"opt", "con"} /\ u[i].s = s)
    <3> SUFFICES ASSUME NEW i \in DOMAIN u, u[i].k \in {"opt", "con"}, u[i].s = s PROVE FALSE
      OBVIOUS
    <3>1. Count(u, s, u[i].k) > 0 BY <2>1, CountPositive
    <3> QED BY <2>2, <3>1
  <2>6. \A i \in DOMAIN u : \A j \in 1 .. i - 1 : j \in DOMAIN u BY <2>4
  <2> QED BY <2>3, <2>5, <2>6 DEF EntriesOK, u
<1>21. \A i \in DOMAIN es : es[i].s = s /\ (es[i].k \in {"opt", "con", "cancel"} => es[i].c = kern'[s].c)
  BY <1>11
<1>22. tune'[s].next = tune[s].next BY <1>5, <1>10 DEF x
<1> HIDE DEF es
<1> QED BY <1>1, <1>8, <1>9, <1>10, <1>11, <1>12, <1>13, <1>14, <1>15, <1>18, <1>19, <1>20, <1>21, <1>22, PushStep

LEMMA PushCancelled ==
  ASSUME IInv, NEW s \in Slots, Pushed(<<CancelEntry(s)>>), NEW d, ListInv(d), cq' = cq,
         kern'[s] = kern[s]
  PROVE  /\ CancelEntry(s) \in Requests /\ <<CancelEntry(s)>> \in Seq(Requests)
         /\ Sent(s, "opt")' = Sent(s, "opt") /\ Sent(s, "con")' = Sent(s, "con")
         /\ Sent(s, "close")' = Sent(s, "close")
         /\ \A k : Back(s, k)' = Back(s, k)
         /\ Outstanding(s)' = Outstanding(s)
         /\ EntriesOK(Unsent(sq), s, kern'[s].c, Matches(s)')
         /\ \A i \in DOMAIN <<CancelEntry(s)>> :
              /\ <<CancelEntry(s)>>[i].s = s
              /\ <<CancelEntry(s)>>[i].k \in {"opt", "con", "cancel"} => <<CancelEntry(s)>>[i].c = kern'[s].c
<1> DEFINE e == CancelEntry(s)
           es == <<e>>
<1>1. kern[s].c \in Nat /\ EntriesAt(s) /\ \A k : Sent(s, k) \in Nat BY SlotTypes
<1>2. e \in Requests /\ e.k = "cancel" /\ e.s = s /\ e.c = kern[s].c
  BY <1>1 DEF CancelEntry, Requests
<1> HIDE DEF e
<1>3. es \in Seq(Requests) /\ DOMAIN es = {1} /\ es[1] = e BY <1>2
<1>4. \A k : Count(es, s, k) = IF e.k = k /\ e.s = s THEN 1 ELSE 0 BY CountOne
<1>5. Pushed(es) BY DEF e
<1> HIDE DEF es
<1>6. \A t, k : Sent(t, k)' = Sent(t, k) + Count(es, t, k) BY <1>3, <1>5, PushedSq DEF IInv
<1>7. /\ Sent(s, "opt")' = Sent(s, "opt") /\ Sent(s, "con")' = Sent(s, "con")
      /\ Sent(s, "close")' = Sent(s, "close")
  <2>1. Count(es, s, "opt") = 0 /\ Count(es, s, "con") = 0 /\ Count(es, s, "close") = 0
    BY <1>2, <1>4
  <2> QED BY <1>1, <1>6, <2>1
<1>8. \A k : Back(s, k)' = Back(s, k) BY DEF Back
<1>9. Outstanding(s)' = Outstanding(s) BY <1>7, <1>8 DEF Outstanding, Held
<1>10. EntriesOK(Unsent(sq), s, kern'[s].c, Matches(s)') BY <1>1 DEF EntriesAt, Matches
<1>11. \A i \in DOMAIN es : es[i].s = s /\ (es[i].k \in {"opt", "con", "cancel"} => es[i].c = kern'[s].c)
  BY <1>2, <1>3
<1> QED BY <1>2, <1>3, <1>7, <1>8, <1>9, <1>10, <1>11 DEF es, e

LEMMA CancelStep ==
  ASSUME IInv, NEW s \in Slots, Cancel(s)
  PROVE  IInv'
<1> DEFINE es == <<CancelEntry(s)>>
           x == tune'[s]
           y == tune[s]
<1>1. PICK d \in Seq(Slots) : ListInv(d) BY DEF IInv
<1>2. /\ y \in Tunings /\ OwnerAt(s) BY SlotTypes
<1>3. /\ cq' = cq /\ ready' = ready /\ front' = front /\ turn' = turn /\ grant' = grant /\ lied' = lied
      /\ kern' = kern /\ fd[s] = "flying" /\ fd' = [fd EXCEPT ![s] = "cancelled"] /\ turn \in {"run", "in"}
      /\ tune' = [tune EXCEPT ![s].stopped = TRUE]
  BY DEF Cancel, Running
<1>4. Pushed(es)
  <2>1. CancelEntry(s) \in Requests
    <3>1. kern[s].c \in Nat BY SlotTypes
    <3> QED BY <3>1 DEF CancelEntry, Requests
  <2>2. sq' = PushOne(sq, CancelEntry(s)) /\ HasCapacity(sq, 1) /\ SqInv BY DEF Cancel, IInv
  <2> QED BY <2>1, <2>2, PushOneSq
<1>5. kern'[s] = kern[s] BY <1>3
<1>6. /\ es \in Seq(Requests)
      /\ Sent(s, "opt")' = Sent(s, "opt") /\ Sent(s, "con")' = Sent(s, "con")
      /\ Sent(s, "close")' = Sent(s, "close") /\ \A k : Back(s, k)' = Back(s, k)
      /\ Outstanding(s)' = Outstanding(s)
      /\ EntriesOK(Unsent(sq), s, kern'[s].c, Matches(s)')
      /\ \A i \in DOMAIN es : es[i].s = s /\ (es[i].k \in {"opt", "con", "cancel"} => es[i].c = kern'[s].c)
  BY <1>1, <1>3, <1>4, <1>5, PushCancelled
<1> HIDE DEF es
<1>7. /\ x.live = y.live /\ x.count = y.count /\ x.error = y.error /\ x.next = y.next /\ x.phase = y.phase
      /\ tune' \in [Slots -> Tunings] /\ \A t \in Slots : t # s => tune'[t] = tune[t]
  <2>1. tune \in [Slots -> Tunings] BY DEF IInv, TypeInv
  <2>2. /\ x.live = y.live /\ x.count = y.count /\ x.error = y.error /\ x.next = y.next /\ x.phase = y.phase
        /\ x \in Tunings /\ \A t \in Slots : t # s => tune'[t] = tune[t]
    BY <1>3, <2>1 DEF Tunings
  <2>3. DOMAIN tune' = Slots /\ tune' = [t \in Slots |-> tune'[t]] BY <1>3, <2>1
  <2>4. \A t \in Slots : tune'[t] \in Tunings BY <2>1, <2>2
  <2> QED BY <2>2, <2>3, <2>4
<1>8. fd' \in [Slots -> Owners] /\ fd'[s] = "cancelled" /\ \A t \in Slots : t # s => fd'[t] = fd[t]
  BY <1>3 DEF IInv, TypeInv, Owners
<1>9. TypeInv' BY <1>3, <1>7, <1>8 DEF IInv, TypeInv
<1>10. GrantInv' BY <1>3 DEF GrantInv
<1> HIDE DEF x, y
<1>11. OwnerAt(s)'
  <2>1. front # s /\ y.live /\ Sent(s, "close") + Back(s, "closed") = 0
    BY <1>2, <1>3 DEF OwnerAt, OwnerOK, y
  <2> QED BY <1>3, <1>6, <1>7, <1>8, <2>1 DEF OwnerAt, OwnerOK, x
<1>12. ChainAt(s, s \in ToSet(d))'
  <2>1. ChainAt(s, s \in ToSet(d)) BY <1>1 DEF ListInv
  <2> QED BY <1>3, <1>6, <1>7, <2>1 DEF ChainAt, ChainOK, x, y
<1>13. tune'[s].next = tune[s].next BY <1>7 DEF x, y
<1>14. \A t \in Slots : t # s => tune'[t] = tune[t] /\ kern'[t] = kern[t] /\ fd'[t] = fd[t]
  BY <1>3, <1>7, <1>8
<1>15. front' \in {front, s, None} BY <1>3
<1>16. cq' = cq /\ ready' = ready BY <1>3
<1> QED BY <1>1, <1>4, <1>6, <1>9, <1>10, <1>11, <1>12, <1>13, <1>14, <1>15, <1>16, PushStep

LEMMA DropStep ==
  ASSUME IInv, NEW s \in Slots, Drop(s)
  PROVE  IInv'
<1>1. PICK d \in Seq(Slots) : ListInv(d) BY DEF IInv
<1>2. /\ UNCHANGED <<sq, cq, tune, ready, front, turn, grant, kern, lied>>
      /\ fd' = [fd EXCEPT ![s] = "retired"] /\ fd[s] \in {"idle", "flying", "cancelled"}
  BY DEF Drop
<1>3. fd' \in [Slots -> Owners] /\ fd'[s] = "retired" /\ \A t \in Slots : t # s => fd'[t] = fd[t]
  BY <1>2 DEF IInv, TypeInv, Owners
<1>4. TypeInv' /\ SqInv' /\ CqInv' /\ GrantInv' BY <1>2, <1>3 DEF IInv, TypeInv, SqInv, CqInv, GrantInv
<1>5. \A t, k : Sent(t, k)' = Sent(t, k) /\ Back(t, k)' = Back(t, k) BY <1>2 DEF Sent, Back
<1>6. \A t \in Slots : OwnerAt(t)'
  <2> TAKE t \in Slots
  <2>1. OwnerAt(t) BY DEF IInv
  <2>2. CASE t # s
    <3>1. fd'[t] = fd[t] /\ tune'[t].live = tune[t].live /\ (front' = t => front = t) BY <1>2, <1>3, <2>2
    <3> QED BY <1>5, <2>1, <3>1, OwnerFrame
  <2>3. CASE t = s
    BY <1>2, <1>3, <1>5, <2>1, <2>3 DEF OwnerAt, OwnerOK
  <2> QED BY <2>2, <2>3
<1>7. \A t \in Slots : EntriesAt(t)' BY <1>2 DEF IInv, EntriesAt, Matches
<1>8. ListInv(d)' BY <1>1, <1>2, <1>5 DEF ListInv, IsDue, ChainAt, Outstanding, Held
<1> QED BY <1>4, <1>6, <1>7, <1>8 DEF IInv

LEMMA ReclaimStep == IInv /\ Reclaim => IInv'
<1> SUFFICES ASSUME IInv, Reclaim PROVE IInv'
  OBVIOUS
<1>1. PICK d \in Seq(Slots) : ListInv(d) BY DEF IInv
<1>2. /\ cq' = cq /\ ready' = ready /\ turn' = turn /\ grant' = grant /\ kern' = kern /\ lied' = lied
      /\ turn = "run"
  BY DEF Reclaim
<1>3. PICK s \in (IF front = None THEN Retired ELSE {front}) : RetireStep(s) BY DEF Reclaim
<1>4. s \in Slots /\ fd[s] = "retired"
  <2>1. CASE front = None BY <1>3, <2>1 DEF Retired
  <2>2. CASE front # None
    <3>1. s = front /\ s \in Slots BY <1>3, <2>2 DEF IInv, TypeInv
    <3>2. OwnerAt(s) BY <3>1 DEF IInv
    <3> QED BY <3>1, <3>2 DEF OwnerAt, OwnerOK
  <2> QED BY <2>1, <2>2
<1>5. OwnerAt(s) /\ EntriesAt(s) /\ tune[s] \in Tunings /\ \A k : Sent(s, k) \in Nat /\ Back(s, k) \in Nat
  BY <1>4, SlotTypes
<1>6. tune \in [Slots -> Tunings] /\ fd \in [Slots -> Owners] BY DEF IInv, TypeInv
<1>7. GrantInv' BY <1>2 DEF GrantInv
<1>8. cq' = cq /\ ready' = ready /\ kern'[s] = kern[s] BY <1>2
<1>9. \A k : Back(s, k)' = Back(s, k) BY <1>2 DEF Back
<1>10. CASE ~RetireBlocked(s)
  <2> DEFINE es == CloseEntries(s)
             close == [k |-> "close", s |-> s]
             shut == [k |-> "shutdown", s |-> s]
  <2>1. /\ HasCapacity(sq, Len(es)) /\ sq' = PushAll(sq, es) /\ fd' = [fd EXCEPT ![s] = "closing"]
        /\ front' = None /\ tune' = tune
    BY <1>3, <1>10 DEF RetireStep
  <2>2. close \in Requests /\ shut \in Requests BY <1>4 DEF Requests
  <2>3. close.k = "close" /\ close.s = s /\ shut.k = "shutdown" /\ shut.s = s OBVIOUS
  <2>4. es = (IF s \in Paired THEN <<shut>> ELSE <<>>) \o <<close>> BY DEF CloseEntries
  <2> HIDE DEF close, shut, es
  <2>5. /\ es \in Seq(Requests)
        /\ \A k : Count(es, s, k) = (IF s \in Paired /\ k = "shutdown" THEN 1 ELSE 0) + (IF k = "close" THEN 1 ELSE 0)
        /\ \A i \in DOMAIN es : es[i] \in {close, shut}
    <3> DEFINE cs == <<close>>
               ss == <<shut>>
    <3>1. cs \in Seq(Requests) /\ ss \in Seq(Requests) /\ <<>> \in Seq(Requests) BY <2>2
    <3>2. cs \in Seq({close, shut}) /\ ss \in Seq({close, shut}) /\ <<>> \in Seq({close, shut}) OBVIOUS
    <3>3. \A k : Count(cs, s, k) = IF close.k = k /\ close.s = s THEN 1 ELSE 0 BY CountOne
    <3>4. \A k : Count(ss, s, k) = IF shut.k = k /\ shut.s = s THEN 1 ELSE 0 BY CountOne
    <3>5. es = (IF s \in Paired THEN ss ELSE <<>>) \o cs BY <2>4
    <3> HIDE DEF cs, ss
    <3>6. CASE s \in Paired
      <4>1. es = ss \o cs BY <3>5, <3>6
      <4>2. es \in Seq(Requests) /\ es \in Seq({close, shut}) BY <3>1, <3>2, <4>1, ConcatProperties
      <4>3. \A k : Count(es, s, k) = Count(ss, s, k) + Count(cs, s, k) BY <3>1, <4>1, CountConcat
      <4>4. \A k : Count(es, s, k) = (IF k = "shutdown" THEN 1 ELSE 0) + (IF k = "close" THEN 1 ELSE 0)
        BY <2>3, <3>3, <3>4, <4>3
      <4>5. \A i \in DOMAIN es : es[i] \in {close, shut} BY <4>2, LenProperties, ElementOfSeq
      <4> QED BY <3>6, <4>2, <4>4, <4>5
    <3>7. CASE s \notin Paired
      <4>1. es = cs BY <3>1, <3>5, <3>7, ConcatEmptySeq
      <4>2. es \in Seq(Requests) /\ es \in Seq({close, shut}) BY <3>1, <3>2, <4>1
      <4>4. \A k : Count(es, s, k) = 0 + (IF k = "close" THEN 1 ELSE 0)
        BY <2>3, <3>3, <4>1
      <4>5. \A i \in DOMAIN es : es[i] \in {close, shut} BY <4>2, LenProperties, ElementOfSeq
      <4> QED BY <3>7, <4>2, <4>4, <4>5
    <3> QED BY <3>6, <3>7
  <2>6. Pushed(es) BY <2>1, <2>5, PushAllSq DEF IInv
  <2>7. \A t, k : Sent(t, k)' = Sent(t, k) + Count(es, t, k) BY <2>5, <2>6, PushedSq DEF IInv
  <2>8. /\ Sent(s, "opt")' = Sent(s, "opt") /\ Sent(s, "con")' = Sent(s, "con")
        /\ Sent(s, "close")' = Sent(s, "close") + 1
    <3>1. Count(es, s, "opt") = 0 /\ Count(es, s, "con") = 0 /\ Count(es, s, "close") = 1 BY <2>5
    <3> QED BY <1>5, <2>7, <3>1
  <2>9. fd' \in [Slots -> Owners] /\ fd'[s] = "closing" /\ \A t \in Slots : t # s => fd'[t] = fd[t]
    BY <1>4, <1>6, <2>1 DEF Owners
  <2>10. TypeInv' BY <1>2, <2>1, <2>9 DEF IInv, TypeInv
  <2>11. OwnerAt(s)'
    <3>1. ~tune[s].live BY <1>10 DEF RetireBlocked
    <3>2. Sent(s, "close") + Back(s, "closed") = 0 BY <1>4, <1>5 DEF OwnerAt, OwnerOK
    <3>3. Sent(s, "close")' + Back(s, "closed")' = 1 BY <1>5, <1>9, <2>8, <3>2
    <3>4. front' # s BY <1>4, <2>1, SlotAssumption
    <3> QED BY <2>1, <2>9, <3>1, <3>3, <3>4 DEF OwnerAt, OwnerOK
  <2>12. ChainAt(s, s \in ToSet(d))'
    <3>1. ChainAt(s, s \in ToSet(d)) BY <1>1, <1>4 DEF ListInv
    <3>2. /\ tune'[s] = tune[s] /\ kern'[s].opt = kern[s].opt /\ kern'[s].con = kern[s].con
          /\ kern'[s].bad = kern[s].bad /\ (Fails(Unread(cq'), s) <=> Fails(Unread(cq), s))
      BY <1>2, <2>1
    <3> QED BY <1>9, <2>8, <3>1, <3>2, ChainFrame
  <2>13. EntriesOK(Unsent(sq), s, kern'[s].c, Matches(s)') BY <1>5, <1>8 DEF EntriesAt, Matches
  <2>14. \A i \in DOMAIN es : es[i].s = s /\ (es[i].k \in {"opt", "con", "cancel"} => es[i].c = kern'[s].c)
    BY <2>3, <2>5
  <2>15. \A t \in Slots : t # s => tune'[t] = tune[t] /\ kern'[t] = kern[t] /\ fd'[t] = fd[t]
    BY <1>2, <2>1, <2>9
  <2>16. tune'[s].next = tune[s].next /\ front' \in {front, s, None} BY <2>1
  <2> QED BY <1>1, <1>4, <1>7, <1>8, <2>5, <2>6, <2>10, <2>11, <2>12, <2>13, <2>14, <2>15, <2>16, PushStep
<1>11. CASE RetireBlocked(s)
  <2> DEFINE es == <<CancelEntry(s)>>
             x == tune'[s]
             y == tune[s]
  <2>1. /\ HasCapacity(sq, 1) /\ sq' = PushOne(sq, CancelEntry(s)) /\ front' = s /\ fd' = fd
        /\ tune' = [tune EXCEPT ![s].retiring = TRUE, ![s].stopped = TRUE]
    BY <1>3, <1>11 DEF RetireStep
  <2>2. Pushed(es)
    <3>1. CancelEntry(s) \in Requests
      <4>1. kern[s].c \in Nat BY <1>4, SlotTypes
      <4> QED BY <1>4, <4>1 DEF CancelEntry, Requests
    <3> QED BY <2>1, <3>1, PushOneSq DEF IInv
  <2>3. /\ es \in Seq(Requests)
        /\ Sent(s, "opt")' = Sent(s, "opt") /\ Sent(s, "con")' = Sent(s, "con")
        /\ Sent(s, "close")' = Sent(s, "close")
        /\ Outstanding(s)' = Outstanding(s)
        /\ EntriesOK(Unsent(sq), s, kern'[s].c, Matches(s)')
        /\ \A i \in DOMAIN es : es[i].s = s /\ (es[i].k \in {"opt", "con", "cancel"} => es[i].c = kern'[s].c)
    BY <1>1, <1>4, <1>8, <2>2, PushCancelled
  <2> HIDE DEF es
  <2>4. /\ x.live = y.live /\ x.count = y.count /\ x.error = y.error /\ x.next = y.next /\ x.phase = y.phase
        /\ tune' \in [Slots -> Tunings] /\ \A t \in Slots : t # s => tune'[t] = tune[t]
    <3>1. /\ x.live = y.live /\ x.count = y.count /\ x.error = y.error /\ x.next = y.next /\ x.phase = y.phase
          /\ \A t \in Slots : t # s => tune'[t] = tune[t]
      BY <1>4, <1>6, <2>1 DEF Tunings
    <3>2. x \in [live : {y.live}, retiring : {TRUE}, stopped : {TRUE}, phase : {y.phase},
                 count : {y.count}, error : {y.error}, next : {y.next}]
      <4>1. x = [y EXCEPT !.retiring = TRUE, !.stopped = TRUE] BY <1>4, <1>6, <2>1
      <4> QED BY <1>5, <4>1 DEF Tunings
    <3>3. x \in Tunings BY <1>5, <3>2 DEF Tunings
    <3>4. DOMAIN tune' = Slots /\ tune' = [t \in Slots |-> tune'[t]] BY <1>6, <2>1
    <3>5. \A t \in Slots : tune'[t] \in Tunings BY <1>6, <3>1, <3>3
    <3> QED BY <3>1, <3>4, <3>5
  <2>5. TypeInv' BY <1>2, <1>4, <2>1, <2>4 DEF IInv, TypeInv
  <2> HIDE DEF x, y
  <2>6. OwnerAt(s)'
    BY <1>4, <1>5, <1>9, <2>1, <2>3, <2>4 DEF OwnerAt, OwnerOK, x, y
  <2>7. ChainAt(s, s \in ToSet(d))'
    <3>1. ChainAt(s, s \in ToSet(d)) BY <1>1, <1>4 DEF ListInv
    <3> QED BY <1>2, <2>3, <2>4, <3>1 DEF ChainAt, ChainOK, x, y
  <2>8. \A t \in Slots : t # s => tune'[t] = tune[t] /\ kern'[t] = kern[t] /\ fd'[t] = fd[t]
    BY <1>2, <2>1, <2>4
  <2>9. tune'[s].next = tune[s].next BY <2>4 DEF x, y
  <2>10. front' \in {front, s, None} BY <2>1
  <2> QED BY <1>1, <1>4, <1>7, <1>8, <2>2, <2>3, <2>5, <2>6, <2>7, <2>8, <2>9, <2>10, PushStep
<1> QED BY <1>10, <1>11
-----------------------------------------------------------------------------
(* The kernel and the dispatch.                                            *)

(* Nothing about the requests of another slot changes.                     *)
Aside(s) ==
    \A t \in Slots \ {s} :
      /\ \A k : Sent(t, k)' = Sent(t, k) /\ Back(t, k)' = Back(t, k)
      /\ Fails(Unread(cq'), t) <=> Fails(Unread(cq), t)
      /\ kern'[t] = kern[t] /\ fd'[t] = fd[t]
      /\ EntriesAt(t)'

(* The list of due chains becomes e by a step that changes the chain of    *)
(* slot s; of a slot in the list it may change the link.                   *)
LEMMA SlotStep ==
  ASSUME IInv, NEW s \in Slots, NEW d \in Seq(Slots), NEW e \in Seq(Slots), ListInv(d),
         TypeInv', SqInv', CqInv', GrantInv', IsDue(e)', front' = front, Aside(s),
         \A t \in Slots \ {s} :
           /\ tune'[t].live = tune[t].live /\ tune'[t].phase = tune[t].phase
           /\ tune'[t].count = tune[t].count /\ tune'[t].error = tune[t].error
           /\ t \in ToSet(e) <=> t \in ToSet(d)
           /\ t \notin ToSet(d) => tune'[t].next = tune[t].next,
         OwnerAt(s)', EntriesAt(s)', ChainAt(s, s \in ToSet(e))'
  PROVE  IInv'
<1>1. \A t \in Slots : OwnerAt(t)'
  <2> SUFFICES ASSUME NEW t \in Slots, t # s PROVE OwnerAt(t)'
    OBVIOUS
  <2>1. OwnerAt(t) BY DEF IInv
  <2>2. tune'[t].live = tune[t].live /\ fd'[t] = fd[t] BY DEF Aside
  <2>3. Sent(t, "close")' = Sent(t, "close") /\ Back(t, "closed")' = Back(t, "closed") BY DEF Aside
  <2> QED BY <2>1, <2>2, <2>3, OwnerFrame
<1>2. \A t \in Slots : EntriesAt(t)' BY DEF Aside
<1>3. \A t \in Slots : ChainAt(t, t \in ToSet(e))'
  <2> SUFFICES ASSUME NEW t \in Slots, t # s PROVE ChainAt(t, t \in ToSet(e))'
    OBVIOUS
  <2>1. ChainAt(t, t \in ToSet(d)) BY DEF ListInv
  <2>2. /\ Sent(t, "opt")' = Sent(t, "opt") /\ Sent(t, "con")' = Sent(t, "con")
        /\ Back(t, "tuning")' = Back(t, "tuning") /\ kern'[t] = kern[t]
        /\ Fails(Unread(cq'), t) <=> Fails(Unread(cq), t)
    BY DEF Aside
  <2>3. Outstanding(t)' = Outstanding(t) BY <2>2 DEF Outstanding, Held
  <2>4. /\ tune'[t].live = tune[t].live /\ tune'[t].phase = tune[t].phase
        /\ tune'[t].count = tune[t].count /\ tune'[t].error = tune[t].error
        /\ t \in ToSet(e) <=> t \in ToSet(d)
        /\ t \notin ToSet(d) => tune'[t].next = tune[t].next
    OBVIOUS
  <2> QED BY <2>1, <2>2, <2>3, <2>4 DEF ChainAt, ChainOK
<1>4. ListInv(e)' BY <1>3 DEF ListInv
<1> QED BY <1>1, <1>2, <1>4 DEF IInv

(* A step that posts a completion of slot s and takes no submission.       *)
LEMMA PostAside ==
  ASSUME IInv, NEW s \in Slots, NEW e \in Replies, e.s = s, cq' = Post(cq, e), sq' = sq, fd' = fd,
         \A t \in Slots \ {s} : kern'[t] = kern[t]
  PROVE  /\ Aside(s) /\ CqInv' /\ SqInv'
         /\ \A k : Sent(s, k)' = Sent(s, k)
         /\ \A k : Back(s, k)' = Back(s, k) + (IF e.k = k THEN 1 ELSE 0)
         /\ Fails(Unread(cq'), s) <=> Fails(Unread(cq), s) \/ (e.k = "tuning" /\ e.out = "fail")
<1>1. /\ CqInv'
      /\ \A t, k : Back(t, k)' = Back(t, k) + Count(<<e>>, t, k)
      /\ \A t : Fails(Unread(cq'), t) <=> Fails(Unread(cq), t) \/ Fails(<<e>>, t)
  BY PostedCq DEF IInv
<1>2. \A t, k : Count(<<e>>, t, k) = IF e.k = k /\ e.s = t THEN 1 ELSE 0 BY CountOne
<1>3. \A t : Fails(<<e>>, t) <=> e.k = "tuning" /\ e.s = t /\ e.out = "fail" BY FailsOne
<1>4. SqInv' BY DEF IInv, SqInv
<1>5. \A t, k : Sent(t, k)' = Sent(t, k) BY DEF Sent
<1>6. Aside(s)
  <2> SUFFICES ASSUME NEW t \in Slots, t # s
               PROVE  /\ \A k : Sent(t, k)' = Sent(t, k) /\ Back(t, k)' = Back(t, k)
                      /\ Fails(Unread(cq'), t) <=> Fails(Unread(cq), t)
                      /\ kern'[t] = kern[t] /\ fd'[t] = fd[t]
                      /\ EntriesAt(t)'
    BY DEF Aside
  <2>1. \A k : Back(t, k)' = Back(t, k)
    <3> TAKE k
    <3>1. Count(<<e>>, t, k) = 0 BY <1>2
    <3>2. Back(t, k) \in Nat BY BackNat DEF IInv
    <3> QED BY <1>1, <3>1, <3>2
  <2>2. Fails(Unread(cq'), t) <=> Fails(Unread(cq), t) BY <1>1, <1>3
  <2>3. kern'[t] = kern[t] OBVIOUS
  <2>4. EntriesAt(t) BY DEF IInv
  <2>5. EntriesAt(t)' BY <2>3, <2>4 DEF EntriesAt, Matches
  <2> QED BY <1>5, <2>1, <2>2, <2>3, <2>5
<1>7. \A k : Back(s, k)' = Back(s, k) + (IF e.k = k THEN 1 ELSE 0) BY <1>1, <1>2
<1>8. Fails(Unread(cq'), s) <=> Fails(Unread(cq), s) \/ (e.k = "tuning" /\ e.out = "fail")
  BY <1>1, <1>3
<1> QED BY <1>1, <1>4, <1>5, <1>6, <1>7, <1>8

(* A slot with something outstanding has a chain, whose CONNECT is not     *)
(* due.                                                                    *)
LEMMA BusySlot ==
  ASSUME IInv, NEW s \in Slots, NEW d, ListInv(d),
         \/ Sent(s, "opt") > 0 \/ Sent(s, "con") > 0 \/ kern[s].opt > 0 \/ kern[s].con # "none"
         \/ Back(s, "tuning") > 0
  PROVE  tune[s].live /\ s \notin ToSet(d) /\ Outstanding(s) \in Nat /\ Outstanding(s) > 0
<1> DEFINE a == Sent(s, "opt")
           b == Sent(s, "con")
           c == Back(s, "tuning")
           o == kern[s].opt
           w == IF kern[s].con = "none" THEN 0 ELSE 1
<1>1. a \in Nat /\ b \in Nat /\ c \in Nat /\ o \in Nat /\ w \in Nat BY SlotTypes
<1>2. Outstanding(s) = a + b + (o + w) + c BY DEF Outstanding, Held
<1>3. a > 0 \/ b > 0 \/ o > 0 \/ w > 0 \/ c > 0 OBVIOUS
<1> HIDE DEF a, b, c, o, w
<1>4. Outstanding(s) \in Nat /\ Outstanding(s) > 0 BY <1>1, <1>2, <1>3
<1>5. ChainAt(s, s \in ToSet(d)) BY DEF ListInv
<1> QED BY <1>4, <1>5 DEF ChainAt, ChainOK

LEMMA OutcomeType == \A out \in Outcomes : out \in {"ok", "fail", "cancel"}
BY EngineAssumption

LEMMA KernelOptionStep ==
  ASSUME IInv, NEW s \in Slots, NEW out \in Outcomes, KernelOption(s, out)
  PROVE  IInv'
<1> DEFINE e == [k |-> "tuning", s |-> s, out |-> out]
           x == tune[s]
<1>1. PICK d \in Seq(Slots) : ListInv(d) BY DEF IInv
<1>2. /\ x \in Tunings /\ kern[s] \in Kerns /\ kern[s].opt \in Nat /\ OwnerAt(s) /\ EntriesAt(s)
      /\ \A k : Sent(s, k) \in Nat /\ Back(s, k) \in Nat
  BY SlotTypes
<1>3. /\ kern[s].opt > 0 /\ cq' = Post(cq, e)
      /\ kern' = [kern EXCEPT ![s].opt = @ - 1, ![s].bad = @ \/ out = "fail"]
      /\ UNCHANGED <<sq, tune, ready, fd, front, turn, grant, lied>>
  BY DEF KernelOption
<1>4. e \in Replies /\ e.s = s /\ e.k = "tuning" /\ e.out = out BY OutcomeType DEF Replies
<1> HIDE DEF e
<1>5. /\ kern' \in [Slots -> Kerns] /\ \A t \in Slots : t # s => kern'[t] = kern[t]
      /\ kern'[s].opt = kern[s].opt - 1 /\ kern'[s].con = kern[s].con
      /\ kern'[s].bad = (kern[s].bad \/ out = "fail") /\ kern'[s].c = kern[s].c
  <2>1. kern \in [Slots -> Kerns] BY DEF IInv, TypeInv
  <2>2. kern' = [kern EXCEPT ![s].opt = @ - 1, ![s].bad = @ \/ out = "fail"] BY <1>3
  <2>3. /\ \A t \in Slots : t # s => kern'[t] = kern[t]
        /\ kern'[s].opt = kern[s].opt - 1 /\ kern'[s].con = kern[s].con
        /\ kern'[s].bad = (kern[s].bad \/ out = "fail") /\ kern'[s].c = kern[s].c
    BY <2>1, <2>2 DEF Kerns
  <2>4. kern'[s] \in [opt : {kern[s].opt - 1}, con : {kern[s].con}, bad : {kern[s].bad \/ out = "fail"}, c : {kern[s].c}]
    BY <2>1, <2>2 DEF Kerns
  <2>5. kern[s].opt - 1 \in Nat BY <1>2, <1>3
  <2>6. kern'[s] \in Kerns BY <1>2, <2>4, <2>5 DEF Kerns
  <2>7. DOMAIN kern' = Slots /\ kern' = [t \in Slots |-> kern'[t]] BY <2>1, <2>2
  <2>8. \A t \in Slots : kern'[t] \in Kerns BY <2>1, <2>3, <2>6
  <2> QED BY <2>3, <2>7, <2>8
<1>6. /\ Aside(s) /\ CqInv' /\ SqInv' /\ \A k : Sent(s, k)' = Sent(s, k)
      /\ \A k : Back(s, k)' = Back(s, k) + (IF e.k = k THEN 1 ELSE 0)
      /\ Fails(Unread(cq'), s) <=> Fails(Unread(cq), s) \/ (e.k = "tuning" /\ e.out = "fail")
  BY <1>3, <1>4, <1>5, PostAside
<1>7. TypeInv' BY <1>3, <1>5 DEF IInv, TypeInv
<1>8. GrantInv' BY <1>3 DEF IInv, GrantInv
<1>9. IsDue(d)'
  <2>1. \A t \in Slots : tune'[t].next = tune[t].next BY <1>3
  <2>2. IsDue(d) BY <1>1 DEF ListInv
  <2> QED BY <1>3, <2>1, <2>2, DueFrame
<1>10. Back(s, "tuning")' = Back(s, "tuning") + 1 /\ Back(s, "closed")' = Back(s, "closed")
  BY <1>2, <1>4, <1>6
<1>11. OwnerAt(s)'
  BY <1>2, <1>3, <1>6, <1>10 DEF OwnerAt, OwnerOK
<1>12. EntriesAt(s)'
  <2>1. Matches(s) BY <1>3 DEF Matches
  <2>2. EntriesOK(Unsent(sq), s, kern[s].c, TRUE) BY <1>2, <2>1 DEF EntriesAt, EntriesOK
  <2> QED BY <1>3, <1>5, <2>2 DEF EntriesAt, EntriesOK
<1>13. ChainAt(s, s \in ToSet(d))'
  <2>1. Outstanding(s)' = Outstanding(s)
    <3> DEFINE w == IF kern[s].con = "none" THEN 0 ELSE 1
    <3>1. Held(s) = kern[s].opt + w /\ Held(s)' = (kern[s].opt - 1) + w /\ w \in Nat BY <1>5 DEF Held
    <3> HIDE DEF w
    <3>2. Sent(s, "opt")' = Sent(s, "opt") /\ Sent(s, "con")' = Sent(s, "con") BY <1>6
    <3>3. Sent(s, "opt") \in Nat /\ Sent(s, "con") \in Nat /\ Back(s, "tuning") \in Nat BY <1>2
    <3>4. Back(s, "tuning")' = Back(s, "tuning") + 1 BY <1>10
    <3> DEFINE a == Sent(s, "opt")
               b == Sent(s, "con")
               c == Back(s, "tuning")
               o == kern[s].opt
    <3>5. Outstanding(s)' = a + b + ((o - 1) + w) + (c + 1) BY <3>1, <3>2, <3>4 DEF Outstanding
    <3>6. Outstanding(s) = a + b + (o + w) + c BY <3>1 DEF Outstanding
    <3>7. a \in Nat /\ b \in Nat /\ c \in Nat /\ o \in Nat BY <1>2, <3>3
    <3> HIDE DEF a, b, c, o
    <3>8. a + b + ((o - 1) + w) + (c + 1) = a + b + (o + w) + c BY <3>1, <3>7
    <3> QED BY <3>5, <3>6, <3>8
  <2>2. ChainAt(s, s \in ToSet(d)) BY <1>1 DEF ListInv
  <2>3. x.live /\ s \notin ToSet(d) BY <1>1, <1>3, BusySlot
  <2>4. x.phase # "Idle"
    <3>1. Sent(s, "opt") + kern[s].opt # 0 BY <1>2, <1>3
    <3> QED BY <2>2, <2>3, <3>1 DEF ChainAt, ChainOK
  <2>5. tune'[s] = x /\ Sent(s, "con")' = Sent(s, "con") BY <1>3, <1>6
  <2>6. /\ Outstanding(s) = x.count /\ Sent(s, "con") = 0 /\ kern[s].con = "none" /\ x.next = None
        /\ (kern[s].bad <=> x.error = "fail" \/ Fails(Unread(cq), s))
    BY <2>2, <2>3, <2>4 DEF ChainAt, ChainOK
  <2>7. kern'[s].bad <=> x.error = "fail" \/ Fails(Unread(cq'), s)
    BY <1>4, <1>5, <1>6, <2>6
  <2> QED BY <1>5, <2>1, <2>3, <2>4, <2>5, <2>6, <2>7 DEF ChainAt, ChainOK
<1>14. \A t \in Slots \ {s} :
           /\ tune'[t].live = tune[t].live /\ tune'[t].phase = tune[t].phase
           /\ tune'[t].count = tune[t].count /\ tune'[t].error = tune[t].error
           /\ t \in ToSet(d) <=> t \in ToSet(d)
           /\ t \notin ToSet(d) => tune'[t].next = tune[t].next
  BY <1>3
<1>15. front' = front BY <1>3
<1> QED BY <1>1, <1>6, <1>7, <1>8, <1>9, <1>11, <1>12, <1>13, <1>14, <1>15, SlotStep

LEMMA KernelConnectStep ==
  ASSUME IInv, NEW s \in Slots, NEW out \in Outcomes, KernelConnect(s, out)
  PROVE  IInv'
<1> DEFINE e == [k |-> "tuning", s |-> s, out |-> out]
           x == tune[s]
<1>1. PICK d \in Seq(Slots) : ListInv(d) BY DEF IInv
<1>2. /\ x \in Tunings /\ kern[s] \in Kerns /\ kern[s].opt \in Nat /\ OwnerAt(s) /\ EntriesAt(s)
      /\ \A k : Sent(s, k) \in Nat /\ Back(s, k) \in Nat
  BY SlotTypes
<1>3. /\ kern[s].con # "none" /\ cq' = Post(cq, e)
      /\ kern' = [kern EXCEPT ![s].con = "none"]
      /\ UNCHANGED <<sq, tune, ready, fd, front, turn, grant, lied>>
  BY DEF KernelConnect
<1>4. e \in Replies /\ e.s = s /\ e.k = "tuning" /\ e.out = out BY OutcomeType DEF Replies
<1> HIDE DEF e
<1>5. /\ kern' \in [Slots -> Kerns] /\ \A t \in Slots : t # s => kern'[t] = kern[t]
      /\ kern'[s].opt = kern[s].opt /\ kern'[s].con = "none"
      /\ kern'[s].bad = kern[s].bad /\ kern'[s].c = kern[s].c
  <2>1. kern \in [Slots -> Kerns] BY DEF IInv, TypeInv
  <2>2. kern' = [kern EXCEPT ![s].con = "none"] BY <1>3
  <2> QED BY <2>1, <2>2 DEF Kerns
<1>6. /\ Aside(s) /\ CqInv' /\ SqInv' /\ \A k : Sent(s, k)' = Sent(s, k)
      /\ \A k : Back(s, k)' = Back(s, k) + (IF e.k = k THEN 1 ELSE 0)
      /\ Fails(Unread(cq'), s) <=> Fails(Unread(cq), s) \/ (e.k = "tuning" /\ e.out = "fail")
  BY <1>3, <1>4, <1>5, PostAside
<1>7. TypeInv' BY <1>3, <1>5 DEF IInv, TypeInv
<1>8. GrantInv' BY <1>3 DEF IInv, GrantInv
<1>9. IsDue(d)'
  <2>1. \A t \in Slots : tune'[t].next = tune[t].next BY <1>3
  <2>2. IsDue(d) BY <1>1 DEF ListInv
  <2> QED BY <1>3, <2>1, <2>2, DueFrame
<1>10. Back(s, "tuning")' = Back(s, "tuning") + 1 /\ Back(s, "closed")' = Back(s, "closed")
  BY <1>2, <1>4, <1>6
<1>11. OwnerAt(s)'
  BY <1>2, <1>3, <1>6, <1>10 DEF OwnerAt, OwnerOK
<1>12. EntriesAt(s)'
  <2>1. Matches(s) BY <1>3 DEF Matches
  <2>2. EntriesOK(Unsent(sq), s, kern[s].c, TRUE) BY <1>2, <2>1 DEF EntriesAt, EntriesOK
  <2> QED BY <1>3, <1>5, <2>2 DEF EntriesAt, EntriesOK
<1>13. ChainAt(s, s \in ToSet(d))'
  <2>1. Outstanding(s)' = Outstanding(s)
    <3>1. Held(s) = kern[s].opt + 1 /\ Held(s)' = (kern[s].opt - 1) + 1 BY <1>2, <1>3, <1>5 DEF Held
    <3>2. Sent(s, "opt")' = Sent(s, "opt") /\ Sent(s, "con")' = Sent(s, "con") BY <1>6
    <3>3. Sent(s, "opt") \in Nat /\ Sent(s, "con") \in Nat /\ Back(s, "tuning") \in Nat BY <1>2
    <3>4. Back(s, "tuning")' = Back(s, "tuning") + 1 BY <1>10
    <3> DEFINE a == Sent(s, "opt")
               b == Sent(s, "con")
               c == Back(s, "tuning")
               o == kern[s].opt
    <3>5. Outstanding(s)' = a + b + ((o - 1) + 1) + (c + 1) BY <3>1, <3>2, <3>4 DEF Outstanding
    <3>6. Outstanding(s) = a + b + (o + 1) + c BY <3>1 DEF Outstanding
    <3>7. a \in Nat /\ b \in Nat /\ c \in Nat /\ o \in Nat BY <1>2, <3>3
    <3> HIDE DEF a, b, c, o
    <3>8. a + b + ((o - 1) + 1) + (c + 1) = a + b + (o + 1) + c BY <3>7
    <3> QED BY <3>5, <3>6, <3>8
  <2>2. ChainAt(s, s \in ToSet(d)) BY <1>1 DEF ListInv
  <2>3. x.live /\ s \notin ToSet(d) BY <1>1, <1>3, BusySlot
  <2>4. x.phase = "Idle" BY <1>3, <2>2, <2>3 DEF ChainAt, ChainOK
  <2>5. tune'[s] = x /\ Sent(s, "opt")' = Sent(s, "opt") BY <1>3, <1>6
  <2> QED BY <1>5, <2>1, <2>2, <2>3, <2>4, <2>5 DEF ChainAt, ChainOK
<1>14. \A t \in Slots \ {s} :
           /\ tune'[t].live = tune[t].live /\ tune'[t].phase = tune[t].phase
           /\ tune'[t].count = tune[t].count /\ tune'[t].error = tune[t].error
           /\ t \in ToSet(d) <=> t \in ToSet(d)
           /\ t \notin ToSet(d) => tune'[t].next = tune[t].next
  BY <1>3
<1>15. front' = front BY <1>3
<1> QED BY <1>1, <1>6, <1>7, <1>8, <1>9, <1>11, <1>12, <1>13, <1>14, <1>15, SlotStep

(* The kernel takes the entry e; a request of slot s only moves from the   *)
(* ring to the kernel, or from the ring to its completion.                 *)
LEMMA TakeStep ==
  ASSUME IInv, NEW e, e = FrontSq(sq), Sub(sq.ktail, sq.khead) > 0, sq' = TakeSq(sq),
         NEW s \in Slots, e.s = s, TypeInv', CqInv', GrantInv',
         UNCHANGED <<tune, ready, fd, front, lied>>,
         \A t \in Slots \ {s} : kern'[t] = kern[t],
         kern'[s].c = kern[s].c, kern'[s].bad = kern[s].bad,
         Matches(s)' => Matches(s) \/ e.k \in {"opt", "con"},
         \A t \in Slots \ {s} : \A k : Back(t, k)' = Back(t, k),
         \A t \in Slots : Fails(Unread(cq'), t) <=> Fails(Unread(cq), t),
         Outstanding(s)' = Outstanding(s),
         Sent(s, "opt")' + kern'[s].opt = Sent(s, "opt") + kern[s].opt,
         Sent(s, "con") = 0 /\ kern[s].con = "none" => Sent(s, "con")' = 0 /\ kern'[s].con = "none",
         Sent(s, "close")' + Back(s, "closed")' = Sent(s, "close") + Back(s, "closed")
  PROVE  IInv'
<1>1. PICK d \in Seq(Slots) : ListInv(d) BY DEF IInv
<1>2. /\ SqInv' /\ e \in Requests /\ Unsent(sq) = <<e>> \o Unsent(sq')
      /\ \A t, k : Sent(t, k) = Count(<<e>>, t, k) + Sent(t, k)'
  BY TakenSq DEF IInv
<1>3. \A t \in Slots : EntriesAt(t)'
  <2> TAKE t \in Slots
  <2> DEFINE v == Unsent(sq')
             c == kern[t].c
  <2>1. v \in Seq(Requests) BY <1>2 DEF SqInv
  <2>2. EntriesOK(<<e>> \o v, t, c, Matches(t)) BY <1>2 DEF IInv, EntriesAt
  <2>3. Matches(t)' => Matches(t) \/ (e.k \in {"opt", "con"} /\ e.s = t)
    <3>1. CASE t = s BY <3>1
    <3>2. CASE t # s BY <3>2 DEF Matches
    <3> QED BY <3>1, <3>2
  <2>4. kern'[t].c = c
    <3>1. CASE t = s BY <3>1
    <3>2. CASE t # s BY <3>2
    <3> QED BY <3>1, <3>2
  <2> HIDE DEF c, v
  <2>5. EntriesOK(v, t, c, Matches(t)') BY <1>2, <2>1, <2>2, <2>3, EntriesTake
  <2> QED BY <2>4, <2>5 DEF EntriesAt, v
<1>4. \A t \in Slots \ {s} : \A k : Sent(t, k)' = Sent(t, k)
  <2> SUFFICES ASSUME NEW t \in Slots, t # s, NEW k PROVE Sent(t, k)' = Sent(t, k)
    OBVIOUS
  <2>1. Count(<<e>>, t, k) = 0 BY CountOne
  <2>2. Sent(t, k) = Count(<<e>>, t, k) + Sent(t, k)' BY <1>2
  <2>3. Sent(t, k)' \in Nat
    <3>1. SqInv' => Sent(t, k)' \in Nat
      <4>1. Sent(t, k)' = Count(Unsent(sq'), t, k) BY DEF Sent, Count, Places
      <4>2. SqInv' => Unsent(sq') \in Seq(Requests) BY DEF SqInv
      <4> QED BY <4>1, <4>2, PlacesFinite
    <3> QED BY <1>2, <3>1
  <2> QED BY <2>1, <2>2, <2>3
<1>5. Aside(s)
  <2> SUFFICES ASSUME NEW t \in Slots, t # s
               PROVE  /\ \A k : Sent(t, k)' = Sent(t, k) /\ Back(t, k)' = Back(t, k)
                      /\ Fails(Unread(cq'), t) <=> Fails(Unread(cq), t)
                      /\ kern'[t] = kern[t] /\ fd'[t] = fd[t]
                      /\ EntriesAt(t)'
    BY DEF Aside
  <2> QED BY <1>3, <1>4
<1>6. IsDue(d)'
  <2>1. \A t \in Slots : tune'[t].next = tune[t].next OBVIOUS
  <2>2. IsDue(d) BY <1>1 DEF ListInv
  <2> QED BY <2>1, <2>2, DueFrame
<1>7. OwnerAt(s)'
  <2>1. OwnerAt(s) BY DEF IInv
  <2> QED BY <2>1 DEF OwnerAt, OwnerOK
<1>8. ChainAt(s, s \in ToSet(d))'
  <2>1. ChainAt(s, s \in ToSet(d)) BY <1>1 DEF ListInv
  <2>2. tune'[s] = tune[s] /\ (Fails(Unread(cq'), s) <=> Fails(Unread(cq), s)) OBVIOUS
  <2> QED BY <2>1, <2>2 DEF ChainAt, ChainOK
<1>9. \A t \in Slots \ {s} :
           /\ tune'[t].live = tune[t].live /\ tune'[t].phase = tune[t].phase
           /\ tune'[t].count = tune[t].count /\ tune'[t].error = tune[t].error
           /\ t \in ToSet(d) <=> t \in ToSet(d)
           /\ t \notin ToSet(d) => tune'[t].next = tune[t].next
  OBVIOUS
<1>10. EntriesAt(s)' BY <1>3
<1> QED BY <1>1, <1>2, <1>5, <1>6, <1>7, <1>8, <1>9, <1>10, SlotStep

LEMMA NoticePosted ==
  ASSUME IInv, NEW s \in Slots, NEW r \in Replies, r.s = s, r.k # "tuning", cq' = Post(cq, r)
  PROVE  /\ CqInv' /\ \A t \in Slots \ {s} : \A k : Back(t, k)' = Back(t, k)
         /\ \A t \in Slots : Fails(Unread(cq'), t) <=> Fails(Unread(cq), t)
         /\ \A k : Back(s, k)' = Back(s, k) + (IF r.k = k THEN 1 ELSE 0)
<1>1. /\ CqInv'
      /\ \A t, k : Back(t, k)' = Back(t, k) + Count(<<r>>, t, k)
      /\ \A t : Fails(Unread(cq'), t) <=> Fails(Unread(cq), t) \/ Fails(<<r>>, t)
  BY PostedCq DEF IInv
<1>2. \A t, k : Count(<<r>>, t, k) = IF r.k = k /\ r.s = t THEN 1 ELSE 0 BY CountOne
<1>3. \A t : ~Fails(<<r>>, t) BY FailsOne
<1>4. \A t \in Slots \ {s} : \A k : Back(t, k)' = Back(t, k)
  <2> SUFFICES ASSUME NEW t \in Slots, t # s, NEW k PROVE Back(t, k)' = Back(t, k)
    OBVIOUS
  <2>1. Count(<<r>>, t, k) = 0 BY <1>2
  <2>2. Back(t, k) \in Nat BY BackNat DEF IInv
  <2> QED BY <1>1, <2>1, <2>2
<1>5. \A k : Back(s, k)' = Back(s, k) + (IF r.k = k THEN 1 ELSE 0) BY <1>1, <1>2
<1> QED BY <1>1, <1>3, <1>4, <1>5

LEMMA KernelTakeStep == IInv /\ KernelTake => IInv'
<1> SUFFICES ASSUME IInv, KernelTake PROVE IInv'
  OBVIOUS
<1>1. /\ turn \in {"commit", "wait"} /\ grant > 0 /\ grant' = grant - 1 /\ sq' = TakeSq(sq)
      /\ UNCHANGED <<tune, ready, fd, front, turn, lied>>
  BY DEF KernelTake
<1>3. Sub(sq.ktail, sq.khead) > 0 /\ Sub(sq.ktail, sq.khead) \in Nat
  <2> DEFINE n == Sub(sq.ktail, sq.khead)
  <2>1. n \in Cursors BY SubCases DEF IInv, SqInv, SqRings
  <2>2. grant <= n /\ grant \in Nat BY <1>1, SqSize DEF IInv, GrantInv, TypeInv
  <2> HIDE DEF n
  <2>3. n > 0 /\ n \in Nat BY <1>1, <2>1, <2>2 DEF Cursors
  <2> QED BY <2>3 DEF n
<1>4. /\ SqInv' /\ FrontSq(sq) \in Requests /\ Sub(sq'.ktail, sq'.khead) = Sub(sq.ktail, sq.khead) - 1
      /\ \A t, k : Sent(t, k) = Count(<<FrontSq(sq)>>, t, k) + Sent(t, k)'
  BY <1>1, <1>3, TakenSq DEF IInv
<1>5. GrantInv'
  <2> DEFINE n == Sub(sq.ktail, sq.khead)
  <2>1. grant <= n /\ grant \in Nat /\ n \in Nat BY <1>1, <1>3, SqSize DEF IInv, GrantInv, TypeInv
  <2>2. Sub(sq'.ktail, sq'.khead) = n - 1 BY <1>4
  <2> HIDE DEF n
  <2>3. grant - 1 <= n - 1 BY <2>1
  <2> QED BY <1>1, <2>2, <2>3 DEF GrantInv
<1>6. grant' \in 0 .. SqEntries BY <1>1, SqSize DEF IInv, TypeInv
<1>7. PICK e \in Requests : e = FrontSq(sq) BY <1>4
<1>8. PICK s \in Slots : e.s = s BY DEF Requests
<1> DEFINE kn == kern[s]
<1>2. \/ e.k = "opt" /\ kern' = [kern EXCEPT ![s].opt = @ + 1] /\ UNCHANGED cq
      \/ e.k = "con" /\ kern' = [kern EXCEPT ![s].con = "wait"] /\ UNCHANGED cq
      \/ /\ e.k = "cancel" /\ Matches(s)
         /\ kern' = [kern EXCEPT ![s].con = IF @ = "wait" THEN "doomed" ELSE @]
         /\ cq' \in {cq, Post(cq, [k |-> "reply", s |-> s])}
      \/ /\ e.k = "cancel" /\ ~Matches(s)
         /\ cq' = Post(cq, [k |-> "reply", s |-> s])
         /\ UNCHANGED kern
      \/ e.k = "shutdown" /\ UNCHANGED <<kern, cq>>
      \/ e.k = "close" /\ cq' = Post(cq, [k |-> "closed", s |-> s]) /\ UNCHANGED kern
  BY <1>7, <1>8 DEF KernelTake
<1>9. \A k : Sent(s, k) = (IF e.k = k THEN 1 ELSE 0) + Sent(s, k)' BY <1>4, <1>7, <1>8, CountOne
<1>10. \A k : Sent(s, k)' \in Nat
  <2> TAKE k
  <2>1. Sent(s, k)' = Count(Unsent(sq'), s, k) BY DEF Sent, Count, Places
  <2>2. Unsent(sq') \in Seq(Requests) BY <1>4 DEF SqInv
  <2> QED BY <2>1, <2>2, PlacesFinite
<1>12. kn \in Kerns /\ kn.opt \in Nat /\ (\A k : Back(s, k) \in Nat) /\ (\A k : Sent(s, k) \in Nat) BY SlotTypes
<1>13. kern \in [Slots -> Kerns] BY DEF IInv, TypeInv
<1>14. \A k : e.k # k => Sent(s, k)' = Sent(s, k) BY <1>9, <1>10
<1>15. kern' \in [Slots -> Kerns] => TypeInv' BY <1>1, <1>6 DEF IInv, TypeInv
<1>16. cq' = cq => /\ CqInv' /\ \A t \in Slots : \A k : Back(t, k)' = Back(t, k)
                   /\ \A t \in Slots : Fails(Unread(cq'), t) <=> Fails(Unread(cq), t)
  BY DEF IInv, CqInv, Back
<1>17. CASE e.k = "opt" /\ kern' = [kern EXCEPT ![s].opt = @ + 1] /\ UNCHANGED cq
  <2>1. /\ kern' \in [Slots -> Kerns] /\ \A t \in Slots \ {s} : kern'[t] = kern[t]
        /\ kern'[s].opt = kn.opt + 1 /\ kern'[s].con = kn.con /\ kern'[s].bad = kn.bad /\ kern'[s].c = kn.c
    BY <1>7, <1>13, <1>17 DEF Kerns
  <2>2. Sent(s, "con")' = Sent(s, "con") /\ Sent(s, "close")' = Sent(s, "close") BY <1>14, <1>17
  <2>3. Back(s, "tuning")' = Back(s, "tuning") /\ Back(s, "closed")' = Back(s, "closed") BY <1>7, <1>16, <1>17
  <2>4. Sent(s, "opt") = 1 + Sent(s, "opt")' /\ Sent(s, "opt")' \in Nat BY <1>9, <1>10, <1>17
  <2> DEFINE a == Sent(s, "opt")'
             b == Sent(s, "con")
             c == Back(s, "tuning")
             o == kn.opt
             w == IF kn.con = "none" THEN 0 ELSE 1
  <2>5. a \in Nat /\ b \in Nat /\ c \in Nat /\ o \in Nat /\ w \in Nat BY <1>12, <2>4
  <2>6. Sent(s, "opt") = 1 + a /\ kern'[s].opt = o + 1 /\ kern[s].opt = o BY <2>1, <2>4
  <2>7. Outstanding(s) = (1 + a) + b + (o + w) + c BY <2>4 DEF Outstanding, Held
  <2>8. Outstanding(s)' = a + b + ((o + 1) + w) + c BY <2>1, <2>2, <2>3 DEF Outstanding, Held
  <2>9. Sent(s, "opt")' + kern'[s].opt = a + (o + 1) /\ Sent(s, "opt") + kern[s].opt = (1 + a) + o
    BY <2>1, <2>4
  <2> HIDE DEF a, b, c, o, w
  <2>10. (1 + a) + b + (o + w) + c = a + b + ((o + 1) + w) + c /\ a + (o + 1) = (1 + a) + o BY <2>5
  <2>11. Outstanding(s)' = Outstanding(s) /\ Sent(s, "opt")' + kern'[s].opt = Sent(s, "opt") + kern[s].opt
    BY <2>7, <2>8, <2>9, <2>10
  <2>12. kern'[s].c = kern[s].c /\ kern'[s].bad = kern[s].bad /\ kern'[s].con = kern[s].con BY <2>1
  <2>13. TypeInv' BY <1>15, <2>1
  <2>14. /\ CqInv' /\ \A t \in Slots \ {s} : \A k : Back(t, k)' = Back(t, k)
         /\ \A t \in Slots : Fails(Unread(cq'), t) <=> Fails(Unread(cq), t)
    BY <1>16, <1>17
  <2> HIDE DEF kn
  <2> QED BY <1>1, <1>3, <1>5, <1>7, <1>8, <1>17, <2>1, <2>2, <2>3, <2>11, <2>12, <2>13, <2>14, TakeStep
<1>18. CASE e.k = "con" /\ kern' = [kern EXCEPT ![s].con = "wait"] /\ UNCHANGED cq
  <2>1. /\ kern' \in [Slots -> Kerns] /\ \A t \in Slots \ {s} : kern'[t] = kern[t]
        /\ kern'[s].opt = kn.opt /\ kern'[s].con = "wait" /\ kern'[s].bad = kn.bad /\ kern'[s].c = kn.c
    BY <1>7, <1>13, <1>18 DEF Kerns
  <2>2. Sent(s, "opt")' = Sent(s, "opt") /\ Sent(s, "close")' = Sent(s, "close") BY <1>14, <1>18
  <2>3. Back(s, "tuning")' = Back(s, "tuning") /\ Back(s, "closed")' = Back(s, "closed") BY <1>7, <1>16, <1>18
  <2>4. Sent(s, "con") = 1 + Sent(s, "con")' /\ Sent(s, "con")' \in Nat BY <1>9, <1>10, <1>18
  <2>5. Sent(s, "con") > 0 BY <2>4
  <2> DEFINE a == Sent(s, "con")'
             b == Sent(s, "opt")
             c == Back(s, "tuning")
             o == kn.opt
             w == IF kn.con = "none" THEN 0 ELSE 1
  <2>6. a \in Nat /\ b \in Nat /\ c \in Nat /\ o \in Nat /\ w \in Nat BY <1>12, <2>4
  <2>7. Outstanding(s) = b + (1 + a) + (o + w) + c BY <2>4 DEF Outstanding, Held
  <2>8. Outstanding(s)' = b + a + (o + 1) + c BY <2>1, <2>2, <2>3 DEF Outstanding, Held
  <2>9. Outstanding(s) = 1
    <3>1. PICK d \in Seq(Slots) : ListInv(d) BY DEF IInv
    <3>2. tune[s].live /\ s \notin ToSet(d) BY <1>7, <2>5, <3>1, BusySlot
    <3>3. ChainAt(s, s \in ToSet(d)) BY <1>7, <3>1 DEF ListInv
    <3>4. Sent(s, "con") # 0 BY <2>4
    <3> QED BY <3>2, <3>3, <3>4 DEF ChainAt, ChainOK
  <2>10. w = 0 => kn.con = "none" OBVIOUS
  <2> HIDE DEF a, b, c, o, w
  <2>11. w = 0 /\ b + (1 + a) + (o + w) + c = b + a + (o + 1) + c BY <2>6, <2>7, <2>9
  <2>12. Outstanding(s)' = Outstanding(s) BY <2>7, <2>8, <2>11
  <2>13. kern'[s].c = kern[s].c /\ kern'[s].bad = kern[s].bad /\ kern'[s].opt = kern[s].opt BY <2>1
  <2>14. TypeInv' BY <1>15, <2>1
  <2>15. /\ CqInv' /\ \A t \in Slots \ {s} : \A k : Back(t, k)' = Back(t, k)
         /\ \A t \in Slots : Fails(Unread(cq'), t) <=> Fails(Unread(cq), t)
    BY <1>16, <1>18
  <2>16. Sent(s, "con") # 0 BY <2>4
  <2> HIDE DEF kn
  <2> QED BY <1>1, <1>3, <1>5, <1>7, <1>8, <1>18, <2>1, <2>2, <2>3, <2>12, <2>13, <2>14, <2>15, <2>16, TakeStep

<1>19. ASSUME kern' \in [Slots -> Kerns], \A t \in Slots \ {s} : kern'[t] = kern[t],
              kern'[s].opt = kn.opt, kern'[s].bad = kn.bad, kern'[s].c = kn.c,
              kern'[s].con = "none" <=> kn.con = "none",
              e.k \in {"cancel", "shutdown", "close"}, CqInv',
              \A t \in Slots \ {s} : \A k : Back(t, k)' = Back(t, k),
              \A t \in Slots : Fails(Unread(cq'), t) <=> Fails(Unread(cq), t),
              Back(s, "tuning")' = Back(s, "tuning"),
              Sent(s, "close")' + Back(s, "closed")' = Sent(s, "close") + Back(s, "closed")
       PROVE  IInv'
  <2>1. Sent(s, "con")' = Sent(s, "con") /\ Sent(s, "opt")' = Sent(s, "opt") BY <1>14, <1>19
  <2>2. Held(s)' = Held(s) BY <1>19 DEF Held
  <2>3. Outstanding(s)' = Outstanding(s) BY <1>19, <2>1, <2>2 DEF Outstanding
  <2>4. Matches(s)' => Matches(s) BY <1>19 DEF Matches
  <2>5. TypeInv' BY <1>15, <1>19
  <2>6. kern'[s].c = kern[s].c /\ kern'[s].bad = kern[s].bad /\ kern'[s].opt = kern[s].opt BY <1>19
  <2>7. kern[s].con = "none" => kern'[s].con = "none" BY <1>19
  <2> HIDE DEF kn
  <2> QED BY <1>1, <1>3, <1>5, <1>7, <1>8, <1>19, <2>1, <2>3, <2>4, <2>5, <2>6, <2>7, TakeStep
<1> DEFINE reply == [k |-> "reply", s |-> s]
           closed == [k |-> "closed", s |-> s]
<1>20. reply \in Replies /\ reply.s = s /\ reply.k = "reply" /\ closed \in Replies /\ closed.s = s /\ closed.k = "closed"
  BY DEF Replies
<1> HIDE DEF reply, closed
<1>21. cq' = Post(cq, reply) =>
         /\ CqInv' /\ \A t \in Slots \ {s} : \A k : Back(t, k)' = Back(t, k)
         /\ \A t \in Slots : Fails(Unread(cq'), t) <=> Fails(Unread(cq), t)
         /\ Back(s, "tuning")' = Back(s, "tuning") /\ Back(s, "closed")' = Back(s, "closed")
  <2> SUFFICES ASSUME cq' = Post(cq, reply)
               PROVE  /\ CqInv' /\ \A t \in Slots \ {s} : \A k : Back(t, k)' = Back(t, k)
                      /\ \A t \in Slots : Fails(Unread(cq'), t) <=> Fails(Unread(cq), t)
                      /\ Back(s, "tuning")' = Back(s, "tuning") /\ Back(s, "closed")' = Back(s, "closed")
    OBVIOUS
  <2>1. /\ CqInv' /\ \A t \in Slots \ {s} : \A k : Back(t, k)' = Back(t, k)
        /\ \A t \in Slots : Fails(Unread(cq'), t) <=> Fails(Unread(cq), t)
        /\ \A k : Back(s, k)' = Back(s, k) + (IF reply.k = k THEN 1 ELSE 0)
    BY <1>20, NoticePosted
  <2>2. Back(s, "tuning")' = Back(s, "tuning") + 0 /\ Back(s, "closed")' = Back(s, "closed") + 0
    BY <1>20, <2>1
  <2> QED BY <1>12, <2>1, <2>2
<1>22. CASE /\ e.k = "cancel" /\ Matches(s)
            /\ kern' = [kern EXCEPT ![s].con = IF @ = "wait" THEN "doomed" ELSE @]
            /\ cq' \in {cq, Post(cq, reply)}
  <2>1. /\ kern' \in [Slots -> Kerns] /\ \A t \in Slots \ {s} : kern'[t] = kern[t]
        /\ kern'[s].opt = kn.opt /\ kern'[s].bad = kn.bad /\ kern'[s].c = kn.c
        /\ kern'[s].con = "none" <=> kn.con = "none"
    BY <1>13, <1>22 DEF Kerns
  <2>2. Sent(s, "close")' = Sent(s, "close") BY <1>14, <1>22
  <2>3. /\ CqInv' /\ \A t \in Slots \ {s} : \A k : Back(t, k)' = Back(t, k)
        /\ \A t \in Slots : Fails(Unread(cq'), t) <=> Fails(Unread(cq), t)
        /\ Back(s, "tuning")' = Back(s, "tuning") /\ Back(s, "closed")' = Back(s, "closed")
    BY <1>16, <1>21, <1>22
  <2> QED BY <1>19, <1>22, <2>1, <2>2, <2>3
<1>23. CASE e.k = "cancel" /\ cq' = Post(cq, reply) /\ UNCHANGED kern
  <2>1. Sent(s, "close")' = Sent(s, "close") BY <1>14, <1>23
  <2> QED BY <1>13, <1>19, <1>21, <1>23, <2>1
<1>24. CASE e.k = "shutdown" /\ UNCHANGED <<kern, cq>>
  <2>1. Sent(s, "close")' = Sent(s, "close") BY <1>14, <1>24
  <2>2. Back(s, "tuning")' = Back(s, "tuning") /\ Back(s, "closed")' = Back(s, "closed") BY <1>16, <1>24
  <2> QED BY <1>13, <1>16, <1>19, <1>24, <2>1, <2>2
<1>25. CASE e.k = "close" /\ cq' = Post(cq, closed) /\ UNCHANGED kern
  <2>1. /\ CqInv' /\ \A t \in Slots \ {s} : \A k : Back(t, k)' = Back(t, k)
        /\ \A t \in Slots : Fails(Unread(cq'), t) <=> Fails(Unread(cq), t)
        /\ \A k : Back(s, k)' = Back(s, k) + (IF closed.k = k THEN 1 ELSE 0)
    BY <1>20, <1>25, NoticePosted
  <2>2. Back(s, "tuning")' = Back(s, "tuning") + 0 /\ Back(s, "closed")' = Back(s, "closed") + 1
    BY <1>20, <2>1
  <2>3. Sent(s, "close") = 1 + Sent(s, "close")' /\ Sent(s, "close")' \in Nat BY <1>9, <1>10, <1>25
  <2>4. Back(s, "tuning")' = Back(s, "tuning") BY <1>12, <2>2
  <2>5. Sent(s, "close")' + Back(s, "closed")' = Sent(s, "close") + Back(s, "closed")
    <3> DEFINE a == Sent(s, "close")'
               b == Back(s, "closed")
    <3>1. a \in Nat /\ b \in Nat BY <1>12, <2>3
    <3>2. Sent(s, "close") = 1 + a /\ Back(s, "closed")' = b + 1 BY <2>2, <2>3
    <3> HIDE DEF a, b
    <3>3. a + (b + 1) = (1 + a) + b BY <3>1
    <3> QED BY <3>2, <3>3 DEF a, b
  <2> QED BY <1>13, <1>19, <1>25, <2>1, <2>4, <2>5
<1> QED BY <1>2, <1>17, <1>18, <1>22, <1>23, <1>24, <1>25 DEF reply, closed

-----------------------------------------------------------------------------
(* The list of due chains.                                                 *)

LEMMA DueFields ==
  ASSUME NEW d \in Seq(Slots), IsDue(d)
  PROVE  /\ Len(d) \in Nat /\ DOMAIN d = 1 .. Len(d) /\ (d = <<>> <=> Len(d) = 0)
         /\ \A i \in 1 .. Len(d) : d[i] \in Slots /\ d[i] \in ToSet(d) /\ d[i] # None
         /\ \A i, j \in 1 .. Len(d) : d[i] = d[j] => i = j
         /\ \A i \in 1 .. Len(d) : tune[d[i]].next = IF i < Len(d) THEN d[i + 1] ELSE None
         /\ \A t : t \in ToSet(d) <=> \E i \in 1 .. Len(d) : d[i] = t
<1>1. Len(d) \in Nat /\ DOMAIN d = 1 .. Len(d) BY LenProperties
<1>2. d = <<>> <=> Len(d) = 0 BY EmptySeq
<1>3. \A i \in 1 .. Len(d) : d[i] \in Slots /\ d[i] \in ToSet(d) /\ d[i] # None
  BY <1>1, ElementOfSeq, SlotAssumption DEF ToSet
<1>4. \A i, j \in 1 .. Len(d) : d[i] = d[j] => i = j BY <1>1 DEF IsDue, IsInjective
<1>5. \A i \in 1 .. Len(d) : tune[d[i]].next = IF i < Len(d) THEN d[i + 1] ELSE None
  BY <1>1 DEF IsDue
<1>6. \A t : t \in ToSet(d) <=> \E i \in 1 .. Len(d) : d[i] = t BY <1>1 DEF ToSet
<1> QED BY <1>1, <1>2, <1>3, <1>4, <1>5, <1>6

(* The first is unlinked.                                                  *)
LEMMA DueRest ==
  ASSUME NEW d \in Seq(Slots), IsDue(d), NEW s, s = ready.head, s # None, ready' = Rest(s),
         \A t \in Slots \ {s} : tune'[t].next = tune[t].next
  PROVE  /\ s \in Slots /\ s \in ToSet(d) /\ Tail(d) \in Seq(Slots) /\ IsDue(Tail(d))'
         /\ \A t : t \in ToSet(Tail(d)) <=> t \in ToSet(d) /\ t # s
         /\ Rest(s) \in [head : Slots \cup {None}, tail : Slots \cup {None}]
<1> DEFINE n == Len(d)
           e == Tail(d)
<1>1. /\ n \in Nat /\ DOMAIN d = 1 .. n /\ (d = <<>> <=> n = 0)
      /\ \A i \in 1 .. n : d[i] \in Slots /\ d[i] \in ToSet(d) /\ d[i] # None
      /\ \A i, j \in 1 .. n : d[i] = d[j] => i = j
      /\ \A i \in 1 .. n : tune[d[i]].next = IF i < n THEN d[i + 1] ELSE None
      /\ \A t : t \in ToSet(d) <=> \E i \in 1 .. n : d[i] = t
  BY DueFields
<1>2. d # <<>> /\ d[1] = s /\ ready.tail = d[n] BY DEF IsDue
<1>3. e \in Seq(Slots) /\ Len(e) = n - 1 /\ \A i \in 1 .. Len(e) : e[i] = d[i + 1]
  BY <1>2, HeadTailProperties
<1>4. DOMAIN e = 1 .. Len(e) /\ (e = <<>> <=> Len(e) = 0) BY <1>3, LenProperties, EmptySeq
<1> HIDE DEF n, e
<1>5. n > 0 /\ 1 \in 1 .. n /\ n \in 1 .. n BY <1>1, <1>2
<1>6. s \in Slots /\ s \in ToSet(d) BY <1>1, <1>2, <1>5
<1>7. DOMAIN e = 1 .. n - 1 /\ \A i \in 1 .. n - 1 : e[i] = d[i + 1] /\ i + 1 \in 1 .. n
  BY <1>1, <1>3, <1>4
<1>8. ready'.head = tune[s].next /\ ready'.tail = (IF tune[s].next = None THEN None ELSE ready.tail)
  BY DEF Rest
<1>9. tune[s].next = IF 1 < n THEN d[1 + 1] ELSE None BY <1>1, <1>2, <1>5
<1>10. IsInjective(e)
  <2> SUFFICES ASSUME NEW i \in 1 .. n - 1, NEW j \in 1 .. n - 1, e[i] = e[j] PROVE i = j
    BY <1>7 DEF IsInjective
  <2> DEFINE a == i + 1
             b == j + 1
  <2>1. a \in 1 .. n /\ b \in 1 .. n /\ d[a] = d[b] BY <1>7
  <2> HIDE DEF a, b
  <2>2. a = b BY <1>1, <2>1
  <2> QED BY <1>1, <2>2 DEF a, b
<1>11. \A i \in 1 .. n - 1 : tune'[e[i]].next = IF i < n - 1 THEN e[i + 1] ELSE None
  <2> SUFFICES ASSUME NEW i \in 1 .. n - 1
               PROVE  tune'[e[i]].next = IF i < n - 1 THEN e[i + 1] ELSE None
    OBVIOUS
  <2> DEFINE j == i + 1
  <2>1. j \in 1 .. n /\ j # 1 /\ (j < n <=> i < n - 1) BY <1>1
  <2>2. e[i] = d[j] /\ d[j] # s /\ d[j] \in Slots BY <1>1, <1>2, <1>5, <1>7, <2>1
  <2>3. tune'[e[i]].next = tune[d[j]].next BY <2>2
  <2>4. tune[d[j]].next = IF j < n THEN d[j + 1] ELSE None BY <1>1, <2>1
  <2>5. i < n - 1 => e[i + 1] = d[j + 1]
    <3> SUFFICES ASSUME i < n - 1 PROVE e[i + 1] = d[j + 1]
      OBVIOUS
    <3>1. i + 1 \in 1 .. n - 1 BY <1>1
    <3> QED BY <1>7, <3>1
  <2> HIDE DEF j
  <2> QED BY <2>1, <2>3, <2>4, <2>5
<1>12. ready'.head = IF e = <<>> THEN None ELSE e[1]
  <2>1. CASE n = 1
    <3>1. e = <<>> BY <1>3, <1>4, <2>1
    <3> QED BY <1>8, <1>9, <2>1, <3>1
  <2>2. CASE n # 1
    <3>1. 1 < n /\ 1 \in 1 .. n - 1 BY <1>1, <1>5, <2>2
    <3>2. e # <<>> BY <1>1, <1>3, <1>4, <2>2
    <3> QED BY <1>7, <1>8, <1>9, <3>1, <3>2
  <2> QED BY <2>1, <2>2
<1>13. ready'.tail = IF e = <<>> THEN None ELSE e[Len(e)]
  <2>1. CASE n = 1
    <3>1. e = <<>> BY <1>3, <1>4, <2>1
    <3> QED BY <1>8, <1>9, <2>1, <3>1
  <2>2. CASE n # 1
    <3>1. 1 < n /\ n - 1 \in 1 .. n - 1 /\ (n - 1) + 1 = n /\ 1 + 1 \in 1 .. n BY <1>1, <1>5, <2>2
    <3>2. e # <<>> BY <1>1, <1>3, <1>4, <2>2
    <3>3. tune[s].next # None BY <1>1, <1>9, <3>1
    <3>4. e[n - 1] = d[n] BY <1>7, <3>1
    <3> QED BY <1>2, <1>3, <1>8, <3>2, <3>3, <3>4
  <2> QED BY <2>1, <2>2
<1>14. IsDue(e)'
  <2>1. \A i \in DOMAIN e : tune'[e[i]].next = IF i < Len(e) THEN e[i + 1] ELSE None
    BY <1>3, <1>7, <1>11
  <2> QED BY <1>10, <1>12, <1>13, <2>1 DEF IsDue
<1>15. \A t : t \in ToSet(e) <=> t \in ToSet(d) /\ t # s
  <2> TAKE t
  <2>1. ASSUME t \in ToSet(e) PROVE t \in ToSet(d) /\ t # s
    <3>1. PICK i \in 1 .. n - 1 : e[i] = t BY <1>7, <2>1 DEF ToSet
    <3>2. i + 1 \in 1 .. n /\ i + 1 # 1 BY <1>1
    <3>3. d[i + 1] = t BY <1>7, <3>1
    <3> QED BY <1>1, <1>2, <1>5, <3>2, <3>3
  <2>2. ASSUME t \in ToSet(d), t # s PROVE t \in ToSet(e)
    <3>1. PICK i \in 1 .. n : d[i] = t BY <1>1, <2>2
    <3>2. i # 1 BY <1>2, <2>2, <3>1
    <3>3. i - 1 \in 1 .. n - 1 /\ (i - 1) + 1 = i BY <1>1, <3>2
    <3>4. e[i - 1] = t BY <1>7, <3>1, <3>3
    <3> QED BY <1>7, <3>3, <3>4 DEF ToSet
  <2> QED BY <2>1, <2>2
<1>16. Rest(s) \in [head : Slots \cup {None}, tail : Slots \cup {None}]
  <2>1. tune[s].next \in Slots \cup {None}
    <3>1. 1 < n => 1 + 1 \in 1 .. n BY <1>1
    <3> QED BY <1>1, <1>9, <3>1
  <2>2. ready.tail \in Slots BY <1>1, <1>2, <1>5
  <2> QED BY <2>1, <2>2 DEF Rest
<1> QED BY <1>3, <1>6, <1>14, <1>15, <1>16 DEF e

(* A chain is linked behind the last.                                      *)
LEMMA DueLinked ==
  ASSUME NEW d \in Seq(Slots), IsDue(d), NEW s \in Slots, s \notin ToSet(d),
         ready' = [head |-> IF ready.tail = None THEN s ELSE ready.head, tail |-> s],
         tune'[s].next = None,
         \A t \in Slots \ {s} : tune'[t].next = IF t = ready.tail THEN s ELSE tune[t].next
  PROVE  /\ Append(d, s) \in Seq(Slots) /\ IsDue(Append(d, s))'
         /\ \A t : t \in ToSet(Append(d, s)) <=> t \in ToSet(d) \/ t = s
         /\ ready.tail # None => ready.tail \in ToSet(d)
<1> DEFINE n == Len(d)
           e == Append(d, s)
<1>1. /\ n \in Nat /\ DOMAIN d = 1 .. n /\ (d = <<>> <=> n = 0)
      /\ \A i \in 1 .. n : d[i] \in Slots /\ d[i] \in ToSet(d) /\ d[i] # None
      /\ \A i, j \in 1 .. n : d[i] = d[j] => i = j
      /\ \A i \in 1 .. n : tune[d[i]].next = IF i < n THEN d[i + 1] ELSE None
      /\ \A t : t \in ToSet(d) <=> \E i \in 1 .. n : d[i] = t
  BY DueFields
<1>2. /\ e \in Seq(Slots) /\ e # <<>> /\ Len(e) = n + 1 /\ \A i \in 1 .. n : e[i] = d[i]
      /\ e[n + 1] = s
  BY AppendProperties
<1>3. DOMAIN e = 1 .. n + 1 BY <1>2, LenProperties
<1>4. /\ ready.head = IF d = <<>> THEN None ELSE d[1]
      /\ ready.tail = IF d = <<>> THEN None ELSE d[n]
  BY DEF IsDue
<1> HIDE DEF n, e
<1>5. \A i \in 1 .. n + 1 : i \in 1 .. n \/ i = n + 1 BY <1>1
<1>6. \A i \in 1 .. n : d[i] # s BY <1>1
<1>7. IsInjective(e)
  <2> SUFFICES ASSUME NEW i \in 1 .. n + 1, NEW j \in 1 .. n + 1, e[i] = e[j] PROVE i = j
    BY <1>3 DEF IsInjective
  <2> QED BY <1>1, <1>2, <1>5, <1>6
<1>8. ready.tail = None <=> n = 0
  <2>1. n # 0 => n \in 1 .. n BY <1>1
  <2> QED BY <1>1, <1>4, <2>1
<1>9. n # 0 => n \in 1 .. n /\ 1 \in 1 .. n BY <1>1
<1>10. ready'.head = e[1] /\ ready'.tail = e[Len(e)]
  <2>1. CASE n = 0
    <3>1. n + 1 = 1 BY <2>1
    <3> QED BY <1>2, <1>8, <2>1, <3>1
  <2>2. CASE n # 0
    <3>1. e[1] = d[1] BY <1>2, <1>9, <2>2
    <3> QED BY <1>1, <1>2, <1>4, <1>8, <2>2, <3>1
  <2> QED BY <2>1, <2>2
<1>11. \A i \in 1 .. n + 1 : tune'[e[i]].next = IF i < n + 1 THEN e[i + 1] ELSE None
  <2> SUFFICES ASSUME NEW i \in 1 .. n + 1
               PROVE  tune'[e[i]].next = IF i < n + 1 THEN e[i + 1] ELSE None
    OBVIOUS
  <2>1. CASE i = n + 1
    <3>1. ~(i < n + 1) BY <1>1, <2>1
    <3> QED BY <1>2, <2>1, <3>1
  <2>2. CASE i # n + 1
    <3>1. i \in 1 .. n /\ i < n + 1 BY <1>1, <2>2
    <3>2. e[i] = d[i] /\ d[i] \in Slots \ {s} BY <1>1, <1>2, <1>6, <3>1
    <3>3. tune'[d[i]].next = IF d[i] = ready.tail THEN s ELSE tune[d[i]].next BY <3>2
    <3>4. CASE i = n
      <4>1. d # <<>> /\ d[i] = ready.tail BY <1>1, <1>4, <3>1, <3>4
      <4>2. e[i + 1] = s BY <1>2, <3>4
      <4> QED BY <3>1, <3>2, <3>3, <4>1, <4>2
    <3>5. CASE i # n
      <4>1. i < n /\ i + 1 \in 1 .. n /\ n \in 1 .. n /\ n # 0 BY <1>1, <3>1, <3>5
      <4>2. d[i] # ready.tail BY <1>1, <1>4, <3>1, <3>5, <4>1
      <4>3. tune[d[i]].next = d[i + 1] BY <1>1, <3>1, <4>1
      <4>4. e[i + 1] = d[i + 1] BY <1>2, <4>1
      <4> QED BY <3>1, <3>2, <3>3, <4>2, <4>3, <4>4
    <3> QED BY <3>4, <3>5
  <2> QED BY <2>1, <2>2
<1>12. IsDue(e)'
  <2>1. \A i \in DOMAIN e : tune'[e[i]].next = IF i < Len(e) THEN e[i + 1] ELSE None
    BY <1>2, <1>3, <1>11
  <2> QED BY <1>2, <1>7, <1>10, <2>1 DEF IsDue
<1>13. \A t : t \in ToSet(e) <=> t \in ToSet(d) \/ t = s
  <2> TAKE t
  <2>1. ASSUME t \in ToSet(e) PROVE t \in ToSet(d) \/ t = s
    <3>1. PICK i \in 1 .. n + 1 : e[i] = t BY <1>3, <2>1 DEF ToSet
    <3> QED BY <1>1, <1>2, <1>5, <3>1
  <2>2. ASSUME t \in ToSet(d) PROVE t \in ToSet(e)
    <3>1. PICK i \in 1 .. n : d[i] = t BY <1>1, <2>2
    <3>2. i \in 1 .. n + 1 BY <1>1
    <3> QED BY <1>2, <1>3, <3>1, <3>2 DEF ToSet
  <2>3. s \in ToSet(e)
    <3>1. n + 1 \in 1 .. n + 1 BY <1>1
    <3> QED BY <1>2, <1>3, <3>1 DEF ToSet
  <2> QED BY <2>1, <2>2, <2>3
<1>14. ready.tail # None => ready.tail \in ToSet(d) BY <1>1, <1>4, <1>8, <1>9
<1> QED BY <1>2, <1>12, <1>13, <1>14 DEF e

-----------------------------------------------------------------------------
(* The dispatch.                                                           *)

(* The chain of slot s ends.                                               *)
LEMMA Ended ==
  ASSUME IInv, NEW s \in Slots, NEW e, tune[s].live, tune'[s] = NoChain, front' = front,
         fd' = [fd EXCEPT ![s] = IF @ \in {"flying", "cancelled"} THEN "idle" ELSE @],
         Outstanding(s)' = 0, Sent(s, "close")' = Sent(s, "close"),
         Back(s, "closed")' = Back(s, "closed"), s \notin ToSet(e)
  PROVE  /\ OwnerAt(s)' /\ ChainAt(s, s \in ToSet(e))'
         /\ fd' \in [Slots -> Owners] /\ \A t \in Slots \ {s} : fd'[t] = fd[t]
<1>1. fd \in [Slots -> Owners] BY DEF IInv, TypeInv
<1>2. /\ fd' \in [Slots -> Owners] /\ \A t \in Slots \ {s} : fd'[t] = fd[t]
      /\ fd'[s] = IF fd[s] \in {"flying", "cancelled"} THEN "idle" ELSE fd[s]
  BY <1>1 DEF Owners
<1>3. OwnerAt(s) BY DEF IInv
<1>4. fd[s] \in {"flying", "cancelled", "retired"} BY <1>1, <1>3 DEF OwnerAt, OwnerOK, Owners
<1>5. ~tune'[s].live /\ tune'[s].next = None BY DEF NoChain
<1>6. OwnerAt(s)' BY <1>2, <1>3, <1>4, <1>5 DEF OwnerAt, OwnerOK
<1>7. ChainAt(s, s \in ToSet(e))' BY <1>5 DEF ChainAt, ChainOK
<1> QED BY <1>2, <1>6, <1>7

LEMMA NoChainType == NoChain \in Tunings
<1>1. 1 \in 1 .. SqEntries BY SqSize
<1> QED BY <1>1 DEF NoChain, Tunings

(* The first chain was cancelled.                                          *)
LEMMA HeadStopped ==
  ASSUME IInv, NEW s, s = ready.head, s # None,
         Terminal(Unlink(tune, s), s, "cancel"), ready' = Rest(s),
         UNCHANGED <<sq, cq, front, turn, grant, kern>>
  PROVE  IInv'
<1>1. PICK d \in Seq(Slots) : ListInv(d) BY DEF IInv
<1> DEFINE e == Tail(d)
           u == Unlink(tune, s)
<1>2. tune' = [u EXCEPT ![s] = NoChain] BY DEF Terminal
<1>3. tune \in [Slots -> Tunings] BY DEF IInv, TypeInv
<1>4. s \in Slots
  <2>1. IsDue(d) BY <1>1 DEF ListInv
  <2>2. Len(d) \in Nat /\ (d = <<>> <=> Len(d) = 0) /\ \A i \in 1 .. Len(d) : d[i] \in Slots
    BY <1>1, <2>1, DueFields
  <2>3. d # <<>> /\ s = d[1] BY <2>1 DEF IsDue
  <2>4. 1 \in 1 .. Len(d) BY <2>2, <2>3
  <2> QED BY <2>2, <2>3, <2>4
<1>5. u = [tune EXCEPT ![s] = [tune[s] EXCEPT !.next = None]] BY DEF Unlink
<1>6. DOMAIN u = Slots /\ u[s].error = tune[s].error /\ \A t \in Slots \ {s} : u[t] = tune[t]
  BY <1>3, <1>4, <1>5 DEF Tunings
<1> HIDE DEF u
<1>7. /\ tune'[s] = NoChain /\ (\A t \in Slots \ {s} : tune'[t] = tune[t])
      /\ DOMAIN tune' = Slots /\ tune' = [t \in Slots |-> tune'[t]]
  BY <1>2, <1>4, <1>6
<1>8. tune' \in [Slots -> Tunings]
  <2>1. \A t \in Slots : tune'[t] \in Tunings BY <1>3, <1>7, NoChainType
  <2> QED BY <1>7, <2>1
<1>9. /\ s \in ToSet(d) /\ e \in Seq(Slots) /\ IsDue(e)'
      /\ \A t : t \in ToSet(e) <=> t \in ToSet(d) /\ t # s
      /\ Rest(s) \in [head : Slots \cup {None}, tail : Slots \cup {None}]
  <2>1. IsDue(d) BY <1>1 DEF ListInv
  <2>2. \A t \in Slots \ {s} : tune'[t].next = tune[t].next BY <1>7
  <2> QED BY <2>1, <2>2, DueRest
<1> HIDE DEF e
<1>10. ChainAt(s, s \in ToSet(d)) BY <1>1, <1>4 DEF ListInv
<1>11. tune[s].live /\ tune[s].phase = "Idle" /\ Outstanding(s) = 0 /\ ~kern[s].bad /\ tune[s].error # "fail"
  BY <1>9, <1>10 DEF ChainAt, ChainOK
<1>12. \A t, k : Sent(t, k)' = Sent(t, k) /\ Back(t, k)' = Back(t, k) BY DEF Sent, Back
<1>13. Outstanding(s)' = 0 BY <1>11, <1>12 DEF Outstanding, Held
<1>14. lied' = FALSE
  <2>1. lied' = (lied \/ (kern[s].bad # (u[s].error = "fail")) \/ (kern[s].bad /\ "cancel" # "fail"))
    BY DEF Terminal, u
  <2>2. lied = FALSE /\ kern[s].bad = FALSE
    <3>1. kern[s].bad \in BOOLEAN BY <1>4, SlotTypes DEF Kerns
    <3> QED BY <1>11, <3>1 DEF IInv, TypeInv
  <2>3. (u[s].error = "fail") = FALSE BY <1>6, <1>11
  <2> QED BY <2>1, <2>2, <2>3
<1>15. fd' = [fd EXCEPT ![s] = IF @ \in {"flying", "cancelled"} THEN "idle" ELSE @] BY DEF Terminal
<1>16. /\ OwnerAt(s)' /\ ChainAt(s, s \in ToSet(e))'
       /\ fd' \in [Slots -> Owners] /\ \A t \in Slots \ {s} : fd'[t] = fd[t]
  <2>1. s \notin ToSet(e) BY <1>9
  <2>2. Sent(s, "close")' = Sent(s, "close") /\ Back(s, "closed")' = Back(s, "closed") BY <1>12
  <2> QED BY <1>4, <1>7, <1>11, <1>13, <1>15, <2>1, <2>2, Ended
<1>17. TypeInv' BY <1>8, <1>9, <1>14, <1>16 DEF IInv, TypeInv
<1>18. SqInv' /\ CqInv' /\ GrantInv' BY DEF IInv, SqInv, CqInv, GrantInv
<1>19. \A t \in Slots : EntriesAt(t)' BY DEF IInv, EntriesAt, Matches
<1>20. Aside(s) BY <1>12, <1>16, <1>19 DEF Aside
<1>21. \A t \in Slots \ {s} :
           /\ tune'[t].live = tune[t].live /\ tune'[t].phase = tune[t].phase
           /\ tune'[t].count = tune[t].count /\ tune'[t].error = tune[t].error
           /\ t \in ToSet(e) <=> t \in ToSet(d)
           /\ t \notin ToSet(d) => tune'[t].next = tune[t].next
  BY <1>7, <1>9
<1>22. front' = front /\ EntriesAt(s)' BY <1>4, <1>19
<1> QED BY <1>1, <1>4, <1>9, <1>16, <1>17, <1>18, <1>20, <1>21, <1>22, SlotStep

(* The CONNECT of the first chain is submitted.                            *)
LEMMA HeadSubmitted ==
  ASSUME IInv, NEW s, s = ready.head, s # None, CanAcquire(sq),
         sq' = PushOne(Acquired(sq), [k |-> "con", s |-> s, c |-> kern[s].c]),
         tune' = Unlink(tune, s), ready' = Rest(s),
         UNCHANGED <<cq, fd, lied, front, turn, grant, kern>>
  PROVE  IInv'
<1>1. PICK d \in Seq(Slots) : ListInv(d) BY DEF IInv
<1> DEFINE e == Tail(d)
           r == [k |-> "con", s |-> s, c |-> kern[s].c]
           rs == <<r>>
<1>2. tune \in [Slots -> Tunings] BY DEF IInv, TypeInv
<1>3. s \in Slots
  <2>1. IsDue(d) BY <1>1 DEF ListInv
  <2>2. Len(d) \in Nat /\ (d = <<>> <=> Len(d) = 0) /\ \A i \in 1 .. Len(d) : d[i] \in Slots
    BY <1>1, <2>1, DueFields
  <2>3. d # <<>> /\ s = d[1] BY <2>1 DEF IsDue
  <2>4. 1 \in 1 .. Len(d) BY <2>2, <2>3
  <2> QED BY <2>2, <2>3, <2>4
<1>4. tune' = [tune EXCEPT ![s] = [tune[s] EXCEPT !.next = None]] BY DEF Unlink
<1>5. /\ tune' \in [Slots -> Tunings] /\ \A t \in Slots \ {s} : tune'[t] = tune[t]
      /\ tune'[s].live = tune[s].live /\ tune'[s].phase = tune[s].phase /\ tune'[s].count = tune[s].count
      /\ tune'[s].error = tune[s].error /\ tune'[s].next = None
  <2>1. /\ \A t \in Slots \ {s} : tune'[t] = tune[t]
        /\ tune'[s].live = tune[s].live /\ tune'[s].phase = tune[s].phase /\ tune'[s].count = tune[s].count
        /\ tune'[s].error = tune[s].error /\ tune'[s].next = None
    BY <1>2, <1>3, <1>4 DEF Tunings
  <2> DEFINE y == [tune[s] EXCEPT !.next = None]
  <2>2. y \in Tunings BY <1>2, <1>3 DEF Tunings
  <2>3. tune' = [tune EXCEPT ![s] = y] BY <1>4
  <2> HIDE DEF y
  <2>4. tune' \in [Slots -> Tunings] BY <1>2, <1>3, <2>2, <2>3
  <2> QED BY <2>1, <2>4
<1>6. /\ s \in ToSet(d) /\ e \in Seq(Slots) /\ IsDue(e)'
      /\ \A t : t \in ToSet(e) <=> t \in ToSet(d) /\ t # s
      /\ Rest(s) \in [head : Slots \cup {None}, tail : Slots \cup {None}]
  <2>1. IsDue(d) BY <1>1 DEF ListInv
  <2>2. \A t \in Slots \ {s} : tune'[t].next = tune[t].next BY <1>5
  <2> QED BY <2>1, <2>2, DueRest
<1> HIDE DEF e
<1>7. ChainAt(s, s \in ToSet(d)) BY <1>1, <1>3 DEF ListInv
<1>8. /\ tune[s].live /\ tune[s].phase = "Idle" /\ Outstanding(s) = 0 /\ ~kern[s].bad /\ tune[s].error # "fail"
      /\ Sent(s, "opt") + kern[s].opt = 0
  BY <1>6, <1>7 DEF ChainAt, ChainOK
<1>9. kern[s].c \in Nat /\ Held(s) \in Nat /\ OwnerAt(s) /\ EntriesAt(s) /\ \A k : Sent(s, k) \in Nat /\ Back(s, k) \in Nat
  BY <1>3, SlotTypes
<1>10. r \in Requests /\ r.k = "con" /\ r.s = s /\ r.c = kern[s].c BY <1>3, <1>9 DEF Requests
<1>11. Pushed(rs)
  <2>1. sq' = PushOne(Acquired(sq), r) OBVIOUS
  <2> HIDE DEF r
  <2> QED BY <1>10, <2>1, PushAcquiredSq DEF IInv
<1> HIDE DEF r
<1>12. rs \in Seq(Requests) /\ DOMAIN rs = {1} /\ rs[1] = r BY <1>10
<1>13. \A t, k : Count(rs, t, k) = IF r.k = k /\ r.s = t THEN 1 ELSE 0 BY CountOne
<1> HIDE DEF rs
<1>14. SqInv' /\ \A t, k : Sent(t, k)' = Sent(t, k) + Count(rs, t, k) BY <1>11, <1>12, PushedSq DEF IInv
<1>15. \A t, k : Back(t, k)' = Back(t, k) BY DEF Back
<1>16. \A t \in Slots : EntriesAt(t)'
  <2> TAKE t \in Slots
  <2> DEFINE u == Unsent(sq)
             c == kern[t].c
             h == Matches(t)
  <2>1. EntriesOK(u, t, c, h) BY DEF IInv, EntriesAt
  <2>2. \A i \in DOMAIN rs : rs[i].s = t /\ rs[i].k \in {"opt", "con", "cancel"} => rs[i].c = c
    BY <1>10, <1>12
  <2>3. u \in Seq(Requests) BY DEF IInv, SqInv
  <2>4. Unsent(sq') = u \o rs BY <1>11 DEF Pushed
  <2>5. kern'[t].c = c /\ Matches(t)' = h BY DEF Matches
  <2> HIDE DEF u, c, h
  <2>6. EntriesOK(u \o rs, t, c, h) BY <1>12, <2>1, <2>2, <2>3, EntriesPush
  <2> QED BY <2>4, <2>5, <2>6 DEF EntriesAt
<1>17. \A t \in Slots \ {s} : \A k : Sent(t, k)' = Sent(t, k)
  <2> SUFFICES ASSUME NEW t \in Slots, t # s, NEW k PROVE Sent(t, k)' = Sent(t, k)
    OBVIOUS
  <2>1. Count(rs, t, k) = 0 BY <1>10, <1>13
  <2>2. Sent(t, k) \in Nat BY SlotTypes
  <2> QED BY <1>14, <2>1, <2>2
<1>18. /\ Sent(s, "opt")' = Sent(s, "opt") /\ Sent(s, "con")' = Sent(s, "con") + 1
       /\ Sent(s, "close")' = Sent(s, "close")
  <2>1. Count(rs, s, "opt") = 0 /\ Count(rs, s, "con") = 1 /\ Count(rs, s, "close") = 0 BY <1>10, <1>13
  <2> QED BY <1>9, <1>14, <2>1
<1>19. Outstanding(s)' = 1
  <2> DEFINE a == Sent(s, "opt")
             b == Sent(s, "con")
             h == Held(s)
             c == Back(s, "tuning")
  <2>1. a \in Nat /\ b \in Nat /\ c \in Nat /\ h \in Nat BY <1>9
  <2>2. a + b + h + c = 0 BY <1>8 DEF Outstanding
  <2>3. Outstanding(s)' = a + (b + 1) + h + c BY <1>15, <1>18 DEF Outstanding, Held
  <2> HIDE DEF a, b, c, h
  <2>4. a + (b + 1) + h + c = 1 BY <2>1, <2>2
  <2> QED BY <2>3, <2>4
<1>20. Aside(s)
  <2>1. \A t \in Slots : Fails(Unread(cq'), t) <=> Fails(Unread(cq), t) OBVIOUS
  <2> QED BY <1>15, <1>16, <1>17, <2>1 DEF Aside
<1>21. OwnerAt(s)' BY <1>5, <1>9, <1>15, <1>18 DEF OwnerAt, OwnerOK
<1>22. ChainAt(s, s \in ToSet(e))'
  <2>1. s \notin ToSet(e) BY <1>6
  <2> QED BY <1>5, <1>8, <1>18, <1>19, <2>1 DEF ChainAt, ChainOK
<1>23. TypeInv' BY <1>5, <1>6 DEF IInv, TypeInv
<1>24. CqInv' BY DEF IInv, CqInv
<1>25. GrantInv' BY <1>11 DEF IInv, GrantInv, Pushed
<1>26. \A t \in Slots \ {s} :
           /\ tune'[t].live = tune[t].live /\ tune'[t].phase = tune[t].phase
           /\ tune'[t].count = tune[t].count /\ tune'[t].error = tune[t].error
           /\ t \in ToSet(e) <=> t \in ToSet(d)
           /\ t \notin ToSet(d) => tune'[t].next = tune[t].next
  BY <1>5, <1>6
<1>27. front' = front /\ EntriesAt(s)' BY <1>3, <1>16
<1> QED BY <1>1, <1>3, <1>6, <1>14, <1>20, <1>21, <1>22, <1>23, <1>24, <1>25, <1>26, <1>27, SlotStep

(* A completion of slot s is popped.                                       *)
LEMMA PopAside ==
  ASSUME IInv, cq.available > 0, cq' = PopCq(cq), NEW r, r = FrontCq(cq), NEW s \in Slots, r.s = s,
         UNCHANGED <<sq, kern>>, \A t \in Slots \ {s} : fd'[t] = fd[t]
  PROVE  /\ Aside(s) /\ CqInv' /\ SqInv' /\ EntriesAt(s)'
         /\ \A k : Sent(s, k)' = Sent(s, k)
         /\ \A k : Back(s, k) = (IF r.k = k THEN 1 ELSE 0) + Back(s, k)' /\ Back(s, k)' \in Nat
         /\ Fails(Unread(cq), s) <=> (r.k = "tuning" /\ r.out = "fail") \/ Fails(Unread(cq'), s)
<1>1. /\ CqInv' /\ r \in Replies
      /\ \A t, k : Back(t, k) = Count(<<r>>, t, k) + Back(t, k)'
      /\ \A t : Fails(Unread(cq), t) <=> Fails(<<r>>, t) \/ Fails(Unread(cq'), t)
  BY PoppedCq DEF IInv
<1>2. \A t, k : Count(<<r>>, t, k) = IF r.k = k /\ r.s = t THEN 1 ELSE 0 BY CountOne
<1>3. \A t : Fails(<<r>>, t) <=> r.k = "tuning" /\ r.s = t /\ r.out = "fail" BY FailsOne
<1>4. SqInv' BY DEF IInv, SqInv
<1>5. \A t, k : Sent(t, k)' = Sent(t, k) BY DEF Sent
<1>6. \A t, k : Back(t, k)' \in Nat
  <2> TAKE t, k
  <2>1. Back(t, k)' = Count(Unread(cq'), t, k) BY DEF Back, Count, Places
  <2>2. Unread(cq') \in Seq(Replies) BY <1>1 DEF CqInv
  <2> QED BY <2>1, <2>2, PlacesFinite
<1>7. \A t \in Slots : EntriesAt(t)' BY DEF IInv, EntriesAt, Matches
<1>8. Aside(s)
  <2> SUFFICES ASSUME NEW t \in Slots, t # s
               PROVE  /\ \A k : Sent(t, k)' = Sent(t, k) /\ Back(t, k)' = Back(t, k)
                      /\ Fails(Unread(cq'), t) <=> Fails(Unread(cq), t)
                      /\ kern'[t] = kern[t] /\ fd'[t] = fd[t]
                      /\ EntriesAt(t)'
    BY DEF Aside
  <2>1. \A k : Back(t, k)' = Back(t, k)
    <3> TAKE k
    <3>1. Count(<<r>>, t, k) = 0 BY <1>2
    <3> QED BY <1>1, <1>6, <3>1
  <2>2. Fails(Unread(cq'), t) <=> Fails(Unread(cq), t) BY <1>1, <1>3
  <2> QED BY <1>5, <1>7, <2>1, <2>2
<1>9. \A k : Back(s, k) = (IF r.k = k THEN 1 ELSE 0) + Back(s, k)' BY <1>1, <1>2
<1>10. Fails(Unread(cq), s) <=> (r.k = "tuning" /\ r.out = "fail") \/ Fails(Unread(cq'), s)
  BY <1>1, <1>3
<1> QED BY <1>1, <1>4, <1>5, <1>6, <1>7, <1>8, <1>9, <1>10

LEMMA MergeFails ==
  \A error, out \in {"ok", "fail", "cancel"} :
    /\ Merge(error, out) \in {"ok", "fail", "cancel"}
    /\ Merge(error, out) = "fail" <=> error = "fail" \/ out = "fail"
BY DEF Merge

(* The completion of a tuning token.                                       *)
LEMMA ObserveStep ==
  ASSUME IInv, cq.available > 0, cq' = PopCq(cq), NEW r, r = FrontCq(cq), NEW s \in Slots, r.s = s,
         NEW out \in {"ok", "fail", "cancel"}, r.k = "tuning", r.out = out, Observe(s, out),
         UNCHANGED <<sq, front, turn, grant, kern>>
  PROVE  IInv'
<1> DEFINE x == tune[s]
           error == Merge(x.error, out)
           u == [tune EXCEPT ![s].error = error]
<1>1. PICK d \in Seq(Slots) : ListInv(d) BY DEF IInv
<1>2. /\ x \in Tunings /\ kern[s] \in Kerns /\ Held(s) \in Nat /\ kern[s].opt \in Nat /\ x.count \in Nat /\ x.count > 0
      /\ OwnerAt(s) /\ \A k : Sent(s, k) \in Nat /\ Back(s, k) \in Nat
  BY SlotTypes
<1>3. tune \in [Slots -> Tunings] /\ fd \in [Slots -> Owners] BY DEF IInv, TypeInv
<1>4. /\ \/ fd' = fd
         \/ fd' = [fd EXCEPT ![s] = IF @ \in {"flying", "cancelled"} THEN "idle" ELSE @]
      /\ \A t \in Slots \ {s} : fd'[t] = fd[t]
  <2>1. \/ fd' = fd
        \/ fd' = [fd EXCEPT ![s] = IF @ \in {"flying", "cancelled"} THEN "idle" ELSE @]
    BY DEF Observe, Terminal
  <2> QED BY <1>3, <2>1
<1>5. /\ Aside(s) /\ CqInv' /\ SqInv' /\ EntriesAt(s)'
      /\ \A k : Sent(s, k)' = Sent(s, k)
      /\ \A k : Back(s, k) = (IF r.k = k THEN 1 ELSE 0) + Back(s, k)' /\ Back(s, k)' \in Nat
      /\ Fails(Unread(cq), s) <=> (r.k = "tuning" /\ r.out = "fail") \/ Fails(Unread(cq'), s)
  BY <1>4, PopAside
<1>6. /\ Back(s, "tuning") = 1 + Back(s, "tuning")' /\ Back(s, "tuning")' \in Nat
      /\ Back(s, "closed")' = Back(s, "closed")
  <2>1. Back(s, "closed") = 0 + Back(s, "closed")' /\ Back(s, "closed")' \in Nat BY <1>5
  <2> QED BY <1>5, <2>1
<1>7. x.live /\ s \notin ToSet(d) /\ Outstanding(s) \in Nat
  <2>1. Back(s, "tuning") > 0 BY <1>6
  <2> QED BY <1>1, <2>1, BusySlot
<1>8. ChainAt(s, s \in ToSet(d)) BY <1>1 DEF ListInv
<1>9. x.next = None BY <1>7, <1>8 DEF ChainAt, ChainOK
<1>10. /\ Sent(s, "opt")' = Sent(s, "opt") /\ Sent(s, "con")' = Sent(s, "con")
       /\ Sent(s, "close")' = Sent(s, "close") /\ Held(s)' = Held(s)
  BY <1>5 DEF Held
<1>11. Outstanding(s) = Outstanding(s)' + 1 /\ Outstanding(s)' \in Nat
  <2> DEFINE a == Sent(s, "opt")
             b == Sent(s, "con")
             h == Held(s)
             c == Back(s, "tuning")'
  <2>1. a \in Nat /\ b \in Nat /\ h \in Nat /\ c \in Nat BY <1>2, <1>6
  <2>2. Outstanding(s) = a + b + h + (1 + c) BY <1>6 DEF Outstanding
  <2>3. Outstanding(s)' = a + b + h + c BY <1>10 DEF Outstanding
  <2> HIDE DEF a, b, h, c
  <2>4. a + b + h + (1 + c) = (a + b + h + c) + 1 /\ a + b + h + c \in Nat BY <2>1
  <2> QED BY <2>2, <2>3, <2>4
<1>12. Outstanding(s)' = 0 => Back(s, "tuning")' = 0 /\ Sent(s, "opt") + kern[s].opt = 0
  <2> DEFINE a == Sent(s, "opt")
             b == Sent(s, "con")
             o == kern[s].opt
             w == IF kern[s].con = "none" THEN 0 ELSE 1
             c == Back(s, "tuning")'
  <2>1. a \in Nat /\ b \in Nat /\ o \in Nat /\ w \in Nat /\ c \in Nat BY <1>2, <1>6
  <2>2. Outstanding(s)' = a + b + (o + w) + c BY <1>10 DEF Outstanding, Held
  <2> HIDE DEF a, b, o, w, c
  <2>3. a + b + (o + w) + c = 0 => c = 0 /\ a + o = 0 BY <2>1
  <2> QED BY <2>2, <2>3 DEF a, o, c
<1>13. Back(s, "tuning")' = 0 => ~Fails(Unread(cq'), s)
  <2>1. Unread(cq') \in Seq(Replies) BY <1>5 DEF CqInv
  <2>2. Back(s, "tuning")' = Count(Unread(cq'), s, "tuning") BY DEF Back, Count, Places
  <2> QED BY <2>1, <2>2, FailsNone
<1>14. error \in {"ok", "fail", "cancel"} /\ (error = "fail" <=> x.error = "fail" \/ out = "fail")
  BY <1>2, MergeFails DEF Tunings
<1>15. GrantInv' BY DEF IInv, GrantInv
<1>16. kern[s].bad \in BOOLEAN /\ lied = FALSE BY <1>2 DEF Kerns, IInv, TypeInv
<1>17. IsDue(d) BY <1>1 DEF ListInv
<1>18. ASSUME NEW y \in [Slots -> Tunings], NEW o, y[s].error = "fail" <=> kern[s].bad, kern[s].bad => o = "fail",
              \A t \in Slots \ {s} : y[t] = tune[t], Terminal(y, s, o), ready' = ready, Outstanding(s)' = 0
       PROVE  IInv'
  <2>1. tune' = [y EXCEPT ![s] = NoChain] BY <1>18 DEF Terminal
  <2>2. /\ tune' \in [Slots -> Tunings] /\ tune'[s] = NoChain /\ \A t \in Slots \ {s} : tune'[t] = tune[t]
    BY <1>18, <2>1, NoChainType
  <2>3. lied' = FALSE
    <3>1. lied' = (lied \/ (kern[s].bad # (y[s].error = "fail")) \/ (kern[s].bad /\ o # "fail"))
      BY <1>18 DEF Terminal
    <3>2. kern[s].bad = (y[s].error = "fail") BY <1>16, <1>18
    <3> QED BY <1>16, <1>18, <3>1, <3>2
  <2>4. fd' = [fd EXCEPT ![s] = IF @ \in {"flying", "cancelled"} THEN "idle" ELSE @] BY <1>18 DEF Terminal
  <2>5. OwnerAt(s)' /\ ChainAt(s, s \in ToSet(d))' /\ fd' \in [Slots -> Owners]
    <3>1. Outstanding(s)' = 0 BY <1>18
    <3> QED BY <1>6, <1>7, <1>10, <2>2, <2>4, <3>1, Ended
  <2>6. TypeInv' BY <1>18, <2>2, <2>3, <2>5 DEF IInv, TypeInv
  <2>7. IsDue(d)'
    <3>1. \A t \in Slots : tune'[t].next = tune[t].next BY <1>9, <2>2 DEF NoChain
    <3> QED BY <1>17, <1>18, <3>1, DueFrame
  <2>8. \A t \in Slots \ {s} :
           /\ tune'[t].live = tune[t].live /\ tune'[t].phase = tune[t].phase
           /\ tune'[t].count = tune[t].count /\ tune'[t].error = tune[t].error
           /\ t \in ToSet(d) <=> t \in ToSet(d)
           /\ t \notin ToSet(d) => tune'[t].next = tune[t].next
    BY <2>2
  <2> QED BY <1>1, <1>5, <1>15, <2>5, <2>6, <2>7, <2>8, SlotStep
<1>19. CASE x.phase = "Idle"
  <2>1. Terminal(tune, s, out) /\ ready' = ready BY <1>19 DEF Observe
  <2>2. Outstanding(s) = 1 /\ ~kern[s].bad /\ x.error # "fail" BY <1>7, <1>8, <1>19 DEF ChainAt, ChainOK
  <2>3. Outstanding(s)' = 0 BY <1>11, <2>2
  <2> QED BY <1>3, <1>18, <2>1, <2>2, <2>3
<1>20. u \in [Slots -> Tunings] /\ u[s].error = error /\ \A t \in Slots \ {s} : u[t] = tune[t]
  <2> DEFINE y == [tune[s] EXCEPT !.error = error]
  <2>1. y.error = error BY <1>2 DEF Tunings
  <2>2. y \in [live : {x.live}, retiring : {x.retiring}, stopped : {x.stopped}, phase : {x.phase},
               count : {x.count}, error : {error}, next : {x.next}]
    BY <1>2 DEF Tunings
  <2> HIDE DEF error
  <2>3. y \in Tunings BY <1>2, <1>14, <2>2 DEF Tunings
  <2>4. u = [tune EXCEPT ![s] = y] OBVIOUS
  <2> HIDE DEF y
  <2> QED BY <1>3, <2>1, <2>3, <2>4
<1>21. CASE x.phase # "Idle"
  <2>1. /\ Outstanding(s) = x.count /\ Sent(s, "con") = 0 /\ kern[s].con = "none"
        /\ (kern[s].bad <=> x.error = "fail" \/ Fails(Unread(cq), s))
    BY <1>7, <1>8, <1>21 DEF ChainAt, ChainOK
  <2>2. kern[s].bad <=> error = "fail" \/ Fails(Unread(cq'), s)
    BY <1>5, <1>14, <2>1
  <2>3. x.count = 1 => Outstanding(s)' = 0 /\ (kern[s].bad <=> error = "fail")
    BY <1>11, <1>12, <1>13, <2>1, <2>2
  <2>4. CASE x.count > 1
    <3>1. tune' = [u EXCEPT ![s].count = @ - 1] /\ ready' = ready /\ fd' = fd /\ lied' = lied
      BY <1>21, <2>4 DEF Observe
    <3> HIDE DEF error, u
    <3> DEFINE y == tune'[s]
    <3>2. /\ y.live = x.live /\ y.phase = x.phase /\ y.next = x.next
      BY <1>3, <3>1 DEF Tunings, u
    <3>3. y.error = error /\ y.count = x.count - 1
      BY <1>3, <3>1 DEF Tunings, u
    <3>4. \A t \in Slots \ {s} : tune'[t] = tune[t] BY <1>20, <3>1
    <3>5. tune' \in [Slots -> Tunings]
      <4>1. u[s].count = x.count BY <1>3 DEF u, Tunings
      <4>2. x.count - 1 \in 1 .. SqEntries BY <1>2, <2>4, SqSize DEF Tunings
      <4>3. [u[s] EXCEPT !.count = x.count - 1] \in Tunings BY <1>20, <4>2 DEF Tunings
      <4> QED BY <1>20, <3>1, <4>1, <4>3
    <3> HIDE DEF y
    <3>6. TypeInv' BY <3>1, <3>5 DEF IInv, TypeInv
    <3>7. IsDue(d)'
      <4>1. \A t \in Slots : tune'[t].next = tune[t].next BY <3>2, <3>4 DEF y
      <4> QED BY <1>17, <3>1, <4>1, DueFrame
    <3>8. OwnerAt(s)' BY <1>2, <1>6, <1>10, <3>1, <3>2 DEF OwnerAt, OwnerOK, y
    <3>9. ChainAt(s, s \in ToSet(d))'
      <4>1. Outstanding(s)' = y.count BY <1>2, <1>11, <2>1, <3>3
      <4> QED BY <1>7, <1>9, <1>10, <1>21, <2>1, <2>2, <3>2, <3>3, <4>1 DEF ChainAt, ChainOK, y
    <3>10. \A t \in Slots \ {s} :
           /\ tune'[t].live = tune[t].live /\ tune'[t].phase = tune[t].phase
           /\ tune'[t].count = tune[t].count /\ tune'[t].error = tune[t].error
           /\ t \in ToSet(d) <=> t \in ToSet(d)
           /\ t \notin ToSet(d) => tune'[t].next = tune[t].next
      BY <3>4
    <3> QED BY <1>1, <1>5, <1>15, <3>6, <3>7, <3>8, <3>9, <3>10, SlotStep
  <2>5. CASE x.count = 1 /\ error = "ok" /\ ~x.stopped /\ x.phase = "OptionsConnect"
    <3>1. /\ tune' = [q \in Slots |-> IF q = s THEN [u[s] EXCEPT !.phase = "Idle"]
                          ELSE IF q = ready.tail THEN [u[q] EXCEPT !.next = s] ELSE u[q]]
          /\ ready' = [head |-> IF ready.tail = None THEN s ELSE ready.head, tail |-> s]
          /\ fd' = fd /\ lied' = lied
      BY <2>5 DEF Observe
    <3> HIDE DEF error
    <3> DEFINE y == tune'[s]
               l == Append(d, s)
    <3>2. u[s] \in Tunings /\ u[s].live = x.live /\ u[s].next = x.next /\ u[s].error = error
      BY <1>3, <1>20 DEF Tunings
    <3> HIDE DEF u
    <3>3. y = [u[s] EXCEPT !.phase = "Idle"] BY <3>1
    <3>4. /\ y \in Tunings /\ y.live = x.live /\ y.phase = "Idle" /\ y.next = x.next /\ y.error = error
      BY <3>2, <3>3 DEF Tunings
    <3>5. \A t \in Slots \ {s} : tune'[t] = IF t = ready.tail THEN [tune[t] EXCEPT !.next = s] ELSE tune[t]
      BY <1>20, <3>1
    <3>6. \A t \in Slots \ {s} :
            /\ tune'[t] \in Tunings
            /\ tune'[t].live = tune[t].live /\ tune'[t].phase = tune[t].phase
            /\ tune'[t].count = tune[t].count /\ tune'[t].error = tune[t].error
            /\ tune'[t].next = IF t = ready.tail THEN s ELSE tune[t].next
      <4> SUFFICES ASSUME NEW t \in Slots, t # s
                   PROVE  /\ tune'[t] \in Tunings
                          /\ tune'[t].live = tune[t].live /\ tune'[t].phase = tune[t].phase
                          /\ tune'[t].count = tune[t].count /\ tune'[t].error = tune[t].error
                          /\ tune'[t].next = IF t = ready.tail THEN s ELSE tune[t].next
        OBVIOUS
      <4> DEFINE z == [tune[t] EXCEPT !.next = s]
      <4>1. tune[t] \in Tunings BY <1>3
      <4>2. z \in Tunings BY <4>1 DEF Tunings
      <4>3. /\ z.live = tune[t].live /\ z.phase = tune[t].phase
            /\ z.count = tune[t].count /\ z.error = tune[t].error /\ z.next = s
        BY <4>1 DEF Tunings
      <4>4. tune'[t] = IF t = ready.tail THEN z ELSE tune[t] BY <3>5
      <4> HIDE DEF z
      <4> QED BY <4>1, <4>2, <4>3, <4>4
    <3>7. tune' \in [Slots -> Tunings]
      <4>1. DOMAIN tune' = Slots /\ tune' = [t \in Slots |-> tune'[t]] BY <3>1
      <4>2. \A t \in Slots : tune'[t] \in Tunings BY <3>4, <3>6
      <4> QED BY <4>1, <4>2
    <3> HIDE DEF y
    <3>8. /\ l \in Seq(Slots) /\ IsDue(l)'
          /\ \A t : t \in ToSet(l) <=> t \in ToSet(d) \/ t = s
          /\ ready.tail # None => ready.tail \in ToSet(d)
      <4>1. tune'[s].next = None BY <1>9, <3>4 DEF y
      <4>2. \A t \in Slots \ {s} : tune'[t].next = IF t = ready.tail THEN s ELSE tune[t].next BY <3>6
      <4> QED BY <1>7, <1>17, <3>1, <4>1, <4>2, DueLinked
    <3> HIDE DEF l
    <3>9. TypeInv'
      <4>1. ready' \in [head : Slots \cup {None}, tail : Slots \cup {None}]
        <5>1. ready \in [head : Slots \cup {None}, tail : Slots \cup {None}] BY DEF IInv, TypeInv
        <5> QED BY <3>1, <5>1
      <4> QED BY <3>1, <3>7, <4>1 DEF IInv, TypeInv
    <3>10. OwnerAt(s)' BY <1>2, <1>6, <1>10, <3>1, <3>4 DEF OwnerAt, OwnerOK, y
    <3>11. ChainAt(s, s \in ToSet(l))'
      <4>1. s \in ToSet(l) BY <3>8
      <4>2. Sent(s, "opt")' + kern'[s].opt = 0 BY <1>10, <1>12, <2>3, <2>5
      <4> QED BY <1>7, <2>3, <2>5, <3>4, <4>1, <4>2 DEF ChainAt, ChainOK, y
    <3>12. \A t \in Slots \ {s} :
           /\ tune'[t].live = tune[t].live /\ tune'[t].phase = tune[t].phase
           /\ tune'[t].count = tune[t].count /\ tune'[t].error = tune[t].error
           /\ t \in ToSet(l) <=> t \in ToSet(d)
           /\ t \notin ToSet(d) => tune'[t].next = tune[t].next
      <4> SUFFICES ASSUME NEW t \in Slots \ {s}
                   PROVE  /\ t \in ToSet(l) <=> t \in ToSet(d)
                          /\ t \notin ToSet(d) => tune'[t].next = tune[t].next
        BY <3>6
      <4>1. t # None BY SlotAssumption
      <4>2. t \notin ToSet(d) => t # ready.tail BY <3>8, <4>1
      <4> QED BY <3>6, <3>8, <4>2
    <3> QED BY <1>1, <1>5, <1>15, <3>8, <3>9, <3>10, <3>11, <3>12, SlotStep
  <2>6. CASE x.count = 1 /\ ~(error = "ok" /\ ~x.stopped /\ x.phase = "OptionsConnect")
    <3> DEFINE o == IF error # "ok" THEN error ELSE IF x.stopped THEN "cancel" ELSE "ok"
    <3>1. Terminal(u, s, o) /\ ready' = ready BY <1>21, <2>6 DEF Observe
    <3>2. kern[s].bad => o = "fail" BY <2>3, <2>6
    <3> HIDE DEF error, u, o
    <3> QED BY <1>18, <1>20, <2>3, <2>6, <3>1, <3>2
  <2>7. x.count = 1 \/ x.count > 1 BY <1>2
  <2> QED BY <1>21, <2>4, <2>5, <2>6, <2>7
<1> QED BY <1>19, <1>21

LEMMA PopStep ==
  ASSUME IInv, PopOne, UNCHANGED <<front, turn, grant, kern>>
  PROVE  IInv'
<1>1. cq.available > 0 /\ cq' = PopCq(cq) /\ sq' = sq BY DEF PopOne
<1>2. FrontCq(cq) \in Replies BY <1>1, PoppedCq DEF IInv
<1>3. PICK r \in Replies : r = FrontCq(cq) BY <1>2
<1>4. PICK s \in Slots : r.s = s BY DEF Replies
<1>5. r.k \in {"tuning", "reply", "closed"} /\ (r.k = "tuning" => r.out \in {"ok", "fail", "cancel"})
  BY DEF Replies
<1>6. PICK d \in Seq(Slots) : ListInv(d) BY DEF IInv
<1>7. tune \in [Slots -> Tunings] /\ fd \in [Slots -> Owners] BY DEF IInv, TypeInv
<1>8. CASE r.k = "tuning"
  <2>1. PICK out \in {"ok", "fail", "cancel"} : r.out = out BY <1>5, <1>8
  <2>2. Observe(s, out) BY <1>3, <1>4, <1>8, <2>1 DEF PopOne
  <2> QED BY <1>1, <1>3, <1>4, <1>8, <2>1, <2>2, ObserveStep
<1>9. CASE r.k = "reply"
  <2>1. tune' = [tune EXCEPT ![s].retiring = FALSE] /\ ready' = ready /\ fd' = fd /\ lied' = lied
    BY <1>3, <1>4, <1>9 DEF PopOne, RetryCancel
  <2>2. /\ tune' \in [Slots -> Tunings] /\ \A t \in Slots \ {s} : tune'[t] = tune[t]
    <3> DEFINE y == [tune[s] EXCEPT !.retiring = FALSE]
    <3>1. y \in Tunings BY <1>7 DEF Tunings
    <3>2. tune' = [tune EXCEPT ![s] = y] BY <2>1
    <3> HIDE DEF y
    <3> QED BY <1>7, <3>1, <3>2
  <2>3. /\ tune'[s].live = tune[s].live /\ tune'[s].phase = tune[s].phase /\ tune'[s].count = tune[s].count
        /\ tune'[s].error = tune[s].error /\ tune'[s].next = tune[s].next
    BY <1>7, <2>1 DEF Tunings
  <2>4. /\ Aside(s) /\ CqInv' /\ SqInv' /\ EntriesAt(s)'
        /\ \A k : Sent(s, k)' = Sent(s, k)
        /\ \A k : Back(s, k) = (IF r.k = k THEN 1 ELSE 0) + Back(s, k)' /\ Back(s, k)' \in Nat
        /\ Fails(Unread(cq), s) <=> (r.k = "tuning" /\ r.out = "fail") \/ Fails(Unread(cq'), s)
    <3>1. \A t \in Slots \ {s} : fd'[t] = fd[t] BY <2>1
    <3> QED BY <1>1, <1>3, <1>4, <3>1, PopAside
  <2>5. Back(s, "tuning")' = Back(s, "tuning") /\ Back(s, "closed")' = Back(s, "closed")
    <3>1. /\ Back(s, "tuning") = 0 + Back(s, "tuning")' /\ Back(s, "tuning")' \in Nat
          /\ Back(s, "closed") = 0 + Back(s, "closed")' /\ Back(s, "closed")' \in Nat
      BY <1>9, <2>4
    <3> QED BY <3>1
  <2>6. TypeInv' BY <2>1, <2>2 DEF IInv, TypeInv
  <2>7. GrantInv' BY <1>1 DEF IInv, GrantInv
  <2>8. IsDue(d)'
    <3>1. IsDue(d) BY <1>6 DEF ListInv
    <3>2. \A t \in Slots : tune'[t].next = tune[t].next BY <2>2, <2>3
    <3> QED BY <2>1, <3>1, <3>2, DueFrame
  <2>9. OwnerAt(s)'
    <3>1. OwnerAt(s) BY DEF IInv
    <3>2. Sent(s, "close")' = Sent(s, "close") BY <2>4
    <3>3. fd'[s] = fd[s] /\ (front' = s => front = s) BY <2>1
    <3> QED BY <2>3, <2>5, <3>1, <3>2, <3>3, OwnerFrame
  <2>10. ChainAt(s, s \in ToSet(d))'
    <3>1. ChainAt(s, s \in ToSet(d)) BY <1>6 DEF ListInv
    <3>2. Sent(s, "opt")' = Sent(s, "opt") /\ Sent(s, "con")' = Sent(s, "con") BY <2>4
    <3>3. Fails(Unread(cq'), s) <=> Fails(Unread(cq), s) BY <1>9, <2>4
    <3>4. Outstanding(s)' = Outstanding(s) BY <2>5, <3>2 DEF Outstanding, Held
    <3> QED BY <2>3, <3>1, <3>2, <3>3, <3>4 DEF ChainAt, ChainOK
  <2>11. \A t \in Slots \ {s} :
           /\ tune'[t].live = tune[t].live /\ tune'[t].phase = tune[t].phase
           /\ tune'[t].count = tune[t].count /\ tune'[t].error = tune[t].error
           /\ t \in ToSet(d) <=> t \in ToSet(d)
           /\ t \notin ToSet(d) => tune'[t].next = tune[t].next
    BY <2>2
  <2>12. front' = front OBVIOUS
  <2> QED BY <1>6, <2>4, <2>6, <2>7, <2>8, <2>9, <2>10, <2>11, <2>12, SlotStep
<1>10. CASE r.k = "closed"
  <2>1. fd' = [fd EXCEPT ![s] = "free"] /\ ready' = ready /\ tune' = tune /\ lied' = lied
    BY <1>3, <1>4, <1>10 DEF PopOne
  <2>2. fd' \in [Slots -> Owners] /\ fd'[s] = "free" /\ \A t \in Slots \ {s} : fd'[t] = fd[t]
    BY <1>7, <2>1 DEF Owners
  <2>3. /\ Aside(s) /\ CqInv' /\ SqInv' /\ EntriesAt(s)'
        /\ \A k : Sent(s, k)' = Sent(s, k)
        /\ \A k : Back(s, k) = (IF r.k = k THEN 1 ELSE 0) + Back(s, k)' /\ Back(s, k)' \in Nat
        /\ Fails(Unread(cq), s) <=> (r.k = "tuning" /\ r.out = "fail") \/ Fails(Unread(cq'), s)
    BY <1>1, <1>3, <1>4, <2>2, PopAside
  <2>4. /\ Back(s, "tuning")' = Back(s, "tuning")
        /\ Back(s, "closed") = 1 + Back(s, "closed")' /\ Back(s, "closed")' \in Nat
    <3>1. Back(s, "tuning") = 0 + Back(s, "tuning")' /\ Back(s, "tuning")' \in Nat BY <1>10, <2>3
    <3>2. Back(s, "closed") = 1 + Back(s, "closed")' /\ Back(s, "closed")' \in Nat BY <1>10, <2>3
    <3> QED BY <3>1, <3>2
  <2>5. TypeInv' BY <2>1, <2>2 DEF IInv, TypeInv
  <2>6. GrantInv' BY <1>1 DEF IInv, GrantInv
  <2>7. IsDue(d)'
    <3>1. IsDue(d) BY <1>6 DEF ListInv
    <3> QED BY <2>1, <3>1, DueFrame
  <2>8. OwnerAt(s)'
    <3>1. OwnerAt(s) /\ Sent(s, "close") \in Nat BY SlotTypes
    <3>2. Sent(s, "close")' = Sent(s, "close") BY <2>3
    <3>3. Sent(s, "close") + Back(s, "closed") # 0
      BY <2>4, <3>1
    <3>4. fd[s] = "closing" /\ Sent(s, "close") + Back(s, "closed") = 1 /\ ~tune[s].live /\ front # s
      BY <3>1, <3>3 DEF OwnerAt, OwnerOK
    <3>5. Sent(s, "close")' + Back(s, "closed")' = 0 BY <2>4, <3>1, <3>2, <3>4
    <3> QED BY <2>1, <2>2, <3>4, <3>5 DEF OwnerAt, OwnerOK
  <2>9. ChainAt(s, s \in ToSet(d))'
    <3>1. ChainAt(s, s \in ToSet(d)) BY <1>6 DEF ListInv
    <3>2. Sent(s, "opt")' = Sent(s, "opt") /\ Sent(s, "con")' = Sent(s, "con") BY <2>3
    <3>3. Fails(Unread(cq'), s) <=> Fails(Unread(cq), s) BY <1>10, <2>3
    <3>4. tune'[s] = tune[s] /\ kern'[s] = kern[s] BY <2>1
    <3> QED BY <2>4, <3>1, <3>2, <3>3, <3>4, ChainFrame
  <2>10. \A t \in Slots \ {s} :
           /\ tune'[t].live = tune[t].live /\ tune'[t].phase = tune[t].phase
           /\ tune'[t].count = tune[t].count /\ tune'[t].error = tune[t].error
           /\ t \in ToSet(d) <=> t \in ToSet(d)
           /\ t \notin ToSet(d) => tune'[t].next = tune[t].next
    BY <2>1
  <2>11. front' = front OBVIOUS
  <2> QED BY <1>6, <2>3, <2>5, <2>6, <2>7, <2>8, <2>9, <2>10, <2>11, SlotStep
<1> QED BY <1>5, <1>8, <1>9, <1>10

LEMMA ResolveStep == IInv /\ Resolve => IInv'
<1> SUFFICES ASSUME IInv, Resolve PROVE IInv'
  OBVIOUS
<1>1. UNCHANGED <<front, turn, grant, kern>> BY DEF Resolve
<1>2. CASE PopOne BY <1>1, <1>2, PopStep
<1>3. CASE ~PopOne
  <2>1. PICK s : s = ready.head OBVIOUS
  <2>2. s # None BY <1>3, <2>1 DEF Resolve
  <2>3. CASE tune[s].stopped
    <3>1. Terminal(Unlink(tune, s), s, "cancel") /\ ready' = Rest(s) /\ UNCHANGED <<sq, cq>>
      BY <2>1, <2>2, <2>3 DEF Resolve
    <3> QED BY <1>1, <2>1, <2>2, <3>1, HeadStopped
  <2>4. CASE ~tune[s].stopped
    <3>1. /\ CanAcquire(sq)
          /\ sq' = PushOne(Acquired(sq), [k |-> "con", s |-> s, c |-> kern[s].c])
          /\ tune' = Unlink(tune, s) /\ ready' = Rest(s) /\ UNCHANGED <<cq, fd, lied>>
      BY <1>3, <2>1, <2>2, <2>4 DEF Resolve
    <3> QED BY <1>1, <2>1, <2>2, <3>1, HeadSubmitted
  <2> QED BY <2>3, <2>4
<1> QED BY <1>2, <1>3

-----------------------------------------------------------------------------
(* The invariant and what follows from it.                                 *)

LEMMA EmptyWindow ==
  ASSUME NEW E, NEW u \in Seq(E), Len(u) = 0
  PROVE  u = <<>> /\ (\A F : u \in Seq(F)) /\ (\A s, k : Count(u, s, k) = 0) /\ DOMAIN u = {}
<1>1. u = <<>> BY EmptySeq
<1> QED BY <1>1, CountEmpty

LEMMA InitInv == Init => IInv
<1> SUFFICES ASSUME Init PROVE IInv
  OBVIOUS
<1> DEFINE E == Requests \cup {NoEntry}
           F == Replies \cup {NoEntry}
<1>1. Start \in Cursors /\ Start \in Nat /\ Sub(Start, Start) = 0
  BY EngineAssumption, SubSame, RingAssumption DEF Cursors
<1>2. /\ sq = NewSq(Start) /\ cq = NewCq(Start) /\ tune = [s \in Slots |-> NoChain]
      /\ ready = [head |-> None, tail |-> None] /\ fd = [s \in Slots |-> "free"]
      /\ front = None /\ turn = "run" /\ grant = 0 /\ lied = FALSE
      /\ kern = [s \in Slots |-> [opt |-> 0, con |-> "none", bad |-> FALSE, c |-> 0]]
  BY DEF Init
<1>3. /\ sq \in SqRings(E) /\ sq.khead = Start /\ sq.ktail = Start /\ sq.head = Start /\ sq.tail = Start
      /\ sq.cells \in Ring(SqEntries, E)
  BY <1>1, <1>2 DEF NewSq, SqRings, Ring
<1>4. /\ cq \in CqRings(F) /\ cq.khead = Start /\ cq.ktail = Start /\ cq.head = Start /\ cq.available = 0
      /\ cq.cells \in Ring(CqEntries, F) /\ cq.over = <<>>
  BY <1>1, <1>2 DEF NewCq, CqRings, Ring
<1> HIDE DEF E, F
<1>5. SqOrder(sq) BY <1>1, <1>3, SqSize DEF SqOrder
<1>6. CqOrder(cq) /\ Observed(cq) = 0 BY <1>1, <1>4, CqSize DEF CqOrder, Observed
<1>7. Unsent(sq) = <<>> /\ Unsent(sq) \in Seq(Requests) /\ \A s, k : Count(Unsent(sq), s, k) = 0
  <2> DEFINE w == Window(sq.cells, SqEntries, Start, 0)
  <2>1. w \in Seq(E) /\ Len(w) = 0
    <3> DEFINE c == sq.cells
    <3>1. c \in Ring(SqEntries, E) /\ Start \in Nat /\ 0 \in Nat BY <1>1, <1>3
    <3> HIDE DEF c
    <3>2. Window(c, SqEntries, Start, 0) \in Seq(E) BY <3>1, SqSize, WindowType
    <3>3. Len(Window(c, SqEntries, Start, 0)) = 0 BY <3>1, SqSize, WindowType
    <3> QED BY <3>2, <3>3 DEF c
  <2>2. Unsent(sq) = w BY <1>1, <1>3 DEF Unsent
  <2> HIDE DEF w
  <2> QED BY <2>1, <2>2, EmptyWindow
<1>8. Unread(cq) = <<>> /\ Unread(cq) \in Seq(Replies) /\ \A s, k : Count(Unread(cq), s, k) = 0
  <2> DEFINE w == Window(cq.cells, CqEntries, Start, 0)
  <2>1. w \in Seq(F) /\ Len(w) = 0
    <3> DEFINE c == cq.cells
    <3>1. c \in Ring(CqEntries, F) /\ Start \in Nat /\ 0 \in Nat BY <1>1, <1>4
    <3> HIDE DEF c
    <3>2. Window(c, CqEntries, Start, 0) \in Seq(F) BY <3>1, CqSize, WindowType
    <3>3. Len(Window(c, CqEntries, Start, 0)) = 0 BY <3>1, CqSize, WindowType
    <3> QED BY <3>2, <3>3 DEF c
  <2>2. Unread(cq) = w \o <<>> BY <1>4, <1>6 DEF Unread
  <2> HIDE DEF w
  <2>3. w = <<>> /\ \A G : <<>> \in Seq(G) BY <2>1, EmptyWindow
  <2>4. Unread(cq) = <<>> BY <2>2, <2>3
  <2> QED BY <2>3, <2>4, CountEmpty
<1>9. SqInv /\ CqInv BY <1>3, <1>4, <1>5, <1>6, <1>7, <1>8 DEF SqInv, CqInv, E, F
<1>10. \A s, k : Sent(s, k) = 0 /\ Back(s, k) = 0
  <2>1. \A s, k : Sent(s, k) = Count(Unsent(sq), s, k) BY <1>9, SentNat
  <2>2. \A s, k : Back(s, k) = Count(Unread(cq), s, k) BY <1>9, BackNat
  <2> QED BY <1>7, <1>8, <2>1, <2>2
<1>11. TypeInv
  <2>1. tune \in [Slots -> Tunings] BY <1>2, NoChainType
  <2>2. kern \in [Slots -> Kerns] BY <1>2 DEF Kerns
  <2>3. fd \in [Slots -> Owners] BY <1>2 DEF Owners
  <2> QED BY <1>2, <2>1, <2>2, <2>3, SqSize DEF TypeInv
<1>12. GrantInv BY <1>2 DEF GrantInv
<1>13. \A s \in Slots : ~tune[s].live /\ tune[s].next = None BY <1>2 DEF NoChain
<1>14. \A s \in Slots : kern[s].opt = 0 /\ kern[s].con = "none" BY <1>2
<1>15. \A s \in Slots : OwnerAt(s)
  <2> TAKE s \in Slots
  <2>1. Sent(s, "close") + Back(s, "closed") = 0 BY <1>10
  <2>2. fd[s] = "free" /\ front # s BY <1>2, SlotAssumption
  <2> QED BY <1>13, <2>1, <2>2 DEF OwnerAt, OwnerOK
<1>16. \A s \in Slots : EntriesAt(s) BY <1>7 DEF EntriesAt, EntriesOK
<1>17. ListInv(<<>>)
  <2>1. <<>> \in Seq(Slots) /\ ToSet(<<>>) = {} BY DEF ToSet
  <2>2. IsDue(<<>>) BY <1>2 DEF IsDue, IsInjective
  <2>3. \A s \in Slots : ChainAt(s, s \in ToSet(<<>>))
    <3> TAKE s \in Slots
    <3>1. Outstanding(s) = 0
      <4>1. Held(s) = 0 BY <1>14 DEF Held
      <4> QED BY <1>10, <4>1 DEF Outstanding
    <3> QED BY <1>13, <2>1, <3>1 DEF ChainAt, ChainOK
  <2> QED BY <2>1, <2>2, <2>3 DEF ListInv
<1>18. \E d \in Seq(Slots) : ListInv(d) BY <1>17 DEF ListInv
<1> QED BY <1>9, <1>11, <1>12, <1>15, <1>16, <1>18 DEF IInv

LEMMA NextInv == IInv /\ [Next]_vars => IInv'
<1> SUFFICES ASSUME IInv, [Next]_vars PROVE IInv'
  OBVIOUS
<1>1. CASE Reclaim BY <1>1, ReclaimStep
<1>2. CASE Resolve BY <1>2, ResolveStep
<1>3. CASE EndDispatch BY <1>3, EndDispatchStep
<1>4. CASE Commit BY <1>4, CommitStep
<1>5. CASE Wait BY <1>5, WaitStep
<1>6. CASE Return \/ Interrupt BY <1>6, LeaveStep DEF Return, Interrupt
<1>7. CASE KernelTake BY <1>7, KernelTakeStep
<1>8. CASE \E s \in Slots : Cancel(s) \/ Drop(s) BY <1>8, CancelStep, DropStep
<1>9. CASE \E s \in Slots : \E n \in Counts, b \in BOOLEAN : Begin(s, n, b) BY <1>9, BeginStep
<1>10. CASE \E s \in Slots : \E out \in Outcomes : KernelOption(s, out) \/ KernelConnect(s, out)
  BY <1>10, KernelOptionStep, KernelConnectStep
<1>11. CASE UNCHANGED vars
  <2>1. UNCHANGED <<sq, cq, tune, ready, fd, front, turn, grant, kern, lied>> BY <1>11 DEF vars
  <2>2. SqInv' /\ CqInv' /\ GrantInv' BY <2>1 DEF IInv, SqInv, CqInv, GrantInv
  <2>3. turn' \in {"run", "in", "commit", "wait"} /\ grant' \in 0 .. SqEntries BY <2>1 DEF IInv, TypeInv
  <2> QED BY <2>1, <2>2, <2>3, QuietStep
<1> QED BY <1>1, <1>2, <1>3, <1>4, <1>5, <1>6, <1>7, <1>8, <1>9, <1>10, <1>11 DEF Next

LEMMA InvTypeOK == IInv => TypeOK
<1> SUFFICES ASSUME IInv PROVE TypeOK
  OBVIOUS
<1> DEFINE a == Sub(sq.tail, sq.khead)
           b == Sub(sq.tail, sq.head)
<1>1. sq.khead \in Cursors /\ sq.ktail \in Cursors /\ sq.head \in Cursors /\ sq.tail \in Cursors
  BY DEF IInv, SqInv, SqRings
<1>2. cq.khead \in Cursors /\ cq.ktail \in Cursors /\ cq.head \in Cursors
  BY DEF IInv, CqInv, CqRings
<1>3. a \in Cursors /\ b \in Cursors BY <1>1, SubCases
<1>4. b <= SqEntries /\ Sub(sq.ktail, sq.khead) <= a /\ a <= b BY DEF IInv, SqInv, SqOrder
<1>5. a <= SqEntries
  <2> HIDE DEF a, b
  <2> QED BY <1>3, <1>4, SqSize DEF Cursors
<1>6. CqOrder(cq) BY DEF IInv, CqInv
<1>7. {sq.khead, sq.ktail, sq.head, sq.tail, cq.khead, cq.ktail, cq.head} \subseteq 0 .. Wrap - 1
  BY <1>1, <1>2 DEF Cursors
<1>8. TypeInv BY DEF IInv
<1> QED BY <1>4, <1>5, <1>6, <1>7, <1>8 DEF TypeOK, CqOrder, TypeInv, Tunings, Owners

LEMMA DueBounded ==
  ASSUME NEW d \in Seq(Slots), IsDue(d)
  PROVE  d \in BoundedSeq(Slots, Cardinality(Slots))
<1> DEFINE n == Len(d)
           c == Cardinality(Slots)
<1>1. n \in Nat /\ d \in [1 .. n -> Slots] BY LenProperties
<1>2. d \in Injection(1 .. n, Slots) BY <1>1 DEF IsDue, Injection, IsInjective
<1>3. IsFiniteSet(Slots) BY EngineAssumption
<1>4. Cardinality(1 .. n) <= c BY <1>2, <1>3, FS_Injection
<1>5. Cardinality(1 .. n) = IF 1 > n THEN 0 ELSE n - 1 + 1
  <2>1. 1 \in Int /\ n \in Int BY <1>1
  <2> HIDE DEF n
  <2> QED BY <2>1, FS_Interval
<1>6. c \in Nat BY <1>3, FS_CardinalityType
<1> HIDE DEF n, c
<1>7. n \in 0 .. c BY <1>1, <1>4, <1>5, <1>6
<1>8. d \in SeqOf(Slots, c) BY <1>1, <1>7 DEF SeqOf
<1> QED BY <1>8 DEF BoundedSeq, c

LEMMA InvChains == IInv => ChainsAreExact
<1> SUFFICES ASSUME IInv PROVE ChainsAreExact
  OBVIOUS
<1>1. PICK d \in Seq(Slots) : ListInv(d) BY DEF IInv
<1>2. IsDue(d) BY <1>1 DEF ListInv
<1>3. d \in BoundedSeq(Slots, Cardinality(Slots)) BY <1>2, DueBounded
<1>4. \A s \in Slots :
        IF ~tune[s].live THEN Outstanding(s) = 0 /\ s \notin ToSet(d)
        ELSE IF tune[s].phase # "Idle"
        THEN Outstanding(s) = tune[s].count /\ Sent(s, "con") = 0 /\ s \notin ToSet(d)
        ELSE Outstanding(s) = IF s \in ToSet(d) THEN 0 ELSE 1
  <2> TAKE s \in Slots
  <2>1. ChainAt(s, s \in ToSet(d)) BY <1>1 DEF ListInv
  <2>2. tune[s].live \in BOOLEAN BY SlotTypes DEF Tunings
  <2> QED BY <2>1, <2>2 DEF ChainAt, ChainOK
<1>5. ~lied BY DEF IInv, TypeInv
<1> QED BY <1>2, <1>3, <1>4, <1>5 DEF ChainsAreExact

LEMMA InvOwners == IInv => OwnersAreSeparate
<1> SUFFICES ASSUME IInv PROVE OwnersAreSeparate
  OBVIOUS
<1> DEFINE u == Unsent(sq)
<1>1. ASSUME NEW s \in Slots
      PROVE  /\ fd[s] = "closing" => ~tune[s].live /\ Sent(s, "close") + Back(s, "closed") = 1
             /\ fd[s] # "closing" => Sent(s, "close") + Back(s, "closed") = 0
             /\ \A i \in DOMAIN u : u[i].k = "cancel" /\ u[i].s = s =>
                  /\ \A j \in 1 .. i - 1 : u[j].k \in {"opt", "con"} /\ u[j].s = s => u[j].c = u[i].c
                  /\ Matches(s) => u[i].c = kern[s].c
  <2>1. OwnerAt(s) /\ EntriesAt(s) BY DEF IInv
  <2>2. /\ fd[s] = "closing" => ~tune[s].live /\ Sent(s, "close") + Back(s, "closed") = 1
        /\ fd[s] # "closing" => Sent(s, "close") + Back(s, "closed") = 0
    BY <2>1 DEF OwnerAt, OwnerOK
  <2>3. \A i \in DOMAIN u : u[i].k = "cancel" /\ u[i].s = s =>
                  /\ \A j \in 1 .. i - 1 : u[j].k \in {"opt", "con"} /\ u[j].s = s => u[j].c = u[i].c
                  /\ Matches(s) => u[i].c = kern[s].c
    BY <2>1 DEF EntriesAt, EntriesOK
  <2> QED BY <2>2, <2>3
<1> QED BY <1>1 DEF OwnersAreSeparate

(* The inductive invariant: the rings are ordered and hold requests of the *)
(* chains of their slots, each slot's account of outstanding requests is   *)
(* exact, the due chains form a list, and the owner of a slot agrees with  *)
(* its chain.                                                              *)
THEOREM InvariantHolds == Spec => []IInv
BY InitInv, NextInv, PTL DEF Spec

(* Whatever the sizes of the rings and wherever their counters wrap, the   *)
(* driver's cached head and its tail stay within the ring behind the       *)
(* kernel's, and no cursor overtakes another (raw.rs of both queues).      *)
THEOREM RingsAreOrdered == Spec => []TypeOK
BY InvariantHolds, InvTypeOK, PTL

(* No completion of a chain is lost, duplicated or met twice, and every    *)
(* chain is reported as it ended (Table::observe, Table::next), for every  *)
(* number of slots.                                                        *)
THEOREM ChainsStayExact == Spec => []ChainsAreExact
BY InvariantHolds, InvChains, PTL

(* Nothing of a slot reaches its next owner: one close, submitted when     *)
(* nothing of the slot is outstanding, and cancellations that stand before *)
(* every later chain (Retire::retire, engine::Cancel).                     *)
THEOREM OwnersStaySeparate == Spec => []OwnersAreSeparate
BY InvariantHolds, InvOwners, PTL
=============================================================================
