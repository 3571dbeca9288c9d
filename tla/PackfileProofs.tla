---------------------------- MODULE PackfileProofs ----------------------------
(***************************************************************************)
(* Proofs about one pack, for packs of any length in any order of bases    *)
(* and deltas: its numbers and deltas are read as they were written, and   *)
(* what is found in it is what it stands for.  The hypothesis is that git  *)
(* wrote the packs that servers send (PacksAreGits).                       *)
(***************************************************************************)
EXTENDS Packfile, SequenceTheorems, FiniteSetTheorems, WellFoundedInduction, TLAPS

-------------------------------------------------------------------------------
(* Recursive functions of numbers.                                          *)

\* A set of numbers has a least one.
LEMMA LeastNumber ==
  ASSUME NEW S, S \subseteq Nat, S # {}
  PROVE  \E n \in S : \A m \in S : n <= m
<1>1. \E R : IsWellFoundedOn(R, Nat) /\ \A m \in Nat, n \in Nat : m < n => <<m, n>> \in R
  <2>1. IsWellFoundedOn(OpToRel(<, Nat), Nat)
    BY NatLessThanWellFounded
  <2>2. \A m \in Nat, n \in Nat : m < n => <<m, n>> \in OpToRel(<, Nat)
    BY DEF OpToRel
  <2> QED
    BY <2>1, <2>2, Zenon
<1>2. PICK R : IsWellFoundedOn(R, Nat) /\ \A m \in Nat, n \in Nat : m < n => <<m, n>> \in R
  BY <1>1
<1>3. PICK n \in S : \A m \in S : <<m, n>> \notin R
  <2>1. IsWellFoundedOn(R, Nat)
    BY <1>2
  <2> QED
    BY <2>1, WFMin
<1>4. ASSUME NEW m \in S
      PROVE  n <= m
  <2>1. m \in Nat /\ n \in Nat /\ ~(m < n)
    BY <1>2, <1>3
  <2> QED
    BY <2>1
<1> QED
  BY <1>4

\* One step of a recursion: the value at n from the one at a smaller number.
Made(stop, base, down, step, f, n) ==
  IF n \in stop THEN base[n] ELSE step[<<n, f[down[n]]>>]

\* It goes to ever smaller numbers.
Descends(D, V, stop, base, down, step) ==
  /\ D \subseteq Nat /\ base \in [D -> V] /\ down \in [D -> D] /\ step \in [D \X V -> V]
  /\ \A n \in D : n \notin stop => down[n] < n

Solves(f, D, V, stop, base, down, step) ==
  f \in [D -> V] /\ \A n \in D : f[n] = Made(stop, base, down, step, f, n)

\* A recursion that goes to ever smaller numbers is that of a function.
LEMMA Recursion ==
  ASSUME NEW D, NEW V, NEW stop, NEW base, NEW down, NEW step,
         Descends(D, V, stop, base, down, step)
  PROVE  \E f : Solves(f, D, V, stop, base, down, step)
<1> USE DEF Descends
<1> DEFINE UpTo(N)     == {n \in D : n <= N}
           Stage(f, N) == /\ f \in [UpTo(N) -> V]
                          /\ \A n \in UpTo(N) : f[n] = Made(stop, base, down, step, f, n)
<1>1. ASSUME NEW N \in Nat, NEW M \in Nat, NEW f, NEW g, Stage(f, N), Stage(g, M),
             NEW n \in D, n <= N, n <= M
      PROVE  f[n] = g[n]
  <2> DEFINE Differ == {k \in D : k <= N /\ k <= M /\ f[k] # g[k]}
  <2> SUFFICES ASSUME Differ # {}
               PROVE  FALSE
    BY <1>1
  <2>1. PICK k \in Differ : \A l \in Differ : k <= l
    <3>1. Differ \subseteq Nat
      OBVIOUS
    <3> HIDE DEF Differ
    <3> QED
      BY <3>1, LeastNumber
  <2>2. k \in Nat /\ f[k] # g[k] /\ k \in UpTo(N) /\ k \in UpTo(M)
    OBVIOUS
  <2>3. k \in stop => f[k] = base[k] /\ g[k] = base[k]
    BY <1>1, <2>2 DEF Made
  <2>4. ASSUME k \notin stop
        PROVE  FALSE
    <3>1. down[k] \in D /\ down[k] \in Nat /\ down[k] < k
      BY <2>2, <2>4
    <3>2. f[down[k]] = g[down[k]]
      BY <2>1, <2>2, <3>1
    <3>3. f[k] = step[<<k, f[down[k]]>>] /\ g[k] = step[<<k, g[down[k]]>>]
      BY <1>1, <2>2, <2>4 DEF Made
    <3> QED
      BY <2>2, <3>2, <3>3
  <2> QED
    BY <2>2, <2>3, <2>4
<1>2. ASSUME NEW N \in Nat
      PROVE  \E f : Stage(f, N)
  <2> DEFINE Without == {n \in Nat : ~\E f : Stage(f, n)}
  <2> SUFFICES ASSUME Without # {}
               PROVE  FALSE
    BY <1>2
  <2>1. PICK n \in Without : \A m \in Without : n <= m
    <3>1. Without \subseteq Nat
      OBVIOUS
    <3> HIDE DEF Without
    <3> QED
      BY <3>1, LeastNumber
  <2>2. \E g : /\ \A m \in UpTo(n) : m # n => g[m] \in V
               /\ \A m \in UpTo(n) : m # n => g[m] = Made(stop, base, down, step, g, m)
    <3>1. CASE n = 0
      <4>1. \A m \in UpTo(n) : m = n
        BY <3>1
      <4> QED
        BY <4>1
    <3>2. CASE n # 0
      <4>1. n - 1 \in Nat /\ ~(n <= n - 1)
        BY <3>2
      <4>2. n - 1 \notin Without
        BY <2>1, <4>1
      <4>3. PICK g : Stage(g, n - 1)
        BY <4>1, <4>2
      <4>4. \A m \in UpTo(n) : m # n => m \in UpTo(n - 1)
        BY <4>1
      <4> QED
        BY <4>3, <4>4
    <3> QED
      BY <3>1, <3>2
  <2>3. PICK g : /\ \A m \in UpTo(n) : m # n => g[m] \in V
                 /\ \A m \in UpTo(n) : m # n => g[m] = Made(stop, base, down, step, g, m)
    BY <2>2
  <2> DEFINE f == [m \in UpTo(n) |-> IF m # n THEN g[m] ELSE Made(stop, base, down, step, g, m)]
  <2>4. ASSUME NEW m \in UpTo(n), m \notin stop
        PROVE  down[m] \in UpTo(n) /\ down[m] # n
    <3>1. m \in D /\ m \in Nat /\ m <= n /\ n \in Nat
      BY <2>1, <2>4
    <3>2. down[m] \in D /\ down[m] \in Nat /\ down[m] < m
      BY <2>4, <3>1
    <3>3. down[m] <= n /\ down[m] # n
      BY <3>1, <3>2
    <3> QED
      BY <3>2, <3>3
  <2>5. ASSUME NEW m \in UpTo(n)
        PROVE  Made(stop, base, down, step, f, m) = Made(stop, base, down, step, g, m)
    BY <2>4 DEF Made
  <2>6. ASSUME NEW m \in UpTo(n)
        PROVE  Made(stop, base, down, step, g, m) \in V
    BY <2>3, <2>4 DEF Made
  <2>7. Stage(f, n)
    <3>1. \A m \in UpTo(n) : f[m] = Made(stop, base, down, step, g, m)
      BY <2>3
    <3> HIDE DEF f
    <3>2. \A m \in UpTo(n) : f[m] \in V
      BY <2>6, <3>1
    <3>3. f = [m \in UpTo(n) |-> f[m]]
      BY DEF f
    <3> QED
      BY <2>5, <3>1, <3>2, <3>3
  <2> QED
    BY <2>1, <2>7
<1> DEFINE Of(N) == CHOOSE f : Stage(f, N)
           f     == [n \in D |-> Of(n)[n]]
<1>3. \A N \in Nat : Stage(Of(N), N)
  BY <1>2
<1>4. ASSUME NEW n \in D
      PROVE  f[n] \in V /\ f[n] = Made(stop, base, down, step, f, n)
  <2> HIDE DEF Of, Stage
  <2>1. n \in Nat /\ Stage(Of(n), n) /\ f[n] = Of(n)[n] /\ n \in UpTo(n)
    BY <1>3
  <2>2. f[n] \in V /\ f[n] = Made(stop, base, down, step, Of(n), n)
    BY <2>1 DEF Stage
  <2>3. ASSUME n \notin stop
        PROVE  f[down[n]] = Of(n)[down[n]]
    <3>1. down[n] \in D /\ down[n] \in Nat /\ down[n] < n
      BY <2>1, <2>3
    <3>2. down[n] <= n /\ down[n] <= down[n]
      BY <2>1, <3>1
    <3>3. Stage(Of(down[n]), down[n]) /\ f[down[n]] = Of(down[n])[down[n]]
      BY <1>3, <3>1
    <3> QED
      BY <1>1, <2>1, <3>1, <3>2, <3>3
  <2> QED
    BY <2>2, <2>3 DEF Made
<1>5. f \in [D -> V]
  BY <1>4
<1> HIDE DEF f
<1> QED
  BY <1>4, <1>5 DEF Solves

-------------------------------------------------------------------------------
(* Numbers are read as they were written.                                   *)

\* The bit of a byte that says that more follow is its highest.
LEMMA MoreIsHigh ==
  ASSUME NEW byte \in 0..255
  PROVE  More(byte) <=> byte >= 128
<1>1. 2^7 = 128
  OBVIOUS
<1> QED
  BY <1>1 DEF More, Bit

\* Bytes of one number: another follows each but the last.
Number(s) ==
  /\ s \in Seq(0..255) /\ Len(s) \in Nat \ {0}
  /\ \A i \in 1..(Len(s) - 1) : More(s[i])
  /\ ~More(s[Len(s)])

\* The bytes s are found in data from here on.
At(data, here, s) ==
  /\ data \in Seq(0..255) /\ here \in Nat \ {0} /\ here - 1 + Len(s) <= Len(data)
  /\ \A i \in 1..Len(s) : data[here - 1 + i] = s[i]

\* A number that begins here ends with its last byte.
LEMMA NumberEnds ==
  ASSUME NEW data, NEW here, NEW s, Number(s), At(data, here, s)
  PROVE  LastOf(data, here) = here - 1 + Len(s)
<1> DEFINE last    == here - 1 + Len(s)
           Ends(p) == ~More(data[p]) /\ \A q \in here..(p - 1) : More(data[q])
<1>1. here \in Nat \ {0} /\ Len(s) \in Nat \ {0} /\ Len(data) \in Nat /\ last <= Len(data)
  BY DEF Number, At
<1>2. last \in here..Len(data) /\ ~More(data[last])
  BY <1>1 DEF Number, At
<1>3. ASSUME NEW q \in here..(last - 1)
      PROVE  More(data[q])
  <2>1. q - here + 1 \in 1..(Len(s) - 1) /\ q = here - 1 + (q - here + 1)
    BY <1>1
  <2>2. q - here + 1 \in 1..Len(s)
    BY <1>1, <2>1
  <2>3. data[q] = s[q - here + 1]
    BY <2>1, <2>2 DEF At
  <2> QED
    BY <2>1, <2>3 DEF Number
<1>4. ASSUME NEW p \in here..Len(data), Ends(p)
      PROVE  p = last
  <2>1. ~(p \in here..(last - 1))
    BY <1>3, <1>4
  <2>2. ~(last \in here..(p - 1))
    BY <1>2, <1>4
  <2> QED
    BY <1>1, <1>2, <2>1, <2>2
<1>5. LastOf(data, here) = CHOOSE p \in here..Len(data) : Ends(p)
  BY DEF LastOf
<1> QED
  BY <1>2, <1>3, <1>4, <1>5

\* A byte that others follow goes in front of a number.
LEMMA NumberInFront ==
  ASSUME NEW s, Number(s), NEW byte \in 128..255
  PROVE  Number(<<byte>> \o s)
<1> DEFINE t == <<byte>> \o s
<1>1. s \in Seq(0..255) /\ Len(s) \in Nat \ {0} /\ <<byte>> \in Seq(0..255)
  BY DEF Number
<1>2. /\ t \in Seq(0..255) /\ Len(t) = Len(s) + 1 /\ t[1] = byte
      /\ \A i \in 2..Len(t) : t[i] = s[i - 1]
  BY <1>1
<1> HIDE DEF t
<1>3. ASSUME NEW i \in 1..(Len(t) - 1)
      PROVE  More(t[i])
  <2>1. CASE i = 1
    <3>1. byte \in 0..255 /\ byte >= 128
      OBVIOUS
    <3>2. More(byte)
      BY <3>1, MoreIsHigh
    <3> QED
      BY <1>2, <2>1, <3>2
  <2>2. CASE i # 1
    <3>1. i \in 2..Len(t) /\ i - 1 \in 1..(Len(s) - 1)
      BY <1>1, <1>2, <2>2
    <3> QED
      BY <1>2, <3>1 DEF Number
  <2> QED
    BY <2>1, <2>2
<1>4. ~More(t[Len(t)])
  <2>1. Len(t) \in 2..Len(t) /\ Len(t) - 1 = Len(s)
    BY <1>1, <1>2
  <2> QED
    BY <1>2, <2>1 DEF Number
<1>5. Len(t) \in Nat \ {0}
  BY <1>1, <1>2
<1>6. Number(t)
  BY <1>2, <1>3, <1>4, <1>5 DEF Number
<1> QED
  BY <1>6 DEF t

\* Bytes that others follow.
High == 128..255

\* One byte is a sequence of bytes.
LEMMA OneByte ==
  \A byte \in 0..255 : <<byte>> \in Seq(0..255) /\ Len(<<byte>>) = 1 /\ <<byte>>[1] = byte
OBVIOUS

\* They are bytes, each followed by another.
LEMMA HighBytes ==
  /\ High \subseteq 0..255 /\ Seq(High) \subseteq Seq(0..255)
  /\ \A byte \in High : More(byte)
<1>1. \A byte \in 128..255 : byte \in 0..255 /\ byte >= 128
  OBVIOUS
<1>2. High \subseteq 0..255 /\ \A byte \in High : More(byte)
  BY <1>1, MoreIsHigh DEF High
<1>3. Seq(High) \subseteq Seq(0..255)
  <2> DEFINE R == 0..255
  <2>1. High \subseteq R
    BY <1>2
  <2> HIDE DEF R
  <2>2. Seq(High) \subseteq Seq(R)
    <3> SUFFICES ASSUME NEW s \in Seq(High)
                 PROVE  s \in Seq(R)
      OBVIOUS
    <3> QED
      BY <2>1, SeqMonotonic
  <2> QED
    BY <2>2 DEF R
<1> QED
  BY <1>2, <1>3

\* After such bytes a low one ends the number.
LEMMA NumberOfLast ==
  ASSUME NEW s \in Seq(High), NEW byte \in 0..127
  PROVE  Number(Append(s, byte))
<1> DEFINE t == Append(s, byte)
<1>1. s \in Seq(0..255)
  BY HighBytes
<1>2. byte \in 0..255 /\ ~(byte >= 128)
  OBVIOUS
<1>3. /\ t \in Seq(0..255) /\ Len(s) \in Nat /\ Len(t) = Len(s) + 1 /\ t[Len(s) + 1] = byte
      /\ \A i \in 1..Len(s) : t[i] = s[i]
  BY <1>1, <1>2, AppendProperties
<1> HIDE DEF t
<1>4. ASSUME NEW i \in 1..(Len(t) - 1)
      PROVE  More(t[i])
  <2>1. i \in 1..Len(s)
    BY <1>3
  <2>2. s[i] \in High
    BY <2>1, ElementOfSeq
  <2> QED
    BY <1>3, <2>1, <2>2, HighBytes
<1>5. ~More(byte)
  BY <1>2, MoreIsHigh
<1>6. Number(t)
  BY <1>3, <1>4, <1>5 DEF Number
<1> QED
  BY <1>6 DEF t

\* The two encodings are functions of any number.
LEMMA GroupsAre ==
  \A n \in Nat : Groups[n] = IF n < 128 THEN <<n>> ELSE <<128 + (n % 128)>> \o Groups[n \div 128]
<1> DEFINE V    == Seq(0..255)
           stop == 0..127
           base == [n \in Nat |-> <<n % 128>>]
           down == [n \in Nat |-> n \div 128]
           step == [x \in Nat \X V |-> <<128 + (x[1] % 128)>> \o x[2]]
<1>1. base \in [Nat -> V] /\ down \in [Nat -> Nat] /\ step \in [Nat \X V -> V]
  <2>1. \A n \in Nat : n % 128 \in 0..255 /\ 128 + (n % 128) \in 0..255 /\ n \div 128 \in Nat
    OBVIOUS
  <2>2. \A n \in Nat : <<n % 128>> \in V /\ <<128 + (n % 128)>> \in V
    BY <2>1
  <2>3. ASSUME NEW x \in Nat \X V
        PROVE  <<128 + (x[1] % 128)>> \o x[2] \in V
    <3>1. x[1] \in Nat /\ x[2] \in V
      OBVIOUS
    <3> HIDE DEF V
    <3>2. <<128 + (x[1] % 128)>> \in V
      BY <2>2, <3>1
    <3> QED
      BY <3>1, <3>2, ConcatProperties DEF V
  <2> HIDE DEF V
  <2>4. base \in [Nat -> V]
    BY <2>2
  <2>5. down \in [Nat -> Nat]
    BY <2>1
  <2>6. step \in [Nat \X V -> V]
    BY <2>3
  <2> QED
    BY <2>4, <2>5, <2>6
<1>2. \A n \in Nat : n \notin stop => down[n] < n
  OBVIOUS
<1> HIDE DEF V
<1>3. PICK f : Solves(f, Nat, V, stop, base, down, step)
  <2>1. Descends(Nat, V, stop, base, down, step)
    BY <1>1, <1>2 DEF Descends
  <2> HIDE DEF stop, base, down, step
  <2> QED
    BY <2>1, Recursion
<1>4. f \in [Nat -> V] /\ \A n \in Nat : f[n] = Made(stop, base, down, step, f, n)
  BY <1>3 DEF Solves
<1>5. ASSUME NEW n \in Nat
      PROVE  f[n] = IF n < 128 THEN <<n>> ELSE <<128 + (n % 128)>> \o f[n \div 128]
  <2>1. CASE n < 128
    <3>1. n \in stop /\ base[n] = <<n>>
      BY <2>1
    <3> HIDE DEF stop, base, down, step
    <3> QED
      BY <1>4, <2>1, <3>1 DEF Made
  <2>2. CASE ~(n < 128)
    <3>1. n \notin stop /\ down[n] = n \div 128 /\ n \div 128 \in Nat
      BY <2>2
    <3>2. f[n \div 128] \in V
      BY <1>4, <3>1
    <3>3. step[<<n, f[n \div 128]>>] = <<128 + (n % 128)>> \o f[n \div 128]
      BY <3>2
    <3> HIDE DEF stop, base, down, step
    <3> QED
      BY <1>4, <2>2, <3>1, <3>3 DEF Made
  <2> QED
    BY <2>1, <2>2
<1>6. f = [n \in Nat |-> IF n < 128 THEN <<n>> ELSE <<128 + (n % 128)>> \o f[n \div 128]]
  <2>1. f = [n \in Nat |-> f[n]]
    BY <1>4
  <2> QED
    BY <1>5, <2>1
<1> DEFINE Is(g) ==
      g = [n \in Nat |-> IF n < 128 THEN <<n>> ELSE <<128 + (n % 128)>> \o g[n \div 128]]
<1>7. Is(f)
  BY <1>6, Zenon
<1>8. Groups = CHOOSE g : Is(g)
  BY Zenon DEF Groups
<1> HIDE DEF Is
<1>9. Is(Groups)
  BY <1>7, <1>8, Zenon
<1> QED
  BY <1>9 DEF Is

\* So is Leading a function of any number.
LEMMA LeadingAre ==
  \A n \in Nat : Leading[n] =
    IF n < 128 THEN <<128 + n>> ELSE Append(Leading[(n \div 128) - 1], 128 + (n % 128))
<1> DEFINE V    == Seq(0..255)
           stop == 0..127
           base == [n \in Nat |-> <<128 + (n % 128)>>]
           down == [n \in Nat |-> IF n < 128 THEN 0 ELSE (n \div 128) - 1]
           step == [x \in Nat \X V |-> Append(x[2], 128 + (x[1] % 128))]
<1>1. base \in [Nat -> V] /\ down \in [Nat -> Nat] /\ step \in [Nat \X V -> V]
  <2>1. \A n \in Nat : /\ 128 + (n % 128) \in 0..255
                       /\ (IF n < 128 THEN 0 ELSE (n \div 128) - 1) \in Nat
    OBVIOUS
  <2>2. \A n \in Nat : <<128 + (n % 128)>> \in V
    BY <2>1
  <2>3. ASSUME NEW x \in Nat \X V
        PROVE  Append(x[2], 128 + (x[1] % 128)) \in V
    <3>1. x[1] \in Nat /\ x[2] \in V
      OBVIOUS
    <3>2. 128 + (x[1] % 128) \in 0..255
      BY <2>1, <3>1
    <3> QED
      BY <3>1, <3>2, AppendProperties
  <2> HIDE DEF V
  <2> QED
    BY <2>1, <2>2, <2>3
<1>2. \A n \in Nat : n \notin stop => down[n] < n
  OBVIOUS
<1> HIDE DEF V
<1>3. PICK f : Solves(f, Nat, V, stop, base, down, step)
  <2>1. Descends(Nat, V, stop, base, down, step)
    BY <1>1, <1>2 DEF Descends
  <2> HIDE DEF stop, base, down, step
  <2> QED
    BY <2>1, Recursion
<1>4. f \in [Nat -> V] /\ \A n \in Nat : f[n] = Made(stop, base, down, step, f, n)
  BY <1>3 DEF Solves
<1>5. ASSUME NEW n \in Nat
      PROVE  f[n] = IF n < 128 THEN <<128 + n>>
                    ELSE Append(f[(n \div 128) - 1], 128 + (n % 128))
  <2>1. CASE n < 128
    <3>1. n \in stop /\ base[n] = <<128 + n>>
      BY <2>1
    <3> HIDE DEF stop, base, down, step
    <3> QED
      BY <1>4, <2>1, <3>1 DEF Made
  <2>2. CASE ~(n < 128)
    <3>1. n \notin stop /\ down[n] = (n \div 128) - 1 /\ (n \div 128) - 1 \in Nat
      BY <2>2
    <3>2. f[(n \div 128) - 1] \in V
      BY <1>4, <3>1
    <3>3. step[<<n, f[(n \div 128) - 1]>>] = Append(f[(n \div 128) - 1], 128 + (n % 128))
      BY <3>2
    <3> HIDE DEF stop, base, down, step
    <3> QED
      BY <1>4, <2>2, <3>1, <3>3 DEF Made
  <2> QED
    BY <2>1, <2>2
<1>6. f = [n \in Nat |-> IF n < 128 THEN <<128 + n>>
                         ELSE Append(f[(n \div 128) - 1], 128 + (n % 128))]
  <2>1. f = [n \in Nat |-> f[n]]
    BY <1>4
  <2> QED
    BY <1>5, <2>1
<1> DEFINE Is(g) == g = [n \in Nat |-> IF n < 128 THEN <<128 + n>>
                                      ELSE Append(g[(n \div 128) - 1], 128 + (n % 128))]
<1>7. Is(f)
  BY <1>6, Zenon
<1>8. Leading = CHOOSE g : Is(g)
  BY Zenon DEF Leading
<1> HIDE DEF Is
<1>9. Is(Leading)
  BY <1>7, <1>8, Zenon
<1> QED
  BY <1>9 DEF Is

\* What git writes for a size is a number.
LEMMA GroupsAreNumbers ==
  \A n \in Nat : Number(Groups[n])
<1> DEFINE Others == {n \in Nat : ~Number(Groups[n])}
<1> SUFFICES ASSUME Others # {}
             PROVE  FALSE
  OBVIOUS
<1>1. PICK n \in Others : \A m \in Others : n <= m
  <2>1. Others \subseteq Nat
    OBVIOUS
  <2> HIDE DEF Others
  <2> QED
    BY <2>1, LeastNumber
<1>2. n \in Nat /\ ~Number(Groups[n])
  OBVIOUS
<1>3. CASE n < 128
  <2>1. Groups[n] = <<n>>
    BY <1>2, <1>3, GroupsAre
  <2>2. n \in 0..255 /\ ~(n >= 128)
    BY <1>2, <1>3
  <2>3. <<n>> \in Seq(0..255) /\ Len(<<n>>) = 1 /\ <<n>>[1] = n
    BY <2>2
  <2>4. ~More(n)
    BY <2>2, MoreIsHigh
  <2>5. Number(<<n>>)
    BY <2>3, <2>4 DEF Number
  <2> QED
    BY <1>2, <2>1, <2>5
<1>4. CASE ~(n < 128)
  <2>1. n \div 128 \in Nat /\ ~(n <= n \div 128) /\ 128 + (n % 128) \in 128..255
    BY <1>2, <1>4
  <2>2. Number(Groups[n \div 128])
    BY <1>1, <2>1
  <2>3. Number(<<128 + (n % 128)>> \o Groups[n \div 128])
    BY <2>1, <2>2, NumberInFront
  <2> QED
    BY <1>2, <1>4, <2>3, GroupsAre
<1> QED
  BY <1>3, <1>4

\* The groups of a distance in front of the last are followed by another.
LEMMA LeadingAreHigh ==
  \A n \in Nat : Leading[n] \in Seq(High) /\ Len(Leading[n]) \in Nat \ {0}
<1> DEFINE Is(n)  == Leading[n] \in Seq(High) /\ Len(Leading[n]) \in Nat \ {0}
           Others == {n \in Nat : ~Is(n)}
<1> SUFFICES ASSUME Others # {}
             PROVE  FALSE
  OBVIOUS
<1>1. PICK n \in Others : \A m \in Others : n <= m
  <2>1. Others \subseteq Nat
    OBVIOUS
  <2> HIDE DEF Others
  <2> QED
    BY <2>1, LeastNumber
<1>2. n \in Nat /\ ~Is(n)
  OBVIOUS
<1>3. CASE n < 128
  <2>1. Leading[n] = <<128 + n>>
    BY <1>2, <1>3, LeadingAre
  <2>2. 128 + n \in High
    BY <1>2, <1>3 DEF High
  <2>3. <<128 + n>> \in Seq(High) /\ Len(<<128 + n>>) = 1
    BY <2>2
  <2> QED
    BY <1>2, <2>1, <2>3
<1>4. CASE ~(n < 128)
  <2> DEFINE k == (n \div 128) - 1
  <2>1. k \in Nat /\ ~(n <= k)
    BY <1>2, <1>4
  <2>2. Is(k)
    BY <1>1, <2>1
  <2>3. 128 + (n % 128) \in High
    BY <1>2 DEF High
  <2>4. Leading[n] = Append(Leading[k], 128 + (n % 128))
    BY <1>2, <1>4, LeadingAre
  <2> HIDE DEF k
  <2>5. Is(n)
    BY <2>2, <2>3, <2>4, AppendProperties
  <2> QED
    BY <1>2, <2>5
<1> QED
  BY <1>3, <1>4

\* The kind is in the first byte.
LEMMA HeadersAreNumbers ==
  ASSUME NEW kind \in 0..7, NEW size \in Nat
  PROVE  /\ Number(GitHeader(kind, size))
         /\ (GitHeader(kind, size)[1] \div 16) % 8 = kind
         /\ EncodeSizeType(kind, size) = GitHeader(kind, size)
<1>1. CASE size < 16
  <2> DEFINE byte == 16 * kind + size
  <2>1. /\ byte \in 0..255 /\ ~(byte >= 128) /\ (byte \div 16) % 8 = kind
        /\ kind % 8 = kind /\ size % 16 = size /\ size \div 16 = 0
    BY <1>1
  <2>2. GitHeader(kind, size) = <<byte>>
    BY <1>1 DEF GitHeader
  <2>3. EncodeSizeType(kind, size) = <<byte>>
    BY <2>1 DEF EncodeSizeType
  <2> HIDE DEF byte
  <2>4. <<byte>> \in Seq(0..255) /\ Len(<<byte>>) = 1 /\ <<byte>>[1] = byte
    BY <2>1
  <2>5. ~More(byte)
    BY <2>1, MoreIsHigh
  <2>6. Number(<<byte>>)
    BY <2>4, <2>5 DEF Number
  <2> QED
    BY <2>1, <2>2, <2>3, <2>4, <2>6
<1>2. CASE ~(size < 16)
  <2> DEFINE byte == 128 + 16 * kind + (size % 16)
  <2>1. /\ byte \in 128..255 /\ (byte \div 16) % 8 = kind /\ kind % 8 = kind
        /\ size \div 16 \in Nat /\ size \div 16 # 0
        /\ 128 + (16 * (kind % 8) + (size % 16)) = byte
    BY <1>2
  <2>2. GitHeader(kind, size) = <<byte>> \o Groups[size \div 16]
    BY <1>2 DEF GitHeader
  <2>3. EncodeSizeType(kind, size) = <<byte>> \o Groups[size \div 16]
    BY <2>1 DEF EncodeSizeType
  <2> HIDE DEF byte
  <2>4. Number(Groups[size \div 16])
    BY <2>1, GroupsAreNumbers
  <2>5. Number(<<byte>> \o Groups[size \div 16])
    BY <2>1, <2>4, NumberInFront
  <2>6. (<<byte>> \o Groups[size \div 16])[1] = byte
    BY <2>4 DEF Number
  <2> QED
    BY <2>1, <2>2, <2>3, <2>5, <2>6
<1> QED
  BY <1>1, <1>2

\* What git writes for a distance is a number.
LEMMA OffsetsAreNumbers ==
  \A n \in Nat : Number(GitOffset(n))
<1> SUFFICES ASSUME NEW n \in Nat
             PROVE  Number(GitOffset(n))
  OBVIOUS
<1>1. CASE n < 128
  <2>1. <<>> \in Seq(High) /\ n \in 0..127 /\ Append(<<>>, n) = <<n>>
    BY <1>1
  <2>2. Number(<<n>>)
    BY <2>1, NumberOfLast
  <2> QED
    BY <1>1, <2>2 DEF GitOffset
<1>2. CASE ~(n < 128)
  <2>1. (n \div 128) - 1 \in Nat /\ n % 128 \in 0..127
    BY <1>2
  <2>2. Number(Append(Leading[(n \div 128) - 1], n % 128))
    BY <2>1, LeadingAreHigh, NumberOfLast
  <2> QED
    BY <1>2, <2>2 DEF GitOffset
<1> QED
  BY <1>1, <1>2

\* The loop of parse_packfile that reads a distance (packfile.rs 203-213), which
\* has read the bytes from here to p.
Reading(data, here, last, off) ==
  /\ off \in [here..last -> Nat]
  /\ \A p \in here..last :
       off[p] = IF p = here THEN Low(data[p]) ELSE 128 * (off[p - 1] + 1) + Low(data[p])

\* The loop is that of a function.
LEMMA DistanceIsAFunction ==
  ASSUME NEW data, NEW here \in Nat \ {0}, NEW last \in Nat, LastOf(data, here) = last,
         here <= last, last <= Len(data), data \in Seq(0..255)
  PROVE  \E off : /\ Reading(data, here, last, off)
                  /\ DecodeOffset(data, here) = [off |-> off[last], pos |-> last + 1]
<1> DEFINE D    == here..last
           V    == Nat
           stop == {here}
           base == [p \in D |-> Low(data[p])]
           down == [p \in D |-> IF p = here THEN here ELSE p - 1]
           step == [x \in D \X V |-> 128 * (x[2] + 1) + Low(data[x[1]])]
<1>1. D \subseteq Nat /\ \A p \in D : Low(data[p]) \in Nat
  <2>1. ASSUME NEW p \in D
        PROVE  p \in Nat /\ data[p] \in 0..255
    <3>1. p \in Nat /\ p \in 1..Len(data)
      OBVIOUS
    <3> QED
      BY <3>1, ElementOfSeq
  <2>2. \A byte \in 0..255 : Low(byte) \in Nat
    BY DEF Low
  <2> QED
    BY <2>1, <2>2
<1>2. Descends(D, V, stop, base, down, step)
  <2>1. base \in [D -> V] /\ down \in [D -> D]
    BY <1>1
  <2>2. ASSUME NEW x \in D \X V
        PROVE  128 * (x[2] + 1) + Low(data[x[1]]) \in V
    <3>1. x[1] \in D /\ x[2] \in Nat
      OBVIOUS
    <3>2. Low(data[x[1]]) \in Nat
      BY <1>1, <3>1
    <3> QED
      BY <3>1, <3>2
  <2>3. step \in [D \X V -> V]
    BY <2>2
  <2>4. \A p \in D : p \notin stop => down[p] < p
    OBVIOUS
  <2> QED
    BY <1>1, <2>1, <2>3, <2>4 DEF Descends
<1>3. PICK f : Solves(f, D, V, stop, base, down, step)
  <2> HIDE DEF D, V, stop, base, down, step
  <2> QED
    BY <1>2, Recursion
<1>4. f \in [D -> Nat] /\ \A p \in D : f[p] = Made(stop, base, down, step, f, p)
  BY <1>3 DEF Solves
<1>5. ASSUME NEW p \in D
      PROVE  f[p] = IF p = here THEN Low(data[p]) ELSE 128 * (f[p - 1] + 1) + Low(data[p])
  <2>1. CASE p = here
    BY <1>4, <2>1 DEF Made
  <2>2. CASE p # here
    <3>1. p \notin stop /\ p - 1 \in D /\ down[p] = p - 1
      BY <2>2
    <3>2. step[<<p, f[p - 1]>>] = 128 * (f[p - 1] + 1) + Low(data[p])
      BY <1>4, <3>1
    <3> HIDE DEF D, stop, base, down, step
    <3> QED
      BY <1>4, <2>2, <3>1, <3>2 DEF Made
  <2> QED
    BY <2>1, <2>2
<1> DEFINE Is(off) == off = [p \in here..last |-> IF p = here THEN Low(data[p])
                                               ELSE 128 * (off[p - 1] + 1) + Low(data[p])]
           off == CHOOSE off : Is(off)
<1>6. Is(f)
  <2>1. f = [p \in D |-> f[p]]
    BY <1>4
  <2> QED
    BY <1>5, <2>1
<1>7. DecodeOffset(data, here) = [off |-> off[last], pos |-> last + 1]
  BY DEF DecodeOffset
<1>8. Is(off)
  <2> HIDE DEF Is
  <2> QED
    BY <1>6
<1>9. \A p \in D : off[p] \in Nat
  <2> DEFINE Others == {p \in D : off[p] \notin Nat}
  <2> SUFFICES ASSUME Others # {}
               PROVE  FALSE
    OBVIOUS
  <2>1. PICK p \in Others : \A q \in Others : p <= q
    <3>1. Others \subseteq Nat
      BY <1>1
    <3> HIDE DEF Others
    <3> QED
      BY <3>1, LeastNumber
  <2>2. p \in D /\ off[p] = IF p = here THEN Low(data[p]) ELSE 128 * (off[p - 1] + 1) + Low(data[p])
    BY <1>8
  <2>3. p # here => p - 1 \in D /\ ~(p <= p - 1)
    BY <2>2
  <2>4. p # here => off[p - 1] \in Nat
    BY <2>1, <2>3
  <2> HIDE DEF off
  <2>5. p \in D /\ off[p] \notin Nat /\ Low(data[p]) \in Nat
    BY <1>1, <2>1
  <2>6. CASE p = here
    BY <2>2, <2>5, <2>6
  <2>7. CASE p # here
    <3>1. \A m \in Nat, k \in Nat : 128 * (m + 1) + k \in Nat
      OBVIOUS
    <3> QED
      BY <2>2, <2>4, <2>5, <2>7, <3>1
  <2> QED
    BY <2>6, <2>7
<1>10. Reading(data, here, last, off)
  BY <1>8, <1>9 DEF Reading
<1> QED
  BY <1>7, <1>10

\* A distance is read as git wrote it.
LEMMA DistanceIsRead ==
  ASSUME NEW n \in Nat, NEW data, NEW here, At(data, here, GitOffset(n))
  PROVE  DecodeOffset(data, here) = [off |-> n, pos |-> here + Len(GitOffset(n))]
<1> DEFINE last == here - 1 + Len(GitOffset(n))
<1>1. /\ Number(GitOffset(n)) /\ Len(GitOffset(n)) \in Nat \ {0} /\ LastOf(data, here) = last
      /\ here \in Nat \ {0} /\ last \in Nat /\ here <= last /\ last <= Len(data)
      /\ data \in Seq(0..255) /\ last + 1 = here + Len(GitOffset(n))
  <2>1. Number(GitOffset(n)) /\ Len(GitOffset(n)) \in Nat \ {0}
    BY OffsetsAreNumbers DEF Number
  <2>2. here \in Nat \ {0} /\ last <= Len(data) /\ data \in Seq(0..255)
    BY DEF At
  <2> QED
    BY <2>1, <2>2, NumberEnds
<1>2. PICK off : /\ Reading(data, here, last, off)
                 /\ DecodeOffset(data, here) = [off |-> off[last], pos |-> last + 1]
  <2> HIDE DEF last
  <2> QED
    BY <1>1, DistanceIsAFunction
<1> DEFINE LeadingAt(m) == /\ here - 1 + Len(Leading[m]) <= last
                           /\ \A i \in 1..Len(Leading[m]) : data[here - 1 + i] = Leading[m][i]
<1>3. ASSUME NEW m \in Nat, LeadingAt(m)
      PROVE  off[here - 1 + Len(Leading[m])] = m
  <2> DEFINE Others == {k \in Nat : LeadingAt(k) /\ off[here - 1 + Len(Leading[k])] # k}
  <2> SUFFICES ASSUME Others # {}
               PROVE  FALSE
    BY <1>3
  <2>1. PICK k \in Others : \A j \in Others : k <= j
    <3>1. Others \subseteq Nat
      OBVIOUS
    <3> HIDE DEF Others
    <3> QED
      BY <3>1, LeastNumber
  <2>2. k \in Nat /\ LeadingAt(k) /\ off[here - 1 + Len(Leading[k])] # k
    OBVIOUS
  <2>3. Leading[k] \in Seq(High) /\ Len(Leading[k]) \in Nat \ {0}
    BY <2>2, LeadingAreHigh
  <2>4. CASE k < 128
    <3>1. Leading[k] = <<128 + k>>
      BY <2>2, <2>4, LeadingAre
    <3>2. data[here] = 128 + k
      <4>1. Len(<<128 + k>>) = 1 /\ <<128 + k>>[1] = 128 + k /\ here - 1 + 1 = here
        BY <1>1
      <4> QED
        BY <2>2, <3>1, <4>1
    <3>3. Low(128 + k) = k
      <4>1. \A h \in Nat : h < 128 => (128 + h) % 128 = h
        BY SMTT(30)
      <4> QED
        BY <2>2, <2>4, <4>1 DEF Low
    <3>4. here \in here..last /\ here - 1 + Len(Leading[k]) = here
      BY <1>1, <3>1
    <3>5. off[here] = Low(data[here])
      BY <1>2, <3>4 DEF Reading
    <3> QED
      BY <2>2, <3>2, <3>3, <3>4, <3>5
  <2>5. CASE ~(k < 128)
    <3> DEFINE j == (k \div 128) - 1
    <3>1. j \in Nat /\ ~(k <= j) /\ 128 * (j + 1) + Low(128 + (k % 128)) = k
      <4>1. k \in Nat /\ k >= 128
        BY <2>2, <2>5
      <4>2. \A h \in Nat : h >= 128 =>
              /\ (h \div 128) - 1 \in Nat /\ ~(h <= (h \div 128) - 1)
              /\ 128 * (((h \div 128) - 1) + 1) + ((128 + (h % 128)) % 128) = h
        OBVIOUS
      <4> QED
        BY <4>1, <4>2 DEF Low
    <3>2. Leading[k] = Append(Leading[j], 128 + (k % 128))
      BY <2>2, <2>5, LeadingAre
    <3> HIDE DEF j
    <3>3. Leading[j] \in Seq(High) /\ Len(Leading[j]) \in Nat \ {0} /\ 128 + (k % 128) \in High
      BY <2>2, <3>1, LeadingAreHigh DEF High
    <3> DEFINE L == Len(Leading[j])
               M == Len(Leading[k])
    <3>4. /\ M = L + 1 /\ Leading[k][L + 1] = 128 + (k % 128)
          /\ \A i \in 1..L : Leading[k][i] = Leading[j][i]
      BY <3>2, <3>3, AppendProperties
    <3>5. /\ L \in Nat \ {0} /\ here \in Nat \ {0} /\ last \in Nat /\ here - 1 + M <= last
          /\ \A i \in 1..M : data[here - 1 + i] = Leading[k][i]
      BY <1>1, <2>2, <3>3
    <3> HIDE DEF L, M, last
    <3>6. /\ here - 1 + L <= last /\ (\A i \in 1..L : i \in 1..M) /\ L + 1 \in 1..M
          /\ here - 1 + (L + 1) = here + L /\ here + L \in here..last /\ here + L # here
          /\ (here + L) - 1 = here - 1 + L /\ here - 1 + M = here + L
      <4>1. M = L + 1 /\ L \in Nat \ {0} /\ here \in Nat \ {0} /\ last \in Nat /\ here - 1 + M <= last
        BY <3>4, <3>5
      <4> HIDE DEF Others, LeadingAt
      <4>2. here - 1 + M = here + L /\ here - 1 + L <= last /\ here + L \in here..last
        BY <4>1
      <4>3. /\ L + 1 \in 1..M /\ here - 1 + (L + 1) = here + L /\ here + L # here
            /\ (here + L) - 1 = here - 1 + L
        BY <4>1
      <4>4. \A i \in 1..L : i \in 1..M
        BY <4>1
      <4> QED
        BY <4>2, <4>3, <4>4
    <3>7. \A i \in 1..L : data[here - 1 + i] = Leading[j][i]
      BY <3>4, <3>5, <3>6
    <3>8. data[here + L] = 128 + (k % 128)
      BY <3>4, <3>5, <3>6
    <3>9. off[here - 1 + L] = j
      <4>1. LeadingAt(j)
        BY <3>6, <3>7 DEF L
      <4> QED
        BY <2>1, <3>1, <4>1 DEF L
    <3>10. off[here + L] = 128 * (off[(here + L) - 1] + 1) + Low(data[here + L])
      BY <1>2, <3>6 DEF Reading
    <3>11. off[here - 1 + M] = k
      BY <3>1, <3>6, <3>8, <3>9, <3>10
    <3> QED
      BY <2>2, <3>11 DEF M
  <2> QED
    BY <2>4, <2>5
<1>4. off[last] = n
  <2>1. CASE n < 128
    <3>1. GitOffset(n) = <<n>>
      BY <2>1 DEF GitOffset
    <3>2. last = here /\ data[here] = n
      <4>1. Len(<<n>>) = 1 /\ <<n>>[1] = n /\ here - 1 + 1 = here
        BY <1>1
      <4> QED
        BY <3>1, <4>1 DEF At
    <3>3. Low(n) = n
      BY <2>1 DEF Low
    <3> HIDE DEF last
    <3>4. off[here] = Low(data[here])
      BY <1>1, <1>2, <3>2 DEF Reading
    <3> QED
      BY <3>2, <3>3, <3>4
  <2>2. CASE ~(n < 128)
    <3> DEFINE j == (n \div 128) - 1
               L == Len(Leading[j])
    <3>1. j \in Nat /\ 128 * (j + 1) + Low(n % 128) = n
      BY <2>2 DEF Low
    <3>2. GitOffset(n) = Append(Leading[j], n % 128)
      BY <2>2 DEF GitOffset
    <3> HIDE DEF j
    <3>3. Leading[j] \in Seq(0..255) /\ L \in Nat \ {0} /\ n % 128 \in 0..255
      <4>1. Leading[j] \in Seq(High) /\ L \in Nat \ {0}
        BY <3>1, LeadingAreHigh
      <4>2. Leading[j] \in Seq(0..255)
        BY <4>1, HighBytes
      <4> QED
        BY <4>1, <4>2
    <3> DEFINE M == Len(GitOffset(n))
    <3>4. /\ M = L + 1 /\ GitOffset(n)[L + 1] = n % 128
          /\ \A i \in 1..L : GitOffset(n)[i] = Leading[j][i]
      BY <3>2, <3>3, AppendProperties
    <3>5. /\ last = here - 1 + M /\ here \in Nat \ {0}
          /\ \A i \in 1..M : data[here - 1 + i] = GitOffset(n)[i]
      BY <1>1 DEF At
    <3> HIDE DEF L, M, last
    <3>6. /\ last = here + L /\ here + L \in here..last /\ here + L # here /\ L + 1 \in 1..M
          /\ (here + L) - 1 = here - 1 + L /\ here - 1 + (L + 1) = here + L /\ here - 1 + L <= last
          /\ \A i \in 1..L : i \in 1..M
      BY <3>3, <3>4, <3>5
    <3>7. data[here + L] = n % 128 /\ \A i \in 1..L : data[here - 1 + i] = Leading[j][i]
      BY <3>4, <3>5, <3>6
    <3>8. off[here - 1 + L] = j
      <4>1. LeadingAt(j)
        BY <3>6, <3>7 DEF L
      <4> QED
        BY <1>3, <3>1, <4>1 DEF L
    <3>9. off[here + L] = 128 * (off[(here + L) - 1] + 1) + Low(data[here + L])
      BY <1>2, <3>6 DEF Reading
    <3> QED
      BY <3>1, <3>6, <3>7, <3>8, <3>9
  <2> QED
    BY <2>1, <2>2
<1> QED
  BY <1>1, <1>2, <1>4

-------------------------------------------------------------------------------
(* Copies and inserts are read as git wrote them.                             *)

\* The powers that the operands of a copy are made with.
LEMMA PowersOfTwo ==
  /\ 2^0 = 1 /\ 2^1 = 2 /\ 2^2 = 4 /\ 2^3 = 8 /\ 2^4 = 16 /\ 2^5 = 32 /\ 2^6 = 64 /\ 2^7 = 128
  /\ 256^0 = 1 /\ 256^1 = 256 /\ 256^2 = 65536 /\ 256^3 = 16777216
OBVIOUS

\* Offsets are what four bytes can hold.
LEMMA OffsetsAre ==
  \A offset \in Offset : offset \in Nat /\ offset \div 16777216 < 256
BY PowersOfTwo DEF Offset

\* There is a command for every set of bits.
LEMMA CommandExists ==
  ASSUME NEW present \in SUBSET (0..6)
  PROVE  \E c \in 128..255 : \A i \in 0..6 : Bit(c, i) = 1 <=> i \in present
<1> DEFINE b(i) == IF i \in present THEN 1 ELSE 0
           c    == 128 + b(0) + 2 * b(1) + 4 * b(2) + 8 * b(3) + 16 * b(4) + 32 * b(5) + 64 * b(6)
<1>1. \A i \in 0..6 : b(i) \in 0..1 /\ (b(i) = 1 <=> i \in present)
  OBVIOUS
<1>2. ASSUME NEW b0 \in 0..1, NEW b1 \in 0..1, NEW b2 \in 0..1, NEW b3 \in 0..1, NEW b4 \in 0..1,
             NEW b5 \in 0..1, NEW b6 \in 0..1, NEW n,
             n = 128 + b0 + 2 * b1 + 4 * b2 + 8 * b3 + 16 * b4 + 32 * b5 + 64 * b6
      PROVE  /\ n \in 128..255
             /\ Bit(n, 0) = b0 /\ Bit(n, 1) = b1 /\ Bit(n, 2) = b2 /\ Bit(n, 3) = b3
             /\ Bit(n, 4) = b4 /\ Bit(n, 5) = b5 /\ Bit(n, 6) = b6
  BY <1>2, PowersOfTwo DEF Bit
<1> HIDE DEF b
<1>3. c \in 128..255 /\ \A i \in 0..6 : Bit(c, i) = b(i)
  <2>1. /\ c \in 128..255
        /\ Bit(c, 0) = b(0) /\ Bit(c, 1) = b(1) /\ Bit(c, 2) = b(2) /\ Bit(c, 3) = b(3)
        /\ Bit(c, 4) = b(4) /\ Bit(c, 5) = b(5) /\ Bit(c, 6) = b(6)
    <3>1. /\ b(0) \in 0..1 /\ b(1) \in 0..1 /\ b(2) \in 0..1 /\ b(3) \in 0..1
          /\ b(4) \in 0..1 /\ b(5) \in 0..1 /\ b(6) \in 0..1
      BY <1>1
    <3> QED
      BY <1>2, <3>1
  <2>2. \A i \in 0..6 : i = 0 \/ i = 1 \/ i = 2 \/ i = 3 \/ i = 4 \/ i = 5 \/ i = 6
    OBVIOUS
  <2> HIDE DEF c
  <2> QED
    BY <2>1, <2>2
<1> HIDE DEF c
<1> QED
  BY <1>1, <1>3

\* Sets of the bits of a command are finite.
LEMMA BitsAreFinite ==
  \A set \in SUBSET (0..6) : IsFiniteSet(set) /\ Cardinality(set) \in Nat
<1>1. 0 \in Int /\ 6 \in Int
  OBVIOUS
<1>2. IsFiniteSet(0..6)
  BY <1>1, FS_Interval
<1> QED
  BY <1>2, FS_Subset, FS_CardinalityType

\* Bits that are set are numbered from the lowest.
LEMMA PlaceAmongBits ==
  ASSUME NEW set \in SUBSET (0..6), NEW i \in set
  PROVE  /\ Cardinality(set) \in Nat
         /\ Cardinality(Below(set, i)) \in 0..(Cardinality(set) - 1)
         /\ (CHOOSE j \in set : Cardinality(Below(set, j)) = Cardinality(Below(set, i))) = i
<1>1. \A s \in SUBSET (0..6) : IsFiniteSet(s) /\ Cardinality(s) \in Nat
  BY BitsAreFinite
<1>2. \A j \in set : Below(set, j) \in SUBSET (0..6) /\ Below(set, j) \subseteq set
  BY DEF Below
<1>3. ASSUME NEW s \in SUBSET (0..6), NEW t \in SUBSET s, t # s
      PROVE  Cardinality(t) < Cardinality(s)
  <2>1. IsFiniteSet(s) /\ Cardinality(s) \in Nat /\ Cardinality(t) \in Nat
    BY <1>1
  <2>2. Cardinality(t) <= Cardinality(s) /\ Cardinality(t) # Cardinality(s)
    BY <1>3, <2>1, FS_Subset
  <2> QED
    BY <2>1, <2>2
<1>4. Cardinality(Below(set, i)) < Cardinality(set)
  <2>1. i \notin Below(set, i)
    BY DEF Below
  <2> QED
    BY <1>2, <1>3, <2>1
<1>5. ASSUME NEW j \in set, NEW k \in set, j < k
      PROVE  Cardinality(Below(set, j)) < Cardinality(Below(set, k))
  <2>1. \A l \in set : l \in Int
    OBVIOUS
  <2>2. \A l \in set : l < j => l < k
    BY <1>5, <2>1
  <2>3. ~(j < j)
    BY <2>1
  <2>4. Below(set, j) \subseteq Below(set, k) /\ j \in Below(set, k) /\ j \notin Below(set, j)
    BY <1>5, <2>2, <2>3 DEF Below
  <2> QED
    BY <1>2, <1>3, <2>4
<1>6. ASSUME NEW j \in set, Cardinality(Below(set, j)) = Cardinality(Below(set, i))
      PROVE  j = i
  <2>1. Cardinality(Below(set, j)) \in Nat /\ Cardinality(Below(set, i)) \in Nat
    BY <1>1, <1>2
  <2>2. ~(j < i) /\ ~(i < j)
    BY <1>5, <1>6, <2>1
  <2>3. i \in 0..6 /\ j \in 0..6
    OBVIOUS
  <2> QED
    BY <2>2, <2>3
<1>7. (CHOOSE j \in set : Cardinality(Below(set, j)) = Cardinality(Below(set, i))) = i
  BY <1>6
<1>8. Cardinality(set) \in Nat /\ Cardinality(Below(set, i)) \in Nat
  BY <1>1, <1>2
<1> QED
  BY <1>4, <1>7, <1>8

\* The bytes of a number make the number.
LEMMA Remainders ==
  ASSUME NEW n \in Nat, NEW d \in Nat \ {0}
  PROVE  (n \div d) % 256 \in 0..255
<1>1. n \div d \in Nat
  OBVIOUS
<1>2. \A m \in Nat : m % 256 \in 0..255
  OBVIOUS
<1> QED
  BY <1>1, <1>2

\* A number is the sum of its bytes.
LEMMA Digits ==
  ASSUME NEW n \in Nat
  PROVE  /\ n \div 16777216 < 256 =>
              (n % 256) + 256 * (((n \div 256) % 256) + 256 * (((n \div 65536) % 256)
                + 256 * ((n \div 16777216) % 256))) = n
         /\ n < 65536 =>
              (n % 256) + 256 * (((n \div 256) % 256) + 256 * ((n \div 65536) % 256)) = n
OBVIOUS

\* Byte says what those bytes are.
LEMMA BytesAre ==
  ASSUME NEW n \in Nat
  PROVE  /\ \A i \in 0..3 : Byte(n, i) \in 0..255
         /\ n \div 16777216 < 256 =>
              Byte(n, 0) + 256 * (Byte(n, 1) + 256 * (Byte(n, 2) + 256 * Byte(n, 3))) = n
         /\ n < 65536 => Byte(n, 0) + 256 * (Byte(n, 1) + 256 * Byte(n, 2)) = n
<1> DEFINE b0 == (n \div 1) % 256
           b1 == (n \div 256) % 256
           b2 == (n \div 65536) % 256
           b3 == (n \div 16777216) % 256
<1>0. Byte(n, 0) = b0 /\ Byte(n, 1) = b1 /\ Byte(n, 2) = b2 /\ Byte(n, 3) = b3
  BY PowersOfTwo, SMT DEF Byte
<1>1. /\ Byte(n, 0) \in 0..255 /\ Byte(n, 1) \in 0..255
      /\ Byte(n, 2) \in 0..255 /\ Byte(n, 3) \in 0..255
  <2>1. 1 \in Nat \ {0} /\ 256 \in Nat \ {0} /\ 65536 \in Nat \ {0} /\ 16777216 \in Nat \ {0}
    BY SMT
  <2>2. b0 \in 0..255 /\ b1 \in 0..255 /\ b2 \in 0..255 /\ b3 \in 0..255
    BY <2>1, Remainders, SMT
  <2> HIDE DEF b0, b1, b2, b3
  <2> QED
    BY <1>0, <2>2, SMT
<1>2. \A i \in 0..3 : i = 0 \/ i = 1 \/ i = 2 \/ i = 3
  BY SMT
<1>3. Byte(n, 0) = n % 256
  <2>1. n \div 1 = n
    BY SMT
  <2> QED
    BY <1>0, <2>1, SMT
<1>4. /\ n \div 16777216 < 256 =>
              Byte(n, 0) + 256 * (Byte(n, 1) + 256 * (Byte(n, 2) + 256 * Byte(n, 3))) = n
      /\ n < 65536 => Byte(n, 0) + 256 * (Byte(n, 1) + 256 * Byte(n, 2)) = n
  <2>1. /\ n \div 16777216 < 256 => b0 + 256 * (b1 + 256 * (b2 + 256 * b3)) = n
        /\ n < 65536 => b0 + 256 * (b1 + 256 * b2) = n
    BY Digits, SMT
  <2> HIDE DEF b0, b1, b2, b3
  <2> QED
    BY <1>0, <2>1, SMT
<1> QED
  BY <1>1, <1>2, <1>4, SMT

\* The bytes o make the operands of a copy, of which a size of 65536 is 0.
Make(o, offset, size) ==
  /\ o \in [0..6 -> 0..255]
  /\ o[0] + 256 * (o[1] + 256 * (o[2] + 256 * o[3])) = offset
  /\ o[4] + 256 * (o[5] + 256 * o[6]) = IF size = 65536 THEN 0 ELSE size

\* A copy copies something, and at most 65536 bytes.
LEMMA CopySizes ==
  /\ \A size \in CopySize : size \in Nat /\ size # 0
  /\ \A size \in CopySize : size # 65536 => size < 65536
BY SMT DEF CopySize

\* The operands that git writes make the offset and the size.
LEMMA OperandsAre ==
  ASSUME NEW offset \in Offset, NEW size \in CopySize
  PROVE  Make(OperandsOf(offset, size), offset, size)
<1> DEFINE o == OperandsOf(offset, size)
<1>1. offset \in Nat /\ offset \div 16777216 < 256
  BY OffsetsAre, SMT
<1>2. size \in Nat /\ (size # 65536 => size < 65536)
  BY CopySizes, SMT
<1>3. o = [i \in 0..6 |-> IF i < 4 THEN Byte(offset, i)
                          ELSE IF size = 65536 THEN 0 ELSE Byte(size, i - 4)]
  BY SMT DEF OperandsOf
<1> HIDE DEF o
<1>4. /\ o[0] = Byte(offset, 0) /\ o[1] = Byte(offset, 1)
      /\ o[2] = Byte(offset, 2) /\ o[3] = Byte(offset, 3)
  BY <1>3, SMT
<1>5. /\ o[4] = IF size = 65536 THEN 0 ELSE Byte(size, 0)
      /\ o[5] = IF size = 65536 THEN 0 ELSE Byte(size, 1)
      /\ o[6] = IF size = 65536 THEN 0 ELSE Byte(size, 2)
  BY <1>3, SMT
<1>6. \A i \in 0..6 : o[i] \in 0..255
  <2>1. /\ \A i \in 0..3 : Byte(offset, i) \in 0..255
        /\ \A i \in 0..3 : Byte(size, i) \in 0..255
    BY <1>1, <1>2, BytesAre, SMT
  <2>2. /\ o[0] \in 0..255 /\ o[1] \in 0..255 /\ o[2] \in 0..255 /\ o[3] \in 0..255
    BY <1>4, <2>1, SMT
  <2>3. o[4] \in 0..255 /\ o[5] \in 0..255 /\ o[6] \in 0..255
    BY <1>5, <2>1, SMT
  <2>4. \A i \in 0..6 : i = 0 \/ i = 1 \/ i = 2 \/ i = 3 \/ i = 4 \/ i = 5 \/ i = 6
    OBVIOUS
  <2> QED
    BY <2>2, <2>3, <2>4, SMT
<1>7. o \in [0..6 -> 0..255]
  <2>1. o = [i \in 0..6 |-> o[i]]
    BY <1>3, SMT
  <2> QED
    BY <1>6, <2>1, SMT
<1>8. o[0] + 256 * (o[1] + 256 * (o[2] + 256 * o[3])) = offset
  BY <1>1, <1>4, BytesAre, SMT
<1>9. o[4] + 256 * (o[5] + 256 * o[6]) = IF size = 65536 THEN 0 ELSE size
  <2>1. CASE size = 65536
    <3>1. o[4] = 0 /\ o[5] = 0 /\ o[6] = 0
      BY <1>5, <2>1, SMT
    <3> QED
      BY <2>1, <3>1, SMT
  <2>2. CASE size # 65536
    <3>1. o[4] = Byte(size, 0) /\ o[5] = Byte(size, 1) /\ o[6] = Byte(size, 2)
      BY <1>5, <2>2, SMT
    <3>2. Byte(size, 0) + 256 * (Byte(size, 1) + 256 * Byte(size, 2)) = size
      BY <1>2, <2>2, BytesAre, SMT
    <3> QED
      BY <2>2, <3>1, <3>2, SMT
  <2> QED
    BY <2>1, <2>2, SMT
<1> QED
  BY <1>7, <1>8, <1>9, SMT DEF Make, o

\* There is one in each place.
LEMMA EachPlace ==
  ASSUME NEW set \in SUBSET (0..6), NEW k \in 1..Cardinality(set)
  PROVE  \E i \in set : Cardinality(Below(set, i)) = k - 1
<1> DEFINE N        == Cardinality(set)
           place(i) == Cardinality(Below(set, i)) + 1
           f        == [i \in set |-> place(i)]
<1>1. IsFiniteSet(set) /\ N \in Nat
  BY BitsAreFinite
<1>2. \A i \in set : Cardinality(Below(set, i)) \in 0..(N - 1)
  BY PlaceAmongBits
<1>3. \A i \in set, j \in set : Cardinality(Below(set, i)) = Cardinality(Below(set, j)) => i = j
  <2>1. ASSUME NEW i \in set, NEW j \in set, Cardinality(Below(set, i)) = Cardinality(Below(set, j))
        PROVE  i = j
    <3>1. (CHOOSE l \in set : Cardinality(Below(set, l)) = Cardinality(Below(set, i))) = i
      BY PlaceAmongBits
    <3>2. (CHOOSE l \in set : Cardinality(Below(set, l)) = Cardinality(Below(set, j))) = j
      BY PlaceAmongBits
    <3> QED
      BY <2>1, <3>1, <3>2
  <2> QED
    BY <2>1
<1>4. f \in Injection(set, 1..N)
  <2>1. \A i \in set : place(i) \in 1..N
    BY <1>1, <1>2
  <2>2. \A i \in set, j \in set : place(i) = place(j) => i = j
    BY <1>1, <1>2, <1>3
  <2> HIDE DEF place
  <2> QED
    BY <2>1, <2>2 DEF Injection, IsInjective
<1>5. IsFiniteSet(1..N) /\ Cardinality(1..N) = N
  <2>1. 1 \in Int /\ N \in Int /\ (1 > N => N = 0) /\ N - 1 + 1 = N
    BY <1>1
  <2> QED
    BY <2>1, FS_Interval
<1>6. f \in Surjection(set, 1..N)
  <2> HIDE DEF f
  <2> QED
    BY <1>1, <1>4, <1>5, FS_Injection
<1>7. PICK i \in set : f[i] = k
  BY <1>6 DEF Surjection
<1>8. Cardinality(Below(set, i)) \in Nat /\ Cardinality(Below(set, i)) + 1 = k
  BY <1>1, <1>2, <1>7
<1> QED
  BY <1>8

\* A copy instruction c is a command, and those bytes of o that are not zero.
Copies(c, o) ==
  LET present == {i \in 0..6 : o[i] # 0}
  IN  /\ c \in Seq(0..255) /\ Len(c) = Cardinality(present) + 1
      /\ c[1] \in 128..255 /\ \A i \in 0..6 : Bit(c[1], i) = 1 <=> i \in present
      /\ \A i \in present : c[Cardinality(Below(present, i)) + 2] = o[i]

\* It is what git writes for a copy.
LEMMA CopyForm ==
  ASSUME NEW offset \in Offset, NEW size \in CopySize
  PROVE  Copies(CopyOf(offset, size), OperandsOf(offset, size))
<1> DEFINE o       == OperandsOf(offset, size)
           present == {i \in 0..6 : o[i] # 0}
           command == CHOOSE d \in 128..255 : \A i \in 0..6 : Bit(d, i) = 1 <=> i \in present
           N       == Cardinality(present)
           nth(k)  == CHOOSE i \in present : Cardinality(Below(present, i)) = k - 1
           rest    == [k \in 1..N |-> o[nth(k)]]
           c       == CopyOf(offset, size)
<1>1. c = <<command>> \o rest
  BY DEF CopyOf
<1>2. o \in [0..6 -> 0..255]
  BY OperandsAre, SMT DEF Make
<1> HIDE DEF o, c
<1>3. present \in SUBSET (0..6) /\ N \in Nat
  <2>1. present \in SUBSET (0..6)
    OBVIOUS
  <2> HIDE DEF present
  <2> QED
    BY <2>1, BitsAreFinite
<1>4. \A i \in present : i \in 0..6
  OBVIOUS
<1> HIDE DEF present
<1>5. command \in 128..255 /\ \A i \in 0..6 : Bit(command, i) = 1 <=> i \in present
  <2>1. \E d \in 128..255 : \A i \in 0..6 : Bit(d, i) = 1 <=> i \in present
    BY <1>3, CommandExists
  <2> QED
    BY <2>1
<1> HIDE DEF command
<1>6. \A k \in 1..N : nth(k) \in present
  <2>1. \A k \in 1..N : \E i \in present : Cardinality(Below(present, i)) = k - 1
    BY <1>3, EachPlace
  <2> QED
    BY <2>1
<1>7. ASSUME NEW i \in present
      PROVE  /\ Cardinality(Below(present, i)) \in 0..(N - 1)
             /\ nth(Cardinality(Below(present, i)) + 1) = i
  <2> DEFINE B == Cardinality(Below(present, i))
  <2>1. B \in 0..(N - 1) /\ (CHOOSE j \in present : Cardinality(Below(present, j)) = B) = i
    BY <1>3, PlaceAmongBits
  <2>2. (B + 1) - 1 = B
    BY <1>3, <2>1
  <2> HIDE DEF B
  <2>3. nth(B + 1) = i
    BY <2>1, <2>2
  <2> QED
    BY <2>1, <2>3 DEF B
<1> HIDE DEF nth
<1>8. rest \in Seq(0..255) /\ Len(rest) = N /\ \A k \in 1..N : rest[k] = o[nth(k)]
  <2>1. \A k \in 1..N : o[nth(k)] \in 0..255
    BY <1>2, <1>4, <1>6
  <2> HIDE DEF N
  <2> QED
    BY <1>3, <2>1
<1> HIDE DEF rest
<1>9. /\ c \in Seq(0..255) /\ Len(c) = N + 1 /\ c[1] = command
      /\ \A k \in 1..N : c[k + 1] = rest[k]
  <2>1. command \in 0..255
    BY <1>5
  <2>2. <<command>> \in Seq(0..255) /\ Len(<<command>>) = 1 /\ <<command>>[1] = command
    BY <2>1
  <2> HIDE DEF N
  <2> QED
    BY <1>1, <1>3, <1>8, <2>2, ConcatProperties
<1>10. ASSUME NEW i \in present
       PROVE  c[Cardinality(Below(present, i)) + 2] = o[i]
  <2> DEFINE B == Cardinality(Below(present, i))
  <2>1. B \in 0..(N - 1) /\ nth(B + 1) = i
    BY <1>7
  <2> HIDE DEF B, N
  <2>2. B + 1 \in 1..N /\ (B + 1) + 1 = B + 2
    BY <1>3, <2>1
  <2>3. c[B + 2] = o[i]
    BY <1>8, <1>9, <2>1, <2>2
  <2> QED
    BY <2>3 DEF B
<1>11. Copies(c, o)
  BY <1>5, <1>9, <1>10 DEF Copies, present
<1> QED
  BY <1>11 DEF c, o

\* A copy is carried out as git meant it, and what comes after it is next.
LEMMA OperandIsRead ==
  ASSUME NEW delta, NEW here, NEW c, NEW o, Copies(c, o), At(delta, here, c), NEW i \in 0..6
  PROVE  o[i] \in 0..255 => Operand(delta, here, i) = o[i]
<1> DEFINE present == {j \in 0..6 : o[j] # 0}
           B       == Cardinality(Below(present, i))
<1>1. /\ c \in Seq(0..255) /\ Len(c) = Cardinality(present) + 1
      /\ \A j \in 0..6 : Bit(c[1], j) = 1 <=> j \in present
      /\ i \in present => c[B + 2] = o[i]
  BY DEF Copies
<1>2. present \in SUBSET (0..6) /\ Cardinality(present) \in Nat
  <2>1. present \in SUBSET (0..6)
    OBVIOUS
  <2> HIDE DEF present
  <2> QED
    BY <2>1, BitsAreFinite
<1>3. delta[here] = c[1]
  <2>1. 1 \in 1..Len(c) /\ here \in Nat /\ here - 1 + 1 = here
    <3> HIDE DEF present
    <3> QED
      BY <1>1, <1>2 DEF At
  <2> QED
    BY <2>1 DEF At
<1>4. i \in present => B \in 0..(Cardinality(present) - 1)
  <2> HIDE DEF present
  <2> QED
    BY <1>2, PlaceAmongBits
<1>5. {j \in 0..(i - 1) : Bit(delta[here], j) = 1} = Below(present, i)
  <2>1. \A j : j \in 0..(i - 1) <=> j \in 0..6 /\ j < i
    OBVIOUS
  <2>2. \A j \in present : j \in 0..6
    OBVIOUS
  <2> HIDE DEF present
  <2> QED
    BY <1>1, <1>3, <2>1, <2>2 DEF Below
<1>6. CASE i \in present
  <2>1. Bit(delta[here], i) = 1
    <3> HIDE DEF present
    <3> QED
      BY <1>1, <1>3, <1>6
  <2>2. Operand(delta, here, i) = delta[here + 1 + B]
    <3>1. Operand(delta, here, i)
            = delta[here + 1 + Cardinality({j \in 0..(i - 1) : Bit(delta[here], j) = 1})]
      <4>1. Bit(delta[here], i) # 0
        BY <2>1
      <4> QED
        BY <4>1, Zenon DEF Operand
    <3> HIDE DEF present
    <3> QED
      BY <1>5, <3>1, Zenon
  <2> HIDE DEF B, present
  <2>3. here + 1 + B = here - 1 + (B + 2) /\ B + 2 \in 1..Len(c)
    <3> DEFINE N == Cardinality(present)
    <3>1. here \in Nat /\ N \in Nat /\ Len(c) = N + 1 /\ B \in 0..(N - 1)
      BY <1>1, <1>2, <1>4, <1>6 DEF At
    <3> HIDE DEF N
    <3> QED
      BY <3>1
  <2>4. delta[here + 1 + B] = c[B + 2]
    BY <2>3 DEF At
  <2> QED
    BY <1>1, <1>6, <2>2, <2>4
<1>7. CASE i \notin present
  <2>1. o[i] = 0
    BY <1>7
  <2>2. Bit(delta[here], i) # 1
    <3> HIDE DEF present
    <3> QED
      BY <1>1, <1>3, <1>7
  <2>3. Bit(delta[here], i) = 0
    <3>1. delta[here] \in 128..255
      BY <1>3 DEF Copies
    <3>2. Bit(delta[here], i) \in 0..1
      <4>1. \A b \in 128..255 : \A q \in {1, 2, 4, 8, 16, 32, 64} : b \div q \in Nat
        OBVIOUS
      <4>2. 2^0 = 1 /\ 2^1 = 2 /\ 2^2 = 4 /\ 2^3 = 8 /\ 2^4 = 16 /\ 2^5 = 32 /\ 2^6 = 64
        OBVIOUS
      <4>3. i = 0 \/ i = 1 \/ i = 2 \/ i = 3 \/ i = 4 \/ i = 5 \/ i = 6
        OBVIOUS
      <4>4. delta[here] \div 2^i \in Nat
        <5>1. 2^i \in {1, 2, 4, 8, 16, 32, 64}
          BY <4>2, <4>3
        <5> QED
          BY <3>1, <4>1, <5>1, Zenon
      <4>5. \A n \in Nat : n % 2 \in 0..1
        OBVIOUS
      <4> QED
        BY <4>4, <4>5 DEF Bit
    <3> QED
      BY <2>2, <3>2
  <2> QED
    BY <2>1, <2>3 DEF Operand
<1> QED
  BY <1>6, <1>7

\* That a copy is found here, and how the program reads it.
CopyAt(base, offset, size, delta, here) ==
  /\ base \in Seq(0..255) /\ offset \in Offset /\ size \in CopySize
  /\ offset + size <= Len(base) /\ At(delta, here, CopyOf(offset, size))
CopyReads(base, offset, size, delta, here) ==
  /\ More(delta[here])
  /\ Copied(base, delta, here) = SubSeq(base, offset + 1, offset + size)
  /\ here + 1 + Cardinality({i \in 0..6 : Bit(delta[here], i) = 1})
       = here + Len(CopyOf(offset, size))
  /\ CopyOf(offset, size) \in Seq(0..255) /\ Len(CopyOf(offset, size)) \in Nat \ {0}

\* The program reads a copy as git meant it.
LEMMA CopyIsRead ==
  ASSUME NEW base, NEW offset, NEW size, NEW delta, NEW here,
         CopyAt(base, offset, size, delta, here)
  PROVE  CopyReads(base, offset, size, delta, here)
<1>0. /\ base \in Seq(0..255) /\ offset \in Offset /\ size \in CopySize
      /\ offset + size <= Len(base) /\ At(delta, here, CopyOf(offset, size))
  BY DEF CopyAt
<1> DEFINE o       == OperandsOf(offset, size)
           c       == CopyOf(offset, size)
           present == {j \in 0..6 : o[j] # 0}
           N       == Cardinality(present)
<1>1. Copies(c, o)
  BY <1>0, CopyForm
<1>2. /\ o \in [0..6 -> 0..255]
      /\ o[0] + 256 * (o[1] + 256 * (o[2] + 256 * o[3])) = offset
      /\ o[4] + 256 * (o[5] + 256 * o[6]) = IF size = 65536 THEN 0 ELSE size
  BY <1>0, OperandsAre, SMT DEF Make
<1>3. At(delta, here, c)
  BY <1>0
<1>4. size \in Nat /\ size # 0 /\ offset \in Nat
  BY <1>0, CopySizes, OffsetsAre, SMT
<1> HIDE DEF o, c
<1>5. \A i \in 0..6 : Operand(delta, here, i) = o[i]
  <2>1. ASSUME NEW i \in 0..6
        PROVE  Operand(delta, here, i) = o[i]
    <3>1. o \in [0..6 -> 0..255]
      BY <1>2, SMT
    <3>2. o[i] \in 0..255
      BY <3>1
    <3>3. o[i] \in 0..255 => Operand(delta, here, i) = o[i]
      BY <1>1, <1>3, OperandIsRead
    <3> QED
      BY <3>2, <3>3
  <2> QED
    BY <2>1
<1>6. /\ c \in Seq(0..255) /\ Len(c) = N + 1 /\ c[1] \in 128..255
      /\ \A i \in 0..6 : Bit(c[1], i) = 1 <=> i \in present
  BY <1>1 DEF Copies
<1>7. N \in Nat
  <2>1. present \in SUBSET (0..6)
    OBVIOUS
  <2> HIDE DEF present
  <2> QED
    BY <2>1, BitsAreFinite
<1>8. delta[here] = c[1] /\ here \in Nat
  <2> HIDE DEF present, N
  <2>1. 1 \in 1..Len(c) /\ here \in Nat /\ here - 1 + 1 = here
    BY <1>3, <1>6, <1>7 DEF At
  <2> QED
    BY <1>3, <2>1 DEF At
<1>9. More(delta[here])
  <2>1. High \subseteq 0..255 /\ c[1] \in High
    BY <1>6, HighBytes DEF High
  <2> QED
    BY <1>8, <2>1, HighBytes
<1>10. here + 1 + Cardinality({i \in 0..6 : Bit(delta[here], i) = 1}) = here + Len(c)
  <2>1. {i \in 0..6 : Bit(delta[here], i) = 1} = present
    <3>1. \A i \in present : i \in 0..6
      OBVIOUS
    <3> HIDE DEF present
    <3> QED
      BY <1>6, <1>8, <3>1
  <2>2. here + 1 + N = here + (N + 1)
    <3> HIDE DEF N
    <3> QED
      BY <1>7, <1>8
  <2> QED
    BY <1>6, <2>1, <2>2
<1>11. Copied(base, delta, here) = SubSeq(base, offset + 1, offset + size)
  <2> DEFINE at(i)  == Operand(delta, here, i)
             from   == at(0) + 256 * (at(1) + 256 * (at(2) + 256 * at(3)))
             given  == at(4) + 256 * (at(5) + 256 * at(6))
             many   == IF given = 0 THEN 65536 ELSE given
  <2>1. Copied(base, delta, here) = SubSeq(base, from + 1, Min({from + many, Len(base)}))
    BY SMT DEF Copied
  <2>2. at(0) = o[0] /\ at(1) = o[1] /\ at(2) = o[2] /\ at(3) = o[3] /\ at(4) = o[4] /\ at(5) = o[5]
        /\ at(6) = o[6]
    BY <1>5, SMT
  <2> HIDE DEF at
  <2>3. from = offset /\ given = IF size = 65536 THEN 0 ELSE size
    BY <1>2, <2>2, SMT
  <2> HIDE DEF from, given
  <2>4. many = size
    BY <1>4, <2>3, SMT
  <2> HIDE DEF many
  <2>5. Min({offset + size, Len(base)}) = offset + size
    <3>1. offset + size \in Nat /\ Len(base) \in Nat /\ offset + size <= Len(base)
      BY <1>0, <1>4
    <3>2. \A a \in Nat, b \in Nat : a <= b => Min({a, b}) = a
      BY DEF Min
    <3> QED
      BY <3>1, <3>2
  <2> QED
    <3>1. from = offset
      BY <2>3, SMT
    <3>2. Min({from + many, Len(base)}) = offset + size
      BY <2>4, <2>5, <3>1, Zenon
    <3> QED
      BY <2>1, <3>1, <3>2, Zenon
<1>12. c \in Seq(0..255) /\ Len(c) \in Nat \ {0}
  <2> HIDE DEF N
  <2> QED
    BY <1>6, <1>7
<1> QED
  BY <1>9, <1>10, <1>11, <1>12, Zenon DEF c, CopyReads

\* So is an insert.
LEMMA InsertIsRead ==
  ASSUME NEW bytes \in Insert, bytes # <<>>, NEW delta, NEW here, At(delta, here, InsertOf(bytes))
  PROVE  /\ ~More(delta[here])
         /\ SubSeq(delta, here + 1, here + delta[here]) = bytes
         /\ here + 1 + delta[here] = here + Len(InsertOf(bytes))
         /\ InsertOf(bytes) \in Seq(0..255) /\ Len(InsertOf(bytes)) \in Nat \ {0}
<1> DEFINE n == Len(bytes)
           s == InsertOf(bytes)
<1>1. bytes \in Seq(0..255) /\ n \in Nat \ {0} /\ n < 128
  <2>1. bytes \in Seq(0..255) /\ Len(bytes) < 128
    BY DEF Insert
  <2> QED
    BY <2>1, EmptySeq
<1>2. s = <<n>> \o bytes
  BY DEF InsertOf
<1>3. n \in 0..255 /\ ~(n >= 128)
  <2> HIDE DEF n
  <2> QED
    BY <1>1
<1>4. /\ s \in Seq(0..255) /\ Len(s) = n + 1 /\ s[1] = n
      /\ \A i \in 1..n : s[i + 1] = bytes[i]
  <2>1. <<n>> \in Seq(0..255) /\ Len(<<n>>) = 1 /\ <<n>>[1] = n
    BY <1>3, OneByte
  <2>2. bytes \in Seq(0..255) /\ Len(bytes) = n
    BY <1>1
  <2> HIDE DEF n, s
  <2> QED
    <3>1. /\ s \in Seq(0..255) /\ Len(s) = Len(<<n>>) + Len(bytes)
          /\ \A i \in 1..(Len(<<n>>) + Len(bytes)) :
               s[i] = IF i <= Len(<<n>>) THEN <<n>>[i] ELSE bytes[i - Len(<<n>>)]
      BY <1>2, <2>1, <2>2, ConcatProperties
    <3>2. /\ Len(s) = 1 + n
          /\ \A i \in 1..(1 + n) : s[i] = IF i <= 1 THEN <<n>>[i] ELSE bytes[i - 1]
      BY <2>1, <2>2, <3>1
    <3>3. /\ 1 \in 1..(1 + n) /\ 1 + n = n + 1
          /\ \A i \in 1..n : i + 1 \in 1..(1 + n) /\ ~(i + 1 <= 1) /\ (i + 1) - 1 = i
      BY <1>1
    <3> QED
      BY <2>1, <3>1, <3>2, <3>3
<1>5. At(delta, here, s)
  OBVIOUS
<1>6. /\ delta \in Seq(0..255) /\ here \in Nat \ {0} /\ here + n <= Len(delta) /\ Len(delta) \in Nat
      /\ \A i \in 1..(n + 1) : delta[here - 1 + i] = s[i]
  <2>1. /\ delta \in Seq(0..255) /\ here \in Nat \ {0} /\ here - 1 + Len(s) <= Len(delta)
        /\ \A i \in 1..Len(s) : delta[here - 1 + i] = s[i]
    BY <1>5 DEF At
  <2> HIDE DEF n, s
  <2> QED
    BY <1>1, <1>4, <2>1
<1> HIDE DEF s
<1>7. delta[here] = n
  <2>1. 1 \in 1..(n + 1) /\ here - 1 + 1 = here
    <3> HIDE DEF n
    <3> QED
      BY <1>1, <1>6
  <2> QED
    BY <1>4, <1>6, <2>1
<1>8. ~More(delta[here])
  BY <1>3, <1>7, MoreIsHigh
<1>9. SubSeq(delta, here + 1, here + delta[here]) = bytes
  <2> DEFINE t == SubSeq(delta, here + 1, here + n)
  <2>1. t \in Seq(0..255) /\ Len(t) = n /\ \A i \in 1..n : t[i] = delta[here + i]
    <3> DEFINE from == here + 1
               to   == here + n
    <3>1. /\ from \in Int /\ to \in Int /\ (\A i \in from..to : i \in 1..Len(delta))
          /\ to - from + 1 = n /\ from <= to /\ \A i \in 1..n : from + i - 1 = here + i
      <4>1. /\ n \in Nat \ {0} /\ here \in Nat \ {0} /\ here + n <= Len(delta)
            /\ Len(delta) \in Nat
        BY <1>1, <1>6
      <4> HIDE DEF n
      <4>2. from \in Int /\ to \in Int /\ to - from + 1 = n /\ from <= to
        BY <4>1
      <4>3. \A i \in from..to : i \in 1..Len(delta)
        BY <4>1
      <4>4. \A i \in 1..n : from + i - 1 = here + i
        BY <4>1
      <4> QED
        BY <4>2, <4>3, <4>4
    <3>2. t = SubSeq(delta, from, to)
      OBVIOUS
    <3> HIDE DEF from, to, t
    <3>3. \A i \in from..to : delta[i] \in 0..255
      BY <1>6, <3>1, ElementOfSeq
    <3>4. /\ t \in Seq(0..255) /\ Len(t) = IF from <= to THEN to - from + 1 ELSE 0
          /\ \A i \in 1..(to - from + 1) : t[i] = delta[from + i - 1]
      BY <3>1, <3>2, <3>3, SubSeqProperties
    <3> HIDE DEF n
    <3> QED
      BY <3>1, <3>4
  <2>2. \A i \in 1..n : t[i] = bytes[i]
    <3>1. ASSUME NEW i \in 1..n
          PROVE  delta[here + i] = bytes[i]
      <4>1. i + 1 \in 1..(n + 1) /\ here - 1 + (i + 1) = here + i
        <5> HIDE DEF n
        <5> QED
          BY <1>1, <1>6
      <4> QED
        BY <1>4, <1>6, <4>1
    <3> QED
      BY <2>1, <3>1
  <2> HIDE DEF t
  <2>3. t = bytes
    BY <1>1, <2>1, <2>2
  <2> QED
    BY <1>7, <2>3 DEF t
<1>10. here + 1 + delta[here] = here + Len(s) /\ Len(s) \in Nat \ {0}
  <2> HIDE DEF n
  <2> QED
    BY <1>1, <1>4, <1>6, <1>7
<1> QED
  BY <1>4, <1>8, <1>9, <1>10 DEF s

-------------------------------------------------------------------------------
(* Deltas are undone.                                                         *)

\* Of two parts one comes after the other.
LEMMA TwoParts ==
  ASSUME NEW A, NEW s \in Seq(A), NEW t \in Seq(A)
  PROVE  /\ s \o t \in Seq(A) /\ Len(s) \in Nat /\ Len(t) \in Nat /\ Len(s \o t) \in Nat
         /\ Len(s \o t) = Len(s) + Len(t) /\ Len(s) <= Len(s \o t)
         /\ \A i \in 1..Len(s) : i \in 1..Len(s \o t) /\ (s \o t)[i] = s[i]
         /\ \A i \in 1..Len(t) : (s \o t)[Len(s) + i] = t[i]
<1>1. /\ s \o t \in Seq(A) /\ Len(s \o t) = Len(s) + Len(t)
      /\ \A i \in 1..(Len(s) + Len(t)) : (s \o t)[i] =
           IF i <= Len(s) THEN s[i] ELSE t[i - Len(s)]
  BY ConcatProperties
<1>2. Len(s) \in Nat /\ Len(t) \in Nat
  BY LenProperties
<1> QED
  BY <1>1, <1>2

\* What f makes of parts one after the other, up to all of them.
Joins(A, parts, f) ==
  /\ f[0] = <<>> /\ \A k \in 0..Len(parts) : f[k] \in Seq(A)
  /\ \A k \in 1..Len(parts) : f[k] = f[k - 1] \o parts[k]

\* There is such a function, and its last value is the parts flattened.
LEMMA PartsJoin ==
  ASSUME NEW A, NEW parts \in Seq(Seq(A))
  PROVE  \E f : Joins(A, parts, f) /\ FlattenSeq(parts) = f[Len(parts)]
<1> DEFINE n    == Len(parts)
           D    == 1..n
           V    == Seq(A)
           stop == {1}
           base == parts
           down == [i \in D |-> IF i = 1 THEN 1 ELSE i - 1]
           step == [x \in D \X V |-> x[2] \o parts[x[1]]]
<1>1. n \in Nat /\ parts \in [D -> V]
  OBVIOUS
<1> HIDE DEF V, n
<1>2. Descends(D, V, stop, base, down, step)
  <2>1. D \subseteq Nat /\ down \in [D -> D] /\ \A i \in D : i \notin stop => down[i] < i
    BY <1>1
  <2>2. ASSUME NEW x \in D \X V
        PROVE  x[2] \o parts[x[1]] \in V
    <3>1. x[1] \in D /\ x[2] \in V /\ parts[x[1]] \in V
      BY <1>1
    <3> QED
      BY <3>1, ConcatProperties DEF V
  <2> HIDE DEF D
  <2> QED
    BY <1>1, <2>1, <2>2 DEF Descends
<1>3. PICK f : Solves(f, D, V, stop, base, down, step)
  <2> HIDE DEF D, stop, base, down, step
  <2> QED
    BY <1>2, Recursion
<1>4. f \in [D -> V] /\ \A i \in D : f[i] = Made(stop, base, down, step, f, i)
  BY <1>3 DEF Solves
<1>5. ASSUME NEW i \in D
      PROVE  f[i] = IF i = 1 THEN parts[i] ELSE f[i - 1] \o parts[i]
  <2>1. CASE i = 1
    BY <1>4, <2>1 DEF Made
  <2>2. CASE i # 1
    <3>1. i \notin stop /\ i - 1 \in D /\ down[i] = i - 1
      BY <1>1, <2>2
    <3>2. step[<<i, f[i - 1]>>] = f[i - 1] \o parts[i]
      BY <1>4, <3>1
    <3> HIDE DEF D, stop, base, down, step
    <3> QED
      BY <1>4, <2>2, <3>1, <3>2 DEF Made
  <2> QED
    BY <2>1, <2>2
<1> DEFINE Is(flatten) == flatten = [i \in D |-> IF i = 1 THEN parts[i]
                                                 ELSE flatten[i - 1] \o parts[i]]
           all == CHOOSE flatten : Is(flatten)
           g   == [k \in 0..n |-> IF k = 0 THEN <<>> ELSE all[k]]
<1>6. Is(f)
  <2>1. f = [i \in D |-> f[i]]
    BY <1>4
  <2> QED
    BY <1>5, <2>1
<1>7. Is(all)
  <2> HIDE DEF Is
  <2> QED
    BY <1>6
<1>8. FlattenSeq(parts) = IF n = 0 THEN parts ELSE all[n]
  BY DEF FlattenSeq, n
<1>9. \A i \in D : all[i] = IF i = 1 THEN parts[i] ELSE all[i - 1] \o parts[i]
  BY <1>7
<1> HIDE DEF all
<1>10. \A i \in D : all[i] \in V
  <2> DEFINE Others == {i \in D : all[i] \notin V}
  <2> SUFFICES ASSUME Others # {}
               PROVE  FALSE
    OBVIOUS
  <2>1. PICK i \in Others : \A j \in Others : i <= j
    <3>1. Others \subseteq Nat
      BY <1>1
    <3> HIDE DEF Others
    <3> QED
      BY <3>1, LeastNumber
  <2>2. i \in D /\ all[i] \notin V /\ parts[i] \in V
    BY <1>1
  <2>3. CASE i = 1
    BY <1>9, <2>2, <2>3
  <2>4. CASE i # 1
    <3>1. i - 1 \in D /\ ~(i <= i - 1)
      BY <1>1, <2>2, <2>4
    <3>2. all[i - 1] \in V
      BY <2>1, <3>1
    <3>3. all[i] = all[i - 1] \o parts[i]
      BY <1>9, <2>2, <2>4
    <3> QED
      BY <2>2, <3>2, <3>3, ConcatProperties DEF V
  <2> QED
    BY <2>3, <2>4
<1>11. Joins(A, parts, g)
  <2>1. g[0] = <<>> /\ \A k \in 0..n : k # 0 => k \in D /\ g[k] = all[k]
    BY <1>1
  <2>2. \A k \in 0..n : g[k] \in V
    <3>1. <<>> \in V
      BY DEF V
    <3> QED
      BY <1>10, <2>1, <3>1
  <2>3. ASSUME NEW k \in 1..n
        PROVE  g[k] = g[k - 1] \o parts[k]
    <3>1. k \in 0..n /\ k # 0 /\ k - 1 \in 0..n /\ k \in D
      BY <1>1
    <3>2. g[k] = IF k = 1 THEN parts[k] ELSE all[k - 1] \o parts[k]
      BY <1>9, <2>1, <3>1
    <3>3. CASE k = 1
      <4>1. g[k - 1] = <<>> /\ parts[k] \in Seq(A)
        BY <1>1, <2>1, <3>1, <3>3 DEF V
      <4> QED
        BY <3>2, <3>3, <4>1, ConcatEmptySeq
    <3>4. CASE k # 1
      <4>1. k - 1 # 0
        BY <3>4
      <4>2. g[k - 1] = all[k - 1]
        BY <2>1, <3>1, <4>1
      <4> QED
        BY <3>2, <3>4, <4>2
    <3> QED
      BY <3>3, <3>4
  <2> HIDE DEF g
  <2> QED
    BY <2>1, <2>2, <2>3 DEF Joins, n, V
<1>12. FlattenSeq(parts) = g[n]
  <2>1. CASE n = 0
    <3>1. parts = <<>>
      BY <2>1, EmptySeq DEF n
    <3>2. g[n] = <<>>
      BY <2>1
    <3> QED
      BY <1>8, <2>1, <3>1, <3>2
  <2>2. CASE n # 0
    <3>1. g[n] = all[n]
      BY <1>1, <2>2
    <3> QED
      BY <1>8, <2>2, <3>1
  <2> QED
    BY <2>1, <2>2
<1> QED
  BY <1>11, <1>12 DEF n

\* Each part is where what is in front of it ends.
LEMMA FirstParts ==
  ASSUME NEW A, NEW parts \in Seq(Seq(A)), NEW f, Joins(A, parts, f), NEW k \in 0..Len(parts)
  PROVE  /\ Len(f[k]) <= Len(f[Len(parts)])
         /\ \A i \in 1..Len(f[k]) : f[Len(parts)][i] = f[k][i]
<1> DEFINE n     == Len(parts)
           Is(l) == /\ Len(f[l]) <= Len(f[n])
                    /\ \A i \in 1..Len(f[l]) : f[n][i] = f[l][i]
<1>1. n \in Nat /\ \A l \in 0..n : f[l] \in Seq(A) /\ Len(f[l]) \in Nat
  <2>1. n \in Nat /\ \A s \in Seq(A) : Len(s) \in Nat
    OBVIOUS
  <2>2. \A l \in 0..n : f[l] \in Seq(A)
    BY DEF Joins
  <2> QED
    BY <2>1, <2>2
<1>2. \A l \in 1..n : f[l] = f[l - 1] \o parts[l] /\ parts[l] \in Seq(A)
  <2>1. \A l \in 1..n : parts[l] \in Seq(A)
    BY ElementOfSeq
  <2>2. \A l \in 1..n : f[l] = f[l - 1] \o parts[l]
    BY DEF Joins
  <2> QED
    BY <2>1, <2>2
<1> DEFINE Others == {m \in 0..n : ~Is(n - m)}
<1>3. Others = {}
  <2> SUFFICES ASSUME Others # {}
               PROVE  FALSE
    OBVIOUS
  <2> HIDE DEF n
  <2>1. PICK m \in Others : \A j \in Others : m <= j
    <3>1. Others \subseteq Nat
      BY <1>1
    <3> HIDE DEF Others
    <3> QED
      BY <3>1, LeastNumber
  <2>2. m \in 0..n /\ ~Is(n - m) /\ n - m \in 0..n
    BY <1>1
  <2>3. CASE m = 0
    <3>1. n - m = n
      BY <1>1, <2>3
    <3>2. Is(n)
      BY <1>1, <2>2, <3>1
    <3> QED
      BY <2>2, <3>1, <3>2
  <2>4. CASE m # 0
    <3> DEFINE l == n - m
    <3>1. /\ m - 1 \in 0..n /\ ~(m <= m - 1) /\ n - (m - 1) = l + 1 /\ l + 1 \in 1..n
          /\ (l + 1) - 1 = l /\ l \in 0..n
      BY <1>1, <2>2, <2>4
    <3>2. Is(l + 1)
      BY <2>1, <3>1
    <3> HIDE DEF l
    <3>3. f[l + 1] = f[l] \o parts[l + 1] /\ parts[l + 1] \in Seq(A) /\ f[l] \in Seq(A)
      BY <1>1, <1>2, <3>1
    <3>4. /\ Len(f[l]) <= Len(f[l + 1]) /\ Len(f[l]) \in Nat /\ Len(f[l + 1]) \in Nat
          /\ \A i \in 1..Len(f[l]) : i \in 1..Len(f[l + 1]) /\ f[l + 1][i] = f[l][i]
      <4> DEFINE s == f[l]
                 t == parts[l + 1]
      <4>1. s \in Seq(A) /\ t \in Seq(A) /\ f[l + 1] = s \o t
        BY <3>3
      <4> HIDE DEF s, t
      <4>2. /\ Len(s) <= Len(s \o t) /\ Len(s) \in Nat /\ Len(s \o t) \in Nat
            /\ \A i \in 1..Len(s) : i \in 1..Len(s \o t) /\ (s \o t)[i] = s[i]
        BY <4>1, TwoParts
      <4> QED
        BY <4>1, <4>2, Zenon DEF s
    <3>5. Len(f[n]) \in Nat
      <4>1. n \in 0..n
        BY <1>1
      <4> QED
        BY <1>1, <4>1
    <3>6. Is(l)
      <4>1. Len(f[l]) <= Len(f[n])
        BY <3>2, <3>4, <3>5
      <4> QED
        BY <3>2, <3>4, <4>1
    <3> QED
      BY <2>2, <3>6 DEF l
  <2> QED
    BY <2>3, <2>4
<1>4. Is(k)
  <2>1. n - k \in 0..n /\ n - (n - k) = k
    BY <1>1
  <2> HIDE DEF Is, n
  <2> QED
    BY <1>3, <2>1
<1> QED
  BY <1>4

\* The loop of apply_delta (packfile.rs 112-162), from here on, when r says what it
\* adds from later places on.
From(base, delta, r, here) ==
  IF here > Len(delta) THEN <<>>
  ELSE IF More(delta[here])
  THEN Copied(base, delta, here) \o
       r[here + 1 + Cardinality({i \in 0..6 : Bit(delta[here], i) = 1})]
  ELSE SubSeq(delta, here + 1, here + delta[here]) \o r[here + 1 + delta[here]]

\* It only looks further on.
LEMMA FromLater ==
  ASSUME NEW base, NEW delta \in Seq(0..255), NEW here \in Nat \ {0}, NEW r, NEW q,
         \A p \in Nat \ {0} : p > here => r[p] = q[p]
  PROVE  From(base, delta, r, here) = From(base, delta, q, here)
<1>1. CASE here > Len(delta)
  BY <1>1 DEF From
<1>2. CASE ~(here > Len(delta))
  <2> DEFINE bits  == {i \in 0..6 : Bit(delta[here], i) = 1}
             many  == Cardinality(bits)
             place == here + 1 + many
             after == here + 1 + delta[here]
  <2>1. many \in Nat
    <3>1. bits \in SUBSET (0..6)
      OBVIOUS
    <3> HIDE DEF bits
    <3> QED
      BY <3>1, BitsAreFinite
  <2>2. delta[here] \in Nat
    <3>1. here \in 1..Len(delta)
      BY <1>2
    <3>2. \A byte \in 0..255 : byte \in Nat
      OBVIOUS
    <3> QED
      BY <3>1, <3>2, ElementOfSeq
  <2> HIDE DEF many
  <2>3. place \in Nat \ {0} /\ place > here /\ after \in Nat \ {0} /\ after > here
    BY <2>1, <2>2
  <2>4. r[place] = q[place] /\ r[after] = q[after]
    BY <2>3
  <2> HIDE DEF place, after
  <2>5. \A f : From(base, delta, f, here) =
          IF More(delta[here]) THEN Copied(base, delta, here) \o f[place]
          ELSE SubSeq(delta, here + 1, here + delta[here]) \o f[after]
    BY <1>2, Zenon DEF From, place, after, many
  <2> QED
    BY <2>4, <2>5, Zenon
<1> QED
  BY <1>1, <1>2

\* So there is a function that is what the loop adds from each place on.
Runs(base, delta, r) ==
  \A here \in Nat \ {0} : r[here] = From(base, delta, r, here)

\* The program's loop computes such a function.
LEMMA RunIsAFunction ==
  ASSUME NEW base, NEW delta \in Seq(0..255)
  PROVE  \E r : /\ Runs(base, delta, r)
                /\ ApplyDelta(base, delta) = r[LastOf(delta, LastOf(delta, 1) + 1) + 1]
<1> DEFINE P           == Nat \ {0}
           n           == Len(delta)
           Stage(r, m) == \A here \in P : here + m > n => r[here] = From(base, delta, r, here)
           Without     == {m \in Nat : ~\E r : Stage(r, m)}
<1>1. n \in Nat
  OBVIOUS
<1>2. Without = {}
  <2> SUFFICES ASSUME Without # {}
               PROVE  FALSE
    OBVIOUS
  <2>1. PICK m \in Without : \A j \in Without : m <= j
    <3>1. Without \subseteq Nat
      OBVIOUS
    <3> HIDE DEF Without
    <3> QED
      BY <3>1, LeastNumber
  <2>2. m \in Nat /\ ~\E r : Stage(r, m)
    OBVIOUS
  <2>3. CASE m = 0
    <3> DEFINE r == [here \in P |-> <<>>]
    <3>1. ASSUME NEW here \in P, here + m > n
          PROVE  r[here] = From(base, delta, r, here)
      <4>1. here > n
        BY <1>1, <2>3, <3>1
      <4> HIDE DEF r
      <4>2. From(base, delta, r, here) = <<>>
        BY <4>1 DEF From
      <4> QED
        BY <4>2 DEF r
    <3> HIDE DEF r
    <3> QED
      BY <2>2, <3>1
  <2>4. CASE m # 0
    <3>1. m - 1 \in Nat /\ ~(m <= m - 1)
      BY <2>2, <2>4
    <3>2. PICK q : Stage(q, m - 1)
      BY <2>1, <3>1
    <3> DEFINE r == [here \in P |-> IF here + (m - 1) > n THEN q[here] ELSE From(base, delta, q, here)]
    <3>3. ASSUME NEW here \in P, here + m > n
          PROVE  r[here] = From(base, delta, r, here)
      <4>1. \A p \in P : p > here => p + (m - 1) > n
        BY <1>1, <2>2, <3>3
      <4>2. \A p \in P : p > here => q[p] = r[p]
        BY <4>1
      <4>3. r[here] = IF here + (m - 1) > n THEN q[here] ELSE From(base, delta, q, here)
        OBVIOUS
      <4> HIDE DEF r, n
      <4>4. From(base, delta, q, here) = From(base, delta, r, here)
        BY <4>2, FromLater
      <4> QED
        BY <3>2, <4>3, <4>4
    <3> HIDE DEF r
    <3> QED
      BY <2>2, <3>3
  <2> QED
    BY <2>3, <2>4
<1>3. PICK q : Stage(q, n)
  BY <1>1, <1>2
<1> DEFINE f     == [here \in P |-> q[here]]
           Is(r) == r = [here \in P |-> From(base, delta, r, here)]
           run   == CHOOSE r : Is(r)
<1>4. Is(f)
  <2>1. \A here \in P : here + n > n
    BY <1>1
  <2>2. \A here \in P : f[here] = q[here]
    OBVIOUS
  <2>3. f = [here \in P |-> f[here]]
    OBVIOUS
  <2> HIDE DEF f
  <2>4. \A here \in P : f[here] = From(base, delta, f, here)
    <3> SUFFICES ASSUME NEW here \in P
                 PROVE  f[here] = From(base, delta, f, here)
      OBVIOUS
    <3>1. q[here] = From(base, delta, q, here)
      BY <1>3, <2>1
    <3>2. From(base, delta, q, here) = From(base, delta, f, here)
      BY <2>2, FromLater
    <3> QED
      BY <2>2, <3>1, <3>2
  <2> QED
    BY <2>3, <2>4
<1>5. Is(run)
  <2> HIDE DEF Is
  <2> QED
    BY <1>4
<1>6. ApplyDelta(base, delta) = run[LastOf(delta, LastOf(delta, 1) + 1) + 1]
  BY DEF ApplyDelta, From
<1> HIDE DEF run
<1>7. Runs(base, delta, run)
  BY <1>5 DEF Runs
<1> QED
  BY <1>6, <1>7

\* Where two parts are, each of them is.
LEMMA AtParts ==
  ASSUME NEW s \in Seq(0..255), NEW t \in Seq(0..255), NEW data, NEW here, At(data, here, s \o t)
  PROVE  At(data, here, s) /\ At(data, here + Len(s), t)
<1> DEFINE u == s \o t
<1>1. /\ Len(s) \in Nat /\ Len(t) \in Nat /\ Len(u) = Len(s) + Len(t)
      /\ \A i \in 1..Len(s) : i \in 1..Len(u) /\ u[i] = s[i]
      /\ \A i \in 1..Len(t) : u[Len(s) + i] = t[i]
  BY TwoParts
<1>2. /\ data \in Seq(0..255) /\ here \in Nat \ {0} /\ Len(data) \in Nat
      /\ here - 1 + Len(u) <= Len(data)
      /\ \A i \in 1..Len(u) : data[here - 1 + i] = u[i]
  BY DEF At
<1> HIDE DEF u
<1>3. At(data, here, s)
  <2>1. here - 1 + Len(s) <= Len(data)
    BY <1>1, <1>2
  <2> QED
    BY <1>1, <1>2, <2>1 DEF At
<1>4. At(data, here + Len(s), t)
  <2>1. here + Len(s) \in Nat \ {0} /\ (here + Len(s)) - 1 + Len(t) <= Len(data)
    BY <1>1, <1>2
  <2>2. ASSUME NEW i \in 1..Len(t)
        PROVE  data[(here + Len(s)) - 1 + i] = t[i]
    <3>1. Len(s) + i \in 1..Len(u) /\ (here + Len(s)) - 1 + i = here - 1 + (Len(s) + i)
      BY <1>1, <1>2
    <3> QED
      BY <1>1, <1>2, <3>1
  <2> QED
    BY <1>2, <2>1, <2>2 DEF At
<1> QED
  BY <1>3, <1>4

\* From here to after the loop adds bytes.
Adds(bytes, r, here, after) == r[here] = bytes \o r[after]

\* A copy adds what it copies.
LEMMA CopyRuns ==
  ASSUME NEW base, NEW offset, NEW size, NEW delta, NEW here,
         CopyAt(base, offset, size, delta, here), NEW r, Runs(base, delta, r)
  PROVE  Adds(SubSeq(base, offset + 1, offset + size), r, here, here + Len(CopyOf(offset, size)))
<1>1. CopyReads(base, offset, size, delta, here) /\ At(delta, here, CopyOf(offset, size))
  BY CopyIsRead DEF CopyAt
<1>2. here \in Nat \ {0} /\ ~(here > Len(delta))
  BY <1>1 DEF At, CopyReads
<1>3. r[here] = From(base, delta, r, here)
  BY <1>2 DEF Runs
<1>4. From(base, delta, r, here) = Copied(base, delta, here) \o
        r[here + 1 + Cardinality({i \in 0..6 : Bit(delta[here], i) = 1})]
  BY <1>1, <1>2, Zenon DEF From, CopyReads
<1> QED
  BY <1>1, <1>3, <1>4, Zenon DEF CopyReads, Adds

\* An insert adds its bytes.
LEMMA InsertRuns ==
  ASSUME NEW base, NEW bytes \in Insert, bytes # <<>>, NEW delta, NEW here,
         At(delta, here, InsertOf(bytes)), NEW r, Runs(base, delta, r)
  PROVE  Adds(bytes, r, here, here + Len(InsertOf(bytes)))
<1>1. /\ ~More(delta[here])
      /\ SubSeq(delta, here + 1, here + delta[here]) = bytes
      /\ here + 1 + delta[here] = here + Len(InsertOf(bytes))
      /\ Len(InsertOf(bytes)) \in Nat \ {0}
  BY InsertIsRead
<1>2. here \in Nat \ {0} /\ ~(here > Len(delta))
  BY <1>1 DEF At
<1>3. r[here] = From(base, delta, r, here)
  BY <1>2 DEF Runs
<1>4. From(base, delta, r, here) =
        SubSeq(delta, here + 1, here + delta[here]) \o r[here + 1 + delta[here]]
  BY <1>1, <1>2, Zenon DEF From
<1> QED
  BY <1>1, <1>3, <1>4, Zenon DEF Adds

\* What a step adds, and what it is written as, are bytes.
LEMMA StepBytes ==
  ASSUME NEW base \in Seq(0..255), NEW step \in Step, step.offset + step.size <= Len(base)
  PROVE  /\ SubSeq(base, step.offset + 1, step.offset + step.size) \in Seq(0..255)
         /\ step.size = 0 => SubSeq(base, step.offset + 1, step.offset + step.size) = <<>>
         /\ (IF step.size = 0 THEN <<>> ELSE CopyOf(step.offset, step.size)) \in Seq(0..255)
         /\ InsertOf(step.bytes) \in Seq(0..255)
         /\ Bytes(base, step) \in Seq(0..255) /\ Instructions(step) \in Seq(0..255)
<1> DEFINE offset == step.offset
           size   == step.size
           bytes  == step.bytes
           copied == SubSeq(base, offset + 1, offset + size)
           first  == IF size = 0 THEN <<>> ELSE CopyOf(offset, size)
           second == InsertOf(bytes)
<1>1. /\ offset \in Offset /\ offset \in Nat /\ (size = 0 \/ size \in CopySize) /\ bytes \in Insert
      /\ bytes \in Seq(0..255) /\ offset + size <= Len(base)
  <2>1. offset \in Offset /\ (size = 0 \/ size \in CopySize) /\ bytes \in Insert
    BY DEF Step
  <2> QED
    BY <2>1, OffsetsAre DEF Insert
<1>2. Instructions(step) = first \o second
  BY DEF Instructions
<1>3. Bytes(base, step) = copied \o bytes
  BY DEF Bytes
<1> HIDE DEF offset, size, bytes
<1>4. second \in Seq(0..255)
  <2>1. CASE bytes = <<>>
    BY <2>1 DEF InsertOf
  <2>2. CASE bytes # <<>>
    <3>1. At(second, 1, second)
      <4>1. second = <<Len(bytes)>> \o bytes /\ Len(bytes) \in 0..255
        <5>1. \A n \in Nat : n < 128 => n \in 0..255
          OBVIOUS
        <5>2. Len(bytes) \in Nat /\ Len(bytes) < 128
          BY <1>1 DEF Insert
        <5> QED
          BY <2>2, <5>1, <5>2 DEF InsertOf
      <4>2. second \in Seq(0..255)
        <5>1. <<Len(bytes)>> \in Seq(0..255)
          BY <4>1, OneByte
        <5> HIDE DEF second
        <5> QED
          BY <1>1, <4>1, <5>1, TwoParts
      <4> HIDE DEF second
      <4> QED
        BY <4>2 DEF At
    <3> QED
      BY <1>1, <2>2, <3>1, InsertIsRead
  <2> QED
    BY <2>1, <2>2
<1>5. first \in Seq(0..255)
  <2>1. CASE size = 0
    BY <2>1
  <2>2. CASE size # 0
    <3>1. Copies(CopyOf(offset, size), OperandsOf(offset, size))
      BY <1>1, <2>2, CopyForm
    <3> QED
      BY <2>2, <3>1 DEF Copies
  <2> QED
    BY <2>1, <2>2
<1>6. copied \in Seq(0..255) /\ (size = 0 => copied = <<>>)
  <2>1. size \in Nat
    BY <1>1, CopySizes
  <2>2. CASE size = 0
    <3>1. offset + 1 \in Int /\ offset + size \in Int /\ offset + size < offset + 1
      BY <1>1, <2>2
    <3>2. copied = <<>>
      BY <3>1, SubSeqEmpty
    <3>3. <<>> \in Seq(0..255)
      OBVIOUS
    <3> HIDE DEF copied
    <3> QED
      BY <3>2, <3>3
  <2>3. CASE size # 0
    <3> DEFINE a == offset + 1
               b == offset + size
    <3>1. a \in Int /\ b \in Int /\ \A i \in a..b : i \in 1..Len(base)
      BY <1>1, <2>1
    <3> HIDE DEF a, b
    <3>2. \A i \in a..b : base[i] \in 0..255
      BY <3>1, ElementOfSeq
    <3>3. SubSeq(base, a, b) \in Seq(0..255)
      BY <3>1, <3>2, SubSeqProperties
    <3> QED
      BY <2>3, <3>3 DEF a, b
  <2> QED
    BY <2>2, <2>3
<1> HIDE DEF copied, first, second
<1>7. Instructions(step) \in Seq(0..255) /\ Bytes(base, step) \in Seq(0..255)
  BY <1>1, <1>2, <1>3, <1>4, <1>5, <1>6, TwoParts
<1> QED
  BY <1>4, <1>5, <1>6, <1>7, Zenon DEF copied, first, second, offset, size, bytes

\* A step adds what git meant it to.
LEMMA StepRuns ==
  ASSUME NEW base \in Seq(0..255), NEW step \in Step, step.offset + step.size <= Len(base),
         NEW delta, NEW here, At(delta, here, Instructions(step)), NEW r, Runs(base, delta, r),
         r[here + Len(Instructions(step))] \in Seq(0..255)
  PROVE  r[here] = Bytes(base, step) \o r[here + Len(Instructions(step))]
<1> DEFINE offset == step.offset
           size   == step.size
           bytes  == step.bytes
           copied == SubSeq(base, offset + 1, offset + size)
           first  == IF size = 0 THEN <<>> ELSE CopyOf(offset, size)
           second == InsertOf(bytes)
           middle == here + Len(first)
           rest   == r[here + Len(Instructions(step))]
<1>1. /\ offset \in Offset /\ offset \in Nat /\ (size = 0 \/ size \in CopySize) /\ bytes \in Insert
      /\ bytes \in Seq(0..255) /\ offset + size <= Len(base)
  <2>1. offset \in Offset /\ (size = 0 \/ size \in CopySize) /\ bytes \in Insert
    BY DEF Step
  <2> QED
    BY <2>1, OffsetsAre DEF Insert
<1>2. Instructions(step) = first \o second
  BY DEF Instructions
<1>3. Bytes(base, step) = copied \o bytes
  BY DEF Bytes
<1> HIDE DEF offset, size, bytes
<1>4. second \in Seq(0..255) /\ first \in Seq(0..255)
  BY StepBytes DEF offset, size, bytes
<1>5. copied \in Seq(0..255) /\ (size = 0 => copied = <<>>)
  BY StepBytes DEF offset, size, bytes
<1> HIDE DEF second, first
<1>6. /\ At(delta, here, first) /\ At(delta, middle, second)
      /\ here + Len(Instructions(step)) = middle + Len(second)
  <2>1. At(delta, here, first \o second)
    BY <1>2
  <2>2. At(delta, here, first) /\ At(delta, middle, second)
    BY <1>4, <2>1, AtParts
  <2>3. Len(first \o second) = Len(first) + Len(second) /\ Len(first) \in Nat /\ Len(second) \in Nat
    BY <1>4, TwoParts
  <2>4. here \in Nat
    BY <2>2 DEF At
  <2> QED
    BY <1>2, <2>2, <2>3, <2>4
<1> HIDE DEF copied, middle
<1>7. r[middle] = bytes \o rest /\ r[middle] \in Seq(0..255) /\ rest \in Seq(0..255)
  <2>1. rest \in Seq(0..255) /\ rest = r[middle + Len(second)]
    BY <1>6
  <2> HIDE DEF rest
  <2>2. CASE bytes = <<>>
    <3>1. second = <<>>
      BY <2>2 DEF second, InsertOf
    <3>2. middle + Len(second) = middle
      <4>1. middle \in Nat
        BY <1>6 DEF At
      <4> QED
        BY <3>1, <4>1
    <3> QED
      BY <2>1, <2>2, <3>2, ConcatEmptySeq
  <2>3. CASE bytes # <<>>
    <3>1. r[middle] = bytes \o rest
      <4>1. At(delta, middle, InsertOf(bytes))
        BY <1>6 DEF second
      <4>2. Adds(bytes, r, middle, middle + Len(InsertOf(bytes)))
        BY <1>1, <2>3, <4>1, InsertRuns
      <4> QED
        BY <2>1, <4>2, Zenon DEF second, Adds
    <3> QED
      BY <1>1, <2>1, <3>1, ConcatProperties
  <2> QED
    BY <2>2, <2>3
<1>8. r[here] = copied \o r[middle]
  <2>1. CASE size = 0
    <3>1. middle = here
      <4>1. here \in Nat
        BY <1>6 DEF At
      <4> QED
        BY <2>1, <4>1 DEF middle, first
    <3> QED
      BY <1>5, <1>7, <2>1, <3>1, ConcatEmptySeq
  <2>2. CASE size # 0
    <3>1. first = CopyOf(offset, size)
      BY <2>2 DEF first
    <3>2. CopyAt(base, offset, size, delta, here)
      BY <1>1, <1>6, <2>2, <3>1 DEF CopyAt
    <3>3. Adds(SubSeq(base, offset + 1, offset + size), r, here, here + Len(CopyOf(offset, size)))
      BY <3>2, CopyRuns
    <3> QED
      BY <3>1, <3>3, Zenon DEF copied, middle, Adds
  <2> QED
    BY <2>1, <2>2
<1>9. (copied \o bytes) \o rest = copied \o (bytes \o rest)
  <2>1. rest \in Seq(0..255) /\ copied \in Seq(0..255) /\ bytes \in Seq(0..255)
    BY <1>1, <1>5, <1>7
  <2> HIDE DEF rest
  <2> QED
    BY <2>1, ConcatAssociative, SMTT(30)
<1> QED
  BY <1>3, <1>7, <1>8, <1>9

\* The steps copy no byte that the base does not have.
Inside(base, steps) ==
  \A k \in DOMAIN steps : steps[k].offset + steps[k].size <= Len(base)

\* st and tu are those of three parts s, t and u that touch.
Touch(s, t, u, st, tu) ==
  /\ s \in Seq(0..255) /\ t \in Seq(0..255) /\ u \in Seq(0..255)
  /\ st = s \o t /\ tu = t \o u
Same(st, u, s, tu) == st \o u = s \o tu

\* They are the same three parts.
LEMMA Regroup ==
  ASSUME NEW s, NEW t, NEW u, NEW st, NEW tu, Touch(s, t, u, st, tu)
  PROVE  Same(st, u, s, tu)
BY ConcatAssociative DEF Touch, Same

\* apply_delta makes of a base what the steps of the delta make of it.
LEMMA DeltaIsApplied ==
  ASSUME NEW base \in Seq(0..255), NEW steps \in Seq(Step), Inside(base, steps)
  PROVE  ApplyDelta(base, GitDelta(base, steps)) = Target(base, steps)
<1> DEFINE n      == Len(steps)
           made   == [k \in DOMAIN steps |-> Bytes(base, steps[k])]
           parts  == [k \in DOMAIN steps |-> Instructions(steps[k])]
           target == Target(base, steps)
           delta  == GitDelta(base, steps)
           front  == Groups[Len(base)]
           second == Groups[Len(target)]
           all    == FlattenSeq(parts)
<1>1. n \in Nat /\ DOMAIN steps = 1..n
  OBVIOUS
<1>2. \A k \in 1..n : steps[k] \in Step /\ steps[k].offset + steps[k].size <= Len(base)
  <2>1. \A k \in 1..n : steps[k] \in Step
    BY ElementOfSeq
  <2> QED
    BY <1>1, <2>1 DEF Inside
<1>3. made \in Seq(Seq(0..255)) /\ Len(made) = n /\ parts \in Seq(Seq(0..255)) /\ Len(parts) = n
  <2>1. \A k \in 1..n : Bytes(base, steps[k]) \in Seq(0..255)
                        /\ Instructions(steps[k]) \in Seq(0..255)
    BY <1>2, StepBytes
  <2> DEFINE V == Seq(0..255)
  <2> HIDE DEF n, V
  <2>2. \A k \in 1..n : Bytes(base, steps[k]) \in V /\ Instructions(steps[k]) \in V
    BY <2>1 DEF V
  <2>3. made \in Seq(V) /\ Len(made) = n /\ parts \in Seq(V) /\ Len(parts) = n
    BY <1>1, <2>2
  <2> QED
    BY <2>3 DEF V
<1>4. PICK f : Joins(0..255, made, f) /\ FlattenSeq(made) = f[Len(made)]
  BY <1>3, PartsJoin
<1>5. PICK g : Joins(0..255, parts, g) /\ FlattenSeq(parts) = g[Len(parts)]
  BY <1>3, PartsJoin
<1>6. /\ target = f[n] /\ target \in Seq(0..255) /\ Len(target) \in Nat
      /\ all = g[n] /\ all \in Seq(0..255)
  <2>1. n \in 0..n
    BY <1>1
  <2>2. target = f[n] /\ all = g[n]
    BY <1>3, <1>4, <1>5 DEF Target
  <2>3. f[n] \in Seq(0..255) /\ g[n] \in Seq(0..255)
    BY <1>3, <1>4, <1>5, <2>1 DEF Joins
  <2> HIDE DEF target, all, n
  <2> QED
    BY <2>2, <2>3
<1>7. \A k \in 1..n : made[k] = Bytes(base, steps[k]) /\ parts[k] = Instructions(steps[k])
  BY <1>1
<1>8. delta = (front \o second) \o all
  BY DEF GitDelta
<1> HIDE DEF n, made, parts, target, delta, all
<1>9. Number(front) /\ Number(second) /\ front \in Seq(0..255) /\ second \in Seq(0..255)
  <2>1. Len(base) \in Nat /\ Len(target) \in Nat
    BY <1>6, LenProperties
  <2>2. Number(front) /\ Number(second)
    BY <2>1, GroupsAreNumbers, Zenon
  <2> QED
    BY <2>2 DEF Number
<1> HIDE DEF front, second
<1> DEFINE start == 1 + Len(front) + Len(second)
<1>10. /\ delta \in Seq(0..255) /\ Len(delta) = Len(front) + Len(second) + Len(all)
       /\ At(delta, start, all) /\ At(delta, 1, front) /\ At(delta, 1 + Len(front), second)
       /\ Len(front) \in Nat /\ Len(second) \in Nat /\ Len(all) \in Nat
  <2>1. /\ front \o second \in Seq(0..255) /\ Len(front \o second) = Len(front) + Len(second)
        /\ Len(front) \in Nat /\ Len(second) \in Nat
    BY <1>9, TwoParts
  <2>2. /\ delta \in Seq(0..255) /\ Len(delta) = Len(front \o second) + Len(all)
        /\ Len(all) \in Nat
    BY <1>6, <1>8, <2>1, TwoParts
  <2>3. At(delta, 1, delta)
    BY <2>2 DEF At
  <2>4. At(delta, 1, front \o second) /\ At(delta, 1 + Len(front \o second), all)
    BY <1>6, <1>8, <2>1, <2>3, AtParts
  <2>5. At(delta, 1, front) /\ At(delta, 1 + Len(front), second)
    BY <1>9, <2>4, AtParts
  <2>6. 1 + Len(front \o second) = start
    BY <2>1
  <2> QED
    BY <2>1, <2>2, <2>4, <2>5, <2>6
<1>11. LastOf(delta, LastOf(delta, 1) + 1) + 1 = start
  <2>1. LastOf(delta, 1) = 1 - 1 + Len(front)
    BY <1>9, <1>10, NumberEnds
  <2>2. LastOf(delta, 1) + 1 = 1 + Len(front)
    BY <1>10, <2>1
  <2>3. LastOf(delta, 1 + Len(front)) = (1 + Len(front)) - 1 + Len(second)
    BY <1>9, <1>10, NumberEnds
  <2> QED
    BY <1>10, <2>2, <2>3
<1>12. PICK r : Runs(base, delta, r) /\ ApplyDelta(base, delta) = r[start]
  <2>1. PICK r : /\ Runs(base, delta, r)
                 /\ ApplyDelta(base, delta) = r[LastOf(delta, LastOf(delta, 1) + 1) + 1]
    BY <1>10, RunIsAFunction
  <2> QED
    BY <1>11, <2>1
<1> DEFINE at(k) == start + Len(g[k])
           Is(k) == r[at(k)] \in Seq(0..255) /\ f[k] \o r[at(k)] = target
<1>13. \A k \in 0..n : f[k] \in Seq(0..255) /\ g[k] \in Seq(0..255) /\ Len(g[k]) \in Nat
  <2>1. \A k \in 0..n : f[k] \in Seq(0..255) /\ g[k] \in Seq(0..255)
    BY <1>3, <1>4, <1>5 DEF Joins
  <2> QED
    BY <2>1, LenProperties
<1>14. start \in Nat \ {0}
  BY <1>10
<1> HIDE DEF start
<1>15. Is(n)
  <2>1. n \in 0..n
    BY <1>1
  <2>2. at(n) \in Nat \ {0} /\ at(n) > Len(delta)
    <3>1. Len(delta) = Len(front) + Len(second) + Len(all) /\ at(n) = start + Len(all)
      BY <1>6, <1>10
    <3>2. start = 1 + Len(front) + Len(second)
      BY DEF start
    <3>3. Len(front) \in Nat /\ Len(second) \in Nat /\ Len(all) \in Nat
      BY <1>10
    <3> HIDE DEF at
    <3> QED
      BY <3>1, <3>2, <3>3
  <2>3. r[at(n)] = <<>>
    <3>1. r[at(n)] = From(base, delta, r, at(n))
      BY <1>12, <2>2 DEF Runs
    <3> QED
      BY <2>2, <3>1 DEF From
  <2>4. f[n] \o <<>> = f[n]
    BY <1>6, ConcatEmptySeq
  <2> QED
    BY <1>6, <2>3, <2>4
<1>16. ASSUME NEW k \in 1..n, Is(k)
       PROVE  Is(k - 1)
  <2> DEFINE l == k - 1
             s == steps[k]
  <2>1. l \in 0..n /\ k \in 0..n /\ s \in Step /\ s.offset + s.size <= Len(base)
    BY <1>1, <1>2
  <2>2. f[k] = f[l] \o Bytes(base, s) /\ g[k] = g[l] \o Instructions(s)
    BY <1>3, <1>4, <1>5, <1>7 DEF Joins
  <2>3. f[l] \in Seq(0..255) /\ g[l] \in Seq(0..255) /\ Len(g[l]) \in Nat /\ g[k] \in Seq(0..255)
    BY <1>13, <2>1
  <2> HIDE DEF l, s
  <2>4. Bytes(base, s) \in Seq(0..255) /\ Instructions(s) \in Seq(0..255)
    BY <2>1, StepBytes
  <2>5. At(delta, start, g[k])
    <3>1. Len(g[k]) <= Len(g[n]) /\ \A i \in 1..Len(g[k]) : g[n][i] = g[k][i]
      <4>1. /\ parts \in Seq(Seq(0..255)) /\ Joins(0..255, parts, g)
            /\ k \in 0..Len(parts) /\ Len(parts) = n
        BY <1>3, <1>5, <2>1
      <4>2. /\ Len(g[k]) <= Len(g[Len(parts)])
            /\ \A i \in 1..Len(g[k]) : g[Len(parts)][i] = g[k][i]
        BY <4>1, FirstParts
      <4> QED
        BY <4>1, <4>2
    <3>2. /\ delta \in Seq(0..255) /\ start - 1 + Len(g[n]) <= Len(delta) /\ Len(delta) \in Nat
          /\ \A i \in 1..Len(g[n]) : delta[start - 1 + i] = g[n][i]
      <4>1. At(delta, start, g[n])
        BY <1>6, <1>10 DEF start
      <4> QED
        BY <1>10, <4>1 DEF At
    <3>3. Len(g[k]) \in Nat /\ Len(g[n]) \in Nat
      BY <1>6, <2>3, LenProperties
    <3>4. \A i \in 1..Len(g[k]) : i \in 1..Len(g[n])
      BY <3>1, <3>3
    <3>5. start - 1 + Len(g[k]) <= Len(delta)
      BY <1>14, <3>1, <3>2, <3>3
    <3> QED
      BY <1>14, <3>1, <3>2, <3>4, <3>5 DEF At
  <2>6. At(delta, at(l), Instructions(s))
    BY <2>2, <2>3, <2>4, <2>5, AtParts
  <2>7. at(k) = at(l) + Len(Instructions(s))
    <3>1. Len(g[k]) = Len(g[l]) + Len(Instructions(s)) /\ Len(Instructions(s)) \in Nat
      BY <2>2, <2>3, <2>4, TwoParts
    <3> QED
      BY <1>14, <2>3, <3>1
  <2>8. r[at(l)] = Bytes(base, s) \o r[at(k)]
    <3>1. Runs(base, delta, r) /\ r[at(l) + Len(Instructions(s))] \in Seq(0..255)
      BY <1>12, <1>16, <2>7
    <3> HIDE DEF at
    <3>2. r[at(l)] = Bytes(base, s) \o r[at(l) + Len(Instructions(s))]
      BY <2>1, <2>6, <3>1, StepRuns
    <3> QED
      BY <2>7, <3>2
  <2>9. r[at(l)] \in Seq(0..255)
    BY <1>16, <2>4, <2>8, ConcatProperties
  <2>10. f[l] \o r[at(l)] = target
    <3>1. r[at(k)] \in Seq(0..255) /\ f[k] \o r[at(k)] = target
      BY <1>16
    <3> HIDE DEF at
    <3>2. Touch(f[l], Bytes(base, s), r[at(k)], f[k], r[at(l)])
      BY <2>2, <2>3, <2>4, <2>8, <3>1, Zenon DEF Touch
    <3>3. Same(f[k], r[at(k)], f[l], r[at(l)])
      BY <3>2, Regroup
    <3> QED
      BY <3>1, <3>3, Zenon DEF Same
  <2> QED
    BY <2>9, <2>10 DEF l
<1> HIDE DEF Is
<1>17. Is(0)
  <2> DEFINE Others == {k \in 0..n : Is(k)}
  <2>1. PICK k \in Others : \A j \in Others : k <= j
    <3>1. Others \subseteq Nat /\ n \in Others
      BY <1>1, <1>15
    <3> HIDE DEF Others
    <3> QED
      BY <3>1, LeastNumber
  <2>2. k \in 0..n /\ Is(k)
    OBVIOUS
  <2>3. CASE k # 0
    <3>1. k \in 1..n /\ k - 1 \in 0..n /\ ~(k <= k - 1)
      BY <1>1, <2>2, <2>3
    <3>2. Is(k - 1)
      BY <1>16, <2>2, <3>1
    <3> QED
      BY <2>1, <3>1, <3>2
  <2> QED
    BY <2>2, <2>3
<1>18. r[start] = target
  <2>1. f[0] = <<>> /\ g[0] = <<>>
    BY <1>4, <1>5 DEF Joins
  <2>2. at(0) = start
    BY <1>14, <2>1
  <2> QED
    BY <1>17, <2>1, <2>2, ConcatEmptySeq DEF Is
<1> QED
  BY <1>12, <1>18 DEF target, delta

-------------------------------------------------------------------------------
(* Packs are read as they were written.                                       *)

Sendable     == Packs \cup {BuildPackfile(list) : list \in Lists}
PacksAreGits == \A p \in Packs : \E how : WrittenByGit(p, how)

\* The kind of an entry is read, and where what comes after its size is.
LEMMA HeaderIsRead ==
  ASSUME NEW kind \in 0..7, NEW size \in Nat, NEW rest \in Seq(0..255), NEW e,
         e.head = GitHeader(kind, size) \o rest
  PROVE  /\ Header(e).kind = kind /\ Header(e).pos = 1 + Len(GitHeader(kind, size))
         /\ e.head \in Seq(0..255) /\ Len(e.head) = Len(GitHeader(kind, size)) + Len(rest)
         /\ Len(GitHeader(kind, size)) \in Nat \ {0} /\ Len(rest) \in Nat
         /\ At(e.head, 1 + Len(GitHeader(kind, size)), rest)
<1> DEFINE h    == GitHeader(kind, size)
           data == e.head
<1>1. Number(h) /\ (h[1] \div 16) % 8 = kind
  BY HeadersAreNumbers
<1>2. h \in Seq(0..255) /\ Len(h) \in Nat \ {0}
  BY <1>1 DEF Number
<1>3. data = h \o rest
  OBVIOUS
<1> HIDE DEF h, data
<1>4. data \in Seq(0..255) /\ Len(data) = Len(h) + Len(rest) /\ Len(rest) \in Nat
  BY <1>2, <1>3, TwoParts
<1>5. At(data, 1, data)
  BY <1>4 DEF At
<1>6. At(data, 1, h) /\ At(data, 1 + Len(h), rest)
  BY <1>2, <1>3, <1>5, AtParts
<1>7. LastOf(data, 1) = Len(h)
  <2>1. LastOf(data, 1) = 1 - 1 + Len(h)
    BY <1>1, <1>6, NumberEnds
  <2> QED
    BY <1>2, <2>1
<1>8. data[1] = h[1]
  <2>1. 1 \in 1..Len(h) /\ 1 - 1 + 1 = 1
    BY <1>2
  <2> QED
    BY <1>6, <2>1 DEF At
<1>9. Header(e) = DecodeSizeType(data, 1)
  BY DEF Header, data
<1>10. Header(e).kind = (data[1] \div 16) % 8 /\ Header(e).pos = LastOf(data, 1) + 1
  BY <1>9 DEF DecodeSizeType
<1>11. Header(e).kind = kind /\ Header(e).pos = 1 + Len(h)
  BY <1>1, <1>2, <1>7, <1>8, <1>10
<1> QED
  BY <1>2, <1>4, <1>6, <1>11 DEF h, data

\* The object of a delta is what applying it finds.
LEMMA DeltaIsResolved ==
  ASSUME NEW base \in Obj, NEW steps \in Seq(Step), NEW e, e.obj \in Obj, DeltaByGit(base, steps, e)
  PROVE  Resolved(base, e.delta) = e.obj
<1>1. Content(base) \in Seq(0..255)
  BY ObjAssumption
<1>2. Inside(Content(base), steps)
  BY DEF DeltaByGit, Inside
<1>3. ApplyDelta(Content(base), GitDelta(Content(base), steps)) = Target(Content(base), steps)
  BY <1>1, <1>2, DeltaIsApplied
<1>4. Resolved(base, e.delta) = Hash(TypeOf(e.obj), Content(e.obj))
  BY <1>3 DEF Resolved, DeltaByGit
<1>5. Hash(TypeOf(e.obj), Content(e.obj)) = e.obj
  BY ObjAssumption DEF Hash
<1> QED
  BY <1>4, <1>5

\* Entries come one after the other.
LEMMA StartsGoUp ==
  ASSUME NEW p, NEW how, WrittenByGit(p, how), NEW i \in DOMAIN p, NEW j \in DOMAIN p, i < j
  PROVE  p[i].start + Width(p[i]) <= p[j].start
<1> DEFINE n      == Len(p)
           Others == {k \in DOMAIN p : i < k /\ ~(p[i].start + Width(p[i]) <= p[k].start)}
<1>1. p \in Seq(EntryType) /\ n \in Nat /\ DOMAIN p = 1..n
  BY DEF WrittenByGit
<1>2. \A k \in 1..n : p[k].start \in Nat /\ Width(p[k]) \in Nat
  <2>1. ASSUME NEW k \in 1..n
        PROVE  p[k].start \in Nat /\ Width(p[k]) \in Nat
    <3>1. p[k] \in EntryType
      BY <1>1, ElementOfSeq
    <3>2. /\ p[k].start \in Nat /\ Len(p[k].head) \in Nat /\ p[k].idlen \in Nat
          /\ p[k].zlen \in Nat
      BY <3>1 DEF EntryType
    <3>3. Width(p[k]) = Len(p[k].head) + p[k].idlen + p[k].zlen
      BY DEF Width
    <3>4. \A a, b, c \in Nat : a + b + c \in Nat
      OBVIOUS
    <3>5. Len(p[k].head) + p[k].idlen + p[k].zlen \in Nat
      BY <3>2, <3>4, Zenon
    <3> QED
      BY <3>2, <3>3, <3>5, Zenon
  <2> QED
    BY <2>1
<1>3. \A k \in 1..n : k # 1 => p[k].start = p[k - 1].start + Width(p[k - 1])
  BY <1>1 DEF WrittenByGit, EntryByGit
<1> SUFFICES ASSUME Others # {}
             PROVE  FALSE
  OBVIOUS
<1>4. PICK k \in Others : \A l \in Others : k <= l
  <2>1. Others \subseteq Nat
    BY <1>1
  <2> HIDE DEF Others
  <2> QED
    BY <2>1, LeastNumber
<1>5. k \in 1..n /\ i \in 1..n /\ i < k /\ ~(p[i].start + Width(p[i]) <= p[k].start)
  BY <1>1
<1> HIDE DEF n
<1>6. k # 1 /\ k - 1 \in 1..n /\ ~(k <= k - 1)
  BY <1>1, <1>5
<1>7. p[k].start = p[k - 1].start + Width(p[k - 1])
  BY <1>3, <1>5, <1>6
<1>8. CASE i = k - 1
  <2>1. p[k].start \in Nat
    BY <1>2, <1>5
  <2>2. p[i].start + Width(p[i]) = p[k].start
    BY <1>7, <1>8
  <2> QED
    BY <1>5, <2>1, <2>2
<1>9. CASE i # k - 1
  <2>1. i < k - 1
    BY <1>1, <1>5, <1>9
  <2>2. p[i].start + Width(p[i]) <= p[k - 1].start
    <3>1. k - 1 \notin Others
      BY <1>4, <1>6
    <3> QED
      BY <1>1, <1>6, <2>1, <3>1
  <2>3. /\ p[i].start \in Nat /\ Width(p[i]) \in Nat /\ p[k - 1].start \in Nat
        /\ Width(p[k - 1]) \in Nat /\ p[k].start \in Nat
    BY <1>2, <1>5, <1>6
  <2> QED
    BY <1>5, <1>7, <2>2, <2>3
<1> QED
  BY <1>8, <1>9

\* What git writes is read back.
LEMMA EntriesAreRead ==
  ASSUME NEW p, NEW how, WrittenByGit(p, how), NEW i \in DOMAIN p
  PROVE  EntryReadsBack(p, i) /\ p[i].head # <<>>
<1> DEFINE e    == p[i]
           size == IF e.kind \in {OBJ_OFS_DELTA, OBJ_REF_DELTA} THEN Len(e.delta)
                   ELSE Len(Content(e.obj))
           h    == GitHeader(e.kind, size)
           rest == IF e.kind = OBJ_OFS_DELTA THEN GitOffset(e.start - p[e.on].start) ELSE <<>>
<1>1. p \in Seq(EntryType) /\ DOMAIN p = 1..Len(p) /\ Len(p) \in Nat
  BY DEF WrittenByGit
<1>2. \A k \in DOMAIN p : p[k] \in EntryType
  BY <1>1, ElementOfSeq
<1>3. e.kind \in 0..7 /\ e.obj \in Obj /\ e.start \in Nat /\ e.delta \in Seq(0..255)
  BY <1>2 DEF EntryType
<1>4. EntryByGit(p, how, i) /\ how[i] \in Seq(Step)
  BY DEF WrittenByGit
<1>5. /\ e.kind \in Plain => e.kind = TypeOf(e.obj)
      /\ e.kind = OBJ_OFS_DELTA => e.on \in 1..(i - 1) /\ DeltaByGit(p[e.on].obj, how[i], e)
      /\ e.kind = OBJ_REF_DELTA => /\ e.on # 0 => e.on \in DOMAIN p /\ e.id = p[e.on].obj
                                   /\ e.id \in Obj /\ DeltaByGit(e.id, how[i], e)
      /\ e.on # 0 => p[e.on].kind \in Kinds
      /\ e.idlen = IF e.kind = OBJ_REF_DELTA THEN 20 ELSE 0
      /\ e.head = h \o rest
  BY <1>4 DEF EntryByGit
<1>6. size \in Nat
  <2>1. Content(e.obj) \in Seq(0..255)
    BY <1>3, ObjAssumption
  <2>2. Len(e.delta) \in Nat /\ Len(Content(e.obj)) \in Nat
    BY <1>3, <2>1, LenProperties
  <2> QED
    BY <2>2
<1> HIDE DEF size
<1>7. ASSUME e.kind = OBJ_OFS_DELTA
      PROVE  /\ e.on \in 1..(i - 1) /\ p[e.on].obj \in Obj /\ p[e.on].start \in Nat
             /\ e.start - p[e.on].start \in Nat
  <2>1. e.on \in 1..(i - 1)
    BY <1>5, <1>7
  <2>2. e.on \in DOMAIN p /\ e.on < i
    BY <1>1, <2>1
  <2>3. p[e.on].obj \in Obj /\ p[e.on].start \in Nat /\ Width(p[e.on]) \in Nat
    <3>1. p[e.on] \in EntryType
      BY <1>2, <2>2
    <3>2. /\ p[e.on].obj \in Obj /\ p[e.on].start \in Nat /\ Len(p[e.on].head) \in Nat
          /\ p[e.on].idlen \in Nat /\ p[e.on].zlen \in Nat
      BY <3>1 DEF EntryType
    <3>3. Width(p[e.on]) = Len(p[e.on].head) + p[e.on].idlen + p[e.on].zlen
      BY DEF Width
    <3>4. \A a, b, c \in Nat : a + b + c \in Nat
      OBVIOUS
    <3>5. Len(p[e.on].head) + p[e.on].idlen + p[e.on].zlen \in Nat
      BY <3>2, <3>4, Zenon
    <3> QED
      BY <3>2, <3>3, <3>5, Zenon
  <2>4. p[e.on].start + Width(p[e.on]) <= e.start
    BY <2>2, StartsGoUp
  <2>5. e.start - p[e.on].start \in Nat
    BY <1>3, <2>3, <2>4
  <2> QED
    BY <2>1, <2>3, <2>5
<1>8. rest \in Seq(0..255)
  <2>1. CASE e.kind = OBJ_OFS_DELTA
    BY <1>7, <2>1, OffsetsAreNumbers DEF Number
  <2>2. CASE e.kind # OBJ_OFS_DELTA
    <3>1. rest = <<>> /\ <<>> \in Seq(0..255)
      BY <2>2
    <3> HIDE DEF rest
    <3> QED
      BY <3>1
  <2> QED
    BY <2>1, <2>2
<1> HIDE DEF rest
<1>9. /\ Header(e).kind = e.kind /\ Header(e).pos = 1 + Len(h)
      /\ e.head \in Seq(0..255) /\ Len(e.head) = Len(h) + Len(rest)
      /\ Len(h) \in Nat \ {0} /\ Len(rest) \in Nat /\ At(e.head, 1 + Len(h), rest)
  BY <1>3, <1>5, <1>6, <1>8, HeaderIsRead
<1> HIDE DEF h
<1>10. e.head # <<>>
  <2>1. Len(e.head) # 0 /\ Len(<<>>) = 0
    BY <1>9
  <2> QED
    BY <2>1
<1>11. CASE e.kind = OBJ_OFS_DELTA
  <2> DEFINE d == e.start - p[e.on].start
  <2>1. d \in Nat /\ rest = GitOffset(d)
    BY <1>7, <1>11 DEF rest
  <2>2. Distance(e) = [off |-> d, pos |-> (1 + Len(h)) + Len(GitOffset(d))]
    <3> HIDE DEF d
    <3>1. DecodeOffset(e.head, 1 + Len(h)) = [off |-> d, pos |-> (1 + Len(h)) + Len(GitOffset(d))]
      BY <1>9, <2>1, DistanceIsRead
    <3> QED
      BY <1>9, <3>1 DEF Distance
  <2>3. Read(e) = Len(e.head) + e.idlen
    <3>1. e.idlen = 0
      BY <1>5, <1>11 DEF OBJ_OFS_DELTA, OBJ_REF_DELTA
    <3>2. Read(e) = Distance(e).pos - 1
      BY <1>9, <1>11 DEF Read, OBJ_OFS_DELTA, OBJ_REF_DELTA
    <3>3. Distance(e).pos = (1 + Len(h)) + Len(rest)
      BY <2>1, <2>2
    <3> QED
      BY <1>9, <3>1, <3>2, <3>3
  <2>4. e.start - Distance(e).off = p[e.on].start
    <3>1. Distance(e).off = d
      BY <2>2
    <3>2. \A a \in Nat, b \in Nat : a - (a - b) = b
      OBVIOUS
    <3> QED
      BY <1>3, <1>7, <1>11, <3>1, <3>2
  <2>5. Resolved(p[e.on].obj, e.delta) = e.obj
    BY <1>3, <1>4, <1>5, <1>7, <1>11, DeltaIsResolved
  <2>6. e.kind \notin Plain /\ e.kind # OBJ_REF_DELTA
    BY <1>11 DEF Plain, OBJ_OFS_DELTA, OBJ_REF_DELTA
  <2> QED
    BY <1>5, <1>9, <1>10, <1>11, <2>3, <2>4, <2>5, <2>6, Zenon DEF EntryReadsBack
<1>12. CASE e.kind # OBJ_OFS_DELTA
  <2>1. rest = <<>> /\ Len(rest) = 0
    BY <1>12 DEF rest
  <2>2. Read(e) = Len(e.head) + e.idlen
    <3>1. CASE e.kind = OBJ_REF_DELTA
      <4>1. e.idlen = 20 /\ Read(e) = Header(e).pos - 1 + 20
        BY <1>5, <1>9, <1>12, <3>1 DEF Read
      <4> QED
        BY <1>9, <2>1, <4>1
    <3>2. CASE e.kind # OBJ_REF_DELTA
      <4>1. e.idlen = 0 /\ Read(e) = Header(e).pos - 1
        BY <1>5, <1>9, <1>12, <3>2 DEF Read
      <4> QED
        BY <1>9, <2>1, <4>1
    <3> QED
      BY <3>1, <3>2
  <2>3. e.kind \in Plain => Hash(e.kind, Content(e.obj)) = e.obj
    BY <1>3, <1>5, ObjAssumption DEF Hash
  <2>4. e.kind = OBJ_REF_DELTA => Resolved(e.id, e.delta) = e.obj
    BY <1>3, <1>4, <1>5, DeltaIsResolved
  <2> QED
    BY <1>5, <1>9, <1>10, <1>12, <2>2, <2>3, <2>4, Zenon DEF EntryReadsBack
<1> QED
  BY <1>11, <1>12

\* The places that build_packfile counts are those of a function.
LEMMA StartsAre ==
  ASSUME NEW list \in Lists
  PROVE  \A i \in DOMAIN list :
           /\ Starts(list)[i] \in Nat
           /\ Starts(list)[i] = IF i = 1 THEN 12
                                ELSE Starts(list)[i - 1] + Len(HeadOf(list[i - 1])) + 1
<1> DEFINE n      == Len(list)
           D      == DOMAIN list
           long   == [i \in D |-> Len(HeadOf(list[i]))]
           stop   == {1}
           base   == [i \in D |-> 12]
           down   == [i \in D |-> IF i = 1 THEN 1 ELSE i - 1]
           step   == [x \in D \X Nat |-> x[2] + long[down[x[1]]] + 1]
           Is(s)  == s = [i \in D |-> IF i = 1 THEN 12 ELSE s[i - 1] + Len(HeadOf(list[i - 1])) + 1]
           starts == CHOOSE s : Is(s)
<1>1. /\ list \in Seq(Obj) /\ n \in Nat /\ D = 1..n
      /\ \A i \in D : list[i] \in Obj /\ TypeOf(list[i]) \in Plain
  <2>1. list \in Seq(Obj) /\ \A i \in D : TypeOf(list[i]) \in Plain
    BY ListsAssumption
  <2> QED
    BY <2>1, ElementOfSeq
<1>2. \A i \in D : Len(HeadOf(list[i])) \in Nat
  <2>1. ASSUME NEW o \in Obj, TypeOf(o) \in Plain
        PROVE  Len(HeadOf(o)) \in Nat
    <3>1. TypeOf(o) \in 0..7 /\ Content(o) \in Seq(0..255)
      BY <2>1, ObjAssumption DEF Plain
    <3>2. Len(Content(o)) \in Nat
      BY <3>1, LenProperties
    <3>3. /\ Number(GitHeader(TypeOf(o), Len(Content(o))))
          /\ HeadOf(o) = GitHeader(TypeOf(o), Len(Content(o)))
      BY <3>1, <3>2, HeadersAreNumbers DEF HeadOf
    <3> QED
      BY <3>3 DEF Number
  <2> QED
    BY <1>1, <2>1
<1> HIDE DEF n, D
<1>3. Descends(D, Nat, stop, base, down, step)
  <2>1. D \subseteq Nat /\ down \in [D -> D] /\ \A i \in D : i \notin stop => down[i] < i
    BY <1>1
  <2>2. \A i \in D : long[i] \in Nat
    BY <1>2
  <2> HIDE DEF long
  <2>3. ASSUME NEW x \in D \X Nat
        PROVE  x[2] + long[down[x[1]]] + 1 \in Nat
    <3>1. x[2] \in Nat /\ down[x[1]] \in D
      BY <2>1
    <3> HIDE DEF down
    <3>2. long[down[x[1]]] \in Nat
      BY <2>2, <3>1
    <3> QED
      BY <3>1, <3>2
  <2>4. step \in [D \X Nat -> Nat]
    <3> HIDE DEF down
    <3> QED
      BY <2>3
  <2> HIDE DEF down, step
  <2> QED
    BY <2>1, <2>4 DEF Descends
<1>4. PICK f : Solves(f, D, Nat, stop, base, down, step)
  <2> HIDE DEF stop, base, down, step
  <2> QED
    BY <1>3, Recursion
<1>5. f \in [D -> Nat] /\ \A i \in D : f[i] = Made(stop, base, down, step, f, i)
  BY <1>4 DEF Solves
<1>6. ASSUME NEW i \in D
      PROVE  f[i] = IF i = 1 THEN 12 ELSE f[i - 1] + Len(HeadOf(list[i - 1])) + 1
  <2>1. CASE i = 1
    BY <1>5, <2>1 DEF Made
  <2>2. CASE i # 1
    <3>1. i \notin stop /\ i - 1 \in D /\ down[i] = i - 1 /\ f[i - 1] \in Nat
      BY <1>1, <1>5, <2>2
    <3>2. step[<<i, f[i - 1]>>] = f[i - 1] + long[down[i]] + 1
      <4> HIDE DEF long, down
      <4> QED
        BY <3>1
    <3>3. long[down[i]] = Len(HeadOf(list[i - 1]))
      BY <3>1
    <3> HIDE DEF stop, base, down, step, long
    <3> QED
      BY <1>5, <2>2, <3>1, <3>2, <3>3 DEF Made
  <2> QED
    BY <2>1, <2>2
<1>7. Is(f)
  <2>1. f = [i \in D |-> f[i]]
    BY <1>5
  <2> QED
    BY <1>6, <2>1
<1>8. Is(starts)
  <2> HIDE DEF Is
  <2> QED
    BY <1>7
<1>9. Starts(list) = starts
  BY DEF Starts, D
<1>10. \A i \in D : starts[i] = IF i = 1 THEN 12 ELSE starts[i - 1] + Len(HeadOf(list[i - 1])) + 1
  BY <1>8
<1> HIDE DEF starts
<1>11. \A i \in D : starts[i] \in Nat
  <2> DEFINE Others == {i \in D : starts[i] \notin Nat}
  <2> SUFFICES ASSUME Others # {}
               PROVE  FALSE
    OBVIOUS
  <2>1. PICK i \in Others : \A j \in Others : i <= j
    <3>1. Others \subseteq Nat
      BY <1>1
    <3> HIDE DEF Others
    <3> QED
      BY <3>1, LeastNumber
  <2>2. i \in D /\ starts[i] \notin Nat
    OBVIOUS
  <2>3. CASE i = 1
    BY <1>10, <2>2, <2>3
  <2>4. CASE i # 1
    <3>1. i - 1 \in D /\ ~(i <= i - 1)
      BY <1>1, <2>2, <2>4
    <3>2. starts[i - 1] \in Nat /\ Len(HeadOf(list[i - 1])) \in Nat
      BY <1>2, <2>1, <3>1
    <3>3. starts[i] = starts[i - 1] + Len(HeadOf(list[i - 1])) + 1
      BY <1>10, <2>2, <2>4
    <3> QED
      BY <2>2, <3>2, <3>3
  <2> QED
    BY <2>3, <2>4
<1> QED
  BY <1>9, <1>10, <1>11 DEF D

\* A pack that davgit builds is one that git could have written.
LEMMA OwnPacksAreGits ==
  ASSUME NEW list \in Lists
  PROVE  \E how : WrittenByGit(BuildPackfile(list), how)
<1> DEFINE p   == BuildPackfile(list)
           how == [i \in DOMAIN p |-> <<>>]
<1>1. /\ list \in Seq(Obj) /\ Len(list) \in Nat /\ DOMAIN list = 1..Len(list)
      /\ \A i \in DOMAIN list : list[i] \in Obj /\ TypeOf(list[i]) \in Plain
      /\ \A i \in DOMAIN list, j \in DOMAIN list : list[i] = list[j] => i = j
  <2>1. /\ list \in Seq(Obj) /\ \A i \in DOMAIN list : TypeOf(list[i]) \in Plain
        /\ \A i \in DOMAIN list, j \in DOMAIN list : list[i] = list[j] => i = j
    BY ListsAssumption
  <2> QED
    BY <2>1, ElementOfSeq
<1>2. DOMAIN p = DOMAIN list
  BY DEF BuildPackfile
<1>3. ASSUME NEW i \in DOMAIN list
      PROVE  /\ p[i].kind = TypeOf(list[i]) /\ p[i].head = HeadOf(list[i]) /\ p[i].idlen = 0
             /\ p[i].delta = <<>> /\ p[i].zlen = 1 /\ p[i].start = Starts(list)[i]
             /\ p[i].obj = list[i] /\ p[i].on = 0
             /\ p[i] = [kind |-> p[i].kind, head |-> p[i].head, idlen |-> 0, id |-> None,
                        delta |-> <<>>, zlen |-> 1, start |-> p[i].start, obj |-> p[i].obj,
                        on |-> 0]
  BY DEF BuildPackfile
<1> HIDE DEF p
<1>4. ASSUME NEW i \in DOMAIN list
      PROVE  /\ p[i].kind \in 0..7 /\ p[i].head \in Seq(0..255) /\ p[i].start \in Nat
             /\ p[i].head = GitHeader(p[i].kind, Len(Content(p[i].obj)))
  <2>1. TypeOf(list[i]) \in 0..7 /\ Content(list[i]) \in Seq(0..255)
    BY <1>1, ObjAssumption DEF Plain
  <2>2. Len(Content(list[i])) \in Nat
    BY <2>1, LenProperties
  <2>3. /\ Number(GitHeader(TypeOf(list[i]), Len(Content(list[i]))))
        /\ HeadOf(list[i]) = GitHeader(TypeOf(list[i]), Len(Content(list[i])))
    BY <2>1, <2>2, HeadersAreNumbers DEF HeadOf
  <2>4. HeadOf(list[i]) \in Seq(0..255)
    BY <2>3 DEF Number
  <2>5. Starts(list)[i] \in Nat
    BY StartsAre
  <2> QED
    BY <1>3, <2>1, <2>3, <2>4, <2>5
<1>5. p \in Seq(EntryType)
  <2>1. ASSUME NEW i \in DOMAIN list
        PROVE  p[i] \in EntryType
    <3> DEFINE kind  == p[i].kind
               head  == p[i].head
               start == p[i].start
               obj   == p[i].obj
    <3>1. p[i] = [kind |-> kind, head |-> head, idlen |-> 0, id |-> None, delta |-> <<>>,
                  zlen |-> 1, start |-> start, obj |-> obj, on |-> 0]
      BY <1>3
    <3>2. obj = list[i] /\ list[i] \in Obj
      BY <1>1, <1>3, Zenon
    <3>3. kind \in 0..7 /\ head \in Seq(0..255) /\ start \in Nat
      BY <1>4
    <3> HIDE DEF kind, head, start, obj
    <3>4. <<>> \in Seq(0..255)
      OBVIOUS
    <3> QED
      BY <3>1, <3>2, <3>3, <3>4 DEF EntryType
  <2>2. p = [i \in 1..Len(list) |-> p[i]]
    BY <1>1 DEF p, BuildPackfile
  <2> QED
    BY <1>1, <2>1, <2>2
<1>6. how \in [DOMAIN p -> Seq(Step)]
  BY EmptySeq
<1>7. ASSUME NEW i \in DOMAIN p
      PROVE  EntryByGit(p, how, i)
  <2> DEFINE e == p[i]
  <2>1. e.kind \in Plain /\ e.kind = TypeOf(e.obj) /\ e.on = 0 /\ e.idlen = 0
    BY <1>1, <1>2, <1>3
  <2>2. e.kind # OBJ_OFS_DELTA /\ e.kind # OBJ_REF_DELTA
    BY <2>1 DEF Plain, OBJ_OFS_DELTA, OBJ_REF_DELTA
  <2>3. e.start = IF i = 1 THEN 12 ELSE p[i - 1].start + Width(p[i - 1])
    <3>1. CASE i = 1
      BY <1>2, <1>3, <3>1, StartsAre
    <3>2. CASE i # 1
      <4>1. i \in DOMAIN list /\ i - 1 \in DOMAIN list
        BY <1>1, <1>2, <3>2
      <4>2. e.start = Starts(list)[i - 1] + Len(HeadOf(list[i - 1])) + 1
        <5>1. e.start = Starts(list)[i]
          BY <1>3, <4>1, Zenon
        <5>2. Starts(list)[i] = IF i = 1 THEN 12
                                ELSE Starts(list)[i - 1] + Len(HeadOf(list[i - 1])) + 1
          BY <4>1, StartsAre
        <5> HIDE DEF e
        <5> QED
          BY <3>2, <5>1, <5>2
      <4>3. /\ Width(p[i - 1]) = Len(HeadOf(list[i - 1])) + 0 + 1
            /\ p[i - 1].start = Starts(list)[i - 1]
        BY <1>3, <4>1 DEF Width
      <4>4. Starts(list)[i - 1] \in Nat /\ Len(HeadOf(list[i - 1])) \in Nat
        <5>1. p[i - 1].head \in Seq(0..255) /\ p[i - 1].head = HeadOf(list[i - 1])
          BY <1>3, <1>4, <4>1
        <5> QED
          BY <4>1, <5>1, StartsAre, LenProperties
      <4>5. \A a \in Nat, b \in Nat : a + b + 1 = a + (b + 0 + 1)
        OBVIOUS
      <4> QED
        BY <3>2, <4>2, <4>3, <4>4, <4>5
    <3> QED
      BY <3>1, <3>2
  <2>4. e.head = GitHeader(e.kind, Len(Content(e.obj))) \o <<>>
    <3>1. e.head \in Seq(0..255) /\ e.head = GitHeader(e.kind, Len(Content(e.obj)))
      BY <1>2, <1>4
    <3> QED
      BY <3>1, ConcatEmptySeq
  <2> HIDE DEF how
  <2> QED
    BY <2>1, <2>2, <2>3, <2>4, Zenon DEF EntryByGit
<1>8. \A i \in DOMAIN p, j \in DOMAIN p : p[i].obj = p[j].obj => i = j
  BY <1>1, <1>2, <1>3
<1>9. WrittenByGit(p, how)
  <2> HIDE DEF how
  <2> QED
    BY <1>5, <1>6, <1>7, <1>8 DEF WrittenByGit
<1> QED
  BY <1>9 DEF p

\* So git's packs are read back, and davgit's own.
LEMMA PacksAreRead ==
  ASSUME PacksAreGits, NEW p \in Sendable
  PROVE  ReadsBack(p)
<1>1. PICK how : WrittenByGit(p, how)
  BY OwnPacksAreGits DEF PacksAreGits, Sendable
<1>2. p \in Seq(EntryType) /\ DOMAIN p = 1..Len(p) /\ Len(p) \in Nat
  BY <1>1 DEF WrittenByGit
<1>3. p # <<>> => p[1].start = 12
  <2> SUFFICES ASSUME p # <<>>
               PROVE  p[1].start = 12
    OBVIOUS
  <2>1. 1 \in DOMAIN p
    BY <1>2, EmptySeq
  <2> QED
    BY <1>1, <2>1 DEF WrittenByGit, EntryByGit
<1>4. \A i \in DOMAIN p : EntryReadsBack(p, i) /\ p[i].head # <<>>
  BY <1>1, EntriesAreRead
<1>5. ASSUME NEW i \in DOMAIN p, NEW j \in DOMAIN p
      PROVE  /\ i < j => p[i].start + Width(p[i]) <= p[j].start
             /\ i + 1 = j => p[j].start = p[i].start + Width(p[i])
             /\ p[i].obj = p[j].obj => i = j
  <2>1. i < j => p[i].start + Width(p[i]) <= p[j].start
    BY <1>1, StartsGoUp
  <2>2. i + 1 = j => p[j].start = p[i].start + Width(p[i])
    <3> SUFFICES ASSUME i + 1 = j
                 PROVE  p[j].start = p[i].start + Width(p[i])
      OBVIOUS
    <3>1. j # 1 /\ j - 1 = i
      BY <1>2
    <3>2. p[j].start = IF j = 1 THEN 12 ELSE p[j - 1].start + Width(p[j - 1])
      BY <1>1 DEF WrittenByGit, EntryByGit
    <3> QED
      BY <3>1, <3>2
  <2>3. p[i].obj = p[j].obj => i = j
    BY <1>1 DEF WrittenByGit
  <2> QED
    BY <2>1, <2>2, <2>3
<1> QED
  BY <1>2, <1>3, <1>4, <1>5 DEF ReadsBack

-------------------------------------------------------------------------------
(* The parse of a pack.                                                       *)

\* A pack that reads back, some kind of prefix of which arrived.
Arrived == PackReadsBack /\ got \in Arrivals(pack)

-------------------------------------------------------------------------------
(* Entries and the places they start at.                                    *)

\* The fields of an entry are what they are written as.
LEMMA EntryFields ==
  ASSUME ReadsBack(pack), NEW i \in 1..Len(pack)
  PROVE  /\ Len(pack) \in Nat /\ DOMAIN pack = 1..Len(pack)
         /\ pack[i].kind \in 0..7 /\ pack[i].start \in Nat /\ pack[i].obj \in Obj
         /\ Len(pack[i].head) \in Nat \ {0} /\ pack[i].idlen \in Nat /\ pack[i].zlen \in Nat
         /\ Width(pack[i]) \in Nat \ {0}
         /\ EntryReadsBack(pack, i)
<1>1. pack \in Seq(EntryType)
  BY DEF ReadsBack
<1>2. Len(pack) \in Nat /\ DOMAIN pack = 1..Len(pack) /\ pack[i] \in EntryType
  BY <1>1
<1>3. /\ pack[i].kind \in 0..7 /\ pack[i].start \in Nat /\ pack[i].obj \in Obj
      /\ pack[i].head \in Seq(0..255) /\ pack[i].idlen \in Nat /\ pack[i].zlen \in Nat
  BY <1>2 DEF EntryType
<1>4. EntryReadsBack(pack, i) /\ pack[i].head # <<>>
  BY <1>2 DEF ReadsBack
<1>5. Len(pack[i].head) \in Nat \ {0}
  BY <1>3, <1>4, EmptySeq
<1>6. Width(pack[i]) \in Nat \ {0}
  <2>1. Width(pack[i]) = Len(pack[i].head) + pack[i].idlen + pack[i].zlen
    BY DEF Width
  <2>2. \A m \in Nat \ {0}, n \in Nat, o \in Nat : m + n + o \in Nat \ {0}
    OBVIOUS
  <2> QED
    BY <1>3, <1>5, <2>1, <2>2
<1> QED
  BY <1>2, <1>3, <1>4, <1>5, <1>6

\* Entries start in the order of the pack, at different places, and stand for
\* different objects.
LEMMA EntryOrder ==
  ASSUME ReadsBack(pack), NEW i \in 1..Len(pack), NEW j \in 1..Len(pack)
  PROVE  /\ i < j <=> pack[i].start < pack[j].start
         /\ i = j <=> pack[i].start = pack[j].start
         /\ pack[i].obj = pack[j].obj => i = j
<1>1. /\ DOMAIN pack = 1..Len(pack) /\ Len(pack) \in Nat
      /\ pack[i].start \in Nat /\ Width(pack[i]) \in Nat \ {0}
      /\ pack[j].start \in Nat /\ Width(pack[j]) \in Nat \ {0}
  BY EntryFields
<1>2. /\ i < j => pack[i].start + Width(pack[i]) <= pack[j].start
      /\ j < i => pack[j].start + Width(pack[j]) <= pack[i].start
      /\ pack[i].obj = pack[j].obj => i = j
  BY <1>1 DEF ReadsBack
<1>3. i < j \/ j < i \/ i = j
  BY <1>1
<1> QED
  BY <1>1, <1>2, <1>3

\* An entry starts where the one before it ends.
LEMMA EntryFollows ==
  ASSUME ReadsBack(pack), NEW i \in 1..Len(pack), i + 1 <= Len(pack)
  PROVE  pack[i + 1].start = pack[i].start + Width(pack[i])
<1>1. DOMAIN pack = 1..Len(pack) /\ Len(pack) \in Nat
  BY EntryFields
<1>2. i + 1 \in 1..Len(pack)
  BY <1>1
<1> QED
  BY <1>1, <1>2 DEF ReadsBack

\* The first entry starts after the 12 bytes in front of it, and 20 bytes of
\* checksum end the pack: it has at least 32 bytes.
LEMMA PackSize ==
  ASSUME ReadsBack(pack)
  PROVE  /\ Size(pack) \in Nat /\ Size(pack) >= 32
         /\ pack # <<>> => pack[1].start = 12
<1>1. CASE pack = <<>>
  BY <1>1 DEF Size
<1>2. CASE pack # <<>>
  <2>1. pack \in Seq(EntryType)
    BY DEF ReadsBack
  <2>2. Len(pack) \in Nat /\ 1 \in 1..Len(pack) /\ Len(pack) \in 1..Len(pack)
    BY <1>2, <2>1, EmptySeq
  <2>3. pack[1].start = 12
    BY <1>2 DEF ReadsBack
  <2>4. pack[Len(pack)].start \in Nat /\ Width(pack[Len(pack)]) \in Nat
    BY <2>2, EntryFields
  <2>5. pack[Len(pack)].start >= 12
    <3>1. CASE Len(pack) = 1
      BY <3>1, <2>3, <2>4
    <3>2. CASE 1 < Len(pack)
      BY <3>2, <2>2, <2>3, <2>4, EntryOrder
    <3> QED
      BY <3>1, <3>2, <2>2
  <2> QED
    BY <1>2, <2>3, <2>4, <2>5 DEF Size
<1> QED
  BY <1>1, <1>2

\* What arrives is the pack or less of it.
LEMMA ArrivedOrCut ==
  ASSUME Arrived
  PROVE  got \in Int /\ (got = Size(pack) \/ got < Size(pack))
<1>1. Size(pack) \in Nat /\ Size(pack) >= 32
  BY PackSize DEF Arrived, PackReadsBack
<1> QED
  BY <1>1 DEF Arrived, Arrivals

\* The program reads the entry that is next as it was written.
LEMMA EntryIsRead ==
  ASSUME Arrived, PhaseInv, phase = "entries", next <= Len(pack)
  PROVE  /\ next \in 1..Len(pack) /\ pos = pack[next].start
         /\ Header(Entry).kind = pack[next].kind /\ Aligned
         /\ EntryReadsBack(pack, next)
<1>1. next \in 1..Len(pack) /\ pos = pack[next].start
  BY DEF PhaseInv
<1>2. EntryReadsBack(pack, next)
  BY <1>1, EntryFields DEF Arrived, PackReadsBack
<1> QED
  BY <1>1, <1>2 DEF EntryReadsBack, Entry, Aligned

-------------------------------------------------------------------------------
(* What a step makes of an entry.                                           *)

\* Entry i is found: its object, at the place where it starts.
Finds(i) ==
  /\ objects' = objects \cup {pack[i].obj}
  /\ byOffset' = byOffset \cup {FoundAt(i)}

Late == {i \in BeforeNext : pack[i].kind = OBJ_REF_DELTA}

\* The base at the distance that an OFS_DELTA gives is the one it was made with.
LEMMA BaseIsFound ==
  ASSUME Arrived, PhaseInv, FoundInv, phase = "entries", next <= Len(pack),
         pack[next].kind = OBJ_OFS_DELTA
  PROVE  /\ pack[next].on \in 1..(next - 1)
         /\ \A b \in Bases : Resolved(b.obj, Entry.delta) = pack[next].obj
         /\ FoundAt(pack[next].on) \in byOffset => Bases # {}
<1> DEFINE on == pack[next].on
<1>1. /\ next \in 1..Len(pack) /\ pos = pack[next].start
      /\ on \in 1..(next - 1) /\ pos - Distance(Entry).off = pack[on].start
      /\ Resolved(pack[on].obj, Entry.delta) = pack[next].obj
  BY EntryIsRead DEF EntryReadsBack, Entry
<1>2. Len(pack) \in Nat /\ on \in 1..Len(pack)
  BY <1>1, EntryFields DEF Arrived, PackReadsBack
<1>3. ASSUME NEW b \in Bases
      PROVE  Resolved(b.obj, Entry.delta) = pack[next].obj
  <2>1. b \in byOffset /\ b.at = pack[on].start
    BY <1>1 DEF Bases
  <2>2. PICK j \in BeforeNext : b = FoundAt(j)
    BY <2>1 DEF FoundInv
  <2>3. j \in 1..Len(pack) /\ b.at = pack[j].start /\ b.obj = pack[j].obj
    BY <2>2, <1>1, <1>2 DEF BeforeNext, FoundAt
  <2>4. j = on
    BY <2>1, <2>3, <1>2, EntryOrder DEF Arrived, PackReadsBack
  <2> QED
    BY <2>3, <2>4, <1>1
<1>4. ASSUME FoundAt(on) \in byOffset
      PROVE  Bases # {}
  <2>1. FoundAt(on).at = pos - Distance(Entry).off
    BY <1>1 DEF FoundAt
  <2> QED
    BY <2>1, <1>4 DEF Bases
<1> QED
  BY <1>1, <1>3, <1>4

\* A parsed entry is found, put off, or of a kind that is forgotten.
LEMMA EntryIsParsed ==
  ASSUME Arrived, PhaseInv, FoundInv, ParseEntry
  PROVE  /\ phase = "entries" /\ next \in 1..Len(pack)
         /\ \/ /\ pack[next].kind \in Kinds /\ Finds(next) /\ deferred' = deferred
            \/ /\ pack[next].kind = OBJ_REF_DELTA /\ pack[next].id \notin objects
               /\ deferred' = Append(deferred, DeltaAt(next))
               /\ UNCHANGED <<objects, byOffset>>
            \/ pack[next].kind \notin Kinds /\ UNCHANGED found
<1>1. phase = "entries" /\ next <= Len(pack)
  BY DEF ParseEntry
<1>2. /\ next \in 1..Len(pack) /\ pos = pack[next].start /\ EntryReadsBack(pack, next)
      /\ Header(Entry).kind = pack[next].kind /\ Entry = pack[next]
  BY <1>1, EntryIsRead DEF Entry
<1>3. ASSUME Store(pack[next].obj, pos)
      PROVE  Finds(next)
  BY <1>2, <1>3 DEF Store, Finds, FoundAt
<1>4. CASE ParsePlain
  <2>1. Hash(pack[next].kind, Content(pack[next].obj)) = pack[next].obj
    BY <1>2, <1>4 DEF ParsePlain, EntryReadsBack
  <2>2. pack[next].kind \in Kinds /\ Store(pack[next].obj, pos) /\ deferred' = deferred
    BY <1>2, <1>4, <2>1 DEF ParsePlain, Kinds
  <2> QED
    BY <1>1, <1>2, <1>3, <2>2
<1>5. CASE ParseOfsDelta
  <2>1. pack[next].kind = OBJ_OFS_DELTA /\ pack[next].kind \in Kinds /\ deferred' = deferred
    BY <1>2, <1>5 DEF ParseOfsDelta, Kinds
  <2>2. PICK b \in Bases : Store(Resolved(b.obj, Entry.delta), pos)
    BY <1>5 DEF ParseOfsDelta
  <2>3. Store(pack[next].obj, pos)
    BY <1>1, <2>1, <2>2, BaseIsFound
  <2> QED
    BY <1>1, <1>2, <1>3, <2>1, <2>3
<1>6. CASE ParseRefDelta
  <2>1. pack[next].kind = OBJ_REF_DELTA /\ pack[next].kind \in Kinds
    BY <1>2, <1>6 DEF ParseRefDelta, Kinds
  <2>2. Resolved(pack[next].id, pack[next].delta) = pack[next].obj
    BY <1>2, <2>1 DEF EntryReadsBack
  <2>3. CASE pack[next].id \in objects
    <3>1. Store(pack[next].obj, pos) /\ deferred' = deferred
      BY <1>2, <1>6, <2>2, <2>3 DEF ParseRefDelta
    <3> QED
      BY <1>1, <1>2, <1>3, <2>1, <3>1
  <2>4. CASE pack[next].id \notin objects
    BY <1>1, <1>2, <1>6, <2>1, <2>4 DEF ParseRefDelta, DeltaAt
  <2> QED
    BY <2>3, <2>4
<1>7. CASE ParseOther
  BY <1>1, <1>2, <1>7 DEF ParseOther
<1> QED
  BY <1>4, <1>5, <1>6, <1>7 DEF ParseEntry

\* The delta that is first in turn is that of an entry, found if its base is.
LEMMA HeadIsResolved ==
  ASSUME Arrived, PhaseInv, FoundInv, ResolveDeferred
  PROVE  /\ next \in 1..(Len(pack) + 1) /\ Len(pack) \in Nat
         /\ deferred \in Seq({DeltaAt(i) : i \in Late}) /\ deferred # <<>>
         /\ \E h \in BeforeNext :
              /\ pack[h].kind = OBJ_REF_DELTA /\ deferred[1] = DeltaAt(h)
              /\ \/ Finds(h)
                 \/ pack[h].id \notin objects /\ UNCHANGED <<objects, byOffset>>
<1>1. deferred \in Seq({DeltaAt(i) : i \in Late}) /\ deferred # <<>>
  BY DEF FoundInv, ResolveDeferred, Late
<1>2. Head(deferred) = deferred[1] /\ deferred[1] \in {DeltaAt(i) : i \in Late}
  BY <1>1, HeadTailProperties, EmptySeq
<1>3. PICK h \in Late : deferred[1] = DeltaAt(h)
  BY <1>2
<1>4. next \in 1..(Len(pack) + 1) /\ Len(pack) \in Nat
  BY DEF PhaseInv, Arrived, PackReadsBack, ReadsBack
<1>5. h \in BeforeNext /\ h \in 1..Len(pack) /\ pack[h].kind = OBJ_REF_DELTA
  BY <1>3, <1>4 DEF Late, BeforeNext
<1>6. Resolved(pack[h].id, pack[h].delta) = pack[h].obj
  BY <1>5, EntryFields DEF Arrived, PackReadsBack, EntryReadsBack
<1>7. \/ pack[h].id \in objects /\ Store(Resolved(pack[h].id, pack[h].delta), pack[h].start)
      \/ pack[h].id \notin objects /\ UNCHANGED <<objects, byOffset>>
  BY <1>2, <1>3 DEF ResolveDeferred, DeltaAt
<1>8. Store(pack[h].obj, pack[h].start) => Finds(h)
  BY DEF Store, Finds, FoundAt
<1> QED
  BY <1>1, <1>3, <1>4, <1>5, <1>6, <1>7, <1>8

-------------------------------------------------------------------------------
(* PackInv is inductive.                                                    *)

\* No step changes the pack or what arrived of it.
LEMMA ArrivedStays ==
  ASSUME Arrived, [Next]_vars
  PROVE  Arrived' /\ pack' = pack /\ got' = got
BY DEF Arrived, PackReadsBack, Next, vars, Verify, ParseEntry, ParseFails, EndOfEntries,
       ResolveDeferred, Finish, Done

\* Only what was read before the next entry has been dealt with.
LEMMA PhaseKept ==
  ASSUME Arrived, PhaseInv, FoundInv, [Next]_vars
  PROVE  PhaseInv'
<1>1. Len(pack) \in Nat /\ Size(pack) \in Nat /\ Size(pack) >= 32 /\ pack' = pack /\ got' = got
  BY PackSize, ArrivedStays DEF Arrived, PackReadsBack, ReadsBack
<1>2. CASE Verify
  <2>1. phase' = "entries" => got = Size(pack)
    BY <1>2 DEF Verify
  <2>2. objects' = {} /\ next' = 1 /\ pos' = pos /\ phase' \notin {"received", "deferred", "ok"}
    BY <1>2 DEF Verify, found, PhaseInv
  <2>3. next <= Len(pack) => pos = pack[next].start
    BY <1>2 DEF Verify, PhaseInv
  <2>4. next = 1
    BY <1>2 DEF Verify, PhaseInv
  <2> QED
    BY <1>1, <2>1, <2>2, <2>3, <2>4 DEF PhaseInv
<1>3. CASE ParseEntry
  <2>1. /\ phase = "entries" /\ next \in 1..Len(pack) /\ next <= Len(pack)
        /\ next' = next + 1 /\ phase' = phase /\ pos' = pos + Read(Entry) + Entry.zlen
    BY <1>3, EntryIsParsed DEF ParseEntry
  <2>2. pos = pack[next].start /\ Read(Entry) = Len(pack[next].head) + pack[next].idlen
    BY <2>1, EntryIsRead DEF EntryReadsBack, Entry
  <2>3. /\ pack[next].start \in Nat /\ Len(pack[next].head) \in Nat
        /\ pack[next].idlen \in Nat /\ pack[next].zlen \in Nat
    BY <2>1, EntryFields DEF Arrived, PackReadsBack
  <2>4. pos' = pack[next].start + Width(pack[next])
    BY <2>1, <2>2, <2>3 DEF Width, Entry
  <2>5. next' <= Len(pack) => pos' = pack[next'].start
    BY <2>1, <2>4, EntryFollows DEF Arrived, PackReadsBack
  <2> QED
    BY <1>1, <2>1, <2>5 DEF PhaseInv
<1>4. CASE ParseFails
  BY <1>1, <1>4 DEF ParseFails, PhaseInv
<1>5. CASE EndOfEntries
  BY <1>1, <1>5 DEF EndOfEntries, PhaseInv
<1>6. CASE ResolveDeferred
  BY <1>1, <1>6 DEF ResolveDeferred, PhaseInv
<1>7. CASE Finish
  BY <1>1, <1>7 DEF Finish, PhaseInv, found
<1>8. CASE Done \/ UNCHANGED vars
  BY <1>8 DEF Done, vars, PhaseInv
<1> QED
  BY <1>2, <1>3, <1>4, <1>5, <1>6, <1>7, <1>8 DEF Next

\* What a step finds is what an entry stands for.
LEMMA FindsKeepFound ==
  ASSUME FoundInv, pack' = pack, NEW i, i \in BeforeNext', Finds(i), BeforeNext \subseteq BeforeNext'
  PROVE  /\ (\A o \in objects : \E j \in BeforeNext : pack[j].obj = o)'
         /\ (\A b \in byOffset : \E j \in BeforeNext : b = FoundAt(j))'
<1>1. ASSUME NEW o \in objects'
      PROVE  \E j \in BeforeNext' : pack[j].obj = o
  BY <1>1 DEF Finds, FoundInv
<1>2. ASSUME NEW b \in byOffset'
      PROVE  \E j \in BeforeNext' : b = FoundAt(j)
  BY <1>2 DEF Finds, FoundInv
<1>3. \A j : FoundAt(j)' = FoundAt(j)
  BY DEF FoundAt
<1> QED
  BY <1>1, <1>2, <1>3

\* What is found stays that of entries.
LEMMA FoundKept ==
  ASSUME Arrived, PhaseInv, FoundInv, [Next]_vars
  PROVE  FoundInv'
<1> DEFINE Of(set) == {DeltaAt(i) : i \in {j \in set : pack[j].kind = OBJ_REF_DELTA}}
<1>1. Len(pack) \in Nat /\ pack' = pack /\ next \in 1..(Len(pack) + 1)
  BY ArrivedStays DEF Arrived, PackReadsBack, ReadsBack, PhaseInv
<1>2. /\ deferred \in Seq(Of(BeforeNext))
      /\ \A k \in DOMAIN deferred, l \in DOMAIN deferred :
           k < l => deferred[k].at < deferred[l].at
  BY DEF FoundInv
<1>3. CASE UNCHANGED <<next, found>>
  BY <1>1, <1>3 DEF FoundInv, found, FoundAt, DeltaAt, BeforeNext
<1>4. CASE ParseEntry
  <2>1. next \in 1..Len(pack) /\ next' = next + 1
    BY <1>4, EntryIsParsed DEF ParseEntry
  <2>2. BeforeNext \subseteq BeforeNext' /\ next \in BeforeNext'
    BY <1>1, <2>1 DEF BeforeNext
  <2>3. (\A i : FoundAt(i)' = FoundAt(i)) /\ (\A i : DeltaAt(i)' = DeltaAt(i))
    BY <1>1 DEF FoundAt, DeltaAt
  <2>4. Of(BeforeNext) \subseteq Of(BeforeNext')
    BY <2>2
  <2>5. deferred \in Seq(Of(BeforeNext'))
    BY <1>2, <2>4, SeqMonotonic
  <2>6. CASE Finds(next) /\ deferred' = deferred
    <3>1. /\ (\A o \in objects : \E j \in BeforeNext : pack[j].obj = o)'
          /\ (\A b \in byOffset : \E j \in BeforeNext : b = FoundAt(j))'
      BY <1>1, <2>2, <2>6, FindsKeepFound
    <3> QED
      BY <1>1, <1>2, <2>3, <2>5, <2>6, <3>1 DEF FoundInv
  <2>7. CASE UNCHANGED found
    BY <1>1, <1>2, <2>2, <2>3, <2>5, <2>7 DEF FoundInv, found
  <2>8. CASE /\ pack[next].kind = OBJ_REF_DELTA /\ deferred' = Append(deferred, DeltaAt(next))
             /\ UNCHANGED <<objects, byOffset>>
    <3>1. DeltaAt(next) \in Of(BeforeNext') /\ DeltaAt(next).at = pack[next].start
      BY <2>2, <2>8 DEF DeltaAt
    <3>2. deferred' \in Seq(Of(BeforeNext'))
      BY <2>5, <2>8, <3>1
    <3>3. ASSUME NEW k \in DOMAIN deferred
          PROVE  deferred[k].at < pack[next].start
      <4>1. deferred[k] \in Of(BeforeNext)
        BY <1>2, <3>3, ElementOfSeq
      <4>2. PICK i \in BeforeNext : deferred[k] = DeltaAt(i)
        BY <4>1
      <4>3. i \in 1..Len(pack) /\ i < next /\ deferred[k].at = pack[i].start
        BY <1>1, <2>1, <4>2 DEF BeforeNext, DeltaAt
      <4> QED
        BY <4>3, <2>1, EntryOrder DEF Arrived, PackReadsBack
    <3>4. ASSUME NEW k \in DOMAIN deferred', NEW l \in DOMAIN deferred', k < l
          PROVE  deferred'[k].at < deferred'[l].at
      <4>1. /\ Len(deferred) \in Nat /\ DOMAIN deferred = 1..Len(deferred)
            /\ Len(deferred') = Len(deferred) + 1 /\ DOMAIN deferred' = 1..(Len(deferred) + 1)
            /\ deferred'[Len(deferred) + 1] = DeltaAt(next)
            /\ \A n \in 1..Len(deferred) : deferred'[n] = deferred[n]
        BY <2>5, <2>8, <3>1
      <4>2. k \in 1..Len(deferred) /\ (l \in 1..Len(deferred) \/ l = Len(deferred) + 1)
        BY <3>4, <4>1
      <4> QED
        BY <1>2, <3>1, <3>3, <3>4, <4>1, <4>2
    <3>5. /\ \A o \in objects' : \E i \in BeforeNext' : pack'[i].obj = o
          /\ \A b \in byOffset' : \E i \in BeforeNext' : b = FoundAt(i)'
      BY <1>1, <2>2, <2>3, <2>8 DEF FoundInv
    <3> QED
      BY <1>1, <2>3, <3>2, <3>4, <3>5 DEF FoundInv
  <2> QED
    BY <1>4, <2>6, <2>7, <2>8, EntryIsParsed
<1>5. CASE ResolveDeferred
  <2>1. next' = next /\ BeforeNext' = BeforeNext /\ deferred' = Tail(deferred) /\ deferred # <<>>
    BY <1>5 DEF ResolveDeferred, BeforeNext
  <2>2. (\A i : FoundAt(i)' = FoundAt(i)) /\ (\A i : DeltaAt(i)' = DeltaAt(i))
    BY <1>1 DEF FoundAt, DeltaAt
  <2>3. /\ (\A o \in objects : \E j \in BeforeNext : pack[j].obj = o)'
        /\ (\A b \in byOffset : \E j \in BeforeNext : b = FoundAt(j))'
    <3>1. PICK h \in BeforeNext : Finds(h) \/ UNCHANGED <<objects, byOffset>>
      BY <1>5, HeadIsResolved
    <3>2. CASE Finds(h)
      BY <1>1, <2>1, <3>2, FindsKeepFound
    <3>3. CASE UNCHANGED <<objects, byOffset>>
      BY <1>1, <2>1, <2>2, <3>3 DEF FoundInv
    <3> QED
      BY <3>1, <3>2, <3>3
  <2>4. /\ Tail(deferred) \in Seq(Of(BeforeNext)) /\ Len(deferred) \in Nat
        /\ DOMAIN deferred = 1..Len(deferred)
        /\ Len(Tail(deferred)) = Len(deferred) - 1
        /\ \A k \in 1..Len(Tail(deferred)) : Tail(deferred)[k] = deferred[k + 1]
    BY <1>2, <2>1, HeadTailProperties
  <2>5. ASSUME NEW k \in DOMAIN deferred', NEW l \in DOMAIN deferred', k < l
        PROVE  deferred'[k].at < deferred'[l].at
    <3>1. /\ k + 1 \in 1..Len(deferred) /\ l + 1 \in 1..Len(deferred) /\ k + 1 < l + 1
          /\ deferred'[k] = deferred[k + 1] /\ deferred'[l] = deferred[l + 1]
      BY <2>1, <2>4, <2>5
    <3> QED
      BY <1>2, <2>4, <3>1
  <2> QED
    BY <1>1, <2>1, <2>2, <2>3, <2>4, <2>5 DEF FoundInv
<1> QED
  BY <1>3, <1>4, <1>5 DEF Next, vars, Verify, ParseFails, EndOfEntries, Finish, Done, found

\* A REF_DELTA waits for its base, or was passed over as that came later.
LEMMA LostKept ==
  ASSUME Arrived, PhaseInv, FoundInv, LostInv, [Next]_vars
  PROVE  LostInv'
<1>1. Len(pack) \in Nat /\ pack' = pack /\ next \in 1..(Len(pack) + 1)
  BY ArrivedStays DEF Arrived, PackReadsBack, ReadsBack, PhaseInv
<1>2. CASE Verify
  <2>1. next' = 1
    BY <1>2 DEF Verify, PhaseInv
  <2>2. BeforeNext' = {}
    BY <2>1 DEF BeforeNext
  <2> QED
    BY <2>2 DEF LostInv
<1>3. CASE ParseEntry
  <2>1. /\ phase = "entries" /\ phase' = "entries" /\ next \in 1..Len(pack) /\ next' = next + 1
        /\ \/ pack[next].kind \in Kinds /\ Finds(next) /\ deferred' = deferred
           \/ /\ pack[next].kind = OBJ_REF_DELTA /\ deferred' = Append(deferred, DeltaAt(next))
              /\ UNCHANGED <<objects, byOffset>>
           \/ pack[next].kind \notin Kinds /\ UNCHANGED found
    BY <1>3, EntryIsParsed DEF ParseEntry
  <2>2. deferred \in Seq({DeltaAt(i) : i \in Late})
    BY DEF FoundInv, Late
  <2>3. /\ \A k \in DOMAIN deferred : k \in DOMAIN deferred' /\ deferred'[k] = deferred[k]
        /\ deferred' = Append(deferred, DeltaAt(next)) =>
             /\ Len(deferred) + 1 \in DOMAIN deferred'
             /\ deferred'[Len(deferred) + 1] = DeltaAt(next)
    <3>1. CASE deferred' = deferred
      BY <2>2, <3>1
    <3>2. CASE deferred' = Append(deferred, DeltaAt(next))
      <4>1. deferred \in Seq({DeltaAt(i) : i \in Late} \cup {DeltaAt(next)})
        BY <2>2, SeqMonotonic
      <4>2. /\ Len(deferred) \in Nat /\ DOMAIN deferred = 1..Len(deferred)
            /\ DOMAIN deferred' = 1..(Len(deferred) + 1)
            /\ deferred'[Len(deferred) + 1] = DeltaAt(next)
            /\ \A k \in 1..Len(deferred) : deferred'[k] = deferred[k]
        BY <3>2, <4>1
      <4> QED
        BY <4>2
    <3> QED
      BY <2>1, <3>1, <3>2 DEF found
  <2>4. ASSUME NEW i \in BeforeNext', Lost(i)'
        PROVE  (pack[i].kind = OBJ_REF_DELTA /\ Waits(i))'
    <3>1. CASE i = next
      <4>1. pack[next].kind = OBJ_REF_DELTA /\ deferred' = Append(deferred, DeltaAt(next))
        BY <1>1, <2>1, <2>4, <3>1 DEF Lost, Finds
      <4>2. DeltaAt(next).at = pack[next].start
        BY DEF DeltaAt
      <4> QED
        BY <1>1, <2>3, <3>1, <4>1, <4>2 DEF Waits
    <3>2. CASE i # next
      <4>1. i \in BeforeNext
        BY <1>1, <2>1, <2>4, <3>2 DEF BeforeNext
      <4>2. Lost(i)
        BY <1>1, <2>1, <2>4 DEF Lost, Finds, found
      <4>3. pack[i].kind = OBJ_REF_DELTA /\ Waits(i)
        BY <2>1, <4>1, <4>2 DEF LostInv, Skipped
      <4> QED
        BY <1>1, <2>3, <4>3 DEF Waits
    <3> QED
      BY <3>1, <3>2
  <2> QED
    BY <2>4 DEF LostInv
<1>4. CASE ParseFails
  BY <1>4 DEF ParseFails, LostInv
<1>5. CASE EndOfEntries
  <2>1. phase = "entries" /\ UNCHANGED <<pack, next, objects, deferred>>
    BY <1>5 DEF EndOfEntries, found
  <2> QED
    BY <2>1 DEF LostInv, Lost, Waits, Skipped, BeforeNext
<1>6. CASE ResolveDeferred
  <2>1. /\ phase = "deferred" /\ phase' = "deferred" /\ BeforeNext' = BeforeNext
        /\ deferred' = Tail(deferred)
    BY <1>6 DEF ResolveDeferred, BeforeNext
  <2>2. PICK h \in BeforeNext :
          /\ pack[h].kind = OBJ_REF_DELTA /\ deferred[1] = DeltaAt(h)
          /\ Finds(h) \/ (pack[h].id \notin objects /\ UNCHANGED <<objects, byOffset>>)
    BY <1>6, HeadIsResolved
  <2>3. /\ Len(deferred) \in Nat \ {0} /\ DOMAIN deferred = 1..Len(deferred)
        /\ DOMAIN deferred' = 1..(Len(deferred) - 1)
        /\ \A k \in 1..(Len(deferred) - 1) : deferred'[k] = deferred[k + 1]
    <3>1. deferred \in Seq({DeltaAt(i) : i \in Late}) /\ deferred # <<>>
      BY <1>6, HeadIsResolved
    <3>2. Len(deferred) \in Nat /\ Len(deferred) # 0
      BY <3>1, EmptySeq
    <3> QED
      BY <2>1, <3>1, <3>2, HeadTailProperties
  <2>4. /\ h \in 1..Len(pack) /\ deferred[1].at = pack[h].start
        /\ \A i \in BeforeNext : i \in 1..Len(pack)
    BY <1>1, <2>2 DEF BeforeNext, DeltaAt
  <2>5. ASSUME NEW i \in BeforeNext, Lost(i)'
        PROVE  (pack[i].kind = OBJ_REF_DELTA /\ (Waits(i) \/ Skipped(i)))'
    <3>1. Lost(i) /\ i \in 1..Len(pack)
      BY <1>1, <2>2, <2>4, <2>5 DEF Lost, Finds
    <3>2. pack[i].kind = OBJ_REF_DELTA /\ (Waits(i) \/ Skipped(i))
      BY <2>1, <2>5, <3>1 DEF LostInv
    <3>3. pack[i].on # 0 => /\ pack[i].on \in 1..Len(pack) /\ pack[i].id = pack[pack[i].on].obj
                            /\ pack[pack[i].on].kind \in Kinds
      BY <3>1, <3>2, EntryFields DEF EntryReadsBack, Arrived, PackReadsBack
    <3>4. CASE Skipped(i)
      <4>1. ASSUME NEW k \in DOMAIN deferred'
            PROVE  pack[i].start < deferred'[k].at
        <5>1. k + 1 \in DOMAIN deferred /\ deferred'[k] = deferred[k + 1]
          BY <2>3, <4>1
        <5> QED
          BY <3>4, <5>1 DEF Skipped
      <4>2. CASE pack[i].on # 0 /\ Lost(pack[i].on) /\ ~Lost(pack[i].on)'
        <5>1. pack[pack[i].on].obj = pack[h].obj
          BY <1>1, <2>2, <4>2 DEF Lost, Finds
        <5>2. pack[i].on = h
          BY <2>4, <3>3, <4>2, <5>1, EntryOrder DEF Arrived, PackReadsBack
        <5>3. pack[i].start < pack[h].start
          BY <2>3, <2>4, <3>4 DEF Skipped
        <5>4. i < h
          BY <2>4, <3>1, <5>3, EntryOrder DEF Arrived, PackReadsBack
        <5> QED
          BY <1>1, <2>1, <2>2, <3>2, <4>1, <5>2, <5>4 DEF Skipped
      <4>3. CASE pack[i].on = 0 \/ ~Lost(pack[i].on) \/ Lost(pack[i].on)'
        BY <1>1, <2>1, <3>2, <3>4, <4>1, <4>3 DEF Skipped
      <4> QED
        BY <4>2, <4>3
    <3>5. CASE Waits(i)
      <4>1. PICK k \in DOMAIN deferred : deferred[k].at = pack[i].start
        BY <3>5 DEF Waits
      <4>2. CASE k # 1
        <5>1. k - 1 \in DOMAIN deferred' /\ k - 1 \in 1..(Len(deferred) - 1) /\ (k - 1) + 1 = k
          BY <2>3, <4>1, <4>2
        <5>2. deferred'[k - 1] = deferred[(k - 1) + 1]
          BY <2>3, <5>1
        <5>3. deferred'[k - 1].at = pack[i].start
          BY <4>1, <5>1, <5>2
        <5> QED
          BY <1>1, <3>2, <5>1, <5>3 DEF Waits
      <4>3. CASE k = 1
        <5>1. i = h
          BY <2>4, <3>1, <4>1, <4>3, EntryOrder DEF Arrived, PackReadsBack
        <5>2. pack[h].id \notin objects /\ objects' = objects
          BY <1>1, <2>2, <2>5, <5>1 DEF Lost, Finds
        <5>3. pack[i].on = 0 \/ Lost(pack[i].on)'
          BY <1>1, <3>3, <5>1, <5>2 DEF Lost
        <5>4. ASSUME NEW l \in DOMAIN deferred'
              PROVE  pack[i].start < deferred'[l].at
          <6>1. 1 \in DOMAIN deferred /\ l + 1 \in DOMAIN deferred /\ 1 < l + 1
            BY <2>3, <5>4
          <6>2. deferred'[l] = deferred[l + 1]
            BY <2>3, <5>4
          <6> QED
            BY <4>1, <4>3, <6>1, <6>2 DEF FoundInv
        <5> QED
          BY <1>1, <2>1, <3>2, <5>3, <5>4 DEF Skipped
      <4> QED
        BY <4>2, <4>3
    <3> QED
      BY <3>2, <3>4, <3>5
  <2> QED
    BY <2>1, <2>5 DEF LostInv
<1>7. CASE Finish \/ Done \/ UNCHANGED vars
  <2>1. UNCHANGED <<pack, next, objects, deferred>>
    BY <1>7 DEF Finish, Done, vars, found
  <2>2. phase' = phase \/ (phase = "deferred" /\ phase' = "ok")
    BY <1>7 DEF Finish, Done, vars
  <2> QED
    BY <2>1, <2>2 DEF LostInv, Lost, Waits, Skipped, BeforeNext
<1> QED
  BY <1>2, <1>3, <1>4, <1>5, <1>6, <1>7 DEF Next

\* With bases first, the base of a delta is among what was found.
LEMMA AllFoundKept ==
  ASSUME Arrived, PhaseInv, FoundInv, AllFoundInv, [Next]_vars
  PROVE  AllFoundInv'
<1>1. /\ Len(pack) \in Nat /\ pack' = pack /\ got' = got /\ next \in 1..(Len(pack) + 1)
      /\ DOMAIN pack = 1..Len(pack)
  BY ArrivedStays DEF Arrived, PackReadsBack, ReadsBack, PhaseInv
<1>2. Size(pack) \in Nat /\ Size(pack) >= 32
  BY PackSize DEF Arrived, PackReadsBack
<1> SUFFICES ASSUME got = Size(pack), BasesFirst
             PROVE  /\ phase' \in {"received", "entries", "deferred", "ok"} /\ deferred' = <<>>
                    /\ \A i \in BeforeNext' : pack[i].kind \in Kinds =>
                         pack[i].obj \in objects' /\ FoundAt(i) \in byOffset'
  <2>1. (got' = Size(pack')) => got = Size(pack)
    BY <1>1
  <2>2. BasesFirst' => BasesFirst
    BY <1>1 DEF BasesFirst, Entries, IsDelta
  <2> QED
    BY <1>1, <2>1, <2>2 DEF AllFoundInv, FoundAt, Size
<1>3. /\ phase \in {"received", "entries", "deferred", "ok"} /\ deferred = <<>>
      /\ \A i \in BeforeNext : pack[i].kind \in Kinds =>
           pack[i].obj \in objects /\ FoundAt(i) \in byOffset
  BY DEF AllFoundInv
<1>4. ASSUME phase = "entries", next <= Len(pack), pack[next].kind \in {OBJ_OFS_DELTA, OBJ_REF_DELTA}
      PROVE  /\ pack[pack[next].on].obj \in objects /\ FoundAt(pack[next].on) \in byOffset
             /\ pack[next].on # 0
  <2>1. next \in 1..Len(pack) /\ EntryReadsBack(pack, next)
    BY <1>4, EntryIsRead
  <2>2. pack[next].on \in 1..(next - 1)
    BY <1>1, <1>4, <2>1 DEF BasesFirst, Entries, IsDelta
  <2>3. pack[next].on # 0 /\ pack[pack[next].on].kind \in Kinds
    BY <2>1, <2>2 DEF EntryReadsBack
  <2> QED
    BY <1>3, <2>2, <2>3 DEF BeforeNext
<1>5. CASE Verify
  <2>1. ~(got < 4) /\ got \notin 4..11 /\ got \notin 12..19 /\ got \notin 20..(Size(pack) - 1)
    BY <1>2
  <2>2. phase' = "entries" /\ next' = next /\ UNCHANGED found
    BY <1>5, <2>1 DEF Verify, found
  <2> QED
    BY <1>3, <2>2 DEF BeforeNext, found
<1>6. CASE ParseEntry
  <2>1. /\ phase = "entries" /\ phase' = "entries" /\ next \in 1..Len(pack) /\ next' = next + 1
        /\ next <= Len(pack)
    BY <1>6, EntryIsParsed DEF ParseEntry
  <2>2. CASE pack[next].kind = OBJ_REF_DELTA /\ pack[next].id \notin objects
    <3>1. pack[next].id = pack[pack[next].on].obj /\ pack[pack[next].on].obj \in objects
      BY <1>4, <2>1, <2>2, EntryIsRead DEF EntryReadsBack
    <3> QED
      BY <2>2, <3>1
  <2>3. CASE \/ pack[next].kind \in Kinds /\ Finds(next) /\ deferred' = deferred
             \/ pack[next].kind \notin Kinds /\ UNCHANGED found
    <3>1. \A i \in BeforeNext' : i \in BeforeNext \/ i = next
      BY <1>1, <2>1 DEF BeforeNext
    <3>2. objects \subseteq objects' /\ byOffset \subseteq byOffset' /\ deferred' = <<>>
      BY <1>3, <2>3 DEF Finds, found
    <3>3. pack[next].kind \in Kinds => pack[next].obj \in objects' /\ FoundAt(next) \in byOffset'
      BY <2>3 DEF Finds
    <3> QED
      BY <1>3, <2>1, <3>1, <3>2, <3>3
  <2> QED
    BY <1>6, <2>2, <2>3, EntryIsParsed
<1>7. CASE ParseFails
  <2>1. phase = "entries" /\ next <= Len(pack)
    BY <1>7 DEF ParseFails
  <2>2. Aligned /\ Header(Entry).kind = pack[next].kind
    BY <2>1, EntryIsRead
  <2>3. pack[next].kind = OBJ_OFS_DELTA /\ Bases = {}
    BY <1>7, <2>2 DEF ParseFails
  <2> QED
    BY <1>4, <2>1, <2>3, BaseIsFound
<1>8. CASE EndOfEntries \/ Finish \/ Done \/ UNCHANGED vars
  BY <1>3, <1>8 DEF EndOfEntries, Finish, Done, vars, found, BeforeNext
<1>9. CASE ResolveDeferred
  BY <1>3, <1>9 DEF ResolveDeferred
<1> QED
  BY <1>5, <1>6, <1>7, <1>8, <1>9 DEF Next

-------------------------------------------------------------------------------
(* What holds of every parse.                                               *)

\* The invariant holds of every first state.
LEMMA InitPack ==
  ASSUME PacksAreGits, Init
  PROVE  Arrived /\ PackInv
<1>1. Arrived
  BY PacksAreRead DEF Init, Sendable, Arrived, PackReadsBack
<1>2. Len(pack) \in Nat /\ (1 <= Len(pack) => pack[1].start = 12)
  BY <1>1, PackSize, EmptySeq DEF Arrived, PackReadsBack, ReadsBack
<1>3. PhaseInv
  BY <1>2 DEF Init, PhaseInv
<1>4. FoundInv
  BY EmptySeq DEF Init, FoundInv
<1>5. LostInv /\ AllFoundInv
  BY DEF Init, LostInv, AllFoundInv, BeforeNext
<1> QED
  BY <1>1, <1>3, <1>4, <1>5 DEF PackInv

\* Of what parse_packfile (packfile.rs 187-300) has read, every object is found,
\* or is a REF_DELTA put off in its turn, or was passed over for a base to come.
THEOREM ParseHolds ==
  ASSUME PacksAreGits
  PROVE  Spec => [](Arrived /\ PackInv)
<1>1. Init => Arrived /\ PackInv
  BY InitPack
<1>2. Arrived /\ PackInv /\ [Next]_vars => (Arrived /\ PackInv)'
  BY ArrivedStays, PhaseKept, FoundKept, LostKept, AllFoundKept DEF PackInv
<1> QED
  BY <1>1, <1>2, PTL DEF Spec

\* parse_packfile (packfile.rs 194-221) reads back the kind and the distance of every
\* entry, and apply_delta (packfile.rs 89-165) makes its object of every delta, in the
\* packs that git sends and, written by encode_size_type, in those that davgit builds.
THEOREM PacksStayReadBack ==
  ASSUME PacksAreGits
  PROVE  Spec => []PackReadsBack
<1>1. Arrived => PackReadsBack
  BY DEF Arrived
<1> QED
  BY <1>1, ParseHolds, PTL

\* What parse_packfile (packfile.rs 187-300) finds is what the pack stands for,
\* and what it finds at a position is the object of the entry that starts there.
THEOREM ParseStaysSound ==
  ASSUME PacksAreGits
  PROVE  Spec => []ParseSound
<1>1. Arrived /\ PackInv => ParseSound
  <2> SUFFICES ASSUME Arrived, FoundInv, PhaseInv
               PROVE  ParseSound
    BY DEF PackInv
  <2>1. BeforeNext \subseteq Entries
    BY DEF Arrived, PackReadsBack, ReadsBack, PhaseInv, BeforeNext, Entries
  <2> QED
    BY <2>1 DEF FoundInv, ParseSound, FoundAt
<1> QED
  BY <1>1, ParseHolds, PTL

\* parse_packfile reads a pack that has arrived whole, with each base before its
\* deltas, without an error and to its last object.
THEOREM WholePackStaysParsed ==
  ASSUME PacksAreGits
  PROVE  Spec => []WholePackIsParsed
<1>1. Arrived /\ PackInv => WholePackIsParsed
  <2> SUFFICES ASSUME Arrived, PhaseInv, AllFoundInv, got = Size(pack), BasesFirst
               PROVE  /\ phase \notin {"nothing new", "error", "panic"}
                      /\ phase = "ok" => \A i \in Entries : ~Lost(i)
    BY DEF PackInv, WholePackIsParsed
  <2>1. phase \in {"received", "entries", "deferred", "ok"}
    BY DEF AllFoundInv
  <2>2. phase = "ok" => BeforeNext = Entries
    BY DEF Arrived, PackReadsBack, ReadsBack, PhaseInv, BeforeNext, Entries
  <2> QED
    BY <2>1, <2>2 DEF AllFoundInv, Lost
<1> QED
  BY <1>1, ParseHolds, PTL

\* The one pass over the deltas put off (packfile.rs 285-298) passes over those
\* alone whose base is not in the pack, was lost, or is such a delta further on.
THEOREM OnlyLateBasesStaySkipped ==
  ASSUME PacksAreGits
  PROVE  Spec => []OnlyLateBasesAreSkipped
<1>1. Arrived /\ PackInv => OnlyLateBasesAreSkipped
  <2> SUFFICES ASSUME Arrived, PhaseInv, LostInv, phase = "ok", NEW i \in Entries, Lost(i)
               PROVE  /\ pack[i].kind = OBJ_REF_DELTA
                      /\ pack[i].on = 0 \/ Lost(pack[i].on)
                         \/ (pack[pack[i].on].kind = OBJ_REF_DELTA /\ pack[i].on > i)
    BY DEF PackInv, OnlyLateBasesAreSkipped
  <2>1. BeforeNext = Entries /\ DOMAIN deferred = {}
    BY DEF Arrived, PackReadsBack, ReadsBack, PhaseInv, BeforeNext, Entries
  <2> QED
    BY <2>1 DEF LostInv, Waits, Skipped
<1> QED
  BY <1>1, ParseHolds, PTL
===============================================================================
