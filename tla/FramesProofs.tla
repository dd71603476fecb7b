---------------------------- MODULE FramesProofs ----------------------------
(***************************************************************************)
(* Frames for every line: any payloads, any number of faults.  The         *)
(* invariant of both receivers says of what is left to read that its       *)
(* symbols are in order, that an undamaged frame whose start is left is    *)
(* left whole, and that what passes for a frame is one; and of what was    *)
(* made of the rest that it is frames that were sent, in order, which end  *)
(* before what is left.  A step drops symbols from the head of it.         *)
(***************************************************************************)
EXTENDS Frames, DataInduction, SequenceTheorems, TLAPS

\* A symbol on its way.
Sym == [at : Nat, is : Nat]

-----------------------------------------------------------------------------
\* The line.

\* A CRC is a number.
LEMMA CrcIsNat ==
  ASSUME NEW x \in Seq(Nat) PROVE Crc(x) \in Nat
<1> DEFINE N == Len(x)
           step == [i \in 1 .. N |-> [c \in Nat |-> CrcStep(c, x[i])]]
           Eqn(g) == g = [n \in 0 .. N |-> IF n = 0 THEN 1
                                           ELSE CrcStep(g[n - 1], x[n])]
           crc == CHOOSE g : Eqn(g)
<1>1. N \in Nat /\ \A i \in 1 .. N : x[i] \in Nat
  OBVIOUS
<1>2. \A c, d \in Nat : CrcStep(c, d) \in Nat
  BY SMT DEF CrcStep
<1>3. PICK g \in Iterations(Nat, 1, N, step) : TRUE
  <2>1. step \in [1 .. N -> [Nat -> Nat]]
    BY <1>1, <1>2
  <2>2. Iterations(Nat, 1, N, step) # {}
    <3> HIDE DEF step, N
    <3> QED BY <1>1, <2>1, Recursion
  <2> QED BY <2>2
<1>4. g \in [0 .. N -> Nat] /\ g[0] = 1 /\ \A i \in 1 .. N : g[i] = step[i][g[i - 1]]
  BY <1>3 DEF Iterations
<1>5. ASSUME NEW i \in 1 .. N PROVE g[i] = CrcStep(g[i - 1], x[i])
  <2>1. g[i - 1] \in Nat
    <3>1. i - 1 \in 0 .. N
      BY <1>1
    <3> HIDE DEF step, N
    <3> QED BY <1>4, <3>1
  <2> QED BY <1>4, <2>1
<1>6. Eqn(g)
  <2> DEFINE h == [n \in 0 .. N |-> IF n = 0 THEN 1
                                    ELSE CrcStep(g[n - 1], x[n])]
  <2>1. \A i \in 0 .. N : g[i] = h[i]
    <3> TAKE i \in 0 .. N
    <3>1. CASE i = 0
      BY <1>4, <3>1
    <3>2. CASE i # 0
      <4>1. i \in 1 .. N
        BY <1>1, <3>2
      <4> QED BY <1>5, <3>2, <4>1, Zenon
    <3> QED BY <3>1, <3>2
  <2> HIDE DEF step
  <2> QED BY <1>4, <2>1
<1>7. Eqn(crc)
  <2> HIDE DEF Eqn
  <2> QED BY <1>6
<1>8. Crc(x) = crc[N]
  BY Zenon DEF Crc
<1> HIDE DEF crc
<1>9. crc[0] \in Nat
  <2>1. 0 \in 0 .. N
    BY <1>1
  <2>2. crc[0] = 1
    BY <1>7, <2>1, Zenon
  <2> QED BY <2>2
<1>10. ASSUME NEW i \in 1 .. N, crc[i - 1] \in Nat PROVE crc[i] \in Nat
  <2>1. i \in 0 .. N /\ i # 0
    BY <1>1
  <2>2. crc[i] = CrcStep(crc[i - 1], x[i])
    BY <1>7, <2>1, Zenon
  <2> HIDE DEF N
  <2> QED BY <1>1, <1>2, <1>10, <2>2, Zenon
<1>11. \A i \in 0 .. N : crc[i] \in Nat
  <2> HIDE DEF N
  <2> QED BY <1>1, <1>9, <1>10, Carried
<1>12. N \in 0 .. N
  BY <1>1
<1> QED BY <1>8, <1>11, <1>12, Zenon

\* The symbols of a frame.
LEMMA FrameIs ==
  ASSUME NEW n \in Nat, NEW p \in Seq(Nat)
  PROVE  LET f == build_frame(n, p) IN
         /\ f \in Seq(Nat) /\ Len(f) = Len(p) + 6 /\ Len(p) \in Nat
         /\ f[1] = 9 /\ f[2] = 8 /\ f[3] = 1 /\ f[4] = n /\ f[5] = Len(p)
         /\ f[Len(p) + 6] = Crc(SubSeq(f, 1, Len(p) + 5))
<1> DEFINE h == Magic \o <<VERSION, n, Len(p)>>
           body == h \o p
           f == build_frame(n, p)
           l == Len(p)
<1>1. f = body \o <<Crc(body)>>
  BY Zenon DEF build_frame
<1>2. l \in Nat
  OBVIOUS
<1>4. h \in Seq(Nat) /\ Len(h) = 5 /\ h[1] = 9 /\ h[2] = 8 /\ h[3] = 1 /\ h[4] = n /\ h[5] = l
  <2>1. \A m, k \in Nat : LET x == <<9, 8>> \o <<1, m, k>> IN
          x \in Seq(Nat) /\ Len(x) = 5 /\ x[1] = 9 /\ x[2] = 8 /\ x[3] = 1 /\ x[4] = m /\ x[5] = k
    OBVIOUS
  <2>2. h = <<9, 8>> \o <<1, n, l>>
    BY Zenon DEF Magic, VERSION
  <2> HIDE DEF h, l
  <2> QED BY <1>2, <2>1, <2>2, ZenonT(30)
<1>5. /\ body \in Seq(Nat) /\ Len(body) = 5 + l
      /\ body[1] = 9 /\ body[2] = 8 /\ body[3] = 1 /\ body[4] = n /\ body[5] = l
  <2> HIDE DEF h
  <2>1. /\ body \in Seq(Nat) /\ Len(body) = Len(h) + Len(p)
        /\ \A i \in 1 .. Len(h) + Len(p) : body[i] = IF i <= Len(h) THEN h[i] ELSE p[i - Len(h)]
    BY <1>4, ConcatProperties
  <2>2. Len(body) = 5 + l /\ 1 \in 1 .. 5 + l /\ 2 \in 1 .. 5 + l /\ 3 \in 1 .. 5 + l /\ 4 \in 1 .. 5 + l /\ 5 \in 1 .. 5 + l
    <3> HIDE DEF body
    <3> QED BY <1>2, <1>4, <2>1
  <2>3. Len(h) + Len(p) = 5 + l /\ 1 <= Len(h) /\ 2 <= Len(h) /\ 3 <= Len(h) /\ 4 <= Len(h) /\ 5 <= Len(h)
    BY <1>4
  <2> HIDE DEF body
  <2> QED BY <1>4, <2>1, <2>2, <2>3, Zenon
<1>6. Crc(body) \in Nat
  BY <1>5, CrcIsNat
<1> DEFINE c == <<Crc(body)>>
<1>7. c \in Seq(Nat) /\ Len(c) = 1 /\ c[1] = Crc(body)
  BY <1>6
<1> HIDE DEF h, body, c
<1>8. /\ f \in Seq(Nat) /\ Len(f) = 6 + l
      /\ \A i \in 1 .. 5 + l : f[i] = body[i]
      /\ f[6 + l] = Crc(body)
  <2>1. f = body \o c
    BY <1>1 DEF c
  <2> HIDE DEF f, l
  <2>2. /\ f \in Seq(Nat) /\ Len(f) = Len(body) + Len(c)
        /\ \A i \in 1 .. Len(body) + Len(c) : f[i] = IF i <= Len(body) THEN body[i] ELSE c[i - Len(body)]
    BY <1>5, <1>7, <2>1, ConcatProperties
  <2>3. Len(f) = 6 + l
    BY <1>2, <1>5, <1>7, <2>2
  <2>4. ASSUME NEW i \in 1 .. 5 + l PROVE f[i] = body[i]
    <3>1. i \in 1 .. Len(body) + Len(c) /\ i <= Len(body)
      BY <1>2, <1>5, <1>7
    <3> QED BY <2>2, <3>1, Zenon
  <2>5. f[6 + l] = Crc(body)
    <3>1. /\ 6 + l \in 1 .. Len(body) + Len(c) /\ ~(6 + l <= Len(body))
          /\ (6 + l) - Len(body) = 1
      BY <1>2, <1>5, <1>7
    <3>2. f[6 + l] = c[(6 + l) - Len(body)]
      BY <2>2, <3>1, Zenon
    <3> QED BY <1>7, <3>1, <3>2, Zenon
  <2> QED BY <2>2, <2>3, <2>4, <2>5, Zenon
<1> HIDE DEF f, l
<1>9. SubSeq(f, 1, 5 + l) = body
  <2>1. \A i \in 1 .. 5 + l : f[i] \in Nat
    BY <1>2, <1>8
  <2>2. 1 <= 5 + l /\ 5 + l - 1 + 1 = 5 + l /\ 5 + l \in Int
    BY <1>2
  <2> DEFINE x == SubSeq(f, 1, 5 + l)
  <2>3. /\ x \in Seq(Nat) /\ Len(x) = IF 1 <= 5 + l THEN 5 + l - 1 + 1 ELSE 0
        /\ \A i \in 1 .. 5 + l - 1 + 1 : x[i] = f[1 + i - 1]
    BY <2>1, <2>2, SubSeqProperties
  <2>4. \A i \in 1 .. 5 + l : x[i] = body[i]
    <3>1. \A i \in 1 .. 5 + l : 1 + i - 1 = i
      BY <1>2
    <3> QED BY <1>8, <2>2, <2>3, <3>1, Zenon
  <2>5. Len(x) = Len(body)
    BY <1>5, <2>2, <2>3, Zenon
  <2> HIDE DEF x
  <2>6. x = body
    BY <1>5, <2>3, <2>4, <2>5, SeqEqual
  <2> QED BY <2>6 DEF x
<1>10. f[1] = 9 /\ f[2] = 8 /\ f[3] = 1 /\ f[4] = n /\ f[5] = l
  BY <1>2, <1>5, <1>8
<1>11. 6 + l = l + 6 /\ 5 + l = l + 5
  BY <1>2
<1> QED BY <1>2, <1>8, <1>9, <1>10, <1>11, Zenon DEF f, l

\* The line is the frames one behind the other.
LEMMA LinesAre ==
  ASSUME NEW s \in Seq(Seq(Nat)), NEW N \in Nat, N = Len(s)
  PROVE  /\ Lines(s)[0] = <<>>
         /\ \A n \in 0 .. N : Lines(s)[n] \in Seq(Nat)
         /\ \A n \in 1 .. N : Lines(s)[n] = Lines(s)[n - 1] \o build_frame(n, s[n])
<1> DEFINE line == Lines(s)
           step == [i \in 1 .. N |-> [x \in Seq(Nat) |-> x \o build_frame(i, s[i])]]
           Eqn(g) == g = [n \in 0 .. N |-> IF n = 0 THEN <<>> ELSE g[n - 1] \o build_frame(n, s[n])]
<1>1. \A i \in 1 .. N : s[i] \in Seq(Nat) /\ i \in Nat /\ i - 1 \in 0 .. N
  OBVIOUS
<1>2. \A i \in 1 .. N : build_frame(i, s[i]) \in Seq(Nat)
  BY <1>1, FrameIs, Zenon
<1>3. \A x \in Seq(Nat), i \in 1 .. N : x \o build_frame(i, s[i]) \in Seq(Nat)
  BY <1>2, ConcatProperties, Zenon
<1>4. <<>> \in Seq(Nat)
  OBVIOUS
<1>5. PICK g \in Iterations(Seq(Nat), <<>>, N, step) : TRUE
  <2>1. step \in [1 .. N -> [Seq(Nat) -> Seq(Nat)]]
    BY <1>3, Zenon
  <2>2. Iterations(Seq(Nat), <<>>, N, step) # {}
    <3> HIDE DEF step
    <3> QED BY <1>4, <2>1, Recursion
  <2> QED BY <2>2
<1>6. g \in [0 .. N -> Seq(Nat)] /\ g[0] = <<>> /\ \A i \in 1 .. N : g[i] = step[i][g[i - 1]]
  BY <1>5 DEF Iterations
<1>7. ASSUME NEW i \in 1 .. N PROVE g[i] = g[i - 1] \o build_frame(i, s[i])
  <2>1. g[i - 1] \in Seq(Nat)
    <3> HIDE DEF step
    <3> QED BY <1>1, <1>6, Zenon
  <2>2. g[i] = step[i][g[i - 1]]
    BY <1>6
  <2>3. step[i] = [x \in Seq(Nat) |-> x \o build_frame(i, s[i])]
    BY Zenon
  <2> HIDE DEF step
  <2> QED BY <2>1, <2>2, <2>3, Zenon
<1>8. Eqn(g)
  <2> DEFINE h == [n \in 0 .. N |-> IF n = 0 THEN <<>> ELSE g[n - 1] \o build_frame(n, s[n])]
  <2>1. \A i \in 0 .. N : g[i] = h[i]
    <3> TAKE i \in 0 .. N
    <3>1. CASE i = 0
      <4>1. h[i] = <<>>
        BY <3>1, Zenon
      <4> HIDE DEF h, step
      <4> QED BY <1>6, <3>1, <4>1, Zenon
    <3>2. CASE i # 0
      <4>1. i \in 1 .. N
        BY <3>2
      <4>2. h[i] = g[i - 1] \o build_frame(i, s[i])
        BY <3>2, Zenon
      <4> HIDE DEF h
      <4> QED BY <1>7, <4>1, <4>2, Zenon
    <3> QED BY <3>1, <3>2
  <2>2. g = h
    <3>1. DOMAIN h = 0 .. N /\ h = [n \in 0 .. N |-> h[n]]
      BY Zenon
    <3> HIDE DEF h, step
    <3> QED BY <1>6, <2>1, <3>1
  <2> QED BY <2>2
<1>9. Eqn(line)
  <2> HIDE DEF Eqn
  <2>1. line = CHOOSE f : Eqn(f)
    <3>1. line = CHOOSE f : f = [n \in 0 .. Len(s) |-> IF n = 0 THEN <<>> ELSE f[n - 1] \o build_frame(n, s[n])]
      BY Zenon DEF Lines
    <3> QED BY <3>1, Zenon DEF Eqn
  <2> QED BY <1>8, <2>1, Zenon
<1> HIDE DEF line
<1>10. line[0] = <<>>
  <2>1. 0 \in 0 .. N
    OBVIOUS
  <2> QED BY <1>9, <2>1, Zenon
<1>11. ASSUME NEW n \in 1 .. N PROVE line[n] = line[n - 1] \o build_frame(n, s[n])
  <2>1. n \in 0 .. N /\ n # 0
    OBVIOUS
  <2> QED BY <1>9, <2>1, Zenon
<1>12. \A n \in 0 .. N : line[n] \in Seq(Nat)
  <2>1. ASSUME NEW n \in 1 .. N, line[n - 1] \in Seq(Nat) PROVE line[n] \in Seq(Nat)
    BY <1>3, <1>11, <2>1, Zenon
  <2> QED BY <1>4, <1>10, <2>1, Carried
<1> QED BY <1>10, <1>11, <1>12, Zenon DEF line

\* Where the frames begin and end.
LEMMA Starts ==
  ASSUME NEW s \in Seq(Seq(Nat)), NEW n \in 1 .. Len(s)
  PROVE  /\ StartOf(s, n) \in Nat \ {0} /\ Len(s[n]) \in Nat
         /\ Len(Lines(s)[n]) = StartOf(s, n) + 5 + Len(s[n])
         /\ Lines(s)[n] \in Seq(Nat)
         /\ \A i \in 1 .. Len(Lines(s)[n - 1]) : Lines(s)[n][i] = Lines(s)[n - 1][i]
         /\ \A j \in 1 .. Len(s[n]) + 6 :
              Lines(s)[n][StartOf(s, n) + j - 1] = build_frame(n, s[n])[j]
<1> DEFINE x == Lines(s)[n - 1]
           y == build_frame(n, s[n])
           z == Lines(s)[n]
           l == Len(s[n])
           k == Len(x)
<1>1. Len(s) \in Nat /\ n - 1 \in 0 .. Len(s) /\ n \in 0 .. Len(s) /\ n \in Nat /\ s[n] \in Seq(Nat)
  OBVIOUS
<1>2. x \in Seq(Nat) /\ z \in Seq(Nat) /\ z = x \o y
  BY <1>1, LinesAre, Zenon
<1>3. y \in Seq(Nat) /\ Len(y) = l + 6 /\ l \in Nat
  BY <1>1, FrameIs, Zenon
<1> HIDE DEF x, y, z, l
<1>4. k \in Nat
  BY <1>2
<1>5. /\ Len(z) = Len(x) + Len(y)
      /\ \A i \in 1 .. Len(x) + Len(y) : z[i] = IF i <= Len(x) THEN x[i] ELSE y[i - Len(x)]
  BY <1>2, <1>3, ConcatProperties, Zenon
<1>6. StartOf(s, n) = k + 1
  BY Zenon DEF StartOf, x
<1>7. Len(z) = StartOf(s, n) + 5 + l /\ StartOf(s, n) \in Nat \ {0}
  <2>1. Len(z) = k + (l + 6)
    BY <1>3, <1>5, Zenon
  <2> HIDE DEF k
  <2> QED BY <1>3, <1>4, <1>6, <2>1
<1>8. \A i \in 1 .. k : z[i] = x[i]
  <2> TAKE i \in 1 .. k
  <2>1. i \in 1 .. k + (l + 6) /\ i <= k
    <3> HIDE DEF k
    <3> QED BY <1>3, <1>4
  <2> QED BY <1>3, <1>5, <2>1, Zenon
<1>9. \A j \in 1 .. l + 6 : z[StartOf(s, n) + j - 1] = y[j]
  <2> TAKE j \in 1 .. l + 6
  <2> DEFINE i == StartOf(s, n) + j - 1
  <2>1. i \in 1 .. k + (l + 6) /\ ~(i <= k) /\ i - k = j
    <3> HIDE DEF k
    <3> QED BY <1>3, <1>4, <1>6
  <2> HIDE DEF i
  <2>2. z[i] = y[i - k]
    BY <1>3, <1>5, <2>1, Zenon
  <2> QED BY <2>1, <2>2, Zenon DEF i
<1> QED BY <1>2, <1>3, <1>7, <1>8, <1>9, Zenon DEF x, y, z, l

\* What was sent stays where it is as more is sent.
LEMMA LinesGrow ==
  ASSUME NEW s \in Seq(Seq(Nat))
  PROVE  \A m, n \in 0 .. Len(s) : m <= n =>
           /\ Len(Lines(s)[m]) \in Nat /\ Len(Lines(s)[n]) \in Nat
           /\ Len(Lines(s)[m]) <= Len(Lines(s)[n])
           /\ \A i \in 1 .. Len(Lines(s)[m]) : Lines(s)[n][i] = Lines(s)[m][i]
<1> TAKE m, n \in 0 .. Len(s)
<1> HAVE m <= n
<1> DEFINE N == Len(s)
           k == Len(Lines(s)[m])
           Keeps(j) == k <= Len(Lines(s)[j]) /\ \A i \in 1 .. k : Lines(s)[j][i] = Lines(s)[m][i]
           T == {d \in Nat : m + d <= N => Keeps(m + d)}
<1>1. N \in Nat
  OBVIOUS
<1>2. \A j \in 0 .. N : Len(Lines(s)[j]) \in Nat
  <2>1. \A j \in 0 .. N : Lines(s)[j] \in Seq(Nat)
    BY <1>1, LinesAre, Zenon
  <2>2. \A x \in Seq(Nat) : Len(x) \in Nat
    OBVIOUS
  <2> QED BY <2>1, <2>2, Zenon
<1>3. 0 \in T
  <2>1. m + 0 = m
    BY <1>1
  <2>2. Keeps(m)
    <3>1. k \in Nat
      BY <1>2
    <3> HIDE DEF k
    <3>2. k <= k
      BY <3>1
    <3> QED BY <3>2, Zenon DEF k
  <2> HIDE DEF Keeps
  <2> QED BY <2>1, <2>2
<1>4. ASSUME NEW d \in Nat, d \in T PROVE d + 1 \in T
  <2> SUFFICES ASSUME m + (d + 1) <= N PROVE Keeps(m + (d + 1))
    OBVIOUS
  <2> DEFINE j == m + (d + 1)
  <2>1. j \in 1 .. N /\ j - 1 = m + d /\ m + d <= N /\ m + d \in 0 .. N /\ j \in 0 .. N
    <3> HIDE DEF N
    <3> QED BY <1>1
  <2>2. Keeps(j - 1)
    BY <1>4, <2>1, Zenon
  <2> HIDE DEF j
  <2>3. /\ Len(Lines(s)[j]) = StartOf(s, j) + 5 + Len(s[j]) /\ Len(s[j]) \in Nat
        /\ \A i \in 1 .. Len(Lines(s)[j - 1]) : Lines(s)[j][i] = Lines(s)[j - 1][i]
    BY <2>1, Starts, Zenon
  <2>4. StartOf(s, j) = Len(Lines(s)[j - 1]) + 1
    BY Zenon DEF StartOf
  <2>5. k \in Nat /\ Len(Lines(s)[j - 1]) \in Nat /\ Len(Lines(s)[j]) \in Nat
    BY <1>2, <2>1, Zenon
  <2>6. \A p, q, r \in Nat : p <= q => p <= (q + 1) + 5 + r
    OBVIOUS
  <2>7. \A p, q \in Nat : \A i \in 1 .. p : p <= q => i \in 1 .. q
    OBVIOUS
  <2>8. k <= Len(Lines(s)[j])
    BY <2>2, <2>3, <2>4, <2>5, <2>6, Zenon
  <2>9. \A i \in 1 .. k : Lines(s)[j][i] = Lines(s)[m][i]
    BY <2>2, <2>3, <2>5, <2>7, Zenon
  <2> QED BY <2>8, <2>9 DEF j
<1>5. n - m \in Nat /\ m + (n - m) = n
  BY <1>1
<1>6. n - m \in T
  <2> HIDE DEF T
  <2> QED BY <1>3, <1>4, <1>5, Induction
<1>7. Keeps(n)
  <2> HIDE DEF Keeps
  <2> QED BY <1>5, <1>6
<1>8. Len(Lines(s)[m]) \in Nat /\ Len(Lines(s)[n]) \in Nat
  BY <1>2, Zenon
<1>9. Len(Lines(s)[m]) <= Len(Lines(s)[n])
  BY <1>7, Zenon
<1>10. \A i \in 1 .. Len(Lines(s)[m]) : Lines(s)[n][i] = Lines(s)[m][i]
  BY <1>7, Zenon
<1> QED BY <1>8, <1>9, <1>10, Zenon

\* The symbols of frame n on the line, and that frames do not overlap.
LEMMA OnTheLine ==
  ASSUME NEW s \in Seq(Seq(Nat)), NEW n \in 1 .. Len(s)
  PROVE  /\ StartOf(s, n) + 5 + Len(s[n]) \in 1 .. Len(Line(s))
         /\ \A j \in 1 .. Len(s[n]) + 6 : Line(s)[StartOf(s, n) + j - 1] = build_frame(n, s[n])[j]
         /\ \A m \in 1 .. Len(s) : m < n => StartOf(s, m) + 5 + Len(s[m]) < StartOf(s, n)
<1> DEFINE N == Len(s)
           st == StartOf(s, n)
           l == Len(s[n])
<1>1. N \in Nat /\ N \in 0 .. N /\ n \in 0 .. N /\ n <= N
  OBVIOUS
<1>2. /\ Len(Lines(s)[n]) \in Nat /\ Len(Lines(s)[N]) \in Nat
      /\ Len(Lines(s)[n]) <= Len(Lines(s)[N])
      /\ \A i \in 1 .. Len(Lines(s)[n]) : Lines(s)[N][i] = Lines(s)[n][i]
  BY <1>1, LinesGrow, Zenon
<1>3. /\ st \in Nat \ {0} /\ l \in Nat /\ Len(Lines(s)[n]) = st + 5 + l
      /\ \A j \in 1 .. l + 6 : Lines(s)[n][st + j - 1] = build_frame(n, s[n])[j]
  BY Starts, Zenon
<1>4. Line(s) = Lines(s)[N]
  BY Zenon DEF Line
<1>5. st + 5 + l \in 1 .. Len(Line(s))
  <2>1. \A p \in Nat \ {0}, q, r, e \in Nat : r = p + 5 + q /\ r <= e => p + 5 + q \in 1 .. e
    OBVIOUS
  <2> HIDE DEF st, l
  <2> QED BY <1>2, <1>3, <1>4, <2>1, Zenon
<1>6. ASSUME NEW j \in 1 .. l + 6 PROVE Line(s)[st + j - 1] = build_frame(n, s[n])[j]
  <2>1. \A p \in Nat \ {0}, q \in Nat : \A i \in 1 .. q + 6 : p + i - 1 \in 1 .. p + 5 + q
    OBVIOUS
  <2>2. st + j - 1 \in 1 .. Len(Lines(s)[n])
    <3> HIDE DEF st, l
    <3> QED BY <1>3, <2>1, Zenon
  <2> QED BY <1>2, <1>3, <1>4, <2>2, Zenon
<1>7. ASSUME NEW m \in 1 .. N, m < n PROVE StartOf(s, m) + 5 + Len(s[m]) < st
  <2>1. m \in 0 .. N /\ n - 1 \in 0 .. N /\ m <= n - 1
    BY <1>7
  <2>2. /\ Len(Lines(s)[m]) \in Nat /\ Len(Lines(s)[n - 1]) \in Nat
        /\ Len(Lines(s)[m]) <= Len(Lines(s)[n - 1])
    BY <2>1, LinesGrow, Zenon
  <2>3. Len(Lines(s)[m]) = StartOf(s, m) + 5 + Len(s[m])
    BY Starts, Zenon
  <2>4. st = Len(Lines(s)[n - 1]) + 1
    BY Zenon DEF StartOf
  <2>5. \A p, q \in Nat : p <= q => p < q + 1
    OBVIOUS
  <2> HIDE DEF st
  <2> QED BY <2>2, <2>3, <2>4, <2>5, Zenon
<1> QED BY <1>5, <1>6, <1>7, Zenon

\* What has arrived of the first p positions of a line: those not lost, in their
\* order, those not damaged as they were sent.
ArrivedOf(x, line, lost, bad, p) ==
  /\ x \in Seq(Sym)
  /\ \A i \in 1 .. Len(x) :
       /\ x[i].at \in 1 .. p /\ x[i].at \notin lost
       /\ x[i].at \notin bad => x[i].is = line[x[i].at]
  /\ \A i, j \in 1 .. Len(x) : i < j => x[i].at < x[j].at
  /\ \A q \in 1 .. p : q \in lost \/ \E i \in 1 .. Len(x) : x[i].at = q

\* One more symbol arrives.
LEMMA OneMore ==
  ASSUME NEW line, NEW lost, NEW bad, NEW p \in Nat, NEW x, NEW e \in Sym,
         ArrivedOf(x, line, lost, bad, p), p + 1 \notin lost, e.at = p + 1,
         p + 1 \notin bad => e.is = line[p + 1]
  PROVE  ArrivedOf(Append(x, e), line, lost, bad, p + 1)
<1> DEFINE y == Append(x, e)
           n == Len(x)
<1>1. x \in Seq(Sym) /\ n \in Nat
  BY DEF ArrivedOf
<1>2. /\ y \in Seq(Sym) /\ Len(y) = n + 1 /\ y[n + 1] = e
      /\ \A i \in 1 .. n : y[i] = x[i]
  BY <1>1, AppendProperties
<1> HIDE DEF y, n
<1>3. \A i \in 1 .. n + 1 : i = n + 1 \/ i \in 1 .. n
  BY <1>1
<1>4. ASSUME NEW i \in 1 .. Len(y)
      PROVE  /\ y[i].at \in 1 .. p + 1 /\ y[i].at \notin lost
             /\ y[i].at \notin bad => y[i].is = line[y[i].at]
  <2>1. CASE i = n + 1
    <3>1. y[i] = e /\ p + 1 \in 1 .. p + 1
      BY <1>2, <2>1
    <3> QED BY <3>1, Zenon
  <2>2. CASE i \in 1 .. n
    <3>1. /\ x[i].at \in 1 .. p /\ x[i].at \notin lost
          /\ x[i].at \notin bad => x[i].is = line[x[i].at]
      BY <2>2, Zenon DEF ArrivedOf, n
    <3>2. \A q \in 1 .. p : q \in 1 .. p + 1
      OBVIOUS
    <3> QED BY <1>2, <2>2, <3>1, <3>2, Zenon
  <2> QED BY <1>2, <1>3, <2>1, <2>2, Zenon
<1>5. ASSUME NEW i \in 1 .. Len(y), NEW j \in 1 .. Len(y), i < j
      PROVE  y[i].at < y[j].at
  <2>1. i \in 1 .. n /\ (j = n + 1 \/ j \in 1 .. n)
    BY <1>1, <1>2, <1>5
  <2>2. x[i].at \in 1 .. p
    BY <2>1, Zenon DEF ArrivedOf, n
  <2>3. CASE j = n + 1
    <3>1. \A q \in 1 .. p : q < p + 1
      OBVIOUS
    <3> QED BY <1>2, <2>1, <2>2, <2>3, <3>1, Zenon
  <2>4. CASE j \in 1 .. n
    <3>1. x[i].at < x[j].at
      BY <1>5, <2>1, <2>4, Zenon DEF ArrivedOf, n
    <3> QED BY <1>2, <2>1, <2>4, <3>1, Zenon
  <2> QED BY <2>1, <2>3, <2>4
<1>6. ASSUME NEW q \in 1 .. p + 1, q \notin lost
      PROVE  \E i \in 1 .. Len(y) : y[i].at = q
  <2>1. CASE q = p + 1
    <3>1. n + 1 \in 1 .. Len(y)
      BY <1>1, <1>2
    <3> QED BY <1>2, <2>1, <3>1, Zenon
  <2>2. CASE q # p + 1
    <3>1. q \in 1 .. p
      BY <2>2
    <3>2. PICK i \in 1 .. n : x[i].at = q
      BY <1>6, <3>1, Zenon DEF ArrivedOf, n
    <3>3. i \in 1 .. Len(y)
      BY <1>1, <1>2
    <3> QED BY <1>2, <3>2, <3>3, Zenon
  <2> QED BY <2>1, <2>2
<1>7. ArrivedOf(y, line, lost, bad, p + 1)
  BY <1>2, <1>4, <1>5, <1>6, Zenon DEF ArrivedOf
<1> QED BY <1>7 DEF y

\* One more symbol is lost.
LEMMA OneLess ==
  ASSUME NEW line, NEW lost, NEW bad, NEW p \in Nat, NEW x,
         ArrivedOf(x, line, lost, bad, p), p + 1 \in lost
  PROVE  ArrivedOf(x, line, lost, bad, p + 1)
<1>1. \A q \in 1 .. p : q \in 1 .. p + 1
  OBVIOUS
<1>2. \A q \in 1 .. p + 1 : q \in 1 .. p \/ q = p + 1
  OBVIOUS
<1> QED BY <1>1, <1>2, Zenon DEF ArrivedOf

\* What arrives of a line.
LEMMA ArrivesIs ==
  ASSUME NEW s, NEW L \in Nat, Len(Line(s)) = L, \A p \in 1 .. L : Line(s)[p] \in Nat,
         NEW lost, NEW bad, NEW b \in Nat
  PROVE  ArrivedOf(Arrives(s, lost, bad, b), Line(s), lost, bad, L)
<1> DEFINE line == Line(s)
           symbol(p) == [at |-> p, is |-> IF p \in bad THEN b ELSE line[p]]
           next(x, p) == IF p \in lost THEN x ELSE Append(x, symbol(p))
           step == [p \in 1 .. L |-> [x \in Seq(Sym) |-> next(x, p)]]
           Eqn(g) == g = [p \in 0 .. L |-> IF p = 0 THEN <<>> ELSE next(g[p - 1], p)]
           a == CHOOSE g : Eqn(g)
<1>1. \A p \in 1 .. L : symbol(p) \in Sym
  <2> TAKE p \in 1 .. L
  <2>1. p \in Nat /\ (IF p \in bad THEN b ELSE line[p]) \in Nat
    OBVIOUS
  <2>2. \A m, n \in Nat : [at |-> m, is |-> n] \in Sym
    BY DEF Sym
  <2> QED BY <2>1, <2>2, Zenon
<1>2. \A x \in Seq(Sym), p \in 1 .. L : next(x, p) \in Seq(Sym)
  <2>1. \A x \in Seq(Sym), e \in Sym : Append(x, e) \in Seq(Sym)
    BY AppendProperties
  <2> HIDE DEF symbol
  <2> QED BY <1>1, <2>1, Zenon
<1>3. <<>> \in Seq(Sym)
  OBVIOUS
<1>4. \A p \in 1 .. L : p - 1 \in 0 .. L /\ p \in 0 .. L /\ p # 0
  OBVIOUS
<1>5. PICK g \in Iterations(Seq(Sym), <<>>, L, step) : TRUE
  <2>1. step \in [1 .. L -> [Seq(Sym) -> Seq(Sym)]]
    <3> HIDE DEF next
    <3> QED BY <1>2, Zenon
  <2>2. Iterations(Seq(Sym), <<>>, L, step) # {}
    <3> HIDE DEF step
    <3> QED BY <1>3, <2>1, Recursion
  <2> QED BY <2>2
<1>6. g \in [0 .. L -> Seq(Sym)] /\ g[0] = <<>> /\ \A p \in 1 .. L : g[p] = step[p][g[p - 1]]
  BY <1>5 DEF Iterations
<1>7. ASSUME NEW p \in 1 .. L PROVE g[p] = next(g[p - 1], p)
  <2>1. g[p - 1] \in Seq(Sym)
    <3> HIDE DEF step
    <3> QED BY <1>4, <1>6, Zenon
  <2>2. g[p] = step[p][g[p - 1]]
    <3> HIDE DEF step
    <3> QED BY <1>6, Zenon
  <2> HIDE DEF next
  <2>3. step[p] = [x \in Seq(Sym) |-> next(x, p)]
    BY Zenon
  <2> HIDE DEF step
  <2> QED BY <2>1, <2>2, <2>3, Zenon
<1> HIDE DEF next
<1>8. Eqn(g)
  <2> DEFINE h == [p \in 0 .. L |-> IF p = 0 THEN <<>> ELSE next(g[p - 1], p)]
  <2>1. \A p \in 0 .. L : g[p] = h[p]
    <3> TAKE p \in 0 .. L
    <3>1. CASE p = 0
      <4>1. h[p] = <<>>
        BY <3>1, Zenon
      <4> HIDE DEF h, step
      <4> QED BY <1>6, <3>1, <4>1, Zenon
    <3>2. CASE p # 0
      <4>1. p \in 1 .. L
        BY <3>2
      <4>2. h[p] = next(g[p - 1], p)
        BY <3>2, Zenon
      <4> HIDE DEF h
      <4> QED BY <1>7, <4>1, <4>2, Zenon
    <3> QED BY <3>1, <3>2
  <2>2. g = h
    <3>1. DOMAIN h = 0 .. L /\ h = [n \in 0 .. L |-> h[n]]
      BY Zenon
    <3> HIDE DEF h, step
    <3> QED BY <1>6, <2>1, <3>1
  <2> QED BY <2>2
<1>9. Eqn(a)
  <2> HIDE DEF Eqn
  <2> QED BY <1>8, Zenon
<1>10. Arrives(s, lost, bad, b) = a[L]
  <2>1. Arrives(s, lost, bad, b) =
          (CHOOSE g2 : g2 = [p \in 0 .. Len(line) |-> IF p = 0 THEN <<>> ELSE next(g2[p - 1], p)])[Len(line)]
    BY Zenon DEF Arrives, next
  <2> QED BY <2>1, Zenon
<1> HIDE DEF a
<1>11. a[0] = <<>>
  <2>1. 0 \in 0 .. L
    OBVIOUS
  <2> QED BY <1>9, <2>1, Zenon
<1>12. ASSUME NEW p \in 1 .. L PROVE a[p] = next(a[p - 1], p)
  BY <1>4, <1>9, Zenon
<1> HIDE DEF Eqn, step
<1> DEFINE T == {p \in Nat : p <= L => ArrivedOf(a[p], line, lost, bad, p)}
<1>13. 0 \in T
  <2>1. <<>> \in Seq(Sym) /\ Len(<<>>) = 0 /\ 1 .. 0 = {}
    OBVIOUS
  <2>2. ArrivedOf(<<>>, line, lost, bad, 0)
    BY <2>1, Zenon DEF ArrivedOf
  <2> QED BY <1>11, <2>2
<1>14. ASSUME NEW p \in Nat, p \in T PROVE p + 1 \in T
  <2> SUFFICES ASSUME p + 1 <= L PROVE ArrivedOf(a[p + 1], line, lost, bad, p + 1)
    OBVIOUS
  <2>1. p + 1 \in 1 .. L /\ (p + 1) - 1 = p /\ p <= L
    OBVIOUS
  <2>2. a[p + 1] = next(a[p], p + 1)
    BY <1>12, <2>1, Zenon
  <2>3. ArrivedOf(a[p], line, lost, bad, p)
    BY <1>14, <2>1, Zenon
  <2> HIDE DEF line
  <2>4. CASE p + 1 \in lost
    <3>1. a[p + 1] = a[p]
      BY <2>2, <2>4, Zenon DEF next
    <3> QED BY <2>3, <2>4, <3>1, OneLess
  <2>5. CASE p + 1 \notin lost
    <3> DEFINE e == symbol(p + 1)
    <3>1. a[p + 1] = Append(a[p], e)
      BY <2>2, <2>5, Zenon DEF next
    <3>2. e \in Sym
      BY <1>1, <2>1, Zenon
    <3>3. e.at = p + 1 /\ (p + 1 \notin bad => e.is = line[p + 1])
      OBVIOUS
    <3> HIDE DEF e
    <3>4. ArrivedOf(Append(a[p], e), line, lost, bad, p + 1)
      BY <2>3, <2>5, <3>2, <3>3, OneMore
    <3> QED BY <3>1, <3>4, Zenon
  <2> QED BY <2>4, <2>5
<1>15. L \in T
  <2> HIDE DEF T
  <2> QED BY <1>13, <1>14, Induction
<1>16. L <= L
  OBVIOUS
<1> QED BY <1>10, <1>15, <1>16, Zenon

-----------------------------------------------------------------------------
\* What is left of it.

\* The undamaged frames, and where a frame ends.
Whole(s, hurts) == {n \in DOMAIN s : Span(s, n) \cap hurts = {}}
EndOf(s, n) == StartOf(s, n) + HEADER_LEN + Len(s[n])

\* The symbols at i .. j of what has arrived.
Window(r, i, j) == Symbols(SubSeq(r, i, j))

\* Behind the start of an undamaged frame r has the whole of it.
Unbroken(s, hurts, r) ==
  \A n \in Whole(s, hurts), i \in 1 .. Len(r) : r[i].at = StartOf(s, n) =>
    \A j \in 1 .. Len(s[n]) + 6 :
      /\ i + j - 1 \in 1 .. Len(r)
      /\ r[i + j - 1].at = StartOf(s, n) + j - 1
      /\ r[i + j - 1].is = build_frame(n, s[n])[j]

\* What passes for a frame in r is one, and no other begins in it.
Telling(s, r) ==
  \A i, j \in 1 .. Len(r) : i < j /\ Passes(Window(r, i, j)) =>
    \E n \in DOMAIN s :
      /\ Window(r, i, j) = build_frame(n, s[n])
      /\ r[j].at = EndOf(s, n)
      /\ \A k \in i .. j, m \in DOMAIN s : r[k].at = StartOf(s, m) => m = n

\* What may be left to read of a line: symbols in the order of their positions.
Rest(s, hurts, r) ==
  /\ r \in Seq(Sym)
  /\ \A i, j \in 1 .. Len(r) : i < j => r[i].at < r[j].at
  /\ Unbroken(s, hurts, r)
  /\ Telling(s, r)

\* What a receiver has made of the line up to the rest r: frames that were sent, in
\* order, that ended before it.
Taken(s, r, o) ==
  /\ o \in Seq(Nat)
  /\ \A i \in 1 .. Len(o) : o[i] # 0 =>
       /\ o[i] \in DOMAIN s
       /\ \A k \in 1 .. Len(r) : EndOf(s, o[i]) < r[k].at
  /\ \A i, j \in 1 .. Len(o) : i < j /\ o[i] # 0 /\ o[j] # 0 => o[i] < o[j]

\* Undamaged frames are taken or still to come.
NoneLost(s, hurts, r, o) ==
  \A n \in Whole(s, hurts) :
    \/ \E i \in 1 .. Len(o) : o[i] = n
    \/ \E i \in 1 .. Len(r) : r[i].at = StartOf(s, n)

\* r has every undamaged position behind one it has, with the symbol sent there.
Present(s, h, r) ==
  /\ \A i \in 1 .. Len(r) :
       r[i].at \in 1 .. Len(Line(s)) /\ (r[i].at \notin h => r[i].is = Line(s)[r[i].at])
  /\ \A i \in 1 .. Len(r), q \in 1 .. Len(Line(s)) :
       q \notin h /\ r[i].at < q => \E j \in 1 .. Len(r) : r[j].at = q

\* q is r without its first d symbols.
Behind(q, r, d) ==
  /\ r \in Seq(Sym) /\ q \in Seq(Sym)
  /\ d \in 0 .. Len(r) /\ Len(q) = Len(r) - d
  /\ \A i \in 1 .. Len(q) : q[i] = r[i + d]

\* The symbols of a window.
LEMMA WindowIs ==
  ASSUME NEW r \in Seq(Sym), NEW i \in 1 .. Len(r), NEW j \in i .. Len(r)
  PROVE  /\ Window(r, i, j) \in Seq(Nat) /\ Len(Window(r, i, j)) = j - i + 1
         /\ \A k \in 1 .. j - i + 1 : Window(r, i, j)[k] = r[i + k - 1].is
<1> DEFINE w == SubSeq(r, i, j)
           x == Window(r, i, j)
           l == j - i + 1
<1>1. l \in Nat /\ i \in Int /\ j \in Int /\ i <= j
  OBVIOUS
<1>2. \A k \in i .. j : r[k] \in Sym
  OBVIOUS
<1>3. w \in Seq(Sym) /\ Len(w) = l /\ \A k \in 1 .. l : w[k] = r[i + k - 1]
  <2>1. /\ w \in Seq(Sym) /\ Len(w) = IF i <= j THEN j - i + 1 ELSE 0
        /\ \A k \in 1 .. j - i + 1 : w[k] = r[i + k - 1]
    BY <1>1, <1>2, SubSeqProperties
  <2> QED BY <1>1, <2>1, Zenon
<1> HIDE DEF w, l
<1>4. DOMAIN w = 1 .. l /\ \A k \in 1 .. l : w[k] \in Sym
  BY <1>1, <1>3
<1>5. x = [k \in 1 .. l |-> w[k].is]
  BY <1>4, Zenon DEF Window, Symbols, w
<1>6. \A k \in 1 .. l : w[k].is \in Nat
  BY <1>4 DEF Sym
<1>7. x \in Seq(Nat) /\ Len(x) = l
  <2> HIDE DEF x
  <2> QED BY <1>1, <1>5, <1>6
<1>8. \A k \in 1 .. l : x[k] = r[i + k - 1].is
  <2> HIDE DEF x
  <2> QED BY <1>3, <1>5, Zenon
<1> QED BY <1>7, <1>8, Zenon DEF l

\* A window of the rest is a window of what it is the rest of.
LEMMA WindowBehind ==
  ASSUME NEW q, NEW r, NEW d, Behind(q, r, d), NEW i \in 1 .. Len(q), NEW j \in i .. Len(q)
  PROVE  /\ i + d \in 1 .. Len(r) /\ j + d \in i + d .. Len(r)
         /\ Window(q, i, j) = Window(r, i + d, j + d)
<1>1. /\ r \in Seq(Sym) /\ q \in Seq(Sym) /\ d \in 0 .. Len(r) /\ Len(q) = Len(r) - d
      /\ \A k \in 1 .. Len(q) : q[k] = r[k + d]
  BY Zenon DEF Behind
<1>2. Len(q) \in Nat /\ Len(r) \in Nat /\ d \in Nat
  BY <1>1
<1>3. i + d \in 1 .. Len(r) /\ j + d \in i + d .. Len(r) /\ (j + d) - (i + d) + 1 = j - i + 1
      /\ j - i + 1 \in Nat
  BY <1>1, <1>2
<1> DEFINE x == Window(q, i, j)
           y == Window(r, i + d, j + d)
           l == j - i + 1
<1>4. x \in Seq(Nat) /\ Len(x) = l /\ \A k \in 1 .. l : x[k] = q[i + k - 1].is
  BY <1>1, WindowIs
<1>5. y \in Seq(Nat) /\ Len(y) = l /\ \A k \in 1 .. l : y[k] = r[(i + d) + k - 1].is
  <2>1. /\ y \in Seq(Nat) /\ Len(y) = (j + d) - (i + d) + 1
        /\ \A k \in 1 .. (j + d) - (i + d) + 1 : y[k] = r[(i + d) + k - 1].is
    BY <1>1, <1>3, WindowIs
  <2> QED BY <1>3, <2>1, Zenon
<1>6. \A k \in 1 .. l : i + k - 1 \in 1 .. Len(q) /\ (i + k - 1) + d = (i + d) + k - 1
  BY <1>2
<1>7. \A k \in 1 .. l : x[k] = y[k]
  BY <1>1, <1>4, <1>5, <1>6, ZenonT(60)
<1>8. x = y
  <2> HIDE DEF x, y, l
  <2> QED BY <1>4, <1>5, <1>7, SeqEqual
<1> QED BY <1>3, <1>8

\* The rest of a rest is one.
LEMMA RestBehind ==
  ASSUME NEW s, NEW hurts, NEW q, NEW r, NEW d, Behind(q, r, d), Rest(s, hurts, r),
         \A n \in DOMAIN s : Len(s[n]) \in Nat
  PROVE  Rest(s, hurts, q)
<1>1. /\ r \in Seq(Sym) /\ q \in Seq(Sym) /\ d \in 0 .. Len(r) /\ Len(q) = Len(r) - d
      /\ \A k \in 1 .. Len(q) : q[k] = r[k + d]
  BY Zenon DEF Behind
<1>2. Len(q) \in Nat /\ Len(r) \in Nat /\ d \in Nat
  BY <1>1
<1>3. \A k \in 1 .. Len(q) : k + d \in 1 .. Len(r)
  BY <1>1, <1>2
<1>4. ASSUME NEW i \in 1 .. Len(q), NEW j \in 1 .. Len(q), i < j PROVE q[i].at < q[j].at
  <2>1. i + d < j + d
    BY <1>2, <1>4
  <2> QED BY <1>1, <1>3, <2>1, Zenon DEF Rest
<1>5. ASSUME NEW n \in Whole(s, hurts), NEW i \in 1 .. Len(q), q[i].at = StartOf(s, n),
             NEW j \in 1 .. Len(s[n]) + 6
      PROVE  /\ i + j - 1 \in 1 .. Len(q)
             /\ q[i + j - 1].at = StartOf(s, n) + j - 1
             /\ q[i + j - 1].is = build_frame(n, s[n])[j]
  <2> DEFINE k == (i + d) + j - 1
  <2>1. r[i + d].at = StartOf(s, n) /\ i + d \in 1 .. Len(r)
    BY <1>1, <1>3, <1>5, Zenon
  <2>2. k \in 1 .. Len(r) /\ r[k].at = StartOf(s, n) + j - 1 /\ r[k].is = build_frame(n, s[n])[j]
    BY <2>1, Zenon DEF Rest, Unbroken
  <2>3. n \in DOMAIN s /\ Len(s[n]) \in Nat
    BY DEF Whole
  <2>4. i + j - 1 \in 1 .. Len(q) /\ (i + j - 1) + d = k
    <3>1. j \in Nat \ {0}
      <4>1. \A l \in Nat : \A m \in 1 .. l + 6 : m \in Nat \ {0}
        OBVIOUS
      <4> QED BY <2>3, <4>1, Zenon
    <3> QED BY <1>1, <1>2, <2>2, <3>1
  <2>5. q[i + j - 1] = r[k]
    BY <1>1, <2>4, Zenon
  <2> QED BY <2>2, <2>4, <2>5, Zenon
<1>6. ASSUME NEW i \in 1 .. Len(q), NEW j \in 1 .. Len(q), i < j, Passes(Window(q, i, j))
      PROVE  \E n \in DOMAIN s :
               /\ Window(q, i, j) = build_frame(n, s[n])
               /\ q[j].at = EndOf(s, n)
               /\ \A k \in i .. j, m \in DOMAIN s : q[k].at = StartOf(s, m) => m = n
  <2>1. j \in i .. Len(q) /\ i + d < j + d
    BY <1>2, <1>6
  <2>2. i + d \in 1 .. Len(r) /\ j + d \in 1 .. Len(r)
        /\ Window(q, i, j) = Window(r, i + d, j + d)
    BY <1>3, <2>1, WindowBehind
  <2>3. PICK n \in DOMAIN s :
          /\ Window(r, i + d, j + d) = build_frame(n, s[n])
          /\ r[j + d].at = EndOf(s, n)
          /\ \A k \in i + d .. j + d, m \in DOMAIN s : r[k].at = StartOf(s, m) => m = n
    BY <1>6, <2>1, <2>2, Zenon DEF Rest, Telling
  <2>4. \A k \in i .. j : k \in 1 .. Len(q) /\ k + d \in i + d .. j + d
    BY <1>2
  <2> QED BY <1>1, <2>2, <2>3, <2>4, Zenon
<1> QED BY <1>1, <1>4, <1>5, <1>6, Zenon DEF Rest, Unbroken, Telling

\* Dropping symbols takes nothing back.
LEMMA TakenBehind ==
  ASSUME NEW s, NEW q, NEW r, NEW d, NEW o, Behind(q, r, d), Taken(s, r, o)
  PROVE  Taken(s, q, o)
<1>1. /\ r \in Seq(Sym) /\ q \in Seq(Sym) /\ d \in 0 .. Len(r) /\ Len(q) = Len(r) - d
      /\ \A k \in 1 .. Len(q) : q[k] = r[k + d]
  BY Zenon DEF Behind
<1>2. \A k \in 1 .. Len(q) : k + d \in 1 .. Len(r)
  BY <1>1
<1> QED BY <1>1, <1>2, Zenon DEF Taken

\* Nor does it lose a frame when none starts in what is dropped.
LEMMA NoneLostBehind ==
  ASSUME NEW s, NEW hurts, NEW q, NEW r, NEW d, NEW o, Behind(q, r, d),
         NoneLost(s, hurts, r, o),
         \A n \in Whole(s, hurts), i \in 1 .. d : r[i].at # StartOf(s, n)
  PROVE  NoneLost(s, hurts, q, o)
<1>1. /\ r \in Seq(Sym) /\ q \in Seq(Sym) /\ d \in 0 .. Len(r) /\ Len(q) = Len(r) - d
      /\ \A k \in 1 .. Len(q) : q[k] = r[k + d]
  BY Zenon DEF Behind
<1>2. ASSUME NEW n \in Whole(s, hurts), NEW i \in 1 .. Len(r), r[i].at = StartOf(s, n)
      PROVE  \E k \in 1 .. Len(q) : q[k].at = StartOf(s, n)
  <2>1. i \notin 1 .. d
    BY <1>2
  <2>2. i - d \in 1 .. Len(q) /\ (i - d) + d = i
    BY <1>1, <2>1
  <2>3. q[i - d] = r[i]
    BY <1>1, <2>2, Zenon
  <2> QED BY <1>2, <2>2, <2>3, Zenon
<1> QED BY <1>2, Zenon DEF NoneLost

\* Dropping symbols leaves what is behind them.
LEMMA PresentBehind ==
  ASSUME NEW s, NEW h, NEW q, NEW r, NEW d, Behind(q, r, d), Rest(s, h, r), Present(s, h, r)
  PROVE  Present(s, h, q)
<1>1. /\ r \in Seq(Sym) /\ q \in Seq(Sym) /\ d \in 0 .. Len(r) /\ Len(q) = Len(r) - d
      /\ \A k \in 1 .. Len(q) : q[k] = r[k + d]
  BY Zenon DEF Behind
<1>2. /\ Len(r) \in Nat /\ Len(q) \in Nat /\ d \in Nat
      /\ \A k \in 1 .. Len(q) : k + d \in 1 .. Len(r)
  BY <1>1
<1>3. ASSUME NEW i \in 1 .. Len(q), NEW e \in 1 .. Len(Line(s)), e \notin h, q[i].at < e
      PROVE  \E j \in 1 .. Len(q) : q[j].at = e
  <2>1. r[i + d].at < e /\ i + d \in 1 .. Len(r)
    BY <1>1, <1>2, <1>3, Zenon
  <2>2. PICK j \in 1 .. Len(r) : r[j].at = e
    BY <1>3, <2>1, Zenon DEF Present
  <2>3. r[i + d].at \in Nat /\ r[j].at \in Nat
    <3>1. r[i + d] \in Sym /\ r[j] \in Sym
      BY <1>1, <2>1
    <3> QED BY <3>1 DEF Sym
  <2>4. i + d < j
    <3>1. j < i + d => r[j].at < r[i + d].at
      BY <2>1, Zenon DEF Rest
    <3>2. j # i + d
      BY <2>1, <2>2, <2>3
    <3>3. ~(j < i + d)
      BY <2>1, <2>2, <2>3, <3>1
    <3> QED BY <2>1, <3>2, <3>3
  <2>5. j - d \in 1 .. Len(q) /\ (j - d) + d = j
    BY <1>1, <1>2, <2>4
  <2> QED BY <1>1, <2>2, <2>5, Zenon
<1>4. \A i \in 1 .. Len(q) :
        q[i].at \in 1 .. Len(Line(s)) /\ (q[i].at \notin h => q[i].is = Line(s)[q[i].at])
  <2> TAKE i \in 1 .. Len(q)
  <2>1. i + d \in 1 .. Len(r) /\ q[i] = r[i + d]
    BY <1>1, <1>2, Zenon
  <2>2. r[i + d].at \in 1 .. Len(Line(s)) /\ (r[i + d].at \notin h => r[i + d].is = Line(s)[r[i + d].at])
    BY <2>1, Zenon DEF Present
  <2> QED BY <2>1, <2>2
<1> QED BY <1>3, <1>4, Zenon DEF Present

\* Frames end in the order they were sent.
LEMMA EndsInOrder ==
  ASSUME NEW s \in Seq(Seq(Nat)), NEW m \in 1 .. Len(s), NEW n \in 1 .. Len(s)
  PROVE  /\ m < n => EndOf(s, m) < EndOf(s, n)
         /\ EndOf(s, m) \in Nat /\ EndOf(s, n) \in Nat
<1>1. /\ StartOf(s, m) \in Nat \ {0} /\ Len(s[m]) \in Nat
      /\ StartOf(s, n) \in Nat \ {0} /\ Len(s[n]) \in Nat
  BY Starts, Zenon
<1>2. m < n => StartOf(s, m) + 5 + Len(s[m]) < StartOf(s, n)
  BY OnTheLine, Zenon
<1>3. \A a, b, c, d \in Nat : /\ a + 5 + b < c => a + 5 + b < c + 5 + d
                             /\ a + 5 + b \in Nat
  OBVIOUS
<1>4. /\ EndOf(s, m) = StartOf(s, m) + 5 + Len(s[m])
      /\ EndOf(s, n) = StartOf(s, n) + 5 + Len(s[n])
  BY Zenon DEF EndOf, HEADER_LEN
<1> HIDE DEF HEADER_LEN
<1> DEFINE a == StartOf(s, m)
           b == Len(s[m])
           c == StartOf(s, n)
           d == Len(s[n])
<1>5. /\ a \in Nat /\ b \in Nat /\ c \in Nat /\ d \in Nat
      /\ m < n => a + 5 + b < c
      /\ EndOf(s, m) = a + 5 + b /\ EndOf(s, n) = c + 5 + d
  BY <1>1, <1>2, <1>4
<1> HIDE DEF a, b, c, d
<1> QED BY <1>3, <1>5

\* Taking what passes for a frame takes the next one sent, and no other is lost.
LEMMA FrameTaken ==
  ASSUME NEW s, NEW hurts, NEW q, NEW r, NEW t \in 2 .. Len(r), NEW o, Behind(q, r, t),
         s \in Seq(Seq(Nat)),
         Rest(s, hurts, r), Taken(s, r, o), Passes(Window(r, 1, t))
  PROVE  /\ r[4].is \in DOMAIN s
         /\ Taken(s, q, Append(o, r[4].is))
         /\ NoneLost(s, hurts, r, o) => NoneLost(s, hurts, q, Append(o, r[4].is))
<1> DEFINE n == r[4].is
           p == Append(o, n)
           l == Len(o)
<1>1. /\ r \in Seq(Sym) /\ q \in Seq(Sym) /\ Len(q) = Len(r) - t
      /\ \A k \in 1 .. Len(q) : q[k] = r[k + t]
  BY Zenon DEF Behind
<1>2. Len(r) \in Nat /\ t \in Nat /\ 1 \in 1 .. Len(r) /\ t \in 1 .. Len(r) /\ 1 < t
  BY <1>1
<1>3. PICK m \in DOMAIN s :
        /\ Window(r, 1, t) = build_frame(m, s[m])
        /\ r[t].at = EndOf(s, m)
        /\ \A k \in 1 .. t, e \in DOMAIN s : r[k].at = StartOf(s, e) => e = m
  BY <1>2, Zenon DEF Rest, Telling
<1>4. m \in Nat \ {0} /\ s[m] \in Seq(Nat)
  OBVIOUS
<1>5. m = n
  <2> DEFINE w == Window(r, 1, t)
             f == build_frame(m, s[m])
  <2>1. /\ Len(w) = t - 1 + 1
        /\ \A k \in 1 .. t - 1 + 1 : w[k] = r[1 + k - 1].is
    BY <1>1, <1>2, WindowIs
  <2>2. w[4] = m /\ Len(w) = Len(s[m]) + 6 /\ Len(s[m]) \in Nat
    <3>1. m \in Nat
      BY <1>4
    <3>2. f[4] = m /\ Len(f) = Len(s[m]) + 6 /\ Len(s[m]) \in Nat
      BY <1>4, <3>1, FrameIs
    <3>3. w = f
      BY <1>3
    <3> HIDE DEF w, f
    <3> QED BY <3>2, <3>3
  <2>3. 4 \in 1 .. t - 1 + 1 /\ 1 + 4 - 1 = 4
    <3>1. \A k \in Nat : t - 1 + 1 = k + 6 => 4 \in 1 .. t - 1 + 1
      BY <1>2
    <3>2. 1 + 4 - 1 = 4
      OBVIOUS
    <3> QED BY <2>1, <2>2, <3>1, <3>2, Zenon
  <2>4. w[4] = r[4].is
    BY <2>1, <2>3, Zenon
  <2> QED BY <2>2, <2>4, Zenon
<1> HIDE DEF n
<1>6. l \in Nat /\ o \in Seq(Nat) /\ n \in Nat
  BY <1>4, <1>5 DEF Taken
<1>7. /\ p \in Seq(Nat) /\ Len(p) = l + 1 /\ p[l + 1] = n
      /\ \A i \in 1 .. l : p[i] = o[i]
  BY <1>6, AppendProperties
<1>8. \A i \in 1 .. l + 1 : i = l + 1 \/ i \in 1 .. l
  BY <1>6
<1> HIDE DEF p, l
<1>9. ASSUME NEW k \in 1 .. Len(q) PROVE EndOf(s, n) < q[k].at
  <2>1. k + t \in 1 .. Len(r) /\ t < k + t
    BY <1>1, <1>2
  <2>2. r[t].at < r[k + t].at
    BY <1>2, <2>1, Zenon DEF Rest
  <2> QED BY <1>1, <1>3, <1>5, <2>2, Zenon
<1>10. ASSUME NEW i \in 1 .. l, o[i] # 0 PROVE o[i] \in DOMAIN s /\ o[i] < n
  <2>1. o[i] \in DOMAIN s /\ EndOf(s, o[i]) < r[t].at
    BY <1>2, <1>10, Zenon DEF Taken, l
  <2>2. EndOf(s, o[i]) < EndOf(s, n)
    BY <1>3, <1>5, <2>1, Zenon
  <2>3. o[i] \in 1 .. Len(s) /\ n \in 1 .. Len(s)
    BY <1>3, <1>5, <2>1, SMTT(30)
  <2>4. /\ n < o[i] => EndOf(s, n) < EndOf(s, o[i])
        /\ EndOf(s, o[i]) \in Nat /\ EndOf(s, n) \in Nat
    BY <2>3, EndsInOrder, Zenon
  <2>5. \A a, b \in Nat : a < b => ~(b < a) /\ a # b
    OBVIOUS
  <2>6. ~(n < o[i]) /\ n # o[i]
    BY <2>2, <2>4, <2>5, Zenon
  <2>7. \A a, b \in 1 .. Len(s) : ~(b < a) /\ b # a => a < b
    OBVIOUS
  <2> QED BY <2>1, <2>3, <2>6, <2>7, Zenon
<1>11. Taken(s, q, p)
  <2>1. ASSUME NEW i \in 1 .. Len(p), p[i] # 0
        PROVE  p[i] \in DOMAIN s /\ \A k \in 1 .. Len(q) : EndOf(s, p[i]) < q[k].at
    <3>1. CASE i = l + 1
      BY <1>3, <1>5, <1>7, <1>9, <3>1, Zenon
    <3>2. CASE i \in 1 .. l
      <4>1. \A k \in 1 .. Len(q) : k + t \in 1 .. Len(r)
        BY <1>1, <1>2
      <4> QED BY <1>1, <1>7, <2>1, <3>2, <4>1, Zenon DEF Taken, l
    <3> QED BY <1>7, <1>8, <3>1, <3>2, Zenon
  <2>2. ASSUME NEW i \in 1 .. Len(p), NEW j \in 1 .. Len(p), i < j, p[i] # 0, p[j] # 0
        PROVE  p[i] < p[j]
    <3>1. i \in 1 .. l /\ (j = l + 1 \/ j \in 1 .. l)
      BY <1>6, <1>7, <2>2
    <3>2. CASE j = l + 1
      BY <1>7, <1>10, <2>2, <3>1, <3>2, Zenon
    <3>3. CASE j \in 1 .. l
      BY <1>7, <2>2, <3>1, <3>3, Zenon DEF Taken, l
    <3> QED BY <3>1, <3>2, <3>3
  <2> QED BY <1>7, <2>1, <2>2, Zenon DEF Taken
<1>12. ASSUME NoneLost(s, hurts, r, o) PROVE NoneLost(s, hurts, q, p)
  <2> SUFFICES ASSUME NEW e \in Whole(s, hurts)
               PROVE  \/ \E i \in 1 .. Len(p) : p[i] = e
                      \/ \E i \in 1 .. Len(q) : q[i].at = StartOf(s, e)
    BY Zenon DEF NoneLost
  <2>1. CASE \E i \in 1 .. Len(o) : o[i] = e
    <3>1. PICK i \in 1 .. l : o[i] = e
      BY <2>1 DEF l
    <3>2. i \in 1 .. Len(p)
      BY <1>6, <1>7
    <3> QED BY <1>7, <3>1, <3>2, Zenon
  <2>2. CASE \E i \in 1 .. Len(r) : r[i].at = StartOf(s, e)
    <3>1. PICK i \in 1 .. Len(r) : r[i].at = StartOf(s, e)
      BY <2>2
    <3>2. CASE i \in 1 .. t
      <4>1. e = n
        BY <1>3, <1>5, <3>1, <3>2, Zenon DEF Whole
      <4>2. l + 1 \in 1 .. Len(p)
        BY <1>6, <1>7
      <4> QED BY <1>7, <4>1, <4>2, Zenon
    <3>3. CASE i \notin 1 .. t
      <4>1. i - t \in 1 .. Len(q) /\ (i - t) + t = i
        BY <1>1, <1>2, <3>3
      <4>2. q[i - t] = r[i]
        BY <1>1, <4>1, Zenon
      <4> QED BY <3>1, <4>1, <4>2, Zenon
    <3> QED BY <3>2, <3>3
  <2> QED BY <1>12, <2>1, <2>2, Zenon DEF NoneLost
<1> QED BY <1>3, <1>5, <1>11, <1>12, Zenon DEF n, p

\* An undamaged frame arrives in one piece.
LEMMA InOnePiece ==
  ASSUME NEW s \in Seq(Seq(Nat)), NEW hurts, NEW lost \in SUBSET hurts, NEW a,
         ArrivedOf(a, Line(s), lost, hurts \ lost, Len(Line(s)))
  PROVE  Unbroken(s, hurts, a)
<1> SUFFICES \A n \in Whole(s, hurts), i \in 1 .. Len(a) : a[i].at = StartOf(s, n) =>
               \A j \in 1 .. Len(s[n]) + 6 :
                 /\ i + j - 1 \in 1 .. Len(a)
                 /\ a[i + j - 1].at = StartOf(s, n) + j - 1
                 /\ a[i + j - 1].is = build_frame(n, s[n])[j]
  BY Zenon DEF Unbroken
<1> TAKE n \in Whole(s, hurts), i \in 1 .. Len(a)
<1> HAVE a[i].at = StartOf(s, n)
<1> TAKE j \in 1 .. Len(s[n]) + 6
<1> DEFINE line == Line(s)
           L == Len(line)
           st == StartOf(s, n)
           l == Len(s[n])
           K == l + 5
           Here(d) == i + d \in 1 .. Len(a) /\ a[i + d].at = st + d
           T == {d \in Nat : d <= K => Here(d)}
<1>1. n \in 1 .. Len(s) /\ Span(s, n) \cap hurts = {}
  BY DEF Whole
<1>2. /\ L \in Nat /\ st \in Nat \ {0} /\ Len(s[n]) \in Nat /\ K \in Nat
      /\ st + 5 + Len(s[n]) \in 1 .. L
      /\ \A k \in 1 .. Len(s[n]) + 6 : line[st + k - 1] = build_frame(n, s[n])[k]
  <2>1. st \in Nat \ {0} /\ Len(s[n]) \in Nat
    BY <1>1, Starts
  <2>2. /\ st + 5 + Len(s[n]) \in 1 .. L
        /\ \A k \in 1 .. Len(s[n]) + 6 : line[st + k - 1] = build_frame(n, s[n])[k]
    BY <1>1, OnTheLine, Zenon
  <2>3. L \in Nat
    <3>1. Len(s) \in Nat /\ Len(s) \in 0 .. Len(s)
      OBVIOUS
    <3>2. line \in Seq(Nat)
      BY <3>1, LinesAre, Zenon DEF Line
    <3> HIDE DEF line
    <3> QED BY <3>2
  <2> HIDE DEF L
  <2> QED BY <2>1, <2>2, <2>3
<1>3. /\ a \in Seq(Sym)
      /\ \A k \in 1 .. Len(a) :
           /\ a[k].at \in 1 .. L /\ a[k].at \notin lost
           /\ a[k].at \notin hurts \ lost => a[k].is = line[a[k].at]
      /\ \A k, m \in 1 .. Len(a) : k < m => a[k].at < a[m].at
      /\ \A q \in 1 .. L : q \in lost \/ \E k \in 1 .. Len(a) : a[k].at = q
  BY Zenon DEF ArrivedOf
<1>4. Len(a) \in Nat /\ i \in Nat
  BY <1>3
<1>5. ASSUME NEW d \in Nat, d <= K PROVE st + d \in 1 .. L /\ st + d \notin hurts
  <2>1. Span(s, n) = st .. st + 5 + l
    BY Zenon DEF Span, HEADER_LEN
  <2>2. L \in Nat /\ l \in Nat /\ st \in Nat \ {0} /\ st + 5 + l \in 1 .. L /\ d <= l + 5
    BY <1>2, <1>5, Zenon
  <2> HIDE DEF st, K, L, l
  <2>3. st + d \in st .. st + 5 + l /\ st + d \in 1 .. L
    <3>1. st + d \in Nat /\ st <= st + d /\ st + d <= st + 5 + l /\ 1 <= st + d
      BY <2>2
    <3>2. st + d \in st .. st + 5 + l
      BY <2>2, <3>1
    <3>3. st + d <= L /\ L \in Nat
      BY <2>2, <3>1
    <3>4. st + d \in 1 .. L
      BY <3>1, <3>3
    <3> QED BY <3>2, <3>4
  <2> QED BY <1>1, <2>1, <2>3, Zenon
<1> HIDE DEF st, K, L, line
<1>6. \A d \in Nat : d \in T => d + 1 \in T
  <2> SUFFICES ASSUME NEW d \in Nat, d \in T, d + 1 <= K PROVE Here(d + 1)
    <3>1. \A d \in Nat : d + 1 \in Nat
      OBVIOUS
    <3> QED BY <3>1, Zenon
  <2>1. d <= K /\ d + 1 \in Nat
    BY <1>2
  <2>2. i + d \in 1 .. Len(a) /\ a[i + d].at = st + d
    BY <2>1
  <2>3. PICK k \in 1 .. Len(a) : a[k].at = st + (d + 1)
    BY <1>3, <1>5, <2>1, Zenon
  <2>4. i + d < k
    <3>1. i + d = k \/ k < i + d \/ i + d < k
      BY <2>2
    <3>2. st + d < st + (d + 1)
      BY <1>2
    <3>3. CASE k < i + d
      <4>1. st + (d + 1) < st + d
        BY <1>3, <2>2, <2>3, <3>3, Zenon
      <4> QED BY <1>2, <3>2, <4>1
    <3>4. CASE i + d = k
      BY <1>2, <2>2, <2>3, <3>4
    <3> QED BY <3>1, <3>3, <3>4
  <2>5. CASE i + (d + 1) = k
    <3>1. i + (d + 1) \in 1 .. Len(a)
      BY <2>3, <2>5
    <3>2. a[i + (d + 1)].at = st + (d + 1)
      BY <2>3, <2>5, Zenon
    <3> QED BY <3>1, <3>2, Zenon
  <2>6. CASE i + (d + 1) # k
    <3>1. i + (d + 1) \in 1 .. Len(a) /\ i + d < i + (d + 1) /\ i + (d + 1) < k
      BY <1>4, <2>2, <2>4, <2>6
    <3>2. st + d < a[i + (d + 1)].at /\ a[i + (d + 1)].at < st + (d + 1)
      BY <1>3, <2>2, <2>3, <3>1, Zenon
    <3>3. a[i + (d + 1)].at \in 1 .. L
      BY <1>3, <3>1, Zenon
    <3>4. \A m \in Nat, p \in 1 .. L : ~(st + m < p /\ p < st + (m + 1))
      BY <1>2, SMTT(30)
    <3> QED BY <1>2, <3>2, <3>3, <3>4, ZenonT(30)
  <2> QED BY <2>5, <2>6
<1>7. 0 \in T
  <2>1. i + 0 = i /\ st + 0 = st
    BY <1>2, <1>4, SMTT(30)
  <2> QED BY <2>1, Zenon DEF st
<1>8. Nat \subseteq T
  <2> HIDE DEF T
  <2> QED BY <1>6, <1>7, Induction
<1>9. /\ j - 1 \in Nat /\ j - 1 <= K /\ i + (j - 1) = i + j - 1 /\ st + (j - 1) = st + j - 1
      /\ j \in 1 .. Len(s[n]) + 6
  BY <1>2, <1>4 DEF K
<1>10. i + j - 1 \in 1 .. Len(a) /\ a[i + j - 1].at = st + j - 1
  <2>1. Here(j - 1)
    BY <1>8, <1>9, Zenon
  <2> HIDE DEF T
  <2> QED BY <1>9, <2>1
<1>11. st + j - 1 \notin hurts
  BY <1>5, <1>9, Zenon
<1>12. a[i + j - 1].is = line[st + j - 1]
  BY <1>3, <1>10, <1>11, Zenon
<1> QED BY <1>2, <1>9, <1>10, <1>12, Zenon DEF st

\* What has arrived when nothing has been read.
LEMMA AtFirst ==
  ASSUME LineInit
  PROVE  /\ sent \in Seq(Seq(Nat)) /\ sent \in Sends
         /\ Rest(sent, hurt, wire) /\ NoneLost(sent, hurt, wire, <<>>)
         /\ Present(sent, hurt, wire)
<1> DEFINE line == Line(sent)
           L == Len(line)
<1>1. PICK lost \in SUBSET hurt, b \in Byte :
        /\ \A p \in hurt \ lost : line[p] # b
        /\ wire = Arrives(sent, lost, hurt \ lost, b)
  BY Zenon DEF LineInit
<1>2. sent \in Sends /\ sent \in Seq(Seq(Nat)) /\ hurt \in Hurts(sent) /\ b \in Nat
  <2>1. sent \in Sends /\ hurt \in Hurts(sent)
    BY Zenon DEF LineInit
  <2>2. Sends \subseteq Seq(Seq(Nat)) /\ Byte \subseteq 0 .. 9
    BY LineAssumption, Zenon
  <2>3. b \in Nat
    BY <2>2
  <2> QED BY <2>1, <2>2, <2>3, Zenon
<1>3. L \in Nat /\ \A p \in 1 .. L : line[p] \in Nat
  <2>1. Len(sent) \in Nat /\ Len(sent) \in 0 .. Len(sent)
    BY <1>2
  <2>2. line \in Seq(Nat)
    BY <1>2, <2>1, LinesAre, Zenon DEF Line
  <2> HIDE DEF line
  <2> QED BY <2>2
<1>4. ArrivedOf(wire, line, lost, hurt \ lost, L)
  <2> HIDE DEF L
  <2>1. Len(Line(sent)) = L
    BY DEF L
  <2>2. ArrivedOf(Arrives(sent, lost, hurt \ lost, b), Line(sent), lost, hurt \ lost, L)
    BY <1>2, <1>3, <2>1, ArrivesIs
  <2> QED BY <1>1, <2>2
<1>5. wire \in Seq(Sym) /\ DOMAIN wire = 1 .. Len(wire)
      /\ \A i, j \in 1 .. Len(wire) : i < j => wire[i].at < wire[j].at
  <2>1. wire \in Seq(Sym) /\ \A i, j \in 1 .. Len(wire) : i < j => wire[i].at < wire[j].at
    BY <1>4, Zenon DEF ArrivedOf
  <2> QED BY <2>1
<1>6. Unbroken(sent, hurt, wire)
  <2>1. ArrivedOf(wire, Line(sent), lost, hurt \ lost, Len(Line(sent)))
    BY <1>4
  <2> HIDE DEF L, line
  <2> QED BY <1>2, <2>1, InOnePiece
<1>7. Telling(sent, wire)
  <2> DEFINE Tells(x, a) ==
               \A i, j \in DOMAIN a :
                 i < j /\ Passes(Symbols(SubSeq(a, i, j))) =>
                   \E n \in DOMAIN x :
                     /\ Symbols(SubSeq(a, i, j)) = build_frame(n, x[n])
                     /\ a[j].at = StartOf(x, n) + HEADER_LEN + Len(x[n])
                     /\ \A k \in i .. j, m \in DOMAIN x : a[k].at = StartOf(x, m) => m = n
             Told(x, hurts, gone, c) ==
               (\A p \in hurts \ gone : Line(x)[p] # c) => Tells(x, Arrives(x, gone, hurts \ gone, c))
  <2>1. \A x \in Sends : \A hurts \in Hurts(x) : \A gone \in SUBSET hurts, c \in Byte :
          Told(x, hurts, gone, c)
    BY CrcAssumption
  <2>2. Told(sent, hurt, lost, b)
    <3> HIDE DEF Told
    <3> QED BY <1>2, <2>1
  <2>3. Tells(sent, wire)
    <3> HIDE DEF Tells
    <3> QED BY <1>1, <2>2
  <2>4. \A i \in 1 .. Len(wire) : i \in DOMAIN wire
    BY <1>5, Zenon
  <2> QED BY <2>3, <2>4, Zenon DEF Telling, Window, EndOf
<1>8. NoneLost(sent, hurt, wire, <<>>)
  <2> SUFFICES ASSUME NEW n \in Whole(sent, hurt)
               PROVE  \E i \in 1 .. Len(wire) : wire[i].at = StartOf(sent, n)
    BY Zenon DEF NoneLost
  <2>1. n \in 1 .. Len(sent) /\ Span(sent, n) \cap hurt = {}
    BY <1>2 DEF Whole
  <2>2. StartOf(sent, n) \in Nat \ {0} /\ Len(sent[n]) \in Nat
    BY <1>2, <2>1, Starts
  <2>3. StartOf(sent, n) + 5 + Len(sent[n]) \in 1 .. L
    BY <1>2, <2>1, OnTheLine, Zenon
  <2>4. StartOf(sent, n) \in 1 .. L /\ StartOf(sent, n) \in Span(sent, n)
    <3> HIDE DEF L
    <3> QED BY <1>3, <2>2, <2>3 DEF Span, HEADER_LEN
  <2> QED BY <1>4, <2>1, <2>4, Zenon DEF ArrivedOf
<1>9. Present(sent, hurt, wire)
  <2>1. lost \subseteq hurt
    BY <1>1
  <2>2. \A q : q \notin hurt => q \notin lost /\ q \notin hurt \ lost
    BY <2>1
  <2> HIDE DEF L, line
  <2>3. Len(Line(sent)) = L /\ Line(sent) = line
    BY DEF L, line
  <2> QED BY <1>4, <2>2, <2>3, Zenon DEF ArrivedOf, Present
<1> QED BY <1>2, <1>5, <1>6, <1>7, <1>8, <1>9, Zenon DEF Rest

\* A window of the first of two sequences, and a window without its last symbol.
LEMMA WindowOfFirst ==
  ASSUME NEW b \in Seq(Sym), NEW w \in Seq(Sym), NEW j \in 1 .. Len(b)
  PROVE  /\ b \o w \in Seq(Sym) /\ Len(b \o w) = Len(b) + Len(w)
         /\ \A i \in 1 .. Len(b) : (b \o w)[i] = b[i]
         /\ Window(b \o w, 1, j) = Window(b, 1, j)
<1> DEFINE r == b \o w
           x == Window(r, 1, j)
           y == Window(b, 1, j)
<1>1. /\ r \in Seq(Sym) /\ Len(r) = Len(b) + Len(w)
      /\ \A i \in 1 .. Len(b) : r[i] = b[i]
  BY ConcatProperties
<1>2. /\ 1 \in 1 .. Len(r) /\ j \in 1 .. Len(r) /\ 1 \in 1 .. Len(b) /\ j - 1 + 1 = j /\ j \in Nat
      /\ \A k \in 1 .. j : k \in 1 .. Len(b) /\ 1 + k - 1 = k
  BY <1>1
<1> HIDE DEF r
<1>3. x \in Seq(Nat) /\ Len(x) = j /\ \A k \in 1 .. j : x[k] = r[k].is
  <2>1. /\ x \in Seq(Nat) /\ Len(x) = j - 1 + 1
        /\ \A k \in 1 .. j - 1 + 1 : x[k] = r[1 + k - 1].is
    BY <1>1, <1>2, WindowIs
  <2> HIDE DEF x
  <2> QED BY <1>2, <2>1
<1>4. y \in Seq(Nat) /\ Len(y) = j /\ \A k \in 1 .. j : y[k] = b[k].is
  <2>1. /\ y \in Seq(Nat) /\ Len(y) = j - 1 + 1
        /\ \A k \in 1 .. j - 1 + 1 : y[k] = b[1 + k - 1].is
    BY <1>2, WindowIs
  <2> HIDE DEF y
  <2> QED BY <1>2, <2>1
<1>5. x = y
  <2> HIDE DEF x, y
  <2>1. \A k \in 1 .. j : x[k] = y[k]
    BY <1>1, <1>2, <1>3, <1>4, Zenon
  <2> QED BY <1>3, <1>4, <2>1, SeqEqual
<1> QED BY <1>1, <1>5 DEF r

\* A window without its last symbol.
LEMMA WindowLess ==
  ASSUME NEW r \in Seq(Sym), NEW t \in 2 .. Len(r)
  PROVE  SubSeq(Window(r, 1, t), 1, t - 1) = Window(r, 1, t - 1)
<1> DEFINE x == Window(r, 1, t)
           y == Window(r, 1, t - 1)
           z == SubSeq(x, 1, t - 1)
<1>1. /\ 1 \in 1 .. Len(r) /\ t \in 1 .. Len(r) /\ t - 1 \in 1 .. Len(r) /\ t \in Nat /\ t - 1 \in Nat
      /\ t - 1 + 1 = t /\ t - 1 - 1 + 1 = t - 1
      /\ \A k \in 1 .. t - 1 : k \in 1 .. t /\ 1 + k - 1 = k
  OBVIOUS
<1>2. x \in Seq(Nat) /\ Len(x) = t /\ \A k \in 1 .. t : x[k] = r[1 + k - 1].is
  <2>1. /\ x \in Seq(Nat) /\ Len(x) = t - 1 + 1
        /\ \A k \in 1 .. t - 1 + 1 : x[k] = r[1 + k - 1].is
    BY <1>1, WindowIs
  <2> HIDE DEF x
  <2> QED BY <1>1, <2>1
<1>3. y \in Seq(Nat) /\ Len(y) = t - 1 /\ \A k \in 1 .. t - 1 : y[k] = r[1 + k - 1].is
  <2>1. /\ y \in Seq(Nat) /\ Len(y) = t - 1 - 1 + 1
        /\ \A k \in 1 .. t - 1 - 1 + 1 : y[k] = r[1 + k - 1].is
    BY <1>1, WindowIs
  <2> HIDE DEF y
  <2> QED BY <1>1, <2>1
<1> HIDE DEF x, y
<1>4. z \in Seq(Nat) /\ Len(z) = t - 1 /\ \A k \in 1 .. t - 1 : z[k] = x[k]
  <2>1. \A k \in 1 .. t - 1 : x[k] \in Nat
    BY <1>1, <1>2
  <2>2. /\ z \in Seq(Nat) /\ Len(z) = IF 1 <= t - 1 THEN (t - 1) - 1 + 1 ELSE 0
        /\ \A k \in 1 .. (t - 1) - 1 + 1 : z[k] = x[1 + k - 1]
    BY <1>1, <2>1, SubSeqProperties
  <2>3. 1 <= t - 1
    OBVIOUS
  <2> HIDE DEF z
  <2> QED BY <1>1, <2>2, <2>3
<1>5. \A k \in 1 .. t - 1 : z[k] = y[k]
  BY <1>1, <1>2, <1>3, <1>4, Zenon
<1>6. z = y
  <2> HIDE DEF z
  <2> QED BY <1>3, <1>4, <1>5, SeqEqual
<1> QED BY <1>6 DEF x, y

\* Where the magic stands.
LEMMA MagicIs ==
  ASSUME NEW b \in Seq(Sym), NEW i \in 1 .. Len(b) - 1
  PROVE  IsMagicAt(b, i) <=> b[i].is = 9 /\ b[i + 1].is = 8
<1> DEFINE x == Symbols(b)
           y == SubSeq(x, i, i + 1)
<1>1. /\ Len(b) \in Nat /\ i \in 1 .. Len(b) /\ i + 1 \in 1 .. Len(b) /\ i \in Int /\ i <= i + 1
      /\ \A k \in 1 .. Len(b) : b[k].is \in Nat
  <2>1. /\ Len(b) \in Nat /\ i \in 1 .. Len(b) /\ i + 1 \in 1 .. Len(b) /\ i \in Int
        /\ i <= i + 1 /\ \A k \in 1 .. Len(b) : b[k] \in Sym
    OBVIOUS
  <2> QED BY <2>1 DEF Sym
<1>2. x = [k \in 1 .. Len(b) |-> b[k].is]
  BY DEF Symbols
<1>3. x \in Seq(Nat) /\ Len(x) = Len(b) /\ \A k \in 1 .. Len(b) : x[k] = b[k].is /\ x[k] \in Nat
  <2> HIDE DEF x
  <2> QED BY <1>1, <1>2
<1> HIDE DEF x
<1>4. Len(y) = 2 /\ y[1] = b[i].is /\ y[2] = b[i + 1].is /\ y \in Seq(Nat)
  <2>1. \A k \in i .. i + 1 : x[k] \in Nat
    BY <1>1, <1>3
  <2>2. /\ y \in Seq(Nat) /\ Len(y) = IF i <= i + 1 THEN (i + 1) - i + 1 ELSE 0
        /\ \A k \in 1 .. (i + 1) - i + 1 : y[k] = x[i + k - 1]
    BY <1>1, <2>1, SubSeqProperties
  <2> HIDE DEF y
  <2>3. (i + 1) - i + 1 = 2 /\ i + 1 - 1 = i /\ i + 2 - 1 = i + 1 /\ 1 \in 1 .. 2 /\ 2 \in 1 .. 2
    OBVIOUS
  <2> QED BY <1>1, <1>3, <2>2, <2>3
<1> HIDE DEF y
<1>5. y = <<9, 8>> <=> y[1] = 9 /\ y[2] = 8
  BY <1>4
<1> QED BY <1>4, <1>5, Zenon DEF IsMagicAt, Magic, x, y

\* What is left of a frame's start: behind it the frame, as build_frame made it.
LEMMA StartsWhole ==
  ASSUME NEW s \in Seq(Seq(Nat)), \A n \in DOMAIN s : Len(s[n]) <= MAX_PAYLOAD,
         NEW h, NEW r \in Seq(Sym), Unbroken(s, h, r),
         NEW n \in Whole(s, h), NEW i \in 1 .. Len(r), r[i].at = StartOf(s, n)
  PROVE  /\ r[i].is = 9 /\ r[i + 1].is = 8 /\ r[i + 4].is = Len(s[n])
         /\ Len(s[n]) \in Nat /\ Len(s[n]) <= MAX_PAYLOAD
         /\ i + Len(s[n]) + 5 \in 1 .. Len(r)
         /\ r[i + Len(s[n]) + 5].is = Crc(Window(r, i, i + Len(s[n]) + 4))
<1> DEFINE l == Len(s[n])
           f == build_frame(n, s[n])
           x == Window(r, i, i + l + 4)
           y == SubSeq(f, 1, l + 5)
<1>1. n \in 1 .. Len(s) /\ n \in DOMAIN s /\ n \in Nat /\ s[n] \in Seq(Nat)
  BY DEF Whole
<1>2. /\ f \in Seq(Nat) /\ Len(f) = l + 6 /\ l \in Nat
      /\ f[1] = 9 /\ f[2] = 8 /\ f[5] = l /\ f[l + 6] = Crc(y)
  BY <1>1, FrameIs
<1>3. l <= MAX_PAYLOAD
  BY <1>1
<1>4. \A j \in 1 .. l + 6 : i + j - 1 \in 1 .. Len(r) /\ r[i + j - 1].is = f[j]
  BY Zenon DEF Unbroken
<1> HIDE DEF l, f
<1>5. /\ i \in Nat /\ Len(r) \in Nat /\ i + 1 - 1 = i /\ i + 2 - 1 = i + 1 /\ i + 5 - 1 = i + 4
      /\ i + (l + 6) - 1 = i + l + 5
      /\ 1 \in 1 .. l + 6 /\ 2 \in 1 .. l + 6 /\ 5 \in 1 .. l + 6 /\ l + 6 \in 1 .. l + 6
  BY <1>2
<1>6. r[i].is = 9 /\ r[i + 1].is = 8 /\ r[i + 4].is = l /\ r[i + l + 5].is = Crc(y)
  <2>1. r[i + 1 - 1].is = f[1] /\ r[i + 2 - 1].is = f[2] /\ r[i + 5 - 1].is = f[5]
        /\ r[i + (l + 6) - 1].is = f[l + 6]
    BY <1>4, <1>5, Zenon
  <2> QED BY <1>2, <1>5, <2>1
<1>7. i + l + 5 \in 1 .. Len(r)
  <2>1. i + (l + 6) - 1 \in 1 .. Len(r)
    BY <1>4, <1>5, Zenon
  <2> QED BY <1>5, <2>1
<1>8. x = y
  <2>1. /\ i + l + 4 \in i .. Len(r) /\ (i + l + 4) - i + 1 = l + 5 /\ l + 5 \in Nat
        /\ 1 <= l + 5 /\ (l + 5) - 1 + 1 = l + 5
        /\ \A k \in 1 .. l + 5 : k \in 1 .. l + 6 /\ 1 + k - 1 = k
    BY <1>2, <1>5, <1>7
  <2>2. x \in Seq(Nat) /\ Len(x) = l + 5 /\ \A k \in 1 .. l + 5 : x[k] = r[i + k - 1].is
    <3>1. /\ x \in Seq(Nat) /\ Len(x) = (i + l + 4) - i + 1
          /\ \A k \in 1 .. (i + l + 4) - i + 1 : x[k] = r[i + k - 1].is
      BY <2>1, WindowIs
    <3> HIDE DEF x
    <3> QED BY <2>1, <3>1
  <2>3. y \in Seq(Nat) /\ Len(y) = l + 5 /\ \A k \in 1 .. l + 5 : y[k] = f[k]
    <3>1. \A k \in 1 .. l + 5 : f[k] \in Nat
      <4>1. \A k \in 1 .. Len(f) : f[k] \in Nat
        <5>1. f \in Seq(Nat)
          BY <1>2, Zenon
        <5> QED BY <5>1
      <4> QED BY <1>2, <2>1, <4>1, Zenon
    <3>2. /\ y \in Seq(Nat) /\ Len(y) = IF 1 <= l + 5 THEN (l + 5) - 1 + 1 ELSE 0
          /\ \A k \in 1 .. (l + 5) - 1 + 1 : y[k] = f[1 + k - 1]
      BY <2>1, <3>1, SubSeqProperties
    <3> HIDE DEF y
    <3> QED BY <2>1, <3>2
  <2> HIDE DEF x, y
  <2>4. \A k \in 1 .. l + 5 : x[k] = y[k]
    BY <1>4, <2>1, <2>2, <2>3, Zenon
  <2> QED BY <2>2, <2>3, <2>4, SeqEqual
<1>9. Crc(x) = Crc(y)
  BY <1>8, Zenon
<1> HIDE DEF x, y
<1>10. /\ r[i].is = 9 /\ r[i + 1].is = 8 /\ r[i + 4].is = l /\ l \in Nat /\ l <= MAX_PAYLOAD
       /\ i + l + 5 \in 1 .. Len(r) /\ r[i + l + 5].is = Crc(x)
  BY <1>2, <1>3, <1>6, <1>7, <1>9, Zenon
<1> QED BY <1>10, Zenon DEF l, x

\* What is dropped from the head of the buffer is dropped from what is left.
LEMMA BehindConcat ==
  ASSUME NEW b \in Seq(Sym), NEW w \in Seq(Sym), NEW d \in 0 .. Len(b)
  PROVE  /\ SubSeq(b, d + 1, Len(b)) \in Seq(Sym)
         /\ Behind(SubSeq(b, d + 1, Len(b)) \o w, b \o w, d)
<1> DEFINE c == SubSeq(b, d + 1, Len(b))
           r == b \o w
           q == c \o w
           l == Len(b)
<1>1. Len(b) \in Nat /\ Len(w) \in Nat /\ d \in Nat /\ l \in Nat /\ d <= l
      /\ \A k \in d + 1 .. l : b[k] \in Sym
  OBVIOUS
<1>2. c \in Seq(Sym) /\ Len(c) = l - d /\ \A k \in 1 .. l - d : c[k] = b[k + d]
  <2>1. /\ c \in Seq(Sym) /\ Len(c) = IF d + 1 <= l THEN l - (d + 1) + 1 ELSE 0
        /\ \A k \in 1 .. l - (d + 1) + 1 : c[k] = b[(d + 1) + k - 1]
    BY <1>1, SubSeqProperties
  <2> HIDE DEF l
  <2>2. (IF d + 1 <= l THEN l - (d + 1) + 1 ELSE 0) = l - d /\ l - (d + 1) + 1 = l - d
        /\ \A k \in 1 .. l - d : (d + 1) + k - 1 = k + d
    BY <1>1
  <2> QED BY <2>1, <2>2
<1>3. /\ r \in Seq(Sym) /\ Len(r) = l + Len(w)
      /\ \A k \in 1 .. l + Len(w) : r[k] = IF k <= l THEN b[k] ELSE w[k - l]
  BY ConcatProperties
<1>4. /\ q \in Seq(Sym) /\ Len(q) = Len(c) + Len(w)
      /\ \A k \in 1 .. Len(c) + Len(w) : q[k] = IF k <= Len(c) THEN c[k] ELSE w[k - Len(c)]
  BY <1>2, ConcatProperties
<1> HIDE DEF c, r, q, l
<1>5. ASSUME NEW k \in 1 .. Len(q) PROVE q[k] = r[k + d]
  <2>1. Len(q) = l - d + Len(w) /\ k \in Nat /\ 1 <= k /\ k <= l - d + Len(w)
    BY <1>1, <1>2, <1>4
  <2>2. k \in 1 .. Len(c) + Len(w)
    BY <1>4
  <2>3. k + d \in 1 .. l + Len(w)
    BY <1>1, <2>1
  <2>4. CASE k <= l - d
    <3>1. k \in 1 .. l - d /\ k + d <= l /\ k <= Len(c)
      BY <1>1, <1>2, <2>1, <2>4
    <3>2. q[k] = c[k] /\ r[k + d] = b[k + d]
      BY <1>3, <1>4, <2>2, <2>3, <3>1
    <3> QED BY <1>2, <3>1, <3>2
  <2>5. CASE ~(k <= l - d)
    <3>1. ~(k + d <= l) /\ ~(k <= Len(c)) /\ k - Len(c) = (k + d) - l
      <4>1. l \in Nat /\ d \in Nat /\ k \in Nat
        BY <1>1, <2>1
      <4>2. Len(c) = l - d
        BY <1>2
      <4>3. \A e, f, g \in Nat : ~(g <= e - f) => ~(g + f <= e) /\ g - (e - f) = (g + f) - e
        OBVIOUS
      <4>4. ~(k + d <= l) /\ k - (l - d) = (k + d) - l
        BY <2>5, <4>1, <4>3, Zenon
      <4> QED BY <2>5, <4>2, <4>4, Zenon
    <3>2. q[k] = w[k - Len(c)] /\ r[k + d] = w[(k + d) - l]
      BY <1>3, <1>4, <2>2, <2>3, <3>1
    <3> QED BY <3>1, <3>2
  <2> QED BY <2>4, <2>5
<1>6. d \in 0 .. Len(r) /\ Len(q) = Len(r) - d
  BY <1>1, <1>2, <1>3, <1>4
<1>7. Behind(q, r, d)
  BY <1>3, <1>4, <1>5, <1>6, Zenon DEF Behind
<1> QED BY <1>2, <1>7, Zenon DEF c, q, r, l

-----------------------------------------------------------------------------
\* The host's reader.

\* The host's reader: b is what it holds, w what is on its way, o what it returned.
HostState(s, h, b, w, o) ==
  /\ s \in Sends
  /\ b \in Seq(Sym) /\ w \in Seq(Sym)
  /\ Rest(s, h, b \o w) /\ Taken(s, b \o w, o) /\ NoneLost(s, h, b \o w, o)
  /\ \A i \in 1 .. Len(o) : o[i] # 0

HostInv == receiver = "host" => HostState(sent, hurt, buf, wire, out)

\* What is sent, by the assumption on it.
LEMMA SendsAre ==
  ASSUME NEW s \in Sends
  PROVE  /\ s \in Seq(Seq(Nat)) /\ MAX_PAYLOAD \in Nat
         /\ \A n \in DOMAIN s : Len(s[n]) \in Nat /\ Len(s[n]) <= MAX_PAYLOAD
<1>1. s \in Seq(Seq(Nat)) /\ MAX_PAYLOAD \in Nat /\ \A n \in DOMAIN s : Len(s[n]) <= MAX_PAYLOAD
  BY LineAssumption, Zenon
<1>2. \A n \in DOMAIN s : Len(s[n]) \in Nat
  BY <1>1
<1> QED BY <1>1, <1>2, Zenon

\* Symbols may be dropped from the buffer if no undamaged frame starts among them.
LEMMA HostDrops ==
  ASSUME NEW s, NEW h, NEW b, NEW w, NEW o, HostState(s, h, b, w, o),
         NEW d \in 0 .. Len(b), NEW c, c = SubSeq(b, d + 1, Len(b)),
         \A n \in Whole(s, h), i \in 1 .. d : (b \o w)[i].at # StartOf(s, n)
  PROVE  HostState(s, h, c, w, o)
<1>1. /\ b \in Seq(Sym) /\ w \in Seq(Sym) /\ s \in Sends
      /\ Rest(s, h, b \o w) /\ Taken(s, b \o w, o) /\ NoneLost(s, h, b \o w, o)
      /\ \A i \in 1 .. Len(o) : o[i] # 0
  BY Zenon DEF HostState
<1>2. c \in Seq(Sym) /\ Behind(c \o w, b \o w, d)
  <2>1. b \in Seq(Sym) /\ w \in Seq(Sym) /\ d \in 0 .. Len(b) /\ c = SubSeq(b, d + 1, Len(b))
    BY <1>1
  <2> QED BY ONLY <2>1, BehindConcat
<1>3. \A n \in DOMAIN s : Len(s[n]) \in Nat
  BY <1>1, SendsAre, Zenon
<1>4. Rest(s, h, c \o w) /\ Taken(s, c \o w, o)
  BY <1>1, <1>2, <1>3, RestBehind, TakenBehind, Zenon
<1>5. NoneLost(s, h, c \o w, o)
  BY <1>1, <1>2, NoneLostBehind, Zenon
<1> QED BY <1>1, <1>2, <1>4, <1>5, Zenon DEF HostState

\* A whole frame at i of what is left, when the buffer reaches so far.
LEMMA WholeInBuffer ==
  ASSUME NEW s, NEW h, NEW b, NEW w, NEW o, HostState(s, h, b, w, o),
         NEW n \in Whole(s, h), NEW i \in 1 .. Len(b), (b \o w)[i].at = StartOf(s, n)
  PROVE  /\ i < Len(b) => i \in MagicAt(b)
         /\ i = 1 /\ 5 \in 1 .. Len(b) =>
              /\ b[5].is \in Nat /\ b[5].is <= MAX_PAYLOAD
              /\ b[5].is + 6 \in 1 .. Len(b) =>
                   b[b[5].is + 6].is = Crc(Symbols(SubSeq(b, 1, (b[5].is + 6) - 1)))
<1> DEFINE r == b \o w
           l == Len(s[n])
<1>1. /\ b \in Seq(Sym) /\ w \in Seq(Sym) /\ s \in Sends /\ Unbroken(s, h, b \o w)
  BY Zenon DEF HostState, Rest
<1>2. /\ r \in Seq(Sym) /\ Len(r) = Len(b) + Len(w) /\ \A k \in 1 .. Len(b) : r[k] = b[k]
  BY <1>1, ConcatProperties
<1>3. Len(b) \in Nat /\ Len(w) \in Nat /\ i \in 1 .. Len(r) /\ i \in Nat /\ i >= 1
  BY <1>1, <1>2
<1>4. s \in Seq(Seq(Nat)) /\ \A m \in DOMAIN s : Len(s[m]) <= MAX_PAYLOAD
  BY <1>1, SendsAre, Zenon
<1>5. Unbroken(s, h, r) /\ r[i].at = StartOf(s, n)
  BY <1>1
<1> HIDE DEF r
<1>6. /\ r[i].is = 9 /\ r[i + 1].is = 8 /\ r[i + 4].is = l
      /\ l \in Nat /\ l <= MAX_PAYLOAD
      /\ i + l + 5 \in 1 .. Len(r)
      /\ r[i + l + 5].is = Crc(Window(r, i, i + l + 4))
  BY <1>2, <1>3, <1>4, <1>5, StartsWhole, ZenonT(60)
<1> HIDE DEF l
<1>7. ASSUME i < Len(b) PROVE i \in MagicAt(b)
  <2>1. i \in 1 .. Len(b) - 1 /\ i + 1 \in 1 .. Len(b)
    BY <1>3, <1>7
  <2>2. b[i].is = 9 /\ b[i + 1].is = 8
    BY <1>2, <1>6, <2>1, Zenon
  <2>3. IsMagicAt(b, i)
    BY <1>1, <2>1, <2>2, MagicIs
  <2> QED BY <2>1, <2>3, Zenon DEF MagicAt
<1>8. ASSUME i = 1, 5 \in 1 .. Len(b)
      PROVE  /\ b[5].is = l
             /\ l + 6 \in 1 .. Len(b) => b[l + 6].is = Crc(Symbols(SubSeq(b, 1, (l + 6) - 1)))
  <2>1. 1 + 4 = 5 /\ 1 + l + 5 = l + 6 /\ 1 + l + 4 = l + 5 /\ (l + 6) - 1 = l + 5
    BY <1>6
  <2>2. b[5].is = l
    BY <1>2, <1>6, <1>8, <2>1, Zenon
  <2>3. ASSUME l + 6 \in 1 .. Len(b) PROVE b[l + 6].is = Crc(Window(b, 1, l + 5))
    <3>1. l + 5 \in 1 .. Len(b)
      <4>1. \A x, y \in Nat : x + 6 \in 1 .. y => x + 5 \in 1 .. y
        OBVIOUS
      <4> QED BY <1>3, <1>6, <2>3, <4>1, Zenon
    <3>2. Window(b \o w, 1, l + 5) = Window(b, 1, l + 5)
      BY <1>1, <3>1, WindowOfFirst
    <3>3. r[l + 6].is = Crc(Window(r, 1, l + 5))
      BY <1>6, <1>8, <2>1, Zenon
    <3> QED BY <1>2, <2>3, <3>2, <3>3, Zenon DEF r
  <2> QED BY <2>1, <2>2, <2>3, Zenon DEF Window
<1> QED BY <1>6, <1>7, <1>8, Zenon

\* The first place of several, and that there is one.
LEMMA FirstIs ==
  ASSUME NEW b \in Seq(Sym), MagicAt(b) # {}
  PROVE  /\ First(MagicAt(b)) \in MagicAt(b) /\ First(MagicAt(b)) \in 1 .. Len(b) - 1
         /\ \A j \in MagicAt(b) : First(MagicAt(b)) <= j
<1> DEFINE S == MagicAt(b)
<1>1. S \subseteq 1 .. Len(b) - 1 /\ S \subseteq Nat
  BY DEF MagicAt
<1>2. \E i \in S : \A j \in S : i <= j
  <2> HIDE DEF S
  <2> QED BY <1>1, Least DEF S
<1> HIDE DEF S
<1>3. First(S) \in S /\ \A j \in S : First(S) <= j
  BY <1>2, Zenon DEF First
<1> QED BY <1>1, <1>3 DEF S

\* Dropping what holds no magic, but for the last symbol, drops no frame's start.
LEMMA DropTextKeeps ==
  ASSUME HostState(sent, hurt, buf, wire, out), DropText
  PROVE  HostState(sent, hurt, buf', wire, out)
<1>1. buf \in Seq(Sym) /\ MagicAt(buf) = {} /\ Len(buf) >= 2 /\ buf' = Keep(buf)
  BY DEF HostState, DropText, Magic
<1>2. /\ Len(buf) - 1 \in 0 .. Len(buf) /\ Len(buf) - 1 + 1 = Len(buf)
      /\ \A i \in 1 .. Len(buf) - 1 : i \in 1 .. Len(buf) /\ i < Len(buf)
  BY <1>1
<1>3. buf' = SubSeq(buf, (Len(buf) - 1) + 1, Len(buf))
  <2>1. Len(buf) - Len(Magic) + 2 = (Len(buf) - 1) + 1
    BY <1>1 DEF Magic
  <2> QED BY <1>1, <2>1, Zenon DEF Keep
<1>4. ASSUME NEW n \in Whole(sent, hurt), NEW i \in 1 .. Len(buf) - 1,
             (buf \o wire)[i].at = StartOf(sent, n)
      PROVE  FALSE
  <2>1. i \in MagicAt(buf)
    BY <1>2, <1>4, WholeInBuffer
  <2> QED BY <1>1, <2>1
<1> QED BY <1>2, <1>3, <1>4, HostDrops

\* What stands before the first magic holds no frame's start.
LEMMA DropBeforeKeeps ==
  ASSUME HostState(sent, hurt, buf, wire, out), DropBefore
  PROVE  HostState(sent, hurt, buf', wire, out)
<1> DEFINE f == First(MagicAt(buf))
<1>1. buf \in Seq(Sym) /\ MagicAt(buf) # {} /\ f > 1 /\ buf' = SubSeq(buf, f, Len(buf))
  BY DEF HostState, DropBefore
<1>2. f \in 1 .. Len(buf) - 1 /\ \A j \in MagicAt(buf) : f <= j
  BY <1>1, FirstIs
<1> HIDE DEF f
<1>3. /\ f - 1 \in 0 .. Len(buf) /\ (f - 1) + 1 = f
      /\ \A i \in 1 .. f - 1 : i \in 1 .. Len(buf) /\ i < Len(buf) /\ ~(f <= i)
  BY <1>1, <1>2
<1>4. ASSUME NEW n \in Whole(sent, hurt), NEW i \in 1 .. f - 1,
             (buf \o wire)[i].at = StartOf(sent, n)
      PROVE  FALSE
  <2>1. i \in MagicAt(buf)
    BY <1>3, <1>4, WholeInBuffer
  <2> QED BY <1>2, <1>3, <2>1, Zenon
<1>5. buf' = SubSeq(buf, (f - 1) + 1, Len(buf))
  BY <1>1, <1>3
<1> QED BY <1>3, <1>4, <1>5, HostDrops

\* The first symbol may be dropped if no undamaged frame starts with it.
LEMMA DropOneKeeps ==
  ASSUME HostState(sent, hurt, buf, wire, out), 5 \in 1 .. Len(buf), buf' = Tail(buf),
         \A n \in Whole(sent, hurt) : (buf \o wire)[1].at # StartOf(sent, n)
  PROVE  HostState(sent, hurt, buf', wire, out)
<1>1. buf \in Seq(Sym)
  BY DEF HostState
<1>2. buf' = SubSeq(buf, 1 + 1, Len(buf)) /\ 1 \in 0 .. Len(buf)
  BY <1>1
<1>3. \A n \in Whole(sent, hurt), i \in 1 .. 1 : (buf \o wire)[i].at # StartOf(sent, n)
  <2>1. \A i \in 1 .. 1 : i = 1
    OBVIOUS
  <2> QED BY <2>1, Zenon
<1> QED BY <1>2, <1>3, HostDrops

\* What a header that is there says.
LEMMA HeaderIs ==
  ASSUME HostState(sent, hurt, buf, wire, out), Candidate
  PROVE  /\ buf \in Seq(Sym) /\ wire \in Seq(Sym) /\ 5 \in 1 .. Len(buf) /\ 1 \in 1 .. Len(buf)
         /\ PayloadLen \in Nat /\ Total = PayloadLen + 6 /\ Len(buf) \in Nat
         /\ buf[1].is = 9 /\ buf[2].is = 8
<1>1. /\ buf \in Seq(Sym) /\ wire \in Seq(Sym) /\ Len(buf) >= 5 /\ MagicAt(buf) # {}
      /\ First(MagicAt(buf)) = 1
  BY DEF HostState, Candidate, HEADER_LEN
<1>2. 5 \in 1 .. Len(buf) /\ 1 \in 1 .. Len(buf) /\ Len(buf) \in Nat /\ 1 \in 1 .. Len(buf) - 1
  BY <1>1
<1>3. buf[5] \in Sym
  BY <1>1, <1>2
<1>4. PayloadLen \in Nat
  BY <1>3 DEF PayloadLen, Sym
<1>5. Total = PayloadLen + 6
  <2>1. \A x \in Nat : 5 + x + 1 = x + 6
    OBVIOUS
  <2> QED BY <1>4, <2>1, Zenon DEF Total, HEADER_LEN
<1>6. IsMagicAt(buf, 1)
  <2>1. First(MagicAt(buf)) \in MagicAt(buf)
    BY <1>1, FirstIs
  <2> QED BY <1>1, <2>1 DEF MagicAt
<1>7. buf[1].is = 9 /\ buf[1 + 1].is = 8
  BY <1>1, <1>2, <1>6, MagicIs
<1> QED BY <1>1, <1>2, <1>4, <1>5, <1>7

\* A candidate whose length cannot be is no undamaged frame's start.
LEMMA BadLengthKeeps ==
  ASSUME HostState(sent, hurt, buf, wire, out), BadLength
  PROVE  HostState(sent, hurt, buf', wire, out)
<1>1. Candidate /\ TooLong(PayloadLen) /\ buf' = Tail(buf)
  BY Zenon DEF BadLength
<1>2. 5 \in 1 .. Len(buf) /\ 1 \in 1 .. Len(buf) /\ PayloadLen \in Nat
  BY <1>1, HeaderIs
<1>3. ASSUME NEW n \in Whole(sent, hurt), (buf \o wire)[1].at = StartOf(sent, n) PROVE FALSE
  <2>1. buf[5].is <= MAX_PAYLOAD
    BY <1>2, <1>3, WholeInBuffer
  <2>2. PayloadLen <= MAX_PAYLOAD /\ PayloadLen > MAX_PAYLOAD
    BY <1>1, <2>1 DEF PayloadLen, TooLong
  <2> QED BY <1>2, <2>2, LineAssumption
<1> QED BY <1>1, <1>2, <1>3, DropOneKeeps

\* Nor is one whose CRC is wrong.
LEMMA BadCrcKeeps ==
  ASSUME HostState(sent, hurt, buf, wire, out), BadCrc
  PROVE  HostState(sent, hurt, buf', wire, out)
<1>1. Candidate /\ Len(buf) >= Total /\ ~CrcHolds /\ buf' = Tail(buf)
  BY Zenon DEF BadCrc, Complete, Resync
<1>2. /\ 5 \in 1 .. Len(buf) /\ 1 \in 1 .. Len(buf) /\ PayloadLen \in Nat /\ Total = PayloadLen + 6
      /\ Len(buf) \in Nat
  BY <1>1, HeaderIs
<1>3. ASSUME NEW n \in Whole(sent, hurt), (buf \o wire)[1].at = StartOf(sent, n) PROVE FALSE
  <2>1. buf[5].is + 6 \in 1 .. Len(buf) =>
          buf[buf[5].is + 6].is = Crc(Symbols(SubSeq(buf, 1, (buf[5].is + 6) - 1)))
    BY <1>2, <1>3, WholeInBuffer
  <2>2. PayloadLen + 6 \in 1 .. Len(buf)
    BY <1>1, <1>2
  <2>3. buf[Total].is = Crc(Symbols(SubSeq(buf, 1, Total - 1)))
    <3> DEFINE Good(t) == buf[t].is = Crc(Symbols(SubSeq(buf, 1, t - 1)))
    <3>1. buf[5].is + 6 \in 1 .. Len(buf) => Good(buf[5].is + 6)
      BY <2>1
    <3>2. Total = buf[5].is + 6 /\ buf[5].is + 6 \in 1 .. Len(buf)
      BY <1>2, <2>2, Zenon DEF PayloadLen
    <3>3. Good(Total)
      <4> HIDE DEF Good
      <4> QED BY <3>1, <3>2
    <3> QED BY <3>3
  <2> QED BY <1>1, <2>3, Zenon DEF CrcHolds
<1> QED BY <1>1, <1>2, <1>3, DropOneKeeps

\* What is returned is the next frame sent, and no other is lost with it.
LEMMA ReturnFrameKeeps ==
  ASSUME HostState(sent, hurt, buf, wire, out), ReturnFrame
  PROVE  HostState(sent, hurt, buf', wire, out')
<1> DEFINE r == buf \o wire
           q == buf' \o wire
           t == Total
           x == Window(r, 1, t)
           n == r[4].is
<1>1. /\ Candidate /\ ~TooLong(PayloadLen) /\ Len(buf) >= Total /\ CrcHolds
      /\ out' = Append(out, buf[4].is) /\ buf' = SubSeq(buf, Total + 1, Len(buf))
  BY Zenon DEF ReturnFrame, Complete
<1>2. /\ buf \in Seq(Sym) /\ wire \in Seq(Sym)
      /\ 5 \in 1 .. Len(buf) /\ 1 \in 1 .. Len(buf) /\ PayloadLen \in Nat /\ t = PayloadLen + 6
      /\ Len(buf) \in Nat /\ buf[1].is = 9 /\ buf[2].is = 8
  BY <1>1, HeaderIs
<1>3. /\ sent \in Sends /\ Rest(sent, hurt, r) /\ Taken(sent, r, out) /\ NoneLost(sent, hurt, r, out)
      /\ \A i \in 1 .. Len(out) : out[i] # 0
  BY Zenon DEF HostState
<1>4. sent \in Seq(Seq(Nat)) /\ \A m \in DOMAIN sent : Len(sent[m]) \in Nat
  BY <1>3, SendsAre, Zenon
<1>5. /\ r \in Seq(Sym) /\ Len(r) = Len(buf) + Len(wire) /\ \A i \in 1 .. Len(buf) : r[i] = buf[i]
  BY <1>2, ConcatProperties
<1> HIDE DEF t
<1>6. /\ t \in 2 .. Len(r) /\ t \in 2 .. Len(buf) /\ t \in 1 .. Len(buf) /\ t \in 0 .. Len(buf)
      /\ t - 1 \in 1 .. Len(buf) /\ t > 5 /\ t \in Nat
  <2>1. Len(wire) \in Nat /\ Len(buf) >= t
    BY <1>1, <1>2 DEF t
  <2> HIDE DEF r
  <2> QED BY <1>2, <1>5, <2>1
<1> HIDE DEF r
<1>7. Passes(x)
  <2>1. x = Window(buf, 1, t)
    BY <1>2, <1>6, WindowOfFirst DEF r
  <2>2. /\ 1 \in 1 .. Len(r) /\ t \in 1 .. Len(r) /\ t - 1 + 1 = t
        /\ \A k \in 1 .. t : 1 + k - 1 = k
        /\ 1 \in 1 .. t /\ 2 \in 1 .. t /\ 5 \in 1 .. t /\ t \in 1 .. t
        /\ 2 \in 1 .. Len(buf) /\ t = 5 + PayloadLen + 1
    BY <1>2, <1>5, <1>6
  <2>3. Len(x) = t /\ \A k \in 1 .. t : x[k] = r[k].is
    <3>1. Len(x) = t - 1 + 1 /\ \A k \in 1 .. t - 1 + 1 : x[k] = r[1 + k - 1].is
      BY <1>5, <2>2, WindowIs
    <3> HIDE DEF x
    <3> QED BY <2>2, <3>1
  <2>4. SubSeq(x, 1, t - 1) = Symbols(SubSeq(buf, 1, t - 1))
    <3>1. SubSeq(Window(r, 1, t), 1, t - 1) = Window(r, 1, t - 1)
      BY <1>5, <1>6, WindowLess
    <3>2. Window(r, 1, t - 1) = Window(buf, 1, t - 1)
      BY <1>2, <1>6, WindowOfFirst DEF r
    <3> QED BY <3>1, <3>2 DEF Window
  <2>5. Crc(Symbols(SubSeq(buf, 1, t - 1))) = buf[t].is
    BY <1>1, Zenon DEF CrcHolds, t
  <2>6. PayloadLen <= MAX_PAYLOAD
    BY <1>1, <1>2, LineAssumption DEF TooLong
  <2> HIDE DEF x
  <2>7. x[1] = 9 /\ x[2] = 8 /\ x[5] = PayloadLen /\ x[t] = Crc(SubSeq(x, 1, t - 1))
    <3>1. x[1] = r[1].is /\ x[2] = r[2].is /\ x[5] = r[5].is /\ x[t] = r[t].is
      BY <2>2, <2>3, Zenon
    <3>2. r[1] = buf[1] /\ r[2] = buf[2] /\ r[5] = buf[5] /\ r[t] = buf[t]
      BY <1>2, <1>5, <1>6, <2>2, Zenon
    <3> QED BY <1>2, <2>4, <2>5, <3>1, <3>2, Zenon DEF PayloadLen
  <2> QED BY <1>6, <2>2, <2>3, <2>6, <2>7 DEF Passes, Magic, HEADER_LEN
<1>8. buf' \in Seq(Sym) /\ Behind(q, r, t)
  <2>1. buf' = SubSeq(buf, t + 1, Len(buf))
    BY <1>1, Zenon DEF t
  <2>2. /\ SubSeq(buf, t + 1, Len(buf)) \in Seq(Sym)
        /\ Behind(SubSeq(buf, t + 1, Len(buf)) \o wire, buf \o wire, t)
    BY <1>2, <1>6, BehindConcat
  <2> QED BY <2>1, <2>2, Zenon DEF r
<1>9. /\ n \in DOMAIN sent /\ Taken(sent, q, Append(out, n))
      /\ NoneLost(sent, hurt, q, Append(out, n))
  <2> HIDE DEF q, x
  <2> QED BY <1>3, <1>4, <1>6, <1>7, <1>8, FrameTaken DEF x
<1>10. Rest(sent, hurt, q)
  BY <1>3, <1>4, <1>8, RestBehind, Zenon
<1>11. out' = Append(out, n)
  <2>1. 4 \in 1 .. Len(buf)
    BY <1>2
  <2> QED BY <1>1, <1>5, <2>1, Zenon
<1>12. \A i \in 1 .. Len(out') : out'[i] # 0
  <2>1. out \in Seq(Nat) /\ n \in Nat \ {0}
    <3>1. out \in Seq(Nat)
      BY <1>3, Zenon DEF Taken
    <3>2. n \in 1 .. Len(sent)
      <4> HIDE DEF n
      <4> QED BY <1>4, <1>9
    <3> QED BY <3>1, <3>2
  <2> HIDE DEF n
  <2>2. /\ Len(out') = Len(out) + 1 /\ out'[Len(out) + 1] = n
        /\ \A i \in 1 .. Len(out) : out'[i] = out[i]
    BY <1>11, <2>1, AppendProperties
  <2>3. \A i \in 1 .. Len(out) + 1 : i = Len(out) + 1 \/ i \in 1 .. Len(out)
    BY <2>1
  <2> QED BY <1>3, <2>1, <2>2, <2>3
<1> QED BY <1>2, <1>3, <1>8, <1>9, <1>10, <1>11, <1>12, Zenon DEF HostState

\* Reading takes nothing from what is left.
LEMMA ReadChunkKeeps ==
  ASSUME HostState(sent, hurt, buf, wire, out), ReadChunk
  PROVE  HostState(sent, hurt, buf', wire', out)
<1>1. PICK n \in 1 .. Len(wire) :
        buf' = buf \o SubSeq(wire, 1, n) /\ wire' = SubSeq(wire, n + 1, Len(wire))
  BY DEF ReadChunk
<1>2. buf \in Seq(Sym) /\ wire \in Seq(Sym)
  BY Zenon DEF HostState
<1> DEFINE a == SubSeq(wire, 1, n)
           b == SubSeq(wire, n + 1, Len(wire))
           l == Len(wire)
<1>3. l \in Nat /\ n \in Nat /\ 1 <= n /\ n <= l /\ \A k \in 1 .. l : wire[k] \in Sym
  BY <1>2
<1>4. a \in Seq(Sym) /\ Len(a) = n /\ \A k \in 1 .. n : a[k] = wire[k]
  <2>1. \A k \in 1 .. n : wire[k] \in Sym
    <3>1. \A k \in 1 .. n : k \in 1 .. l
      BY <1>3
    <3> QED BY <1>3, <3>1, Zenon
  <2>2. /\ a \in Seq(Sym) /\ Len(a) = IF 1 <= n THEN n - 1 + 1 ELSE 0
        /\ \A k \in 1 .. n - 1 + 1 : a[k] = wire[1 + k - 1]
    BY <1>3, <2>1, SubSeqProperties
  <2> HIDE DEF a, l
  <2>3. n - 1 + 1 = n /\ \A k \in 1 .. n : 1 + k - 1 = k
    BY <1>3
  <2> QED BY <1>3, <2>2, <2>3
<1>5. b \in Seq(Sym) /\ Len(b) = l - n /\ \A k \in 1 .. l - n : b[k] = wire[k + n]
  <2>1. \A k \in n + 1 .. l : wire[k] \in Sym
    <3>1. \A k \in n + 1 .. l : k \in 1 .. l
      BY <1>3
    <3> QED BY <1>3, <3>1, Zenon
  <2>2. /\ b \in Seq(Sym) /\ Len(b) = IF n + 1 <= l THEN l - (n + 1) + 1 ELSE 0
        /\ \A k \in 1 .. l - (n + 1) + 1 : b[k] = wire[(n + 1) + k - 1]
    BY <1>3, <2>1, SubSeqProperties
  <2> HIDE DEF b, l
  <2>3. (IF n + 1 <= l THEN l - (n + 1) + 1 ELSE 0) = l - n /\ l - (n + 1) + 1 = l - n
        /\ \A k \in 1 .. l - n : (n + 1) + k - 1 = k + n
    BY <1>3
  <2> QED BY <2>2, <2>3
<1> HIDE DEF a, b
<1>6. a \o b = wire
  <2> DEFINE c == a \o b
  <2>1. /\ c \in Seq(Sym) /\ Len(c) = Len(a) + Len(b)
        /\ \A k \in 1 .. Len(a) + Len(b) : c[k] = IF k <= Len(a) THEN a[k] ELSE b[k - Len(a)]
    <3>1. a \in Seq(Sym) /\ b \in Seq(Sym)
      BY <1>4, <1>5, Zenon
    <3> HIDE <1>4, <1>5
    <3> QED BY <3>1, ConcatProperties
  <2> HIDE DEF c
  <2>2. Len(a) = n /\ Len(b) = l - n
    BY <1>4, <1>5
  <2>3. Len(c) = l
    <3>1. Len(c) = n + (l - n)
      BY <2>1, <2>2, Zenon
    <3> HIDE DEF l
    <3> QED BY <1>3, <3>1
  <2>4. ASSUME NEW k \in 1 .. l PROVE c[k] = wire[k]
    <3>1. k \in 1 .. Len(a) + Len(b) /\ k \in Nat
      <4>1. n + (l - n) = l
        BY <1>3
      <4> QED BY <2>2, <2>4, <4>1
    <3>2. CASE k <= n
      <4>1. c[k] = a[k] /\ k \in 1 .. n
        BY <1>3, <2>1, <2>2, <3>1, <3>2
      <4> QED BY <1>4, <4>1, Zenon
    <3>3. CASE ~(k <= n)
      <4>1. c[k] = b[k - n]
        BY <2>1, <2>2, <3>1, <3>3
      <4>2. k - n \in 1 .. l - n /\ (k - n) + n = k
        BY <1>3, <2>4, <3>3
      <4> QED BY <1>5, <4>1, <4>2, Zenon
    <3> QED BY <3>2, <3>3
  <2>5. c = wire
    <3>1. Len(wire) = l
      OBVIOUS
    <3> HIDE DEF l
    <3> QED BY <1>2, <2>1, <2>3, <2>4, <3>1, SeqEqual
  <2> QED BY <2>5 DEF c
<1>7. buf' \o wire' = buf \o wire
  <2>1. (buf \o a) \o b = buf \o (a \o b)
    <3>1. a \in Seq(Sym) /\ b \in Seq(Sym)
      BY <1>4, <1>5, Zenon
    <3> QED BY <1>2, <3>1, ConcatAssociative, SMTT(30)
  <2> QED BY <1>1, <1>6, <2>1, Zenon DEF a, b
<1>8. buf' \in Seq(Sym) /\ wire' \in Seq(Sym)
  <2>1. buf \o a \in Seq(Sym)
    BY <1>2, <1>4, ConcatProperties
  <2> QED BY <1>1, <1>5, <2>1, Zenon DEF a, b
<1> QED BY <1>7, <1>8, Zenon DEF HostState

\* The host's invariant.
LEMMA HostInvariant == Spec => []HostInv
<1>1. Init => HostInv
  <2> SUFFICES ASSUME Init PROVE HostState(sent, hurt, buf, wire, out)
    BY Zenon DEF HostInv
  <2>1. LineInit /\ buf = <<>> /\ out = <<>>
    BY DEF Init, LineInit
  <2>2. sent \in Sends /\ Rest(sent, hurt, wire) /\ NoneLost(sent, hurt, wire, <<>>)
    BY <2>1, AtFirst
  <2>3. wire \in Seq(Sym)
    BY <2>2, Zenon DEF Rest
  <2>4. buf \o wire = wire /\ buf \in Seq(Sym)
    BY <2>1, <2>3, ConcatEmptySeq
  <2>5. Taken(sent, wire, <<>>)
    BY DEF Taken
  <2>6. \A i \in 1 .. Len(out) : out[i] # 0
    BY <2>1
  <2> QED BY <2>1, <2>2, <2>3, <2>4, <2>5, <2>6, Zenon DEF HostState
<1>2. HostInv /\ [Next]_vars => HostInv'
  <2> SUFFICES ASSUME HostInv, [Next]_vars, receiver' = "host"
               PROVE  HostState(sent', hurt', buf', wire', out')
    BY Zenon DEF HostInv, HostState, Rest, Taken, NoneLost, Unbroken, Telling, Whole
  <2>1. receiver = "host" /\ ((Host \/ Board) \/ UNCHANGED vars)
    BY DEF Next, Host, Board, vars
  <2>2. HostState(sent, hurt, buf, wire, out)
    BY <2>1, Zenon DEF HostInv
  <2>3. CASE Host
    <3>1. CASE DropText
      <4>1. UNCHANGED <<sent, hurt, wire, out>>
        BY <3>1, Zenon DEF DropText
      <4> QED BY <2>2, <3>1, <4>1, DropTextKeeps
    <3>2. CASE DropBefore
      <4>1. UNCHANGED <<sent, hurt, wire, out>>
        BY <3>2, Zenon DEF DropBefore
      <4> QED BY <2>2, <3>2, <4>1, DropBeforeKeeps
    <3>3. CASE BadLength
      <4>1. UNCHANGED <<sent, hurt, wire, out>>
        BY <3>3, Zenon DEF BadLength
      <4> QED BY <2>2, <3>3, <4>1, BadLengthKeeps
    <3>4. CASE BadCrc
      <4>1. UNCHANGED <<sent, hurt, wire, out>>
        BY <3>4, Zenon DEF BadCrc
      <4> QED BY <2>2, <3>4, <4>1, BadCrcKeeps
    <3>5. CASE ReturnFrame
      <4>1. UNCHANGED <<sent, hurt, wire>>
        BY <3>5, Zenon DEF ReturnFrame
      <4> QED BY <2>2, <3>5, <4>1, ReturnFrameKeeps
    <3>6. CASE ReadChunk
      <4>1. UNCHANGED <<sent, hurt, out>>
        BY <3>6, Zenon DEF ReadChunk
      <4> QED BY <2>2, <3>6, <4>1, ReadChunkKeeps
    <3> QED BY <2>3, <3>1, <3>2, <3>3, <3>4, <3>5, <3>6, Zenon DEF Host, ReaderNext
  <2>4. CASE Board
    BY <2>1, <2>4, Zenon DEF Board
  <2>5. CASE UNCHANGED vars
    BY <2>2, <2>5 DEF vars, lineVars
  <2> QED BY <2>1, <2>3, <2>4, <2>5
<1> QED BY <1>1, <1>2, PTL DEF Spec

\* The host's reader loses no frame that is undamaged, and returns what was sent,
\* once and in order: _try_parse drops one symbol of a candidate at a time.
THEOREM ReaderLosesNoFrame == Spec => []HostLosesNoFrame
<1>1. HostInv => HostLosesNoFrame
  <2> SUFFICES ASSUME HostInv, receiver = "host" PROVE NoFrameLost
    BY Zenon DEF HostLosesNoFrame
  <2> DEFINE r == buf \o wire
  <2>1. /\ sent \in Sends /\ Rest(sent, hurt, r) /\ Taken(sent, r, out)
        /\ NoneLost(sent, hurt, r, out) /\ \A i \in 1 .. Len(out) : out[i] # 0
    BY Zenon DEF HostInv, HostState
  <2> HIDE DEF r
  <2>2. out \in Seq(Nat) /\ r \in Seq(Sym)
    BY <2>1, Zenon DEF Taken, Rest
  <2>3. DOMAIN out = 1 .. Len(out) /\ DOMAIN r = 1 .. Len(r)
    BY <2>2
  <2>4. ToSet(out) \subseteq DOMAIN sent
    BY <2>1, <2>3, Zenon DEF ToSet, Taken
  <2>5. \A i, j \in DOMAIN out : i < j => out[i] < out[j]
    BY <2>1, <2>3, Zenon DEF Taken
  <2>6. Undamaged \subseteq ToSet(out) \cup Pending
    <3> SUFFICES ASSUME NEW n \in Undamaged PROVE n \in ToSet(out) \/ n \in Pending
      BY Zenon
    <3>1. n \in Whole(sent, hurt) /\ n \in DOMAIN sent
      BY Zenon DEF Whole, Undamaged
    <3>2. CASE \E i \in 1 .. Len(out) : out[i] = n
      BY <2>3, <3>2, Zenon DEF ToSet
    <3>3. CASE \E i \in 1 .. Len(r) : r[i].at = StartOf(sent, n)
      <4> DEFINE ahead == {x.at : x \in ToSet(r)}
                 st == StartOf(sent, n)
                 l == Len(sent[n])
      <4>1. PICK i \in 1 .. Len(r) : r[i].at = st
        BY <3>3
      <4>2. \A j \in 1 .. l + 6 : i + j - 1 \in 1 .. Len(r) /\ r[i + j - 1].at = st + j - 1
        BY <2>1, <3>1, <4>1, Zenon DEF Rest, Unbroken
      <4>3. l \in Nat /\ st \in Nat
        <5>1. l \in Nat
          BY <2>1, <3>1, SendsAre, Zenon
        <5>2. r[i] \in Sym
          BY <2>2
        <5> QED BY <4>1, <5>1, <5>2 DEF Sym
      <4> HIDE DEF st, l
      <4>4. Span(sent, n) = st .. st + 5 + l
        BY Zenon DEF Span, HEADER_LEN, st, l
      <4>5. ASSUME NEW q \in Span(sent, n) PROVE q \in ahead
        <5>1. q - st + 1 \in 1 .. l + 6 /\ st + (q - st + 1) - 1 = q
          BY <4>3, <4>4
        <5>2. PICK k \in 1 .. Len(r) : r[k].at = q
          BY <4>2, <5>1, Zenon
        <5> QED BY <2>3, <5>2, Zenon DEF ToSet
      <4> QED BY <4>5, Zenon DEF Pending, r
    <3> QED BY <2>1, <3>1, <3>2, <3>3, Zenon DEF NoneLost
  <2> QED BY <2>4, <2>5, <2>6, Zenon DEF NoFrameLost
<1> QED BY <1>1, HostInvariant, PTL

\* The host's reader never waits for more with as many symbols as the longest frame.
THEOREM ReaderStallBounded == Spec => []HostStallBounded
<1>1. HostInv => HostStallBounded
  <2> SUFFICES ASSUME HostInv, receiver = "host", Incomplete PROVE Len(buf) < MAX_FRAME
    BY Zenon DEF HostStallBounded, StallBounded
  <2>1. buf \in Seq(Sym)
    BY Zenon DEF HostInv, HostState
  <2>2. Len(buf) \in Nat /\ MAX_PAYLOAD \in Nat /\ MAX_FRAME = 5 + MAX_PAYLOAD + 1
    BY <2>1, LineAssumption DEF MAX_FRAME, HEADER_LEN
  <2>3. CASE MagicAt(buf) = {}
    BY <2>2, <2>3 DEF Incomplete, Magic
  <2>4. CASE MagicAt(buf) # {} /\ ~(Len(buf) >= 5)
    BY <2>2, <2>4
  <2>5. CASE MagicAt(buf) # {} /\ Len(buf) >= 5
    <3>1. ~TooLong(PayloadLen) /\ Len(buf) < Total
      BY <2>5 DEF Incomplete, HEADER_LEN
    <3>2. buf[5] \in Sym
      BY <2>1, <2>5
    <3>3. PayloadLen \in Nat
      BY <3>2 DEF PayloadLen, Sym
    <3> QED BY <2>2, <3>1, <3>3 DEF TooLong, Total, HEADER_LEN
  <2> QED BY <2>3, <2>4, <2>5
<1> QED BY <1>1, HostInvariant, PTL

-----------------------------------------------------------------------------
\* The board's parser.

\* What the board has taken of a frame: its magic, a length that is allowed, and no
\* more than that length says.
HeadOk(x) ==
  /\ Len(x) >= 1 => x[1] = 9
  /\ Len(x) >= 2 => x[2] = 8
  /\ Len(x) >= 5 => x[5] <= MAX_PAYLOAD /\ Len(x) <= 5 + x[5]

\* The board's parser: g is what it has taken of a frame, w what is on its way, o what
\* it made of what came before.
BoardState(s, h, g, w, o) ==
  /\ s \in Sends /\ g \in Seq(Sym) /\ w \in Seq(Sym)
  /\ Rest(s, h, g \o w) /\ Present(s, h, g \o w) /\ Taken(s, g \o w, o)

\* Nothing is hurt within the longest frame before the start of frame n, up to it.
Far(s, h, n) == \A p \in h : StartOf(s, n) < p \/ StartOf(s, n) > p + MAX_FRAME

\* A frame that starts far from what is hurt is dispatched, or its start is still to
\* come, or it is what the board is receiving.
Reached(s, h, g, w, o) ==
  \A n \in Whole(s, h) : Far(s, h, n) =>
    \/ \E i \in 1 .. Len(o) : o[i] = n
    \/ \E i \in 1 .. Len(w) : w[i].at = StartOf(s, n)
    \/ g # <<>> /\ g[1].at = StartOf(s, n)

BoardInv ==
  receiver = "board" =>
    /\ HeadOk(got)
    /\ \E g \in Seq(Sym) :
         /\ Symbols(g) = got
         /\ BoardState(sent, hurt, g, wire, out)
         /\ Plain(sent) => Reached(sent, hurt, g, wire, out)

\* The symbols of a sequence.
LEMMA SymbolsAre ==
  ASSUME NEW g \in Seq(Sym)
  PROVE  /\ Symbols(g) \in Seq(Nat) /\ Len(Symbols(g)) = Len(g)
         /\ \A k \in 1 .. Len(g) : Symbols(g)[k] = g[k].is
<1> DEFINE x == Symbols(g)
           l == Len(g)
<1>1. l \in Nat /\ \A k \in 1 .. l : g[k].is \in Nat
  <2>1. \A k \in 1 .. l : g[k] \in Sym
    OBVIOUS
  <2>2. l \in Nat
    OBVIOUS
  <2> HIDE DEF l
  <2> QED BY <2>1, <2>2 DEF Sym
<1>2. x = [k \in 1 .. l |-> g[k].is]
  BY DEF Symbols
<1> HIDE DEF x, l
<1>3. x \in Seq(Nat) /\ Len(x) = l /\ \A k \in 1 .. l : x[k] = g[k].is
  BY <1>1, <1>2
<1> QED BY <1>3 DEF x, l

\* The window of all of them.
LEMMA WholeWindow ==
  ASSUME NEW g \in Seq(Sym), Len(g) >= 1
  PROVE  Window(g, 1, Len(g)) = Symbols(g)
<1> DEFINE x == Symbols(g)
           y == Window(g, 1, Len(g))
           l == Len(g)
<1>1. /\ l \in Nat /\ 1 \in 1 .. l /\ l \in 1 .. l /\ l - 1 + 1 = l
      /\ \A k \in 1 .. l : 1 + k - 1 = k
  OBVIOUS
<1>2. x \in Seq(Nat) /\ Len(x) = l /\ \A k \in 1 .. l : x[k] = g[k].is
  BY SymbolsAre
<1>3. y \in Seq(Nat) /\ Len(y) = l /\ \A k \in 1 .. l : y[k] = g[k].is
  <2>1. /\ y \in Seq(Nat) /\ Len(y) = l - 1 + 1
        /\ \A k \in 1 .. l - 1 + 1 : y[k] = g[1 + k - 1].is
    BY <1>1, WindowIs
  <2> HIDE DEF y, l
  <2> QED BY <1>1, <2>1
<1> HIDE DEF x, y, l
<1>4. x = y
  <2>1. \A k \in 1 .. l : x[k] = y[k]
    BY <1>2, <1>3, Zenon
  <2> QED BY <1>2, <1>3, <2>1, SeqEqual
<1> QED BY <1>4 DEF x, y

\* One symbol is taken from the line.
LEMMA OneOn ==
  ASSUME NEW g \in Seq(Sym), NEW w \in Seq(Sym), w # <<>>
  PROVE  /\ Head(w) \in Sym /\ Tail(w) \in Seq(Sym)
         /\ Append(g, Head(w)) \in Seq(Sym) /\ Len(Append(g, Head(w))) = Len(g) + 1
         /\ Symbols(Append(g, Head(w))) = Append(Symbols(g), Head(w).is)
         /\ Append(g, Head(w)) \o Tail(w) = g \o w
         /\ Behind(Tail(w), g \o w, Len(g) + 1)
<1> DEFINE x == Head(w)
           v == Tail(w)
           f == Append(g, x)
           r == g \o w
           q == f \o v
           l == Len(g)
           m == Len(w)
<1>1. /\ x \in Sym /\ v \in Seq(Sym) /\ l \in Nat /\ m \in Nat \ {0} /\ x = w[1]
      /\ Len(v) = m - 1 /\ \A k \in 1 .. m - 1 : v[k] = w[k + 1]
  <2>1. m \in Nat \ {0} /\ w[1] \in Sym
    BY EmptySeq
  <2>2. x = w[1] /\ v \in Seq(Sym) /\ Len(v) = m - 1 /\ \A k \in 1 .. Len(v) : v[k] = w[k + 1]
    BY HeadTailProperties
  <2> HIDE DEF x, v, m
  <2> QED BY <2>1, <2>2
<1> HIDE DEF x, v
<1>2. /\ f \in Seq(Sym) /\ Len(f) = l + 1 /\ f[l + 1] = x
      /\ \A k \in 1 .. l : f[k] = g[k]
  BY <1>1, AppendProperties
<1>3. /\ r \in Seq(Sym) /\ Len(r) = l + m
      /\ \A k \in 1 .. l + m : r[k] = IF k <= l THEN g[k] ELSE w[k - l]
  BY ConcatProperties
<1> HIDE DEF f, r
<1>4. /\ q \in Seq(Sym) /\ Len(q) = Len(f) + Len(v)
      /\ \A k \in 1 .. Len(f) + Len(v) : q[k] = IF k <= Len(f) THEN f[k] ELSE v[k - Len(f)]
  <2>1. f \in Seq(Sym) /\ v \in Seq(Sym)
    BY <1>1, <1>2, Zenon
  <2> QED BY <2>1, ConcatProperties
<1> HIDE DEF q, l, m
<1>5. q = r
  <2>1. Len(f) = l + 1 /\ Len(v) = m - 1 /\ (l + 1) + (m - 1) = l + m
    BY <1>1, <1>2
  <2>2. Len(q) = l + m
    BY <1>4, <2>1, Zenon
  <2>3. ASSUME NEW k \in 1 .. l + m PROVE q[k] = r[k]
    <3>1. k \in 1 .. Len(f) + Len(v)
      BY <2>1, <2>3, Zenon
    <3>2. q[k] = (IF k <= Len(f) THEN f[k] ELSE v[k - Len(f)])
      BY <1>4, <3>1, Zenon
    <3>3. r[k] = (IF k <= l THEN g[k] ELSE w[k - l])
      BY <1>3, Zenon
    <3>4. k \in Nat /\ k >= 1
      BY <1>1
    <3>5. CASE k <= l
      <4>1. k <= Len(f) /\ k \in 1 .. l
        BY <1>1, <2>1, <3>4, <3>5
      <4> QED BY <1>2, <3>2, <3>3, <3>5, <4>1, Zenon
    <3>6. CASE k = l + 1
      <4>1. k <= Len(f) /\ ~(k <= l) /\ k - l = 1
        BY <1>1, <2>1, <3>6
      <4> QED BY <1>1, <1>2, <3>2, <3>3, <3>6, <4>1, Zenon
    <3>7. CASE k > l + 1
      <4>1. /\ ~(k <= Len(f)) /\ ~(k <= l) /\ k - Len(f) \in 1 .. m - 1
            /\ (k - Len(f)) + 1 = k - l
        BY <1>1, <2>1, <3>4, <3>7
      <4> QED BY <1>1, <3>2, <3>3, <4>1, Zenon
    <3> QED BY <1>1, <3>4, <3>5, <3>6, <3>7
  <2> QED BY <1>3, <1>4, <2>2, <2>3, SeqEqual
<1>6. Behind(v, r, l + 1)
  <2>1. l + 1 \in 0 .. Len(r) /\ Len(v) = Len(r) - (l + 1)
    BY <1>1, <1>3
  <2>2. ASSUME NEW k \in 1 .. Len(v) PROVE v[k] = r[k + (l + 1)]
    <3>1. /\ k \in 1 .. m - 1 /\ k + (l + 1) \in 1 .. l + m /\ ~(k + (l + 1) <= l)
          /\ (k + (l + 1)) - l = k + 1
      BY <1>1
    <3>2. r[k + (l + 1)] = w[(k + (l + 1)) - l]
      BY <1>3, <3>1, Zenon
    <3> QED BY <1>1, <3>1, <3>2, Zenon
  <2> QED BY <1>1, <1>3, <2>1, <2>2, Zenon DEF Behind
<1>7. Symbols(f) = Append(Symbols(g), x.is)
  <2> DEFINE a == Symbols(f)
             c == Symbols(g)
             b == Append(c, x.is)
  <2>1. x.is \in Nat
    BY <1>1 DEF Sym
  <2>2. a \in Seq(Nat) /\ Len(a) = l + 1 /\ \A k \in 1 .. l + 1 : a[k] = f[k].is
    <3>1. a \in Seq(Nat) /\ Len(a) = Len(f) /\ \A k \in 1 .. Len(f) : a[k] = f[k].is
      BY <1>2, SymbolsAre
    <3> HIDE DEF a
    <3> QED BY <1>2, <3>1
  <2>3. c \in Seq(Nat) /\ Len(c) = l /\ \A k \in 1 .. l : c[k] = g[k].is
    BY SymbolsAre DEF l
  <2> HIDE DEF a, c
  <2>4. b \in Seq(Nat) /\ Len(b) = l + 1 /\ b[l + 1] = x.is /\ \A k \in 1 .. l : b[k] = c[k]
    BY <2>1, <2>3, AppendProperties
  <2> HIDE DEF b
  <2>5. ASSUME NEW k \in 1 .. l + 1 PROVE a[k] = b[k]
    <3>1. k = l + 1 \/ k \in 1 .. l
      BY <1>1
    <3> QED BY <1>2, <2>2, <2>3, <2>4, <3>1, Zenon
  <2>6. a = b
    BY <2>2, <2>4, <2>5, SeqEqual
  <2> QED BY <2>6 DEF a, b, c
<1> QED BY <1>1, <1>2, <1>5, <1>6, <1>7 DEF x, v, f, q, r, l

\* A refusal takes no frame.
LEMMA RefusalTakes ==
  ASSUME NEW s, NEW r, NEW o, Taken(s, r, o)
  PROVE  Taken(s, r, Append(o, 0))
<1> DEFINE p == Append(o, 0)
           l == Len(o)
<1>1. o \in Seq(Nat) /\ l \in Nat
  BY DEF Taken
<1>2. p \in Seq(Nat) /\ Len(p) = l + 1 /\ p[l + 1] = 0 /\ \A i \in 1 .. l : p[i] = o[i]
  BY <1>1, AppendProperties
<1> HIDE DEF p
<1>3. \A i \in 1 .. Len(p) : p[i] # 0 => i \in 1 .. l /\ p[i] = o[i]
  <2> HIDE DEF l
  <2> QED BY <1>1, <1>2
<1> QED BY <1>2, <1>3, Zenon DEF Taken, p

\* What a step makes of what was taken: it keeps the symbol, starts anew with it or
\* without it, or makes of all of them a frame.
LEMMA BoardKeeps ==
  ASSUME NEW s, NEW h, NEW g, NEW w, NEW o, BoardState(s, h, g, w, o), w # <<>>
  PROVE  /\ BoardState(s, h, Append(g, Head(w)), Tail(w), o)
         /\ BoardState(s, h, <<>>, Tail(w), o)
         /\ BoardState(s, h, <<Head(w)>>, Tail(w), o)
         /\ BoardState(s, h, <<>>, Tail(w), Append(o, 0))
<1> DEFINE x == Head(w)
           v == Tail(w)
           f == Append(g, x)
           r == g \o w
<1>1. /\ s \in Sends /\ g \in Seq(Sym) /\ w \in Seq(Sym)
      /\ Rest(s, h, r) /\ Present(s, h, r) /\ Taken(s, r, o)
  BY Zenon DEF BoardState
<1>2. \A n \in DOMAIN s : Len(s[n]) \in Nat
  BY <1>1, SendsAre, Zenon
<1>3. /\ x \in Sym /\ v \in Seq(Sym) /\ f \in Seq(Sym) /\ f \o v = r
      /\ Behind(v, r, Len(g) + 1)
  BY <1>1, OneOn
<1>4. BoardState(s, h, f, v, o)
  BY <1>1, <1>3, Zenon DEF BoardState
<1> HIDE DEF x, v, r, f
<1>5. Rest(s, h, v) /\ Present(s, h, v) /\ Taken(s, v, o)
  BY <1>1, <1>2, <1>3, RestBehind, PresentBehind, TakenBehind, Zenon
<1>6. <<>> \o v = v /\ <<>> \in Seq(Sym)
  BY <1>3, ConcatEmptySeq
<1>7. BoardState(s, h, <<>>, v, o) /\ BoardState(s, h, <<>>, v, Append(o, 0))
  <2>1. Taken(s, v, Append(o, 0))
    BY <1>5, RefusalTakes
  <2> QED BY <1>1, <1>3, <1>5, <1>6, <2>1, Zenon DEF BoardState
<1>8. BoardState(s, h, <<x>>, v, o)
  <2>1. /\ Append(<<>>, x) \o v = <<>> \o w /\ Append(<<>>, x) = <<x>> /\ <<x>> \in Seq(Sym)
        /\ Behind(w, r, Len(g))
    <3>1. Append(<<>>, Head(w)) \o Tail(w) = <<>> \o w
      BY <1>1, <1>6, OneOn
    <3>2. Append(<<>>, x) = <<x>> /\ <<x>> \in Seq(Sym)
      BY <1>3
    <3>3. Behind(w, r, Len(g))
      <4>1. /\ r \in Seq(Sym) /\ Len(r) = Len(g) + Len(w)
            /\ \A k \in 1 .. Len(g) + Len(w) : r[k] = IF k <= Len(g) THEN g[k] ELSE w[k - Len(g)]
        BY <1>1, ConcatProperties DEF r
      <4>2. Len(g) \in Nat /\ Len(w) \in Nat
        BY <1>1
      <4>3. Len(g) \in 0 .. Len(r) /\ Len(w) = Len(r) - Len(g)
        BY <4>1, <4>2
      <4>4. ASSUME NEW k \in 1 .. Len(w) PROVE w[k] = r[k + Len(g)]
        <5>1. /\ k + Len(g) \in 1 .. Len(g) + Len(w) /\ ~(k + Len(g) <= Len(g))
              /\ (k + Len(g)) - Len(g) = k
          BY <4>2
        <5>2. r[k + Len(g)] = w[(k + Len(g)) - Len(g)]
          BY <4>1, <5>1, Zenon
        <5> QED BY <5>1, <5>2, Zenon
      <4> QED BY <1>1, <4>1, <4>3, <4>4, Zenon DEF Behind
    <3> QED BY <3>1, <3>2, <3>3, Zenon DEF x, v
  <2>2. <<>> \o w = w
    BY <1>1, ConcatEmptySeq
  <2>3. Rest(s, h, w) /\ Present(s, h, w) /\ Taken(s, w, o)
    BY <1>1, <1>2, <2>1, RestBehind, PresentBehind, TakenBehind, Zenon
  <2>4. <<x>> \o v = w
    BY <2>1, <2>2, Zenon
  <2> QED BY <1>1, <1>3, <2>1, <2>3, <2>4, Zenon DEF BoardState
<1> QED BY <1>4, <1>7, <1>8 DEF x, v, f

\* A frame that is dispatched is the next one sent.
LEMMA BoardDispatches ==
  ASSUME NEW s, NEW h, NEW g, NEW w, NEW o, BoardState(s, h, g, w, o), w # <<>>,
         HeadOk(Symbols(g)), Len(g) >= 5, Len(g) >= 5 + Symbols(g)[5],
         Head(w).is = Crc(Symbols(g))
  PROVE  BoardState(s, h, <<>>, Tail(w), Append(o, Symbols(g)[4]))
<1> DEFINE e == Head(w)
           v == Tail(w)
           f == Append(g, e)
           r == g \o w
           y == Symbols(g)
           l == Len(g)
           t == l + 1
           x == Window(r, 1, t)
           n == r[4].is
<1>1. /\ s \in Sends /\ g \in Seq(Sym) /\ w \in Seq(Sym)
      /\ Rest(s, h, r) /\ Present(s, h, r) /\ Taken(s, r, o)
  BY Zenon DEF BoardState
<1>2. s \in Seq(Seq(Nat)) /\ \A m \in DOMAIN s : Len(s[m]) \in Nat
  BY <1>1, SendsAre, Zenon
<1>3. /\ e \in Sym /\ v \in Seq(Sym) /\ f \in Seq(Sym) /\ Len(f) = t /\ f \o v = r
      /\ Symbols(f) = Append(y, e.is) /\ Behind(v, r, t)
  BY <1>1, OneOn
<1>4. y \in Seq(Nat) /\ Len(y) = l /\ l \in Nat /\ \A k \in 1 .. l : y[k] = g[k].is
  BY <1>1, SymbolsAre
<1>5. /\ r \in Seq(Sym) /\ Len(r) = l + Len(w) /\ \A k \in 1 .. l : r[k] = g[k]
      /\ Len(w) \in Nat \ {0}
  <2>1. Len(w) \in Nat \ {0}
    BY <1>1, EmptySeq
  <2> QED BY <1>1, <2>1, ConcatProperties
<1>6. y[1] = 9 /\ y[2] = 8 /\ y[5] <= MAX_PAYLOAD /\ l = 5 + y[5] /\ y[5] \in Nat
  <2> HIDE DEF y, l
  <2>1. l >= 5 /\ l >= 5 + y[5]
    BY Zenon DEF y, l
  <2>2. y[1] = 9 /\ y[2] = 8 /\ y[5] <= MAX_PAYLOAD /\ l <= 5 + y[5]
    BY <1>4, <2>1 DEF HeadOk, y
  <2>3. y[5] \in Nat
    BY <1>4, <2>1
  <2> QED BY <1>4, <2>1, <2>2, <2>3
<1>7. Passes(x)
  <2>1. x = Append(y, e.is)
    <3>1. Window(f \o v, 1, Len(f)) = Window(f, 1, Len(f))
      <4>1. Len(f) \in 1 .. Len(f)
        BY <1>3, <1>4
      <4> HIDE DEF f, v
      <4> QED BY <1>3, <4>1, WindowOfFirst
    <3>2. Window(f, 1, Len(f)) = Symbols(f)
      <4>1. Len(f) >= 1
        BY <1>3, <1>4
      <4> HIDE DEF f
      <4> QED BY <1>3, <4>1, WholeWindow
    <3> HIDE DEF f, v, r, t, y, e
    <3> QED BY <1>3, <3>1, <3>2, Zenon
  <2>2. SubSeq(x, 1, t - 1) = y
    <3>1. t \in 2 .. Len(r) /\ t - 1 = l /\ l \in 1 .. Len(g) /\ Len(g) >= 1
      <4>1. l >= 5
        BY <1>6
      <4>2. Len(r) = l + Len(w) /\ Len(w) \in Nat \ {0} /\ l \in Nat
        BY <1>4, <1>5, Zenon
      <4>3. l = Len(g)
        OBVIOUS
      <4> HIDE DEF r, l
      <4> QED BY <4>1, <4>2, <4>3
    <3>2. SubSeq(Window(r, 1, t), 1, t - 1) = Window(r, 1, t - 1)
      <4> HIDE DEF r, t
      <4> QED BY <1>5, <3>1, WindowLess
    <3>3. Window(r, 1, l) = Window(g, 1, l)
      <4> HIDE DEF l
      <4> QED BY <1>1, <3>1, WindowOfFirst
    <3>4. Window(g, 1, l) = y
      BY <1>1, <3>1, WholeWindow
    <3> HIDE DEF x, y, l, r, t
    <3> QED BY <3>1, <3>2, <3>3, <3>4, Zenon DEF x
  <2>3. /\ Len(x) = l + 1 /\ x[l + 1] = e.is /\ \A k \in 1 .. l : x[k] = y[k]
    <3>1. e.is \in Nat
      <4> HIDE DEF e
      <4> QED BY <1>3 DEF Sym
    <3> HIDE DEF x, y, e, l
    <3> QED BY <1>4, <2>1, <3>1, AppendProperties
  <2>4. e.is = Crc(y)
    OBVIOUS
  <2> HIDE DEF x, y, e, l
  <2>5. 1 \in 1 .. l /\ 2 \in 1 .. l /\ 5 \in 1 .. l /\ t - 1 = l
    BY <1>4, <1>6
  <2>6. x[1] = 9 /\ x[2] = 8 /\ x[5] = y[5]
    BY <1>6, <2>3, <2>5, Zenon
  <2>7. x[Len(x)] = Crc(SubSeq(x, 1, Len(x) - 1))
    <3>1. SubSeq(x, 1, l) = y /\ Len(x) - 1 = l
      BY <1>4, <2>2, <2>3, <2>5
    <3> QED BY <2>3, <2>4, <3>1, Zenon
  <2> QED BY <1>4, <1>6, <2>3, <2>6, <2>7 DEF Passes, Magic, HEADER_LEN
<1>8. n = y[4]
  <2>1. 4 \in 1 .. l
    BY <1>4, <1>6
  <2> QED BY <1>4, <1>5, <2>1, Zenon
<1>9. Taken(s, v, Append(o, n))
  <2>1. t \in 2 .. Len(r)
    BY <1>4, <1>5, <1>6, SMTT(30)
  <2> HIDE DEF r, v, t, x
  <2> QED BY <1>1, <1>2, <1>3, <1>7, <2>1, FrameTaken DEF x
<1>10. Rest(s, h, v) /\ Present(s, h, v)
  BY <1>1, <1>2, <1>3, RestBehind, PresentBehind, Zenon
<1>11. <<>> \o v = v /\ <<>> \in Seq(Sym)
  <2> HIDE DEF v
  <2> QED BY <1>3, ConcatEmptySeq
<1> HIDE DEF v, n, y
<1> QED BY <1>1, <1>3, <1>8, <1>9, <1>10, <1>11, Zenon DEF BoardState, v, y

\* A symbol more of a frame, its head still right.
LEMMA HeadGrows ==
  ASSUME NEW x \in Seq(Nat), NEW b \in Nat, HeadOk(x),
         Len(x) = 0 => b = 9, Len(x) = 1 => b = 8,
         Len(x) = 4 => b <= MAX_PAYLOAD,
         Len(x) >= 5 => Len(x) < 5 + x[5]
  PROVE  HeadOk(Append(x, b))
<1> DEFINE y == Append(x, b)
           l == Len(x)
<1>1. l \in Nat /\ Len(y) = l + 1 /\ y[l + 1] = b /\ \A k \in 1 .. l : y[k] = x[k]
  BY AppendProperties
<1>2. l >= 5 => x[5] \in Nat
  OBVIOUS
<1> HIDE DEF y, l
<1>3. Len(y) >= 1 => y[1] = 9
  BY <1>1 DEF HeadOk, l
<1>4. Len(y) >= 2 => y[2] = 8
  <2>1. CASE l = 1
    BY <1>1, <2>1 DEF l
  <2>2. CASE l >= 2
    <3>1. x[2] = 8
      BY <2>2, Zenon DEF HeadOk, l
    <3> QED BY <1>1, <2>2, <3>1
  <2> QED BY <1>1, <2>1, <2>2
<1>5. Len(y) >= 5 => y[5] <= MAX_PAYLOAD /\ Len(y) <= 5 + y[5]
  <2>1. CASE l = 4
    BY <1>1, <2>1 DEF l
  <2>2. CASE l >= 5
    <3>1. y[5] = x[5]
      BY <1>1, <2>2
    <3>2. x[5] <= MAX_PAYLOAD /\ l < 5 + x[5]
      BY <2>2, Zenon DEF HeadOk, l
    <3> QED BY <1>1, <1>2, <2>2, <3>1, <3>2
  <2> QED BY <1>1, <2>1, <2>2
<1> QED BY <1>3, <1>4, <1>5, Zenon DEF HeadOk, y

\* Where nothing is hurt the symbols before one stand one behind the other.
LEMMA OneBeforeAnother ==
  ASSUME NEW s, NEW h, NEW r, Rest(s, h, r), Present(s, h, r),
         NEW c \in 1 .. Len(r)
  PROVE  \A k \in Nat :
           r[1].at <= r[c].at - k /\ (\A q \in r[c].at - k .. r[c].at - 1 : q \notin h) =>
             c - k \in 1 .. c /\ r[c - k].at = r[c].at - k
<1> DEFINE a == r[1].at
           st == r[c].at
           L == Len(Line(s))
           T == {k \in Nat : a <= st - k /\ (\A q \in st - k .. st - 1 : q \notin h) =>
                               c - k \in 1 .. c /\ r[c - k].at = st - k}
<1>1. /\ r \in Seq(Sym) /\ Len(r) \in Nat /\ 1 \in 1 .. Len(r) /\ c \in Nat
      /\ \A i \in 1 .. Len(r) : r[i].at \in Nat
      /\ \A i, j \in 1 .. Len(r) : i < j => r[i].at < r[j].at
  <2>1. r \in Seq(Sym) /\ \A i, j \in 1 .. Len(r) : i < j => r[i].at < r[j].at
    BY Zenon DEF Rest
  <2>2. Len(r) \in Nat /\ 1 \in 1 .. Len(r) /\ c \in Nat /\ \A i \in 1 .. Len(r) : r[i] \in Sym
    BY <2>1
  <2>3. \A i \in 1 .. Len(r) : r[i].at \in Nat
    BY <2>2 DEF Sym
  <2> QED BY <2>1, <2>2, <2>3
<1>2. a \in Nat /\ st \in Nat /\ a >= 1 /\ st <= L /\ L \in Nat
  <2>1. a \in 1 .. L /\ st \in 1 .. L
    BY <1>1, Zenon DEF Present
  <2>2. a \in Nat /\ st \in Nat
    BY <1>1
  <2> QED BY <2>1, <2>2
<1> HIDE DEF a, st, L
<1>3. ASSUME NEW k \in Nat, k \in T, a <= st - (k + 1), \A q \in st - (k + 1) .. st - 1 : q \notin h
      PROVE  c - (k + 1) \in 1 .. c /\ r[c - (k + 1)].at = st - (k + 1)
  <2> DEFINE e == st - (k + 1)
  <2>1. a <= st - k /\ \A q \in st - k .. st - 1 : q \in st - (k + 1) .. st - 1
    BY <1>2, <1>3
  <2>2. c - k \in 1 .. c /\ r[c - k].at = st - k
    BY <1>3, <2>1
  <2>3. e \in 1 .. L /\ e \notin h /\ e < st - k /\ st - k = e + 1 /\ e \in Nat
    BY <1>2, <1>3
  <2>4. PICK j \in 1 .. Len(r) : r[j].at = e
    <3>1. CASE a = e
      BY <1>1, <3>1 DEF a
    <3>2. CASE a # e
      <4>1. a < e
        BY <1>2, <1>3, <3>2
      <4> QED BY <1>1, <2>3, <4>1, Zenon DEF Present, a, L
    <3> QED BY <3>1, <3>2
  <2> HIDE DEF e
  <2>5. c - k \in 1 .. Len(r)
    BY <1>1, <2>2
  <2>6. j < c - k
    <3>1. c - k < j => r[c - k].at < r[j].at
      BY <1>1, <2>5, Zenon
    <3>2. j # c - k /\ ~(c - k < j)
      BY <2>2, <2>3, <2>4, <3>1
    <3> QED BY <2>5, <3>2
  <2>7. c - (k + 1) \in 1 .. c /\ c - (k + 1) \in 1 .. Len(r) /\ c - (k + 1) < c - k
        /\ (j = c - (k + 1) \/ j < c - (k + 1))
    BY <1>1, <2>2, <2>6
  <2>8. CASE j < c - (k + 1)
    <3>1. r[j].at < r[c - (k + 1)].at /\ r[c - (k + 1)].at < r[c - k].at
      BY <1>1, <2>5, <2>7, <2>8, Zenon
    <3>2. r[c - (k + 1)].at \in Nat
      BY <1>1, <2>7
    <3> QED BY <2>2, <2>3, <2>4, <3>1, <3>2
  <2>9. CASE j = c - (k + 1)
    BY <2>4, <2>7, <2>9, Zenon DEF e
  <2> QED BY <2>7, <2>8, <2>9
<1>4. \A k \in Nat : k \in T => k + 1 \in T
  <2>1. \A k \in Nat : k + 1 \in Nat
    OBVIOUS
  <2> QED BY <1>3, <2>1, Zenon
<1>5. 0 \in T
  <2>1. c - 0 \in 1 .. c /\ c - 0 = c /\ st - 0 = st
    BY <1>1, <1>2
  <2> QED BY <2>1, Zenon DEF st
<1>6. Nat \subseteq T
  <2> HIDE DEF T
  <2> QED BY <1>4, <1>5, Induction
<1> QED BY <1>6 DEF a, st

\* What was taken of a frame, and the symbol after it.
LEMMA NextSymbol ==
  ASSUME NEW g \in Seq(Sym), NEW w \in Seq(Sym), w # <<>>
  PROVE  /\ g \o w \in Seq(Sym) /\ Len(g) + 1 \in 1 .. Len(g \o w)
         /\ (g \o w)[Len(g) + 1] = Head(w)
         /\ \A k \in 1 .. Len(g) : k \in 1 .. Len(g \o w) /\ (g \o w)[k] = g[k]
<1> DEFINE r == g \o w
           l == Len(g)
           m == Len(w)
<1>1. /\ r \in Seq(Sym) /\ Len(r) = l + m
      /\ \A k \in 1 .. l + m : r[k] = IF k <= l THEN g[k] ELSE w[k - l]
  BY ConcatProperties
<1>2. l \in Nat /\ m \in Nat \ {0} /\ Head(w) = w[1]
  BY EmptySeq
<1> HIDE DEF r, l, m
<1>3. /\ l + 1 \in 1 .. l + m /\ ~(l + 1 <= l) /\ (l + 1) - l = 1
      /\ \A k \in 1 .. l : k \in 1 .. l + m /\ k <= l
  BY <1>2
<1>4. r[l + 1] = Head(w)
  <2>1. r[l + 1] = w[(l + 1) - l]
    BY <1>1, <1>3, Zenon
  <2> QED BY <1>2, <1>3, <2>1, Zenon
<1>5. \A k \in 1 .. l : k \in 1 .. Len(r) /\ r[k] = g[k]
  BY <1>1, <1>3, Zenon
<1>6. l + 1 \in 1 .. Len(r)
  BY <1>1, <1>3, Zenon
<1> QED BY <1>1, <1>4, <1>5, <1>6, Zenon DEF r, l

\* The symbols taken are as many as the longest frame has, but one.
LEMMA HeadShort ==
  ASSUME NEW x \in Seq(Nat), HeadOk(x), MAX_PAYLOAD \in Nat
  PROVE  Len(x) < MAX_FRAME /\ Len(x) \in Nat
<1>1. Len(x) \in Nat /\ MAX_FRAME = 5 + MAX_PAYLOAD + 1 /\ (Len(x) >= 5 => x[5] \in Nat)
  BY DEF MAX_FRAME, HEADER_LEN
<1>2. Len(x) >= 5 => x[5] <= MAX_PAYLOAD /\ Len(x) <= 5 + x[5]
  BY Zenon DEF HeadOk
<1> QED BY <1>1, <1>2

\* No frame that starts far from what is hurt is swallowed by another: what the board
\* holds would be one that was sent before, and longer than its length says.
LEMMA Swallowed ==
  ASSUME NEW s, NEW h, NEW g, NEW w, NEW o, BoardState(s, h, g, w, o), w # <<>>,
         Present(s, h, g \o w), Plain(s), HeadOk(Symbols(g)), Len(g) >= 2,
         NEW n \in Whole(s, h), Far(s, h, n)
  PROVE  Head(w).at # StartOf(s, n)
<1> SUFFICES ASSUME Head(w).at = StartOf(s, n) PROVE FALSE
  OBVIOUS
<1> DEFINE r == g \o w
           lg == Len(g)
           c == lg + 1
           st == StartOf(s, n)
           a == r[1].at
           x == Symbols(g)
           line == Line(s)
           L == Len(line)
<1>1. /\ s \in Sends /\ g \in Seq(Sym) /\ w \in Seq(Sym) /\ Rest(s, h, r) /\ Present(s, h, r)
  BY Zenon DEF BoardState
<1>2. /\ r \in Seq(Sym) /\ c \in 1 .. Len(r) /\ r[c] = Head(w) /\ lg \in Nat /\ lg >= 2
      /\ \A k \in 1 .. lg : k \in 1 .. Len(r) /\ r[k] = g[k]
  BY <1>1, NextSymbol
<1>3. /\ s \in Seq(Seq(Nat)) /\ MAX_PAYLOAD \in Nat /\ n \in 1 .. Len(s)
  <2>1. s \in Seq(Seq(Nat)) /\ MAX_PAYLOAD \in Nat
    BY <1>1, SendsAre, Zenon
  <2> QED BY <2>1 DEF Whole
<1>4. /\ x \in Seq(Nat) /\ Len(x) = lg /\ \A k \in 1 .. lg : x[k] = g[k].is
  BY <1>1, SymbolsAre
<1>5. /\ lg < MAX_FRAME /\ x[1] = 9 /\ x[2] = 8
      /\ lg >= 5 => lg <= 5 + x[5]
  <2>1. Len(x) < MAX_FRAME
    BY <1>3, <1>4, HeadShort
  <2> HIDE DEF x, lg
  <2> QED BY <1>2, <1>4, <2>1 DEF HeadOk, x
<1>6. st \in Nat \ {0} /\ MAX_FRAME \in Nat
  <2>1. st \in Nat \ {0}
    BY <1>3, Starts
  <2> QED BY <1>3, <2>1 DEF MAX_FRAME, HEADER_LEN
<1>7. r[c].at = st
  BY <1>2, Zenon
<1> HIDE DEF r, x, st, L, line
<1>8. /\ a \in Nat /\ a >= 1 /\ a < st /\ st <= L /\ L \in Nat /\ 1 \in 1 .. Len(r)
  <2>1. 1 \in 1 .. Len(r) /\ 1 < c
    BY <1>2
  <2>2. a < st /\ a \in 1 .. L /\ st \in 1 .. L
    BY <1>1, <1>2, <1>7, <2>1, Zenon DEF Rest, Present, L, line
  <2>3. L \in Nat
    <3>1. Len(s) \in Nat /\ Len(s) \in 0 .. Len(s)
      BY <1>3
    <3>2. line \in Seq(Nat)
      BY <1>3, <3>1, LinesAre, Zenon DEF Line, line
    <3> QED BY <3>2 DEF L
  <2> HIDE DEF a
  <2> QED BY <1>6, <2>1, <2>2, <2>3
<1> HIDE DEF a
<1>9. ASSUME NEW k \in Nat, a <= st - k, \A q \in st - k .. st - 1 : q \notin h
      PROVE  c - k \in 1 .. c /\ r[c - k].at = st - k
  BY <1>1, <1>2, <1>7, <1>9, OneBeforeAnother, SMTT(30) DEF a
<1>10. \A q \in a .. st - 1 : q \notin h
  <2> SUFFICES ASSUME NEW q \in a .. st - 1, q \in h PROVE FALSE
    OBVIOUS
  <2> DEFINE T == {k \in Nat : k >= 1 /\ a <= st - k /\ st - k \in h}
  <2>1. st - q \in T
    <3>1. st - q \in Nat /\ st - q >= 1 /\ st - (st - q) = q /\ a <= q
      BY <1>6, <1>8
    <3> QED BY <3>1
  <2>2. PICK k \in T : \A j \in T : k <= j
    <3>1. T \subseteq Nat /\ T # {}
      BY <2>1
    <3> HIDE DEF T
    <3> QED BY <3>1, Least
  <2>3. k \in Nat /\ k >= 1 /\ a <= st - k /\ st - k \in h
    BY <2>2
  <2>4. k - 1 \in Nat /\ a <= st - (k - 1)
    BY <1>6, <1>8, <2>3
  <2>5. \A p \in st - (k - 1) .. st - 1 : p \notin h
    <3> SUFFICES ASSUME NEW p \in st - (k - 1) .. st - 1, p \in h PROVE FALSE
      OBVIOUS
    <3>1. st - p \in Nat /\ st - p >= 1 /\ st - (st - p) = p /\ a <= p /\ ~(k <= st - p)
      BY <1>6, <1>8, <2>3
    <3>2. st - p \in T
      BY <3>1
    <3> QED BY <2>2, <3>1, <3>2
  <2>6. c - (k - 1) \in 1 .. c
    BY <1>9, <2>4, <2>5
  <2>7. st < st - k \/ st > (st - k) + MAX_FRAME
    BY <2>3, Zenon DEF Far, st
  <2> HIDE DEF T
  <2> QED BY <1>2, <1>5, <1>6, <2>3, <2>6, <2>7
<1>11. ASSUME NEW i \in 1 .. lg PROVE r[i].at = a + i - 1 /\ st = a + lg
  <2>1. st - a \in Nat /\ a <= st - (st - a) /\ st - (st - a) = a
    BY <1>6, <1>8
  <2>2. c - (st - a) \in 1 .. c /\ r[c - (st - a)].at = a
    BY <1>9, <1>10, <2>1
  <2>3. c - (st - a) = 1
    <3>1. 1 < c - (st - a) => a < r[c - (st - a)].at
      <4>1. c - (st - a) \in 1 .. Len(r)
        BY <1>2, <1>6, <1>8, <2>2
      <4> QED BY <1>1, <1>8, <4>1, Zenon DEF Rest, a
    <3> QED BY <1>2, <1>6, <1>8, <2>2, <3>1, SMTT(30)
  <2>4. st = a + lg
    BY <1>2, <1>6, <1>8, <2>3
  <2>5. c - i \in Nat /\ a <= st - (c - i) /\ st - (c - i) = a + i - 1 /\ c - (c - i) = i
        /\ \A q \in st - (c - i) .. st - 1 : q \in a .. st - 1
    BY <1>2, <1>6, <1>8, <2>4
  <2>6. r[c - (c - i)].at = st - (c - i)
    BY <1>9, <1>10, <2>5
  <2> QED BY <2>4, <2>5, <2>6
<1>12. ASSUME NEW i \in 1 .. lg PROVE a + i - 1 \in 1 .. L /\ x[i] = line[a + i - 1]
  <2>1. r[i].at = a + i - 1 /\ st = a + lg
    BY <1>11
  <2>2. a + i - 1 \in a .. st - 1 /\ a + i - 1 \in 1 .. L
    BY <1>2, <1>6, <1>8, <2>1
  <2>3. r[i].at \notin h
    BY <1>10, <2>1, <2>2
  <2>4. r[i].is = line[r[i].at]
    BY <1>1, <1>2, <2>3, Zenon DEF Present, line
  <2>5. x[i] = r[i].is
    BY <1>2, <1>4, Zenon
  <2> QED BY <2>1, <2>2, <2>4, <2>5
<1>13. PICK m \in DOMAIN s : a = StartOf(s, m)
  <2>1. /\ 1 \in 1 .. lg /\ 2 \in 1 .. lg /\ a + 1 - 1 = a /\ a + 2 - 1 = a + 1
        /\ a \in 1 .. L - 1 /\ a \in Int /\ a + 1 \in Int /\ a <= a + 1
    <3>1. st = a + lg
      <4>1. 1 \in 1 .. lg
        BY <1>2
      <4> QED BY <1>11, <4>1
    <3> QED BY <1>2, <1>6, <1>8, <3>1
  <2>2. line[a] = 9 /\ line[a + 1] = 8 /\ a + 1 \in 1 .. L /\ a \in 1 .. L
    BY <1>5, <1>12, <2>1
  <2>3. SubSeq(line, a, a + 1) = Magic
    <3> DEFINE y == SubSeq(line, a, a + 1)
    <3>1. \A k \in a .. a + 1 : line[k] \in Nat
      BY <2>1, <2>2
    <3>2. /\ y \in Seq(Nat) /\ Len(y) = IF a <= a + 1 THEN (a + 1) - a + 1 ELSE 0
          /\ \A k \in 1 .. (a + 1) - a + 1 : y[k] = line[a + k - 1]
      BY <2>1, <3>1, SubSeqProperties
    <3> HIDE DEF y
    <3>3. (a + 1) - a + 1 = 2 /\ 1 \in 1 .. 2 /\ 2 \in 1 .. 2
      BY <1>8
    <3>4. Len(y) = 2 /\ y[1] = line[a] /\ y[2] = line[a + 1]
      BY <2>1, <3>2, <3>3
    <3>5. y = <<9, 8>>
      BY <2>2, <3>2, <3>4
    <3> QED BY <3>5 DEF y, Magic
  <2>4. a \in 1 .. Len(Line(s)) - 1
    BY <2>1 DEF L, line
  <2> QED BY <2>3, <2>4, Zenon DEF Plain, line
<1> DEFINE l == Len(s[m])
<1>14. m \in 1 .. Len(s) /\ s[m] \in Seq(Nat) /\ m \in Nat /\ l \in Nat
  BY <1>3
<1> HIDE DEF l
<1>15. a + 5 + l < st
  <2>1. n < m => StartOf(s, n) + 5 + Len(s[n]) < StartOf(s, m)
    BY <1>3, <1>14, OnTheLine, Zenon
  <2>2. m < n => StartOf(s, m) + 5 + Len(s[m]) < StartOf(s, n)
    BY <1>3, <1>14, OnTheLine, Zenon
  <2>3. Len(s[n]) \in Nat
    BY <1>3
  <2>4. ~(n < m)
    <3>1. n < m => st + 5 + Len(s[n]) < a
      BY <1>13, <2>1, Zenon DEF st
    <3>2. \A e, f, k \in Nat : e < f => ~(f + 5 + k < e)
      OBVIOUS
    <3>3. st \in Nat
      BY <1>6
    <3> QED BY <1>8, <2>3, <3>1, <3>2, <3>3, Zenon
  <2>5. m # n
    BY <1>8, <1>13 DEF st
  <2>6. m < n
    BY <1>3, <1>14, <2>4, <2>5
  <2> QED BY <1>13, <2>2, <2>6, Zenon DEF st, l
<1>16. lg > 5 + l /\ lg >= 5 /\ 5 \in 1 .. lg /\ st = a + lg /\ a + 5 - 1 = a + 4
  <2>1. st = a + lg
    <3>1. 1 \in 1 .. lg
      BY <1>2
    <3> QED BY <1>11, <3>1
  <2>2. lg > 5 + l
    BY <1>2, <1>8, <1>14, <1>15, <2>1
  <2> QED BY <1>2, <1>8, <1>14, <2>1, <2>2
<1>17. x[5] = l
  <2>1. x[5] = line[a + 4]
    BY <1>12, <1>16
  <2>2. line[a + 4] = build_frame(m, s[m])[5]
    <3>1. \A j \in 1 .. Len(s[m]) + 6 : line[StartOf(s, m) + j - 1] = build_frame(m, s[m])[j]
      BY <1>3, <1>14, OnTheLine, Zenon DEF line
    <3>2. 5 \in 1 .. Len(s[m]) + 6
      BY <1>14 DEF l
    <3>3. line[a + 5 - 1] = build_frame(m, s[m])[5]
      BY <1>13, <3>1, <3>2, Zenon
    <3> QED BY <1>16, <3>3
  <2>3. build_frame(m, s[m])[5] = l
    BY <1>14, FrameIs DEF l
  <2> QED BY <2>1, <2>2, <2>3
<1> QED BY <1>2, <1>5, <1>14, <1>16, <1>17

\* What the board has taken of an undamaged frame, from its start on, is as it was
\* sent, and more of it is to come.
LEMMA Receiving ==
  ASSUME NEW s, NEW h, NEW g, NEW w, NEW o, BoardState(s, h, g, w, o),
         HeadOk(Symbols(g)), g # <<>>, NEW n \in Whole(s, h), g[1].at = StartOf(s, n)
  PROVE  LET f == build_frame(n, s[n])
             l == Len(g)
         IN /\ w # <<>> /\ l + 1 \in 1 .. Len(s[n]) + 6 /\ Head(w).is = f[l + 1]
            /\ \A k \in 1 .. l : k \in 1 .. Len(s[n]) + 6 /\ Symbols(g)[k] = f[k]
<1> DEFINE f == build_frame(n, s[n])
           l == Len(g)
           m == Len(s[n])
           r == g \o w
           y == Symbols(g)
<1>1. /\ s \in Sends /\ g \in Seq(Sym) /\ w \in Seq(Sym) /\ Rest(s, h, r)
  BY Zenon DEF BoardState
<1>2. /\ n \in 1 .. Len(s) /\ n \in Nat /\ s[n] \in Seq(Nat) /\ m \in Nat
  <2>1. s \in Seq(Seq(Nat))
    BY <1>1, SendsAre, Zenon
  <2> QED BY <2>1 DEF Whole
<1>3. /\ l \in Nat /\ l >= 1 /\ Len(w) \in Nat
  BY <1>1, EmptySeq
<1>4. /\ r \in Seq(Sym) /\ Len(r) = l + Len(w)
      /\ \A k \in 1 .. l + Len(w) : r[k] = IF k <= l THEN g[k] ELSE w[k - l]
  BY <1>1, ConcatProperties
<1>5. /\ y \in Seq(Nat) /\ Len(y) = l /\ \A k \in 1 .. l : y[k] = g[k].is
  BY <1>1, SymbolsAre
<1>6. f[5] = m
  BY <1>2, FrameIs
<1> HIDE DEF f, l, m, r, y
<1>7. \A k \in 1 .. l : k \in 1 .. Len(r) /\ r[k] = g[k]
  <2>1. \A k \in 1 .. l : k \in 1 .. l + Len(w) /\ k <= l
    BY <1>3
  <2> QED BY <1>4, <2>1, Zenon
<1>8. \A j \in 1 .. m + 6 : j \in 1 .. Len(r) /\ r[j].is = f[j]
  <2>1. 1 \in 1 .. Len(r) /\ r[1].at = StartOf(s, n)
    <3>1. 1 \in 1 .. l
      BY <1>3
    <3> QED BY <1>7, <3>1, Zenon
  <2>2. \A j \in 1 .. m + 6 : 1 + j - 1 \in 1 .. Len(r) /\ r[1 + j - 1].is = f[j]
    BY <1>1, <2>1, Zenon DEF Rest, Unbroken, m, f
  <2>3. \A j \in 1 .. m + 6 : 1 + j - 1 = j
    BY <1>2
  <2> QED BY <2>2, <2>3
<1>9. \A k \in 1 .. l : k \in 1 .. m + 6 => y[k] = f[k]
  BY <1>5, <1>7, <1>8, Zenon
<1>10. l < m + 6
  <2>1. CASE l >= 5
    <3>1. 5 \in 1 .. l /\ 5 \in 1 .. m + 6
      BY <1>2, <1>3, <2>1
    <3>2. y[5] = m
      BY <1>6, <1>9, <3>1
    <3>3. l <= 5 + y[5]
      BY <1>5, <2>1, Zenon DEF HeadOk, y
    <3> QED BY <1>2, <1>3, <3>2, <3>3
  <2> QED BY <1>2, <1>3, <2>1
<1>11. /\ l + 1 \in 1 .. m + 6 /\ ~(l + 1 <= l) /\ (l + 1) - l = 1
       /\ \A k \in 1 .. l : k \in 1 .. m + 6
  BY <1>2, <1>3, <1>10
<1>12. l + 1 \in 1 .. Len(r) /\ r[l + 1].is = f[l + 1]
  BY <1>8, <1>11, Zenon
<1>13. w # <<>>
  BY <1>3, <1>4, <1>12
<1>14. Head(w) = r[l + 1]
  BY <1>1, <1>13, NextSymbol, Zenon DEF r, l
<1> QED BY <1>9, <1>11, <1>12, <1>13, <1>14, Zenon DEF f, l, m, y

\* What the parser finds in it is therefore right, and it is dispatched in the end.
LEMMA ReceivingRight ==
  ASSUME NEW s, NEW h, NEW g, NEW w, NEW o, BoardState(s, h, g, w, o),
         HeadOk(Symbols(g)), g # <<>>, NEW n \in Whole(s, h), g[1].at = StartOf(s, n)
  PROVE  LET y == Symbols(g)
             b == Head(w).is
         IN /\ Len(g) = 1 => b = 8
            /\ Len(g) = 4 => ~BadHeader(Append(y, b))
            /\ Len(g) >= 5 => y[4] = n
            /\ Len(g) >= 5 /\ Len(g) >= 5 + y[5] => b = Crc(y)
<1> DEFINE f == build_frame(n, s[n])
           l == Len(g)
           m == Len(s[n])
           y == Symbols(g)
           b == Head(w).is
<1>1. /\ l + 1 \in 1 .. m + 6 /\ b = f[l + 1]
      /\ \A k \in 1 .. l : k \in 1 .. m + 6 /\ y[k] = f[k]
  BY Receiving
<1>2. s \in Sends /\ g \in Seq(Sym)
  BY Zenon DEF BoardState
<1>3. /\ n \in Nat /\ s[n] \in Seq(Nat) /\ m \in Nat /\ m <= MAX_PAYLOAD /\ MAX_PAYLOAD \in Nat
  <2>1. s \in Seq(Seq(Nat)) /\ n \in DOMAIN s /\ MAX_PAYLOAD \in Nat
    BY <1>2, SendsAre, Zenon DEF Whole
  <2>2. m <= MAX_PAYLOAD /\ m \in Nat
    BY <1>2, <2>1, SendsAre, Zenon
  <2>3. n \in Nat /\ s[n] \in Seq(Nat)
    BY <2>1
  <2> HIDE DEF m
  <2> QED BY <2>1, <2>2, <2>3
<1>4. /\ f \in Seq(Nat) /\ Len(f) = m + 6
      /\ f[2] = 8 /\ f[3] = 1 /\ f[4] = n /\ f[5] = m
      /\ f[m + 6] = Crc(SubSeq(f, 1, m + 5))
  BY <1>3, FrameIs, ZenonT(30)
<1>5. y \in Seq(Nat) /\ Len(y) = l /\ l \in Nat
  BY <1>2, SymbolsAre
<1> HIDE DEF f, m, y, b, l
<1>6. b \in Nat
  BY <1>1, <1>4
<1>7. l = 4 => ~BadHeader(Append(y, b))
  <2> SUFFICES ASSUME l = 4 PROVE ~BadHeader(Append(y, b))
    OBVIOUS
  <2>1. Append(y, b)[5] = b /\ Append(y, b)[3] = y[3]
    <3>1. Append(y, b)[Len(y) + 1] = b /\ \A k \in 1 .. Len(y) : Append(y, b)[k] = y[k]
      <4>1. y \in Seq(Nat) /\ b \in Nat
        BY <1>5, <1>6
      <4> QED BY <4>1, AppendProperties
    <3>2. Len(y) + 1 = 5 /\ 3 \in 1 .. Len(y)
      BY <1>5
    <3> QED BY <3>1, <3>2
  <2>2. 3 \in 1 .. l /\ l + 1 = 5
    BY <1>5
  <2>3. b = m /\ y[3] = 1
    BY <1>1, <1>4, <2>2
  <2> QED BY <1>3, <2>1, <2>3 DEF BadHeader, VERSION, TooLong
<1>8. l >= 5 => 4 \in 1 .. l /\ 5 \in 1 .. l
  BY <1>5
<1>9. l >= 5 => y[4] = n /\ y[5] = m
  BY <1>1, <1>4, <1>8
<1>10. l >= 5 /\ l >= 5 + y[5] => b = Crc(y)
  <2> SUFFICES ASSUME l >= 5, l >= 5 + y[5] PROVE b = Crc(y)
    OBVIOUS
  <2>1. l + 1 = m + 6 /\ l = m + 5
    BY <1>1, <1>3, <1>5, <1>9
  <2>2. b = Crc(SubSeq(f, 1, l))
    BY <1>1, <1>4, <2>1
  <2>3. SubSeq(f, 1, l) = y
    <3> DEFINE x == SubSeq(f, 1, l)
    <3>1. \A k \in 1 .. l : k \in 1 .. m + 6 /\ f[k] \in Nat
      BY <1>1, <1>4, SMTT(30)
    <3>2. /\ x \in Seq(Nat) /\ Len(x) = IF 1 <= l THEN l - 1 + 1 ELSE 0
          /\ \A k \in 1 .. l - 1 + 1 : x[k] = f[1 + k - 1]
      BY <1>5, <3>1, SubSeqProperties
    <3> HIDE DEF x
    <3>3. Len(x) = l /\ l - 1 + 1 = l /\ \A k \in 1 .. l : 1 + k - 1 = k
      BY <1>5, <3>2
    <3>4. \A k \in 1 .. l : x[k] = y[k]
      BY <1>1, <3>2, <3>3
    <3> QED BY <1>5, <3>2, <3>3, <3>4, SeqEqual DEF x
  <2> QED BY <2>2, <2>3
<1>11. l = 1 => b = 8
  BY <1>1, <1>4
<1> QED BY <1>7, <1>9, <1>10, <1>11, Zenon DEF l, y, b

\* Every step of the parser keeps what starts far from what is hurt: s anew with the
\* symbol or without it, or with the symbol taken, or with a frame made of all.
LEMMA ReachedNext ==
  ASSUME NEW s, NEW h, NEW g, NEW w, NEW o, NEW f, NEW p,
         g \in Seq(Sym), w \in Seq(Sym), w # <<>>, Reached(s, h, g, w, o),
         \A i \in 1 .. Len(o) : i \in 1 .. Len(p) /\ p[i] = o[i],
         \A n \in Whole(s, h) : Far(s, h, n) /\ Head(w).at = StartOf(s, n) =>
           f # <<>> /\ f[1].at = StartOf(s, n),
         \A n \in Whole(s, h) : g # <<>> /\ g[1].at = StartOf(s, n) =>
           \/ \E i \in 1 .. Len(p) : p[i] = n
           \/ f # <<>> /\ f[1].at = StartOf(s, n)
  PROVE  Reached(s, h, f, Tail(w), p)
<1> DEFINE v == Tail(w)
<1> SUFFICES ASSUME NEW n \in Whole(s, h), Far(s, h, n)
             PROVE  \/ \E i \in 1 .. Len(p) : p[i] = n
                    \/ \E i \in 1 .. Len(v) : v[i].at = StartOf(s, n)
                    \/ f # <<>> /\ f[1].at = StartOf(s, n)
  BY Zenon DEF Reached
<1>1. /\ Head(w) = w[1] /\ Len(v) = Len(w) - 1 /\ Len(w) \in Nat \ {0}
      /\ \A k \in 1 .. Len(v) : v[k] = w[k + 1]
  <2>1. Len(w) \in Nat \ {0}
    BY EmptySeq
  <2>2. Head(w) = w[1] /\ Len(v) = Len(w) - 1 /\ \A k \in 1 .. Len(v) : v[k] = w[k + 1]
    BY HeadTailProperties
  <2> QED BY <2>1, <2>2
<1> HIDE DEF v
<1>2. CASE \E i \in 1 .. Len(w) : w[i].at = StartOf(s, n)
  <2>1. PICK i \in 1 .. Len(w) : w[i].at = StartOf(s, n)
    BY <1>2, Zenon
  <2>2. CASE i = 1
    <3>1. Head(w).at = StartOf(s, n)
      BY <1>1, <2>1, <2>2
    <3> QED BY <3>1, Zenon
  <2>3. CASE i # 1
    <3>1. i - 1 \in 1 .. Len(v) /\ (i - 1) + 1 = i
      BY <1>1, <2>3
    <3> QED BY <1>1, <2>1, <3>1, ZenonT(60)
  <2> QED BY <2>2, <2>3
<1>3. CASE \E i \in 1 .. Len(o) : o[i] = n
  BY <1>3, Zenon
<1>4. CASE g # <<>> /\ g[1].at = StartOf(s, n)
  BY <1>4, Zenon
<1> QED BY <1>2, <1>3, <1>4, Zenon DEF Reached

\* So the parser reaches every such frame, with each of its steps.
LEMMA BoardReaches ==
  ASSUME NEW s, NEW h, NEW g, NEW w, NEW o, BoardState(s, h, g, w, o), w # <<>>,
         HeadOk(Symbols(g)), Plain(s), Reached(s, h, g, w, o)
  PROVE  LET y == Symbols(g)
             e == Head(w)
             v == Tail(w)
         IN /\ (Len(g) = 1 => e.is = 8) => Reached(s, h, Append(g, e), v, o)
            /\ Len(g) < 2 /\ ~(Len(g) = 1 /\ e.is = 8) => Reached(s, h, <<e>>, v, o)
            /\ Len(g) < 2 /\ ~(Len(g) = 1 /\ e.is = 8) /\ e.is # 9 => Reached(s, h, <<>>, v, o)
            /\ Len(g) = 4 /\ BadHeader(Append(y, e.is)) => Reached(s, h, <<>>, v, Append(o, 0))
            /\ Len(g) >= 5 /\ Len(g) >= 5 + y[5] =>
                 /\ e.is # Crc(y) => Reached(s, h, <<>>, v, Append(o, 0))
                 /\ Reached(s, h, <<>>, v, Append(o, y[4]))
<1> DEFINE y == Symbols(g)
           e == Head(w)
           v == Tail(w)
           r == g \o w
           New(f) == \A n \in Whole(s, h) : Far(s, h, n) /\ e.at = StartOf(s, n) =>
                       f # <<>> /\ f[1].at = StartOf(s, n)
           On(f, p) == \A n \in Whole(s, h) : g # <<>> /\ g[1].at = StartOf(s, n) =>
                         \/ \E i \in 1 .. Len(p) : p[i] = n
                         \/ f # <<>> /\ f[1].at = StartOf(s, n)
           Kept(p) == \A i \in 1 .. Len(o) : i \in 1 .. Len(p) /\ p[i] = o[i]
<1>1. /\ s \in Sends /\ g \in Seq(Sym) /\ w \in Seq(Sym) /\ Rest(s, h, r)
      /\ Present(s, h, r) /\ o \in Seq(Nat)
  BY Zenon DEF BoardState, Taken
<1>2. e \in Sym /\ Len(g) \in Nat /\ y \in Seq(Nat) /\ Len(y) = Len(g)
  <2>1. e \in Sym
    BY <1>1, OneOn
  <2>2. y \in Seq(Nat) /\ Len(y) = Len(g)
    BY <1>1, SymbolsAre
  <2> QED BY <1>1, <2>1, <2>2
<1>3. ASSUME NEW n \in Whole(s, h), Far(s, h, n), e.at = StartOf(s, n)
      PROVE  Len(g) < 2 /\ e.is = 9
  <2>1. ~(Len(g) >= 2)
    BY <1>1, <1>3, Swallowed
  <2>2. Len(g) + 1 \in 1 .. Len(r) /\ r[Len(g) + 1] = e
    BY <1>1, NextSymbol
  <2>3. n \in Nat /\ s[n] \in Seq(Nat)
    <3>1. s \in Seq(Seq(Nat)) /\ n \in DOMAIN s
      BY <1>1, SendsAre, Zenon DEF Whole
    <3> QED BY <3>1
  <2>4. build_frame(n, s[n])[1] = 9 /\ 1 \in 1 .. Len(s[n]) + 6
    <3>1. build_frame(n, s[n])[1] = 9 /\ Len(s[n]) \in Nat
      BY <2>3, FrameIs
    <3> QED BY <3>1
  <2>5. r[Len(g) + 1 + 1 - 1].is = build_frame(n, s[n])[1]
    <3> HIDE DEF r, e
    <3> QED BY <1>1, <1>3, <2>2, <2>4, Zenon DEF Rest, Unbroken
  <2>6. Len(g) + 1 + 1 - 1 = Len(g) + 1
    BY <1>2
  <2> HIDE DEF e, r
  <2> QED BY <1>2, <2>1, <2>2, <2>4, <2>5, <2>6
<1>4. ASSUME NEW n \in Whole(s, h), g # <<>>, g[1].at = StartOf(s, n)
      PROVE  /\ Len(g) = 1 => e.is = 8
             /\ Len(g) = 4 => ~BadHeader(Append(y, e.is))
             /\ Len(g) >= 5 => y[4] = n
             /\ Len(g) >= 5 /\ Len(g) >= 5 + y[5] => e.is = Crc(y)
             /\ Len(g) >= 1
  <2>1. Len(g) >= 1
    BY <1>1, <1>4, EmptySeq
  <2> QED BY <1>4, <2>1, ReceivingRight
<1> HIDE DEF y, e, r
<1>5. ASSUME NEW f, NEW p, New(f), On(f, p), Kept(p) PROVE Reached(s, h, f, v, p)
  BY <1>1, <1>5, ReachedNext DEF e
<1>6. Kept(o) /\ \A x \in Nat : Kept(Append(o, x))
               /\ \E i \in 1 .. Len(Append(o, x)) : Append(o, x)[i] = x
  <2>1. ASSUME NEW x \in Nat
        PROVE  Kept(Append(o, x)) /\ \E i \in 1 .. Len(Append(o, x)) : Append(o, x)[i] = x
    <3> DEFINE p == Append(o, x)
               l == Len(o)
    <3>1. /\ Len(p) = l + 1 /\ l \in Nat /\ p[l + 1] = x /\ \A i \in 1 .. l : p[i] = o[i]
      BY <1>1, AppendProperties
    <3> HIDE DEF p, l
    <3>2. l + 1 \in 1 .. Len(p) /\ \A i \in 1 .. l : i \in 1 .. Len(p)
      BY <3>1
    <3> QED BY <3>1, <3>2, Zenon DEF p, l
  <2> QED BY <2>1, Zenon
<1>7. <<e>> # <<>> /\ <<e>>[1] = e /\ Append(g, e) # <<>>
      /\ (Len(g) = 0 => Append(g, e)[1] = e) /\ (Len(g) >= 1 => Append(g, e)[1] = g[1])
  <2>1. <<e>> # <<>> /\ <<e>>[1] = e
    OBVIOUS
  <2>2. /\ Len(Append(g, e)) = Len(g) + 1 /\ Append(g, e)[Len(g) + 1] = e
        /\ \A i \in 1 .. Len(g) : Append(g, e)[i] = g[i]
    BY <1>1, <1>2, AppendProperties
  <2>3. Append(g, e) # <<>>
    <3>1. Len(Append(g, e)) # 0 /\ Append(g, e) \in Seq(Sym)
      BY <1>1, <1>2, <2>2, AppendProperties
    <3> QED BY <3>1, EmptySeq
  <2>4. Len(g) >= 1 => 1 \in 1 .. Len(g)
    BY <1>2
  <2>5. Len(g) = 0 => Append(g, e)[1] = e
    BY <2>2
  <2> QED BY <2>1, <2>2, <2>3, <2>4, <2>5, Zenon
<1> HIDE DEF v, Kept
<1>8. (Len(g) = 1 => e.is = 8) => Reached(s, h, Append(g, e), v, o)
  <2> SUFFICES ASSUME Len(g) = 1 => e.is = 8 PROVE Reached(s, h, Append(g, e), v, o)
    OBVIOUS
  <2>1. New(Append(g, e))
    <3> SUFFICES ASSUME NEW n \in Whole(s, h), Far(s, h, n), e.at = StartOf(s, n)
                 PROVE  Append(g, e) # <<>> /\ Append(g, e)[1].at = StartOf(s, n)
      BY Zenon
    <3>1. Len(g) < 2 /\ e.is = 9
      BY <1>3, Zenon
    <3>2. Len(g) = 0
      BY <1>2, <3>1
    <3> QED BY <1>7, <3>2, Zenon
  <2>2. On(Append(g, e), o)
    BY <1>4, <1>7, Zenon
  <2> HIDE DEF New, On
  <2> QED BY <1>5, <1>6, <2>1, <2>2, Zenon
<1>9. ASSUME Len(g) < 2, ~(Len(g) = 1 /\ e.is = 8)
      PROVE  \A n \in Whole(s, h) : ~(g # <<>> /\ g[1].at = StartOf(s, n))
  <2> SUFFICES ASSUME NEW n \in Whole(s, h), g # <<>>, g[1].at = StartOf(s, n) PROVE FALSE
    OBVIOUS
  <2>1. Len(g) = 1
    BY <1>2, <1>4, <1>9
  <2> QED BY <1>4, <1>9, <2>1, Zenon
<1>10. Len(g) < 2 /\ ~(Len(g) = 1 /\ e.is = 8) => Reached(s, h, <<e>>, v, o)
  <2> SUFFICES ASSUME Len(g) < 2, ~(Len(g) = 1 /\ e.is = 8) PROVE Reached(s, h, <<e>>, v, o)
    OBVIOUS
  <2>1. New(<<e>>) /\ On(<<e>>, o)
    BY <1>7, <1>9, Zenon
  <2> HIDE DEF New, On
  <2> QED BY <1>5, <1>6, <2>1, Zenon
<1>11. Len(g) < 2 /\ ~(Len(g) = 1 /\ e.is = 8) /\ e.is # 9 => Reached(s, h, <<>>, v, o)
  <2> SUFFICES ASSUME Len(g) < 2, ~(Len(g) = 1 /\ e.is = 8), e.is # 9 PROVE Reached(s, h, <<>>, v, o)
    OBVIOUS
  <2>1. New(<<>>) /\ On(<<>>, o)
    BY <1>3, <1>9, Zenon
  <2> HIDE DEF New, On
  <2> QED BY <1>5, <1>6, <2>1, Zenon
<1>12. ASSUME Len(g) >= 2 PROVE New(<<>>)
  <2>1. ~(Len(g) < 2)
    BY <1>2, <1>12
  <2> QED BY <1>3, <2>1, Zenon
<1>13. Len(g) = 4 /\ BadHeader(Append(y, e.is)) => Reached(s, h, <<>>, v, Append(o, 0))
  <2> SUFFICES ASSUME Len(g) = 4, BadHeader(Append(y, e.is)) PROVE Reached(s, h, <<>>, v, Append(o, 0))
    OBVIOUS
  <2>1. New(<<>>)
    <3>1. Len(g) >= 2
      BY <1>2
    <3> QED BY <1>12, <3>1, Zenon
  <2>2. On(<<>>, Append(o, 0))
    BY <1>4, Zenon
  <2>3. 0 \in Nat
    OBVIOUS
  <2> HIDE DEF New, On
  <2> QED BY <1>5, <1>6, <2>1, <2>2, <2>3, Zenon
<1>14. ASSUME Len(g) >= 5, Len(g) >= 5 + y[5]
       PROVE  /\ e.is # Crc(y) => Reached(s, h, <<>>, v, Append(o, 0))
              /\ Reached(s, h, <<>>, v, Append(o, y[4]))
  <2>1. New(<<>>)
    <3>1. Len(g) >= 2
      BY <1>2, <1>14
    <3> QED BY <1>12, <3>1, Zenon
  <2>2. e.is # Crc(y) => On(<<>>, Append(o, 0))
    BY <1>4, <1>14, Zenon
  <2>3. y[4] \in Nat /\ 0 \in Nat
    <3>1. 4 \in 1 .. Len(y)
      BY <1>2, <1>14
    <3> QED BY <1>2, <3>1
  <2>4. On(<<>>, Append(o, y[4]))
    <3> SUFFICES ASSUME NEW n \in Whole(s, h), g # <<>>, g[1].at = StartOf(s, n)
                 PROVE  \E i \in 1 .. Len(Append(o, y[4])) : Append(o, y[4])[i] = n
      BY Zenon
    <3>1. y[4] = n
      BY <1>4, <1>14, Zenon
    <3>2. \E i \in 1 .. Len(Append(o, y[4])) : Append(o, y[4])[i] = y[4]
      BY <1>6, <2>3, Zenon
    <3> QED BY <3>1, <3>2, Zenon
  <2> HIDE DEF New, On
  <2>5. e.is # Crc(y) => Reached(s, h, <<>>, v, Append(o, 0))
    BY <1>5, <1>6, <2>1, <2>2, <2>3, Zenon
  <2>6. Reached(s, h, <<>>, v, Append(o, y[4]))
    BY <1>5, <1>6, <2>1, <2>3, <2>4, Zenon
  <2> QED BY <2>5, <2>6, Zenon
<1> QED BY <1>8, <1>10, <1>11, <1>13, <1>14, Zenon DEF y, e, v

\* The board's invariant.
LEMMA BoardInvariant == Spec => []BoardInv
<1>1. Init => BoardInv
  <2> SUFFICES ASSUME Init
               PROVE  HeadOk(got) /\ \E g \in Seq(Sym) :
                        /\ Symbols(g) = got
                        /\ BoardState(sent, hurt, g, wire, out)
                        /\ Plain(sent) => Reached(sent, hurt, g, wire, out)
    BY Zenon DEF BoardInv
  <2>1. LineInit /\ got = <<>> /\ out = <<>>
    BY DEF Init, LineInit
  <2>2. /\ sent \in Sends /\ Rest(sent, hurt, wire) /\ Present(sent, hurt, wire)
        /\ NoneLost(sent, hurt, wire, <<>>)
    BY <2>1, AtFirst
  <2>3. wire \in Seq(Sym)
    BY <2>2, Zenon DEF Rest
  <2>4. <<>> \o wire = wire /\ <<>> \in Seq(Sym)
    BY <2>3, ConcatEmptySeq
  <2>5. Taken(sent, wire, <<>>)
    BY DEF Taken
  <2>6. Symbols(<<>>) = <<>>
    <3>1. Symbols(<<>>) \in Seq(Nat) /\ Len(Symbols(<<>>)) = Len(<<>>)
      BY <2>4, SymbolsAre
    <3> QED BY <3>1, EmptySeq
  <2>7. HeadOk(<<>>)
    BY DEF HeadOk
  <2>8. Reached(sent, hurt, <<>>, wire, <<>>)
    BY <2>2, Zenon DEF NoneLost, Reached
  <2> QED BY <2>1, <2>2, <2>3, <2>4, <2>5, <2>6, <2>7, <2>8, Zenon DEF BoardState
<1>2. BoardInv /\ [Next]_vars => BoardInv'
  <2> SUFFICES ASSUME BoardInv, [Next]_vars, receiver' = "board"
               PROVE  HeadOk(got') /\ \E g \in Seq(Sym) :
                        /\ Symbols(g) = got'
                        /\ BoardState(sent', hurt', g, wire', out')
                        /\ Plain(sent') => Reached(sent', hurt', g, wire', out')
    BY Zenon DEF BoardInv
  <2>1. receiver = "board" /\ ((Host \/ Board) \/ UNCHANGED vars)
    BY DEF Next, Host, Board, vars
  <2>2. HeadOk(got)
    BY <2>1, Zenon DEF BoardInv
  <2>3. PICK g \in Seq(Sym) : /\ Symbols(g) = got
                              /\ BoardState(sent, hurt, g, wire, out)
                              /\ Plain(sent) => Reached(sent, hurt, g, wire, out)
    BY <2>1, Zenon DEF BoardInv
  <2>4. CASE Board
    <3> DEFINE b == Arrived
               Next1(c, o) == \E f \in Seq(Sym) :
                                /\ Symbols(f) = c
                                /\ BoardState(sent, hurt, f, Tail(wire), o)
                                /\ Plain(sent) => Reached(sent, hurt, f, Tail(wire), o)
    <3>1. /\ wire # <<>> /\ (sync_to_magic \/ ReadHeader \/ ReadPayload)
          /\ wire' = Tail(wire) /\ sent' = sent /\ hurt' = hurt
      BY <2>4 DEF Board, parse_one_frame, Take
    <3>2. g \in Seq(Sym) /\ wire \in Seq(Sym)
      BY <2>3, Zenon DEF BoardState
    <3>3. got \in Seq(Nat) /\ Len(got) = Len(g) /\ Len(got) \in Nat
      BY <2>3, SymbolsAre
    <3>4. /\ Head(wire) \in Sym /\ Append(g, Head(wire)) \in Seq(Sym)
          /\ Symbols(Append(g, Head(wire))) = Append(got, Head(wire).is)
      BY <2>3, <3>1, <3>2, OneOn
    <3>5. b \in Nat
      BY <3>4 DEF Arrived, Sym
    <3>6. /\ BoardState(sent, hurt, Append(g, Head(wire)), Tail(wire), out)
          /\ BoardState(sent, hurt, <<>>, Tail(wire), out)
          /\ BoardState(sent, hurt, <<Head(wire)>>, Tail(wire), out)
          /\ BoardState(sent, hurt, <<>>, Tail(wire), Append(out, 0))
      BY <2>3, <3>1, BoardKeeps
    <3>7. Symbols(<<>>) = <<>> /\ Symbols(<<Head(wire)>>) = <<b>> /\ <<Head(wire)>> \in Seq(Sym)
          /\ <<>> \in Seq(Sym)
      <4>1. <<>> \in Seq(Sym) /\ <<Head(wire)>> \in Seq(Sym) /\ Len(<<Head(wire)>>) = 1
            /\ <<Head(wire)>>[1] = Head(wire)
        BY <3>4
      <4>2. Symbols(<<>>) = <<>>
        <5>1. Symbols(<<>>) \in Seq(Nat) /\ Len(Symbols(<<>>)) = Len(<<>>)
          BY <4>1, SymbolsAre
        <5> QED BY <5>1, EmptySeq
      <4>3. Symbols(<<Head(wire)>>) = <<b>>
        <5> DEFINE c == Symbols(<<Head(wire)>>)
        <5>1. c \in Seq(Nat) /\ Len(c) = 1 /\ c[1] = Head(wire).is
          <6>1. /\ c \in Seq(Nat) /\ Len(c) = Len(<<Head(wire)>>)
                /\ \A k \in 1 .. Len(<<Head(wire)>>) : c[k] = <<Head(wire)>>[k].is
            BY <4>1, SymbolsAre
          <6> HIDE DEF c
          <6> QED BY <4>1, <6>1
        <5> HIDE DEF c
        <5>2. c = <<Head(wire).is>>
          BY <5>1
        <5> QED BY <5>2 DEF c, Arrived
      <4> QED BY <4>1, <4>2, <4>3
    <3> DEFINE Reaches(f, o) == Plain(sent) => Reached(sent, hurt, f, Tail(wire), o)
    <3>8. /\ (Len(got) = 1 => b = 8) => Reaches(Append(g, Head(wire)), out)
          /\ Len(got) < 2 /\ ~(Len(got) = 1 /\ b = 8) => Reaches(<<Head(wire)>>, out)
          /\ Len(got) < 2 /\ ~(Len(got) = 1 /\ b = 8) /\ b # 9 => Reaches(<<>>, out)
          /\ Len(got) = 4 /\ BadHeader(Append(got, b)) => Reaches(<<>>, Append(out, 0))
          /\ Len(got) >= 5 /\ Len(got) >= 5 + got[5] =>
               /\ b # Crc(got) => Reaches(<<>>, Append(out, 0))
               /\ Reaches(<<>>, Append(out, got[4]))
      <4> SUFFICES ASSUME Plain(sent)
                   PROVE  /\ (Len(got) = 1 => b = 8) => Reaches(Append(g, Head(wire)), out)
                          /\ Len(got) < 2 /\ ~(Len(got) = 1 /\ b = 8) => Reaches(<<Head(wire)>>, out)
                          /\ Len(got) < 2 /\ ~(Len(got) = 1 /\ b = 8) /\ b # 9 => Reaches(<<>>, out)
                          /\ Len(got) = 4 /\ BadHeader(Append(got, b)) => Reaches(<<>>, Append(out, 0))
                          /\ Len(got) >= 5 /\ Len(got) >= 5 + got[5] =>
                               /\ b # Crc(got) => Reaches(<<>>, Append(out, 0))
                               /\ Reaches(<<>>, Append(out, got[4]))
        BY Zenon
      <4>1. HeadOk(Symbols(g)) /\ Reached(sent, hurt, g, wire, out)
        BY <2>2, <2>3, Zenon
      <4>2. /\ (Len(g) = 1 => b = 8) => Reached(sent, hurt, Append(g, Head(wire)), Tail(wire), out)
            /\ Len(g) < 2 /\ ~(Len(g) = 1 /\ b = 8) => Reached(sent, hurt, <<Head(wire)>>, Tail(wire), out)
            /\ Len(g) < 2 /\ ~(Len(g) = 1 /\ b = 8) /\ b # 9 => Reached(sent, hurt, <<>>, Tail(wire), out)
            /\ Len(g) = 4 /\ BadHeader(Append(Symbols(g), b)) =>
                 Reached(sent, hurt, <<>>, Tail(wire), Append(out, 0))
            /\ Len(g) >= 5 /\ Len(g) >= 5 + Symbols(g)[5] =>
                 /\ b # Crc(Symbols(g)) => Reached(sent, hurt, <<>>, Tail(wire), Append(out, 0))
                 /\ Reached(sent, hurt, <<>>, Tail(wire), Append(out, Symbols(g)[4]))
        BY <2>3, <3>1, <4>1, BoardReaches DEF Arrived
      <4>3. Symbols(g) = got /\ Len(g) = Len(got)
        BY <2>3, <3>3, Zenon
      <4> HIDE DEF b
      <4> QED BY <4>2, <4>3, Zenon
    <3> HIDE DEF b, Reaches
    <3>9. /\ Reaches(Append(g, Head(wire)), out) => Next1(Append(got, b), out)
          /\ Reaches(<<>>, out) => Next1(<<>>, out)
          /\ Reaches(<<Head(wire)>>, out) => Next1(<<b>>, out)
          /\ Reaches(<<>>, Append(out, 0)) => Next1(<<>>, Append(out, 0))
      BY <3>4, <3>6, <3>7, Zenon DEF Reaches, b, Arrived
    <3>10. HeadOk(<<>>) /\ (b = 9 => HeadOk(<<b>>))
      BY DEF HeadOk
    <3> HIDE DEF Next1
    <3>11. HeadOk(got') /\ Next1(got', out')
      <4>1. CASE sync_to_magic
        <5>1. out' = out /\ Len(got) < 2
              /\ got' = IF b = Magic[Len(got) + 1] THEN Append(got, b) ELSE Restart(b)
          BY <4>1 DEF sync_to_magic, Magic, b
        <5>2. CASE b = Magic[Len(got) + 1]
          <6>1. HeadOk(Append(got, b))
            BY <2>2, <3>3, <3>5, <5>1, <5>2, HeadGrows DEF Magic
          <6>2. Len(got) = 1 => b = 8
            BY <5>2 DEF Magic
          <6> QED BY <3>8, <3>9, <5>1, <5>2, <6>1, <6>2, Zenon
        <5>3. CASE b # Magic[Len(got) + 1]
          <6>1. (b # 9 /\ got' = <<>>) \/ (b = 9 /\ got' = <<b>>)
            BY <5>1, <5>3 DEF Restart, Magic
          <6>2. ~(Len(got) = 1 /\ b = 8)
            <7>1. Magic[1 + 1] = 8
              BY DEF Magic
            <7> QED BY <5>3, <7>1, Zenon
          <6> QED BY <3>8, <3>9, <3>10, <5>1, <6>1, <6>2, Zenon
        <5> QED BY <5>2, <5>3
      <4>2. CASE ReadHeader
        <5>1. Len(got) \in 2 .. 4
          <6>1. Len(got) \in Len(Magic) .. HEADER_LEN - 1
            BY <4>2, Zenon DEF ReadHeader
          <6>2. Len(Magic) = 2 /\ HEADER_LEN = 5
            BY DEF Magic, HEADER_LEN
          <6> QED BY <3>3, <6>1, <6>2
        <5>2. CASE Len(Append(got, b)) = 5 /\ BadHeader(Append(got, b))
          <6>1. out' = Append(out, 0) /\ got' = <<>>
            BY <4>2, <5>2 DEF ReadHeader, Refuse, HEADER_LEN, b
          <6>2. Len(got) = 4
            <7>1. Len(Append(got, b)) = Len(got) + 1
              BY <3>3, <3>5, AppendProperties
            <7> QED BY <3>3, <5>2, <7>1
          <6> QED BY <3>8, <3>9, <3>10, <5>2, <6>1, <6>2, Zenon
        <5>3. CASE ~(Len(Append(got, b)) = 5 /\ BadHeader(Append(got, b)))
          <6>1. out' = out /\ got' = Append(got, b)
            BY <4>2, <5>3 DEF ReadHeader, HEADER_LEN, b
          <6>2. Len(got) = 4 => b <= MAX_PAYLOAD
            <7>1. Len(Append(got, b)) = Len(got) + 1 /\ Append(got, b)[Len(got) + 1] = b
              BY <3>3, <3>5, AppendProperties
            <7>2. Len(got) = 4 => ~TooLong(b)
              BY <5>3, <7>1 DEF BadHeader
            <7> QED BY <3>5, <7>2, LineAssumption DEF TooLong
          <6>3. HeadOk(Append(got, b))
            <7>1. /\ Len(got) = 0 => b = 9
                  /\ Len(got) = 1 => b = 8
                  /\ Len(got) >= 5 => Len(got) < 5 + got[5]
              <8>1. Len(got) # 0 /\ Len(got) # 1 /\ ~(Len(got) >= 5)
                <9>1. \A n \in 2 .. 4 : n # 0 /\ n # 1 /\ ~(n >= 5)
                  OBVIOUS
                <9> QED BY <5>1, <9>1, Zenon
              <8> QED BY <8>1, Zenon
            <7> QED BY <2>2, <3>3, <3>5, <6>2, <7>1, HeadGrows, Zenon
          <6>4. Len(got) # 1
            <7>1. \A n \in 2 .. 4 : n # 1
              OBVIOUS
            <7> QED BY <5>1, <7>1, Zenon
          <6> QED BY <3>8, <3>9, <6>1, <6>3, <6>4, Zenon
        <5> QED BY <5>2, <5>3
      <4>3. CASE ReadPayload
        <5>1. Len(got) >= 5
          BY <4>3 DEF ReadPayload, HEADER_LEN
        <5>2. CASE Len(got) < 5 + got[5]
          <6>1. out' = out /\ got' = Append(got, b)
            BY <4>3, <5>2 DEF ReadPayload, HEADER_LEN, b
          <6>2. HeadOk(Append(got, b))
            BY <2>2, <3>3, <3>5, <5>1, <5>2, HeadGrows
          <6>3. Len(got) # 1
            BY <3>3, <5>1
          <6> QED BY <3>8, <3>9, <6>1, <6>2, <6>3, Zenon
        <5>3. CASE ~(Len(got) < 5 + got[5]) /\ CrcMatches(got, b)
          <6>1. out' = Append(out, got[4]) /\ got' = <<>>
            BY <4>3, <5>3 DEF ReadPayload, HEADER_LEN, b
          <6>2. BoardState(sent, hurt, <<>>, Tail(wire), Append(out, got[4]))
            <7>1. got[5] \in Nat
              BY <3>3, <5>1
            <7>2. /\ HeadOk(Symbols(g)) /\ Len(g) >= 5 /\ Len(g) >= 5 + Symbols(g)[5]
                  /\ Head(wire).is = Crc(Symbols(g))
              BY <2>2, <2>3, <3>3, <5>1, <5>3, <7>1 DEF CrcMatches, b, Arrived
            <7>3. BoardState(sent, hurt, <<>>, Tail(wire), Append(out, Symbols(g)[4]))
              BY <2>3, <3>1, <7>2, BoardDispatches
            <7> QED BY <2>3, <7>3, Zenon
          <6>3. Reaches(<<>>, Append(out, got[4]))
            <7>1. got[5] \in Nat
              BY <3>3, <5>1
            <7>2. Len(got) >= 5 + got[5]
              BY <3>3, <5>3, <7>1
            <7> QED BY <3>8, <5>1, <7>2, Zenon
          <6> QED BY <3>7, <3>10, <6>1, <6>2, <6>3, Zenon DEF Next1, Reaches
        <5>4. CASE ~(Len(got) < 5 + got[5]) /\ ~CrcMatches(got, b)
          <6>1. out' = Append(out, 0) /\ got' = <<>>
            BY <4>3, <5>4 DEF ReadPayload, Refuse, HEADER_LEN, b
          <6>2. Len(got) >= 5 + got[5] /\ b # Crc(got)
            <7>1. got[5] \in Nat
              BY <3>3, <5>1
            <7> QED BY <3>3, <5>4, <7>1 DEF CrcMatches
          <6> QED BY <3>8, <3>9, <3>10, <5>1, <6>1, <6>2, Zenon
        <5> QED BY <5>2, <5>3, <5>4
      <4> QED BY <3>1, <4>1, <4>2, <4>3
    <3> QED BY <3>1, <3>11, Zenon DEF Next1
  <2>5. CASE Host
    BY <2>1, <2>5, Zenon DEF Host
  <2>6. CASE UNCHANGED vars
    <3>1. got' = got /\ sent' = sent /\ hurt' = hurt /\ wire' = wire /\ out' = out
      BY <2>6 DEF vars, lineVars
    <3> QED BY <2>2, <2>3, <3>1, Zenon
  <2> QED BY <2>1, <2>4, <2>5, <2>6
<1> QED BY <1>1, <1>2, PTL DEF Spec

\* The board dispatches no command that was not sent, none twice and none out of
\* order, whatever is lost or damaged: parse_one_frame checks every frame's CRC.
THEOREM ParserInventsNothing == Spec => []BoardInventsNothing
<1>1. BoardInv => BoardInventsNothing
  <2> SUFFICES ASSUME BoardInv, receiver = "board" PROVE NothingInvented
    BY Zenon DEF BoardInventsNothing
  <2>1. PICK g : Taken(sent, g \o wire, out)
    BY Zenon DEF BoardInv, BoardState
  <2>2. DOMAIN out = 1 .. Len(out)
    <3>1. out \in Seq(Nat)
      BY <2>1, Zenon DEF Taken
    <3> QED BY <3>1
  <2> QED BY <2>1, <2>2, Zenon DEF NothingInvented, Dispatched, Taken
<1> QED BY <1>1, BoardInvariant, PTL

\* A fault makes the board swallow no command but those that start within one longest
\* frame of it, on lines that hold the magic at the frames' starts only: sync_to_magic
\* finds every other start, and the parser, which never looks back, takes what it finds
\* there to its end.
THEOREM ParserSwallowBounded == Spec => []BoardSwallowBounded
<1>1. BoardInv => BoardSwallowBounded
  <2> SUFFICES ASSUME BoardInv, receiver = "board", wire = <<>>, Plain(sent),
                      NEW n \in Undamaged, Far(sent, hurt, n)
               PROVE  n \in ToSet(out)
    BY Zenon DEF BoardSwallowBounded, SwallowBounded, Far
  <2>1. HeadOk(got)
    BY Zenon DEF BoardInv
  <2>2. PICK g \in Seq(Sym) : /\ Symbols(g) = got
                              /\ BoardState(sent, hurt, g, wire, out)
                              /\ Reached(sent, hurt, g, wire, out)
    BY Zenon DEF BoardInv
  <2>3. n \in Whole(sent, hurt)
    BY Zenon DEF Undamaged, Whole
  <2>4. ~(g # <<>> /\ g[1].at = StartOf(sent, n))
    BY <2>1, <2>2, <2>3, Receiving
  <2>5. ~(\E i \in 1 .. Len(wire) : wire[i].at = StartOf(sent, n))
    <3>1. 1 .. Len(<<>>) = {}
      OBVIOUS
    <3> QED BY <3>1
  <2>6. PICK i \in 1 .. Len(out) : out[i] = n
    BY <2>2, <2>3, <2>4, <2>5, Zenon DEF Reached
  <2>7. i \in DOMAIN out
    <3>1. out \in Seq(Nat)
      BY <2>2, Zenon DEF BoardState, Taken
    <3> QED BY <3>1
  <2> QED BY <2>6, <2>7 DEF ToSet
<1> QED BY <1>1, BoardInvariant, PTL
=============================================================================
