--------------------------- MODULE LogBufferProofs ---------------------------
(***************************************************************************)
(* Proofs about the ring buffer: for every size, every sequence of lines   *)
(* and every pattern, Match returns the lines that the match in the joined *)
(* text covers.  The inductions go over sets of numbers: a set that holds  *)
(* 0, and the successor of what it holds, holds them all.                  *)
(***************************************************************************)
EXTENDS LogBuffer, SequenceTheorems, FiniteSetTheorems, WellFoundedInduction, TLAPS

\* The ring holds the last lines: its slots are the window, and a cached text is
\* the text of the window.
RingHolds(b, lines) ==
    /\ b \in [buffer : [0 .. BufferSize - 1 -> AnyLog], current : Nat, joined : Seq(Letter),
              joinedOK : BOOLEAN]
    /\ Slots(b) = Window(lines)
    /\ b.current = 0 <=> lines = <<>>
    /\ b.joinedOK => b.joined = concatLogs(Window(lines))

-----------------------------------------------------------------------------
(* Numbers *)

\* A nonempty set of natural numbers has a least element.
LEMMA Least ==
    ASSUME NEW S \in SUBSET Nat, S # {}
    PROVE  \E n \in S : \A m \in S : n <= m
<1> DEFINE T == {0 .. n : n \in S}
<1>1. \A n \in Nat : 0 .. n \in FiniteSubsetsOf(Nat)
  <2> TAKE n \in Nat
  <2>1. IsFiniteSet(0 .. n)
    BY FS_Interval
  <2> QED BY <2>1 DEF FiniteSubsetsOf
<1>2. T \subseteq FiniteSubsetsOf(Nat) /\ T # {}
  BY <1>1, Zenon
<1>3. IsWellFoundedOn(StrictSubsetOrdering(Nat), FiniteSubsetsOf(Nat))
  BY FS_StrictSubsetOrderingWellFounded
<1> HIDE DEF T
<1>4. PICK X \in T : \A Y \in T : ~(<<Y, X>> \in StrictSubsetOrdering(Nat))
  BY <1>2, <1>3, WFMin
<1>5. PICK n \in S : X = 0 .. n
  BY <1>4 DEF T
<1>6. ASSUME NEW m \in S, m < n PROVE FALSE
  <2>1. 0 .. m \in T
    BY DEF T
  <2>2. <<0 .. m, X>> \in StrictSubsetOrdering(Nat)
    BY <1>5, <1>6 DEF StrictSubsetOrdering
  <2> QED BY <2>1, <2>2, <1>4
<1> QED BY <1>6

\* Induction up to N, over a set.
LEMMA SetInduction ==
    ASSUME NEW N \in Nat, NEW T, 0 \in T, \A i \in 1 .. N : i - 1 \in T => i \in T
    PROVE  0 .. N \subseteq T
<1> DEFINE Missing == {n \in 0 .. N : n \notin T}
<1> SUFFICES ASSUME Missing # {} PROVE FALSE
  OBVIOUS
<1>1. PICK n \in Missing : \A m \in Missing : n <= m
  <2>1. Missing \in SUBSET Nat
    OBVIOUS
  <2> HIDE DEF Missing
  <2> QED BY <2>1, Least
<1>2. n \in 1 .. N /\ n - 1 \in 0 .. N /\ ~(n <= n - 1)
  BY <1>1
<1>3. n - 1 \in T
  BY <1>1, <1>2
<1> QED BY <1>1, <1>2, <1>3

\* f begins with a and goes on by the steps of G.
Follows(f, N, a, G) == f[0] = a /\ \A i \in 1 .. N : f[i] = G[i][f[i - 1]]

\* A function on 0 .. N is defined by its first value and its steps.
LEMMA Recursion ==
    ASSUME NEW N \in Nat, NEW S, NEW a \in S, NEW G \in [1 .. N -> [S -> S]]
    PROVE  \E f \in [0 .. N -> S] : Follows(f, N, a, G)
<1> DEFINE Good(f, n) == f[0] = a /\ \A i \in 1 .. n : f[i] = G[i][f[i - 1]]
           T == {n \in 0 .. N : \E f \in [0 .. n -> S] : Good(f, n)}
<1>1. 0 \in T
  <2> DEFINE f == [i \in 0 .. 0 |-> a]
  <2>1. f \in [0 .. 0 -> S] /\ Good(f, 0)
    OBVIOUS
  <2> HIDE DEF f, Good
  <2> QED BY <2>1
<1>2. ASSUME NEW n \in 1 .. N, n - 1 \in T PROVE n \in T
  <2>1. PICK f \in [0 .. n - 1 -> S] : Good(f, n - 1)
    BY <1>2
  <2> DEFINE g == [i \in 0 .. n |-> IF i = n THEN G[n][f[n - 1]] ELSE f[i]]
  <2>2. f[n - 1] \in S /\ G[n] \in [S -> S]
    OBVIOUS
  <2>3. g \in [0 .. n -> S]
    BY <2>2
  <2>4. g[0] = a
    BY <2>1
  <2>5. ASSUME NEW i \in 1 .. n PROVE g[i] = G[i][g[i - 1]]
    <3>1. i - 1 \in 0 .. n - 1 /\ i - 1 # n /\ i - 1 \in 0 .. n
      OBVIOUS
    <3>2. g[i - 1] = f[i - 1]
      BY <3>1
    <3>3. CASE i = n
      BY <3>2, <3>3
    <3>4. CASE i # n
      <4>1. i \in 1 .. n - 1
        BY <3>4
      <4> QED BY <4>1, <2>1, <3>2
    <3> QED BY <3>3, <3>4
  <2>6. Good(g, n)
    BY <2>4, <2>5, Zenon
  <2> HIDE DEF g, Good
  <2> QED BY <2>3, <2>6
<1> HIDE DEF T
<1>3. 0 .. N \subseteq T
  BY <1>1, <1>2, SetInduction, Zenon
<1>4. N \in T
  BY <1>3
<1> QED BY <1>4 DEF T, Follows

\* A number is its quotient and its remainder, and no other.
LEMMA Remainder ==
    ASSUME NEW B \in Nat \ {0}, NEW c \in Nat
    PROVE  c = (c \div B) * B + (c % B) /\ c \div B \in Nat /\ c % B \in 0 .. B - 1
OBVIOUS

LEMMA RemainderUnique ==
    ASSUME NEW B \in Nat \ {0}, NEW q \in Nat, NEW r \in 0 .. B - 1, NEW c \in Nat, c = q * B + r
    PROVE  c % B = r
OBVIOUS

\* k places further in a ring of B places.
LEMMA RemainderStep ==
    ASSUME NEW B \in Nat \ {0}, NEW c \in Nat, NEW k \in 0 .. B
    PROVE  (c + k) % B = IF (c % B) + k < B THEN (c % B) + k ELSE (c % B) + k - B
<1> DEFINE q == c \div B
           r == c % B
<1>1. c = q * B + r /\ q \in Nat /\ r \in 0 .. B - 1
  BY Remainder, Zenon
<1> HIDE DEF q, r
<1>2. q * B \in Nat /\ (q + 1) * B = q * B + B /\ q + 1 \in Nat /\ c + k \in Nat
  BY <1>1
<1>3. CASE r + k < B
  <2>1. c + k = q * B + (r + k) /\ r + k \in 0 .. B - 1
    BY <1>1, <1>2, <1>3
  <2>2. (c + k) % B = r + k
    BY <1>1, <1>2, <2>1, RemainderUnique
  <2> QED BY <1>3, <2>2 DEF r
<1>4. CASE ~(r + k < B)
  <2> DEFINE p == q + 1
             t == r + k - B
             d == c + k
  <2>1. d = p * B + t /\ t \in 0 .. B - 1 /\ p \in Nat /\ d \in Nat
    BY <1>1, <1>2, <1>4
  <2> HIDE DEF p, t, d
  <2>2. d % B = t
    BY <2>1, RemainderUnique
  <2> QED BY <1>4, <2>2 DEF r, t, d
<1> QED BY <1>3, <1>4

\* Every other place of the ring, and then the same.
LEMMA RingPlaces ==
    ASSUME NEW B \in Nat \ {0}, NEW c \in Nat
    PROVE  /\ (c + B) % B = c % B
           /\ \A k \in 1 .. B - 1 : (c + k) % B # c % B
<1>1. c % B \in 0 .. B - 1
  BY Remainder
<1>2. (c + B) % B = c % B
  <2>1. B \in 0 .. B /\ ~((c % B) + B < B) /\ (c % B) + B - B = c % B
    BY <1>1
  <2> QED BY <2>1, RemainderStep, Zenon
<1>3. ASSUME NEW k \in 1 .. B - 1 PROVE (c + k) % B # c % B
  <2>1. (c + k) % B = IF (c % B) + k < B THEN (c % B) + k ELSE (c % B) + k - B
    <3>1. k \in 0 .. B
      OBVIOUS
    <3> QED BY <3>1, RemainderStep, Zenon
  <2> QED BY <1>1, <2>1
<1> QED BY <1>2, <1>3

-----------------------------------------------------------------------------
(* Joined texts *)

\* Messages are sequences of letters, and so are the texts made of them.
LEMMA TextsFacts ==
    ASSUME NEW logs \in Seq(AnyLog)
    PROVE  /\ Texts(logs) \in [0 .. Len(logs) -> Seq(Letter)]
           /\ Texts(logs)[0] = <<>>
           /\ Len(logs) >= 1 => Texts(logs)[1] = logs[1].message
           /\ \A n \in 2 .. Len(logs) :
                 Texts(logs)[n] = Texts(logs)[n - 1] \o <<Newline>> \o logs[n].message
<1> DEFINE N == Len(logs)
           S == Seq(Letter)
           Join(n, t) == IF n = 1 THEN logs[1].message ELSE t \o <<Newline>> \o logs[n].message
           G == [n \in 1 .. N |-> [t \in S |-> Join(n, t)]]
           Def(f) == [n \in 0 .. N |-> IF n = 0 THEN <<>> ELSE Join(n, f[n - 1])]
<1>0. Texts(logs) = CHOOSE g : g = Def(g)
  BY DEF Texts
<1>1. N \in Nat /\ <<>> \in S /\ <<Newline>> \in S
  <2>1. Newline \in Letter
    BY DEF Letter
  <2>2. \A L : \A x \in L : <<x>> \in Seq(L)
    OBVIOUS
  <2> QED BY LenProperties, EmptySeq, <2>1, <2>2
<1>2. ASSUME NEW n \in 1 .. N PROVE logs[n].message \in S
  <2>1. logs[n] \in AnyLog
    BY ElementOfSeq
  <2> QED BY <2>1 DEF AnyLog
<1>3. \A n \in 1 .. N, t \in S : Join(n, t) \in S
  <2> TAKE n \in 1 .. N, t \in S
  <2>1. 1 \in 1 .. N
    BY <1>1
  <2>2. \A x, y \in S : x \o y \in S
    OBVIOUS
  <2> QED BY <1>1, <1>2, <2>1, <2>2
<1>a. \A t : Join(1, t) = logs[1].message
  OBVIOUS
<1>b. \A n \in 2 .. N, t \in S : Join(n, t) = t \o <<Newline>> \o logs[n].message
  <2> TAKE n \in 2 .. N, t \in S
  <2>1. n # 1
    BY <1>1
  <2> QED BY <2>1, Zenon
<1> HIDE DEF S, N, Join
<1>4. G \in [1 .. N -> [S -> S]]
  BY <1>3
<1>5. PICK f \in [0 .. N -> S] : f[0] = <<>> /\ \A n \in 1 .. N : f[n] = G[n][f[n - 1]]
  <2> DEFINE e == <<>>
  <2>1. e \in S
    BY <1>1
  <2>0. N \in Nat
    BY <1>1
  <2> HIDE DEF e, G, Def
  <2>2. \E f \in [0 .. N -> S] : Follows(f, N, e, G)
    BY <2>0, <1>4, <2>1, Recursion
  <2> QED BY <2>2, Zenon DEF e, Follows
<1>6. ASSUME NEW n \in 1 .. N PROVE f[n] = Join(n, f[n - 1])
  <2>1. f[n - 1] \in S
    BY <1>1
  <2> QED BY <1>5, <2>1, Zenon
<1>7. f = Def(f)
  <2>1. \A n \in 0 .. N : f[n] = Def(f)[n]
    BY <1>1, <1>5, <1>6
  <2>2. f = [n \in 0 .. N |-> f[n]]
    BY <1>1
  <2> QED BY <2>1, <2>2
<1>8. Texts(logs) = Def(Texts(logs))
  <2> HIDE DEF Def
  <2> QED BY <1>0, <1>7
<1> DEFINE g == Texts(logs)
<1> HIDE DEF g
<1>9. g = Def(g)
  BY <1>8, Zenon DEF g
<1>10. \A n \in 1 .. N : g[n] = Join(n, g[n - 1])
  BY <1>1, <1>9
<1>11. g[0] = <<>>
  BY <1>1, <1>9
<1>12. \A n \in 0 .. N : g[n] \in S
  <2> DEFINE T == {n \in 0 .. N : g[n] \in S}
  <2>1. 0 \in T
    BY <1>1, <1>11
  <2>2. \A n \in 1 .. N : n - 1 \in T => n \in T
    BY <1>1, <1>3, <1>10
  <2> HIDE DEF T
  <2>3. 0 .. N \subseteq T
    BY <1>1, <2>1, <2>2, SetInduction, Zenon
  <2> QED BY <2>3 DEF T
<1>13. g \in [0 .. N -> S]
  <2>1. g = [n \in 0 .. N |-> g[n]]
    BY <1>9
  <2> QED BY <1>12, <2>1
<1>14. N >= 1 => g[1] = logs[1].message
  BY <1>1, <1>a, <1>10
<1>15. ASSUME NEW n \in 2 .. N PROVE g[n] = g[n - 1] \o <<Newline>> \o logs[n].message
  <2>1. n \in 1 .. N /\ n - 1 \in 0 .. N
    BY <1>1
  <2> QED BY <1>10, <1>12, <1>b, <2>1, Zenon
<1> QED BY <1>11, <1>13, <1>14, <1>15, Zenon DEF g, S, N

\* One more line adds a newline and its message.
LEMMA TextsStep ==
    ASSUME NEW logs \in Seq(AnyLog), NEW i \in 2 .. Len(logs)
    PROVE  /\ Len(Texts(logs)[i - 1]) \in Nat /\ Len(logs[i].message) \in Nat
           /\ Len(Texts(logs)[i]) = Len(Texts(logs)[i - 1]) + 1 + Len(logs[i].message)
<1>1. Len(logs) \in Nat
  BY LenProperties
<1>2. i - 1 \in 0 .. Len(logs) /\ i \in 0 .. Len(logs) /\ i \in 1 .. Len(logs)
  BY <1>1
<1>3. Texts(logs)[i - 1] \in Seq(Letter)
  BY <1>2, TextsFacts, Zenon
<1>4. logs[i] \in AnyLog
  BY <1>2, ElementOfSeq
<1>5. logs[i].message \in Seq(Letter)
  BY <1>4 DEF AnyLog
<1>6. <<Newline>> \in Seq(Letter)
  BY DEF Letter
<1>7. Texts(logs)[i] = Texts(logs)[i - 1] \o <<Newline>> \o logs[i].message
  BY TextsFacts, Zenon
<1>8. /\ Texts(logs)[i - 1] \o <<Newline>> \in Seq(Letter)
      /\ Len(Texts(logs)[i - 1] \o <<Newline>>) = Len(Texts(logs)[i - 1]) + 1
  BY <1>3, <1>6, ConcatProperties
<1>9. Len(Texts(logs)[i]) = Len(Texts(logs)[i - 1]) + 1 + Len(logs[i].message)
  BY <1>5, <1>7, <1>8, ConcatProperties
<1> QED BY <1>3, <1>5, <1>9, LenProperties

\* A text grows with its lines.
LEMMA TextsGrow ==
    ASSUME NEW logs \in Seq(AnyLog), NEW m \in 0 .. Len(logs), NEW n \in m .. Len(logs)
    PROVE  /\ Len(Texts(logs)[m]) \in Nat /\ Len(Texts(logs)[n]) \in Nat
           /\ Len(Texts(logs)[m]) <= Len(Texts(logs)[n])
<1> DEFINE N == Len(logs)
           L(i) == Len(Texts(logs)[i])
<1>1. N \in Nat
  BY LenProperties
<1>2. \A i \in 0 .. N : Texts(logs)[i] \in Seq(Letter)
  BY TextsFacts, Zenon
<1>3. \A i \in 0 .. N : L(i) \in Nat
  BY <1>2, LenProperties
<1>4. ASSUME NEW i \in 1 .. N PROVE L(i - 1) <= L(i)
  <2>0. i - 1 \in 0 .. N /\ i \in 0 .. N
    BY <1>1
  <2>1. CASE i = 1
    <3>1. Texts(logs)[0] = <<>> /\ L(0) = 0
      BY TextsFacts, EmptySeq, Zenon
    <3> QED BY <2>0, <2>1, <3>1, <1>3
  <2>2. CASE i # 1
    <3>1. i \in 2 .. N
      BY <1>1, <2>2
    <3>2. L(i - 1) \in Nat /\ Len(logs[i].message) \in Nat /\ L(i) = L(i - 1) + 1 + Len(logs[i].message)
      BY <3>1, TextsStep, Zenon
    <3> HIDE DEF L
    <3> QED BY <3>2
  <2> QED BY <2>1, <2>2
<1> HIDE DEF L
<1> DEFINE T == {k \in 0 .. N - m : L(m) <= L(m + k)}
<1>5. 0 \in T
  <2>1. m + 0 = m /\ m \in 0 .. N /\ 0 \in 0 .. N - m
    BY <1>1
  <2> QED BY <1>3, <2>1
<1>6. ASSUME NEW k \in 1 .. N - m, k - 1 \in T PROVE k \in T
  <2>1. m + k \in 1 .. N /\ (m + k) - 1 = m + (k - 1) /\ k \in 0 .. N - m
    BY <1>1
  <2>2. L((m + k) - 1) <= L(m + k)
    BY <1>4, <2>1
  <2>3. L(m + (k - 1)) <= L(m + k) /\ L(m) <= L(m + (k - 1))
    BY <1>6, <2>1, <2>2
  <2>4. L(m) \in Nat /\ L(m + (k - 1)) \in Nat /\ L(m + k) \in Nat
    BY <1>1, <1>3
  <2> QED BY <2>1, <2>3, <2>4
<1> HIDE DEF T
<1>7. N - m \in Nat
  BY <1>1
<1>8. n - m \in T
  <2>1. 0 .. N - m \subseteq T
    BY <1>5, <1>6, <1>7, SetInduction, Zenon
  <2> QED BY <1>1, <2>1
<1>9. m + (n - m) = n
  BY <1>1
<1>10. L(m) <= L(n)
  BY <1>8, <1>9 DEF T
<1> QED BY <1>1, <1>3, <1>10 DEF L

-----------------------------------------------------------------------------
(* The ring and its window *)

\* The window: the last lines, after as many empty ones as are missing.
LEMMA WindowFacts ==
    ASSUME NEW lines \in Seq(PushedLog)
    PROVE  /\ Window(lines) \in Seq(AnyLog) /\ Len(Window(lines)) = BufferSize
           /\ Len(lines) \in Nat
           /\ \A k \in 1 .. BufferSize :
                 Window(lines)[k] = IF k <= BufferSize - Len(lines) THEN NoLog
                                    ELSE lines[Len(lines) - BufferSize + k]
<1> DEFINE N == Len(lines)
           B == BufferSize
           pad == [i \in 1 .. B |-> NoLog]
           all == pad \o lines
<1>1. N \in Nat /\ B \in Nat /\ B > 0
  BY LenProperties, BufferSizeAssumption
<1>2. NoLog \in AnyLog
  BY EmptySeq DEF NoLog, AnyLog
<1>3. pad \in Seq(AnyLog) /\ Len(pad) = B /\ \A i \in 1 .. B : pad[i] = NoLog
  BY <1>1, <1>2
<1>4. lines \in Seq(AnyLog)
  BY SeqMonotonic DEF PushedLog
<1> HIDE DEF pad, B
<1>5. /\ all \in Seq(AnyLog) /\ Len(all) = B + N
      /\ \A i \in 1 .. B + N : all[i] = IF i <= B THEN pad[i] ELSE lines[i - B]
  BY <1>3, <1>4, ConcatProperties, Zenon
<1>6. Window(lines) = SubSeq(all, Len(all) - B + 1, Len(all))
  BY DEF Window, pad, B
<1> HIDE DEF all
<1>7. Window(lines) = SubSeq(all, N + 1, N + B)
  <2>1. Len(all) - B + 1 = N + 1 /\ Len(all) = N + B
    BY <1>1, <1>5
  <2> QED BY <1>6, <2>1
<1>8. \A i \in N + 1 .. N + B : all[i] \in AnyLog
  BY <1>1, <1>5, ElementOfSeq
<1>9. /\ Window(lines) \in Seq(AnyLog) /\ Len(Window(lines)) = B
      /\ \A k \in 1 .. B : Window(lines)[k] = all[N + k]
  <2>1. /\ SubSeq(all, N + 1, N + B) \in Seq(AnyLog)
        /\ Len(SubSeq(all, N + 1, N + B)) = IF N + 1 <= N + B THEN (N + B) - (N + 1) + 1 ELSE 0
        /\ \A k \in 1 .. (N + B) - (N + 1) + 1 :
              SubSeq(all, N + 1, N + B)[k] = all[(N + 1) + k - 1]
    <3>1. N + 1 \in Int /\ N + B \in Int
      BY <1>1
    <3> QED BY <1>8, <3>1, SubSeqProperties
  <2>2. (N + B) - (N + 1) + 1 = B /\ N + 1 <= N + B /\ \A k \in 1 .. B : (N + 1) + k - 1 = N + k
    BY <1>1
  <2> QED BY <1>7, <2>1, <2>2
<1>10. ASSUME NEW k \in 1 .. B
       PROVE  all[N + k] = IF k <= B - N THEN NoLog ELSE lines[N - B + k]
  <2>1. N + k \in 1 .. B + N /\ (N + k <= B <=> k <= B - N) /\ (N + k) - B = N - B + k
    BY <1>1
  <2>2. k <= B - N => N + k \in 1 .. B
    BY <1>1
  <2> QED BY <1>3, <1>5, <2>1, <2>2
<1> QED BY <1>1, <1>9, <1>10, Zenon DEF B

\* Only the empty slots hold NoLog.
LEMMA WindowEmpty ==
    ASSUME NEW lines \in Seq(PushedLog), NEW k \in 1 .. BufferSize
    PROVE  Window(lines)[k] = NoLog <=> k <= BufferSize - Len(lines)
<1>1. Len(lines) \in Nat /\ BufferSize \in Nat
  BY WindowFacts, BufferSizeAssumption
<1>2. CASE k <= BufferSize - Len(lines)
  BY <1>2, WindowFacts
<1>3. CASE ~(k <= BufferSize - Len(lines))
  <2>1. Window(lines)[k] = lines[Len(lines) - BufferSize + k]
    BY <1>3, WindowFacts
  <2>2. Len(lines) - BufferSize + k \in 1 .. Len(lines)
    BY <1>1, <1>3
  <2>3. Window(lines)[k] \in PushedLog
    BY <2>1, <2>2, ElementOfSeq
  <2>4. NoLog.time = 0
    BY DEF NoLog
  <2> QED BY <1>3, <2>3, <2>4 DEF PushedLog
<1> QED BY <1>2, <1>3

\* The window moves on by one with every line.
LEMMA WindowAppend ==
    ASSUME NEW lines \in Seq(PushedLog), NEW log \in PushedLog, NEW k \in 1 .. BufferSize
    PROVE  Window(Append(lines, log))[k] = IF k = BufferSize THEN log ELSE Window(lines)[k + 1]
<1> DEFINE N == Len(lines)
           B == BufferSize
           more == Append(lines, log)
<1>1. N \in Nat /\ B \in Nat /\ B > 0
  BY LenProperties, BufferSizeAssumption
<1>2. more \in Seq(PushedLog) /\ Len(more) = N + 1 /\ more[N + 1] = log
      /\ \A i \in 1 .. N : more[i] = lines[i]
  BY AppendProperties
<1>3. \A i \in 1 .. B : Window(more)[i] = IF i <= B - (N + 1) THEN NoLog ELSE more[(N + 1) - B + i]
  BY <1>2, WindowFacts, Zenon
<1>4. \A i \in 1 .. B : Window(lines)[i] = IF i <= B - N THEN NoLog ELSE lines[N - B + i]
  BY WindowFacts
<1> HIDE DEF N, B, more
<1>5. k \in 1 .. B
  BY DEF B
<1>6. CASE k = B
  <2>1. ~(k <= B - (N + 1)) /\ (N + 1) - B + k = N + 1
    BY <1>1, <1>6
  <2>2. Window(more)[k] = log
    BY <1>2, <1>3, <1>5, <2>1
  <2> QED BY <1>6, <2>2 DEF more, B
<1>7. CASE k # B
  <2>1. k + 1 \in 1 .. B /\ (k <= B - (N + 1) <=> k + 1 <= B - N) /\ (N + 1) - B + k = N - B + (k + 1)
    BY <1>1, <1>5, <1>7
  <2>2. ~(k + 1 <= B - N) => N - B + (k + 1) \in 1 .. N
    BY <1>1, <1>5, <1>7
  <2>3. Window(more)[k] = Window(lines)[k + 1]
    BY <1>2, <1>3, <1>4, <1>5, <2>1, <2>2
  <2> QED BY <1>7, <2>3 DEF more, B
<1> QED BY <1>6, <1>7

\* The place after current that Push leaves current at.
LEMMA AdvancePlaces ==
    ASSUME NEW c \in Nat, NEW k \in 1 .. BufferSize
    PROVE  /\ Advance(c) \in Nat /\ Advance(c) # 0
           /\ (Advance(c) + k - 1) % BufferSize = (c + k) % BufferSize
<1> DEFINE B == BufferSize
<1>1. B \in Nat \ {0}
  BY BufferSizeAssumption
<1>2. CASE c + 1 = 2 * B
  <2>1. Advance(c) = B
    BY <1>2 DEF Advance
  <2>2. B + k - 1 \in Nat /\ (B + k - 1) + B = c + k
    BY <1>1, <1>2
  <2>3. ((B + k - 1) + B) % B = (B + k - 1) % B
    BY <1>1, <2>2, RingPlaces, Zenon
  <2> QED BY <1>1, <2>1, <2>2, <2>3
<1>3. CASE c + 1 # 2 * B
  <2>1. Advance(c) = c + 1
    BY <1>3 DEF Advance
  <2>2. (c + 1) + k - 1 = c + k
    BY <1>1
  <2> QED BY <2>1, <2>2
<1> QED BY <1>2, <1>3

\* A new buffer is an empty ring.
LEMMA NewHolds ==
    RingHolds(NewLogBuffer, <<>>)
<1> DEFINE b == NewLogBuffer
           e == <<>>
<1>1. NoLog \in AnyLog
  BY EmptySeq DEF NoLog, AnyLog
<1>2. b \in [buffer : [0 .. BufferSize - 1 -> AnyLog], current : Nat, joined : Seq(Letter),
             joinedOK : BOOLEAN]
  BY <1>1, EmptySeq DEF NewLogBuffer
<1>3. b.current = 0 /\ b.joinedOK = FALSE
  BY DEF NewLogBuffer
<1>4. e \in Seq(PushedLog) /\ Len(e) = 0
  BY EmptySeq
<1>5. ASSUME NEW k \in 1 .. BufferSize PROVE Slots(b)[k] = NoLog /\ Window(e)[k] = NoLog
  <2>1. k - 1 \in Nat /\ k <= BufferSize - 0
    BY BufferSizeAssumption
  <2>2. (k - 1) % BufferSize \in 0 .. BufferSize - 1
    BY <2>1, BufferSizeAssumption, Remainder
  <2>3. b.current + k - 1 = k - 1
    BY <1>3, <2>1
  <2>4. Slots(b)[k] = b.buffer[(k - 1) % BufferSize]
    BY <2>3 DEF Slots
  <2>5. Slots(b)[k] = NoLog
    BY <2>2, <2>4 DEF NewLogBuffer
  <2> HIDE DEF e
  <2>6. Window(e)[k] = NoLog
    BY <1>4, <2>1, WindowEmpty, Zenon
  <2> QED BY <2>5, <2>6
<1>6. Slots(b) = [k \in 1 .. BufferSize |-> Slots(b)[k]]
  BY DEF Slots
<1> HIDE DEF b, e
<1>7. Window(e) = [k \in 1 .. BufferSize |-> Window(e)[k]]
  <2>1. Window(e) \in Seq(AnyLog) /\ Len(Window(e)) = BufferSize
    BY <1>4, WindowFacts, Zenon
  <2> QED BY <2>1, LenProperties
<1>8. Slots(b) = Window(e)
  BY <1>5, <1>6, <1>7
<1>9. RingHolds(b, e)
  BY <1>2, <1>3, <1>8 DEF RingHolds, e
<1> QED BY <1>9 DEF b, e

Ring == [buffer : [0 .. BufferSize - 1 -> AnyLog], current : Nat, joined : Seq(Letter),
         joinedOK : BOOLEAN]

\* A push lets the ring hold one line more.
LEMMA PushHolds ==
    ASSUME NEW b, NEW lines \in Seq(PushedLog), NEW log \in PushedLog, RingHolds(b, lines)
    PROVE  RingHolds(Push(b, log), Append(lines, log))
<1> DEFINE B == BufferSize
           place == b.current % B
           new == Push(b, log)
           more == Append(lines, log)
<1>1. B \in Nat \ {0}
  BY BufferSizeAssumption
<1>2. b \in Ring
  BY DEF RingHolds, Ring
<1>3. b.current \in Nat
  BY <1>2 DEF Ring
<1>4. place \in 0 .. B - 1
  BY <1>1, <1>3, Remainder, Zenon
<1>5. b.buffer \in [0 .. B - 1 -> AnyLog]
  BY <1>2 DEF Ring
<1>6. Advance(b.current) \in Nat /\ Advance(b.current) # 0
  <2>1. 1 \in 1 .. B
    BY <1>1
  <2> QED BY <1>3, <2>1, AdvancePlaces, Zenon
<1>7. /\ new.buffer = [b.buffer EXCEPT ![place] = log] /\ new.current = Advance(b.current)
      /\ new.joinedOK = FALSE
  BY <1>2 DEF Push, Ring
<1>8. log \in AnyLog
  BY DEF PushedLog
<1>9. [b.buffer EXCEPT ![place] = log] \in [0 .. B - 1 -> AnyLog]
  BY <1>5, <1>8, Zenon
<1>10. new \in Ring
  <2>1. <<>> \in Seq(Letter)
    BY EmptySeq
  <2> QED BY <1>2, <1>6, <1>9, <2>1, Zenon DEF Push, Ring
<1>11. more \in Seq(PushedLog) /\ Len(more) = Len(lines) + 1 /\ Len(lines) \in Nat
  BY AppendProperties, LenProperties
<1>12. more # <<>>
  BY <1>11, EmptySeq
<1>13. Slots(b) = Window(lines)
  BY DEF RingHolds
<1>14. ASSUME NEW k \in 1 .. B PROVE Slots(new)[k] = Window(more)[k]
  <2> DEFINE at == (b.current + k) % B
  <2>1. Slots(new)[k] = new.buffer[(new.current + k - 1) % B]
    BY DEF Slots
  <2>2. new.current = Advance(b.current) /\ new.buffer = [b.buffer EXCEPT ![place] = log]
    BY <1>7
  <2>3. (Advance(b.current) + k - 1) % B = at
    BY <1>3, AdvancePlaces, Zenon
  <2>4. Slots(new)[k] = [b.buffer EXCEPT ![place] = log][at]
    BY <2>1, <2>2, <2>3
  <2>5. Window(more)[k] = IF k = B THEN log ELSE Window(lines)[k + 1]
    BY WindowAppend
  <2>6. CASE k = B
    <3>1. at = place
      BY <1>1, <1>3, <2>6, RingPlaces, Zenon
    <3> QED BY <1>4, <1>5, <2>4, <2>5, <2>6, <3>1
  <2>7. CASE k # B
    <3>1. k \in 1 .. B - 1 /\ k + 1 \in 1 .. B
      BY <1>1, <2>7
    <3>2. at # place
      BY <1>1, <1>3, <3>1, RingPlaces, Zenon
    <3>3. at \in 0 .. B - 1
      <4>1. b.current + k \in Nat
        BY <1>1, <1>3
      <4> QED BY <1>1, <4>1, Remainder, Zenon
    <3>4. [b.buffer EXCEPT ![place] = log][at] = b.buffer[at]
      BY <1>5, <3>2, <3>3
    <3>5. Slots(b)[k + 1] = b.buffer[(b.current + (k + 1) - 1) % B]
      BY <3>1 DEF Slots
    <3>6. b.current + (k + 1) - 1 = b.current + k
      BY <1>1, <1>3
    <3> QED BY <1>13, <2>4, <2>5, <2>7, <3>4, <3>5, <3>6
  <2> QED BY <2>6, <2>7
<1>15. Slots(new) = [k \in 1 .. B |-> Slots(new)[k]]
  BY DEF Slots
<1>16. new.joinedOK = FALSE /\ new.current = Advance(b.current)
  BY <1>7
<1> HIDE DEF new, more
<1>17. Window(more) = [k \in 1 .. B |-> Window(more)[k]]
  <2>1. Window(more) \in Seq(AnyLog) /\ Len(Window(more)) = B
    BY <1>11, WindowFacts
  <2> QED BY <2>1, LenProperties
<1>18. Slots(new) = Window(more)
  BY <1>14, <1>15, <1>17
<1>19. RingHolds(new, more)
  BY <1>6, <1>10, <1>12, <1>16, <1>18 DEF RingHolds, Ring
<1> QED BY <1>19 DEF new, more

\* String is the text of the window, cached or not.
LEMMA StringIsText ==
    ASSUME NEW b, NEW lines \in Seq(PushedLog), RingHolds(b, lines)
    PROVE  /\ String(b) = concatLogs(Window(lines)) /\ String(b) \in Seq(Letter)
           /\ String(b) = Texts(Window(lines))[BufferSize]
<1>1. Window(lines) \in Seq(AnyLog) /\ Len(Window(lines)) = BufferSize
  BY WindowFacts
<1>2. String(b) = concatLogs(Window(lines))
  BY DEF RingHolds, String
<1>3. concatLogs(Window(lines)) = Texts(Window(lines))[BufferSize]
  BY <1>1 DEF concatLogs
<1>4. Texts(Window(lines)) \in [0 .. BufferSize -> Seq(Letter)]
  BY <1>1, TextsFacts, Zenon
<1>5. BufferSize \in 0 .. BufferSize
  BY BufferSizeAssumption
<1> QED BY <1>2, <1>3, <1>4, <1>5

\* A match changes nothing but the cached text.
LEMMA AfterMatchHolds ==
    ASSUME NEW b, NEW lines \in Seq(PushedLog), RingHolds(b, lines), NEW p
    PROVE  RingHolds(AfterMatch(b, p), lines)
<1> DEFINE new == Joined(b)
           text == String(b)
<1>1. text = concatLogs(Window(lines)) /\ text \in Seq(Letter)
  BY StringIsText
<1>2. b \in Ring
  BY DEF RingHolds, Ring
<1> HIDE DEF text
<1>3. new.buffer = b.buffer /\ new.current = b.current /\ new.joined = text
  BY <1>2 DEF Joined, Ring, text
<1>4. new \in Ring
  <2>1. String(b) \in Seq(Letter)
    BY <1>1 DEF text
  <2> QED BY <1>2, <2>1, Zenon DEF Joined, Ring
<1>5. Slots(new) = Slots(b) /\ new.current = b.current /\ new.joined = text
  BY <1>3 DEF Slots
<1> HIDE DEF new
<1>6. RingHolds(new, lines)
  BY <1>1, <1>4, <1>5 DEF RingHolds, Ring
<1> QED BY <1>6 DEF AfterMatch, new

-----------------------------------------------------------------------------
(* The lines from the tail *)

\* The n-th line from the tail is the n-th from the end of the window.
LEMMA SlotIsLine ==
    ASSUME NEW b, NEW lines \in Seq(PushedLog), RingHolds(b, lines), NEW n \in 1 .. BufferSize
    PROVE  /\ Slot(b, n) = Window(lines)[BufferSize + 1 - n]
           /\ Slot(b, n) \in AnyLog /\ Len(Slot(b, n).message) \in Nat
<1> DEFINE k == BufferSize + 1 - n
<1>1. k \in 1 .. BufferSize /\ BufferSize \in Nat
  BY BufferSizeAssumption
<1>2. b.current \in Nat
  BY DEF RingHolds
<1>3. b.current + k - 1 = b.current + BufferSize - n
  BY <1>1, <1>2
<1>4. Slots(b)[k] = b.buffer[(b.current + k - 1) % BufferSize]
  BY <1>1 DEF Slots
<1>5. Slot(b, n) = Window(lines)[k]
  BY <1>3, <1>4 DEF RingHolds, Slot
<1>6. Window(lines)[k] \in AnyLog
  BY <1>1, WindowFacts, ElementOfSeq
<1>7. Slot(b, n).message \in Seq(Letter)
  BY <1>5, <1>6 DEF AnyLog
<1> QED BY <1>5, <1>6, <1>7, LenProperties

\* The loop's total.
LEMMA CoveredFacts ==
    ASSUME NEW b, NEW lines \in Seq(PushedLog), RingHolds(b, lines)
    PROVE  /\ Covered(b) \in [0 .. BufferSize -> Nat] /\ Covered(b)[0] = 0
           /\ \A n \in 1 .. BufferSize :
                 Covered(b)[n] = Covered(b)[n - 1] + Len(Slot(b, n).message) + 1
<1> DEFINE N == BufferSize
           S == Nat
           Add(n, t) == t + Len(Slot(b, n).message) + 1
           G == [n \in 1 .. N |-> [t \in S |-> Add(n, t)]]
           Def(f) == [n \in 0 .. N |-> IF n = 0 THEN 0 ELSE Add(n, f[n - 1])]
<1>0. Covered(b) = CHOOSE g : g = Def(g)
  BY DEF Covered
<1>1. N \in Nat /\ 0 \in S
  BY BufferSizeAssumption
<1>2. \A n \in 1 .. N, t \in S : Add(n, t) \in S
  BY SlotIsLine
<1>3. \A n \in 1 .. N, t \in S : Add(n, t) = t + Len(Slot(b, n).message) + 1
  OBVIOUS
<1> HIDE DEF S, N, Add
<1>4. G \in [1 .. N -> [S -> S]]
  BY <1>2
<1>5. PICK f \in [0 .. N -> S] : f[0] = 0 /\ \A n \in 1 .. N : f[n] = G[n][f[n - 1]]
  <2> HIDE DEF G, Def
  <2>2. \E f \in [0 .. N -> S] : Follows(f, N, 0, G)
    BY <1>1, <1>4, Recursion
  <2> QED BY <2>2, Zenon DEF Follows
<1>6. ASSUME NEW n \in 1 .. N PROVE f[n] = Add(n, f[n - 1])
  <2>1. f[n - 1] \in S
    BY <1>1
  <2> QED BY <1>5, <2>1, Zenon
<1>7. f = Def(f)
  <2>1. \A n \in 0 .. N : f[n] = Def(f)[n]
    BY <1>1, <1>5, <1>6
  <2>2. f = [n \in 0 .. N |-> f[n]]
    BY <1>1
  <2> QED BY <2>1, <2>2
<1> DEFINE g == Covered(b)
<1>8. g = Def(g)
  <2> HIDE DEF Def
  <2> QED BY <1>0, <1>7
<1> HIDE DEF g
<1>9. g[0] = 0 /\ \A n \in 1 .. N : g[n] = Add(n, g[n - 1])
  BY <1>1, <1>8
<1>10. \A n \in 0 .. N : g[n] \in S
  <2> DEFINE T == {n \in 0 .. N : g[n] \in S}
  <2>1. 0 \in T
    BY <1>1, <1>9
  <2>2. \A n \in 1 .. N : n - 1 \in T => n \in T
    BY <1>1, <1>2, <1>9
  <2> HIDE DEF T
  <2>3. 0 .. N \subseteq T
    BY <1>1, <2>1, <2>2, SetInduction, Zenon
  <2> QED BY <2>3 DEF T
<1>11. g \in [0 .. N -> S]
  <2>1. g = [n \in 0 .. N |-> g[n]]
    BY <1>8
  <2> QED BY <1>10, <2>1
<1>12. \A n \in 1 .. N : n - 1 \in 0 .. N /\ g[n] = g[n - 1] + Len(Slot(b, n).message) + 1
  BY <1>1, <1>3, <1>9, <1>10
<1> QED BY <1>9, <1>11, <1>12 DEF g, S, N

\* The total is what the text has more than the text without the last n lines.
LEMMA CoveredTail ==
    ASSUME NEW b, NEW lines \in Seq(PushedLog), RingHolds(b, lines), NEW n \in 0 .. BufferSize - 1
    PROVE  /\ Covered(b)[n] \in Nat
           /\ Len(Texts(Window(lines))[BufferSize]) \in Nat
           /\ Len(Texts(Window(lines))[BufferSize - n]) \in Nat
           /\ Covered(b)[n]
                = Len(Texts(Window(lines))[BufferSize]) - Len(Texts(Window(lines))[BufferSize - n])
<1> DEFINE B == BufferSize
           w == Window(lines)
           L(i) == Len(Texts(w)[i])
           C(i) == Covered(b)[i]
           T == {i \in 0 .. B - 1 : C(i) = L(B) - L(B - i)}
<1>1. B \in Nat /\ B > 0 /\ w \in Seq(AnyLog) /\ Len(w) = B
  BY BufferSizeAssumption, WindowFacts
<1>2. \A i \in 0 .. B : Texts(w)[i] \in Seq(Letter)
  BY <1>1, TextsFacts, Zenon
<1>3. \A i \in 0 .. B : L(i) \in Nat
  BY <1>2, LenProperties
<1>4. (\A i \in 0 .. B : C(i) \in Nat) /\ C(0) = 0
  BY CoveredFacts, Zenon
<1>5. ASSUME NEW i \in 1 .. B - 1
      PROVE  L(B - (i - 1)) = L(B - i) + 1 + Len(w[B - (i - 1)].message)
             /\ C(i) = C(i - 1) + Len(w[B - (i - 1)].message) + 1
             /\ Len(w[B - (i - 1)].message) \in Nat
  <2>1. B - (i - 1) \in 2 .. B /\ (B - (i - 1)) - 1 = B - i /\ i \in 1 .. B /\ B + 1 - i = B - (i - 1)
    BY <1>1
  <2>2. L(B - (i - 1)) = L(B - i) + 1 + Len(w[B - (i - 1)].message)
    BY <1>1, <2>1, TextsStep, Zenon
  <2>3. Slot(b, i) = w[B - (i - 1)] /\ Len(Slot(b, i).message) \in Nat
    BY <2>1, SlotIsLine
  <2>4. C(i) = C(i - 1) + Len(Slot(b, i).message) + 1
    BY <2>1, CoveredFacts
  <2> QED BY <2>2, <2>3, <2>4
<1> HIDE DEF L, C, w
<1>6. 0 \in T
  BY <1>1, <1>3, <1>4
<1>7. ASSUME NEW i \in 1 .. B - 1, i - 1 \in T PROVE i \in T
  <2>1. C(i - 1) = L(B) - L(B - (i - 1))
    BY <1>7
  <2>2. L(B) \in Nat /\ L(B - (i - 1)) \in Nat /\ L(B - i) \in Nat /\ C(i) \in Nat /\ C(i - 1) \in Nat
    BY <1>1, <1>3, <1>4
  <2> DEFINE m == Len(w[B - (i - 1)].message)
  <2>3. L(B - (i - 1)) = L(B - i) + 1 + m /\ C(i) = C(i - 1) + m + 1 /\ m \in Nat
    BY <1>5
  <2> DEFINE all == L(B)
             more == L(B - (i - 1))
             less == L(B - i)
             now == C(i)
             before == C(i - 1)
  <2>a. /\ all \in Nat /\ more \in Nat /\ less \in Nat /\ now \in Nat /\ before \in Nat /\ m \in Nat
        /\ before = all - more /\ more = less + 1 + m /\ now = before + m + 1
    BY <2>1, <2>2, <2>3
  <2> HIDE DEF m, all, more, less, now, before
  <2>b. now = all - less
    BY <2>a
  <2>4. C(i) = L(B) - L(B - i)
    BY <2>b DEF now, all, less
  <2> QED BY <1>1, <2>4
<1> HIDE DEF T
<1>8. n \in T
  <2>1. B - 1 \in Nat
    BY <1>1
  <2>2. 0 .. B - 1 \subseteq T
    BY <1>6, <1>7, <2>1, SetInduction, Zenon
  <2> QED BY <2>2
<1>9. C(n) \in Nat /\ L(B) \in Nat /\ L(B - n) \in Nat
  BY <1>1, <1>3, <1>4
<1> QED BY <1>8, <1>9, Zenon DEF T, C, L, w

\* Min and Max of sets of numbers.
LEMMA MinOfNumbers ==
    ASSUME NEW S \in SUBSET Nat, S # {}
    PROVE  Min(S) \in S /\ \A x \in S : Min(S) <= x
<1>1. PICK n \in S : \A m \in S : n <= m
  BY Least
<1> QED BY <1>1, Zenon DEF Min

LEMMA MaxOfTwo ==
    ASSUME NEW x \in Int, NEW y \in Int
    PROVE  Max({x, y}) = IF x >= y THEN x ELSE y
BY DEF Max

\* A line begins at or before the letters it owns.
LEMMA OwnerFacts ==
    ASSUME NEW logs \in Seq(AnyLog), Len(logs) >= 1, NEW i \in Nat
    PROVE  /\ Owner(logs, i) \in 1 .. Len(logs)
           /\ \A n \in 1 .. Len(logs) - 1 : i <= Len(Texts(logs)[n]) <=> Owner(logs, i) <= n
<1> DEFINE N == Len(logs)
           S == {n \in 1 .. N : i <= Len(Texts(logs)[n])} \cup {N}
           o == Owner(logs, i)
<1>1. N \in Nat /\ N >= 1
  BY LenProperties
<1>2. S \subseteq 1 .. N /\ S # {} /\ S \in SUBSET Nat
  BY <1>1
<1>3. o = Min(S)
  BY DEF Owner
<1> HIDE DEF S, o
<1>4. o \in S /\ \A x \in S : o <= x
  BY <1>2, <1>3, MinOfNumbers
<1>5. ASSUME NEW n \in 1 .. N - 1 PROVE i <= Len(Texts(logs)[n]) <=> o <= n
  <2>1. n \in 1 .. N /\ n # N
    BY <1>1
  <2>2. ASSUME i <= Len(Texts(logs)[n]) PROVE o <= n
    BY <1>4, <2>1, <2>2 DEF S
  <2>3. ASSUME o <= n PROVE i <= Len(Texts(logs)[n])
    <3>1. o \in 1 .. N /\ o # N /\ i <= Len(Texts(logs)[o])
      BY <1>1, <1>2, <1>4, <2>1, <2>3 DEF S
    <3>2. o \in 0 .. N /\ n \in o .. N
      BY <1>1, <2>1, <2>3, <3>1
    <3>3. /\ Len(Texts(logs)[o]) \in Nat /\ Len(Texts(logs)[n]) \in Nat
          /\ Len(Texts(logs)[o]) <= Len(Texts(logs)[n])
      BY <3>2, TextsGrow, Zenon
    <3> QED BY <3>1, <3>3
  <2> QED BY <2>2, <2>3
<1>6. o \in 1 .. N
  BY <1>2, <1>4
<1> QED BY <1>5, <1>6 DEF o

\* What the loop of Match returns: the window from the line that owns the start of the
\* match, empty slots left out.
LEMMA LoopReturns ==
    ASSUME NEW b, NEW lines \in Seq(PushedLog), RingHolds(b, lines), NEW start \in Nat
    PROVE  MatchedLines(b, start)
             = SubSeq(Window(lines),
                      Max({Owner(Window(lines), start), BufferSize - Len(lines) + 1}), BufferSize)
<1> DEFINE B == BufferSize
           N == Len(lines)
           w == Window(lines)
           o == Owner(w, start)
           first == Max({o, B - N + 1})
           s == Len(String(b)) - (start - 1) - 1
           turns == {n \in 1 .. B : /\ \A m \in 1 .. n : Slot(b, m) # NoLog
                                    /\ \A m \in 1 .. n - 1 : Covered(b)[m] <= s}
           count == Cardinality(turns)
<1>1. B \in Nat /\ B > 0 /\ N \in Nat /\ w \in Seq(AnyLog) /\ Len(w) = B
  BY BufferSizeAssumption, WindowFacts
<1>2. o \in 1 .. B /\ \A n \in 1 .. B - 1 : start <= Len(Texts(w)[n]) <=> o <= n
  <2>1. Len(w) >= 1
    BY <1>1
  <2> HIDE DEF w
  <2> QED BY <1>1, <2>1, OwnerFacts, Zenon
<1>3. MatchedLines(b, start) = [k \in 1 .. count |-> Slot(b, count + 1 - k)]
  BY DEF MatchedLines
<1>4. \A m \in 1 .. B : Slot(b, m) = w[B + 1 - m]
  BY SlotIsLine
<1>5. ASSUME NEW m \in 1 .. B PROVE Slot(b, m) # NoLog <=> m <= N
  <2>1. B + 1 - m \in 1 .. B /\ (B + 1 - m <= B - N <=> ~(m <= N))
    BY <1>1
  <2>2. w[B + 1 - m] = NoLog <=> B + 1 - m <= B - N
    BY <2>1, WindowEmpty
  <2> QED BY <1>4, <2>1, <2>2
<1>6. ASSUME NEW m \in 1 .. B - 1 PROVE Covered(b)[m] <= s <=> o <= B - m
  <2>1. m \in 0 .. B - 1 /\ B - m \in 1 .. B - 1
    BY <1>1
  <2> DEFINE all == Len(Texts(w)[B])
             rest == Len(Texts(w)[B - m])
  <2>2. Covered(b)[m] = all - rest /\ all \in Nat /\ rest \in Nat
    BY <2>1, CoveredTail, Zenon
  <2>3. s = all - (start - 1) - 1
    BY StringIsText
  <2>4. start <= rest <=> o <= B - m
    BY <1>2, <2>1
  <2> HIDE DEF all, rest, s, o
  <2>5. Covered(b)[m] <= s <=> start <= rest
    BY <2>2, <2>3
  <2> QED BY <2>4, <2>5
<1> DEFINE c == B + 1 - first
<1>7. first \in 1 .. B + 1 /\ c \in 0 .. B /\ \A n \in 1 .. B : n <= c <=> n <= N /\ n <= B + 1 - o
  <2> HIDE DEF o, N, B
  <2>1. first = IF o >= B - N + 1 THEN o ELSE B - N + 1
    <3>1. o \in Int /\ B - N + 1 \in Int
      BY <1>1, <1>2
    <3> QED BY <3>1, MaxOfTwo
  <2> HIDE DEF first
  <2> QED BY <1>1, <1>2, <2>1
<1>8. ASSUME NEW n \in 1 .. B PROVE n \in turns <=> n <= c
  <2>1. (\A m \in 1 .. n : Slot(b, m) # NoLog) <=> n <= N
    <3>1. \A m \in 1 .. n : m \in 1 .. B
      BY <1>1
    <3>2. n \in 1 .. n
      BY <1>1
    <3>3. n <= N => \A m \in 1 .. n : m <= N
      BY <1>1
    <3> QED BY <1>5, <3>1, <3>2, <3>3
  <2>2. (\A m \in 1 .. n - 1 : Covered(b)[m] <= s) <=> n <= B + 1 - o
    <3> HIDE DEF o, s, B
    <3>1. \A m \in 1 .. n - 1 : m \in 1 .. B - 1
      BY <1>1
    <3>2. ASSUME n <= B + 1 - o, NEW m \in 1 .. n - 1 PROVE Covered(b)[m] <= s
      <4>1. o <= B - m
        BY <1>1, <1>2, <3>2
      <4> QED BY <1>6, <3>1, <4>1
    <3>3. ASSUME \A m \in 1 .. n - 1 : Covered(b)[m] <= s PROVE n <= B + 1 - o
      <4>1. CASE n = 1
        BY <1>1, <1>2, <4>1
      <4>2. CASE n # 1
        <5>1. n - 1 \in 1 .. n - 1
          BY <1>1, <4>2
        <5>2. o <= B - (n - 1)
          BY <1>6, <3>1, <3>3, <5>1
        <5> QED BY <1>1, <1>2, <5>2
      <4> QED BY <4>1, <4>2
    <3> QED BY <3>2, <3>3
  <2> HIDE DEF o, s, c, N, B
  <2> QED BY <1>7, <2>1, <2>2
<1>9. turns = 1 .. c
  <2>1. turns \subseteq 1 .. B /\ 1 .. c \subseteq 1 .. B /\ \A n \in 1 .. B : n \in 1 .. c <=> n <= c
    <3> HIDE DEF c, B, s
    <3> QED BY <1>1, <1>7
  <2> HIDE DEF turns, c, B
  <2> QED BY <1>8, <2>1, Zenon
<1>10. count = c
  <2> HIDE DEF turns, c
  <2>1. Cardinality(1 .. c) = IF 1 > c THEN 0 ELSE c - 1 + 1
    BY <1>7, FS_Interval
  <2> QED BY <1>7, <1>9, <2>1
<1>11. SubSeq(w, first, B) = [k \in 1 .. (1 + B - first) |-> w[k + first - 1]]
  <2> HIDE DEF first, w, B, c
  <2>1. first \in Int /\ B \in Int /\ 1 + B - first = B - first + 1
        /\ (IF first <= B THEN B - first + 1 ELSE 0) = 1 + B - first
        /\ \A k \in 1 .. 1 + B - first : k + first - 1 = first + k - 1
    BY <1>1, <1>7
  <2>2. \A i \in first .. B : w[i] \in AnyLog
    BY <1>1, <1>7, ElementOfSeq
  <2>3. /\ SubSeq(w, first, B) \in Seq(AnyLog)
        /\ Len(SubSeq(w, first, B)) = IF first <= B THEN B - first + 1 ELSE 0
        /\ \A i \in 1 .. B - first + 1 : SubSeq(w, first, B)[i] = w[first + i - 1]
    BY <2>1, <2>2, SubSeqProperties
  <2> DEFINE part == SubSeq(w, first, B)
  <2>4. part \in Seq(AnyLog) /\ Len(part) = 1 + B - first
        /\ \A k \in 1 .. 1 + B - first : part[k] = w[k + first - 1]
    BY <2>1, <2>3
  <2> HIDE DEF part
  <2>5. part = [k \in 1 .. Len(part) |-> part[k]]
    BY <2>4, LenProperties
  <2>6. part = [k \in 1 .. (1 + B - first) |-> w[k + first - 1]]
    BY <2>4, <2>5
  <2> QED BY <2>6 DEF part
<1> HIDE DEF first, count, w, B
<1>12. 1 + B - first = c /\ \A k \in 1 .. c : k + first - 1 = B + 1 - (c + 1 - k) /\ c + 1 - k \in 1 .. B
  BY <1>1, <1>7
<1>13. \A k \in 1 .. c : w[k + first - 1] = Slot(b, c + 1 - k)
  BY <1>4, <1>12
<1> HIDE DEF c
<1>14. MatchedLines(b, start) = SubSeq(w, first, B)
  BY <1>3, <1>10, <1>11, <1>12, <1>13
<1> QED BY <1>14 DEF first, w, B

-----------------------------------------------------------------------------
(* Where a match ends *)

\* The steps of Reached.
LEMMA ReachedFacts ==
    ASSUME NEW text \in Seq(Letter), NEW i \in Nat, NEW classes \in Seq(Class)
    PROVE  /\ Reached(text, i, classes) \in [0 .. Len(classes) -> SUBSET Nat]
           /\ Reached(text, i, classes)[0] = {i}
           /\ \A k \in 1 .. Len(classes) :
                 Reached(text, i, classes)[k]
                   = UNION {After(text, j, classes[k]) : j \in Reached(text, i, classes)[k - 1]}
<1> DEFINE N == Len(classes)
           S == SUBSET Nat
           From(k, t) == UNION {After(text, j, classes[k]) : j \in t}
           G == [k \in 1 .. N |-> [t \in S |-> From(k, t)]]
           Def(f) == [k \in 0 .. N |-> IF k = 0 THEN {i} ELSE From(k, f[k - 1])]
           e == {i}
<1>0. Reached(text, i, classes) = CHOOSE g : g = Def(g)
  BY DEF Reached
<1>1. N \in Nat /\ e \in S
  BY LenProperties
<1>2. \A k \in 1 .. N, t \in S : From(k, t) \in S
  <2>1. \A j \in Nat, k \in 1 .. N : After(text, j, classes[k]) \subseteq Nat
    <3>1. Len(text) \in Nat
      BY LenProperties
    <3> QED BY <3>1 DEF After
  <2> QED BY <2>1
<1>3. \A k, t : From(k, t) = UNION {After(text, j, classes[k]) : j \in t}
  OBVIOUS
<1>a. \A f : Def(f) = [k \in 0 .. N |-> IF k = 0 THEN e ELSE From(k, f[k - 1])]
  OBVIOUS
<1> HIDE DEF S, N, From, e
<1>4. G \in [1 .. N -> [S -> S]]
  BY <1>2
<1>5. PICK f \in [0 .. N -> S] : f[0] = e /\ \A k \in 1 .. N : f[k] = G[k][f[k - 1]]
  <2> HIDE DEF G, Def
  <2>2. \E f \in [0 .. N -> S] : Follows(f, N, e, G)
    BY <1>1, <1>4, Recursion, Zenon
  <2> QED BY <2>2, Zenon DEF Follows
<1>6. ASSUME NEW k \in 1 .. N PROVE f[k] = From(k, f[k - 1])
  <2>1. f[k - 1] \in S
    BY <1>1
  <2> QED BY <1>5, <2>1, Zenon
<1>7. f = Def(f)
  <2>1. \A k \in 0 .. N : f[k] = IF k = 0 THEN e ELSE From(k, f[k - 1])
    BY <1>1, <1>5, <1>6
  <2>2. f = [k \in 0 .. N |-> f[k]]
    BY <1>1
  <2>3. f = [k \in 0 .. N |-> IF k = 0 THEN e ELSE From(k, f[k - 1])]
    BY <2>1, <2>2
  <2> HIDE DEF Def
  <2> QED BY <1>a, <2>3, Zenon
<1> DEFINE g == Reached(text, i, classes)
<1>b. g = Def(g)
  <2> HIDE DEF Def
  <2> QED BY <1>0, <1>7
<1>8. g = [k \in 0 .. N |-> IF k = 0 THEN e ELSE From(k, g[k - 1])]
  <2> HIDE DEF g, Def
  <2> QED BY <1>a, <1>b
<1> HIDE DEF g
<1>9. g[0] = e /\ \A k \in 1 .. N : g[k] = From(k, g[k - 1])
  BY <1>1, <1>8
<1>10. \A k \in 0 .. N : g[k] \in S
  <2> DEFINE T == {k \in 0 .. N : g[k] \in S}
  <2>1. 0 \in T
    BY <1>1, <1>9
  <2>2. \A k \in 1 .. N : k - 1 \in T => k \in T
    BY <1>1, <1>2, <1>9
  <2> HIDE DEF T
  <2>3. 0 .. N \subseteq T
    BY <1>1, <2>1, <2>2, SetInduction, Zenon
  <2> QED BY <2>3 DEF T
<1>11. g \in [0 .. N -> S]
  <2>1. g = [k \in 0 .. N |-> g[k]]
    BY <1>8
  <2> QED BY <1>10, <2>1
<1>12. \A k \in 1 .. N : g[k] = UNION {After(text, j, classes[k]) : j \in g[k - 1]}
  BY <1>3, <1>9
<1> QED BY <1>9, <1>11, <1>12 DEF g, S, N, e

\* A match does not go past a letter that no class has.
LEMMA MatchStops ==
    ASSUME NEW text \in Seq(Letter), NEW classes \in Seq(Class), NEW at \in 1 .. Len(text),
           \A k \in 1 .. Len(classes) : text[at] \notin classes[k].letters,
           NEW i \in 1 .. at, NEW e \in Ends(text, i, classes)
    PROVE  e <= at
<1> DEFINE R == Reached(text, i, classes)
           N == Len(classes)
           T == {k \in 0 .. N : \A j \in R[k] : j <= at}
<1>1. Len(text) \in Nat /\ N \in Nat /\ at \in Nat /\ i \in Nat
  BY LenProperties
<1>2. /\ R \in [0 .. N -> SUBSET Nat] /\ R[0] = {i}
      /\ \A k \in 1 .. N : R[k] = UNION {After(text, j, classes[k]) : j \in R[k - 1]}
  BY <1>1, ReachedFacts
<1>3. e \in R[N]
  BY DEF Ends
<1> HIDE DEF R
<1>4. 0 \in T
  BY <1>1, <1>2
<1>5. ASSUME NEW k \in 1 .. N, k - 1 \in T, NEW x \in R[k] PROVE x <= at
  <2>0. R[k] = UNION {After(text, j, classes[k]) : j \in R[k - 1]}
    BY <1>2
  <2>1. PICK j \in R[k - 1] : x \in After(text, j, classes[k])
    BY <2>0
  <2>2. j \in Nat /\ j <= at
    BY <1>1, <1>2, <1>5, Zenon
  <2>3. CASE classes[k].star
    <3>1. x \in j .. Len(text) + 1 /\ \A y \in j .. x - 1 : text[y] \in classes[k].letters
      BY <2>1, <2>3 DEF After
    <3>2. ~(at \in j .. x - 1)
      BY <3>1
    <3> QED BY <1>1, <2>2, <3>1, <3>2
  <2>4. CASE ~classes[k].star
    <3>1. x = j + 1 /\ text[j] \in classes[k].letters
      BY <2>1, <2>4 DEF After
    <3>2. j # at
      BY <3>1
    <3> QED BY <1>1, <2>2, <3>1, <3>2
  <2> QED BY <2>3, <2>4
<1>6. \A k \in 1 .. N : k - 1 \in T => k \in T
  BY <1>1, <1>5
<1> HIDE DEF T
<1>7. N \in T
  <2>1. 0 .. N \subseteq T
    BY <1>1, <1>4, <1>6, SetInduction, Zenon
  <2> QED BY <1>1, <2>1
<1> QED BY <1>3, <1>7 DEF T

\* msg is what follows the first P letters of text, and the positions in it.
EndsWith(text, P, msg) == Len(text) = P + Len(msg) /\ \A k \in 1 .. Len(msg) : text[P + k] = msg[k]
Shifted(places, P, inMsg) == places = {P + x : x \in inMsg}

\* One class, in a text and in what follows its first P letters.
LEMMA AfterShift ==
    ASSUME NEW text \in Seq(Letter), NEW msg \in Seq(Letter), NEW P \in Nat,
           EndsWith(text, P, msg), NEW j \in 1 .. Len(msg) + 1, NEW class
    PROVE  /\ After(msg, j, class) \subseteq j .. Len(msg) + 1
           /\ Shifted(After(text, P + j, class), P, After(msg, j, class))
<1> DEFINE L == Len(msg)
<1> USE DEF Shifted
<1>1. L \in Nat /\ j \in Nat
  BY LenProperties
<1>a. Len(text) = P + L /\ \A k \in 1 .. L : text[P + k] = msg[k]
  BY DEF EndsWith
<1>2. After(msg, j, class) \subseteq j .. L + 1
  BY <1>1 DEF After
<1>3. CASE class.star
  <2> DEFINE A == {y \in P + j .. Len(text) + 1 : \A k \in P + j .. y - 1 : text[k] \in class.letters}
             M == {x \in j .. L + 1 : \A k \in j .. x - 1 : msg[k] \in class.letters}
  <2>1. After(text, P + j, class) = A /\ After(msg, j, class) = M
    BY <1>3 DEF After
  <2>2. ASSUME NEW y \in A PROVE y - P \in M /\ y = P + (y - P)
    <3>1. y \in P + j .. (P + L) + 1 /\ y - P \in j .. L + 1 /\ y = P + (y - P)
      BY <1>1, <1>a
    <3>2. ASSUME NEW k \in j .. (y - P) - 1 PROVE msg[k] \in class.letters
      <4>1. P + k \in P + j .. y - 1 /\ k \in 1 .. L
        BY <1>1, <3>1
      <4>2. text[P + k] \in class.letters
        BY <4>1
      <4> QED BY <1>a, <4>1, <4>2
    <3> QED BY <3>1, <3>2
  <2>3. ASSUME NEW x \in M PROVE P + x \in A
    <3>1. P + x \in P + j .. Len(text) + 1
      BY <1>1, <1>a
    <3>2. ASSUME NEW k \in P + j .. (P + x) - 1 PROVE text[k] \in class.letters
      <4>1. k - P \in j .. x - 1 /\ k - P \in 1 .. L /\ P + (k - P) = k
        BY <1>1
      <4>2. msg[k - P] \in class.letters
        BY <4>1
      <4> QED BY <1>a, <4>1, <4>2
    <3> QED BY <3>1, <3>2
  <2> HIDE DEF A, M
  <2>4. A = {P + x : x \in M}
    BY <2>2, <2>3
  <2> QED BY <1>2, <2>1, <2>4
<1>4. CASE ~class.star
  <2>1. After(text, P + j, class) = {y \in {P + j + 1} : P + j <= Len(text) /\ text[P + j] \in class.letters}
    BY <1>4 DEF After
  <2>2. After(msg, j, class) = {x \in {j + 1} : j <= L /\ msg[j] \in class.letters}
    BY <1>4 DEF After
  <2>3. (P + j <= Len(text) <=> j <= L) /\ (j <= L => text[P + j] = msg[j]) /\ P + j + 1 = P + (j + 1)
    BY <1>1, <1>a
  <2>4. CASE j <= L /\ msg[j] \in class.letters
    <3>1. After(text, P + j, class) = {P + (j + 1)} /\ After(msg, j, class) = {j + 1}
      BY <2>1, <2>2, <2>3, <2>4
    <3> QED BY <1>2, <3>1
  <2>5. CASE ~(j <= L /\ msg[j] \in class.letters)
    <3>1. After(text, P + j, class) = {} /\ After(msg, j, class) = {}
      BY <2>1, <2>2, <2>3, <2>5
    <3> QED BY <1>2, <3>1
  <2> QED BY <2>4, <2>5
<1> QED BY <1>3, <1>4

\* All of them: a match within the last letters of a text ends where it ends there.
LEMMA EndsShift ==
    ASSUME NEW text \in Seq(Letter), NEW msg \in Seq(Letter), NEW P \in Nat,
           EndsWith(text, P, msg), NEW i \in 1 .. Len(msg) + 1, NEW classes \in Seq(Class)
    PROVE  /\ Ends(msg, i, classes) \subseteq 1 .. Len(msg) + 1
           /\ Shifted(Ends(text, P + i, classes), P, Ends(msg, i, classes))
<1> DEFINE R == Reached(text, P + i, classes)
           Q == Reached(msg, i, classes)
           N == Len(classes)
           L == Len(msg)
           T == {k \in 0 .. N : Q[k] \subseteq 1 .. L + 1 /\ R[k] = {P + x : x \in Q[k]}}
<1>1. N \in Nat /\ L \in Nat /\ i \in Nat /\ P + i \in Nat
  BY LenProperties
<1>2. /\ R[0] = {P + i}
      /\ \A k \in 1 .. N : R[k] = UNION {After(text, j, classes[k]) : j \in R[k - 1]}
  BY <1>1, ReachedFacts
<1>3. /\ Q[0] = {i}
      /\ \A k \in 1 .. N : Q[k] = UNION {After(msg, j, classes[k]) : j \in Q[k - 1]}
  BY <1>1, ReachedFacts
<1>4. Ends(msg, i, classes) = Q[N] /\ Ends(text, P + i, classes) = R[N]
  BY DEF Ends
<1> HIDE DEF R, Q
<1>5. 0 \in T
  <2>1. {P + x : x \in {i}} = {P + i}
    OBVIOUS
  <2>2. Q[0] \subseteq 1 .. L + 1 /\ R[0] = {P + x : x \in Q[0]}
    BY <1>1, <1>2, <1>3, <2>1
  <2> QED BY <1>1, <2>2
<1>6. ASSUME NEW k \in 1 .. N, k - 1 \in T PROVE k \in T
  <2>1. Q[k - 1] \subseteq 1 .. L + 1 /\ R[k - 1] = {P + x : x \in Q[k - 1]}
    BY <1>6
  <2>2. ASSUME NEW j \in Q[k - 1]
        PROVE  /\ After(msg, j, classes[k]) \subseteq j .. L + 1
               /\ After(text, P + j, classes[k]) = {P + x : x \in After(msg, j, classes[k])}
    <3>1. j \in 1 .. Len(msg) + 1
      BY <2>1
    <3>2. /\ After(msg, j, classes[k]) \subseteq j .. Len(msg) + 1
          /\ Shifted(After(text, P + j, classes[k]), P, After(msg, j, classes[k]))
      BY <3>1, AfterShift
    <3> QED BY <3>2 DEF Shifted
  <2>3. R[k] = UNION {After(text, y, classes[k]) : y \in R[k - 1]}
    BY <1>2
  <2>4. Q[k] = UNION {After(msg, j, classes[k]) : j \in Q[k - 1]}
    BY <1>3
  <2>5. Q[k] \subseteq 1 .. L + 1
    <3>1. \A j \in Q[k - 1] : j .. L + 1 \subseteq 1 .. L + 1
      BY <1>1, <2>1
    <3> QED BY <2>2, <2>4, <3>1
  <2>6. ASSUME NEW y \in R[k] PROVE y \in {P + x : x \in Q[k]}
    <3>1. PICK z \in R[k - 1] : y \in After(text, z, classes[k])
      BY <2>3
    <3>2. PICK j \in Q[k - 1] : z = P + j
      BY <2>1
    <3>3. PICK x \in After(msg, j, classes[k]) : y = P + x
      BY <2>2, <3>1, <3>2
    <3> QED BY <2>4, <3>3
  <2>7. ASSUME NEW x \in Q[k] PROVE P + x \in R[k]
    <3>1. PICK j \in Q[k - 1] : x \in After(msg, j, classes[k])
      BY <2>4
    <3>2. P + x \in After(text, P + j, classes[k])
      BY <2>2, <3>1
    <3>3. P + j \in R[k - 1]
      BY <2>1
    <3> QED BY <2>3, <3>2, <3>3
  <2>8. R[k] = {P + x : x \in Q[k]}
    BY <2>6, <2>7
  <2>9. k \in 0 .. N
    BY <1>1
  <2> QED BY <2>5, <2>8, <2>9
<1> HIDE DEF T
<1>7. N \in T
  <2>1. 0 .. N \subseteq T
    BY <1>1, <1>5, <1>6, SetInduction, Zenon
  <2> QED BY <1>1, <2>1
<1> QED BY <1>4, <1>7 DEF T, Shifted

-----------------------------------------------------------------------------
(* Match *)

\* The joined text ends with the last line, and a newline is before it.
LEMMA TextEndsWithLine ==
    ASSUME NEW logs \in Seq(AnyLog), Len(logs) >= 1
    PROVE  \E P \in Nat :
              /\ EndsWith(Texts(logs)[Len(logs)], P, logs[Len(logs)].message)
              /\ P > 0 => Texts(logs)[Len(logs)][P] = Newline
              /\ \A n \in 1 .. Len(logs) - 1 : Len(Texts(logs)[n]) < P
<1> DEFINE N == Len(logs)
           text == Texts(logs)[N]
           msg == logs[N].message
<1>1. N \in Nat /\ N >= 1 /\ N \in 1 .. N
  BY LenProperties
<1>2. msg \in Seq(Letter)
  <2>1. logs[N] \in AnyLog
    BY <1>1, ElementOfSeq
  <2> QED BY <2>1 DEF AnyLog
<1>3. CASE N = 1
  <2>1. text = msg
    BY <1>3, TextsFacts, Zenon
  <2>2. Len(msg) \in Nat
    BY <1>2, LenProperties
  <2>3. EndsWith(text, 0, msg)
    BY <2>1, <2>2 DEF EndsWith
  <2>4. 1 .. N - 1 = {} /\ ~(0 > 0)
    BY <1>3
  <2> WITNESS 0 \in Nat
  <2> QED BY <2>3, <2>4, Zenon
<1>4. CASE N # 1
  <2> DEFINE pre == Texts(logs)[N - 1]
             nl == <<Newline>>
             head == pre \o nl
             P == Len(head)
  <2>1. N \in 2 .. N /\ N - 1 \in 0 .. N
    <3> HIDE DEF N
    <3> QED BY <1>1, <1>4
  <2>2. pre \in Seq(Letter) /\ nl \in Seq(Letter) /\ Len(nl) = 1 /\ nl[1] = Newline
    <3>1. nl \in Seq(Letter) /\ Len(nl) = 1 /\ nl[1] = Newline
      <4>1. Newline \in Letter
        BY DEF Letter
      <4> QED BY <4>1
    <3>2. Texts(logs) \in [0 .. N -> Seq(Letter)]
      BY TextsFacts, Zenon
    <3> HIDE DEF N, nl
    <3> QED BY <2>1, <3>1, <3>2
  <2>3. text = head \o msg
    BY <2>1, TextsFacts, Zenon
  <2> HIDE DEF pre, nl, text, msg
  <2>4. Len(pre) \in Nat
    BY <2>2, LenProperties
  <2>5. head \in Seq(Letter) /\ P = Len(pre) + 1 /\ head[Len(pre) + 1] = Newline
    <3>1. /\ head \in Seq(Letter) /\ Len(head) = Len(pre) + Len(nl)
          /\ \A i \in 1 .. Len(pre) + Len(nl) : head[i] = IF i <= Len(pre) THEN pre[i] ELSE nl[i - Len(pre)]
      BY <2>2, ConcatProperties, ZenonT(30)
    <3> HIDE DEF head
    <3>2. Len(pre) + 1 \in 1 .. Len(pre) + Len(nl) /\ ~(Len(pre) + 1 <= Len(pre))
          /\ (Len(pre) + 1) - Len(pre) = 1 /\ Len(pre) + Len(nl) = Len(pre) + 1
      BY <2>2, <2>4
    <3> QED BY <2>2, <3>1, <3>2
  <2> HIDE DEF head
  <2>6. /\ Len(text) = Len(head) + Len(msg)
        /\ \A i \in 1 .. Len(head) + Len(msg) : text[i] = IF i <= Len(head) THEN head[i] ELSE msg[i - Len(head)]
    BY <1>2, <2>3, <2>5, ConcatProperties, Zenon
  <2>7. P \in Nat /\ P >= 1 /\ Len(msg) \in Nat
    BY <1>2, <2>4, <2>5, LenProperties
  <2>8. EndsWith(text, P, msg)
    <3>1. \A k \in 1 .. Len(msg) : P + k \in 1 .. P + Len(msg) /\ ~(P + k <= P) /\ (P + k) - P = k
      BY <2>7
    <3> QED BY <2>6, <3>1 DEF EndsWith
  <2>9. text[P] = Newline
    <3>1. P \in 1 .. P + Len(msg) /\ P <= P
      BY <2>7
    <3> QED BY <2>5, <2>6, <3>1
  <2>10. ASSUME NEW n \in 1 .. N - 1 PROVE Len(Texts(logs)[n]) < P
    <3>1. n \in 0 .. N /\ N - 1 \in n .. N
      BY <1>1
    <3>2. Len(Texts(logs)[n]) \in Nat /\ Len(Texts(logs)[n]) <= Len(pre)
      BY <3>1, TextsGrow, Zenon DEF pre
    <3> QED BY <2>4, <2>5, <3>2
  <2>11. /\ EndsWith(Texts(logs)[N], P, logs[N].message)
         /\ P > 0 => Texts(logs)[N][P] = Newline
         /\ \A n \in 1 .. N - 1 : Len(Texts(logs)[n]) < P
    BY <2>8, <2>9, <2>10 DEF text, msg
  <2> HIDE DEF P
  <2>12. P \in Nat
    BY <2>7
  <2> QED BY <2>11, <2>12
<1> QED BY <1>3, <1>4

\* A rule that accepts no newline and has no start anchor begins its match in the last
\* line: it matches the joined text where it matches that line.
LEMMA LastLineStarts ==
    ASSUME NEW expr \in Seq(Alternative), CompilePattern(expr).lastLineOnly,
           NEW p, p.alternatives = expr,
           NEW text \in Seq(Letter), NEW msg \in Seq(Letter), NEW P \in Nat,
           EndsWith(text, P, msg), P > 0 => text[P] = Newline
    PROVE  Shifted(Starts(p, text), P, Starts(p, msg))
<1> DEFINE classes == expr[1].classes
           L == Len(msg)
<1>1. Len(expr) = 1 /\ ~expr[1].start /\ ~AcceptsNewline(expr[1])
  BY Zenon DEF CompilePattern
<1>2. expr[1] \in Alternative
  <2>1. 1 \in 1 .. Len(expr)
    BY <1>1
  <2> QED BY <2>1, ElementOfSeq
<1>3. classes \in Seq(Class) /\ \A k \in 1 .. Len(classes) : Newline \notin classes[k].letters
  <2>1. classes \in Seq(Class)
    BY <1>2 DEF Alternative
  <2>2. DOMAIN classes = 1 .. Len(classes)
    BY <2>1, LenProperties
  <2> QED BY <1>1, <2>1, <2>2 DEF AcceptsNewline
<1>4. L \in Nat /\ Len(text) = P + L
  BY LenProperties DEF EndsWith
<1>5. ASSUME NEW t, NEW i PROVE MatchesAt(p, t, i) <=> Len(t) + 1 \in Ends(t, i, classes)
  <2>1. DOMAIN expr = {1}
    BY <1>1, LenProperties
  <2> QED BY <1>1, <2>1 DEF MatchesAt
<1> HIDE DEF classes, L
<1>6. \A i \in 1 .. L + 1 : i \in Starts(p, msg) <=> L + 1 \in Ends(msg, i, classes)
  BY <1>5 DEF Starts, L
<1>7. \A i \in 1 .. (P + L) + 1 : i \in Starts(p, text) <=> (P + L) + 1 \in Ends(text, i, classes)
  BY <1>4, <1>5 DEF Starts
<1>8. ASSUME NEW i \in 1 .. L + 1 PROVE P + i \in Starts(p, text) <=> i \in Starts(p, msg)
  <2>1. /\ Ends(msg, i, classes) \subseteq 1 .. L + 1
        /\ Shifted(Ends(text, P + i, classes), P, Ends(msg, i, classes))
    BY <1>3, EndsShift DEF L
  <2> DEFINE inText == Ends(text, P + i, classes)
             inMsg == Ends(msg, i, classes)
  <2>a. inMsg \subseteq 1 .. L + 1 /\ inText = {P + x : x \in inMsg}
    BY <2>1 DEF Shifted
  <2> HIDE DEF inText, inMsg
  <2>b. \A x \in inMsg : (P + L) + 1 = P + x => x = L + 1
    BY <1>4, <2>a
  <2>c. P + (L + 1) = (P + L) + 1
    BY <1>4
  <2>d. ASSUME L + 1 \in inMsg PROVE (P + L) + 1 \in inText
    <3>1. P + (L + 1) \in inText
      BY <2>a, <2>d, Zenon
    <3> QED BY <2>c, <3>1
  <2>e. ASSUME (P + L) + 1 \in inText PROVE L + 1 \in inMsg
    <3>1. PICK x \in inMsg : (P + L) + 1 = P + x
      BY <2>a, <2>e
    <3> QED BY <2>b, <3>1
  <2>2. (P + L) + 1 \in inText <=> L + 1 \in inMsg
    BY <2>d, <2>e
  <2>3. P + i \in 1 .. (P + L) + 1
    BY <1>4
  <2> QED BY <1>6, <1>7, <2>2, <2>3 DEF inText, inMsg
<1>9. ASSUME NEW i \in Starts(p, text) PROVE i - P \in 1 .. L + 1 /\ P + (i - P) = i
  <2>1. i \in 1 .. (P + L) + 1
    BY <1>4 DEF Starts
  <2>2. ASSUME i <= P PROVE FALSE
    <3>1. P \in 1 .. Len(text) /\ i \in 1 .. P /\ text[P] = Newline
      BY <1>4, <2>1, <2>2
    <3>2. \A k \in 1 .. Len(classes) : text[P] \notin classes[k].letters
      BY <1>3, <3>1
    <3>3. \A e \in Ends(text, i, classes) : e <= P
      BY <1>3, <3>1, <3>2, MatchStops, Zenon
    <3>4. (P + L) + 1 <= P
      BY <1>7, <2>1, <3>3
    <3> QED BY <1>4, <3>4
  <2> QED BY <1>4, <2>1, <2>2
<1>10. Starts(p, msg) \subseteq 1 .. L + 1
  BY DEF Starts, L
<1>11. Starts(p, text) = {P + i : i \in Starts(p, msg)}
  <2>1. \A i \in Starts(p, text) : i - P \in Starts(p, msg) /\ P + (i - P) = i
    BY <1>8, <1>9
  <2>2. \A i \in Starts(p, msg) : P + i \in Starts(p, text)
    BY <1>8, <1>10
  <2> QED BY <2>1, <2>2
<1> QED BY <1>11 DEF Shifted

\* The last pushed line is the first from the tail.
LEMMA LastPushed ==
    ASSUME NEW b, NEW lines \in Seq(PushedLog), RingHolds(b, lines), b.current # 0
    PROVE  b.buffer[(b.current - 1) % BufferSize] = Window(lines)[BufferSize]
<1> DEFINE B == BufferSize
<1>1. b.current - 1 \in Nat /\ B \in Nat \ {0} /\ B - 1 + 1 = B /\ 1 \in 1 .. B /\ B + 1 - 1 = B
      /\ b.current + B - 1 = (b.current - 1) + B
  BY BufferSizeAssumption DEF RingHolds
<1>2. ((b.current - 1) + B) % B = (b.current - 1) % B
  BY <1>1, RingPlaces, Zenon
<1>3. Slot(b, 1) = Window(lines)[B]
  BY <1>1, SlotIsLine
<1> QED BY <1>1, <1>2, <1>3 DEF Slot

\* For every buffer size, every sequence of pushed lines and every expression, Match
\* returns exactly the lines that the leftmost match in the joined text covers.  It does
\* so with and without the cached text of String, and also when CompilePattern found
\* that the rule can be matched against the last line alone.
THEOREM MatchIsCovered ==
    ASSUME NEW b, NEW lines \in Seq(PushedLog), RingHolds(b, lines), NEW expr \in Seq(Alternative)
    PROVE  Match(b, CompilePattern(expr)) = CoveredLines(lines, expr)
<1> DEFINE B == BufferSize
           w == Window(lines)
           p == CompilePattern(expr)
           q == [alternatives |-> expr]
           text == concatLogs(w)
           starts == Starts(q, text)
           first(i) == Max({Owner(w, i), B - Len(lines) + 1})
<1>1. B \in Nat /\ B >= 1 /\ w \in Seq(AnyLog) /\ Len(w) = B /\ Len(lines) \in Nat
  BY BufferSizeAssumption, WindowFacts
<1>2. \A t : Starts(p, t) = Starts(q, t)
  BY DEF Starts, MatchesAt, CompilePattern
<1>3. String(b) = text /\ text \in Seq(Letter) /\ text = Texts(w)[B]
  BY StringIsText
<1>4. CoveredLines(lines, expr) = IF starts = {} THEN <<>> ELSE SubSeq(w, first(Min(starts)), B)
  BY DEF CoveredLines
<1>5. starts \in SUBSET Nat
  <2>1. Len(text) \in Nat
    BY <1>3, LenProperties
  <2> QED BY <2>1 DEF Starts
<1>6. starts # {} => Min(starts) \in starts /\ Min(starts) \in Nat
  <2> HIDE DEF starts
  <2> QED BY <1>5, MinOfNumbers, Zenon
<1>7. CASE ~p.lastLineOnly
  <2>1. Match(b, p) = IF starts = {} THEN <<>> ELSE MatchedLines(b, Min(starts))
    BY <1>2, <1>3, <1>7 DEF Match
  <2>2. ASSUME starts # {} PROVE MatchedLines(b, Min(starts)) = SubSeq(w, first(Min(starts)), B)
    BY <1>6, <2>2, LoopReturns, Zenon
  <2> HIDE DEF starts, first, w, p
  <2> DEFINE none == <<>>
             found == MatchedLines(b, Min(starts))
             part == SubSeq(w, first(Min(starts)), B)
  <2>3. /\ Match(b, p) = IF starts = {} THEN none ELSE found
        /\ CoveredLines(lines, expr) = IF starts = {} THEN none ELSE part
        /\ starts # {} => found = part
    BY <1>4, <2>1, <2>2
  <2> HIDE DEF none, found, part
  <2>4. Match(b, p) = CoveredLines(lines, expr)
    BY <2>3
  <2> QED BY <2>4 DEF p
<1>8. CASE p.lastLineOnly
  <2> DEFINE msg == w[B].message
             last == b.buffer[(b.current - 1) % B]
  <2>1. w[B] \in AnyLog
    BY <1>1, ElementOfSeq
  <2>2. msg \in Seq(Letter)
    BY <2>1 DEF AnyLog
  <2>3. PICK P \in Nat : /\ EndsWith(text, P, msg) /\ (P > 0 => text[P] = Newline)
                         /\ \A n \in 1 .. B - 1 : Len(Texts(w)[n]) < P
    BY <1>1, <1>3, TextEndsWithLine, Zenon
  <2>4. Shifted(starts, P, Starts(q, msg))
    <3>1. q.alternatives = expr
      OBVIOUS
    <3> HIDE DEF q, text, msg
    <3> QED BY <1>3, <1>8, <2>2, <2>3, <3>1, LastLineStarts
  <2>5. starts = {} <=> Starts(q, msg) = {}
    BY <2>4, Zenon DEF Shifted
  <2>6. b.current = 0 <=> lines = <<>>
    BY DEF RingHolds
  <2>7. Match(b, p) = IF b.current # 0 /\ Starts(q, last.message) # {} THEN <<last>> ELSE <<>>
    BY <1>2, <1>8 DEF Match, matchLastLine
  <2>8. b.current # 0 => last = w[B]
    BY LastPushed
  <2>9. Match(b, p) = IF lines # <<>> /\ starts # {} THEN <<w[B]>> ELSE <<>>
    BY <2>5, <2>6, <2>7, <2>8
  <2>10. ASSUME starts # {} PROVE SubSeq(w, first(Min(starts)), B) = IF lines # <<>> THEN <<w[B]>> ELSE <<>>
    <3> DEFINE i == Min(starts)
    <3>1. i \in Nat /\ i > P
      <4>1. PICK x \in Starts(q, msg) : i = P + x
        BY <1>6, <2>4, <2>10 DEF Shifted
      <4>2. x \in Nat /\ x >= 1
        <5>1. Len(msg) \in Nat
          BY <2>2, LenProperties
        <5> QED BY <5>1 DEF Starts
      <4> HIDE DEF i
      <4> QED BY <4>1, <4>2
    <3> HIDE DEF i
    <3>2. Owner(w, i) \in 1 .. B /\ \A n \in 1 .. B - 1 : i <= Len(Texts(w)[n]) <=> Owner(w, i) <= n
      <4> HIDE DEF w
      <4> QED BY <1>1, <3>1, OwnerFacts, Zenon
    <3>3. Owner(w, i) = B
      <4>1. ASSUME Owner(w, i) # B PROVE FALSE
        <5> DEFINE o == Owner(w, i)
        <5>1. o \in 1 .. B - 1 /\ o <= o
          BY <1>1, <3>2, <4>1
        <5>2. i <= Len(Texts(w)[o]) /\ Len(Texts(w)[o]) < P
          BY <2>3, <3>2, <5>1
        <5>3. o \in 0 .. Len(w) /\ o \in o .. Len(w)
          BY <1>1, <5>1
        <5>4. Len(Texts(w)[o]) \in Nat
          <6> HIDE DEF w, o
          <6> QED BY <1>1, <5>3, TextsGrow
        <5> HIDE DEF o
        <5> QED BY <3>1, <5>2, <5>4
      <4> QED BY <4>1
    <3>4. first(i) = IF B >= B - Len(lines) + 1 THEN B ELSE B - Len(lines) + 1
      <4>1. B \in Int /\ B - Len(lines) + 1 \in Int
        BY <1>1
      <4> HIDE DEF B
      <4> QED BY <3>3, <4>1, MaxOfTwo
    <3>5. CASE lines = <<>>
      <4>1. first(i) = B + 1 /\ B < B + 1 /\ B + 1 \in Int /\ B \in Int
        BY <1>1, <3>4, <3>5
      <4> HIDE DEF first
      <4>2. SubSeq(w, first(i), B) = <<>>
        BY <4>1, SubSeqEmpty
      <4> QED BY <3>5, <4>2 DEF i
    <3>6. CASE lines # <<>>
      <4>1. Len(lines) > 0
        BY <1>1, <3>6, EmptySeq
      <4>2. first(i) = B
        BY <1>1, <3>4, <4>1
      <4> DEFINE part == SubSeq(w, B, B)
      <4>3. part \in Seq(AnyLog) /\ Len(part) = 1 /\ part[1] = w[B]
        <5>1. \A k \in B .. B : w[k] \in AnyLog
          BY <1>1, <2>1
        <5>2. B \in Int /\ B <= B /\ B - B + 1 = 1 /\ B + 1 - 1 = B /\ 1 \in 1 .. B - B + 1
          BY <1>1
        <5>3. /\ SubSeq(w, B, B) \in Seq(AnyLog)
              /\ Len(SubSeq(w, B, B)) = IF B <= B THEN B - B + 1 ELSE 0
              /\ \A k \in 1 .. B - B + 1 : SubSeq(w, B, B)[k] = w[B + k - 1]
          <6> HIDE DEF w, B
          <6> QED BY <5>1, <5>2, SubSeqProperties
        <5> HIDE DEF w, B
        <5> QED BY <5>2, <5>3
      <4> HIDE DEF part
      <4>4. part = <<w[B]>>
        BY <4>3
      <4> HIDE DEF first
      <4> QED BY <3>6, <4>2, <4>4 DEF part, i
    <3> QED BY <3>5, <3>6, Zenon
  <2> HIDE DEF starts, first, w, p
  <2> DEFINE one == <<w[B]>>
             none == <<>>
             part == SubSeq(w, first(Min(starts)), B)
  <2>11. /\ CoveredLines(lines, expr) = IF starts = {} THEN none ELSE part
         /\ Match(b, p) = IF lines # none /\ starts # {} THEN one ELSE none
         /\ starts # {} => part = IF lines # none THEN one ELSE none
    BY <1>4, <2>9, <2>10
  <2> HIDE DEF one, none, part
  <2>12. Match(b, p) = CoveredLines(lines, expr)
    BY <2>11
  <2> QED BY <2>12 DEF p
<1> QED BY <1>7, <1>8
=============================================================================
