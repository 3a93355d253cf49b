----------------------------- MODULE ReportProofs -----------------------------
(***************************************************************************)
(* What page and export say of a meeting, for texts of any length: a text  *)
(* is shown word by word, with names in place of the labels that have one, *)
(* and every speaker who is shown is in the export's line of speakers.     *)
(*                                                                         *)
(* The text is rewritten by a recursive function over its places, and      *)
(* described by its pieces, which are maximal runs of word symbols or of   *)
(* others.  The proof follows the function from piece to piece: a label    *)
(* that is found is all of a piece, so that a piece is shown as its name,  *)
(* or symbol by symbol as it is.                                           *)
(***************************************************************************)
EXTENDS WebAppProofs, CountingProofs, SequenceTheorems

-----------------------------------------------------------------------------
(* A text place by place.                                                   *)

\* What may stand in a text that is shown: the symbols, and a name's letter.
Letters == Symbols \union {"n"}

\* Names for labels.
GoodNames(names) ==
  DOMAIN names \subseteq Labels /\ \A l \in DOMAIN names : names[l] \in Seq(Letters)

\* A label is a word of one symbol at least.
LEMMA LabelFacts ==
  \A l \in Labels : /\ l \in Seq(Symbols) /\ Len(l) \in Nat \ {0}
                    /\ \A i \in 1 .. Len(l) : IsWord(l[i])
<1>1. /\ <<"S", "0">> \in Seq(Symbols) /\ Len(<<"S", "0">>) = 2
      /\ <<"S", "1">> \in Seq(Symbols) /\ Len(<<"S", "1">>) = 2
      /\ <<"S", "0", "1">> \in Seq(Symbols) /\ Len(<<"S", "0", "1">>) = 3
  BY DEF Symbols
<1>2. /\ \A i \in 1 .. 2 : IsWord(<<"S", "0">>[i]) /\ IsWord(<<"S", "1">>[i])
      /\ \A i \in 1 .. 3 : IsWord(<<"S", "0", "1">>[i])
  BY DEF IsWord
<1> SUFFICES ASSUME NEW l \in Labels
             PROVE  /\ l \in Seq(Symbols) /\ Len(l) \in Nat \ {0}
                    /\ \A i \in 1 .. Len(l) : IsWord(l[i])
  OBVIOUS
<1>3. CASE l = <<"S", "0">>
  BY <1>1, <1>2, <1>3
<1>4. CASE l = <<"S", "1">>
  BY <1>1, <1>2, <1>4
<1>5. CASE l = <<"S", "0", "1">>
  BY <1>1, <1>2, <1>5
<1>6. QED
  BY <1>3, <1>4, <1>5, Zenon DEF Labels

Found(text, i, names) == MatchesAt(text, i, DOMAIN names)

\* The longest label found is a label that has a name, and ends in the text.
LEMMA FoundFacts ==
  ASSUME NEW text \in Seq(Symbols), NEW names, GoodNames(names),
         NEW i \in 1 .. Len(text), Found(text, i, names) # {}
  PROVE  /\ LongestOf(Found(text, i, names)) \in Found(text, i, names)
         /\ LongestOf(Found(text, i, names)) \in DOMAIN names
         /\ i + Len(LongestOf(Found(text, i, names))) \in i + 1 .. Len(text) + 1
<1> DEFINE F == Found(text, i, names)
           S == {Len(l) : l \in F}
<1>1. Len(text) \in Nat
  BY LenProperties
<1>2. \A l \in F : /\ l \in DOMAIN names /\ Len(l) \in Nat \ {0}
                   /\ i + Len(l) - 1 <= Len(text)
  BY LabelFacts DEF GoodNames, Found, MatchesAt
<1>3. \A l \in F : Len(l) \in 0 .. Len(text)
  BY <1>1, <1>2
<1>4. S \in SUBSET (0 .. Len(text)) /\ S # {}
  <2> HIDE DEF F
  <2>1. QED
    BY <1>3 DEF F
<1>5. PICK x \in S : \A y \in S : y <= x
  <2> HIDE DEF S
  <2>1. QED
    BY <1>1, <1>4, GreatestExists
<1>6. PICK l \in F : x = Len(l)
  BY <1>5
<1>7. \A k \in F : Len(k) <= Len(l)
  <2> HIDE DEF F
  <2>1. QED
    BY <1>5, <1>6
<1>8. LongestOf(F) \in F
  <2> HIDE DEF F
  <2>1. \E m \in F : \A k \in F : Len(k) <= Len(m)
    BY <1>7
  <2>2. QED
    BY <2>1, Zenon DEF LongestOf
<1> HIDE DEF F
<1>9. QED
  BY <1>1, <1>2, <1>8 DEF F

-----------------------------------------------------------------------------
(* Displayed, place by place.                                               *)

\* What is shown from a place on, if f says it for the places after it.
ShownFrom(f, text, names, i) ==
  LET found == Found(text, i, names)
  IN  IF i > Len(text) THEN << >>
      ELSE IF found = {} THEN <<text[i]>> \o f[i + 1]
      ELSE names[LongestOf(found)] \o f[i + Len(LongestOf(found))]

\* The same in cases.
LEMMA ShownCases ==
  ASSUME NEW f, NEW text \in Seq(Symbols), NEW names, GoodNames(names),
         NEW i \in 1 .. Len(text) + 1,
         \A j \in i + 1 .. Len(text) + 1 : f[j] \in Seq(Letters)
  PROVE  ShownFrom(f, text, names, i) \in Seq(Letters)
<1>1. Len(text) \in Nat
  BY LenProperties
<1>2. CASE i > Len(text)
  <2>1. ShownFrom(f, text, names, i) = << >>
    BY <1>2, Zenon DEF ShownFrom
  <2>2. QED
    BY <2>1, EmptySeq
<1>3. CASE ~(i > Len(text)) /\ Found(text, i, names) = {}
  <2>1. ShownFrom(f, text, names, i) = <<text[i]>> \o f[i + 1]
    BY <1>3, Zenon DEF ShownFrom
  <2>2. i \in 1 .. Len(text) /\ i + 1 \in i + 1 .. Len(text) + 1
    BY <1>1, <1>3
  <2>3. text[i] \in Letters
    BY <2>2, ElementOfSeq DEF Letters
  <2>4. <<text[i]>> \in Seq(Letters) /\ f[i + 1] \in Seq(Letters)
    BY <2>2, <2>3
  <2>5. QED
    BY <2>1, <2>4, ConcatProperties
<1>4. CASE ~(i > Len(text)) /\ Found(text, i, names) # {}
  <2> DEFINE l == LongestOf(Found(text, i, names))
  <2>1. ShownFrom(f, text, names, i) = names[l] \o f[i + Len(l)]
    BY <1>4, Zenon DEF ShownFrom
  <2>2. i \in 1 .. Len(text)
    BY <1>1, <1>4
  <2>3. l \in DOMAIN names /\ i + Len(l) \in i + 1 .. Len(text) + 1
    BY <1>4, <2>2, FoundFacts
  <2> HIDE DEF l
  <2>4. names[l] \in Seq(Letters) /\ f[i + Len(l)] \in Seq(Letters)
    BY <2>3 DEF GoodNames
  <2>5. QED
    BY <2>1, <2>4, ConcatProperties
<1>5. QED
  BY <1>2, <1>3, <1>4

\* What is shown from a place on depends on the later places alone.
LEMMA ShownLater ==
  ASSUME NEW f, NEW g, NEW text \in Seq(Symbols), NEW names, GoodNames(names),
         NEW i \in 1 .. Len(text) + 1,
         \A j \in i + 1 .. Len(text) + 1 : f[j] = g[j]
  PROVE  ShownFrom(f, text, names, i) = ShownFrom(g, text, names, i)
<1>1. Len(text) \in Nat
  BY LenProperties
<1>2. CASE i > Len(text)
  BY <1>2, Zenon DEF ShownFrom
<1>3. CASE ~(i > Len(text)) /\ Found(text, i, names) = {}
  <2>1. i + 1 \in i + 1 .. Len(text) + 1
    BY <1>1, <1>3
  <2>2. f[i + 1] = g[i + 1]
    BY <2>1
  <2>3. QED
    BY <1>3, <2>2, Zenon DEF ShownFrom
<1>4. CASE ~(i > Len(text)) /\ Found(text, i, names) # {}
  <2> DEFINE l == LongestOf(Found(text, i, names))
  <2>1. i \in 1 .. Len(text)
    BY <1>1, <1>4
  <2>2. f[i + Len(l)] = g[i + Len(l)]
    BY <1>4, <2>1, FoundFacts
  <2>3. QED
    BY <1>4, <2>2, Zenon DEF ShownFrom
<1>5. QED
  BY <1>2, <1>3, <1>4

\* There is such a function, and the text is shown as it says.
LEMMA DisplayedPlaces ==
  ASSUME NEW text \in Seq(Symbols), NEW names, GoodNames(names)
  PROVE  \E f \in [1 .. Len(text) + 1 -> Seq(Letters)] :
           /\ \A i \in 1 .. Len(text) + 1 : f[i] = ShownFrom(f, text, names, i)
           /\ Displayed(text, names) = f[1]
<1> DEFINE N == Len(text)
           Fs == [1 .. N + 1 -> Seq(Letters)]
           Shows(f, m) == \A i \in N + 1 - m .. N + 1 : f[i] = ShownFrom(f, text, names, i)
           S == {m \in 0 .. N : \E f \in Fs : Shows(f, m)}
<1>1. N \in Nat
  BY LenProperties
<1> HIDE DEF N
<1>2. 0 \in S
  <2> DEFINE f == [i \in 1 .. N + 1 |-> << >>]
  <2>1. f \in Fs
    BY EmptySeq
  <2>2. ShownFrom(f, text, names, N + 1) = << >>
    BY <1>1 DEF ShownFrom, N
  <2>3. Shows(f, 0)
    BY <1>1, <2>2
  <2>4. 0 \in 0 .. N
    BY <1>1
  <2> HIDE DEF f, Fs, Shows
  <2>5. QED
    BY <2>1, <2>3, <2>4
<1>3. ASSUME NEW m \in 0 .. N - 1, m \in S PROVE m + 1 \in S
  <2>1. PICK f \in Fs : Shows(f, m)
    BY <1>3
  <2> DEFINE p == N - m
             g == [f EXCEPT ![p] = ShownFrom(f, text, names, p)]
  <2>2. p \in 1 .. N + 1 /\ p \in 1 .. N /\ N + 1 - (m + 1) = p /\ N + 1 - m = p + 1
    BY <1>1
  <2>3. ShownFrom(f, text, names, p) \in Seq(Letters)
    <3>1. \A j \in p + 1 .. N + 1 : f[j] \in Seq(Letters)
      BY <1>1, <2>2
    <3> HIDE DEF p
    <3>2. QED
      BY <2>2, <3>1, ShownCases DEF N
  <2> HIDE DEF p
  <2>4. g \in Fs
    BY <2>3
  <2>5. g[p] = ShownFrom(f, text, names, p) /\ \A j \in p + 1 .. N + 1 : g[j] = f[j]
    BY <1>1, <2>2
  <2> HIDE DEF g
  <2>6. ASSUME NEW i \in p .. N + 1 PROVE g[i] = ShownFrom(g, text, names, i)
    <3>1. i \in 1 .. N + 1 /\ \A j \in i + 1 .. N + 1 : f[j] = g[j]
      BY <1>1, <2>2, <2>5
    <3>2. ShownFrom(f, text, names, i) = ShownFrom(g, text, names, i)
      <4>1. i \in 1 .. Len(text) + 1 /\ \A j \in i + 1 .. Len(text) + 1 : f[j] = g[j]
        BY <3>1, Zenon DEF N
      <4>2. \A h : (\A j \in i + 1 .. Len(text) + 1 : f[j] = h[j])
                     => ShownFrom(f, text, names, i) = ShownFrom(h, text, names, i)
        BY <4>1, ShownLater, ZenonT(30)
      <4>3. QED
        BY <4>1, <4>2, Zenon
    <3>3. CASE i = p
      BY <2>5, <3>2, <3>3
    <3>4. CASE i # p
      <4>1. i \in p + 1 .. N + 1
        BY <1>1, <2>2, <3>4
      <4>2. f[i] = ShownFrom(f, text, names, i) /\ g[i] = f[i]
        BY <2>1, <2>2, <2>5, <4>1
      <4>3. QED
        BY <3>2, <4>2
    <3>5. QED
      BY <3>3, <3>4
  <2>7. Shows(g, m + 1)
    BY <2>2, <2>6
  <2> HIDE DEF Shows
  <2>8. m + 1 \in 0 .. N
    BY <1>1
  <2>9. QED
    BY <2>4, <2>7, <2>8
<1>4. 0 .. N \subseteq S
  <2> HIDE DEF S
  <2>1. QED
    BY <1>1, <1>2, <1>3, BoundedInduction
<1>5. PICK f \in Fs : \A i \in 1 .. N + 1 : f[i] = ShownFrom(f, text, names, i)
  <2>1. PICK f \in Fs : Shows(f, N)
    <3>1. N \in 0 .. N
      BY <1>1
    <3> HIDE DEF Shows, Fs
    <3>2. QED
      BY <1>4, <3>1
  <2>2. N + 1 - N = 1
    BY <1>1
  <2>3. QED
    BY <2>1, <2>2
<1> DEFINE Rec(h) == h = [i \in 1 .. N + 1 |-> ShownFrom(h, text, names, i)]
           g == CHOOSE h : Rec(h)
<1>6. Rec(f)
  BY <1>5
<1>7. Rec(g)
  <2> HIDE DEF Rec
  <2>1. QED
    BY <1>6
<1>8. Displayed(text, names) = g[1]
  BY Zenon DEF Displayed, ShownFrom, Found, N
<1>9. \A i \in 1 .. N + 1 : g[i] = ShownFrom(g, text, names, i)
  BY <1>7
<1> HIDE DEF g, Rec
\* All such functions are the same.
<1> DEFINE E == {m \in 0 .. N : \A j \in N + 1 - m .. N + 1 : g[j] = f[j]}
<1>10. 0 \in E
  <2>1. N + 1 \in 1 .. N + 1 /\ N + 1 > N
    BY <1>1
  <2>2. ShownFrom(f, text, names, N + 1) = << >> /\ ShownFrom(g, text, names, N + 1) = << >>
    BY <2>1, Zenon DEF ShownFrom, N
  <2>3. g[N + 1] = f[N + 1]
    BY <1>5, <1>9, <2>1, <2>2
  <2>4. QED
    BY <1>1, <2>3
<1>11. ASSUME NEW m \in 0 .. N - 1, m \in E PROVE m + 1 \in E
  <2> DEFINE p == N - m
  <2>1. p \in 1 .. N + 1 /\ N + 1 - (m + 1) = p /\ N + 1 - m = p + 1 /\ m + 1 \in 0 .. N
    BY <1>1
  <2> HIDE DEF p
  <2>2. \A j \in p + 1 .. N + 1 : f[j] = g[j]
    BY <1>11, <2>1
  <2>3. ShownFrom(f, text, names, p) = ShownFrom(g, text, names, p)
    BY <2>1, <2>2, ShownLater DEF N
  <2>4. g[p] = f[p]
    BY <1>5, <1>9, <2>1, <2>3
  <2>5. \A j \in p .. N + 1 : g[j] = f[j]
    <3>1. \A j \in p .. N + 1 : j = p \/ j \in p + 1 .. N + 1
      BY <1>1, <2>1
    <3>2. QED
      BY <2>2, <2>4, <3>1, Zenon
  <2>6. QED
    BY <2>1, <2>5
<1>12. 0 .. N \subseteq E
  <2> HIDE DEF E
  <2>1. QED
    BY <1>1, <1>10, <1>11, BoundedInduction
<1>13. g[1] = f[1]
  <2>1. N + 1 - N = 1 /\ 1 \in 1 .. N + 1 /\ N \in 0 .. N
    BY <1>1
  <2>2. \A j \in N + 1 - N .. N + 1 : g[j] = f[j]
    BY <1>12, <2>1, Zenon
  <2>3. QED
    BY <2>1, <2>2, Zenon
<1>14. QED
  BY <1>5, <1>8, <1>13 DEF N

-----------------------------------------------------------------------------
(* A text piece by piece.                                                   *)

\* text[a .. b] is a word, or what is between two.
IsPiece(text, a, b) ==
  /\ a \in 1 .. Len(text) /\ b \in a .. Len(text)
  /\ \A i \in a .. b : IsWord(text[i]) = IsWord(text[a])
  /\ a > 1 => IsWord(text[a - 1]) # IsWord(text[a])
  /\ b < Len(text) => IsWord(text[b + 1]) # IsWord(text[a])

NameFor(names, piece) == IF piece \in DOMAIN names THEN names[piece] ELSE piece

\* A label that is found in a piece is all of it.
LEMMA FoundIsPiece ==
  ASSUME NEW text \in Seq(Symbols), NEW names, GoodNames(names),
         NEW a, NEW b, IsPiece(text, a, b), NEW i \in a .. b,
         NEW l \in Found(text, i, names)
  PROVE  i = a /\ l = SubSeq(text, a, b)
<1>1. /\ Len(text) \in Nat /\ a \in 1 .. Len(text) /\ b \in a .. Len(text)
      /\ a \in Nat /\ b \in Nat /\ i \in Nat
  BY LenProperties DEF IsPiece
<1>2. /\ l \in Labels /\ Len(l) \in Nat \ {0}
      /\ \A j \in 1 .. Len(l) : IsWord(l[j])
  BY LabelFacts DEF GoodNames, Found, MatchesAt
<1>3. /\ i + Len(l) - 1 <= Len(text)
      /\ SubSeq(text, i, i + Len(l) - 1) = l
      /\ i > 1 => ~IsWord(text[i - 1])
      /\ i + Len(l) <= Len(text) => ~IsWord(text[i + Len(l)])
  BY DEF Found, MatchesAt
<1> DEFINE n == Len(l)
<1>4. \A k \in i .. i + n - 1 : IsWord(text[k])
  <2> SUFFICES ASSUME NEW k \in i .. i + n - 1 PROVE IsWord(text[k])
    OBVIOUS
  <2>1. \A j \in i .. i + n - 1 : text[j] \in Symbols
    <3>1. \A j \in i .. i + n - 1 : j \in 1 .. Len(text)
      BY <1>1, <1>2, <1>3
    <3>2. QED
      BY <3>1, ElementOfSeq
  <2>2. \A j \in 1 .. i + n - 1 - i + 1 : SubSeq(text, i, i + n - 1)[j] = text[i + j - 1]
    <3> DEFINE e == i + n - 1
    <3>1. i \in Int /\ e \in Int
      BY <1>1, <1>2
    <3>2. \A j \in i .. e : text[j] \in Symbols
      BY <2>1
    <3> HIDE DEF e
    <3>3. \A j \in 1 .. e - i + 1 : SubSeq(text, i, e)[j] = text[i + j - 1]
      BY <3>1, <3>2, SubSeqProperties
    <3>4. QED
      BY <3>3 DEF e
  <2>3. k - i + 1 \in 1 .. i + n - 1 - i + 1 /\ k - i + 1 \in 1 .. n /\ i + (k - i + 1) - 1 = k
    BY <1>1, <1>2
  <2>4. l[k - i + 1] = text[k]
    BY <1>3, <2>2, <2>3
  <2>5. QED
    BY <1>2, <2>3, <2>4
<1> HIDE DEF n
<1>5. n \in Nat \ {0} /\ i + n - 1 <= Len(text)
      /\ (i + n <= Len(text) => ~IsWord(text[i + n]))
  BY <1>2, <1>3 DEF n
<1>6. IsWord(text[i])
  BY <1>1, <1>4, <1>5
<1>7. \A k \in a .. b : IsWord(text[k])
  BY <1>6 DEF IsPiece
<1>8. i = a
  <2>1. CASE i > a
    <3>1. i - 1 \in a .. b /\ i > 1
      BY <1>1, <2>1
    <3>2. QED
      BY <1>3, <1>7, <3>1
  <2>2. QED
    BY <1>1, <2>1
<1>9. i + n - 1 >= b
  <2>1. CASE i + n - 1 < b
    <3>1. i + n \in a .. b /\ i + n <= Len(text)
      BY <1>1, <1>5, <2>1
    <3>2. QED
      BY <1>5, <1>7, <3>1
  <2>2. QED
    BY <1>1, <1>5, <2>1
<1>10. i + n - 1 <= b
  <2>1. CASE i + n - 1 > b
    <3>1. b + 1 \in i .. i + n - 1 /\ b < Len(text)
      BY <1>1, <1>5, <2>1
    <3>2. IsWord(text[b + 1]) # IsWord(text[a]) /\ IsWord(text[a])
      BY <1>6, <1>8, <3>1 DEF IsPiece
    <3>3. QED
      BY <1>4, <3>1, <3>2
  <2>2. QED
    BY <1>1, <1>5, <2>1
<1>11. i + n - 1 = b
  BY <1>1, <1>5, <1>9, <1>10
<1>12. QED
  BY <1>3, <1>8, <1>11 DEF n

\* A piece that has a name is found.
LEMMA PieceIsFound ==
  ASSUME NEW text \in Seq(Symbols), NEW names, GoodNames(names),
         NEW a, NEW b, IsPiece(text, a, b), SubSeq(text, a, b) \in DOMAIN names
  PROVE  SubSeq(text, a, b) \in Found(text, a, names)
<1> DEFINE l == SubSeq(text, a, b)
<1>1. /\ Len(text) \in Nat /\ a \in 1 .. Len(text) /\ b \in a .. Len(text)
      /\ a \in Nat /\ b \in Nat
  BY LenProperties DEF IsPiece
<1>2. Len(l) = b - a + 1 /\ l[1] = text[a]
  <2>1. \A j \in a .. b : text[j] \in Symbols
    <3>1. \A j \in a .. b : j \in 1 .. Len(text)
      BY <1>1
    <3>2. QED
      BY <3>1, ElementOfSeq
  <2>2. /\ Len(l) = IF a <= b THEN b - a + 1 ELSE 0
        /\ \A j \in 1 .. b - a + 1 : l[j] = text[a + j - 1]
    BY <1>1, <2>1, SubSeqProperties
  <2>3. a <= b /\ 1 \in 1 .. b - a + 1 /\ a + 1 - 1 = a
    BY <1>1
  <2> HIDE DEF l
  <2>4. QED
    BY <2>2, <2>3
<1>3. l \in Labels
  BY DEF GoodNames
<1>4. IsWord(text[a])
  <2>1. 1 \in 1 .. Len(l)
    BY <1>1, <1>2
  <2>2. IsWord(l[1])
    BY <1>3, <2>1, LabelFacts
  <2>3. QED
    BY <1>2, <2>2
<1>5. /\ a > 1 => ~IsWord(text[a - 1])
      /\ b < Len(text) => ~IsWord(text[b + 1])
  BY <1>4 DEF IsPiece
<1>6. a + Len(l) - 1 = b /\ a + Len(l) = b + 1
  BY <1>1, <1>2
<1>7. b <= Len(text) /\ (b + 1 <= Len(text) => b < Len(text))
  BY <1>1
<1> HIDE DEF l
<1>8. SubSeq(text, a, b) = l
  BY DEF l
<1>9. l \in DOMAIN names
  BY DEF l
<1>10. l \in Found(text, a, names)
  BY <1>5, <1>6, <1>7, <1>8, <1>9 DEF Found, MatchesAt
<1>11. QED
  BY <1>8, <1>10

LEMMA LettersAssociative ==
  ASSUME NEW x \in Seq(Letters), NEW y \in Seq(Letters), NEW z \in Seq(Letters)
  PROVE  (x \o y) \o z = x \o (y \o z)
BY ConcatAssociative

\* Symbols at which no label is found are shown as they are.
LEMMA CopiedSymbols ==
  ASSUME NEW text \in Seq(Symbols), NEW names,
         NEW f \in [1 .. Len(text) + 1 -> Seq(Letters)],
         \A i \in 1 .. Len(text) + 1 : f[i] = ShownFrom(f, text, names, i),
         NEW a \in 1 .. Len(text), NEW b \in a .. Len(text),
         \A i \in a .. b : Found(text, i, names) = {}
  PROVE  f[a] = SubSeq(text, a, b) \o f[b + 1]
<1>1. /\ Len(text) \in Nat /\ a \in Nat /\ b \in Nat /\ b - a + 1 \in Nat
      /\ b + 1 \in 1 .. Len(text) + 1
  BY LenProperties
<1>2. text \in Seq(Letters)
  BY SeqMonotonic DEF Letters
<1> DEFINE N == b - a + 1
           S == {m \in 0 .. N : f[b + 1 - m] = SubSeq(text, b + 1 - m, b) \o f[b + 1]}
<1>3. 0 \in S
  <2>1. SubSeq(text, b + 1, b) = << >>
    BY <1>1, SubSeqEmpty
  <2>2. f[b + 1] \in Seq(Letters)
    BY <1>1
  <2>3. f[b + 1] = << >> \o f[b + 1]
    BY <2>2, ConcatEmptySeq
  <2>4. b + 1 - 0 = b + 1 /\ 0 \in 0 .. N
    BY <1>1
  <2>5. QED
    BY <2>1, <2>3, <2>4
<1>4. ASSUME NEW m \in 0 .. N - 1, m \in S PROVE m + 1 \in S
  <2> DEFINE p == b - m
  <2>1. /\ p \in a .. b /\ p \in 1 .. Len(text) /\ p \in 1 .. Len(text) + 1
        /\ ~(p > Len(text)) /\ b + 1 - (m + 1) = p /\ b + 1 - m = p + 1
        /\ m + 1 \in 0 .. N /\ b \in p .. Len(text)
    BY <1>1
  <2> HIDE DEF p, N
  <2>2. f[p + 1] = SubSeq(text, p + 1, b) \o f[b + 1]
    BY <1>4, <2>1
  <2>3. f[p] = <<text[p]>> \o f[p + 1]
    BY <2>1 DEF ShownFrom
  <2>4. SubSeq(text, p, b) = <<text[p]>> \o SubSeq(text, p + 1, b)
    BY <1>2, <2>1, SubSeqRecursiveFirst
  <2>5. /\ <<text[p]>> \in Seq(Letters) /\ f[b + 1] \in Seq(Letters)
        /\ SubSeq(text, p + 1, b) \in Seq(Letters)
    <3>1. text[p] \in Letters
      BY <1>2, <2>1, ElementOfSeq
    <3>2. \A j \in p + 1 .. b : j \in 1 .. Len(text)
      BY <1>1, <2>1
    <3>3. \A j \in p + 1 .. b : text[j] \in Letters
      BY <1>2, <3>2, ElementOfSeq
    <3>4. p + 1 \in Int /\ b \in Int
      BY <1>1, <2>1
    <3>5. SubSeq(text, p + 1, b) \in Seq(Letters)
      BY <3>3, <3>4, SubSeqProperties
    <3>6. QED
      BY <1>1, <3>1, <3>5
  <2>6. f[p] = SubSeq(text, p, b) \o f[b + 1]
    <3> DEFINE x == <<text[p]>>
               y == SubSeq(text, p + 1, b)
               z == f[b + 1]
    <3>1. x \in Seq(Letters) /\ y \in Seq(Letters) /\ z \in Seq(Letters)
      BY <2>5
    <3> HIDE DEF x, y, z
    <3>2. (x \o y) \o z = x \o (y \o z)
      BY <3>1, LettersAssociative, Zenon
    <3>3. QED
      BY <2>2, <2>3, <2>4, <3>2, Zenon DEF x, y, z
  <2>7. QED
    BY <2>1, <2>6
<1>5. 0 .. N \subseteq S
  <2> HIDE DEF S
  <2>1. N \in Nat
    BY <1>1
  <2> HIDE DEF N
  <2>2. QED
    BY <2>1, <1>3, <1>4, BoundedInduction
<1>6. N \in 0 .. N /\ b + 1 - N = a
  BY <1>1
<1> HIDE DEF N
<1>7. QED
  BY <1>5, <1>6

\* A piece is shown by its name, if it has one, and is followed by what follows.
LEMMA PieceShown ==
  \A text \in Seq(Symbols) : \A names : GoodNames(names) =>
    \A f \in [1 .. Len(text) + 1 -> Seq(Letters)] :
      (\A i \in 1 .. Len(text) + 1 : f[i] = ShownFrom(f, text, names, i))
        => \A a, b : IsPiece(text, a, b)
             => f[a] = NameFor(names, SubSeq(text, a, b)) \o f[b + 1]
<1> SUFFICES
      ASSUME NEW text \in Seq(Symbols), NEW names, GoodNames(names),
             NEW f \in [1 .. Len(text) + 1 -> Seq(Letters)],
             \A i \in 1 .. Len(text) + 1 : f[i] = ShownFrom(f, text, names, i),
             NEW a, NEW b, IsPiece(text, a, b)
      PROVE  f[a] = NameFor(names, SubSeq(text, a, b)) \o f[b + 1]
  OBVIOUS
<1> DEFINE l == SubSeq(text, a, b)
<1>1. /\ Len(text) \in Nat /\ a \in 1 .. Len(text) /\ b \in a .. Len(text)
      /\ a \in 1 .. Len(text) + 1 /\ ~(a > Len(text)) /\ a \in a .. b
  BY LenProperties DEF IsPiece
<1>2. CASE l \in DOMAIN names
  <2>1. l \in Found(text, a, names) /\ \A k \in Found(text, a, names) : k = l
    BY <1>1, <1>2, PieceIsFound, FoundIsPiece
  <2>2. Found(text, a, names) # {} /\ LongestOf(Found(text, a, names)) = l
    BY <1>1, <2>1, FoundFacts
  <2>3. f[a] = names[l] \o f[a + Len(l)]
    <3> HIDE DEF l
    <3>1. f[a] = ShownFrom(f, text, names, a)
      BY <1>1
    <3>2. QED
      BY <1>1, <2>2, <3>1, Zenon DEF ShownFrom
  <2>4. a + Len(l) = b + 1
    <3>1. \A j \in a .. b : j \in 1 .. Len(text)
      BY <1>1
    <3>2. \A j \in a .. b : text[j] \in Symbols
      BY <3>1, ElementOfSeq
    <3>3. a \in Int /\ b \in Int /\ a <= b
      BY <1>1
    <3>4. Len(l) = b - a + 1
      BY <3>2, <3>3, SubSeqProperties
    <3>5. QED
      BY <3>3, <3>4
  <2>5. QED
    BY <1>2, <2>3, <2>4 DEF NameFor
<1>3. CASE l \notin DOMAIN names
  <2>1. \A i \in a .. b : Found(text, i, names) = {}
    <3> SUFFICES ASSUME NEW i \in a .. b, NEW k \in Found(text, i, names) PROVE FALSE
      OBVIOUS
    <3>1. k = l
      BY FoundIsPiece
    <3>2. k \in DOMAIN names
      BY DEF Found, MatchesAt
    <3>3. QED
      BY <1>3, <3>1, <3>2
  <2>2. f[a] = l \o f[b + 1]
    <3>1. a \in 1 .. Len(text) /\ b \in a .. Len(text)
      BY <1>1
    <3> HIDE DEF l
    <3>2. f[a] = SubSeq(text, a, b) \o f[b + 1]
      BY <2>1, <3>1, CopiedSymbols, ZenonT(30)
    <3>3. QED
      BY <3>2 DEF l
  <2>3. QED
    BY <1>3, <2>2 DEF NameFor
<1>4. QED
  BY <1>2, <1>3

\* The numbers of a finite set, from the smallest to the greatest.
LEMMA NthFacts ==
  ASSUME NEW S \in SUBSET Nat, IsFiniteSet(S), S # {}
  PROVE  /\ Cardinality(S) \in Nat \ {0}
         /\ \A k \in 1 .. Cardinality(S) : Nth(S, k) \in S
         /\ \A x \in S : Nth(S, 1) <= x /\ x <= Nth(S, Cardinality(S))
         /\ \A k \in 1 .. Cardinality(S) - 1 :
              /\ Nth(S, k) < Nth(S, k + 1)
              /\ \A x \in S : ~(Nth(S, k) < x /\ x < Nth(S, k + 1))
<1> DEFINE R == {p \in S \X S : p[1] <= p[2]}
           K == Cardinality(S)
           f == Rank(R, S)
<1>1. \A x, y \in S : <<x, y>> \in R <=> x <= y
  OBVIOUS
<1>2. Orders(R, S)
  <2> HIDE DEF R
  <2>1. QED
    BY <1>1 DEF Orders
<1>3. \A T : Orders(R, T) /\ IsFiniteSet(T)
        => /\ Rank(R, T) \in [T -> 1 .. Cardinality(T)]
           /\ \A x, y \in T : Rank(R, T)[x] = Rank(R, T)[y] => x = y
           /\ \A k \in 1 .. Cardinality(T) : \E x \in T : Rank(R, T)[x] = k
  <2> HIDE DEF R
  <2>1. QED
    BY RankFacts
<1>4. /\ f \in [S -> 1 .. K]
      /\ \A x, y \in S : f[x] = f[y] => x = y
      /\ \A k \in 1 .. K : \E x \in S : f[x] = k
  <2> HIDE DEF R
  <2>1. QED
    BY <1>2, <1>3, Zenon
<1>5. \A x \in S : f[x] = Cardinality({y \in S : y <= x})
  <2> SUFFICES ASSUME NEW x \in S PROVE f[x] = Cardinality({y \in S : y <= x})
    OBVIOUS
  <2>1. {y \in S : <<y, x>> \in R} = {y \in S : y <= x}
    <3> HIDE DEF R
    <3>1. QED
      BY <1>1
  <2>2. f[x] = Cardinality({y \in S : <<y, x>> \in R})
    BY DEF Rank
  <2> HIDE DEF f, R
  <2>3. QED
    BY <2>1, <2>2, Zenon
<1>6. K \in Nat \ {0}
  <2>1. K \in Nat
    BY FS_CardinalityType
  <2>2. K # 0
    BY FS_EmptySet
  <2>3. QED
    BY <2>1, <2>2
<1>7. \A k \in 1 .. K : Nth(S, k) \in S /\ f[Nth(S, k)] = k
  <2> SUFFICES ASSUME NEW k \in 1 .. K PROVE Nth(S, k) \in S /\ f[Nth(S, k)] = k
    OBVIOUS
  <2> HIDE DEF f
  <2>1. \E x \in S : Cardinality({y \in S : y <= x}) = k
    BY <1>4, <1>5
  <2>2. Nth(S, k) \in S /\ Cardinality({y \in S : y <= Nth(S, k)}) = k
    BY <2>1, Zenon DEF Nth
  <2>3. QED
    BY <1>5, <2>2
<1>8. ASSUME NEW x \in S, NEW y \in S, x < y PROVE f[x] < f[y]
  <2> DEFINE A == {z \in S : z <= x}
             B == {z \in S : z <= y}
  <2>1. A \in SUBSET B /\ B \in SUBSET S
    <3>1. \A z \in S : z <= x => z <= y
      BY <1>8
    <3>2. QED
      BY <3>1
  <2>2. f[x] = Cardinality(A) /\ f[y] = Cardinality(B)
    BY <1>5
  <2> HIDE DEF A, B, f
  <2>3. IsFiniteSet(B)
    BY <2>1, FS_Subset
  <2>4. Cardinality(A) <= Cardinality(B)
    BY <2>1, <2>3, FS_Subset
  <2>5. f[x] # f[y] /\ f[x] \in 1 .. K /\ f[y] \in 1 .. K
    BY <1>4, <1>8
  <2>6. QED
    BY <1>6, <2>2, <2>4, <2>5
<1> HIDE DEF f, R, K
<1>9. ASSUME NEW x \in S PROVE Nth(S, 1) <= x /\ x <= Nth(S, K)
  <2>1. /\ Nth(S, 1) \in S /\ f[Nth(S, 1)] = 1
        /\ Nth(S, K) \in S /\ f[Nth(S, K)] = K
    BY <1>6, <1>7
  <2>2. f[x] \in 1 .. K /\ x \in Nat /\ Nth(S, 1) \in Nat /\ Nth(S, K) \in Nat
    BY <1>4, <2>1
  <2>3. ~(x < Nth(S, 1))
    BY <1>6, <1>8, <2>1, <2>2
  <2>4. ~(Nth(S, K) < x)
    BY <1>6, <1>8, <2>1, <2>2
  <2>5. QED
    BY <2>2, <2>3, <2>4
<1>10. ASSUME NEW k \in 1 .. K - 1
       PROVE  /\ Nth(S, k) < Nth(S, k + 1)
              /\ \A x \in S : ~(Nth(S, k) < x /\ x < Nth(S, k + 1))
  <2> DEFINE a == Nth(S, k)
             b == Nth(S, k + 1)
  <2>1. k \in 1 .. K /\ k + 1 \in 1 .. K /\ k \in Nat
    BY <1>6
  <2>2. a \in S /\ f[a] = k /\ b \in S /\ f[b] = k + 1
    BY <1>7, <2>1
  <2>3. a \in Nat /\ b \in Nat
    BY <2>2
  <2> HIDE DEF a, b
  <2>4. a # b /\ ~(b < a)
    <3>1. k # k + 1 /\ ~(k + 1 < k)
      BY <2>1
    <3>2. QED
      BY <1>8, <2>2, <3>1
  <2>5. a < b
    BY <2>3, <2>4
  <2>6. ASSUME NEW x \in S, a < x, x < b PROVE FALSE
    <3>1. f[a] < f[x] /\ f[x] < f[b] /\ f[x] \in 1 .. K
      BY <1>4, <1>8, <2>2, <2>6
    <3>2. QED
      BY <1>6, <2>1, <2>2, <3>1
  <2>7. QED
    BY <2>5, <2>6 DEF a, b
<1>11. QED
  BY <1>6, <1>7, <1>9, <1>10 DEF K

\* Where the pieces of a text begin, and its end.
Bounds(text) == Starts(text) \union {Len(text) + 1}

LEMMA BoundsFacts ==
  ASSUME NEW text \in Seq(Symbols)
  PROVE  /\ Bounds(text) \in SUBSET Nat /\ IsFiniteSet(Bounds(text)) /\ Bounds(text) # {}
         /\ Cardinality(Starts(text)) \in Nat
         /\ Cardinality(Bounds(text)) = Cardinality(Starts(text)) + 1
         /\ Nth(Bounds(text), 1) = 1
         /\ Nth(Bounds(text), Cardinality(Starts(text)) + 1) = Len(text) + 1
<1> DEFINE N == Len(text)
           S == Starts(text)
           B == Bounds(text)
<1>1. N \in Nat /\ N + 1 \in Nat
  BY LenProperties
<1>2. S \in SUBSET (1 .. N) /\ (N > 0 => 1 \in S)
  BY <1>1 DEF Starts
<1>3. B = S \union {N + 1}
  BY DEF Bounds
<1> HIDE DEF S, B, N
<1>4. N + 1 \notin S
  BY <1>1, <1>2
<1>5. IsFiniteSet(S)
  <2>1. IsFiniteSet(1 .. N)
    BY <1>1, FS_Interval
  <2>2. QED
    BY <1>2, <2>1, FS_Subset
<1>6. IsFiniteSet(B) /\ Cardinality(B) = Cardinality(S) + 1 /\ Cardinality(S) \in Nat
  BY <1>3, <1>4, <1>5, FS_AddElement, FS_CardinalityType
<1>7. B \in SUBSET Nat /\ B # {}
  BY <1>1, <1>2, <1>3
<1>8. /\ \A k \in 1 .. Cardinality(B) : Nth(B, k) \in B
      /\ \A x \in B : Nth(B, 1) <= x /\ x <= Nth(B, Cardinality(B))
  BY <1>6, <1>7, NthFacts
<1>9. Nth(B, 1) = 1
  <2>1. 1 \in B
    BY <1>1, <1>2, <1>3
  <2>2. Nth(B, 1) \in B /\ Nth(B, 1) <= 1
    <3>1. 1 \in 1 .. Cardinality(B)
      BY <1>6
    <3>2. QED
      BY <1>8, <2>1, <3>1
  <2>3. \A x \in B : x \in Nat /\ x >= 1
    BY <1>1, <1>2, <1>3
  <2>4. QED
    BY <2>2, <2>3
<1>10. Nth(B, Cardinality(S) + 1) = N + 1
  <2>1. N + 1 \in B /\ \A x \in B : x \in Nat /\ x <= N + 1
    BY <1>1, <1>2, <1>3
  <2>2. Cardinality(S) + 1 \in 1 .. Cardinality(B)
    BY <1>6
  <2>3. Nth(B, Cardinality(S) + 1) \in B /\ N + 1 <= Nth(B, Cardinality(S) + 1)
    BY <1>6, <1>8, <2>1, <2>2
  <2>4. QED
    BY <1>1, <2>1, <2>3
<1>11. QED
  BY <1>6, <1>7, <1>9, <1>10 DEF S, B, N

\* From one of them to the next there is one piece.
LEMMA PiecesFacts ==
  ASSUME NEW text \in Seq(Symbols), NEW k \in 1 .. Cardinality(Starts(text))
  PROVE  IsPiece(text, Nth(Bounds(text), k), Nth(Bounds(text), k + 1) - 1)
<1> DEFINE N == Len(text)
           B == Bounds(text)
           K == Cardinality(Starts(text))
           a == Nth(B, k)
           c == Nth(B, k + 1)
           b == c - 1
<1>1. N \in Nat /\ text \in [1 .. N -> Symbols]
  BY LenProperties
<1>2. /\ B \in SUBSET Nat /\ IsFiniteSet(B) /\ B # {} /\ K \in Nat /\ Cardinality(B) = K + 1
  BY BoundsFacts
<1>3. \A i \in 1 .. N : i \in B <=> (i = 1 \/ IsWord(text[i]) # IsWord(text[i - 1]))
  BY <1>1 DEF Bounds, Starts
<1>4. \A x \in B : x \in 1 .. N + 1
  BY <1>1 DEF Bounds, Starts
<1> HIDE DEF N, B, K
<1>5. k \in 1 .. Cardinality(B) /\ k + 1 \in 1 .. Cardinality(B) /\ k \in 1 .. Cardinality(B) - 1
  BY <1>2 DEF K
<1>6. /\ a \in B /\ c \in B /\ a < c
      /\ \A x \in B : ~(a < x /\ x < c)
  BY <1>2, <1>5, NthFacts
<1> HIDE DEF a, c
<1>7. a \in 1 .. N /\ b \in a .. N /\ c \in 1 .. N + 1 /\ a \in Nat /\ c \in Nat
  BY <1>1, <1>4, <1>6
<1>8. \A i \in a .. b : IsWord(text[i]) = IsWord(text[a])
  <2> DEFINE M == b - a
             S == {m \in 0 .. M : IsWord(text[a + m]) = IsWord(text[a])}
  <2>1. M \in Nat
    BY <1>7
  <2>2. 0 \in S
    BY <1>7
  <2>3. ASSUME NEW m \in 0 .. M - 1, m \in S PROVE m + 1 \in S
    <3>1. /\ a + (m + 1) \in 1 .. N /\ (a + (m + 1)) - 1 = a + m /\ a + (m + 1) # 1
          /\ a < a + (m + 1) /\ a + (m + 1) < c /\ m + 1 \in 0 .. M
      BY <1>1, <1>7
    <3>2. a + (m + 1) \notin B
      BY <1>6, <3>1
    <3>3. IsWord(text[a + (m + 1)]) = IsWord(text[(a + (m + 1)) - 1])
      <4>1. ASSUME NEW i \in 1 .. N, i # 1, i \notin B
            PROVE  IsWord(text[i]) = IsWord(text[i - 1])
        <5>1. ~(IsWord(text[i]) # IsWord(text[i - 1]))
          BY <1>3, <4>1
        <5>2. QED
          BY <5>1, Zenon
      <4>2. QED
        <5>1. \A i \in 1 .. N : i # 1 /\ i \notin B => IsWord(text[i]) = IsWord(text[i - 1])
          BY <4>1, Zenon
        <5>2. QED
          BY <3>1, <3>2, <5>1
    <3>4. IsWord(text[a + (m + 1)]) = IsWord(text[a])
      BY <2>3, <3>1, <3>3
    <3>5. QED
      BY <3>1, <3>4
  <2>4. 0 .. M \subseteq S
    <3> HIDE DEF S, M
    <3>1. QED
      BY <2>1, <2>2, <2>3, BoundedInduction
  <2>5. ASSUME NEW i \in a .. b PROVE IsWord(text[i]) = IsWord(text[a])
    <3>1. i - a \in 0 .. M /\ a + (i - a) = i
      BY <1>7
    <3>2. i - a \in S
      BY <2>4, <3>1
    <3>3. IsWord(text[a + (i - a)]) = IsWord(text[a])
      BY <3>2
    <3>4. QED
      BY <3>1, <3>3
  <2>6. QED
    BY <2>5
<1>9. a > 1 => IsWord(text[a - 1]) # IsWord(text[a])
  <2>1. a > 1 => a # 1
    BY <1>7
  <2>2. QED
    BY <1>3, <1>6, <1>7, <2>1
<1>10. b < N => IsWord(text[b + 1]) # IsWord(text[a])
  <2> SUFFICES ASSUME b < N PROVE IsWord(text[b + 1]) # IsWord(text[a])
    OBVIOUS
  <2>1. c \in 1 .. N /\ c # 1 /\ b + 1 = c /\ c - 1 \in a .. b
    BY <1>1, <1>6, <1>7
  <2>2. IsWord(text[c]) # IsWord(text[c - 1])
    BY <1>3, <1>6, <2>1
  <2>3. IsWord(text[c - 1]) = IsWord(text[a])
    BY <1>8, <2>1
  <2>4. QED
    BY <2>1, <2>2, <2>3
<1>11. QED
  BY <1>7, <1>8, <1>9, <1>10 DEF IsPiece, N, B, a, c

\* Sequences written one after the other, when each of f is the next sequence and
\* what f has after it.
LEMMA PastedSequences ==
  ASSUME NEW N \in Nat, N > 0, NEW s \in [1 .. N -> Seq(Letters)],
         NEW f \in [1 .. N + 1 -> Seq(Letters)], f[N + 1] = << >>,
         \A k \in 1 .. N : f[k] = s[k] \o f[k + 1]
  PROVE  FlattenSeq(s) = f[1]
<1> DEFINE Pastes(g, m) == /\ g \in [1 .. m -> Seq(Letters)]
                           /\ \A i \in 1 .. m : g[i] = IF i = 1 THEN s[i] ELSE g[i - 1] \o s[i]
           S == {m \in 0 .. N : \E g : Pastes(g, m)}
<1>1. 0 \in S
  <2>1. Pastes([i \in 1 .. 0 |-> << >>], 0)
    OBVIOUS
  <2> HIDE DEF Pastes
  <2>2. QED
    BY <2>1
<1>2. ASSUME NEW m \in 0 .. N - 1, m \in S PROVE m + 1 \in S
  <2>1. PICK g : Pastes(g, m)
    BY <1>2
  <2> DEFINE next == IF m + 1 = 1 THEN s[m + 1] ELSE g[m] \o s[m + 1]
             h == [i \in 1 .. m + 1 |-> IF i = m + 1 THEN next ELSE g[i]]
  <2>2. m \in Nat /\ m + 1 \in 1 .. N /\ s[m + 1] \in Seq(Letters)
    OBVIOUS
  <2>3. next \in Seq(Letters)
    <3>1. CASE m = 0
      BY <2>2, <3>1
    <3>2. CASE m # 0
      <4>1. g[m] \in Seq(Letters)
        BY <2>1, <2>2, <3>2
      <4>2. g[m] \o s[m + 1] \in Seq(Letters)
        BY <2>2, <4>1, ConcatProperties
      <4>3. m + 1 # 1
        BY <2>2, <3>2
      <4>4. next = g[m] \o s[m + 1]
        BY <4>3, Zenon
      <4>5. QED
        BY <4>2, <4>4, Zenon
    <3>3. QED
      BY <3>1, <3>2, <2>2
  <2>4. h[m + 1] = next /\ \A i \in 1 .. m : h[i] = g[i]
    <3> HIDE DEF next
    <3>1. QED
      BY <2>2
  <2>5. h \in [1 .. m + 1 -> Seq(Letters)]
    <3> HIDE DEF next
    <3>1. QED
      BY <2>1, <2>2, <2>3
  <2>6. ASSUME NEW i \in 1 .. m + 1
        PROVE  h[i] = IF i = 1 THEN s[i] ELSE h[i - 1] \o s[i]
    <3> HIDE DEF h
    <3>1. CASE i = m + 1
      <4>1. m # 0 => h[m] = g[m]
        BY <2>2, <2>4
      <4>2. (m + 1) - 1 = m
        BY <2>2
      <4>3. next = IF m + 1 = 1 THEN s[m + 1] ELSE g[m] \o s[m + 1]
        BY Zenon
      <4> HIDE DEF next
      <4>4. CASE m = 0
        BY <2>2, <2>4, <3>1, <4>3, <4>4
      <4>5. CASE m # 0
        <5>1. m + 1 # 1
          BY <2>2, <4>5
        <5>2. h[i] = g[m] \o s[m + 1] /\ h[m] = g[m] /\ i - 1 = m /\ i # 1
          BY <2>4, <3>1, <4>1, <4>2, <4>3, <4>5, <5>1
        <5>3. QED
          BY <3>1, <5>2
      <4>6. QED
        BY <4>4, <4>5
    <3>2. CASE i \in 1 .. m
      <4>1. i # 1 => h[i - 1] = g[i - 1]
        <5> HIDE DEF next
        <5>1. i # 1 => i - 1 \in 1 .. m
          BY <2>2, <3>2
        <5>2. QED
          BY <2>4, <5>1
      <4>2. g[i] = IF i = 1 THEN s[i] ELSE g[i - 1] \o s[i]
        BY <2>1, <3>2
      <4>3. QED
        <5> HIDE DEF next, Pastes
        <5>1. CASE i = 1
          BY <2>4, <3>2, <4>2, <5>1
        <5>2. CASE i # 1
          BY <2>4, <3>2, <4>1, <4>2, <5>2
        <5>3. QED
          BY <5>1, <5>2
    <3>3. QED
      BY <2>2, <3>1, <3>2
  <2>7. Pastes(h, m + 1)
    BY <2>5, <2>6
  <2> HIDE DEF Pastes, h
  <2>8. QED
    BY <2>2, <2>7
<1>3. 0 .. N \subseteq S
  <2> HIDE DEF S
  <2>1. QED
    BY <1>1, <1>2, BoundedInduction
<1>4. PICK p : Pastes(p, N)
  <2> HIDE DEF Pastes
  <2>1. N \in 0 .. N
    OBVIOUS
  <2>2. QED
    BY <1>3, <2>1
<1> DEFINE Rec(g) == g = [i \in 1 .. N |-> IF i = 1 THEN s[i] ELSE g[i - 1] \o s[i]]
           flat == CHOOSE g : Rec(g)
<1>5. Rec(p)
  BY <1>4
<1>6. Rec(flat)
  <2> HIDE DEF Rec
  <2>1. QED
    BY <1>5
<1>7. Len(s) = N /\ N # 0
  OBVIOUS
<1>8. FlattenSeq(s) = flat[N]
  BY <1>7, Zenon DEF FlattenSeq
<1>9. \A i \in 1 .. N : flat[i] = IF i = 1 THEN s[i] ELSE flat[i - 1] \o s[i]
  BY <1>6
<1> HIDE DEF flat, Rec, Pastes, S
<1> DEFINE T == {m \in 0 .. N - 1 : /\ flat[m + 1] \in Seq(Letters)
                                    /\ f[1] = flat[m + 1] \o f[(m + 1) + 1]}
<1>10. 0 \in T
  <2>1. 1 \in 1 .. N /\ 0 \in 0 .. N - 1 /\ 0 + 1 = 1 /\ 1 + 1 \in 1 .. N + 1
    OBVIOUS
  <2>2. flat[1] = s[1] /\ s[1] \in Seq(Letters)
    BY <1>9, <2>1
  <2>3. f[1] = s[1] \o f[1 + 1]
    BY <2>1
  <2>4. QED
    BY <2>1, <2>2, <2>3
<1>11. ASSUME NEW m \in 0 .. (N - 1) - 1, m \in T PROVE m + 1 \in T
  <2> DEFINE k == (m + 1) + 1
  <2>1. /\ k \in 1 .. N /\ k # 1 /\ k - 1 = m + 1 /\ m + 1 \in 0 .. N - 1
        /\ k + 1 \in 1 .. N + 1
    OBVIOUS
  <2>2. flat[m + 1] \in Seq(Letters) /\ f[1] = flat[m + 1] \o f[k]
    BY <1>11
  <2> HIDE DEF k
  <2>3. flat[k] = flat[m + 1] \o s[k]
    BY <1>9, <2>1
  <2>4. s[k] \in Seq(Letters) /\ f[k + 1] \in Seq(Letters) /\ f[k] = s[k] \o f[k + 1]
    BY <2>1
  <2>5. flat[k] \in Seq(Letters)
    BY <2>2, <2>3, <2>4, ConcatProperties
  <2>6. flat[m + 1] \o (s[k] \o f[k + 1]) = (flat[m + 1] \o s[k]) \o f[k + 1]
    BY <2>2, <2>4, LettersAssociative
  <2>7. f[1] = flat[k] \o f[k + 1]
    BY <2>2, <2>3, <2>4, <2>6, Zenon
  <2>8. QED
    BY <2>1, <2>5, <2>7 DEF k
<1>12. N - 1 \in T
  <2> HIDE DEF T
  <2>1. N - 1 \in Nat
    OBVIOUS
  <2>2. 0 .. N - 1 \subseteq T
    BY <1>10, <1>11, <2>1, BoundedInduction
  <2>3. QED
    BY <2>1, <2>2
<1>13. flat[N] \in Seq(Letters) /\ f[1] = flat[N] \o f[N + 1]
  <2>1. (N - 1) + 1 = N
    OBVIOUS
  <2>2. QED
    BY <1>12, <2>1
<1>14. QED
  BY <1>8, <1>13, ConcatEmptySeq

\* A text is shown piece by piece.
LEMMA ShownByPieces ==
  ASSUME NEW t \in Seq(Symbols), NEW given, GoodNames(given)
  PROVE  Displayed(t, given)
           = FlattenSeq([k \in DOMAIN Pieces(t) |-> NameFor(given, Pieces(t)[k])])
<1> DEFINE N == Len(t)
           K == Cardinality(Starts(t))
           from(k) == Nth(Bounds(t), k)
           piece(k) == SubSeq(t, from(k), from(k + 1) - 1)
           s == [k \in 1 .. K |-> NameFor(given, piece(k))]
<1>1. Pieces(t) = [k \in 1 .. K |-> piece(k)]
  BY DEF Pieces, Bounds
<1>2. [k \in DOMAIN Pieces(t) |-> NameFor(given, Pieces(t)[k])] = s
  <2> HIDE DEF piece, K
  <2>1. DOMAIN Pieces(t) = 1 .. K /\ \A k \in 1 .. K : Pieces(t)[k] = piece(k)
    BY <1>1
  <2>2. QED
    BY <2>1
<1>3. /\ N \in Nat /\ K \in Nat /\ from(1) = 1 /\ from(K + 1) = N + 1
      /\ \A k \in 1 .. K + 1 : from(k) \in 1 .. N + 1
  <2>1. N \in Nat /\ K \in Nat /\ from(1) = 1 /\ from(K + 1) = N + 1
    BY BoundsFacts, LenProperties
  <2>2. \A k \in 1 .. K : from(k) \in 1 .. N
    BY PiecesFacts DEF IsPiece
  <2>3. QED
    BY <2>1, <2>2
<1>4. PICK f \in [1 .. N + 1 -> Seq(Letters)] :
        /\ \A i \in 1 .. N + 1 : f[i] = ShownFrom(f, t, given, i)
        /\ Displayed(t, given) = f[1]
  BY DisplayedPlaces
<1>5. \A a, b : IsPiece(t, a, b) => f[a] = NameFor(given, SubSeq(t, a, b)) \o f[b + 1]
  <2>1. \A i \in 1 .. N + 1 : f[i] = ShownFrom(f, t, given, i)
    BY <1>4
  <2>2. \A names : GoodNames(names) =>
          \A h \in [1 .. N + 1 -> Seq(Letters)] :
            (\A i \in 1 .. N + 1 : h[i] = ShownFrom(h, t, names, i))
              => \A a, b : IsPiece(t, a, b)
                   => h[a] = NameFor(names, SubSeq(t, a, b)) \o h[b + 1]
    BY PieceShown, Zenon
  <2>3. QED
    BY <2>1, <2>2, Zenon
<1>6. f[N + 1] = << >>
  <2>1. ShownFrom(f, t, given, N + 1) = << >>
    BY <1>3, SMT DEF ShownFrom
  <2>2. QED
    BY <1>3, <1>4, <2>1
<1>7. ASSUME NEW k \in 1 .. K
      PROVE  /\ f[from(k)] = NameFor(given, piece(k)) \o f[from(k + 1)]
             /\ NameFor(given, piece(k)) \in Seq(Letters)
  <2> DEFINE a == from(k)
             b == from(k + 1) - 1
  <2>1. IsPiece(t, a, b)
    BY PiecesFacts
  <2>2. b + 1 = from(k + 1) /\ a \in Nat /\ b \in Nat /\ b <= N /\ a >= 1
    <3>1. k \in 1 .. K + 1 /\ k + 1 \in 1 .. K + 1
      BY <1>3
    <3>2. from(k + 1) \in 1 .. N + 1 /\ from(k) \in 1 .. N + 1
      BY <1>3, <3>1
    <3> HIDE DEF from
    <3>3. QED
      BY <1>3, <3>2
  <2> HIDE DEF a, b
  <2>3. f[a] = NameFor(given, SubSeq(t, a, b)) \o f[b + 1]
    BY <1>5, <2>1, Zenon
  <2>4. SubSeq(t, a, b) \in Seq(Letters)
    <3>1. \A i \in a .. b : t[i] \in Letters
      <4>1. \A i \in a .. b : i \in 1 .. N
        BY <1>3, <2>2
      <4>2. \A i \in 1 .. N : t[i] \in Symbols
        BY LenProperties
      <4>3. QED
        BY <4>1, <4>2 DEF Letters
    <3>2. QED
      BY <2>2, <3>1, SubSeqProperties
  <2>5. NameFor(given, SubSeq(t, a, b)) \in Seq(Letters)
    BY <2>4 DEF NameFor, GoodNames
  <2>6. QED
    BY <2>2, <2>3, <2>5 DEF a, b
<1>8. CASE K = 0
  <2>1. N = 0
    BY <1>3, <1>8
  <2>2. Len(s) = 0 /\ s = << >>
    <3> HIDE DEF piece, K
    <3>1. QED
      BY <1>8
  <2>3. FlattenSeq(s) = << >>
    <3> HIDE DEF s
    <3>1. QED
      BY <2>2 DEF FlattenSeq
  <2>4. Displayed(t, given) = << >>
    BY <1>4, <1>6, <2>1
  <2>5. QED
    BY <1>2, <2>3, <2>4, Zenon
<1>9. CASE K # 0
  <2> DEFINE g == [k \in 1 .. K + 1 |-> f[from(k)]]
  <2> HIDE DEF from, piece, K, N
  <2>1. g \in [1 .. K + 1 -> Seq(Letters)]
    BY <1>3, <1>4
  <2>2. s \in [1 .. K -> Seq(Letters)]
    BY <1>7
  <2>3. g[K + 1] = << >> /\ g[1] = f[1]
    BY <1>3, <1>6
  <2>4. \A k \in 1 .. K : g[k] = s[k] \o g[k + 1]
    <3> SUFFICES ASSUME NEW k \in 1 .. K PROVE g[k] = s[k] \o g[k + 1]
      OBVIOUS
    <3>1. k \in 1 .. K + 1 /\ k + 1 \in 1 .. K + 1
      BY <1>3
    <3>2. g[k] = f[from(k)] /\ g[k + 1] = f[from(k + 1)] /\ s[k] = NameFor(given, piece(k))
      BY <3>1
    <3> HIDE DEF g, s
    <3>3. QED
      BY <1>7, <3>2
  <2> HIDE DEF g, s
  <2>5. FlattenSeq(s) = g[1]
    <3>1. K > 0
      BY <1>3, <1>9
    <3>2. \A x \in [1 .. K -> Seq(Letters)], h \in [1 .. K + 1 -> Seq(Letters)] :
            h[K + 1] = << >> /\ (\A k \in 1 .. K : h[k] = x[k] \o h[k + 1])
              => FlattenSeq(x) = h[1]
      BY <1>3, <3>1, PastedSequences
    <3>3. QED
      BY <2>1, <2>2, <2>3, <2>4, <3>2, Zenon
  <2>6. QED
    BY <1>2, <1>4, <2>3, <2>5, Zenon
<1>10. QED
  BY <1>8, <1>9

-----------------------------------------------------------------------------
(* The speakers of a text.                                                  *)

\* What is a label by itself is "S" and then digits.
LEMMA LabelsByThemselves ==
  ASSUME NEW p \in Seq(Symbols), p \in Extracted(p)
  PROVE  /\ Len(p) \in Nat /\ Len(p) > 1 /\ p[1] = "S"
         /\ \A k \in 2 .. Len(p) : p[k] \in Digits
<1>1. Len(p) \in Nat /\ DOMAIN p = 1 .. Len(p)
  BY LenProperties
<1>2. PICK i \in DOMAIN p, j \in DOMAIN p :
        /\ i < j /\ p[i] = "S" /\ \A k \in i + 1 .. j : p[k] \in Digits
        /\ p = SubSeq(p, i, j)
  BY DEF Extracted
<1>3. i \in 1 .. Len(p) /\ j \in 1 .. Len(p) /\ i \in Nat /\ j \in Nat
  BY <1>1, <1>2
<1>4. Len(SubSeq(p, i, j)) = (j - i) + 1
  <2>1. \A k \in i .. j : p[k] \in Symbols
    <3>1. \A k \in i .. j : k \in 1 .. Len(p)
      BY <1>1, <1>3
    <3>2. QED
      BY <3>1, LenProperties
  <2>2. Len(SubSeq(p, i, j)) = IF i <= j THEN j - i + 1 ELSE 0
    BY <1>3, <2>1, SubSeqProperties
  <2>3. QED
    BY <1>2, <1>3, <2>2
<1>5. i = 1 /\ j = Len(p)
  BY <1>1, <1>2, <1>3, <1>4
<1>6. QED
  BY <1>1, <1>2, <1>5

\* A label that is a piece of a text is found in it.
LEMMA SpokenIsExtracted ==
  ASSUME NEW text \in Seq(Symbols), NEW a, NEW b, IsPiece(text, a, b),
         NEW p, p = SubSeq(text, a, b), p \in Extracted(p)
  PROVE  p \in Extracted(text) /\ p \in Seq(Symbols)
<1>1. /\ Len(text) \in Nat /\ DOMAIN text = 1 .. Len(text)
      /\ a \in 1 .. Len(text) /\ b \in a .. Len(text) /\ b \in 1 .. Len(text)
      /\ a \in Nat /\ b \in Nat
  BY LenProperties DEF IsPiece
<1>2. \A k \in a .. b : text[k] \in Symbols
  <2>1. \A k \in a .. b : k \in 1 .. Len(text)
    BY <1>1
  <2>2. QED
    BY <2>1, LenProperties
<1>3. /\ p \in Seq(Symbols) /\ Len(p) = b - a + 1
      /\ \A k \in 1 .. b - a + 1 : p[k] = text[a + k - 1]
  BY <1>1, <1>2, SubSeqProperties
<1>4. /\ Len(p) \in Nat /\ Len(p) > 1 /\ p[1] = "S"
      /\ \A k \in 2 .. Len(p) : p[k] \in Digits
  BY <1>3, LabelsByThemselves
<1>5. a < b
  BY <1>1, <1>3, <1>4
<1>6. text[a] = "S"
  <2>1. 1 \in 1 .. b - a + 1 /\ a + 1 - 1 = a
    BY <1>1
  <2>2. QED
    BY <1>3, <1>4, <2>1
<1>7. ASSUME NEW k \in a + 1 .. b PROVE text[k] \in Digits
  <2>1. /\ k - a + 1 \in 1 .. b - a + 1 /\ k - a + 1 \in 2 .. Len(p)
        /\ a + (k - a + 1) - 1 = k
    BY <1>1, <1>3
  <2>2. QED
    BY <1>3, <1>4, <2>1
<1>8. b < Len(text) => text[b + 1] \notin Digits
  <2> SUFFICES ASSUME b < Len(text) PROVE text[b + 1] \notin Digits
    OBVIOUS
  <2>1. IsWord(text[b + 1]) # IsWord(text[a])
    BY DEF IsPiece
  <2>2. IsWord(text[a])
    BY <1>6 DEF IsWord
  <2>3. ~IsWord(text[b + 1])
    BY <2>1, <2>2, Zenon DEF IsWord
  <2>4. text[b + 1] = "."
    BY <2>3 DEF IsWord
  <2>5. QED
    BY <2>4 DEF Digits
<1>9. p \in Extracted(text)
  <2>1. <<a, b>> \in (DOMAIN text) \X (DOMAIN text)
    BY <1>1
  <2> DEFINE isLabel(i, j) ==
               /\ i < j /\ text[i] = "S" /\ \A k \in i + 1 .. j : text[k] \in Digits
               /\ j < Len(text) => text[j + 1] \notin Digits
             spans == {s \in (DOMAIN text) \X (DOMAIN text) : isLabel(s[1], s[2])}
  <2>2. isLabel(a, b)
    BY <1>5, <1>6, <1>7, <1>8
  <2>3. <<a, b>> \in spans
    <3> HIDE DEF isLabel
    <3>1. QED
      BY <2>1, <2>2
  <2>4. Extracted(text) = {SubSeq(text, span[1], span[2]) : span \in spans}
    BY Zenon DEF Extracted
  <2> HIDE DEF spans
  <2>5. SubSeq(text, <<a, b>>[1], <<a, b>>[2]) \in Extracted(text)
    BY <2>3, <2>4
  <2>6. <<a, b>>[1] = a /\ <<a, b>>[2] = b
    OBVIOUS
  <2>7. QED
    BY <2>5, <2>6
<1>10. QED
  BY <1>3, <1>9

\* A label alone is shown as its name.
LEMMA LabelShown ==
  ASSUME NEW p \in Seq(Symbols), p \in Extracted(p), NEW given, GoodNames(given)
  PROVE  Displayed(p, given) = NameFor(given, p)
<1> DEFINE N == Len(p)
<1>1. /\ N \in Nat /\ N > 1 /\ p[1] = "S" /\ \A k \in 2 .. N : p[k] \in Digits
  BY LabelsByThemselves
<1>2. \A k \in 1 .. N : IsWord(p[k])
  <2> SUFFICES ASSUME NEW k \in 1 .. N PROVE IsWord(p[k])
    OBVIOUS
  <2>1. k = 1 \/ k \in 2 .. N
    BY <1>1
  <2>2. QED
    BY <1>1, <2>1 DEF IsWord, Digits
<1>3. IsPiece(p, 1, N)
  <2>1. 1 \in 1 .. N /\ N \in 1 .. N
    BY <1>1
  <2>2. \A i \in 1 .. N : IsWord(p[i]) = IsWord(p[1])
    BY <1>2, <2>1, Zenon DEF IsWord
  <2>3. QED
    BY <1>1, <2>1, <2>2 DEF IsPiece
<1>4. PICK f \in [1 .. N + 1 -> Seq(Letters)] :
        /\ \A i \in 1 .. N + 1 : f[i] = ShownFrom(f, p, given, i)
        /\ Displayed(p, given) = f[1]
  BY DisplayedPlaces
<1>5. f[N + 1] = << >>
  <2>1. ShownFrom(f, p, given, N + 1) = << >>
    BY <1>1, SMT DEF ShownFrom
  <2>2. QED
    BY <1>1, <1>4, <2>1
<1>6. f[1] = NameFor(given, SubSeq(p, 1, N)) \o f[N + 1]
  <2>1. \A i \in 1 .. N + 1 : f[i] = ShownFrom(f, p, given, i)
    BY <1>4
  <2>2. \A names : GoodNames(names) =>
          \A h \in [1 .. N + 1 -> Seq(Letters)] :
            (\A i \in 1 .. N + 1 : h[i] = ShownFrom(h, p, names, i))
              => \A a, b : IsPiece(p, a, b)
                   => h[a] = NameFor(names, SubSeq(p, a, b)) \o h[b + 1]
    BY PieceShown, Zenon
  <2>3. QED
    <3>1. \A a, b : IsPiece(p, a, b) => f[a] = NameFor(given, SubSeq(p, a, b)) \o f[b + 1]
      BY <2>1, <2>2, Zenon
    <3>2. QED
      BY <1>3, <3>1
<1>7. SubSeq(p, 1, N) = p
  BY SubSeqFull
<1>8. NameFor(given, p) \in Seq(Letters)
  <2>1. p \in Seq(Letters)
    BY SeqMonotonic DEF Letters
  <2>2. QED
    BY <2>1 DEF NameFor, GoodNames
<1>9. QED
  BY <1>4, <1>5, <1>6, <1>7, <1>8, ConcatEmptySeq

-----------------------------------------------------------------------------
(* What is saved of a meeting.                                              *)

\* The text is made of symbols, and labels are given names.
LEMMA SavedFacts ==
  ASSUME ReportInv
  PROVE  /\ saved.text \in Seq(Symbols) /\ GoodNames(saved.names)
         /\ saved.said \in Seq(Symbols) /\ saved.owner \in Owners
<1>1. /\ saved.text \in Texts /\ saved.owner \in Owners /\ saved.said \in Sayings
      /\ DOMAIN saved.names \subseteq Labels /\ Range(saved.names) \subseteq PersonNames
  BY Zenon DEF ReportInv, ReportTypeOK
<1>2. saved.text \in Seq(Symbols)
  <2>1. PICK n \in 0 .. MaxText : saved.text \in [1 .. n -> Symbols]
    BY <1>1 DEF Texts
  <2>2. n \in Nat
    BY TextAssumption
  <2>3. QED
    BY <2>1, <2>2
<1>3. PersonNames \subseteq Seq(Letters)
  <2>1. <<"n">> \in Seq(Letters) /\ <<"S", "1">> \in Seq(Letters)
    BY DEF Letters, Symbols
  <2>2. QED
    BY <2>1 DEF PersonNames
<1>4. ASSUME NEW l \in DOMAIN saved.names PROVE saved.names[l] \in Seq(Letters)
  <2>1. saved.names[l] \in Range(saved.names)
    BY DEF Range
  <2>2. QED
    BY <1>1, <1>3, <2>1
<1>5. GoodNames(saved.names)
  BY <1>1, <1>4, Zenon DEF GoodNames
<1>6. Sayings \subseteq Seq(Symbols)
  BY DEF Sayings, Symbols
<1>7. QED
  BY <1>1, <1>2, <1>5, <1>6

\* A text is shown renamed.
LEMMA TextRenamed ==
  ASSUME NEW text \in Seq(Symbols), GoodNames(saved.names)
  PROVE  Displayed(text, saved.names) = Renamed(text)
<1> DEFINE pieces == Pieces(text)
<1>1. Displayed(text, saved.names)
        = FlattenSeq([k \in DOMAIN pieces |-> NameFor(saved.names, pieces[k])])
  BY ShownByPieces
<1>2. \A k \in DOMAIN pieces : NameOf(pieces[k]) = NameFor(saved.names, pieces[k])
  BY Zenon DEF NameOf, NameFor
<1>3. Renamed(text) = FlattenSeq([k \in DOMAIN pieces |-> NameOf(pieces[k])])
  BY Zenon DEF Renamed
<1> HIDE DEF pieces
<1>4. [k \in DOMAIN pieces |-> NameOf(pieces[k])]
        = [k \in DOMAIN pieces |-> NameFor(saved.names, pieces[k])]
  BY <1>2
<1> QED
  BY <1>1, <1>3, <1>4, Zenon

\* What an export has.
LEMMA ExportFacts ==
  \A flavor \in Flavors :
    /\ Exported(flavor).speakers = SpeakersLine /\ Exported(flavor).text = ShownText
    /\ Exported(flavor).owner = ShownOwner
    /\ \A segment \in Exported(flavor).transcript :
         /\ segment.speaker \in {Displayed(label, saved.names) : label \in saved.heard}
         /\ segment.text = Displayed(saved.said, saved.names)
<1> SUFFICES ASSUME NEW flavor \in Flavors
             PROVE  /\ Exported(flavor).speakers = SpeakersLine
                    /\ Exported(flavor).text = ShownText
                    /\ Exported(flavor).owner = ShownOwner
                    /\ \A segment \in Exported(flavor).transcript :
                         /\ segment.speaker
                              \in {Displayed(label, saved.names) : label \in saved.heard}
                         /\ segment.text = Displayed(saved.said, saved.names)
  OBVIOUS
<1>1. /\ Exported(flavor).speakers = SpeakersLine /\ Exported(flavor).text = ShownText
      /\ Exported(flavor).owner = ShownOwner
      /\ Exported(flavor).transcript = IF flavor = "full" THEN ShownTranscript ELSE {}
  BY DEF Exported
<1>2. ASSUME NEW segment \in ShownTranscript
      PROVE  /\ segment.speaker \in {Displayed(label, saved.names) : label \in saved.heard}
             /\ segment.text = Displayed(saved.said, saved.names)
  BY DEF ShownTranscript
<1> QED
  BY <1>1, <1>2

\* The texts of the summary and of the transcript are shown with names in place of
\* the labels that are words of them, and are otherwise as they were, whatever the
\* summary's length: a label in a longer word, one that is the beginning of another
\* label, and one in a name that was put in stay.
THEOREM NamesStandForLabels == FairSpec => []NamesReplaceWords
<1>1. ASSUME ReportInv PROVE NamesReplaceWords
  <2>1. /\ saved.text \in Seq(Symbols) /\ saved.said \in Seq(Symbols)
        /\ GoodNames(saved.names)
    BY <1>1, SavedFacts
  <2>2. /\ Displayed(saved.text, saved.names) = Renamed(saved.text)
        /\ Displayed(saved.said, saved.names) = Renamed(saved.said)
    BY <2>1, TextRenamed
  <2>3. \A flavor \in Flavors : Exported(flavor).text = Renamed(saved.text)
    BY <2>2, ExportFacts, Zenon DEF ShownText
  <2>4. \A segment \in Exported("full").transcript : segment.text = Renamed(saved.said)
    BY <2>2, ExportFacts, Zenon DEF Flavors
  <2>5. QED
    BY <2>3, <2>4, Zenon DEF NamesReplaceWords
<1>2. ReportInv => NamesReplaceWords
  BY <1>1
<1> QED
  BY <1>2, ReportTypes, PTL

\* Every speaker shown in an export, as a label of its summary, as the owner of an
\* action item or of a segment, is in its line of speakers under the same name: a
\* label that the text shows as a word of its own is one that the line's own search of
\* the text finds.  Owners given by name and labels said in a segment are not searched.
THEOREM EveryoneIsListed == FairSpec => []SpeakersLineIsComplete
<1>1. ASSUME ReportInv PROVE SpeakersLineIsComplete
  <2> DEFINE pieces == Pieces(saved.text)
             spoken == {k \in DOMAIN pieces : pieces[k] \in Extracted(pieces[k])}
  <2>1. saved.text \in Seq(Symbols) /\ GoodNames(saved.names)
    BY <1>1, SavedFacts
  <2>2. ASSUME NEW k \in spoken PROVE NameOf(pieces[k]) \in SpeakersLine
    <3> DEFINE a == Nth(Bounds(saved.text), k)
               b == Nth(Bounds(saved.text), k + 1) - 1
               p == SubSeq(saved.text, a, b)
    <3>1. k \in 1 .. Cardinality(Starts(saved.text)) /\ pieces[k] = p
      BY DEF Pieces, Bounds
    <3>2. IsPiece(saved.text, a, b)
      BY <2>1, <3>1, PiecesFacts
    <3>3. p \in Extracted(p)
      BY <3>1
    <3> HIDE DEF a, b
    <3>4. p \in Extracted(saved.text) /\ p \in Seq(Symbols)
      BY <2>1, <3>2, <3>3, SpokenIsExtracted
    <3> HIDE DEF p, pieces
    <3>5. p \in CollectedLabels
      BY <3>4, Zenon DEF CollectedLabels
    <3>6. Displayed(p, saved.names) = NameFor(saved.names, p)
      BY <2>1, <3>3, <3>4, LabelShown
    <3>7. NameOf(pieces[k]) = Displayed(p, saved.names)
      BY <3>1, <3>6, Zenon DEF NameOf, NameFor
    <3>8. QED
      BY <3>5, <3>7, Zenon DEF SpeakersLine
  <2>3. saved.owner.kind = "speaker" => ShownOwner \in SpeakersLine
    <3> SUFFICES ASSUME saved.owner.kind = "speaker" PROVE ShownOwner \in SpeakersLine
      OBVIOUS
    <3>1. saved.owner.value \in CollectedLabels
      BY Zenon DEF CollectedLabels
    <3>2. ShownOwner = Displayed(saved.owner.value, saved.names)
      BY Zenon DEF ShownOwner
    <3>3. QED
      BY <3>1, <3>2, Zenon DEF SpeakersLine
  <2>4. {Displayed(label, saved.names) : label \in saved.heard} \subseteq SpeakersLine
    <3>1. saved.heard \subseteq CollectedLabels
      BY Zenon DEF CollectedLabels
    <3>2. QED
      BY <3>1, Zenon DEF SpeakersLine
  <2>5. {NameOf(pieces[k]) : k \in spoken} \subseteq SpeakersLine
    <3> HIDE DEF pieces, spoken
    <3>1. QED
      BY <2>2
  <2>6. ASSUME NEW flavor \in Flavors
        PROVE  /\ {NameOf(pieces[k]) : k \in spoken} \subseteq Exported(flavor).speakers
               /\ saved.owner.kind = "speaker"
                    => Exported(flavor).owner \in Exported(flavor).speakers
               /\ {segment.speaker : segment \in Exported(flavor).transcript}
                    \subseteq Exported(flavor).speakers
    <3> HIDE DEF pieces, spoken
    <3>1. \A segment \in Exported(flavor).transcript : segment.speaker \in SpeakersLine
      BY <2>4, ExportFacts
    <3>2. QED
      BY <2>3, <2>5, <3>1, ExportFacts
  <2>7. QED
    BY <2>6, Zenon DEF SpeakersLineIsComplete
<1>2. ReportInv => SpeakersLineIsComplete
  BY <1>1
<1> QED
  BY <1>2, ReportTypes, PTL
=============================================================================
