--------------------------- MODULE ResourceUriProofs ---------------------------
(***************************************************************************)
(* What Display writes from_str reads back, for every label and path.  The *)
(* proofs are inductions over texts and paths.  The library's induction    *)
(* theorems take an operator, so they start from one that does not: finite *)
(* sets are well-founded under inclusion, and 1..n grows with n.           *)
(***************************************************************************)
EXTENDS ResourceUri, FiniteSetTheorems, WellFoundedInduction, TLAPS

LEMMA LeastNatural ==
    ASSUME NEW T \in SUBSET Nat, T # {}
    PROVE  \E n \in T : \A m \in T : n <= m
<1> DEFINE R == StrictSubsetOrdering(Nat)
           I == {1..n : n \in T}
<1>1. IsWellFoundedOn(R, FiniteSubsetsOf(Nat))
  BY FS_StrictSubsetOrderingWellFounded
<1>2. I \subseteq FiniteSubsetsOf(Nat) /\ I # {}
  <2>1. \A n \in Nat : IsFiniteSet(1..n) /\ 1..n \subseteq Nat
    BY FS_Interval
  <2> QED
    BY <2>1 DEF FiniteSubsetsOf
<1>3. PICK x \in I : \A y \in I : ~(<<y, x>> \in R)
  <2> HIDE DEF R, I
  <2> QED
    BY <1>1, <1>2, WFMin
<1>4. PICK n \in T : x = 1..n
  OBVIOUS
<1>5. ASSUME NEW m \in T, m < n
      PROVE  FALSE
  <2>1. 1..m \subseteq 1..n /\ n \in 1..n /\ n \notin 1..m
    BY <1>5
  <2>2. 1..m \in SUBSET Nat /\ 1..n \in SUBSET Nat
    OBVIOUS
  <2>3. <<1..m, 1..n>> \in R
    BY <2>1, <2>2 DEF StrictSubsetOrdering
  <2> QED
    BY <1>3, <1>4, <2>3
<1> QED
  BY <1>5

\* Induction on the natural numbers, for a set instead of a predicate.
LEMMA Induction ==
    ASSUME NEW S, 0 \in S, \A n \in Nat : n \in S => n + 1 \in S
    PROVE  Nat \subseteq S
<1> SUFFICES ASSUME NEW k \in Nat, k \notin S
             PROVE  FALSE
  OBVIOUS
<1> DEFINE T == {n \in Nat : n \notin S}
<1>1. PICK n \in T : \A m \in T : n <= m
  <2>1. T \in SUBSET Nat /\ T # {}
    OBVIOUS
  <2> HIDE DEF T
  <2> QED
    BY <2>1, LeastNatural
<1>2. n # 0 /\ n - 1 \in Nat
  OBVIOUS
<1>3. n - 1 \in S
  BY <1>1, <1>2
<1> QED
  BY <1>1, <1>2, <1>3
------------------------------------------------------------------------------
(* Split and Written are what their recursions say *)

\* The segment that is over and the last one, after a token is read.
Read(cut, token) ==
    IF token = Separator THEN [over |-> Append(cut.over, cut.last), last |-> <<>>]
    ELSE [over |-> cut.over, last |-> Append(cut.last, token)]

Uncut == [over |-> <<>>, last |-> <<>>]
IsSplit(cut, text, n) ==
    cut = [i \in 0..n |-> IF i = 0 THEN Uncut ELSE Read(cut[i - 1], text[i])]

LEMMA SplitExists ==
    ASSUME NEW text, Len(text) \in Nat
    PROVE  IsSplit(Split(text), text, Len(text))
<1> DEFINE S == {n \in Nat : \E cut : IsSplit(cut, text, n)}
<1>1. 0 \in S
  <2> DEFINE c == [i \in 0..0 |-> Uncut]
  <2>1. c = [i \in 0..0 |-> IF i = 0 THEN Uncut ELSE Read(c[i - 1], text[i])]
    OBVIOUS
  <2> HIDE DEF c
  <2>2. IsSplit(c, text, 0)
    BY <2>1 DEF IsSplit
  <2> QED
    BY <2>2
<1>2. \A n \in Nat : n \in S => n + 1 \in S
  <2> SUFFICES ASSUME NEW n \in Nat, NEW cut, IsSplit(cut, text, n)
               PROVE  \E c : IsSplit(c, text, n + 1)
    OBVIOUS
  <2> DEFINE c == [i \in 0..(n + 1) |->
                     IF i = n + 1 THEN Read(cut[n], text[n + 1]) ELSE cut[i]]
  <2>1. \A i \in 0..n : c[i] = cut[i]
    OBVIOUS
  <2>2. \A i \in 0..n : cut[i] = IF i = 0 THEN Uncut ELSE Read(cut[i - 1], text[i])
    BY DEF IsSplit
  <2>3. \A i \in 0..(n + 1) :
           c[i] = IF i = 0 THEN Uncut ELSE Read(c[i - 1], text[i])
    <3> SUFFICES ASSUME NEW i \in 0..(n + 1)
                 PROVE  c[i] = IF i = 0 THEN Uncut ELSE Read(c[i - 1], text[i])
      OBVIOUS
    <3>1. CASE i \in 0..n
      <4>1. i # 0 => i - 1 \in 0..n
        BY <3>1
      <4>2. i # 0 => c[i - 1] = cut[i - 1]
        BY <2>1, <4>1
      <4> HIDE DEF c
      <4> QED
        BY <2>1, <2>2, <3>1, <4>2
    <3>2. CASE i = n + 1
      <4>1. c[i] = Read(cut[n], text[n + 1]) /\ i # 0 /\ i - 1 = n
        BY <3>2
      <4> QED
        BY <2>1, <3>2, <4>1
    <3> QED
      BY <3>1, <3>2
  <2>4. c = [i \in 0..(n + 1) |-> IF i = 0 THEN Uncut ELSE Read(c[i - 1], text[i])]
    <3>1. c = [i \in 0..(n + 1) |-> c[i]]
      OBVIOUS
    <3> HIDE DEF c
    <3> QED
      BY <2>3, <3>1
  <2> HIDE DEF c
  <2>5. IsSplit(c, text, n + 1)
    BY <2>4 DEF IsSplit
  <2> QED
    BY <2>5
<1>3. \E cut : IsSplit(cut, text, Len(text))
  <2> HIDE DEF S
  <2>1. Nat \subseteq S
    BY <1>1, <1>2, Induction
  <2> QED
    BY <2>1 DEF S
<1> DEFINE f == Split(text)
<1>4. f = CHOOSE cut : IsSplit(cut, text, Len(text))
  BY DEF Split, IsSplit, Read, Uncut
<1> QED
  BY <1>3, <1>4

Cut(text) == Split(text)[Len(text)]
Cuts(T) == [over : Seq(Seq(T)), last : Seq(T)]

LEMMA SplitSteps ==
    ASSUME NEW text, Len(text) \in Nat
    PROVE  /\ Split(text)[0] = Uncut
           /\ \A i \in 1..Len(text) : Split(text)[i] = Read(Split(text)[i - 1], text[i])
<1> DEFINE f == Split(text)
<1>1. f = [i \in 0..Len(text) |-> IF i = 0 THEN Uncut ELSE Read(f[i - 1], text[i])]
  BY SplitExists DEF IsSplit
<1> HIDE DEF f
<1>2. f[0] = Uncut /\ \A i \in 1..Len(text) : f[i] = Read(f[i - 1], text[i])
  BY <1>1
<1> QED
  BY <1>2 DEF f

\* Texts that begin alike are split alike so far.
LEMMA SplitAgrees ==
    ASSUME NEW t, NEW u, Len(t) \in Nat, Len(u) \in Nat,
           NEW n \in Nat, n <= Len(t), n <= Len(u), \A i \in 1..n : t[i] = u[i]
    PROVE  Split(t)[n] = Split(u)[n]
<1> DEFINE S == {k \in Nat : k <= n => Split(t)[k] = Split(u)[k]}
<1>1. 0 \in S
  BY SplitSteps
<1>2. \A k \in Nat : k \in S => k + 1 \in S
  <2> SUFFICES ASSUME NEW k \in Nat, Split(t)[k] = Split(u)[k], k + 1 <= n
               PROVE  Split(t)[k + 1] = Split(u)[k + 1]
    OBVIOUS
  <2>1. k + 1 \in 1..n /\ k + 1 \in 1..Len(t) /\ k + 1 \in 1..Len(u) /\ (k + 1) - 1 = k
    OBVIOUS
  <2>2. Split(t)[k + 1] = Read(Split(t)[k], t[k + 1])
    BY <2>1, SplitSteps
  <2>3. Split(u)[k + 1] = Read(Split(u)[k], u[k + 1])
    BY <2>1, SplitSteps
  <2> QED
    BY <2>1, <2>2, <2>3
<1> HIDE DEF S
<1>3. n \in S
  BY <1>1, <1>2, Induction
<1> QED
  BY <1>3 DEF S

LEMMA CutOfEmpty == Cut(<<>>) = Uncut
  BY SplitSteps DEF Cut

LEMMA CutOfAppend ==
    ASSUME NEW T, NEW t \in Seq(T), NEW x \in T
    PROVE  Cut(Append(t, x)) = Read(Cut(t), x)
<1> DEFINE u == Append(t, x)
<1>1. /\ u \in Seq(T) /\ Len(u) = Len(t) + 1 /\ Len(t) \in Nat
      /\ u[Len(u)] = x /\ \A i \in 1..Len(t) : t[i] = u[i]
  OBVIOUS
<1> HIDE DEF u
<1>2. Split(u)[Len(t)] = Split(t)[Len(t)]
  BY <1>1, SplitAgrees
<1>3. Split(u)[Len(u)] = Read(Split(u)[Len(u) - 1], u[Len(u)])
  BY <1>1, SplitSteps
<1>4. Len(u) - 1 = Len(t)
  BY <1>1
<1> QED
  BY <1>1, <1>2, <1>3, <1>4 DEF Cut, u

\* Induction on sequences, for a set: one that has the empty sequence and with each
\* of its members every longer one by an element has them all.
LEMMA SequenceInduction ==
    ASSUME NEW T, NEW S, <<>> \in S,
           \A t \in Seq(T), x \in T : t \in S => Append(t, x) \in S
    PROVE  Seq(T) \subseteq S
<1> DEFINE N == {n \in Nat : \A t \in Seq(T) : Len(t) = n => t \in S}
<1>1. 0 \in N
  <2>1. \A t \in Seq(T) : Len(t) = 0 => t = <<>>
    OBVIOUS
  <2> QED
    BY <2>1
<1>2. \A n \in Nat : n \in N => n + 1 \in N
  <2> SUFFICES ASSUME NEW n \in Nat, \A t \in Seq(T) : Len(t) = n => t \in S,
                      NEW t \in Seq(T), Len(t) = n + 1
               PROVE  t \in S
    OBVIOUS
  <2> DEFINE u == SubSeq(t, 1, n)
  <2>1. u \in Seq(T) /\ Len(u) = n /\ t[n + 1] \in T
    OBVIOUS
  <2>2. t = Append(u, t[n + 1])
    OBVIOUS
  <2> HIDE DEF u
  <2> QED
    BY <2>1, <2>2
<1> HIDE DEF N
<1>3. Nat \subseteq N
  BY <1>1, <1>2, Induction
<1> QED
  BY <1>3 DEF N

LEMMA ReadsToken ==
    ASSUME NEW over, NEW last, NEW x
    PROVE  Read([over |-> over, last |-> last], x) =
              IF x = Separator THEN [over |-> Append(over, last), last |-> <<>>]
              ELSE [over |-> over, last |-> Append(last, x)]
  BY DEF Read

LEMMA CutType ==
    ASSUME NEW T, NEW t \in Seq(T)
    PROVE  Cut(t) \in Cuts(T)
<1> DEFINE S == {u \in Seq(T) : Cut(u) \in Cuts(T)}
<1>1. <<>> \in S
  <2>1. Uncut \in Cuts(T) /\ <<>> \in Seq(T)
    BY DEF Uncut, Cuts
  <2> QED
    BY <2>1, CutOfEmpty
<1>2. \A u \in Seq(T), x \in T : u \in S => Append(u, x) \in S
  <2> SUFFICES ASSUME NEW u \in Seq(T), NEW x \in T, Cut(u) \in Cuts(T)
               PROVE  Append(u, x) \in Seq(T) /\ Cut(Append(u, x)) \in Cuts(T)
    OBVIOUS
  <2>1. PICK over \in Seq(Seq(T)), last \in Seq(T) : Cut(u) = [over |-> over, last |-> last]
    BY DEF Cuts
  <2>2. Append(over, last) \in Seq(Seq(T)) /\ Append(last, x) \in Seq(T) /\ <<>> \in Seq(T)
    OBVIOUS
  <2>3. Read(Cut(u), x) =
           IF x = Separator THEN [over |-> Append(over, last), last |-> <<>>]
           ELSE [over |-> over, last |-> Append(last, x)]
    BY <2>1, ReadsToken
  <2>4. Read(Cut(u), x) \in Cuts(T)
    BY <2>2, <2>3 DEF Cuts
  <2> QED
    BY <2>4, CutOfAppend
<1> HIDE DEF S
<1>3. t \in S
  BY <1>1, <1>2, SequenceInduction
<1> QED
  BY <1>3 DEF S

\* A word without separators lengthens the last segment.
LEMMA CutOfWord ==
    ASSUME NEW T, NEW t \in Seq(T), NEW w \in Seq(T \ {Separator})
    PROVE  Cut(t \o w) = [over |-> Cut(t).over, last |-> Cut(t).last \o w]
<1> DEFINE W == T \ {Separator}
           S == {v \in Seq(W) :
                   Cut(t \o v) = [over |-> Cut(t).over, last |-> Cut(t).last \o v]}
<1>1. PICK over \in Seq(Seq(T)), last \in Seq(T) : Cut(t) = [over |-> over, last |-> last]
  BY CutType DEF Cuts
<1>2. <<>> \in S
  <2>1. <<>> \in Seq(W) /\ t \o <<>> = t /\ last \o <<>> = last
    OBVIOUS
  <2> QED
    BY <1>1, <2>1
<1>3. \A v \in Seq(W), x \in W : v \in S => Append(v, x) \in S
  <2> SUFFICES ASSUME NEW v \in Seq(W), NEW x \in W, v \in S
               PROVE  Append(v, x) \in S
    OBVIOUS
  <2>1. /\ t \o Append(v, x) = Append(t \o v, x) /\ t \o v \in Seq(T) /\ x \in T
        /\ last \o Append(v, x) = Append(last \o v, x) /\ Append(v, x) \in Seq(W)
        /\ x # Separator
    <3>1. v \in Seq(T)
      OBVIOUS
    <3> QED
      BY <3>1
  <2>2. Cut(t \o v) = [over |-> over, last |-> last \o v]
    BY <1>1
  <2>3. Cut(t \o Append(v, x)) = Read([over |-> over, last |-> last \o v], x)
    BY <2>1, <2>2, CutOfAppend
  <2>4. Cut(t \o Append(v, x)) = [over |-> over, last |-> last \o Append(v, x)]
    <3>1. Read([over |-> over, last |-> last \o v], x)
             = [over |-> over, last |-> Append(last \o v, x)]
      BY <2>1, ReadsToken
    <3> QED
      BY <2>1, <2>3, <3>1
  <2>5. Cut(t).over = over /\ Cut(t).last = last
    BY <1>1
  <2> QED
    BY <2>1, <2>4, <2>5
<1> HIDE DEF S
<1>4. Seq(W) \subseteq S
  BY <1>2, <1>3, SequenceInduction
<1> QED
  BY <1>4 DEF S

\* A word with a separator after it is a segment more.
LEMMA CutOfSegment ==
    ASSUME NEW T, Separator \in T, NEW t \in Seq(T), NEW w \in Seq(T \ {Separator}),
           NEW over, Cut(t) = [over |-> over, last |-> <<>>]
    PROVE  Cut(Append(t \o w, Separator)) = [over |-> Append(over, w), last |-> <<>>]
<1>1. w \in Seq(T)
  OBVIOUS
<1>2. t \o w \in Seq(T) /\ <<>> \o w = w
  BY <1>1
<1>3. Cut(t \o w) = [over |-> over, last |-> w]
  <2>1. Cut(t \o w) = [over |-> Cut(t).over, last |-> Cut(t).last \o w]
    BY CutOfWord
  <2>2. Cut(t).over = over /\ Cut(t).last = <<>>
    OBVIOUS
  <2> QED
    BY <1>2, <2>1, <2>2
<1>4. Cut(Append(t \o w, Separator)) = Read([over |-> over, last |-> w], Separator)
  BY <1>2, <1>3, CutOfAppend
<1> QED
  BY <1>4, ReadsToken
------------------------------------------------------------------------------
(* Components, encoded and decoded *)

Token == [ch : Char, enc : BOOLEAN]

\* What a component of an address may be: not empty, no control characters.
Component == Seq(Char \ {"ctl"}) \ {<<>>}

\* Percent-encoding hides every separator, and decode_component undoes it.
LEMMA EncodeMeans ==
    ASSUME NEW label \in Component, NEW set, CHARSET \subseteq set
    PROVE  /\ Encode(label, set) \in Seq(Token \ {Separator})
           /\ Len(Encode(label, set)) = Len(label)
           /\ Decodable(Encode(label, set))
           /\ Decode(Encode(label, set)) = label
<1> DEFINE e == Encode(label, set)
<1>1. /\ label \in Seq(Char \ {"ctl"}) /\ label # <<>>
      /\ DOMAIN label = 1..Len(label) /\ Len(label) \in Nat
  BY DEF Component
<1>2. e = [i \in 1..Len(label) |-> [ch |-> label[i], enc |-> label[i] \in set]]
  BY <1>1 DEF Encode
<1>3. \A i \in 1..Len(label) :
         /\ [ch |-> label[i], enc |-> label[i] \in set] \in Token
         /\ [ch |-> label[i], enc |-> label[i] \in set] # Separator
  <2> TAKE i \in 1..Len(label)
  <2>1. label[i] \in Char \ {"ctl"} /\ (label[i] \in set) \in BOOLEAN
    BY <1>1
  <2>2. label[i] = "/" => label[i] \in set
    BY DEF CHARSET
  <2> QED
    BY <2>1, <2>2 DEF Token, Separator
<1>4. e \in Seq(Token \ {Separator}) /\ Len(e) = Len(label) /\ DOMAIN e = 1..Len(label)
  <2> HIDE DEF e
  <2> QED
    BY <1>1, <1>2, <1>3
<1>5. \A i \in 1..Len(label) :
         /\ e[i].ch = label[i] /\ e[i].enc = (label[i] \in set)
         /\ label[i] \in Char \ {"ctl"}
  BY <1>1, <1>2
<1>6. Decodable(e)
  <2>1. \A i \in 1..Len(label) : e[i].enc \/ e[i].ch \in Unreserved
    BY <1>5 DEF Char, CHARSET, Unreserved
  <2>2. e # <<>>
    BY <1>1, <1>4
  <2> HIDE DEF e
  <2> QED
    BY <1>4, <1>5, <2>1, <2>2 DEF Decodable
<1>7. Decode(e) = label
  <2> HIDE DEF e
  <2>1. Decode(e) = [i \in 1..Len(label) |-> label[i]]
    BY <1>4, <1>5 DEF Decode
  <2> QED
    BY <1>1, <2>1
<1> QED
  BY <1>4, <1>6, <1>7

LEMMA EncodeSegmentMeans ==
    ASSUME NEW label \in Component
    PROVE  /\ EncodeSegment(label) \in Seq(Token \ {Separator})
           /\ Decodable(EncodeSegment(label))
           /\ Decode(EncodeSegment(label)) = label
<1>1. CHARSET \subseteq DOT_CHARSET
  BY DEF DOT_CHARSET
<1> QED
  BY <1>1, EncodeMeans DEF EncodeSegment

\* A label that is a dot segment is not written as one.
LEMMA NoDotsWritten ==
    ASSUME NEW label \in Component, NEW dots \in DotSegments
    PROVE  EncodeSegment(label) # Encode(dots, {})
<1> SUFFICES ASSUME EncodeSegment(label) = Encode(dots, {})
             PROVE  FALSE
  OBVIOUS
<1>1. dots \in Seq(Char) /\ 1 \in DOMAIN dots /\ dots[1] = "."
  <2>1. CASE dots = <<".">>
    BY <2>1 DEF Char
  <2>2. CASE dots = <<".", ".">>
    BY <2>2 DEF Char
  <2> QED
    BY <2>1, <2>2 DEF DotSegments
<1>2. Decode(Encode(dots, {})) = dots
  BY <1>1 DEF Decode, Encode
<1>3. label = dots
  BY <1>2, EncodeSegmentMeans
<1>4. EncodeSegment(label)[1].enc
  BY <1>1, <1>3 DEF EncodeSegment, Encode, DOT_CHARSET
<1>5. ~Encode(dots, {})[1].enc
  BY <1>1 DEF Encode
<1> QED
  BY <1>4, <1>5
------------------------------------------------------------------------------
(* What Display writes *)

Base(uri) == Encode(uri.system, CHARSET) \o <<Separator, VfsToken, Separator>>
With(text, segment) == Append(text \o EncodeSegment(segment), Separator)
IsWritten(text, uri, n) ==
    text = [i \in 0..n |-> IF i = 0 THEN Base(uri) ELSE With(text[i - 1], uri.path[i])]

LEMMA WrittenExists ==
    ASSUME NEW uri, Len(uri.path) \in Nat
    PROVE  IsWritten(Written(uri), uri, Len(uri.path))
<1> DEFINE S == {n \in Nat : \E text : IsWritten(text, uri, n)}
<1>1. 0 \in S
  <2> DEFINE c == [i \in 0..0 |-> Base(uri)]
  <2>1. c = [i \in 0..0 |-> IF i = 0 THEN Base(uri) ELSE With(c[i - 1], uri.path[i])]
    OBVIOUS
  <2> HIDE DEF c
  <2>2. IsWritten(c, uri, 0)
    BY <2>1 DEF IsWritten
  <2> QED
    BY <2>2
<1>2. \A n \in Nat : n \in S => n + 1 \in S
  <2> SUFFICES ASSUME NEW n \in Nat, NEW text, IsWritten(text, uri, n)
               PROVE  \E c : IsWritten(c, uri, n + 1)
    OBVIOUS
  <2> DEFINE c == [i \in 0..(n + 1) |->
                     IF i = n + 1 THEN With(text[n], uri.path[n + 1]) ELSE text[i]]
  <2>1. \A i \in 0..n : c[i] = text[i]
    OBVIOUS
  <2>2. \A i \in 0..n :
           text[i] = IF i = 0 THEN Base(uri) ELSE With(text[i - 1], uri.path[i])
    BY DEF IsWritten
  <2>3. \A i \in 0..(n + 1) :
           c[i] = IF i = 0 THEN Base(uri) ELSE With(c[i - 1], uri.path[i])
    <3> SUFFICES ASSUME NEW i \in 0..(n + 1)
                 PROVE  c[i] = IF i = 0 THEN Base(uri) ELSE With(c[i - 1], uri.path[i])
      OBVIOUS
    <3>1. CASE i \in 0..n
      <4>1. i # 0 => i - 1 \in 0..n
        BY <3>1
      <4>2. i # 0 => c[i - 1] = text[i - 1]
        BY <2>1, <4>1
      <4> HIDE DEF c
      <4> QED
        BY <2>1, <2>2, <3>1, <4>2
    <3>2. CASE i = n + 1
      <4>1. c[i] = With(text[n], uri.path[n + 1]) /\ i # 0 /\ i - 1 = n
        BY <3>2
      <4> QED
        BY <2>1, <3>2, <4>1
    <3> QED
      BY <3>1, <3>2
  <2>4. c = [i \in 0..(n + 1) |-> IF i = 0 THEN Base(uri) ELSE With(c[i - 1], uri.path[i])]
    <3>1. c = [i \in 0..(n + 1) |-> c[i]]
      OBVIOUS
    <3> HIDE DEF c
    <3> QED
      BY <2>3, <3>1
  <2> HIDE DEF c
  <2>5. IsWritten(c, uri, n + 1)
    BY <2>4 DEF IsWritten
  <2> QED
    BY <2>5
<1>3. \E text : IsWritten(text, uri, Len(uri.path))
  <2> HIDE DEF S
  <2>1. Nat \subseteq S
    BY <1>1, <1>2, Induction
  <2> QED
    BY <2>1 DEF S
<1> DEFINE f == Written(uri)
<1>4. f = CHOOSE text : IsWritten(text, uri, Len(uri.path))
  BY DEF Written, IsWritten, With, Base
<1> QED
  BY <1>3, <1>4

LEMMA WrittenSteps ==
    ASSUME NEW uri, Len(uri.path) \in Nat
    PROVE  /\ Written(uri)[0] = Base(uri)
           /\ \A i \in 1..Len(uri.path) : Written(uri)[i] = With(Written(uri)[i - 1], uri.path[i])
<1> DEFINE f == Written(uri)
<1>1. f = [i \in 0..Len(uri.path) |->
              IF i = 0 THEN Base(uri) ELSE With(f[i - 1], uri.path[i])]
  BY WrittenExists DEF IsWritten
<1> HIDE DEF f
<1>2. f[0] = Base(uri) /\ \A i \in 1..Len(uri.path) : f[i] = With(f[i - 1], uri.path[i])
  BY <1>1
<1> QED
  BY <1>2 DEF f

Text == Seq(Token)

\* The segments of a directory's address that are over after n segments of its path.
Over(system, path, n) ==
    [i \in 1..(n + 2) |-> IF i = 1 THEN Encode(system, CHARSET)
                         ELSE IF i = 2 THEN <<VfsToken>>
                         ELSE EncodeSegment(path[i - 2])]

LEMMA Tokens == Separator \in Token /\ VfsToken \in Token \ {Separator}
  BY DEF Separator, VfsToken, Token, Char

\* A text with a separator put after it is not empty and ends in the separator.
LEMMA SeparatorEnds ==
    ASSUME NEW s \in Seq(Token)
    PROVE  /\ Append(s, Separator) \in Seq(Token)
           /\ Last(Append(s, Separator)) = Separator
           /\ Append(s, Separator) # <<>>
<1>1. Len(Append(s, Separator)) = Len(s) + 1 /\ Len(s) \in Nat
  BY Tokens
<1>2. Append(s, Separator)[Len(s) + 1] = Separator
  BY Tokens
<1>3. Append(s, Separator) \in Seq(Token)
  BY Tokens
<1>4. Append(s, Separator) # <<>>
  BY <1>1
<1> QED
  BY <1>1, <1>2, <1>3, <1>4 DEF Last

LEMMA BaseIsCut ==
    ASSUME NEW system \in Component, NEW path
    PROVE  LET uri == Vfs(system, path) IN
           /\ Base(uri) \in Text
           /\ Cut(Base(uri)) = [over |-> Over(system, path, 0), last |-> <<>>]
           /\ Last(Base(uri)) = Separator /\ Base(uri) # <<>>
<1> DEFINE e == Encode(system, CHARSET)
           t == Append(<<>> \o e, Separator)
           v == <<VfsToken>>
<1>1. e \in Seq(Token \ {Separator}) /\ v \in Seq(Token \ {Separator})
  BY EncodeMeans, Tokens
<1> HIDE DEF e, v
<1>2. <<>> \in Seq(Token) /\ e \in Seq(Token) /\ v \in Seq(Token)
  BY <1>1
<1>3. Cut(t) = [over |-> Append(<<>>, e), last |-> <<>>]
  BY <1>1, <1>2, Tokens, CutOfEmpty, CutOfSegment DEF Uncut
<1>4. t \in Seq(Token)
  BY <1>2, Tokens
<1>5. Cut(Append(t \o v, Separator)) = [over |-> Append(Append(<<>>, e), v), last |-> <<>>]
  <2> HIDE DEF t
  <2> QED
    BY <1>1, <1>3, <1>4, Tokens, CutOfSegment
<1>6. Base(Vfs(system, path)) = Append(t \o v, Separator)
  <2>1. Base(Vfs(system, path)) = e \o <<Separator, VfsToken, Separator>>
    BY DEF Base, Vfs, e
  <2> QED
    BY <1>2, <2>1, Tokens DEF v
<1>7. Over(system, path, 0) = Append(Append(<<>>, e), v)
  BY DEF Over, e, v
<1>8. t \o v \in Seq(Token)
  <2> HIDE DEF t
  <2> QED
    BY <1>2, <1>4
<1>9. /\ Append(t \o v, Separator) \in Seq(Token) /\ Append(t \o v, Separator) # <<>>
      /\ Last(Append(t \o v, Separator)) = Separator
  <2> HIDE DEF t
  <2> QED
    BY <1>8, SeparatorEnds DEF Text
<1> QED
  BY <1>5, <1>6, <1>7, <1>9 DEF Text

\* Display writes the segments of a directory's path one by one.
LEMMA WrittenIsCut ==
    ASSUME NEW system \in Component, NEW path \in Seq(Component), NEW n \in 0..Len(path)
    PROVE  LET text == Written(Vfs(system, path))[n] IN
           /\ text \in Text
           /\ Cut(text) = [over |-> Over(system, path, n), last |-> <<>>]
           /\ Last(text) = Separator /\ text # <<>>
<1> DEFINE uri == Vfs(system, path)
           Good(k) == /\ Written(uri)[k] \in Text
                      /\ Cut(Written(uri)[k]) = [over |-> Over(system, path, k), last |-> <<>>]
                      /\ Last(Written(uri)[k]) = Separator /\ Written(uri)[k] # <<>>
           S == {k \in Nat : k <= Len(path) => Good(k)}
<1>1. uri.path = path /\ Len(path) \in Nat
  BY DEF Vfs
<1>2. 0 \in S
  <2>1. Written(uri)[0] = Base(uri)
    BY <1>1, WrittenSteps
  <2> QED
    BY <2>1, BaseIsCut
<1>3. \A k \in Nat : k \in S => k + 1 \in S
  <2> SUFFICES ASSUME NEW k \in Nat, k + 1 <= Len(path), Good(k)
               PROVE  Good(k + 1)
    BY <1>1
  <2> DEFINE t == Written(uri)[k]
             w == EncodeSegment(path[k + 1])
  <2>1. k + 1 \in 1..Len(path) /\ (k + 1) - 1 = k /\ path[k + 1] \in Component
    BY <1>1
  <2>2. Written(uri)[k + 1] = Append(t \o w, Separator)
    BY <1>1, <2>1, WrittenSteps DEF With
  <2>3. w \in Seq(Token \ {Separator}) /\ t \in Seq(Token)
    BY <2>1, EncodeSegmentMeans DEF Text
  <2>4. Cut(t) = [over |-> Over(system, path, k), last |-> <<>>]
    OBVIOUS
  <2>5. Append(Over(system, path, k), w) = Over(system, path, k + 1)
    <3>1. w = EncodeSegment(path[(k + 3) - 2])
      OBVIOUS
    <3> HIDE DEF w
    <3> QED
      BY <3>1 DEF Over
  <2> HIDE DEF t, w, S, Good, uri
  <2>6. Cut(Append(t \o w, Separator)) = [over |-> Over(system, path, k + 1), last |-> <<>>]
    BY <2>3, <2>4, <2>5, Tokens, CutOfSegment
  <2>7. t \o w \in Seq(Token)
    <3>1. w \in Seq(Token)
      BY <2>3
    <3> QED
      BY <2>3, <3>1
  <2>8. /\ Append(t \o w, Separator) \in Text
        /\ Last(Append(t \o w, Separator)) = Separator /\ Append(t \o w, Separator) # <<>>
    BY <2>7, SeparatorEnds DEF Text
  <2> QED
    BY <2>2, <2>6, <2>8 DEF Good
<1> HIDE DEF S
<1>4. n \in S
  BY <1>1, <1>2, <1>3, Induction
<1> QED
  BY <1>1, <1>4 DEF S
------------------------------------------------------------------------------
(* The addresses are read as what they were written for *)

\* The address of a directory, split: the system, vfs, the path, nothing after it.
LEMMA DirectorySegments ==
    ASSUME NEW system \in Component, NEW path \in Seq(Component)
    PROVE  LET text == Display(Vfs(system, path)) IN
           /\ text \in Text /\ text # <<>> /\ Last(text) = Separator
           /\ Segments(text) = Append(Over(system, path, Len(path)), <<>>)
<1> DEFINE text == Written(Vfs(system, path))[Len(path)]
<1>1. Display(Vfs(system, path)) = text
  BY DEF Display, Vfs
<1>2. Len(path) \in 0..Len(path)
  OBVIOUS
<1>3. /\ text \in Text /\ text # <<>> /\ Last(text) = Separator
      /\ Cut(text) = [over |-> Over(system, path, Len(path)), last |-> <<>>]
  BY <1>2, WrittenIsCut
<1> HIDE DEF text
<1>4. Segments(text) = Append(Over(system, path, Len(path)), <<>>)
  BY <1>3 DEF Segments, Cut
<1> QED
  BY <1>1, <1>3, <1>4

LEMMA TailIs ==
    ASSUME NEW S, NEW s \in Seq(S), NEW T, NEW t \in Seq(T), Len(s) = Len(t) + 1,
           \A i \in 1..Len(t) : s[i + 1] = t[i]
    PROVE  Tail(s) = t
<1>1. Tail(s) \in Seq(S) /\ Len(Tail(s)) = Len(t)
  OBVIOUS
<1>2. \A i \in 1..Len(t) : Tail(s)[i] = t[i]
  OBVIOUS
<1> QED
  BY <1>1, <1>2

\* from_str undoes Display for every directory of every system.
THEOREM DirectoryRoundTrip ==
    \A system \in Component, path \in Seq(Component) :
       Parse(Display(Vfs(system, path))) = Vfs(system, path)
<1> SUFFICES ASSUME NEW system \in Component, NEW path \in Seq(Component)
             PROVE  Parse(Display(Vfs(system, path))) = Vfs(system, path)
  OBVIOUS
<1> DEFINE text == Display(Vfs(system, path))
           n == Len(path)
           all == Segments(text)
           rest == Tail(all)
           directory == text # <<>> /\ Last(text) = Separator
           parts == IF directory /\ Len(rest) > 1 THEN Front(rest) ELSE rest
           labels == [i \in DOMAIN parts |-> Decode(parts[i])]
<1>1. directory /\ all = Append(Over(system, path, n), <<>>) /\ n \in Nat
  BY DirectorySegments
<1>2. Parse(text) =
         IF Len(all) < 2 \/ ~Decodable(all[1]) THEN Invalid
         ELSE IF \E i \in DOMAIN parts : ~Decodable(parts[i]) THEN Invalid
         ELSE IF labels[1] = <<"vfs">> THEN Vfs(Decode(all[1]), Tail(labels))
         ELSE IF Len(labels) = 1 /\ ~directory THEN Document(Decode(all[1]), labels[1])
         ELSE Invalid
  BY DEF Parse
<1> DEFINE o == Over(system, path, n)
<1>3. /\ o = [i \in 1..(n + 2) |-> o[i]] /\ DOMAIN o = 1..(n + 2)
      /\ o[1] = Encode(system, CHARSET) /\ o[2] = <<VfsToken>>
      /\ \A i \in 1..n : o[i + 2] = EncodeSegment(path[i])
  <2>1. \A i \in 1..n : i + 2 \in 1..(n + 2) /\ (i + 2) - 2 = i /\ i + 2 # 1 /\ i + 2 # 2
    BY <1>1
  <2> QED
    BY <1>1, <2>1 DEF Over
<1> HIDE DEF text, o
<1>4. o \in Seq({o[i] : i \in 1..(n + 2)}) /\ Len(o) = n + 2
  BY <1>1, <1>3
<1>5. Len(all) = n + 3 /\ all[1] = o[1] /\ Len(rest) = n + 2
      /\ \A i \in 1..(n + 1) : rest[i] = o[i + 1]
  BY <1>1, <1>4 DEF o
<1>6. /\ DOMAIN parts = 1..(n + 1) /\ Len(parts) = n + 1
      /\ \A i \in 1..(n + 1) : parts[i] = o[i + 1]
  <2>1. parts = Front(rest)
    BY <1>1, <1>5
  <2>2. Front(rest) = [i \in 1..(n + 1) |-> rest[i]]
    BY <1>1, <1>4, <1>5 DEF Front
  <2> HIDE DEF parts, rest
  <2> QED
    BY <1>1, <1>5, <2>1, <2>2
<1> HIDE DEF parts, rest, all
<1>7. Decodable(all[1]) /\ Decode(all[1]) = system
  BY <1>3, <1>5, EncodeMeans
<1>8. parts[1] = <<VfsToken>> /\ Decodable(parts[1]) /\ Decode(parts[1]) = <<"vfs">>
  <2>1. parts[1] = <<VfsToken>>
    <3>1. 1 \in 1..(n + 1) /\ 1 + 1 = 2
      BY <1>1
    <3>2. parts[1] = o[1 + 1]
      BY <1>6, <3>1
    <3> QED
      BY <1>3, <3>1, <3>2
  <2>2. Decodable(<<VfsToken>>) /\ Decode(<<VfsToken>>) = <<"vfs">>
    BY DEF Decodable, Decode, VfsToken, Unreserved
  <2> QED
    BY <2>1, <2>2
<1>9. \A i \in 2..(n + 1) : Decodable(parts[i]) /\ Decode(parts[i]) = path[i - 1]
  <2> SUFFICES ASSUME NEW i \in 2..(n + 1)
               PROVE  Decodable(parts[i]) /\ Decode(parts[i]) = path[i - 1]
    OBVIOUS
  <2>1. i - 1 \in 1..n /\ i \in 1..(n + 1) /\ (i - 1) + 2 = i + 1
    BY <1>1
  <2>2. parts[i] = EncodeSegment(path[i - 1]) /\ path[i - 1] \in Component
    <3>1. parts[i] = o[i + 1]
      BY <1>6, <2>1
    <3>2. o[(i - 1) + 2] = EncodeSegment(path[i - 1])
      BY <1>3, <2>1
    <3> QED
      BY <2>1, <3>1, <3>2
  <2> QED
    BY <2>2, EncodeSegmentMeans
<1>10. \A i \in DOMAIN parts : Decodable(parts[i])
  BY <1>1, <1>6, <1>8, <1>9
<1>11. labels[1] = <<"vfs">> /\ Tail(labels) = path
  <2>1. labels = [i \in 1..(n + 1) |-> Decode(parts[i])]
    BY <1>6
  <2>2. labels \in Seq({labels[i] : i \in 1..(n + 1)}) /\ Len(labels) = n + 1
    BY <1>1, <2>1
  <2>3. labels[1] = <<"vfs">>
    <3>1. 1 \in 1..(n + 1)
      BY <1>1
    <3>2. labels[1] = Decode(parts[1])
      BY <2>1, <3>1
    <3> QED
      BY <1>8, <3>2
  <2>4. \A i \in 1..n : labels[i + 1] = path[i]
    BY <1>1, <1>9, <2>1
  <2> HIDE DEF labels
  <2> QED
    BY <1>1, <2>2, <2>3, <2>4, TailIs
<1>12. Len(all) >= 2
  BY <1>1, <1>5
<1> HIDE DEF labels, directory
<1>13. Parse(text) = Vfs(Decode(all[1]), Tail(labels))
  BY <1>2, <1>7, <1>10, <1>11, <1>12, <1>5, <1>1
<1> QED
  BY <1>7, <1>11, <1>13 DEF text

\* The address of a document, split: the system and the name, no separator at the end.
LEMMA DocumentSegments ==
    ASSUME NEW system \in Component, NEW name \in Component
    PROVE  LET text == Display(Document(system, name)) IN
           /\ text \in Text
           /\ Segments(text) = <<Encode(system, CHARSET), Encode(name, CHARSET)>>
           /\ Last(text) # Separator
<1> DEFINE e == Encode(system, CHARSET)
           m == Encode(name, CHARSET)
           t == Append(<<>> \o e, Separator)
           text == t \o m
<1>1. /\ e \in Seq(Token \ {Separator}) /\ m \in Seq(Token \ {Separator})
      /\ Len(m) = Len(name) /\ Len(name) \in Nat \ {0}
  <2>1. Len(name) \in Nat \ {0}
    BY DEF Component
  <2> QED
    BY <2>1, EncodeMeans
<1>2. Display(Document(system, name)) = e \o <<Separator>> \o m
  BY DEF Display, Document
<1> HIDE DEF e, m
<1>3. /\ <<>> \in Seq(Token) /\ e \in Seq(Token) /\ m \in Seq(Token)
      /\ \A i \in 1..Len(m) : m[i] # Separator
  BY <1>1
<1>4. Cut(t) = [over |-> Append(<<>>, e), last |-> <<>>]
  BY <1>1, <1>3, Tokens, CutOfEmpty, CutOfSegment DEF Uncut
<1>5. t \in Seq(Token) /\ t = e \o <<Separator>>
  BY <1>3, Tokens
<1> HIDE DEF t
<1>6. Cut(text) = [over |-> Append(<<>>, e), last |-> m]
  <2>1. Cut(text) = [over |-> Cut(t).over, last |-> Cut(t).last \o m]
    BY <1>1, <1>5, CutOfWord
  <2>2. Cut(t).over = Append(<<>>, e) /\ Cut(t).last = <<>> /\ <<>> \o m = m
    BY <1>3, <1>4
  <2> QED
    BY <2>1, <2>2
<1>7. text \in Text /\ Last(text) = m[Len(m)] /\ Last(text) # Separator
  <2>1. /\ text \in Seq(Token) /\ Len(text) = Len(t) + Len(m)
        /\ text[Len(text)] = m[Len(m)] /\ Len(m) \in 1..Len(m)
    <3>1. /\ Len(text) = Len(t) + Len(m) /\ text \in Seq(Token)
          /\ \A i \in 1..Len(m) : text[Len(t) + i] = m[i]
      BY <1>3, <1>5
    <3> QED
      BY <1>1, <3>1
  <2> HIDE DEF text
  <2> QED
    BY <1>3, <2>1 DEF Last, Text
<1>8. Segments(text) = <<e, m>>
  <2> HIDE DEF text
  <2>1. Segments(text) = Append(Append(<<>>, e), m)
    BY <1>6 DEF Segments, Cut
  <2>2. Append(<<>>, e) = <<e>>
    OBVIOUS
  <2>3. Append(<<e>>, m) = <<e, m>>
    <3>1. Append(<<e>>, m) = [i \in 1..2 |-> IF i = 1 THEN e ELSE m]
      OBVIOUS
    <3>2. <<e, m>> = [i \in 1..2 |-> IF i = 1 THEN e ELSE m]
      OBVIOUS
    <3> QED
      BY <3>1, <3>2
  <2> QED
    BY <2>1, <2>2, <2>3
<1> QED
  BY <1>2, <1>5, <1>7, <1>8 DEF e, m

\* from_str undoes Display for every document that is not called "vfs".
THEOREM DocumentRoundTrip ==
    \A system \in Component, name \in Component \ {<<"vfs">>} :
       Parse(Display(Document(system, name))) = Document(system, name)
<1> SUFFICES ASSUME NEW system \in Component, NEW name \in Component \ {<<"vfs">>}
             PROVE  Parse(Display(Document(system, name))) = Document(system, name)
  OBVIOUS
<1> DEFINE text == Display(Document(system, name))
           e == Encode(system, CHARSET)
           m == Encode(name, CHARSET)
           rest == Tail(<<e, m>>)
           directory == text # <<>> /\ Last(text) = Separator
           parts == IF directory /\ Len(rest) > 1 THEN Front(rest) ELSE rest
           labels == [i \in DOMAIN parts |-> Decode(parts[i])]
<1>1. Segments(text) = <<e, m>> /\ ~directory
  BY DocumentSegments
<1>2. Decodable(e) /\ Decodable(m) /\ Decode(e) = system /\ Decode(m) = name
  BY EncodeMeans
<1>3. Parse(text) =
         IF Len(<<e, m>>) < 2 \/ ~Decodable(<<e, m>>[1]) THEN Invalid
         ELSE IF \E i \in DOMAIN parts : ~Decodable(parts[i]) THEN Invalid
         ELSE IF labels[1] = <<"vfs">> THEN Vfs(Decode(<<e, m>>[1]), Tail(labels))
         ELSE IF Len(labels) = 1 /\ ~directory
         THEN Document(Decode(<<e, m>>[1]), labels[1])
         ELSE Invalid
  BY <1>1 DEF Parse
<1> HIDE DEF text, e, m, directory
<1>4. parts = <<m>>
  BY <1>1
<1>5. labels = <<name>>
  <2> HIDE DEF parts
  <2>1. DOMAIN parts = 1..1 /\ parts[1] = m
    BY <1>4
  <2>2. labels = [i \in 1..1 |-> name]
    BY <1>2, <2>1
  <2> QED
    BY <2>2
<1>6. \A i \in DOMAIN parts : Decodable(parts[i])
  BY <1>2, <1>4
<1> HIDE DEF parts, labels
<1>7. Parse(text) = Document(system, name)
  <2>1. Len(<<e, m>>) = 2 /\ <<e, m>>[1] = e /\ Len(labels) = 1 /\ labels[1] = name
    BY <1>5
  <2> QED
    BY <1>1, <1>2, <1>3, <1>6, <2>1
<1> QED
  BY <1>7 DEF text
==============================================================================
