-------------------------- MODULE MsLoggingProofs --------------------------
(***************************************************************************)
(* Proofs about MsLogging, for any mask of two or more channels and any     *)
(* pages: a download finds the bytes of a session in the memory, its        *)
(* samples come out whole wherever the pages cut it, and wrappedval and the *)
(* array of samples never run over.                                        *)
(*                                                                         *)
(* The decoder is a recursive function, so its proofs go by induction over  *)
(* the bytes.  The induction is over sets of numbers (NatInduct), and that  *)
(* the recursive functions are what their equations say is shown once, for  *)
(* any next-state function (Recursion).                                    *)
(***************************************************************************)
EXTENDS MsLogging, FiniteSetTheorems, SequenceTheorems, WellFoundedInduction, TLAPS

-----------------------------------------------------------------------------
(* Induction and recursion over the natural numbers.                       *)

(* A set of numbers has a least one.                                       *)
LEMMA Least ==
  ASSUME NEW S, S \subseteq Nat, S # {}
  PROVE  \E x \in S : \A y \in S : x =< y
  <1>1. PICK x \in S : \A y \in S : ~ (<< y, x >> \in OpToRel(<, Nat))
    BY WFMin, NatLessThanWellFounded, Zenon
  <1>2. \A y \in S : x =< y
    <2> SUFFICES ASSUME NEW y \in S, y < x PROVE FALSE
      OBVIOUS
    <2>1. << y, x >> \in OpToRel(<, Nat)
      BY Zenon DEF OpToRel
    <2> QED
      BY <1>1, <2>1, Zenon
  <1> QED
    BY <1>2, Zenon

(* Min of the community modules is that one.                               *)
LEMMA MinIsLeast ==
  ASSUME NEW S, S \subseteq Nat, S # {}
  PROVE  Min(S) \in S /\ \A y \in S : Min(S) =< y
  BY Least, Zenon DEF Min

(* A set that has 0 and with every number the next one has them all.       *)
LEMMA NatInduct ==
  ASSUME NEW P, 0 \in P, \A n \in Nat : n \in P => n + 1 \in P
  PROVE  \A n \in Nat : n \in P
  <1> SUFFICES ASSUME Nat \ P # {} PROVE FALSE
    OBVIOUS
  <1>1. PICK x \in Nat \ P : \A y \in Nat \ P : x =< y
    BY Least
  <1>2. x - 1 \in Nat /\ x - 1 \notin Nat \ P
    BY <1>1
  <1> QED
    BY <1>1, <1>2

(* A next-state function F has a run g from b. *)
IsRun(S, b, F, g) ==
  g \in [Nat -> S] /\ g[0] = b /\ \A n \in Nat : g[n + 1] = F[<< g[n], n + 1 >>]

(* There is such a run: the functions that agree with F up to n are extended.  *)
LEMMA Recursion ==
  ASSUME NEW S, NEW b \in S, NEW F \in [S \X Nat -> S]
  PROVE  \E g : IsRun(S, b, F, g)
  <1> DEFINE Run(n, g) == g[0] = b /\ \A m \in Nat : m < n => g[m + 1] = F[<< g[m], m + 1 >>]
             Some(n)   == CHOOSE g \in [Nat -> S] : Run(n, g)
             All       == [n \in Nat |-> Some(n)[n]]
  <1>1. \A n \in Nat : \E g \in [Nat -> S] : Run(n, g)
    <2> DEFINE P == { n \in Nat : \E g \in [Nat -> S] : Run(n, g) }
    <2>1. 0 \in P
      <3>1. [n \in Nat |-> b] \in [Nat -> S] /\ Run(0, [n \in Nat |-> b])
        OBVIOUS
      <3> QED
        BY <3>1
    <2>2. ASSUME NEW n \in Nat, n \in P PROVE n + 1 \in P
      <3>1. PICK g \in [Nat -> S] : Run(n, g)
        BY <2>2
      <3> DEFINE h == [g EXCEPT ![n + 1] = F[<< g[n], n + 1 >>]]
      <3>2. h \in [Nat -> S]
        OBVIOUS
      <3>3. h[0] = b
        BY <3>1
      <3>4. ASSUME NEW m \in Nat, m < n + 1 PROVE h[m + 1] = F[<< h[m], m + 1 >>]
        <4>1. m # n + 1 /\ h[m] = g[m]
          BY <3>4
        <4>2. CASE m = n
          BY <4>1, <4>2
        <4>3. CASE m # n
          <5>1. m < n /\ m + 1 # n + 1
            BY <3>4, <4>3
          <5> QED
            BY <3>1, <4>1, <5>1
        <4> QED
          BY <4>2, <4>3
      <3> HIDE DEF h
      <3> QED
        BY <3>2, <3>3, <3>4
    <2> HIDE DEF P
    <2>3. \A n \in Nat : n \in P
      BY <2>1, <2>2, NatInduct
    <2> QED
      BY <2>3 DEF P
  <1>2. \A n \in Nat : Some(n) \in [Nat -> S] /\ Run(n, Some(n))
    BY <1>1
  <1>3. ASSUME NEW n \in Nat PROVE \A m \in Nat : m =< n => Some(n + 1)[m] = Some(n)[m]
    <2> DEFINE P == { m \in Nat : m =< n => Some(n + 1)[m] = Some(n)[m] }
    <2> HIDE DEF Some
    <2>1. 0 \in P
      BY <1>2
    <2>2. ASSUME NEW m \in Nat, m \in P PROVE m + 1 \in P
      <3>1. CASE m + 1 =< n
        <4>1. Some(n + 1)[m] = Some(n)[m] /\ m < n /\ m < n + 1
          BY <2>2, <3>1
        <4>2. /\ Some(n)[m + 1] = F[<< Some(n)[m], m + 1 >>]
              /\ Some(n + 1)[m + 1] = F[<< Some(n + 1)[m], m + 1 >>]
          BY <1>2, <4>1
        <4> QED
          BY <4>1, <4>2
      <3> QED
        BY <3>1
    <2> HIDE DEF P
    <2>3. \A m \in Nat : m \in P
      BY <2>1, <2>2, NatInduct
    <2> QED
      BY <2>3 DEF P
  <1>4. All \in [Nat -> S] /\ All[0] = b
    BY <1>2
  <1>5. ASSUME NEW n \in Nat PROVE All[n + 1] = F[<< All[n], n + 1 >>]
    <2> HIDE DEF Some
    <2>1. Some(n + 1)[n + 1] = F[<< Some(n + 1)[n], n + 1 >>]
      BY <1>2
    <2>2. Some(n + 1)[n] = Some(n)[n]
      BY <1>3
    <2> QED
      BY <2>1, <2>2
  <1> HIDE DEF All
  <1> QED
    BY <1>4, <1>5 DEF IsRun

(* The same up to a number. *)
LEMMA InductTo ==
  ASSUME NEW L \in Nat, NEW P, 0 \in P, \A i \in 1 .. L : i - 1 \in P => i \in P
  PROVE  \A i \in 0 .. L : i \in P
  <1> DEFINE Q == { i \in Nat : i \in 0 .. L => i \in P }
  <1>1. 0 \in Q
    OBVIOUS
  <1>2. \A i \in Nat : i \in Q => i + 1 \in Q
    <2> SUFFICES ASSUME NEW i \in Nat, i \in Q, i + 1 \in 0 .. L PROVE i + 1 \in P
      OBVIOUS
    <2>1. i \in P /\ i + 1 \in 1 .. L /\ (i + 1) - 1 = i
      OBVIOUS
    <2> QED
      BY <2>1
  <1> HIDE DEF Q
  <1>3. \A i \in Nat : i \in Q
    BY <1>1, <1>2, NatInduct
  <1> QED
    BY <1>3 DEF Q

IsRunTo(L, S, b, F, g) ==
  g \in [0 .. L -> S] /\ g[0] = b /\ \A i \in 1 .. L : g[i] = F[<< g[i - 1], i >>]

(* The recursion up to L is that over all numbers, stopped at L.           *)
LEMMA RecursionTo ==
  ASSUME NEW L \in Nat, NEW S, NEW b \in S, NEW F \in [S \X (1 .. L) -> S]
  PROVE  \E g : IsRunTo(L, S, b, F, g)
  <1> DEFINE G == [x \in S \X Nat |-> IF x[2] \in 1 .. L THEN F[<< x[1], x[2] >>] ELSE x[1]]
  <1>1. G \in [S \X Nat -> S]
    OBVIOUS
  <1>2. \A x \in S, i \in 1 .. L : G[<< x, i >>] = F[<< x, i >>]
    OBVIOUS
  <1> HIDE DEF G
  <1>3. PICK h : IsRun(S, b, G, h)
    BY <1>1, Recursion
  <1> DEFINE g == [i \in 0 .. L |-> h[i]]
  <1>4. g \in [0 .. L -> S] /\ g[0] = b
    BY <1>3 DEF IsRun
  <1>5. ASSUME NEW i \in 1 .. L PROVE g[i] = F[<< g[i - 1], i >>]
    <2>1. i - 1 \in Nat /\ (i - 1) + 1 = i /\ i - 1 \in 0 .. L /\ i \in 0 .. L
      OBVIOUS
    <2>2. h[i] = G[<< h[i - 1], i >>] /\ h[i - 1] \in S
      BY <1>3, <2>1 DEF IsRun
    <2> QED
      BY <1>2, <2>1, <2>2
  <1> HIDE DEF g
  <1> QED
    BY <1>4, <1>5 DEF IsRunTo

-----------------------------------------------------------------------------
(* Channels.                                                               *)

(* A mask has two to eight channels, a first one among them; ranks are numbers.  *)
LEMMA MaskFacts ==
  ASSUME NEW mask \in Masks
  PROVE  /\ mask \subseteq Channels /\ mask \subseteq Nat /\ IsFiniteSet(mask)
         /\ Cardinality(mask) \in 2 .. 8
         /\ Width(mask) \in 4 .. WrapSize
         /\ Min(mask) \in mask /\ \A m \in mask : Min(mask) =< m
         /\ \A S \in SUBSET mask : IsFiniteSet(S) /\ Cardinality(S) \in Nat
         /\ \A c \in mask : Rank(mask, c) \in Nat
  <1>1. mask \subseteq Channels /\ mask \subseteq Nat /\ Cardinality(mask) >= 2
    BY DEF Masks, Channels
  <1>2. mask \in SUBSET Nat /\ \A m \in mask : m =< 7
    BY <1>1 DEF Channels
  <1>3. IsFiniteSet(mask) /\ Cardinality(mask) =< 8 /\ Cardinality(mask) \in Nat
    <2>1. IsFiniteSet(mask) /\ Cardinality(mask) =< 7 + 1
      BY <1>2, FS_BoundedSetOfNaturals
    <2> QED
      BY <2>1, FS_CardinalityType
  <1>4. mask # {}
    BY <1>1, FS_EmptySet
  <1>5. Min(mask) \in mask /\ \A m \in mask : Min(mask) =< m
    BY <1>1, <1>4, MinIsLeast, Zenon
  <1>6. \A S \in SUBSET mask : IsFiniteSet(S) /\ Cardinality(S) \in Nat
    BY <1>3, FS_Subset, FS_CardinalityType
  <1>7. \A c \in mask : { m \in mask : m < c } \in SUBSET mask
    OBVIOUS
  <1> QED
    BY <1>1, <1>3, <1>5, <1>6, <1>7 DEF Width, WrapSize, Rank

(* The search for the next channel finds the one above, or the first one.   *)
LEMMA NextChannelIs ==
  ASSUME NEW mask \in Masks, NEW c \in mask
  PROVE  /\ NextChannel(mask, c) \in mask
         /\ NextChannel(mask, c) > c =>
              \A m \in mask : m < NextChannel(mask, c) <=> m =< c
         /\ NextChannel(mask, c) =< c =>
              NextChannel(mask, c) = Min(mask) /\ \A m \in mask : m =< c
  <1> DEFINE found == { n \in c + 1 .. c + 7 : n % 8 \in mask }
             next  == NextChannel(mask, c)
  <1>1. mask \subseteq 0 .. 7 /\ mask \subseteq Nat /\ c \in 0 .. 7
    BY MaskFacts DEF Channels
  <1>2. PICK e \in mask : e # c
    <2>1. Cardinality({ c }) = 1
      BY FS_Singleton
    <2>2. Cardinality(mask) # 1
      BY MaskFacts
    <2> QED
      BY <2>1, <2>2
  <1>3. \A m \in 0 .. 7 : m % 8 = m /\ (m + 8) % 8 = m
    OBVIOUS
  <1>4. \A n \in c + 1 .. c + 7 : n % 8 = IF n < 8 THEN n ELSE n - 8
    BY <1>1
  <1>5. /\ \A m \in mask : m > c => m \in found
        /\ \A m \in mask : m < c => m + 8 \in found
    BY <1>1, <1>3
  <1> HIDE DEF found, next
  <1>6. found # {} /\ found \subseteq Nat
    <2>1. found \subseteq Nat
      BY <1>1 DEF found
    <2>2. e > c \/ e < c
      BY <1>1, <1>2
    <2> QED
      BY <1>2, <1>5, <2>1, <2>2
  <1>7. Min(found) \in found /\ \A n \in found : Min(found) =< n
    BY <1>6, MinIsLeast, Zenon
  <1>8. next = Min(found) % 8
    BY <1>6 DEF NextChannel, found, next
  <1>9. Min(found) \in c + 1 .. c + 7 /\ next \in mask
    BY <1>7, <1>8 DEF found
  <1>10. CASE Min(found) < 8
    <2>1. next = Min(found)
      BY <1>4, <1>8, <1>9, <1>10
    <2>2. \A m \in mask : m < next <=> m =< c
      BY <1>1, <1>5, <1>7, <1>9, <2>1
    <2> QED
      BY <1>1, <1>9, <2>1, <2>2 DEF next
  <1>11. CASE Min(found) >= 8
    <2>1. next = Min(found) - 8
      BY <1>1, <1>4, <1>8, <1>9, <1>11
    <2>2. \A m \in mask : m =< c
      <3> SUFFICES ASSUME NEW m \in mask, m > c PROVE FALSE
        BY <1>1
      <3>1. m < 8 /\ m \in found
        BY <1>1, <1>5
      <3> QED
        BY <1>1, <1>7, <1>9, <1>11, <3>1
    <2>3. \A m \in mask : next =< m
      <3> SUFFICES ASSUME NEW m \in mask PROVE next =< m
        OBVIOUS
      <3>1. CASE m < c
        <4>1. Min(found) =< m + 8
          BY <1>5, <1>7, <3>1
        <4> QED
          BY <1>1, <1>9, <2>1, <4>1
      <3>2. CASE m = c
        BY <1>1, <1>9, <2>1, <3>2
      <3> QED
        BY <1>1, <2>2, <3>1, <3>2
    <2>4. next = Min(mask)
      BY <1>1, <1>9, <2>3, MaskFacts
    <2> QED
      BY <1>1, <1>9, <2>1, <2>2, <2>4 DEF next
  <1> QED
    BY <1>1, <1>9, <1>10, <1>11

(* Ranks count the channels of a sample. *)
LEMMA Ranks ==
  ASSUME NEW mask \in Masks, NEW c \in mask
  PROVE  /\ Rank(mask, Min(mask)) = 0
         /\ Rank(mask, c) < Cardinality(mask)
         /\ \A e \in mask : e < c => Rank(mask, e) < Rank(mask, c)
         /\ NextChannel(mask, c) > c => Rank(mask, NextChannel(mask, c)) = Rank(mask, c) + 1
         /\ NextChannel(mask, c) =< c => Rank(mask, c) + 1 = Cardinality(mask)
  <1> DEFINE Below(e) == { m \in mask : m < e }
             Upto(e)  == { m \in mask : m =< e }
  <1>0. mask \subseteq Nat
    BY MaskFacts
  <1>1. \A S \in SUBSET mask : IsFiniteSet(S) /\ Cardinality(S) \in Nat
    BY MaskFacts
  <1>2. Rank(mask, Min(mask)) = 0
    <2>1. Min(mask) \in mask /\ \A m \in mask : Min(mask) =< m
      BY MaskFacts
    <2>2. PICK k \in mask : k = Min(mask) /\ \A m \in mask : k =< m
      BY <2>1
    <2>3. \A m \in mask : ~ (m < k)
      BY <1>0, <2>2
    <2>4. Below(k) = {}
      BY <2>3
    <2> QED
      BY <2>2, <2>4, FS_EmptySet DEF Rank
  <1>3. \A e \in mask : Cardinality(Upto(e)) = Rank(mask, e) + 1
    <2> SUFFICES ASSUME NEW e \in mask PROVE Cardinality(Upto(e)) = Rank(mask, e) + 1
      OBVIOUS
    <2>0. \A m \in mask : (m =< e <=> m < e \/ m = e) /\ ~ (e < e)
      BY <1>0
    <2>1. Upto(e) = Below(e) \cup { e } /\ e \notin Below(e)
      BY <2>0
    <2>2. Below(e) \in SUBSET mask
      OBVIOUS
    <2>3. IsFiniteSet(Below(e))
      BY <1>1, <2>2
    <2> QED
      BY <2>1, <2>3, FS_AddElement DEF Rank
  <1>4. \A e \in mask : Cardinality(Upto(e)) =< Cardinality(mask)
    <2>1. \A e \in mask : Upto(e) \in SUBSET mask
      OBVIOUS
    <2> QED
      BY <2>1, MaskFacts, FS_Subset
  <1>5. \A e, f \in mask : e < f => Rank(mask, e) < Rank(mask, f)
    <2> SUFFICES ASSUME NEW e \in mask, NEW f \in mask, e < f
                 PROVE  Rank(mask, e) < Rank(mask, f)
      OBVIOUS
    <2>0. \A m \in mask : m =< e => m < f
      BY <1>0
    <2>1. Upto(e) \in SUBSET Below(f) /\ Below(f) \in SUBSET mask
      BY <2>0
    <2>3. IsFiniteSet(Below(f))
      BY <1>1, <2>1
    <2>2. Cardinality(Upto(e)) =< Cardinality(Below(f))
      BY <2>1, <2>3, FS_Subset
    <2> QED
      BY <1>1, <1>3, <2>1, <2>2, MaskFacts DEF Rank
  <1>6. Rank(mask, c) < Cardinality(mask)
    <2>1. Rank(mask, c) \in Nat /\ Cardinality(mask) \in Nat
      BY MaskFacts
    <2>2. Rank(mask, c) + 1 =< Cardinality(mask)
      BY <1>3, <1>4, Zenon
    <2> QED
      BY <2>1, <2>2
  <1>7. \A e \in mask : e < c => Rank(mask, e) < Rank(mask, c)
    BY <1>5
  <1>8. ASSUME NextChannel(mask, c) > c
        PROVE  Rank(mask, NextChannel(mask, c)) = Rank(mask, c) + 1
    <2>1. Below(NextChannel(mask, c)) = Upto(c)
      BY <1>8, NextChannelIs
    <2> QED
      BY <1>3, <2>1 DEF Rank
  <1>9. ASSUME NextChannel(mask, c) =< c
        PROVE  Rank(mask, c) + 1 = Cardinality(mask)
    <2>1. Upto(c) = mask
      BY <1>9, NextChannelIs
    <2> QED
      BY <1>3, <2>1
  <1> QED
    BY <1>2, <1>6, <1>7, <1>8, <1>9

-----------------------------------------------------------------------------
(* One byte.                                                               *)

SampleValues   == [Channels -> Nat]
Decoders(mask) == [channel : mask, msb : Byte \cup { NoByte },
                   sample : SampleValues, samples : Seq(SampleValues)]

(* The decoder has read the bytes up to number n, of which the first ones   *)
(* belong to samples that came out before its own.                         *)
HasDecoded(mask, bytes, n, before, d) ==
  LET done == before + Len(d.samples)
  IN  /\ n = Offset(mask, done) + 2 * Rank(mask, d.channel) + IF d.msb = NoByte THEN 0 ELSE 1
      /\ d.msb # NoByte => d.msb = bytes[n]
      /\ d.sample = Partial(mask, bytes, done, { c \in mask : c < d.channel })
      /\ \A j \in 1 .. Len(d.samples) : d.samples[j] = SampleOf(mask, bytes, before + j)

(* A sample begins where the one before it ends.                           *)
LEMMA Offsets ==
  ASSUME NEW mask \in Masks, NEW q \in Nat
  PROVE  /\ Offset(mask, q) \in Nat
         /\ Offset(mask, 0) = 0
         /\ Offset(mask, q + 1) = Offset(mask, q) + Width(mask)
  <1>1. Width(mask) \in Nat
    BY MaskFacts DEF WrapSize
  <1> QED
    BY <1>1 DEF Offset

(* Sample q + 1 is the one behind q samples, with all its channels.        *)
LEMMA SampleIs ==
  ASSUME NEW mask, NEW bytes, NEW q \in Nat
  PROVE  SampleOf(mask, bytes, q + 1) = Partial(mask, bytes, q, mask)
  <1>1. (q + 1) - 1 = q
    OBVIOUS
  <1> QED
    BY <1>1 DEF SampleOf

(* A new decoder is at the first byte of a sample.                         *)
LEMMA NewDecoder ==
  ASSUME NEW mask \in Masks, NEW bytes, NEW before \in Nat
  PROVE  /\ Decoder(mask) \in Decoders(mask)
         /\ HasDecoded(mask, bytes, Offset(mask, before), before, Decoder(mask))
  <1>1. Decoder(mask) \in Decoders(mask)
    BY MaskFacts DEF Decoder, Decoders, SampleValues, NoValues
  <1>2. { c \in mask : c < Min(mask) } = {}
    <2>1. PICK k \in mask : k = Min(mask) /\ \A m \in mask : k =< m
      BY MaskFacts
    <2>2. mask \subseteq Nat
      BY MaskFacts
    <2>3. \A m \in mask : ~ (m < k)
      BY <2>1, <2>2
    <2> QED
      BY <2>1, <2>3
  <1>3. Partial(mask, bytes, before, {}) = NoValues
    BY DEF Partial, NoValues
  <1>4. Offset(mask, before) \in Nat /\ Rank(mask, Min(mask)) = 0 /\ Min(mask) \in mask
    BY Offsets, Ranks, MaskFacts
  <1> DEFINE d == Decoder(mask)
  <1>5. /\ d.channel = Min(mask) /\ d.msb = NoByte /\ d.sample = NoValues
        /\ Len(d.samples) = 0
    BY DEF Decoder
  <1> HIDE DEF d
  <1>6. before + Len(d.samples) = before
    BY <1>5
  <1>7. Offset(mask, before) = Offset(mask, before) + 2 * Rank(mask, d.channel) + 0
    BY <1>4, <1>5
  <1>8. HasDecoded(mask, bytes, Offset(mask, before), before, d)
    <2>1. \A j \in 1 .. Len(d.samples) : FALSE
      BY <1>5
    <2>2. d.sample = Partial(mask, bytes, before, { c \in mask : c < d.channel })
      BY <1>2, <1>3, <1>5, Zenon
    <2> QED
      BY <1>5, <1>6, <1>7, <2>1, <2>2 DEF HasDecoded
  <1> QED
    BY <1>1, <1>8 DEF d

(* Decode keeps the decoder's type.                                        *)
LEMMA DecodeType ==
  ASSUME NEW mask \in Masks, NEW d \in Decoders(mask), NEW byte \in Byte
  PROVE  Decode(mask, d, byte) \in Decoders(mask)
  <1> DEFINE next == NextChannel(mask, d.channel)
             read == [d.sample EXCEPT ![d.channel] = 256 * d.msb + byte]
  <1>1. /\ d.channel \in mask /\ d.msb \in Byte \cup { NoByte } /\ d.sample \in SampleValues
        /\ d.samples \in Seq(SampleValues)
        /\ d = [channel |-> d.channel, msb |-> d.msb, sample |-> d.sample, samples |-> d.samples]
    BY DEF Decoders
  <1>2. CASE d.msb = NoByte
    <2>1. Decode(mask, d, byte) =
            [channel |-> d.channel, msb |-> byte, sample |-> d.sample, samples |-> d.samples]
      BY <1>1, <1>2 DEF Decode
    <2> QED
      BY <1>1, <2>1 DEF Decoders
  <1>3. CASE d.msb # NoByte
    <2>1. 256 * d.msb + byte \in Nat
      <3>1. d.msb \in Byte
        BY <1>1, <1>3
      <3>2. d.msb \in Nat /\ byte \in Nat
        BY <3>1 DEF Byte
      <3> QED
        BY <3>2
    <2>2. read \in SampleValues /\ NoValues \in SampleValues
      BY <1>1, <2>1 DEF SampleValues, NoValues
    <2>3. next \in mask /\ Append(d.samples, read) \in Seq(SampleValues)
      BY <1>1, <2>2, NextChannelIs, AppendProperties
    <2>4. Decode(mask, d, byte) =
            [channel |-> next, msb |-> NoByte,
             sample  |-> IF next =< d.channel THEN NoValues ELSE read,
             samples |-> IF next =< d.channel THEN Append(d.samples, read) ELSE d.samples]
      BY <1>1, <1>3 DEF Decode
    <2> HIDE DEF next, read
    <2> QED
      BY <1>1, <2>2, <2>3, <2>4 DEF Decoders
  <1> QED
    BY <1>2, <1>3

(* The first byte of a value is kept, the second one completes it; with the *)
(* last value of a sample the sample is complete and the next one begins.   *)
LEMMA DecodeByte ==
  ASSUME NEW mask \in Masks, NEW bytes, NEW n \in Nat, NEW before \in Nat,
         NEW d \in Decoders(mask), bytes[n + 1] \in Byte, HasDecoded(mask, bytes, n, before, d)
  PROVE  LET e == Decode(mask, d, bytes[n + 1])
         IN  /\ e \in Decoders(mask)
             /\ HasDecoded(mask, bytes, n + 1, before, e)
             /\ \/ e.samples = d.samples
                \/ Len(e.samples) = Len(d.samples) + 1
                   /\ n + 1 = Offset(mask, before + Len(e.samples))
  <1> DEFINE byte == bytes[n + 1]
             e    == Decode(mask, d, byte)
             q    == before + Len(d.samples)
             r    == Rank(mask, d.channel)
             next == NextChannel(mask, d.channel)
             read == [d.sample EXCEPT ![d.channel] = 256 * d.msb + byte]
  <1>1. /\ d.channel \in mask /\ d.msb \in Byte \cup { NoByte } /\ d.sample \in SampleValues
        /\ d.samples \in Seq(SampleValues) /\ Len(d.samples) \in Nat
        /\ d = [channel |-> d.channel, msb |-> d.msb, sample |-> d.sample, samples |-> d.samples]
    BY DEF Decoders
  <1>2. q \in Nat /\ r \in Nat /\ Offset(mask, q) \in Nat
    <2>1. q \in Nat
      BY <1>1
    <2> QED
      BY <1>1, <2>1, MaskFacts, Offsets
  <1>3. byte \in Nat /\ byte # NoByte
    BY DEF Byte, NoByte
  <1>6. Decode(mask, d, bytes[n + 1]) \in Decoders(mask)
    BY DecodeType
  <1>4. CASE d.msb = NoByte
    <2>1. e = [channel |-> d.channel, msb |-> byte, sample |-> d.sample, samples |-> d.samples]
      BY <1>1, <1>4 DEF Decode
    <2>3. n = Offset(mask, q) + 2 * r + 0
      BY <1>4 DEF HasDecoded
    <2> HIDE DEF q, r, e, byte
    <2>4. n + 1 = Offset(mask, q) + 2 * r + 1
      BY <1>2, <2>3
    <2>5. HasDecoded(mask, bytes, n + 1, before, e)
      <3>1. e.msb = bytes[n + 1] /\ e.msb # NoByte
        BY <1>3, <2>1 DEF byte
      <3>2. before + Len(e.samples) = q /\ Rank(mask, e.channel) = r
        BY <2>1 DEF q, r
      <3> QED
        BY <2>1, <2>4, <3>1, <3>2 DEF HasDecoded, q
    <2> QED
      BY <1>6, <2>1, <2>5 DEF e, byte
  <1>5. CASE d.msb # NoByte
    <2>0. n = Offset(mask, q) + 2 * r + 1 /\ d.msb = bytes[n]
      BY <1>5 DEF HasDecoded
    <2> HIDE DEF q, r, byte
    <2>1. n = Offset(mask, q) + 2 * r + 1 /\ d.msb = bytes[n] /\ d.msb \in Nat
      <3>1. d.msb \in Byte
        BY <1>1, <1>5
      <3> QED
        <4>1. d.msb \in Nat
          BY <3>1 DEF Byte
        <4> QED
          BY <2>0, <4>1
    <2>2. Value(bytes, Offset(mask, q) + 2 * r) = 256 * d.msb + byte
      BY <1>2, <2>1 DEF Value, byte
    <2>3. d.sample = Partial(mask, bytes, q, { c \in mask : c < d.channel })
      BY DEF HasDecoded, q
    <2>4. read = Partial(mask, bytes, q, { c \in mask : c =< d.channel })
      <3>1. mask \subseteq Channels /\ mask \subseteq Nat
        BY MaskFacts
      <3>2. \A c \in mask : c =< d.channel <=> c < d.channel \/ c = d.channel
        BY <1>1, <3>1
      <3> HIDE DEF Partial
      <3>3. ASSUME NEW c \in Channels
            PROVE  read[c] = Partial(mask, bytes, q, { m \in mask : m =< d.channel })[c]
        BY <1>1, <2>2, <2>3, <3>2 DEF Partial, r, SampleValues
      <3> QED
        BY <1>1, <3>3 DEF Partial, SampleValues
    <2>5. read \in SampleValues
      <3>1. 256 * d.msb + byte \in Nat
        BY <1>3, <2>1
      <3> QED
        BY <1>1, <3>1 DEF SampleValues
    <2>6. next \in mask /\ mask \subseteq Nat
      BY <1>1, NextChannelIs, MaskFacts
    <2>7. CASE next > d.channel
      <3>1. e = [channel |-> next, msb |-> NoByte, sample |-> read, samples |-> d.samples]
        BY <1>1, <1>5, <2>6, <2>7 DEF Decode
      <3>3. Rank(mask, next) = r + 1
        BY <1>1, <2>7, Ranks DEF r
      <3>4. { c \in mask : c < next } = { c \in mask : c =< d.channel }
        BY <1>1, <2>7, NextChannelIs
      <3>5. n + 1 = Offset(mask, q) + 2 * Rank(mask, next) + 0
        BY <1>2, <2>1, <3>3
      <3> HIDE DEF e, next, read
      <3>6. HasDecoded(mask, bytes, n + 1, before, e)
        BY <2>4, <3>1, <3>4, <3>5 DEF HasDecoded, q
      <3> QED
        BY <1>6, <3>1, <3>6 DEF e, byte
    <2>8. CASE next =< d.channel
      <3>1. e = [channel |-> next, msb |-> NoByte, sample |-> NoValues,
                 samples |-> Append(d.samples, read)]
        BY <1>1, <1>5, <2>8 DEF Decode
      <3>2. /\ Append(d.samples, read) \in Seq(SampleValues)
            /\ Len(Append(d.samples, read)) = Len(d.samples) + 1
            /\ \A j \in 1 .. Len(d.samples) : Append(d.samples, read)[j] = d.samples[j]
            /\ Append(d.samples, read)[Len(d.samples) + 1] = read
        BY <1>1, <2>5, AppendProperties
      <3>4. r + 1 = Cardinality(mask) /\ next = Min(mask) /\ { c \in mask : c =< d.channel } = mask
        BY <1>1, <2>8, Ranks, NextChannelIs DEF r
      <3>5. n + 1 = Offset(mask, q + 1)
        BY <1>2, <2>1, <3>4, Offsets DEF Width
      <3>6. HasDecoded(mask, bytes, Offset(mask, q + 1), q + 1, Decoder(mask))
        BY <1>2, NewDecoder
      <3>7. /\ Rank(mask, next) = 0
            /\ NoValues = Partial(mask, bytes, q + 1, { c \in mask : c < next })
        BY <1>1, <1>2, <3>4, <3>6, Ranks, EmptySeq DEF HasDecoded, Decoder
      <3>8. read = SampleOf(mask, bytes, q + 1)
        <4>1. SampleOf(mask, bytes, q + 1) = Partial(mask, bytes, q, mask)
          BY <1>2, SampleIs
        <4>2. { c \in mask : c =< d.channel } = mask
          BY <3>4
        <4> QED
          BY <2>4, <4>1, <4>2, Zenon
      <3>9. before + Len(e.samples) = q + 1
        BY <1>1, <3>1, <3>2 DEF q
      <3> HIDE DEF e, next, read
      <3>10. \A j \in 1 .. Len(e.samples) : e.samples[j] = SampleOf(mask, bytes, before + j)
        BY <1>1, <3>1, <3>2, <3>8 DEF HasDecoded, q
      <3>11. HasDecoded(mask, bytes, n + 1, before, e)
        <4>1. n + 1 = Offset(mask, q + 1) + 2 * Rank(mask, next) + 0
          BY <1>2, <3>5, <3>7, Offsets
        <4> QED
          BY <3>1, <3>7, <3>9, <3>10, <4>1 DEF HasDecoded
      <3> QED
        BY <1>6, <3>1, <3>2, <3>5, <3>9, <3>11 DEF e, byte
    <2> QED
      BY <1>1, <2>6, <2>7, <2>8
  <1> QED
    BY <1>4, <1>5

-----------------------------------------------------------------------------
(* The bytes of a page.                                                    *)

(* Replay is what its recursion says. *)
LEMMA ReplayIsRun ==
  ASSUME NEW mask \in Masks, NEW bytes \in Seq(Byte)
  PROVE  \E d : /\ d[0] = Decoder(mask)
                /\ \A i \in 1 .. Len(bytes) : d[i] = Decode(mask, d[i - 1], bytes[i])
                /\ Replay(mask, bytes) = d[Len(bytes)]
  <1> DEFINE L == Len(bytes)
             S == Decoders(mask)
             F == [x \in S \X (1 .. L) |-> Decode(mask, x[1], bytes[x[2]])]
             d[i \in 0 .. L] == IF i = 0 THEN Decoder(mask) ELSE Decode(mask, d[i - 1], bytes[i])
  <1>1. L \in Nat /\ \A i \in 1 .. L : bytes[i] \in Byte
    BY LenProperties, ElementOfSeq
  <1>2. F \in [S \X (1 .. L) -> S]
    BY <1>1, DecodeType
  <1>3. Decoder(mask) \in S
    <2>1. 0 \in Nat
      OBVIOUS
    <2> QED
      BY <2>1, NewDecoder
  <1>4. \A x \in S, i \in 1 .. L : F[<< x, i >>] = Decode(mask, x, bytes[i])
    OBVIOUS
  <1>5. Replay(mask, bytes) = d[L]
    BY Zenon DEF Replay
  <1> HIDE DEF S, F, L
  <1>6. PICK g : IsRunTo(L, S, Decoder(mask), F, g)
    BY <1>1, <1>2, <1>3, RecursionTo
  <1>7. g = [i \in 0 .. L |-> IF i = 0 THEN Decoder(mask) ELSE Decode(mask, g[i - 1], bytes[i])]
    <2>1. g \in [0 .. L -> S] /\ g[0] = Decoder(mask)
      BY <1>6 DEF IsRunTo
    <2>2. ASSUME NEW i \in 0 .. L, i # 0 PROVE g[i] = Decode(mask, g[i - 1], bytes[i])
      <3>1. i \in 1 .. L /\ i - 1 \in 0 .. L
        BY <1>1, <2>2
      <3>2. g[i] = F[<< g[i - 1], i >>]
        BY <1>6, <3>1 DEF IsRunTo
      <3> QED
        BY <1>4, <2>1, <3>1, <3>2
    <2> QED
      BY <2>1, <2>2
  <1>8. d = [i \in 0 .. L |-> IF i = 0 THEN Decoder(mask) ELSE Decode(mask, d[i - 1], bytes[i])]
    BY <1>7, Zenon
  <1> HIDE DEF d
  <1>9. d[0] = Decoder(mask) /\ \A i \in 1 .. L : d[i] = Decode(mask, d[i - 1], bytes[i])
    BY <1>1, <1>8
  <1> QED
    BY <1>5, <1>9 DEF L

(* What is decoded again is decoded from its first byte on. *)
LEMMA ReplayDecodes ==
  ASSUME NEW mask \in Masks, NEW bytes \in Seq(Byte)
  PROVE  /\ Replay(mask, bytes) \in Decoders(mask)
         /\ HasDecoded(mask, bytes, Len(bytes), 0, Replay(mask, bytes))
  <1> DEFINE L == Len(bytes)
  <1>1. PICK d : /\ d[0] = Decoder(mask)
                 /\ \A i \in 1 .. L : d[i] = Decode(mask, d[i - 1], bytes[i])
                 /\ Replay(mask, bytes) = d[L]
    BY ReplayIsRun
  <1>2. L \in Nat /\ \A i \in 1 .. L : bytes[i] \in Byte
    BY LenProperties, ElementOfSeq
  <1>3. 0 \in Nat
    OBVIOUS
  <1> DEFINE P == { i \in 0 .. L : d[i] \in Decoders(mask) /\ HasDecoded(mask, bytes, i, 0, d[i]) }
  <1>4. 0 \in P
    <2>1. Offset(mask, 0) = 0
      BY <1>3, Offsets
    <2> QED
      BY <1>1, <1>2, <1>3, <2>1, NewDecoder
  <1> HIDE DEF L
  <1>5. ASSUME NEW i \in 1 .. L, i - 1 \in P PROVE i \in P
    <2>1. i - 1 \in Nat /\ (i - 1) + 1 = i /\ i \in 0 .. L
      BY <1>2
    <2>2. bytes[(i - 1) + 1] \in Byte
      BY <1>2, <2>1
    <2>3. LET e == Decode(mask, d[i - 1], bytes[(i - 1) + 1])
          IN  e \in Decoders(mask) /\ HasDecoded(mask, bytes, (i - 1) + 1, 0, e)
      BY <1>3, <1>5, <2>1, <2>2, DecodeByte
    <2> QED
      BY <1>1, <2>1, <2>3
  <1> HIDE DEF P
  <1>6. \A i \in 0 .. L : i \in P
    BY <1>2, <1>4, <1>5, InductTo
  <1>7. L \in 0 .. L
    BY <1>2
  <1> QED
    BY <1>1, <1>6, <1>7 DEF P, L

(* Behind the last complete sample, the bytes are kept. *)
Readers(mask) == [decoder : Decoders(mask), wrapped : Seq(Byte)]

HasRead(mask, bytes, n, before, w) ==
  LET complete == Offset(mask, before + Len(w.decoder.samples))
  IN  /\ HasDecoded(mask, bytes, n, before, w.decoder)
      /\ n = complete + Len(w.wrapped)
      /\ \A i \in 1 .. Len(w.wrapped) : w.wrapped[i] = bytes[complete + i]

(* So does DecodeAndKeep.                                                  *)
LEMMA KeepType ==
  ASSUME NEW mask \in Masks, NEW w \in Readers(mask), NEW byte \in Byte
  PROVE  DecodeAndKeep(mask, w, byte) \in Readers(mask)
  <1>1. w.decoder \in Decoders(mask) /\ w.wrapped \in Seq(Byte)
    BY DEF Readers
  <1>2. Decode(mask, w.decoder, byte) \in Decoders(mask)
    BY <1>1, DecodeType
  <1>3. << >> \in Seq(Byte) /\ Append(w.wrapped, byte) \in Seq(Byte)
    BY <1>1, EmptySeq, AppendProperties
  <1> QED
    BY <1>2, <1>3 DEF DecodeAndKeep, Readers

(* A byte that completes no sample is kept, one that does empties the kept bytes.  *)
LEMMA KeepByte ==
  ASSUME NEW mask \in Masks, NEW bytes, NEW n \in Nat, NEW before \in Nat,
         NEW w \in Readers(mask), bytes[n + 1] \in Byte, HasRead(mask, bytes, n, before, w)
  PROVE  HasRead(mask, bytes, n + 1, before, DecodeAndKeep(mask, w, bytes[n + 1]))
  <1> DEFINE byte == bytes[n + 1]
             d    == w.decoder
             e    == Decode(mask, d, byte)
             v    == DecodeAndKeep(mask, w, byte)
  <1>1. d \in Decoders(mask) /\ w.wrapped \in Seq(Byte) /\ HasDecoded(mask, bytes, n, before, d)
    BY DEF Readers, HasRead
  <1>2. /\ e \in Decoders(mask)
        /\ HasDecoded(mask, bytes, n + 1, before, e)
        /\ \/ e.samples = d.samples
           \/ Len(e.samples) = Len(d.samples) + 1
              /\ n + 1 = Offset(mask, before + Len(e.samples))
    BY <1>1, DecodeByte
  <1>3. Len(d.samples) \in Nat /\ Len(e.samples) \in Nat
    BY <1>1, <1>2, LenProperties DEF Decoders
  <1>4. v = [decoder |-> e, wrapped |-> IF Len(e.samples) > Len(d.samples) THEN << >>
                                                                           ELSE Append(w.wrapped, byte)]
    BY DEF DecodeAndKeep
  <1>5. Offset(mask, before + Len(d.samples)) \in Nat /\ Len(w.wrapped) \in Nat
    <2>1. before + Len(d.samples) \in Nat
      BY <1>3
    <2> QED
      BY <1>1, <2>1, Offsets, LenProperties
  <1> HIDE DEF e, v
  <1>6. CASE e.samples = d.samples
    <2>1. v.decoder = e /\ v.wrapped = Append(w.wrapped, byte)
      BY <1>3, <1>4, <1>6
    <2>2. /\ Len(v.wrapped) = Len(w.wrapped) + 1
          /\ \A i \in 1 .. Len(w.wrapped) : v.wrapped[i] = w.wrapped[i]
          /\ v.wrapped[Len(w.wrapped) + 1] = byte
      BY <1>1, <2>1, AppendProperties
    <2> DEFINE complete == Offset(mask, before + Len(d.samples))
    <2>3. /\ n = complete + Len(w.wrapped)
          /\ \A i \in 1 .. Len(w.wrapped) : w.wrapped[i] = bytes[complete + i]
      BY DEF HasRead
    <2>4. Offset(mask, before + Len(v.decoder.samples)) = complete
      BY <1>6, <2>1
    <2> HIDE DEF complete, d, byte
    <2>5. n + 1 = complete + Len(v.wrapped)
      BY <1>5, <2>2, <2>3 DEF complete
    <2>6. \A i \in 1 .. Len(v.wrapped) : v.wrapped[i] = bytes[complete + i]
      <3> SUFFICES ASSUME NEW i \in 1 .. Len(v.wrapped) PROVE v.wrapped[i] = bytes[complete + i]
        OBVIOUS
      <3>1. CASE i = Len(w.wrapped) + 1
        <4>1. complete + i = n + 1
          BY <1>5, <2>3, <3>1 DEF complete
        <4> QED
          BY <2>2, <3>1, <4>1 DEF byte
      <3>2. CASE i # Len(w.wrapped) + 1
        <4>1. i \in 1 .. Len(w.wrapped)
          BY <1>5, <2>2, <3>2
        <4> QED
          BY <2>2, <2>3, <4>1
      <3> QED
        BY <3>1, <3>2
    <2>7. HasRead(mask, bytes, n + 1, before, v)
      BY <1>2, <2>1, <2>4, <2>5, <2>6 DEF HasRead
    <2> QED
      BY <2>7 DEF v, byte
  <1>7. CASE Len(e.samples) = Len(d.samples) + 1 /\ n + 1 = Offset(mask, before + Len(e.samples))
    <2>1. v.decoder = e /\ v.wrapped = << >>
      BY <1>3, <1>4, <1>7
    <2>2. Len(v.wrapped) = 0
      BY <2>1
    <2>3. \A i \in 1 .. Len(v.wrapped) : FALSE
      BY <2>2
    <2>4. n + 1 = Offset(mask, before + Len(v.decoder.samples)) + Len(v.wrapped)
      BY <1>7, <2>1, <2>2
    <2>5. HasRead(mask, bytes, n + 1, before, v)
      BY <1>2, <2>1, <2>3, <2>4 DEF HasRead
    <2> QED
      BY <2>5 DEF v
  <1> QED
    BY <1>2, <1>6, <1>7

(* ReadPage is what its recursion says. *)
LEMMA ReadPageIsRun ==
  ASSUME NEW mask \in Masks, NEW wrapped \in Seq(Byte), NEW bytes \in Seq(Byte)
  PROVE  \E w : /\ w[0] = [decoder |-> Replay(mask, wrapped), wrapped |-> wrapped]
                /\ \A i \in 1 .. Len(bytes) : w[i] = DecodeAndKeep(mask, w[i - 1], bytes[i])
                /\ ReadPage(mask, wrapped, bytes) = w[Len(bytes)]
  <1> DEFINE L == Len(bytes)
             S == Readers(mask)
             b == [decoder |-> Replay(mask, wrapped), wrapped |-> wrapped]
             F == [x \in S \X (1 .. L) |-> DecodeAndKeep(mask, x[1], bytes[x[2]])]
             w[i \in 0 .. L] == IF i = 0 THEN b ELSE DecodeAndKeep(mask, w[i - 1], bytes[i])
  <1>1. L \in Nat /\ \A i \in 1 .. L : bytes[i] \in Byte
    BY LenProperties, ElementOfSeq
  <1>2. F \in [S \X (1 .. L) -> S]
    BY <1>1, KeepType
  <1>3. b \in S
    BY ReplayDecodes DEF Readers
  <1>4. \A x \in S, i \in 1 .. L : F[<< x, i >>] = DecodeAndKeep(mask, x, bytes[i])
    OBVIOUS
  <1>5. ReadPage(mask, wrapped, bytes) = w[L]
    BY Zenon DEF ReadPage
  <1> HIDE DEF S, F, L, b
  <1>6. PICK g : IsRunTo(L, S, b, F, g)
    BY <1>1, <1>2, <1>3, RecursionTo
  <1>7. g = [i \in 0 .. L |-> IF i = 0 THEN b ELSE DecodeAndKeep(mask, g[i - 1], bytes[i])]
    <2>1. g \in [0 .. L -> S] /\ g[0] = b
      BY <1>6 DEF IsRunTo
    <2>2. ASSUME NEW i \in 0 .. L, i # 0 PROVE g[i] = DecodeAndKeep(mask, g[i - 1], bytes[i])
      <3>1. i \in 1 .. L /\ i - 1 \in 0 .. L
        BY <1>1, <2>2
      <3>2. g[i] = F[<< g[i - 1], i >>]
        BY <1>6, <3>1 DEF IsRunTo
      <3> QED
        BY <1>4, <2>1, <3>1, <3>2
    <2> QED
      BY <2>1, <2>2
  <1>8. w = [i \in 0 .. L |-> IF i = 0 THEN b ELSE DecodeAndKeep(mask, w[i - 1], bytes[i])]
    BY <1>7, Zenon
  <1> HIDE DEF w
  <1>9. w[0] = b /\ \A i \in 1 .. L : w[i] = DecodeAndKeep(mask, w[i - 1], bytes[i])
    BY <1>1, <1>8
  <1> QED
    BY <1>5, <1>9 DEF L, b

(* The bytes that were kept are fewer than a sample has, and decoding them   *)
(* again gives the decoder that kept them: no sample comes out twice.       *)
LEMMA ReplayOfKept ==
  ASSUME NEW mask \in Masks, NEW bytes, NEW before \in Nat, NEW wrapped \in Seq(Byte),
         Len(wrapped) < Width(mask),
         \A i \in 1 .. Len(wrapped) : wrapped[i] = bytes[Offset(mask, before) + i]
  PROVE  /\ Replay(mask, wrapped).samples = << >>
         /\ HasDecoded(mask, bytes, Offset(mask, before) + Len(wrapped), before,
                       Replay(mask, wrapped))
  <1> DEFINE r == Replay(mask, wrapped)
             L == Len(wrapped)
             o == Offset(mask, before)
             k == Rank(mask, r.channel)
  <1>1. r \in Decoders(mask) /\ HasDecoded(mask, wrapped, L, 0, r)
    BY ReplayDecodes
  <1>2. /\ L \in Nat /\ o \in Nat /\ Width(mask) \in Nat /\ Len(r.samples) \in Nat
        /\ r.channel \in mask /\ k \in Nat /\ r.samples \in Seq(SampleValues)
    <2>1. r.channel \in mask /\ r.samples \in Seq(SampleValues)
      BY <1>1 DEF Decoders
    <2>2. L \in Nat /\ Len(r.samples) \in Nat
      BY <2>1, LenProperties
    <2>3. Width(mask) \in Nat
      BY MaskFacts DEF WrapSize
    <2>4. k \in Nat
      <3>1. \A c \in mask : Rank(mask, c) \in Nat
        BY MaskFacts
      <3> QED
        BY <2>1, <3>1
    <2> QED
      BY <2>1, <2>2, <2>3, <2>4, Offsets
  <1> HIDE DEF r, L, o, k
  <1>3. L = Offset(mask, 0 + Len(r.samples)) + 2 * k + IF r.msb = NoByte THEN 0 ELSE 1
    BY <1>1 DEF HasDecoded, k
  <1>4. 0 + Len(r.samples) = Len(r.samples)
    BY <1>2
  <1>5. Len(r.samples) = 0
    <2> SUFFICES ASSUME Len(r.samples) # 0 PROVE FALSE
      OBVIOUS
    <2> DEFINE q == Len(r.samples) - 1
    <2>1. q \in Nat /\ q + 1 = Len(r.samples)
      BY <1>2
    <2> HIDE DEF q
    <2>2. Offset(mask, q) \in Nat /\ Offset(mask, q + 1) = Offset(mask, q) + Width(mask)
      BY <2>1, Offsets
    <2>3. L < Width(mask)
      BY DEF L
    <2> QED
      BY <1>2, <1>3, <1>4, <2>1, <2>2, <2>3
  <1>6. Offset(mask, 0) = 0 /\ 0 \in Nat
    BY Offsets
  <1>7. L = 2 * k + IF r.msb = NoByte THEN 0 ELSE 1
    BY <1>2, <1>3, <1>4, <1>5, <1>6
  <1>8. \A i \in 1 .. L : wrapped[i] = bytes[o + i]
    BY DEF L, o
  <1>9. ASSUME r.msb # NoByte PROVE r.msb = bytes[o + L]
    <2>1. L \in 1 .. L
      BY <1>2, <1>7, <1>9
    <2>2. r.msb = wrapped[L]
      BY <1>1, <1>9 DEF HasDecoded
    <2> QED
      BY <1>8, <2>1, <2>2
  <1> DEFINE C == { c \in mask : c < r.channel }
  <1>10. Partial(mask, wrapped, 0, C) = Partial(mask, bytes, before, C)
    <2> SUFFICES ASSUME NEW c \in C
                 PROVE  Value(wrapped, Offset(mask, 0) + 2 * Rank(mask, c))
                          = Value(bytes, o + 2 * Rank(mask, c))
      BY DEF Partial, o
    <2>1. c \in mask /\ c < r.channel
      OBVIOUS
    <2> DEFINE j == Rank(mask, c)
    <2>2. j \in Nat /\ j < k
      BY <1>2, <2>1, MaskFacts, Ranks DEF k
    <2> HIDE DEF j
    <2>3. 2 * j + 1 \in 1 .. L /\ 2 * j + 2 \in 1 .. L
      BY <1>2, <1>7, <2>2
    <2>4. wrapped[2 * j + 1] = bytes[o + (2 * j + 1)] /\ wrapped[2 * j + 2] = bytes[o + (2 * j + 2)]
      BY <1>8, <2>3
    <2>5. /\ Offset(mask, 0) + 2 * j = 2 * j
          /\ o + (2 * j + 1) = o + 2 * j + 1 /\ o + (2 * j + 2) = o + 2 * j + 2
      BY <1>2, <1>6, <2>2
    <2>6. Value(wrapped, 2 * j) = Value(bytes, o + 2 * j)
      BY <2>4, <2>5 DEF Value
    <2> QED
      BY <2>5, <2>6 DEF j
  <1>11. r.sample = Partial(mask, bytes, before, C)
    <2>1. r.sample = Partial(mask, wrapped, 0 + Len(r.samples), C)
      BY <1>1 DEF HasDecoded
    <2> QED
      BY <1>4, <1>5, <1>10, <2>1, Zenon
  <1> HIDE DEF C
  <1>12. before + Len(r.samples) = before /\ \A j \in 1 .. Len(r.samples) : FALSE
    BY <1>5
  <1>13. o + L = o + 2 * k + IF r.msb = NoByte THEN 0 ELSE 1
    BY <1>2, <1>7
  <1>14. HasDecoded(mask, bytes, o + L, before, r)
    BY <1>9, <1>11, <1>12, <1>13 DEF HasDecoded, C, k, o
  <1>15. r.samples = << >>
    BY <1>2, <1>5, EmptySeq
  <1> QED
    BY <1>14, <1>15 DEF r, o, L

(* A page: if the kept bytes are those behind the last complete sample, the *)
(* samples of the page are the next ones, and what it keeps is again less   *)
(* than a sample.                                                          *)
LEMMA PageDecodes ==
  ASSUME NEW mask \in Masks, NEW bytes, NEW before \in Nat,
         NEW wrapped \in Seq(Byte), Len(wrapped) < Width(mask),
         \A i \in 1 .. Len(wrapped) : wrapped[i] = bytes[Offset(mask, before) + i],
         NEW values \in Seq(Byte),
         \A i \in 1 .. Len(values) : values[i] = bytes[Offset(mask, before) + Len(wrapped) + i]
  PROVE  LET w == ReadPage(mask, wrapped, values)
         IN  /\ w \in Readers(mask)
             /\ HasRead(mask, bytes, Offset(mask, before) + Len(wrapped) + Len(values), before, w)
  <1> DEFINE n == Offset(mask, before) + Len(wrapped)
             L == Len(values)
             b == [decoder |-> Replay(mask, wrapped), wrapped |-> wrapped]
  <1>1. /\ n \in Nat /\ Offset(mask, before) \in Nat /\ Len(wrapped) \in Nat
        /\ L \in Nat /\ \A i \in 1 .. L : values[i] \in Byte
    <2>1. Offset(mask, before) \in Nat
      BY Offsets
    <2>2. Len(wrapped) \in Nat /\ L \in Nat
      BY LenProperties
    <2>3. \A i \in 1 .. L : values[i] \in Byte
      BY ElementOfSeq
    <2> QED
      BY <2>1, <2>2, <2>3
  <1>2. PICK w : /\ w[0] = b
                 /\ \A i \in 1 .. L : w[i] = DecodeAndKeep(mask, w[i - 1], values[i])
                 /\ ReadPage(mask, wrapped, values) = w[L]
    BY ReadPageIsRun
  <1>3. b \in Readers(mask) /\ HasRead(mask, bytes, n, before, b)
    <2>1. b \in Readers(mask)
      BY ReplayDecodes DEF Readers
    <2>2. Replay(mask, wrapped).samples = << >> /\ HasDecoded(mask, bytes, n, before, b.decoder)
      BY ReplayOfKept
    <2>3. before + Len(b.decoder.samples) = before
      BY <2>2
    <2>4. b.wrapped = wrapped
      OBVIOUS
    <2> HIDE DEF b
    <2> QED
      BY <2>1, <2>2, <2>3, <2>4 DEF HasRead
  <1> DEFINE P == { i \in 0 .. L : w[i] \in Readers(mask) /\ HasRead(mask, bytes, n + i, before, w[i]) }
  <1> HIDE DEF b
  <1>4. 0 \in P
    <2>1. n + 0 = n /\ 0 \in 0 .. L
      BY <1>1
    <2> QED
      BY <1>2, <1>3, <2>1
  <1>5. ASSUME NEW i \in 1 .. L, i - 1 \in P PROVE i \in P
    <2> DEFINE m == n + (i - 1)
    <2>1. m \in Nat /\ m + 1 = n + i /\ i \in 0 .. L
      BY <1>1
    <2>2. w[i - 1] \in Readers(mask) /\ HasRead(mask, bytes, m, before, w[i - 1])
      BY <1>5
    <2>3. bytes[m + 1] = values[i] /\ values[i] \in Byte
      BY <1>1, <2>1
    <2>4. w[i] = DecodeAndKeep(mask, w[i - 1], bytes[m + 1])
      BY <1>2, <2>3
    <2> HIDE DEF m, n
    <2>5. w[i] \in Readers(mask)
      BY <2>2, <2>3, <2>4, KeepType
    <2>6. HasRead(mask, bytes, m + 1, before, w[i])
      BY <2>1, <2>2, <2>3, <2>4, KeepByte
    <2> QED
      BY <2>1, <2>5, <2>6
  <1> HIDE DEF P, L
  <1>6. \A i \in 0 .. L : i \in P
    BY <1>1, <1>4, <1>5, InductTo
  <1>7. L \in 0 .. L
    BY <1>1
  <1> QED
    BY <1>2, <1>6, <1>7 DEF P, L, n

(* The kept bytes are fewer than those of a sample.                        *)
LEMMA KeepsLessThanASample ==
  ASSUME NEW mask \in Masks, NEW bytes, NEW n, NEW before \in Nat,
         NEW w \in Readers(mask), HasRead(mask, bytes, n, before, w)
  PROVE  Len(w.wrapped) < Width(mask)
  <1> DEFINE d == w.decoder
             complete == Offset(mask, before + Len(d.samples))
             k == Rank(mask, d.channel)
  <1>1. d \in Decoders(mask) /\ w.wrapped \in Seq(Byte)
    BY DEF Readers
  <1>2. d.channel \in mask /\ d.samples \in Seq(SampleValues)
    BY <1>1 DEF Decoders
  <1>3. Len(d.samples) \in Nat /\ Len(w.wrapped) \in Nat
    BY <1>1, <1>2, LenProperties
  <1>4. complete \in Nat
    <2>1. before + Len(d.samples) \in Nat
      BY <1>3
    <2> QED
      BY <2>1, Offsets
  <1>5. k \in Nat /\ k < Cardinality(mask) /\ Cardinality(mask) \in Nat
    <2>1. Cardinality(mask) \in Nat
      BY MaskFacts
    <2> QED
      BY <1>2, <2>1, MaskFacts, Ranks
  <1>6. /\ n = complete + 2 * k + IF d.msb = NoByte THEN 0 ELSE 1
        /\ n = complete + Len(w.wrapped)
    BY DEF HasRead, HasDecoded
  <1> HIDE DEF d, complete, k
  <1>7. Len(w.wrapped) =< 2 * k + 1
    BY <1>3, <1>4, <1>5, <1>6
  <1> QED
    BY <1>3, <1>5, <1>7 DEF Width

(* q samples of v bytes each, made of kept bytes and those of a page, and a  *)
(* rest: at most 132 if each sample has two channels or more.              *)
LEMMA FewSamples ==
  ASSUME NEW v \in 4 .. 16, NEW q \in Nat, NEW kept \in Nat, NEW length \in Nat, NEW rest \in Nat,
         kept < v, length =< 264, kept + length = v * q + rest
  PROVE  q =< 132
  <1>1. v * q \in Nat
    OBVIOUS
  <1>2. v * q =< 15 + 264
    BY <1>1
  <1>3. 4 * q =< v * q
    OBVIOUS
  <1> QED
    BY <1>1, <1>2, <1>3

(* The array of a page's samples has 132 places, enough for its 264 bytes    *)
(* and less than a sample that was kept before them (page.samples, memset   *)
(* at discover.c:928).  That less than a sample is kept says                *)
(* DownloadTellsSamples.                                                   *)
THEOREM PageSamplesFit ==
  ASSUME NEW mask \in Masks, NEW wrapped \in Seq(Byte), Len(wrapped) < Width(mask),
         NEW values \in Seq(Byte), Len(values) =< 264
  PROVE  Len(ReadPage(mask, wrapped, values).decoder.samples) =< 132
  <1> DEFINE bytes == wrapped \o values
             w     == ReadPage(mask, wrapped, values)
             q     == Len(w.decoder.samples)
  <1>1. Width(mask) \in 4 .. 16
    BY MaskFacts DEF WrapSize
  <1>2. Len(wrapped) \in Nat /\ Len(values) \in Nat /\ Offset(mask, 0) = 0
    <2>1. \A s \in Seq(Byte) : Len(s) \in Nat
      BY LenProperties
    <2> QED
      BY <1>1, <2>1 DEF Offset
  <1>3. /\ \A i \in 1 .. Len(wrapped) : wrapped[i] = bytes[Offset(mask, 0) + i]
        /\ \A i \in 1 .. Len(values) : values[i] = bytes[Offset(mask, 0) + Len(wrapped) + i]
    BY <1>2, ConcatProperties
  <1> HIDE DEF bytes
  <1>4. /\ w \in Readers(mask)
        /\ HasRead(mask, bytes, Offset(mask, 0) + Len(wrapped) + Len(values), 0, w)
    BY <1>3, PageDecodes
  <1> HIDE DEF w
  <1>5. q \in Nat /\ Len(w.wrapped) \in Nat
    <2>1. w.decoder \in Decoders(mask) /\ w.wrapped \in Seq(Byte)
      BY <1>4 DEF Readers
    <2>2. w.decoder.samples \in Seq(SampleValues)
      BY <2>1 DEF Decoders
    <2> QED
      BY <2>1, <2>2, LenProperties
  <1>6. Len(wrapped) + Len(values) = Width(mask) * q + Len(w.wrapped)
    <2>1. Offset(mask, 0) + Len(wrapped) + Len(values) = Offset(mask, 0 + q) + Len(w.wrapped)
      BY <1>4 DEF HasRead
    <2>2. Offset(mask, 0 + q) = Width(mask) * (0 + q)
      BY DEF Offset
    <2> HIDE DEF q
    <2> QED
      BY <1>2, <1>5, <2>1, <2>2
  <1> HIDE DEF q
  <1>7. q =< 132
    BY <1>1, <1>2, <1>5, <1>6, FewSamples
  <1> QED
    BY <1>7 DEF q, w

-----------------------------------------------------------------------------
(* The pages of a session.                                                 *)

(* The values of a page are bytes of it, wherever its headers are.         *)
LEMMA ValuesType ==
  ASSUME NEW page \in Seq(Byte), NEW first \in BOOLEAN
  PROVE  /\ Values(page, first) \in Seq(Byte)
         /\ Len(Values(page, first)) =< Len(page)
  <1> DEFINE from == Start(page, first)
             to   == IF Ends(page, first) = {} THEN Len(page) ELSE Min(Ends(page, first)) - 1
  <1>1. Len(page) \in Nat /\ \A i \in 1 .. Len(page) : page[i] \in Byte
    BY LenProperties, ElementOfSeq
  <1>2. Headers(page) \subseteq 1 .. Len(page) /\ Headers(page) \subseteq Nat
    BY <1>1 DEF Headers
  <1>3. from \in Nat /\ from >= 1
    <2>1. CASE SkipsHeader(page, first)
      <3>1. Headers(page) # {}
        BY <2>1 DEF SkipsHeader
      <3>2. PICK h : h = Min(Headers(page)) /\ h \in 1 .. Len(page)
        BY <1>2, <3>1, MinIsLeast
      <3>3. from = h + 12
        BY <2>1, <3>2 DEF Start, HeaderLength
      <3> QED
        BY <1>1, <3>2, <3>3
    <2>2. CASE ~ SkipsHeader(page, first)
      BY <2>2 DEF Start
    <2> QED
      BY <2>1, <2>2
  <1>4. to \in Nat /\ to =< Len(page)
    <2>1. CASE Ends(page, first) = {}
      BY <1>1, <2>1
    <2>2. CASE Ends(page, first) # {}
      <3>1. Ends(page, first) \subseteq Headers(page)
        BY DEF Ends
      <3>2. PICK e : e = Min(Ends(page, first)) /\ e \in 1 .. Len(page)
        BY <1>2, <2>2, <3>1, MinIsLeast
      <3>3. to = e - 1
        BY <2>2, <3>2
      <3> QED
        BY <1>1, <3>2, <3>3
    <2> QED
      BY <2>1, <2>2
  <1>5. Values(page, first) = SubSeq(page, from, to)
    BY DEF Values
  <1> HIDE DEF from, to
  <1>6. from \in Int /\ to \in Int /\ \A i \in from .. to : page[i] \in Byte
    BY <1>1, <1>3, <1>4
  <1>7. /\ SubSeq(page, from, to) \in Seq(Byte)
        /\ Len(SubSeq(page, from, to)) = IF from =< to THEN to - from + 1 ELSE 0
    BY <1>6, SubSeqProperties
  <1> QED
    BY <1>1, <1>3, <1>4, <1>5, <1>7

(* What is read of a page has its type, whatever was kept before.          *)
LEMMA ReadPageType ==
  ASSUME NEW mask \in Masks, NEW wrapped \in Seq(Byte), NEW values \in Seq(Byte)
  PROVE  ReadPage(mask, wrapped, values) \in Readers(mask)
  <1> DEFINE L == Len(values)
  <1>1. L \in Nat /\ \A i \in 1 .. L : values[i] \in Byte
    BY LenProperties, ElementOfSeq
  <1>2. PICK w : /\ w[0] = [decoder |-> Replay(mask, wrapped), wrapped |-> wrapped]
                 /\ \A i \in 1 .. L : w[i] = DecodeAndKeep(mask, w[i - 1], values[i])
                 /\ ReadPage(mask, wrapped, values) = w[L]
    BY ReadPageIsRun
  <1> DEFINE P == { i \in 0 .. L : w[i] \in Readers(mask) }
  <1>3. 0 \in P
    <2>1. w[0] \in Readers(mask)
      BY <1>2, ReplayDecodes DEF Readers
    <2> QED
      BY <1>1, <2>1
  <1>4. ASSUME NEW i \in 1 .. L, i - 1 \in P PROVE i \in P
    BY <1>1, <1>2, <1>4, KeepType
  <1> HIDE DEF P, L
  <1>5. \A i \in 0 .. L : i \in P
    BY <1>1, <1>3, <1>4, InductTo
  <1>6. L \in 0 .. L
    BY <1>1
  <1> QED
    BY <1>2, <1>5, <1>6 DEF P, L

Events   == [prevsamplecount : Nat, samples : Seq(SampleValues)]
Sessions == [page : Nat, wrapped : Seq(Byte), samplecount : Nat, over : BOOLEAN,
             events : Seq(Events)]

(* So has the session, whatever page comes.                                *)
LEMMA SessionType ==
  /\ NewSession \in Sessions
  /\ \A mask \in Masks, s \in Sessions, page \in Seq(Byte) : processLogging(mask, s, page) \in Sessions
  <1>1. NewSession \in Sessions
    BY EmptySeq DEF NewSession, Sessions
  <1>2. ASSUME NEW mask \in Masks, NEW s \in Sessions, NEW page \in Seq(Byte)
        PROVE  processLogging(mask, s, page) \in Sessions
    <2> DEFINE first   == s.page = 2
               read    == ReadPage(mask, s.wrapped, Values(page, first))
               samples == read.decoder.samples
               event   == [prevsamplecount |-> s.samplecount, samples |-> samples]
    <2>1. /\ s.page \in Nat /\ s.wrapped \in Seq(Byte) /\ s.samplecount \in Nat
          /\ s.events \in Seq(Events)
      BY DEF Sessions
    <2>2. read \in Readers(mask)
      <3>1. Values(page, first) \in Seq(Byte)
        BY ValuesType
      <3> QED
        BY <2>1, <3>1, ReadPageType
    <2>3. read.wrapped \in Seq(Byte) /\ samples \in Seq(SampleValues)
      BY <2>2 DEF Readers, Decoders
    <2>4. Len(samples) \in Nat
      BY <2>3, LenProperties
    <2>5. event \in Events
      BY <2>1, <2>3 DEF Events
    <2>6. Append(s.events, event) \in Seq(Events)
      BY <2>1, <2>5, AppendProperties
    <2>7. processLogging(mask, s, page) =
            [page        |-> s.page + 1,
             wrapped     |-> read.wrapped,
             samplecount |-> s.samplecount + Len(samples),
             over        |-> Ends(page, first) # {},
             events      |-> IF samples = << >> THEN s.events ELSE Append(s.events, event)]
      BY DEF processLogging
    <2> HIDE DEF first, read, samples, event
    <2> QED
      BY <2>1, <2>3, <2>4, <2>6, <2>7 DEF Sessions
  <1> QED
    BY <1>1, <1>2

(* The session has downloaded the first n bytes: the whole samples among     *)
(* them were told, the bytes behind the last one are kept.                  *)
HasDownloaded(mask, bytes, n, s) ==
  /\ Len(s.wrapped) < Width(mask)
  /\ n = Offset(mask, s.samplecount) + Len(s.wrapped)
  /\ \A i \in 1 .. Len(s.wrapped) : s.wrapped[i] = bytes[Offset(mask, s.samplecount) + i]
  /\ Consecutive(s.events, s.samplecount)
  /\ InPlace(mask, bytes, s.events)

(* A new session has downloaded nothing.                                   *)
LEMMA NothingDownloaded ==
  ASSUME NEW mask \in Masks, NEW bytes
  PROVE  HasDownloaded(mask, bytes, 0, NewSession)
  <1>1. /\ NewSession.samplecount = 0
        /\ NewSession.wrapped = << >> /\ NewSession.events = << >>
    BY DEF NewSession
  <1>2. Offset(mask, 0) = 0 /\ Width(mask) > 0
    <2>1. 0 \in Nat
      OBVIOUS
    <2> QED
      BY <2>1, Offsets, MaskFacts DEF WrapSize
  <1>3. Consecutive(NewSession.events, NewSession.samplecount)
        /\ InPlace(mask, bytes, NewSession.events)
    BY <1>1 DEF Consecutive, InPlace, Told
  <1> QED
    BY <1>1, <1>2, <1>3 DEF HasDownloaded

(* An event with the next samples continues the events before it.          *)
LEMMA TellSamples ==
  ASSUME NEW mask, NEW bytes, NEW events \in Seq(Events), NEW count \in Nat,
         NEW samples \in Seq(SampleValues),
         Consecutive(events, count), InPlace(mask, bytes, events),
         \A j \in 1 .. Len(samples) : samples[j] = SampleOf(mask, bytes, count + j)
  PROVE  LET told == Append(events, [prevsamplecount |-> count, samples |-> samples])
         IN  Consecutive(told, count + Len(samples)) /\ InPlace(mask, bytes, told)
  <1> DEFINE event == [prevsamplecount |-> count, samples |-> samples]
             told  == Append(events, event)
             L     == Len(events)
  <1>1. L \in Nat /\ Len(samples) \in Nat
    BY LenProperties
  <1>2. event \in Events
    BY DEF Events
  <1>3. /\ Len(told) = L + 1
        /\ \A e \in 1 .. L : told[e] = events[e]
        /\ told[L + 1] = event
    BY <1>2, AppendProperties
  <1>4. event.prevsamplecount = count /\ event.samples = samples
    OBVIOUS
  <1> HIDE DEF event, told, L
  <1>5. \A e \in 0 .. L : Told(told, e) = Told(events, e)
    BY <1>1, <1>3 DEF Told
  <1>6. Consecutive(told, count + Len(samples))
    <2>1. ASSUME NEW e \in 1 .. Len(told) PROVE told[e].prevsamplecount = Told(told, e - 1)
      <3>1. CASE e = L + 1
        <4>1. e - 1 = L /\ L \in 0 .. L
          BY <1>1, <3>1
        <4>2. count = Told(events, L)
          BY DEF Consecutive, L
        <4> QED
          BY <1>3, <1>4, <1>5, <3>1, <4>1, <4>2
      <3>2. CASE e # L + 1
        <4>1. e \in 1 .. L /\ e - 1 \in 0 .. L
          BY <1>1, <1>3, <3>2
        <4>2. events[e].prevsamplecount = Told(events, e - 1)
          BY <4>1 DEF Consecutive, L
        <4> QED
          BY <1>3, <1>5, <4>1, <4>2
      <3> QED
        BY <3>1, <3>2
    <2>2. Told(told, Len(told)) = count + Len(samples)
      BY <1>1, <1>3, <1>4 DEF Told
    <2> QED
      BY <2>1, <2>2 DEF Consecutive
  <1>7. InPlace(mask, bytes, told)
    <2> SUFFICES ASSUME NEW e \in 1 .. Len(told), NEW j \in 1 .. Len(told[e].samples)
                 PROVE  told[e].samples[j] = SampleOf(mask, bytes, told[e].prevsamplecount + j)
      BY DEF InPlace
    <2>1. CASE e = L + 1
      BY <1>3, <1>4, <2>1
    <2>2. CASE e # L + 1
      <3>1. e \in 1 .. L
        BY <1>1, <1>3, <2>2
      <3> QED
        BY <1>3, <3>1 DEF InPlace, L
    <2> QED
      BY <2>1, <2>2
  <1> QED
    BY <1>6, <1>7 DEF told, event

(* processLogging continues the download with the bytes of its page.       *)
LEMMA PageStep ==
  ASSUME NEW mask \in Masks, NEW bytes, NEW n, NEW s \in Sessions, NEW page \in Seq(Byte),
         HasDownloaded(mask, bytes, n, s),
         \A i \in 1 .. Len(Values(page, s.page = 2)) :
           Values(page, s.page = 2)[i] = bytes[n + i]
  PROVE  HasDownloaded(mask, bytes, n + Len(Values(page, s.page = 2)),
                       processLogging(mask, s, page))
  <1> DEFINE values  == Values(page, s.page = 2)
             read    == ReadPage(mask, s.wrapped, values)
             samples == read.decoder.samples
             event   == [prevsamplecount |-> s.samplecount, samples |-> samples]
             t       == processLogging(mask, s, page)
  <1>1. s.wrapped \in Seq(Byte) /\ s.samplecount \in Nat /\ s.events \in Seq(Events)
    BY DEF Sessions
  <1>2. values \in Seq(Byte)
    BY ValuesType
  <1>3. /\ Len(s.wrapped) < Width(mask)
        /\ n = Offset(mask, s.samplecount) + Len(s.wrapped)
        /\ \A i \in 1 .. Len(s.wrapped) : s.wrapped[i] = bytes[Offset(mask, s.samplecount) + i]
        /\ Consecutive(s.events, s.samplecount)
        /\ InPlace(mask, bytes, s.events)
    BY DEF HasDownloaded
  <1>4. t = [page        |-> s.page + 1,
             wrapped     |-> read.wrapped,
             samplecount |-> s.samplecount + Len(samples),
             over        |-> Ends(page, s.page = 2) # {},
             events      |-> IF samples = << >> THEN s.events ELSE Append(s.events, event)]
    BY DEF processLogging
  <1>5. \A i \in 1 .. Len(values) :
          values[i] = bytes[Offset(mask, s.samplecount) + Len(s.wrapped) + i]
    BY <1>3
  <1> HIDE DEF values, t
  <1>6. read \in Readers(mask) /\ HasRead(mask, bytes, n + Len(values), s.samplecount, read)
    <2>1. LET w == ReadPage(mask, s.wrapped, values)
          IN  /\ w \in Readers(mask)
              /\ HasRead(mask, bytes, Offset(mask, s.samplecount) + Len(s.wrapped) + Len(values),
                         s.samplecount, w)
      BY <1>1, <1>2, <1>3, <1>5, PageDecodes
    <2> QED
      BY <1>3, <2>1
  <1> HIDE DEF read
  <1>7. Len(read.wrapped) < Width(mask)
    BY <1>1, <1>6, KeepsLessThanASample
  <1>8. samples \in Seq(SampleValues) /\ Len(samples) \in Nat
    <2>1. samples \in Seq(SampleValues)
      BY <1>6 DEF Readers, Decoders
    <2> QED
      BY <2>1, LenProperties
  <1>9. /\ n + Len(values) = Offset(mask, s.samplecount + Len(samples)) + Len(read.wrapped)
        /\ \A i \in 1 .. Len(read.wrapped) :
             read.wrapped[i] = bytes[Offset(mask, s.samplecount + Len(samples)) + i]
        /\ \A j \in 1 .. Len(samples) : samples[j] = SampleOf(mask, bytes, s.samplecount + j)
    BY <1>6 DEF HasRead, HasDecoded
  <1> HIDE DEF samples, event
  <1>10. Consecutive(t.events, t.samplecount) /\ InPlace(mask, bytes, t.events)
    <2>1. CASE samples = << >>
      <3>1. t.events = s.events /\ t.samplecount = s.samplecount
        BY <1>1, <1>4, <2>1
      <3> QED
        BY <1>3, <3>1
    <2>2. CASE samples # << >>
      <3>1. t.events = Append(s.events, event) /\ t.samplecount = s.samplecount + Len(samples)
        BY <1>4, <2>2
      <3>2. /\ Consecutive(Append(s.events, event), s.samplecount + Len(samples))
            /\ InPlace(mask, bytes, Append(s.events, event))
        BY <1>1, <1>3, <1>8, <1>9, TellSamples DEF event
      <3> QED
        BY <3>1, <3>2
    <2> QED
      BY <2>1, <2>2
  <1>11. t.wrapped = read.wrapped /\ t.samplecount = s.samplecount + Len(samples)
    BY <1>4
  <1>12. HasDownloaded(mask, bytes, n + Len(values), t)
    BY <1>7, <1>9, <1>10, <1>11 DEF HasDownloaded
  <1> QED
    BY <1>12 DEF values, t

(* Download is what its recursion says. *)
LEMMA DownloadIsRun ==
  ASSUME NEW mask \in Masks, NEW pages \in Seq(Seq(Byte))
  PROVE  \E s : /\ s \in [0 .. Len(pages) -> Sessions]
                /\ s[0] = NewSession
                /\ \A p \in 1 .. Len(pages) :
                     s[p] = IF s[p - 1].over THEN s[p - 1]
                            ELSE processLogging(mask, s[p - 1], pages[p])
                /\ Download(mask, pages) = s[Len(pages)]
  <1> DEFINE L == Len(pages)
             S == Sessions
             Next(s, p) == IF s.over THEN s ELSE processLogging(mask, s, pages[p])
             F == [x \in S \X (1 .. L) |-> Next(x[1], x[2])]
             s[p \in 0 .. L] == IF p = 0 THEN NewSession
                                ELSE IF s[p - 1].over THEN s[p - 1]
                                ELSE processLogging(mask, s[p - 1], pages[p])
  <1>1. L \in Nat /\ \A p \in 1 .. L : pages[p] \in Seq(Byte)
    BY LenProperties, ElementOfSeq
  <1>2. F \in [S \X (1 .. L) -> S]
    BY <1>1, SessionType
  <1>3. NewSession \in S
    BY SessionType
  <1>4. \A x \in S, p \in 1 .. L : F[<< x, p >>] = Next(x, p)
    OBVIOUS
  <1>5. Download(mask, pages) = s[L]
    BY Zenon DEF Download
  <1> HIDE DEF S, F, L
  <1>6. PICK g : IsRunTo(L, S, NewSession, F, g)
    BY <1>1, <1>2, <1>3, RecursionTo
  <1>7. g \in [0 .. L -> S] /\ g[0] = NewSession
    BY <1>6 DEF IsRunTo
  <1>8. ASSUME NEW p \in 0 .. L, p # 0 PROVE g[p] = Next(g[p - 1], p)
    <2>1. p \in 1 .. L /\ p - 1 \in 0 .. L
      BY <1>1, <1>8
    <2>2. g[p] = F[<< g[p - 1], p >>]
      BY <1>6, <2>1 DEF IsRunTo
    <2>3. g[p - 1] \in S
      BY <1>7, <2>1
    <2> HIDE DEF Next
    <2> QED
      BY <1>4, <2>1, <2>2, <2>3
  <1>9. g = [p \in 0 .. L |-> IF p = 0 THEN NewSession
                              ELSE IF g[p - 1].over THEN g[p - 1]
                              ELSE processLogging(mask, g[p - 1], pages[p])]
    BY <1>7, <1>8
  <1>10. s = [p \in 0 .. L |-> IF p = 0 THEN NewSession
                               ELSE IF s[p - 1].over THEN s[p - 1]
                               ELSE processLogging(mask, s[p - 1], pages[p])]
    BY <1>9, Zenon
  <1> HIDE DEF s
  <1>11. ASSUME NEW f, f = [p \in 0 .. L |-> IF p = 0 THEN NewSession
                               ELSE IF f[p - 1].over THEN f[p - 1]
                               ELSE processLogging(mask, f[p - 1], pages[p])]
         PROVE  /\ f[0] = NewSession
                /\ \A p \in 1 .. L : f[p] = Next(f[p - 1], p)
    <2>1. f[0] = NewSession
      BY <1>1, <1>11
    <2>2. \A p \in 1 .. L : p \in 0 .. L /\ p # 0
      BY <1>1
    <2> QED
      BY <1>11, <2>1, <2>2
  <1>12. s[0] = NewSession /\ \A p \in 1 .. L : s[p] = Next(s[p - 1], p)
    BY <1>10, <1>11
  <1>13. s \in [0 .. L -> S]
    <2> DEFINE P == { p \in 0 .. L : s[p] \in S }
    <2>1. 0 \in P
      BY <1>1, <1>3, <1>12
    <2>2. ASSUME NEW p \in 1 .. L, p - 1 \in P PROVE p \in P
      <3>1. s[p - 1] \in S /\ p \in 0 .. L /\ pages[p] \in Seq(Byte)
        BY <1>1, <2>2
      <3>2. processLogging(mask, s[p - 1], pages[p]) \in S
        BY <3>1, SessionType DEF S
      <3> QED
        BY <1>12, <3>1, <3>2
    <2> HIDE DEF P
    <2>3. \A p \in 0 .. L : p \in P
      BY <1>1, <2>1, <2>2, InductTo
    <2>4. \A p \in 0 .. L : s[p] \in S
      BY <2>3 DEF P
    <2>5. s = [p \in 0 .. L |-> s[p]]
      BY <1>10, Zenon
    <2> QED
      BY <2>4, <2>5
  <1> QED
    BY <1>5, <1>12, <1>13 DEF L, S

(* The bytes of a session: those of its pages, one page after the other.    *)
SessionBytes(pages) ==
  LET b[p \in 0 .. Len(pages)] ==
        IF p = 0 THEN << >> ELSE b[p - 1] \o Values(pages[p], p = 1)
  IN  b[Len(pages)]

(* SessionBytes is what its recursion says.                                *)
LEMMA SessionBytesIsRun ==
  ASSUME NEW pages \in Seq(Seq(Byte))
  PROVE  \E b : /\ b \in [0 .. Len(pages) -> Seq(Byte)]
                /\ b[0] = << >>
                /\ \A p \in 1 .. Len(pages) : b[p] = b[p - 1] \o Values(pages[p], p = 1)
                /\ SessionBytes(pages) = b[Len(pages)]
  <1> DEFINE L == Len(pages)
             S == Seq(Byte)
             V(p) == Values(pages[p], p = 1)
             F == [x \in S \X (1 .. L) |-> x[1] \o V(x[2])]
             b[p \in 0 .. L] == IF p = 0 THEN << >> ELSE b[p - 1] \o Values(pages[p], p = 1)
  <1>1. L \in Nat /\ \A p \in 1 .. L : pages[p] \in Seq(Byte)
    BY LenProperties, ElementOfSeq
  <1>2. \A p \in 1 .. L : V(p) \in S
    <2> SUFFICES ASSUME NEW p \in 1 .. L PROVE V(p) \in S
      OBVIOUS
    <2>1. (p = 1) \in BOOLEAN /\ pages[p] \in Seq(Byte)
      BY <1>1
    <2> QED
      BY <2>1, ValuesType
  <1>3. << >> \in S
    BY EmptySeq
  <1>4. \A x \in S, p \in 1 .. L : F[<< x, p >>] = x \o V(p)
    OBVIOUS
  <1>5. F \in [S \X (1 .. L) -> S]
    <2>1. \A x \in S, p \in 1 .. L : x \o V(p) \in S
      BY <1>2, ConcatProperties
    <2> HIDE DEF V, S
    <2> QED
      BY <2>1
  <1>6. SessionBytes(pages) = b[L]
    BY Zenon DEF SessionBytes
  <1> HIDE DEF S, F, L
  <1>7. PICK g : IsRunTo(L, S, << >>, F, g)
    BY <1>1, <1>3, <1>5, RecursionTo
  <1>8. g \in [0 .. L -> S] /\ g[0] = << >>
    BY <1>7 DEF IsRunTo
  <1>9. ASSUME NEW p \in 0 .. L, p # 0 PROVE g[p] = g[p - 1] \o Values(pages[p], p = 1)
    <2>1. p \in 1 .. L /\ p - 1 \in 0 .. L
      BY <1>1, <1>9
    <2>2. g[p] = F[<< g[p - 1], p >>]
      BY <1>7, <2>1 DEF IsRunTo
    <2>3. g[p - 1] \in S
      BY <1>8, <2>1
    <2> QED
      BY <1>4, <2>1, <2>2, <2>3
  <1>10. g = [p \in 0 .. L |-> IF p = 0 THEN << >> ELSE g[p - 1] \o Values(pages[p], p = 1)]
    BY <1>8, <1>9
  <1>11. b = [p \in 0 .. L |-> IF p = 0 THEN << >> ELSE b[p - 1] \o Values(pages[p], p = 1)]
    BY <1>10, Zenon
  <1> HIDE DEF b
  <1>12. b[0] = << >> /\ \A p \in 1 .. L : b[p] = b[p - 1] \o V(p)
    <2>1. \A p \in 1 .. L : p \in 0 .. L /\ p # 0
      BY <1>1
    <2>2. 0 \in 0 .. L
      BY <1>1
    <2> QED
      BY <1>11, <2>1, <2>2
  <1>13. b \in [0 .. L -> S]
    <2> DEFINE P == { p \in 0 .. L : b[p] \in S }
    <2>1. 0 \in P
      BY <1>1, <1>3, <1>12
    <2>2. ASSUME NEW p \in 1 .. L, p - 1 \in P PROVE p \in P
      <3>1. b[p - 1] \in S /\ p \in 0 .. L
        BY <1>1, <2>2
      <3>2. b[p - 1] \o V(p) \in S
        BY <1>2, <3>1, ConcatProperties DEF S
      <3> HIDE DEF V
      <3> QED
        BY <1>12, <3>1, <3>2
    <2> HIDE DEF P
    <2>3. \A p \in 0 .. L : p \in P
      BY <1>1, <2>1, <2>2, InductTo
    <2>4. \A p \in 0 .. L : b[p] \in S
      BY <2>3 DEF P
    <2>5. b = [p \in 0 .. L |-> b[p]]
      BY <1>11, Zenon
    <2> QED
      BY <2>4, <2>5
  <1> QED
    BY <1>6, <1>12, <1>13 DEF L, S

(* Each page's values are where those of the pages before it end.          *)
LEMMA PagesInSession ==
  ASSUME NEW pages \in Seq(Seq(Byte))
  PROVE  \E at : /\ at[0] = 0 /\ at[Len(pages)] = Len(SessionBytes(pages))
                 /\ \A p \in 1 .. Len(pages) :
                      LET values == Values(pages[p], p = 1)
                      IN  /\ at[p] = at[p - 1] + Len(values)
                          /\ \A i \in 1 .. Len(values) :
                               values[i] = SessionBytes(pages)[at[p - 1] + i]
  <1> DEFINE L == Len(pages)
             V(p) == Values(pages[p], p = 1)
  <1>1. PICK b : /\ b \in [0 .. L -> Seq(Byte)]
                 /\ b[0] = << >>
                 /\ \A p \in 1 .. L : b[p] = b[p - 1] \o V(p)
                 /\ SessionBytes(pages) = b[L]
    BY SessionBytesIsRun
  <1> DEFINE at == [p \in 0 .. L |-> Len(b[p])]
  <1>2. L \in Nat /\ \A p \in 1 .. L : V(p) \in Seq(Byte)
    <2>1. L \in Nat /\ \A p \in 1 .. L : pages[p] \in Seq(Byte)
      BY LenProperties, ElementOfSeq
    <2> SUFFICES ASSUME NEW p \in 1 .. L PROVE V(p) \in Seq(Byte)
      BY <2>1
    <2>2. (p = 1) \in BOOLEAN /\ pages[p] \in Seq(Byte)
      BY <2>1
    <2> QED
      BY <2>2, ValuesType
  <1> HIDE DEF L, V
  <1>3. \A p \in 0 .. L : b[p] \in Seq(Byte) /\ at[p] \in Nat /\ at[p] = Len(b[p])
    BY <1>1, LenProperties
  <1> HIDE DEF at
  <1>4. ASSUME NEW p \in 1 .. L
        PROVE  /\ p - 1 \in 0 .. L /\ p \in 0 .. L /\ Len(V(p)) \in Nat
               /\ at[p] = at[p - 1] + Len(V(p))
               /\ \A i \in 1 .. at[p - 1] : b[p][i] = b[p - 1][i]
               /\ \A i \in 1 .. Len(V(p)) : b[p][at[p - 1] + i] = V(p)[i]
    <2>1. p - 1 \in 0 .. L /\ p \in 0 .. L
      BY <1>2
    <2>2. b[p - 1] \in Seq(Byte) /\ V(p) \in Seq(Byte) /\ b[p] = b[p - 1] \o V(p)
      BY <1>1, <1>2, <2>1
    <2>3. /\ Len(b[p]) = Len(b[p - 1]) + Len(V(p))
          /\ \A i \in 1 .. Len(b[p - 1]) + Len(V(p)) :
               b[p][i] = IF i <= Len(b[p - 1]) THEN b[p - 1][i] ELSE V(p)[i - Len(b[p - 1])]
      BY <2>2, ConcatProperties
    <2>4. at[p] = Len(b[p]) /\ at[p - 1] = Len(b[p - 1]) /\ at[p - 1] \in Nat
      BY <1>3, <2>1
    <2>5. Len(V(p)) \in Nat
      BY <2>2, LenProperties
    <2>6. \A i \in 1 .. at[p - 1] : b[p][i] = b[p - 1][i]
      BY <2>3, <2>4, <2>5
    <2>7. ASSUME NEW i \in 1 .. Len(V(p)) PROVE b[p][at[p - 1] + i] = V(p)[i]
      <3>1. /\ at[p - 1] + i \in 1 .. at[p - 1] + Len(V(p)) /\ ~ (at[p - 1] + i <= at[p - 1])
            /\ (at[p - 1] + i) - at[p - 1] = i
        BY <2>4, <2>5
      <3> QED
        BY <2>3, <2>4, <3>1
    <2> QED
      BY <2>1, <2>3, <2>4, <2>5, <2>6, <2>7
  <1> DEFINE P == { q \in 0 .. L : \A p \in 0 .. q :
                      at[p] =< at[q] /\ \A i \in 1 .. at[p] : b[q][i] = b[p][i] }
  <1>5. 0 \in P
    <2>1. at[0] \in Nat /\ 0 \in 0 .. L
      BY <1>2, <1>3
    <2>2. \A p \in 0 .. 0 : p = 0
      OBVIOUS
    <2> QED
      BY <2>1, <2>2
  <1>6. ASSUME NEW q \in 1 .. L, q - 1 \in P PROVE q \in P
    <2>0. q \in 0 .. L /\ q - 1 \in 0 .. L
      BY <1>2
    <2> SUFFICES ASSUME NEW p \in 0 .. q
                 PROVE  at[p] =< at[q] /\ \A i \in 1 .. at[p] : b[q][i] = b[p][i]
      BY <2>0
    <2>1. CASE p = q
      BY <1>3, <2>0, <2>1
    <2>2. CASE p # q
      <3>1. p \in 0 .. q - 1 /\ p \in 0 .. L
        BY <1>2, <2>0, <2>2
      <3>2. at[p] =< at[q - 1] /\ \A i \in 1 .. at[p] : b[q - 1][i] = b[p][i]
        BY <1>6, <3>1
      <3>3. at[p] \in Nat /\ at[q - 1] \in Nat /\ at[q] \in Nat
        BY <1>3, <2>0, <3>1
      <3>4. /\ at[q] = at[q - 1] + Len(V(q)) /\ Len(V(q)) \in Nat
            /\ \A i \in 1 .. at[q - 1] : b[q][i] = b[q - 1][i]
        BY <1>4
      <3>5. at[p] =< at[q]
        BY <3>2, <3>3, <3>4
      <3>6. ASSUME NEW i \in 1 .. at[p] PROVE b[q][i] = b[p][i]
        <4>1. i \in 1 .. at[q - 1]
          BY <3>2, <3>3
        <4> QED
          BY <3>2, <3>4, <4>1
      <3> QED
        BY <3>5, <3>6
    <2> QED
      BY <2>1, <2>2
  <1> HIDE DEF P
  <1>7. \A q \in 0 .. L : q \in P
    BY <1>2, <1>5, <1>6, InductTo
  <1>8. L \in 0 .. L /\ 0 \in 0 .. L
    BY <1>2
  <1>9. \A p \in 0 .. L : at[p] =< at[L] /\ \A i \in 1 .. at[p] : b[L][i] = b[p][i]
    BY <1>7, <1>8 DEF P
  <1>10. at[0] = 0 /\ at[L] = Len(SessionBytes(pages))
    BY <1>1, <1>3, <1>8, EmptySeq
  <1>11. ASSUME NEW p \in 1 .. L, NEW i \in 1 .. Len(V(p))
         PROVE  V(p)[i] = SessionBytes(pages)[at[p - 1] + i]
    <2>1. /\ at[p - 1] \in Nat /\ at[p] = at[p - 1] + Len(V(p)) /\ Len(V(p)) \in Nat
          /\ b[p][at[p - 1] + i] = V(p)[i] /\ p \in 0 .. L
      BY <1>3, <1>4
    <2>2. at[p - 1] + i \in 1 .. at[p]
      BY <2>1
    <2> QED
      BY <1>1, <1>9, <2>1, <2>2
  <1> QED
    BY <1>4, <1>10, <1>11 DEF L, V

(* The pages the worker asks for: no more when the next session begins in   *)
(* the one that came.                                                      *)
Asked == { pages \in Seq(Seq(Byte)) : \A p \in 1 .. Len(pages) - 1 : Ends(pages[p], p = 1) = {} }

(* A download tells the samples of a session whole, each once, in order and *)
(* with the right number, wherever the pages cut it; of the session's bytes *)
(* nothing is lost, and what is kept of an unfinished sample fits into      *)
(* wrappedval (processLogging and the request for the next page it sends).  *)
THEOREM DownloadTellsSamples ==
  ASSUME NEW mask \in Masks, NEW pages \in Asked
  PROVE  LET s     == Download(mask, pages)
             bytes == SessionBytes(pages)
         IN  /\ Len(bytes) = Width(mask) * s.samplecount + Len(s.wrapped)
             /\ Len(s.wrapped) < Width(mask) /\ Width(mask) =< WrapSize
             /\ Consecutive(s.events, s.samplecount)
             /\ InPlace(mask, bytes, s.events)
  <1> DEFINE L == Len(pages)
             bytes == SessionBytes(pages)
  <1>1. pages \in Seq(Seq(Byte)) /\ \A p \in 1 .. L - 1 : Ends(pages[p], p = 1) = {}
    BY DEF Asked
  <1>2. PICK at : /\ at[0] = 0 /\ at[L] = Len(bytes)
                  /\ \A p \in 1 .. L :
                       LET values == Values(pages[p], p = 1)
                       IN  /\ at[p] = at[p - 1] + Len(values)
                           /\ \A i \in 1 .. Len(values) : values[i] = bytes[at[p - 1] + i]
    BY <1>1, PagesInSession
  <1>3. PICK s : /\ s \in [0 .. L -> Sessions]
                 /\ s[0] = NewSession
                 /\ \A p \in 1 .. L :
                      s[p] = IF s[p - 1].over THEN s[p - 1]
                             ELSE processLogging(mask, s[p - 1], pages[p])
                 /\ Download(mask, pages) = s[L]
    BY <1>1, DownloadIsRun
  <1>4. L \in Nat /\ \A p \in 1 .. L : pages[p] \in Seq(Byte)
    BY <1>1, LenProperties, ElementOfSeq
  <1> HIDE DEF L, bytes
  <1> DEFINE P == { p \in 0 .. L : /\ HasDownloaded(mask, bytes, at[p], s[p])
                                   /\ s[p].page = p + 2
                                   /\ p < L => ~ s[p].over }
  <1>5. 0 \in P
    <2>1. NewSession.page = 0 + 2 /\ ~ NewSession.over
      BY DEF NewSession
    <2>2. HasDownloaded(mask, bytes, 0, NewSession)
      BY NothingDownloaded
    <2>3. 0 \in 0 .. L
      BY <1>4
    <2> QED
      BY <1>2, <1>3, <2>1, <2>2, <2>3
  <1>6. ASSUME NEW p \in 1 .. L, p - 1 \in P PROVE p \in P
    <2>1. p - 1 \in 0 .. L /\ p \in 0 .. L /\ p - 1 < L /\ (p - 1) + 2 = p + 1
      BY <1>4
    <2>2. s[p - 1] \in Sessions /\ pages[p] \in Seq(Byte)
      BY <1>3, <1>4, <2>1
    <2>3. /\ HasDownloaded(mask, bytes, at[p - 1], s[p - 1])
          /\ s[p - 1].page = p + 1 /\ ~ s[p - 1].over
      BY <1>6, <2>1
    <2>4. s[p] = processLogging(mask, s[p - 1], pages[p])
      BY <1>3, <2>3
    <2>5. (s[p - 1].page = 2) = (p = 1)
      BY <2>1, <2>3
    <2> DEFINE values == Values(pages[p], p = 1)
    <2>6. /\ at[p] = at[p - 1] + Len(values)
          /\ \A i \in 1 .. Len(values) : values[i] = bytes[at[p - 1] + i]
          /\ values = Values(pages[p], s[p - 1].page = 2)
      BY <1>2, <2>5
    <2> HIDE DEF values
    <2>7. HasDownloaded(mask, bytes, at[p], s[p])
      BY <2>2, <2>3, <2>4, <2>6, PageStep
    <2>8. s[p].page = p + 2 /\ s[p].over = (Ends(pages[p], p = 1) # {})
      <3>1. /\ s[p].page = s[p - 1].page + 1
            /\ s[p].over = (Ends(pages[p], s[p - 1].page = 2) # {})
        BY <2>4 DEF processLogging
      <3> QED
        BY <2>1, <2>3, <2>5, <3>1
    <2>9. p < L => ~ s[p].over
      <3> SUFFICES ASSUME p < L PROVE ~ s[p].over
        OBVIOUS
      <3>1. p \in 1 .. L - 1
        BY <1>4
      <3> QED
        BY <1>1, <2>8, <3>1 DEF L
    <2> QED
      BY <2>1, <2>7, <2>8, <2>9
  <1> HIDE DEF P
  <1>7. \A p \in 0 .. L : p \in P
    BY <1>4, <1>5, <1>6, InductTo
  <1>8. L \in 0 .. L
    BY <1>4
  <1>9. HasDownloaded(mask, bytes, at[L], s[L])
    BY <1>7, <1>8 DEF P
  <1>10. Width(mask) =< WrapSize
    BY MaskFacts DEF WrapSize
  <1> QED
    BY <1>2, <1>3, <1>9, <1>10 DEF HasDownloaded, Offset, bytes, L

-----------------------------------------------------------------------------
(* The pages of a memory.                                                  *)

(* More pages have no fewer bytes.                                         *)
LEMMA Multiples ==
  ASSUME NEW l \in Nat, NEW a \in Nat, NEW b \in Nat, a =< b
  PROVE  /\ l * a \in Nat /\ l * b \in Nat
         /\ l * a =< l * b
         /\ l * (a + 1) = l * a + l
  <1>1. b = a + (b - a) /\ b - a \in Nat
    OBVIOUS
  <1>2. l * (b - a) \in Nat
    BY <1>1
  <1>3. l * b = l * a + l * (b - a)
    BY <1>1
  <1>4. l * a \in Nat /\ l * (a + 1) = l * a + l
    OBVIOUS
  <1> QED
    BY <1>2, <1>3, <1>4

(* A memory of whole pages is its number of pages times their length.      *)
LEMMA WholePages ==
  ASSUME NEW m \in Nat, NEW l \in Nat, l > 0, m % l = 0
  PROVE  m \div l \in Nat /\ m = l * (m \div l)
  OBVIOUS

(* Byte e, counted from 0, is on one of q pages.                           *)
LEMMA PageOf ==
  ASSUME NEW l \in Nat, NEW q \in Nat, NEW e \in Nat, e < l * q
  PROVE  \E k \in 1 .. q : l * (k - 1) =< e /\ e < l * k
  <1> DEFINE S == { k \in Nat : e < l * k }
  <1>1. q \in S
    OBVIOUS
  <1>2. PICK k \in S : \A j \in S : k =< j
    BY <1>1, Least
  <1>3. k \in Nat /\ e < l * k /\ k =< q
    BY <1>1, <1>2
  <1>4. k # 0
    BY <1>3
  <1>5. k - 1 \in Nat /\ k - 1 \notin S
    BY <1>2, <1>3, <1>4
  <1>6. l * (k - 1) \in Nat
    BY <1>5
  <1>7. l * (k - 1) =< e
    BY <1>5, <1>6
  <1> QED
    BY <1>3, <1>4, <1>7

(* The part of the memory that a page has: l bytes behind the first o.      *)
IsPage(page, memory, o, l) ==
  /\ page \in Seq(Byte) /\ Len(page) = l
  /\ \A i \in 1 .. l : page[i] = memory[o + i]

(* The first values of a page and the last ones, if the values of the        *)
(* session lie behind the first bytes up to number end.                    *)
From(o, first)   == IF o = 0 THEN first + 1 ELSE 1
Upto(o, l, end)  == IF end < o + l THEN end - o ELSE l

(* The bytes from number first + 1 to end are the values of a session whose *)
(* header comes before them.                                               *)
SessionAt(memory, at, first, end) ==
  /\ first = at + 12 /\ first < end
  /\ IsHeader(memory, at + 1) /\ \A i \in 1 .. at : ~ IsHeader(memory, i)
  /\ IsHeader(memory, end + 1) /\ \A i \in first + 1 .. end : ~ IsHeader(memory, i)

(* The page is one of those with the session, and does not cut the header   *)
(* behind it.                                                              *)
PageAt(o, l, first, end) ==
  /\ first < end /\ first =< l /\ o =< end
  /\ o = 0 \/ o >= l
  /\ end < o + l => end + 2 =< o + l

(* The search for headers finds where the values begin on the first page   *)
(* and where they end on the last one, and nothing else.                   *)
Found(page, o, l, first, end) ==
  /\ Start(page, o = 0) = From(o, first)
  /\ Ends(page, o = 0) # {} <=> end < o + l
  /\ end < o + l => Min(Ends(page, o = 0)) = end + 1 - o

LEMMA HeadersFound ==
  ASSUME NEW memory, NEW o \in Nat, NEW l \in Nat, NEW page, IsPage(page, memory, o, l),
         NEW at \in Nat, NEW first \in Nat, NEW end \in Nat,
         SessionAt(memory, at, first, end), PageAt(o, l, first, end)
  PROVE  Found(page, o, l, first, end)
  <1> DEFINE H == Headers(page)
             E == Ends(page, o = 0)
  <1> USE DEF SessionAt, PageAt
  <1>1. \A i \in 1 .. l - 1 : i \in H <=> IsHeader(memory, o + i)
    <2> SUFFICES ASSUME NEW i \in 1 .. l - 1 PROVE i \in H <=> IsHeader(memory, o + i)
      OBVIOUS
    <2>1. i \in H <=> page[i] = 255 /\ page[i + 1] = 255
      BY DEF Headers, IsPage
    <2>2. i \in 1 .. l /\ i + 1 \in 1 .. l /\ o + (i + 1) = o + i + 1
      OBVIOUS
    <2>3. page[i] = memory[o + i] /\ page[i + 1] = memory[o + i + 1]
      BY <2>2 DEF IsPage
    <2> QED
      BY <2>1, <2>3 DEF IsHeader
  <1>2. H \subseteq 1 .. l - 1 /\ H \subseteq Nat
    BY DEF Headers, IsPage
  <1>3. /\ SkipsHeader(page, o = 0) <=> o = 0
        /\ Start(page, o = 0) = From(o, first)
    <2>1. CASE o = 0
      <3>1. at + 1 \in 1 .. l - 1 /\ o + (at + 1) = at + 1
        BY <2>1
      <3>2. at + 1 \in H
        BY <1>1, <3>1
      <3>3. Min(H) \in H /\ \A y \in H : Min(H) =< y
        BY <1>2, <3>2, MinIsLeast
      <3> DEFINE m == Min(H)
      <3>4. m \in 1 .. l - 1 /\ m =< at + 1 /\ IsHeader(memory, o + m)
        BY <1>1, <1>2, <3>2, <3>3
      <3> HIDE DEF m
      <3>5. o + m = m
        BY <2>1, <3>4
      <3>6. m \notin 1 .. at
        BY <3>4, <3>5
      <3>7. m = at + 1
        BY <3>4, <3>6
      <3>8. SkipsHeader(page, o = 0)
        BY <2>1, <3>2 DEF SkipsHeader
      <3>9. Start(page, o = 0) = m + 12
        BY <3>8 DEF Start, HeaderLength, m
      <3> QED
        BY <2>1, <3>7, <3>8, <3>9 DEF From
    <2>2. CASE o # 0
      BY <2>2 DEF SkipsHeader, Start, From
    <2> QED
      BY <2>1, <2>2
  <1>4. \A i : i \in E <=> i \in H /\ (o = 0 => i > first + 1)
    BY <1>3 DEF Ends, From
  <1> HIDE DEF H, E
  <1>5. \A i \in E : i \in 1 .. l - 1 /\ o + i > end
    <2> SUFFICES ASSUME NEW i \in E PROVE i \in 1 .. l - 1 /\ o + i > end
      OBVIOUS
    <2>1. i \in 1 .. l - 1 /\ IsHeader(memory, o + i) /\ (o = 0 => i > first + 1)
      BY <1>1, <1>2, <1>4
    <2>2. o + i \in Nat /\ o + i >= first + 1
      BY <2>1
    <2>3. o + i \notin first + 1 .. end
      BY <2>1
    <2> QED
      BY <2>1, <2>2, <2>3
  <1>6. ASSUME end < o + l PROVE E # {} /\ Min(E) = end + 1 - o
    <2>1. end + 1 - o \in 1 .. l - 1 /\ o + (end + 1 - o) = end + 1
      BY <1>6
    <2>2. end + 1 - o \in H
      BY <1>1, <2>1
    <2>3. end + 1 - o \in E
      BY <1>4, <2>1, <2>2
    <2>4. E \subseteq Nat
      BY <1>5
    <2>5. Min(E) \in E /\ Min(E) =< end + 1 - o
      BY <2>3, <2>4, MinIsLeast
    <2> DEFINE m == Min(E)
    <2>6. m \in 1 .. l - 1 /\ o + m > end /\ m =< end + 1 - o
      BY <1>5, <2>5
    <2> HIDE DEF m
    <2>7. m = end + 1 - o
      BY <2>6
    <2> QED
      BY <2>3, <2>7 DEF m
  <1>7. ASSUME ~ (end < o + l) PROVE E = {}
    BY <1>5, <1>7
  <1> QED
    BY <1>3, <1>6, <1>7 DEF E, Found

(* The bytes got from the pages before and with this one, counted from the   *)
(* first value of the session.                                             *)
GotBefore(o, first)     == IF o = 0 THEN 0 ELSE o - first
GotWith(o, l, first, end) == (IF end < o + l THEN end ELSE o + l) - first

LEMMA GotNumbers ==
  ASSUME NEW o \in Nat, NEW l \in Nat, NEW first \in Nat, NEW end \in Nat,
         PageAt(o, l, first, end)
  PROVE  /\ From(o, first) \in Nat /\ From(o, first) >= 1
         /\ Upto(o, l, end) \in Nat /\ Upto(o, l, end) =< l
         /\ Upto(o, l, end) - From(o, first) + 1 = GotWith(o, l, first, end) - GotBefore(o, first)
         /\ o + From(o, first) - 1 = first + GotBefore(o, first)
         /\ From(o, first) =< Upto(o, l, end) + 1
         /\ GotBefore(o, first) \in Nat /\ GotWith(o, l, first, end) \in Nat
         /\ GotBefore(o, first) =< GotWith(o, l, first, end)
         /\ GotWith(o, l, first, end) =< end - first
  BY DEF PageAt, From, Upto, GotBefore, GotWith

(* So its values are the next bytes of the session.                        *)
PageHas(page, memory, o, l, first, end) ==
  /\ Ends(page, o = 0) # {} <=> end < o + l
  /\ Len(Values(page, o = 0)) = GotWith(o, l, first, end) - GotBefore(o, first)
  /\ \A i \in 1 .. Len(Values(page, o = 0)) :
       Values(page, o = 0)[i] = memory[first + (GotBefore(o, first) + i)]

LEMMA PageCut ==
  ASSUME NEW memory, NEW o \in Nat, NEW l \in Nat, NEW page, IsPage(page, memory, o, l),
         NEW at \in Nat, NEW first \in Nat, NEW end \in Nat,
         SessionAt(memory, at, first, end), PageAt(o, l, first, end)
  PROVE  PageHas(page, memory, o, l, first, end)
  <1> DEFINE from == From(o, first)
             upto == Upto(o, l, end)
             before == GotBefore(o, first)
             values == Values(page, o = 0)
  <1>1. /\ Start(page, o = 0) = from
        /\ Ends(page, o = 0) # {} <=> end < o + l
        /\ end < o + l => Min(Ends(page, o = 0)) = end + 1 - o
    <2>1. Found(page, o, l, first, end)
      BY HeadersFound
    <2> QED
      BY <2>1 DEF Found
  <1>2. /\ from \in Nat /\ from >= 1 /\ upto \in Nat /\ upto =< l /\ from =< upto + 1
        /\ upto - from + 1 = GotWith(o, l, first, end) - before
        /\ o + from - 1 = first + before /\ before \in Nat
    BY GotNumbers
  <1>3. values = SubSeq(page, from, upto)
    <2>1. Len(page) = l
      BY DEF IsPage
    <2>2. CASE end < o + l
      <3>1. Min(Ends(page, o = 0)) - 1 = end - o
        BY <1>1, <2>2
      <3> QED
        BY <1>1, <2>2, <3>1 DEF Values, Upto
    <2>3. CASE ~ (end < o + l)
      BY <1>1, <2>1, <2>3 DEF Values, Upto
    <2> QED
      BY <2>2, <2>3
  <1> HIDE DEF from, upto, values, before
  <1>4. /\ Len(values) = IF from =< upto THEN upto - from + 1 ELSE 0
        /\ \A i \in 1 .. upto - from + 1 : values[i] = page[from + i - 1]
    <2>1. \A i \in 1 .. l : page[i] \in Byte
      BY ElementOfSeq DEF IsPage
    <2>2. from \in Int /\ upto \in Int /\ \A i \in from .. upto : page[i] \in Byte
      BY <1>2, <2>1
    <2> QED
      BY <1>3, <2>2, SubSeqProperties
  <1>5. Len(values) = upto - from + 1
    BY <1>2, <1>4
  <1>6. ASSUME NEW i \in 1 .. upto - from + 1 PROVE values[i] = memory[first + (before + i)]
    <2>1. from + i - 1 \in 1 .. l /\ o + (from + i - 1) = first + (before + i)
      BY <1>2
    <2>2. page[from + i - 1] = memory[o + (from + i - 1)]
      BY <2>1 DEF IsPage
    <2> QED
      BY <1>4, <2>1, <2>2
  <1> QED
    BY <1>1, <1>2, <1>5, <1>6 DEF values, before, PageHas

(* The bytes of the session on its first p pages, if it ends on page k.     *)
CutAt(l, first, end, k) ==
  first < end /\ first =< l /\ l * (k - 1) =< end /\ end + 2 =< l * k
Got(l, first, end, p) == IF p = 0 THEN 0 ELSE (IF end < l * p THEN end ELSE l * p) - first

LEMMA PageNumbers ==
  ASSUME NEW l \in Nat, NEW first \in Nat, NEW end \in Nat, NEW k \in Nat,
         CutAt(l, first, end, k), NEW p \in 1 .. k
  PROVE  /\ l * (p - 1) \in Nat
         /\ PageAt(l * (p - 1), l, first, end)
         /\ end < l * (p - 1) + l <=> p = k
         /\ GotBefore(l * (p - 1), first) = Got(l, first, end, p - 1)
         /\ GotWith(l * (p - 1), l, first, end) = Got(l, first, end, p)
  <1> DEFINE o == l * (p - 1)
             lastpage == l * (k - 1)
  <1>1. p - 1 \in Nat /\ k - 1 \in Nat /\ (p - 1) + 1 = p /\ p - 1 =< k - 1 /\ (k - 1) + 1 = k
    OBVIOUS
  <1>2. o \in Nat /\ lastpage \in Nat /\ o =< lastpage /\ l * p = o + l /\ l * k = lastpage + l
    <2>1. o \in Nat /\ lastpage \in Nat /\ o =< lastpage /\ l * ((p - 1) + 1) = o + l
      BY <1>1, Multiples
    <2>2. l * ((k - 1) + 1) = lastpage + l
      BY <1>1, Multiples
    <2> QED
      BY <1>1, <2>1, <2>2
  <1>3. p = 1 => o = 0
    OBVIOUS
  <1>4. p # 1 => o >= l
    <2> SUFFICES ASSUME p # 1 PROVE o >= l
      OBVIOUS
    <2>1. 1 \in Nat /\ 1 =< p - 1 /\ l * 1 = l
      OBVIOUS
    <2>2. l * 1 =< o
      BY <1>1, <2>1, Multiples
    <2> QED
      BY <2>1, <2>2
  <1>5. p # k => l * p =< lastpage
    <2> SUFFICES ASSUME p # k PROVE l * p =< lastpage
      OBVIOUS
    <2>1. p \in Nat /\ p =< k - 1
      OBVIOUS
    <2> QED
      BY <1>1, <2>1, Multiples
  <1>6. /\ first < end /\ first =< l /\ lastpage =< end /\ end + 2 =< lastpage + l
    BY <1>2 DEF CutAt
  <1>7. p = k => o = lastpage
    OBVIOUS
  <1> DEFINE op == l * p
  <1>8. op = o + l /\ (p # k => op =< lastpage)
    BY <1>2, <1>5
  <1>9. /\ GotBefore(o, first) = IF o = 0 THEN 0 ELSE o - first
        /\ Got(l, first, end, p - 1) = IF p - 1 = 0 THEN 0 ELSE (IF end < o THEN end ELSE o) - first
        /\ GotWith(o, l, first, end) = (IF end < o + l THEN end ELSE o + l) - first
        /\ Got(l, first, end, p) = IF p = 0 THEN 0 ELSE (IF end < op THEN end ELSE op) - first
    BY DEF GotBefore, GotWith, Got
  <1> HIDE DEF o, op, lastpage
  <1>10. PageAt(o, l, first, end)
    BY <1>2, <1>3, <1>4, <1>6, <1>7, <1>8 DEF PageAt
  <1>11. end < o + l <=> p = k
    BY <1>2, <1>6, <1>7, <1>8
  <1>12. GotBefore(o, first) = Got(l, first, end, p - 1)
    BY <1>2, <1>3, <1>4, <1>6, <1>9
  <1>13. GotWith(o, l, first, end) = Got(l, first, end, p)
    BY <1>2, <1>6, <1>8, <1>9
  <1> QED
    BY <1>2, <1>10, <1>11, <1>12, <1>13 DEF o

(* The pages of a memory are the parts of it.                              *)
LEMMA MemoryPages ==
  ASSUME NEW memory \in Seq(Byte), NEW l \in Nat, l > 0, Len(memory) % l = 0
  PROVE  LET pages == Pages(memory, l)
         IN  /\ pages \in Seq(Seq(Byte)) /\ Len(pages) = Len(memory) \div l
             /\ Len(pages) \in Nat /\ Len(memory) = l * Len(pages)
             /\ \A p \in 1 .. Len(pages) : IsPage(pages[p], memory, l * (p - 1), l)
  <1> DEFINE q == Len(memory) \div l
             Page(p) == SubSeq(memory, l * (p - 1) + 1, l * p)
             pages == Pages(memory, l)
  <1>1. Len(memory) \in Nat /\ \A i \in 1 .. Len(memory) : memory[i] \in Byte
    BY LenProperties, ElementOfSeq
  <1>2. q \in Nat /\ Len(memory) = l * q
    BY <1>1, WholePages
  <1>3. pages = [p \in 1 .. q |-> Page(p)]
    BY DEF Pages
  <1> HIDE DEF q, pages
  <1>4. ASSUME NEW p \in 1 .. q PROVE Page(p) \in Seq(Byte) /\ IsPage(Page(p), memory, l * (p - 1), l)
    <2> DEFINE o == l * (p - 1)
               to == l * p
    <2>1. o \in Nat /\ to = o + l /\ to =< Len(memory)
      <3>1. p - 1 \in Nat /\ p \in Nat /\ p - 1 =< p /\ (p - 1) + 1 = p /\ p =< q
        BY <1>2
      <3>2. o \in Nat /\ l * ((p - 1) + 1) = o + l
        BY <3>1, Multiples
      <3>3. l * p =< l * q
        BY <1>2, <3>1, Multiples
      <3> QED
        BY <1>2, <3>1, <3>2, <3>3
    <2>2. Page(p) = SubSeq(memory, o + 1, to)
      OBVIOUS
    <2> HIDE DEF Page, o, to
    <2>3. o + 1 \in Int /\ to \in Int /\ \A i \in o + 1 .. to : memory[i] \in Byte
      BY <1>1, <2>1
    <2>4. /\ Page(p) \in Seq(Byte)
          /\ Len(Page(p)) = IF o + 1 <= to THEN to - (o + 1) + 1 ELSE 0
          /\ \A i \in 1 .. to - (o + 1) + 1 : Page(p)[i] = memory[(o + 1) + i - 1]
      BY <2>2, <2>3, SubSeqProperties
    <2>5. to - (o + 1) + 1 = l /\ (o + 1 <= to) /\ \A i \in 1 .. l : (o + 1) + i - 1 = o + i
      BY <2>1
    <2>6. Len(Page(p)) = l /\ \A i \in 1 .. l : Page(p)[i] = memory[o + i]
      BY <2>4, <2>5
    <2> QED
      BY <2>4, <2>6 DEF IsPage, o
  <1> HIDE DEF Page
  <1>5. pages \in Seq(Seq(Byte)) /\ Len(pages) = q
    BY <1>2, <1>3, <1>4, IsASeq, LenProperties
  <1>6. \A p \in 1 .. q : pages[p] = Page(p)
    BY <1>3
  <1> QED
    BY <1>2, <1>4, <1>5, <1>6 DEF pages, q

(* Whole samples and less than one more are n samples: there is no more.    *)
LEMMA NoRest ==
  ASSUME NEW v \in Nat, NEW n \in Nat, NEW q \in Nat, NEW r \in Nat, r < v, v * n = v * q + r
  PROVE  q = n /\ r = 0
  <1>1. v * n \in Nat /\ v * q \in Nat
    OBVIOUS
  <1>2. ~ (q + 1 =< n)
    <2> SUFFICES ASSUME q + 1 =< n PROVE FALSE
      OBVIOUS
    <2>1. q + 1 \in Nat /\ v * (q + 1) =< v * n
      BY Multiples
    <2>2. q =< q /\ v * (q + 1) = v * q + v
      BY Multiples
    <2> QED
      BY <1>1, <2>1, <2>2
  <1>3. ~ (n + 1 =< q)
    <2> SUFFICES ASSUME n + 1 =< q PROVE FALSE
      OBVIOUS
    <2>1. n + 1 \in Nat /\ v * (n + 1) =< v * q
      BY Multiples
    <2>2. n =< n /\ v * (n + 1) = v * n + v
      BY Multiples
    <2> QED
      BY <1>1, <2>1, <2>2
  <1>4. q = n
    BY <1>2, <1>3
  <1> QED
    BY <1>1, <1>4

(* The page a session ends on, which has the first byte of what comes behind *)
(* it and, since addresses are even, the second one.                       *)
LEMMA SessionEnd ==
  ASSUME NEW l \in Nat, NEW q \in Nat, NEW first \in Nat, NEW end \in Nat,
         l % 2 = 0, end % 2 = 0, first < end, first =< l, end + 2 =< l * q
  PROVE  \E k \in 1 .. q : CutAt(l, first, end, k)
  <1>1. PICK k \in 1 .. q : l * (k - 1) =< end /\ end < l * k
    <2>1. l * q \in Nat
      OBVIOUS
    <2>2. end < l * q
      BY <2>1
    <2> QED
      BY <2>2, PageOf
  <1>2. (l * k) % 2 = 0
    <2>1. l \div 2 \in Nat /\ l = 2 * (l \div 2)
      OBVIOUS
    <2> DEFINE h == l \div 2
    <2>2. h * k \in Nat /\ l * k = 2 * (h * k)
      BY <2>1
    <2> DEFINE j == h * k
    <2> HIDE DEF j
    <2>3. j \in Nat /\ l * k = 2 * j
      BY <2>2 DEF j
    <2>4. (2 * j) % 2 = 0
      BY <2>3
    <2> QED
      BY <2>3, <2>4
  <1> DEFINE lk == l * k
  <1>3. lk \in Nat /\ lk % 2 = 0 /\ end < lk
    BY <1>1, <1>2
  <1> HIDE DEF lk
  <1>4. end + 2 =< lk
    BY <1>3
  <1> QED
    BY <1>1, <1>4 DEF CutAt, lk

(* A download that has come to the last page of a session has all its bytes; *)
(* and it is over then.                                                    *)
LEMMA SessionPages ==
  ASSUME NEW mask \in Masks, NEW memory, NEW l \in Nat, NEW at \in Nat,
         NEW first \in Nat, NEW end \in Nat, NEW k \in Nat,
         SessionAt(memory, at, first, end), CutAt(l, first, end, k),
         NEW pages \in Seq(Seq(Byte)), k \in 1 .. Len(pages),
         \A p \in 1 .. Len(pages) : IsPage(pages[p], memory, l * (p - 1), l)
  PROVE  LET t     == Download(mask, pages)
             bytes == [i \in 1 .. end - first |-> memory[first + i]]
         IN  t \in Sessions /\ t.over /\ HasDownloaded(mask, bytes, end - first, t)
  <1> DEFINE L == Len(pages)
             bytes == [i \in 1 .. end - first |-> memory[first + i]]
             got(p) == Got(l, first, end, p)
  <1>1. PICK s : /\ s \in [0 .. L -> Sessions]
                 /\ s[0] = NewSession
                 /\ \A p \in 1 .. L :
                      s[p] = IF s[p - 1].over THEN s[p - 1]
                             ELSE processLogging(mask, s[p - 1], pages[p])
                 /\ Download(mask, pages) = s[L]
    BY DownloadIsRun
  <1>2. L \in Nat /\ k \in 1 .. L /\ \A p \in 1 .. L : pages[p] \in Seq(Byte)
    BY LenProperties, ElementOfSeq
  <1>3. first < end
    BY DEF CutAt
  <1> HIDE DEF L
  <1> DEFINE P == { p \in 0 .. k : /\ HasDownloaded(mask, bytes, got(p), s[p])
                                   /\ s[p].page = p + 2
                                   /\ s[p].over <=> p = k }
  <1>4. 0 \in P
    <2>1. NewSession.page = 0 + 2 /\ ~ NewSession.over
      BY DEF NewSession
    <2>2. HasDownloaded(mask, bytes, 0, NewSession)
      BY NothingDownloaded
    <2>3. 0 \in 0 .. k /\ 0 # k /\ got(0) = 0
      BY <1>2 DEF Got
    <2> HIDE DEF got, bytes
    <2> QED
      BY <1>1, <2>1, <2>2, <2>3
  <1>5. ASSUME NEW p \in 1 .. k, p - 1 \in P PROVE p \in P
    <2>1. p - 1 \in 0 .. k /\ p \in 0 .. k /\ p - 1 # k /\ (p - 1) + 2 = p + 1 /\ p \in 1 .. L
          /\ p - 1 \in 0 .. L
      BY <1>2
    <2>2. s[p - 1] \in Sessions /\ pages[p] \in Seq(Byte)
      BY <1>1, <1>2, <2>1
    <2>3. /\ HasDownloaded(mask, bytes, got(p - 1), s[p - 1])
          /\ s[p - 1].page = p + 1 /\ ~ s[p - 1].over
      BY <1>5, <2>1
    <2>4. s[p] = processLogging(mask, s[p - 1], pages[p])
      BY <1>1, <2>1, <2>3
    <2> DEFINE o == l * (p - 1)
               values == Values(pages[p], o = 0)
    <2>5. /\ o \in Nat /\ PageAt(o, l, first, end) /\ (end < o + l <=> p = k)
          /\ GotBefore(o, first) = got(p - 1) /\ GotWith(o, l, first, end) = got(p)
      BY PageNumbers
    <2>6. (s[p - 1].page = 2) = (o = 0)
      <3>1. p = 1 => o = 0
        OBVIOUS
      <3>2. p # 1 => o # 0
        <4> SUFFICES ASSUME p # 1 PROVE o # 0
          OBVIOUS
        <4>1. l \in Nat \ {0}
          BY <1>3 DEF CutAt
        <4>2. p - 1 \in Nat \ {0}
          BY <1>2
        <4> QED
          BY <4>1, <4>2
      <3> HIDE DEF o
      <3> QED
        BY <2>1, <2>3, <3>1, <3>2
    <2>7. IsPage(pages[p], memory, o, l)
      BY <2>1 DEF L
    <2> HIDE DEF o
    <2>8. /\ Ends(pages[p], o = 0) # {} <=> end < o + l
          /\ Len(values) = got(p) - got(p - 1)
          /\ \A i \in 1 .. Len(values) : values[i] = memory[first + (got(p - 1) + i)]
      <3>1. /\ Ends(pages[p], o = 0) # {} <=> end < o + l
            /\ Len(values) = GotWith(o, l, first, end) - GotBefore(o, first)
            /\ \A i \in 1 .. Len(values) : values[i] = memory[first + (GotBefore(o, first) + i)]
        <4>1. PageHas(pages[p], memory, o, l, first, end)
          BY <2>5, <2>7, PageCut
        <4> QED
          BY <4>1 DEF PageHas
      <3> HIDE DEF got, values
      <3> QED
        BY <2>5, <3>1
    <2>9. /\ got(p) \in Nat /\ got(p - 1) \in Nat /\ got(p) =< end - first
      <3>1. GotBefore(o, first) \in Nat /\ GotWith(o, l, first, end) \in Nat
            /\ GotWith(o, l, first, end) =< end - first
        BY <2>5, GotNumbers
      <3> HIDE DEF got
      <3> QED
        BY <2>5, <3>1
    <2>10. values = Values(pages[p], s[p - 1].page = 2)
      BY <2>6
    <2> HIDE DEF got, values
    <2>11. \A i \in 1 .. Len(values) : values[i] = bytes[got(p - 1) + i]
      <3> SUFFICES ASSUME NEW i \in 1 .. Len(values) PROVE values[i] = bytes[got(p - 1) + i]
        OBVIOUS
      <3>1. got(p - 1) + i \in 1 .. end - first
        BY <1>3, <2>8, <2>9
      <3>2. bytes[got(p - 1) + i] = memory[first + (got(p - 1) + i)]
        BY <3>1
      <3> QED
        BY <2>8, <3>2
    <2>12. got(p - 1) + Len(values) = got(p)
      BY <2>8, <2>9
    <2> HIDE DEF bytes
    <2>13. HasDownloaded(mask, bytes, got(p), s[p])
      <3>1. HasDownloaded(mask, bytes, got(p - 1) + Len(Values(pages[p], s[p - 1].page = 2)),
                          processLogging(mask, s[p - 1], pages[p]))
        BY <2>2, <2>3, <2>10, <2>11, PageStep
      <3> QED
        BY <2>4, <2>10, <2>12, <3>1
    <2>14. s[p].page = p + 2 /\ s[p].over = (Ends(pages[p], o = 0) # {})
      <3>1. /\ s[p].page = s[p - 1].page + 1
            /\ s[p].over = (Ends(pages[p], s[p - 1].page = 2) # {})
        BY <2>4 DEF processLogging
      <3> QED
        BY <2>1, <2>3, <2>6, <3>1
    <2>15. s[p].over <=> p = k
      BY <2>5, <2>8, <2>14
    <2> QED
      BY <2>1, <2>13, <2>14, <2>15
  <1> HIDE DEF P
  <1>6. \A p \in 0 .. k : p \in P
    BY <1>2, <1>4, <1>5, InductTo
  <1>7. k \in 0 .. k /\ k \in Nat
    BY <1>2
  <1>8. s[k].over /\ HasDownloaded(mask, bytes, got(k), s[k])
    BY <1>6, <1>7 DEF P
  <1>9. got(k) = end - first
    <2>1. end < l * k /\ k # 0
      <3>1. l * k \in Nat
        BY <1>7
      <3>2. end + 2 =< l * k
        BY DEF CutAt
      <3> QED
        BY <1>2, <3>1, <3>2
    <2> QED
      BY <2>1 DEF Got
  <1> DEFINE R == { p \in 0 .. L : p >= k => s[p] = s[k] }
  <1>10. 0 \in R
    BY <1>2
  <1>11. ASSUME NEW p \in 1 .. L, p - 1 \in R PROVE p \in R
    <2>1. p \in 0 .. L /\ p - 1 \in 0 .. L
      BY <1>2
    <2>2. CASE p =< k
      BY <1>7, <2>1, <2>2
    <2>3. CASE ~ (p =< k)
      <3>1. p - 1 >= k
        BY <1>2, <2>3
      <3>2. s[p - 1] = s[k]
        BY <1>11, <3>1
      <3>3. s[p] = s[k]
        BY <1>1, <1>8, <3>2
      <3> QED
        BY <2>1, <3>3
    <2> QED
      BY <2>2, <2>3
  <1> HIDE DEF R
  <1>12. \A p \in 0 .. L : p \in R
    BY <1>2, <1>10, <1>11, InductTo
  <1>13. s[L] = s[k] /\ s[L] \in Sessions
    <2>1. L \in 0 .. L /\ L >= k
      BY <1>2
    <2>2. L \in R
      BY <1>12, <2>1
    <2> QED
      BY <1>1, <2>1, <2>2 DEF R
  <1> QED
    BY <1>1, <1>8, <1>9, <1>13

(* However the pages of a memory cut a session, a download of them decodes  *)
(* it: the search for headers finds where its values begin and where they  *)
(* end, and the samples come out whole, each once and in order, none lost   *)
(* and none made up of what lies behind (processLogging and its requests). *)
THEOREM SessionIsDecoded ==
  ASSUME NEW mask \in Masks, NEW length \in Nat, NEW at \in Nat, NEW n \in Nat \ {0},
         NEW memory, HoldsSession(memory, length, at, mask, n)
  PROVE  SessionDecoded(memory, length, at, mask, n)
  <1> DEFINE first == at + 12
             v     == Width(mask)
             end   == first + v * n
             pages == Pages(memory, length)
             bytes == [i \in 1 .. v * n |-> memory[first + i]]
             t     == Download(mask, pages)
  <1>1. v \in 4 .. 16 /\ v % 2 = 0
    <2>1. v \in 4 .. 16 /\ Cardinality(mask) \in Nat
      BY MaskFacts DEF WrapSize
    <2>2. v = 2 * Cardinality(mask)
      BY DEF Width
    <2> HIDE DEF v
    <2> QED
      BY <2>1, <2>2
  <1> HIDE DEF v
  <1>2. v * n \in Nat \ {0} /\ (v * n) % 2 = 0
    <2>1. v \div 2 \in Nat /\ v = 2 * (v \div 2) /\ v \div 2 # 0
      BY <1>1
    <2> DEFINE h == v \div 2
    <2>2. h * n \in Nat /\ h * n # 0 /\ v * n = 2 * (h * n)
      BY <2>1
    <2> DEFINE j == h * n
    <2>3. j \in Nat /\ j # 0 /\ v * n = 2 * j
      BY <2>2
    <2> HIDE DEF j
    <2>4. (2 * j) % 2 = 0 /\ 2 * j \in Nat \ {0}
      BY <2>3
    <2> QED
      BY <2>3, <2>4
  <1> DEFINE w == v * n
  <1>3. w \in Nat \ {0} /\ w % 2 = 0
    BY <1>2
  <1>4. /\ memory \in Seq(Byte) /\ Len(memory) % length = 0 /\ end + 2 =< Len(memory)
        /\ length % 2 = 0 /\ at % 2 = 0 /\ first =< length
        /\ IsHeader(memory, at + 1) /\ \A i \in 1 .. at : ~ IsHeader(memory, i)
        /\ IsHeader(memory, end + 1) /\ \A i \in first + 1 .. end : ~ IsHeader(memory, i)
    BY DEF HoldsSession, HeaderLength, v
  <1>5. end = first + w
    OBVIOUS
  <1> HIDE DEF w, end
  <1>6. first \in Nat /\ end \in Nat /\ first < end /\ length > 0 /\ end % 2 = 0
        /\ end - first = w
    BY <1>3, <1>4, <1>5
  <1>7. SessionAt(memory, at, first, end)
    BY <1>4, <1>6 DEF SessionAt
  <1>8. /\ pages \in Seq(Seq(Byte)) /\ Len(pages) \in Nat /\ Len(memory) = length * Len(pages)
        /\ \A p \in 1 .. Len(pages) : IsPage(pages[p], memory, length * (p - 1), length)
    BY <1>4, <1>6, MemoryPages
  <1> HIDE DEF first, pages
  <1>9. PICK k \in 1 .. Len(pages) : CutAt(length, first, end, k)
    BY <1>4, <1>6, <1>8, SessionEnd
  <1>10. k \in Nat
    BY <1>8
  <1>11. /\ t \in Sessions /\ t.over
         /\ HasDownloaded(mask, [i \in 1 .. end - first |-> memory[first + i]], end - first, t)
    BY <1>6, <1>7, <1>8, <1>9, <1>10, SessionPages
  <1>12. bytes = [i \in 1 .. end - first |-> memory[first + i]]
    BY <1>6 DEF w
  <1> HIDE DEF t, bytes
  <1>13. HasDownloaded(mask, bytes, w, t)
    BY <1>6, <1>11, <1>12
  <1>14. t.samplecount \in Nat /\ t.wrapped \in Seq(Byte)
    BY <1>11 DEF Sessions
  <1>15. Len(t.wrapped) \in Nat
    BY <1>14, LenProperties
  <1>16. w = v * t.samplecount + Len(t.wrapped) /\ Len(t.wrapped) < v
    BY <1>13 DEF HasDownloaded, Offset, v
  <1>17. t.samplecount = n /\ Len(t.wrapped) = 0
    <2>1. v \in Nat /\ v * n = v * t.samplecount + Len(t.wrapped)
      BY <1>1, <1>16 DEF w
    <2> QED
      BY <1>14, <1>15, <1>16, <2>1, NoRest
  <1>18. t.wrapped = << >>
    BY <1>14, <1>17, EmptySeq
  <1>19. Consecutive(t.events, n) /\ InPlace(mask, bytes, t.events)
    BY <1>13, <1>17 DEF HasDownloaded
  <1> QED
    BY <1>11, <1>18, <1>19 DEF SessionDecoded, HeaderLength, t, bytes, pages, first, v

(* A mask with two channels in it is one of those the theorems are about.   *)
LEMMA TwoChannels ==
  ASSUME NEW mask \in SUBSET Channels, NEW a \in mask, NEW b \in mask, a # b
  PROVE  mask \in Masks
  <1>1. mask \in SUBSET Nat /\ \A c \in mask : c =< 7
    BY DEF Channels
  <1>2. IsFiniteSet(mask)
    BY <1>1, FS_BoundedSetOfNaturals
  <1>3. IsFiniteSet({ a }) /\ Cardinality({ a }) = 1
    BY FS_Singleton
  <1>4. Cardinality({ a } \cup { b }) = 2
    BY <1>3, FS_AddElement
  <1>5. { a } \cup { b } \in SUBSET mask
    OBVIOUS
  <1>6. Cardinality({ a } \cup { b }) =< Cardinality(mask)
    BY <1>2, <1>5, FS_Subset
  <1>7. Cardinality(mask) \in Nat
    BY <1>2, FS_CardinalityType
  <1>8. Cardinality(mask) >= 2
    BY <1>4, <1>6, <1>7
  <1> QED
    BY <1>8 DEF Masks

(* So the sessions the runs try are decoded, as all others are.             *)
LEMMA NoneUndecoded == Undecoded = {}
  <1> SUFFICES ASSUME NEW x \in Tried, NEW memory,
                      HoldsSession(memory, x.length, x.at, x.mask, x.n)
               PROVE  SessionDecoded(memory, x.length, x.at, x.mask, x.n)
    BY DEF Undecoded
  <1>1. /\ x.mask \in { { 0, 1 }, { 0, 7 }, { 2, 4, 5 }, { 1, 2, 3, 6 }, Channels }
        /\ x.length \in Nat /\ x.at \in Nat /\ x.n \in Nat \ {0}
    BY DEF Tried
  <1>2. { 0, 1 } \in Masks /\ { 0, 7 } \in Masks
    BY TwoChannels DEF Channels
  <1>3. { 2, 4, 5 } \in Masks /\ { 1, 2, 3, 6 } \in Masks
    BY TwoChannels DEF Channels
  <1>4. Channels \in Masks
    BY TwoChannels DEF Channels
  <1>5. x.mask \in Masks
    BY <1>1, <1>2, <1>3, <1>4
  <1> QED
    BY <1>1, <1>5, SessionIsDecoded
=============================================================================
