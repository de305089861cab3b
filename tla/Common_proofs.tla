---------------------------- MODULE Common_proofs ----------------------------
(***************************************************************************)
(* What the code under src/common promises whoever calls it, for every     *)
(* number of groups, every group width and every sensor geometry.          *)
(*                                                                         *)
(* The codec: its words are nonempty, none is part of another, the decoder *)
(* accepts exactly them, and encoding and decoding are inverse to each     *)
(* other.  The first two are what AerRxPoll_proofs assumes of Words under  *)
(* the name DelayInsensitive.  Encoding and decoding run over the groups,  *)
(* so the proofs are by induction over them: the first section derives it  *)
(* from the well-foundedness of < on Nat, with a set in place of the       *)
(* predicate that an induction theorem would take.                         *)
(*                                                                         *)
(* The burst assembler: what it is fed leaves it with its types and with a *)
(* counter of the events it handed out.                                    *)
(***************************************************************************)
EXTENDS AerBurst, AerCodec, WellFoundedInduction, TLAPS

(* The least-number principle, for a set in place of a predicate. *)
LEMMA NatSetInduction ==
  ASSUME NEW S \in SUBSET Nat, 0 \in S, \A n \in S : n + 1 \in S
  PROVE  S = Nat
<1> DEFINE Less == {ss \in Nat \X Nat : ss[1] < ss[2]}
<1>1. OpToRel(<, Nat) = Less
  BY DEF OpToRel
<1>2. IsWellFoundedOn(Less, Nat)
  BY <1>1, NatLessThanWellFounded
<1> SUFFICES ASSUME Nat \ S # {} PROVE FALSE
  OBVIOUS
<1>3. PICK m \in Nat \ S : \A k \in Nat \ S : <<k, m>> \notin Less
  <2> HIDE DEF Less
  <2> QED
    BY <1>2, WFMin
<1>4. m # 0 /\ m - 1 \in Nat /\ m - 1 < m
  OBVIOUS
<1>5. m - 1 \in S
  BY <1>3, <1>4
<1> QED
  BY <1>4, <1>5

(* The functions on 0 .. n that start at c and follow the step G. *)
PartsOf(V, c, G, n) ==
  {f \in [0 .. n -> V] : f[0] = c /\ \A k \in 0 .. n - 1 : f[k + 1] = G[<<k, f[k]>>]}

(* Two of them agree wherever both are defined. *)
LEMMA PartsAgree ==
  ASSUME NEW V, NEW c \in V, NEW G \in [Nat \X V -> V]
  PROVE  \A m, n \in Nat : \A f \in PartsOf(V, c, G, m), g \in PartsOf(V, c, G, n) :
           \A k \in Nat : k <= m /\ k <= n => f[k] = g[k]
<1> TAKE m, n \in Nat
<1> TAKE f \in PartsOf(V, c, G, m), g \in PartsOf(V, c, G, n)
<1> DEFINE P(k) == k <= m /\ k <= n => f[k] = g[k]
           S == {k \in Nat : P(k)}
<1>1. P(0)
  BY DEF PartsOf
<1>2. ASSUME NEW k \in Nat, P(k) PROVE P(k + 1)
  <2> SUFFICES ASSUME k + 1 <= m, k + 1 <= n PROVE f[k + 1] = g[k + 1]
    OBVIOUS
  <2>1. k <= m /\ k <= n /\ k \in 0 .. m - 1 /\ k \in 0 .. n - 1
    OBVIOUS
  <2>2. f[k] = g[k]
    BY <1>2, <2>1
  <2>3. f[k + 1] = G[<<k, f[k]>>] /\ g[k + 1] = G[<<k, g[k]>>]
    BY <2>1 DEF PartsOf
  <2> QED
    BY <2>2, <2>3
<1>3. S = Nat
  <2>1. 0 \in S /\ S \in SUBSET Nat /\ \A k \in S : k + 1 \in S
    <3> HIDE DEF P
    <3> QED
      BY <1>1, <1>2
  <2> HIDE DEF S
  <2> QED
    BY <2>1, NatSetInduction
<1> QED
  BY <1>3

(* There is one for every n. *)
LEMMA PartsExist ==
  ASSUME NEW V, NEW c \in V, NEW G \in [Nat \X V -> V]
  PROVE  \A n \in Nat : PartsOf(V, c, G, n) # {}
<1> DEFINE P(n) == PartsOf(V, c, G, n) # {}
           S == {n \in Nat : P(n)}
<1>1. P(0)
  <2>1. [k \in 0 .. 0 |-> c] \in PartsOf(V, c, G, 0)
    BY DEF PartsOf
  <2> QED
    BY <2>1
<1>2. ASSUME NEW n \in Nat, P(n) PROVE P(n + 1)
  <2>1. PICK f \in [0 .. n -> V] :
          f[0] = c /\ \A k \in 0 .. n - 1 : f[k + 1] = G[<<k, f[k]>>]
    BY <1>2 DEF PartsOf
  <2> DEFINE g == [k \in 0 .. n + 1 |-> IF k = n + 1 THEN G[<<n, f[n]>>] ELSE f[k]]
  <2>2. G[<<n, f[n]>>] \in V
    <3>1. f[n] \in V
      OBVIOUS
    <3> QED
      BY <3>1
  <2>3. g \in [0 .. n + 1 -> V]
    <3>1. ASSUME NEW k \in 0 .. n + 1, k # n + 1 PROVE f[k] \in V
      <4>1. k \in 0 .. n
        BY <3>1
      <4> QED
        BY <4>1
    <3> QED
      BY <2>2, <3>1
  <2>4. g[0] = c
    <3>1. 0 \in 0 .. n + 1 /\ 0 # n + 1
      OBVIOUS
    <3> QED
      BY <2>1, <3>1
  <2>5. ASSUME NEW k \in 0 .. (n + 1) - 1 PROVE g[k + 1] = G[<<k, g[k]>>]
    <3>1. k \in 0 .. n + 1 /\ k # n + 1 /\ k + 1 \in 0 .. n + 1
      OBVIOUS
    <3>2. g[k] = f[k]
      BY <3>1
    <3>3. CASE k = n
      BY <3>1, <3>2, <3>3
    <3>4. CASE k # n
      <4>1. k \in 0 .. n - 1 /\ k + 1 # n + 1
        BY <3>4
      <4>2. g[k + 1] = f[k + 1]
        BY <3>1, <4>1
      <4>3. f[k + 1] = G[<<k, f[k]>>]
        BY <2>1, <4>1
      <4> HIDE DEF g
      <4> QED
        BY <3>2, <4>2, <4>3
    <3> QED
      BY <3>3, <3>4
  <2> HIDE DEF g
  <2>6. g \in PartsOf(V, c, G, n + 1)
    BY <2>3, <2>4, <2>5 DEF PartsOf
  <2> QED
    BY <2>6
<1>3. S = Nat
  <2>1. 0 \in S /\ S \in SUBSET Nat /\ \A k \in S : k + 1 \in S
    <3> HIDE DEF P
    <3> QED
      BY <1>1, <1>2
  <2> HIDE DEF S
  <2> QED
    BY <2>1, NatSetInduction
<1> QED
  BY <1>3

Follows(f, c, G) == f[0] = c /\ \A n \in Nat : f[n + 1] = G[<<n, f[n]>>]

(* A function on the naturals given by its value at 0 and a step exists:   *)
(* what makes a recursive function definition mean its equation.           *)
LEMMA PrimitiveRecursion ==
  ASSUME NEW V, NEW c \in V, NEW G \in [Nat \X V -> V]
  PROVE  \E f \in [Nat -> V] : Follows(f, c, G)
<1>1. \A n \in Nat : PartsOf(V, c, G, n) # {}
  BY PartsExist
<1>2. PICK a : \A n \in Nat : a[n] \in PartsOf(V, c, G, n)
  <2> DEFINE start == [n \in Nat |-> CHOOSE f \in PartsOf(V, c, G, n) : TRUE]
  <2>1. \A n \in Nat : start[n] \in PartsOf(V, c, G, n)
    BY <1>1
  <2> QED
    BY <2>1
<1>3. \A m, n, k \in Nat : k <= m /\ k <= n => a[m][k] = a[n][k]
  BY <1>2, PartsAgree
<1> DEFINE F == [n \in Nat |-> a[n][n]]
<1>4. F \in [Nat -> V]
  <2>1. ASSUME NEW n \in Nat PROVE a[n][n] \in V
    <3>1. a[n] \in PartsOf(V, c, G, n)
      BY <1>2
    <3> HIDE DEF F
    <3>2. a[n] \in [0 .. n -> V]
      BY <3>1 DEF PartsOf
    <3>3. n \in 0 .. n
      OBVIOUS
    <3> QED
      BY <3>2, <3>3
  <2> QED
    BY <2>1
<1>5. F[0] = c
  BY <1>2 DEF PartsOf
<1>6. ASSUME NEW n \in Nat PROVE F[n + 1] = G[<<n, F[n]>>]
  <2>1. a[n + 1] \in PartsOf(V, c, G, n + 1) /\ a[n] \in PartsOf(V, c, G, n)
    BY <1>2
  <2>2. a[n + 1][n] = a[n][n]
    <3>1. n + 1 \in Nat /\ n <= n + 1 /\ n <= n
      OBVIOUS
    <3> QED
      BY <3>1, <1>3
  <2>3. a[n + 1][n + 1] = G[<<n, a[n + 1][n]>>]
    <3>1. n \in 0 .. (n + 1) - 1
      OBVIOUS
    <3> QED
      BY <2>1, <3>1 DEF PartsOf
  <2>4. F[n + 1] = a[n + 1][n + 1] /\ F[n] = a[n][n]
    OBVIOUS
  <2> QED
    BY <2>2, <2>3, <2>4
<1> QED
  <2> HIDE DEF F
  <2> QED
    BY <1>4, <1>5, <1>6 DEF Follows

-----------------------------------------------------------------------------
(* Division with remainder, as the payload shifts and masks need it. *)
LEMMA DivFacts ==
  ASSUME NEW a \in Nat, NEW b \in Nat \ {0}
  PROVE  /\ a \div b \in Nat /\ a % b \in 0 .. b - 1
         /\ a = b * (a \div b) + (a % b)
OBVIOUS

(* Quotient and remainder are determined by the number they add up to. *)
LEMMA Squeeze ==
  ASSUME NEW b \in Nat \ {0}, NEW x \in Int, NEW y \in Int,
         NEW r \in 0 .. b - 1, NEW s \in 0 .. b - 1, b * x + r = b * y + s
  PROVE  x = y /\ r = s
<1>1. CASE x < y
  <2>1. b * (y - x) >= b
    BY <1>1
  <2>2. b * (y - x) = r - s
    OBVIOUS
  <2> QED BY <2>1, <2>2
<1>2. CASE y < x
  <2>1. b * (x - y) >= b
    BY <1>2
  <2>2. b * (x - y) = s - r
    OBVIOUS
  <2> QED BY <2>1, <2>2
<1>3. CASE x = y
  <2>1. b * x = b * y BY <1>3
  <2>2. b * x \in Int /\ b * y \in Int OBVIOUS
  <2> QED BY <2>1, <2>2, <1>3
<1> QED BY <1>1, <1>2, <1>3

(* Whatever has the form of a quotient and a remainder is the quotient    *)
(* and the remainder.                                                      *)
LEMMA DivUnique ==
  ASSUME NEW a \in Nat, NEW b \in Nat \ {0}, NEW q \in Int, NEW r \in 0 .. b - 1,
         a = b * q + r
  PROVE  a \div b = q /\ a % b = r
<1> DEFINE x == a \div b
           s == a % b
<1>1. x \in Int /\ s \in 0 .. b - 1 /\ a = b * x + s
  BY DivFacts
<1> HIDE DEF x, s
<1>2. b * x + s = b * q + r
  BY <1>1
<1>3. x = q /\ s = r
  BY <1>1, <1>2, Squeeze
<1> QED
  BY <1>3 DEF x, s

(* A remainder by W * P is the remainder by P and one more digit of base W. *)
LEMMA DigitStep ==
  ASSUME NEW p \in Nat, NEW P \in Nat \ {0}, NEW W \in Nat \ {0}
  PROVE  p % (W * P) = (p % P) + ((p \div P) % W) * P
<1> DEFINE q == p \div P
           r == p % P
           d == q \div W
           s == q % W
<1>1. q \in Nat /\ r \in 0 .. P - 1 /\ p = P * q + r
  BY DivFacts
<1>2. d \in Nat /\ s \in 0 .. W - 1 /\ q = W * d + s
  BY <1>1, DivFacts
<1> HIDE DEF q, r, d, s
<1>3. p = (W * P) * d + (r + s * P)
  <2>1. P * q = P * (W * d) + P * s
    BY <1>2
  <2>2. P * (W * d) = (W * P) * d
    BY <1>2
  <2>3. P * s = s * P
    BY <1>2
  <2>4. P * q \in Int /\ s * P \in Int /\ (W * P) * d \in Int /\ r \in Int
    BY <1>1, <1>2
  <2> QED
    BY <1>1, <2>1, <2>2, <2>3, <2>4
<1>4. r + s * P \in 0 .. (W * P) - 1
  <2>1. s * P <= (W - 1) * P
    BY <1>2
  <2>2. (W - 1) * P = W * P - P
    OBVIOUS
  <2>3. s * P \in Nat /\ W * P \in Nat
    BY <1>2
  <2> QED
    BY <1>1, <2>1, <2>2, <2>3
<1>5. W * P \in Nat \ {0}
  OBVIOUS
<1>6. p % (W * P) = r + s * P
  <2> DEFINE b == W * P
             t == r + s * P
  <2>1. b \in Nat \ {0} /\ t \in 0 .. b - 1 /\ p = b * d + t /\ d \in Int
    BY <1>2, <1>3, <1>4, <1>5
  <2> HIDE DEF b, t
  <2>2. p % b = t
    BY <2>1, DivUnique
  <2> QED
    BY <2>2 DEF b, t
<1> QED
  BY <1>6 DEF r, s, q

-----------------------------------------------------------------------------
(* One wire of each group: a word determines one symbol per group. *)
LEMMA CodeWordHot ==
  ASSUME NEW w \in CodeWords, NEW g \in Groups
  PROVE  \E s \in Symbols : Hot(w, g) = {s} /\ <<g, s>> \in w
BY DEF CodeWords, Valid, OneHot, Hot

(* aer_codec.c, delay insensitivity: a word whose wires are all high in    *)
(* another word is that word.                                              *)
THEOREM CodeWordsAntichain ==
  ASSUME NEW v \in CodeWords, NEW w \in CodeWords, v \subseteq w
  PROVE  v = w
<1>1. ASSUME NEW x \in w PROVE x \in v
  <2>1. w \subseteq Groups \X Symbols
    BY DEF CodeWords, BusWires
  <2>2. PICK g \in Groups, s \in Symbols : x = <<g, s>>
    BY <1>1, <2>1
  <2>3. s \in Hot(w, g)
    BY <1>1, <2>2 DEF Hot
  <2>4. PICK t \in Symbols : <<g, t>> \in v
    BY CodeWordHot
  <2>5. t \in Hot(w, g)
    BY <2>4 DEF Hot
  <2>6. PICK u \in Symbols : Hot(w, g) = {u}
    BY CodeWordHot
  <2>7. s = t
    BY <2>3, <2>5, <2>6
  <2> QED
    BY <2>2, <2>4, <2>7
<1> QED
  BY <1>1

(* A word of the code is never neutral: aer_rx_poll.c takes raw == 0 for   *)
(* "no word".                                                              *)
THEOREM CodeWordsNonempty ==
  ASSUME NEW w \in CodeWords
  PROVE  w # {}
<1>1. 0 \in Groups
  BY CodecAssumption DEF Groups
<1>2. \E s \in Symbols : <<0, s>> \in w
  BY <1>1, CodeWordHot
<1> QED
  BY <1>2

(* Bits above AER_DATA_WIDTH do not change which groups are one-hot. *)
LEMMA HotMasked ==
  ASSUME NEW raw, NEW g \in Groups
  PROVE  Hot(raw \cap BusWires, g) = Hot(raw, g)
BY DEF Hot, BusWires

(* aer_decode_word reports ok for a raw word exactly when its bus bits are *)
(* a word of the code, whatever is set above AER_DATA_WIDTH.               *)
THEOREM DecodeAcceptsCodeWords ==
  ASSUME NEW raw
  PROVE  Decode(raw).ok <=> raw \cap BusWires \in CodeWords
<1>1. Decode(raw).ok <=> Valid(raw)
  BY DEF Decode
<1>2. Valid(raw) <=> Valid(raw \cap BusWires)
  BY HotMasked DEF Valid, OneHot
<1>3. raw \cap BusWires \in SUBSET BusWires
  OBVIOUS
<1> QED
  BY <1>1, <1>2, <1>3 DEF CodeWords

(* While the wires of a word rise or fall, no state of the bus short of    *)
(* the whole word is accepted by aer_decode_word.                          *)
THEOREM PartsAreRejected ==
  ASSUME NEW w \in CodeWords, NEW part \in SUBSET w, part # w
  PROVE  ~Decode(part).ok
<1>1. part \subseteq BusWires
  BY DEF CodeWords
<1>2. part \cap BusWires = part
  BY <1>1
<1>3. part \notin CodeWords
  BY CodeWordsAntichain
<1> QED
  BY <1>2, <1>3, DecodeAcceptsCodeWords

(* The form of what aer_encode_payload produces, one wire for the symbol   *)
(* of each group, is always a word of the code.                            *)
THEOREM OneWirePerGroup ==
  ASSUME NEW symbol \in [Groups -> Symbols]
  PROVE  {<<g, symbol[g]>> : g \in Groups} \in CodeWords
<1> DEFINE word == {<<g, symbol[g]>> : g \in Groups}
<1>1. word \in SUBSET BusWires
  BY DEF BusWires
<1>2. ASSUME NEW g \in Groups PROVE OneHot(word, g)
  <2>1. Hot(word, g) = {symbol[g]}
    BY DEF Hot
  <2> QED
    BY <2>1 DEF OneHot
<1> QED
  BY <1>1, <1>2 DEF CodeWords, Valid

-----------------------------------------------------------------------------
(* Place is what its definition says: 1, then GroupWidth times the place   *)
(* before, and never 0.                                                    *)
LEMMA PlaceSteps ==
  /\ Place \in [Nat -> Nat \ {0}]
  /\ Place[0] = 1
  /\ \A g \in Nat : Place[g + 1] = GroupWidth * Place[g]
<1> DEFINE V == Nat \ {0}
           G == [x \in Nat \X V |-> GroupWidth * x[2]]
<1>1. G \in [Nat \X V -> V] /\ 1 \in V
  BY CodecAssumption
<1>2. PICK f \in [Nat -> V] : f[0] = 1 /\ \A n \in Nat : f[n + 1] = G[<<n, f[n]>>]
  <2> HIDE DEF G, V
  <2>1. \E f \in [Nat -> V] : Follows(f, 1, G)
    BY <1>1, PrimitiveRecursion
  <2> QED
    BY <2>1 DEF Follows
<1>3. f = [g \in Nat |-> IF g = 0 THEN 1 ELSE GroupWidth * f[g - 1]]
  <2>1. ASSUME NEW g \in Nat, g # 0 PROVE f[g] = GroupWidth * f[g - 1]
    <3>1. g - 1 \in Nat /\ (g - 1) + 1 = g
      BY <2>1
    <3>2. f[(g - 1) + 1] = G[<<g - 1, f[g - 1]>>]
      BY <1>2, <3>1
    <3>3. G[<<g - 1, f[g - 1]>>] = GroupWidth * f[g - 1]
      BY <3>1
    <3> QED
      BY <3>1, <3>2, <3>3
  <2> QED
    BY <1>2, <2>1
<1>4. Place = [g \in Nat |-> IF g = 0 THEN 1 ELSE GroupWidth * Place[g - 1]]
  BY <1>3 DEF Place
<1>5. Place[0] = 1
  BY <1>4
<1>6. \A g \in Nat : Place[g + 1] = GroupWidth * Place[g]
  <2> TAKE g \in Nat
  <2>1. g + 1 \in Nat /\ g + 1 # 0 /\ (g + 1) - 1 = g
    OBVIOUS
  <2> QED
    BY <1>4, <2>1
<1>7. \A g \in Nat : Place[g] \in V
  <2> DEFINE S == {g \in Nat : Place[g] \in V}
  <2>1. 0 \in S
    BY <1>5
  <2>2. \A g \in S : g + 1 \in S
    BY <1>6, CodecAssumption
  <2> HIDE DEF S
  <2>3. S = Nat
    <3>1. S \in SUBSET Nat
      BY DEF S
    <3> QED
      BY <2>1, <2>2, <3>1, NatSetInduction
  <2> QED
    BY <2>3 DEF S
<1> QED
  BY <1>4, <1>5, <1>6, <1>7

(* What a group adds to a payload is a number, whatever the raw word.      *)
LEMMA ShareTyped ==
  ASSUME NEW raw, NEW g \in Groups
  PROVE  Share(raw, g) \in Nat
<1>1. OneHot(raw, g) => SymbolOf(raw, g) \in Symbols
  BY DEF OneHot, SymbolOf
<1>2. \A s \in Symbols : s \in Nat
  BY CodecAssumption DEF Symbols
<1>3. Place[g] \in Nat
  BY PlaceSteps, CodecAssumption DEF Groups
<1> QED
  BY <1>1, <1>2, <1>3 DEF Share

(* PayloadOf is the sum of the shares of the groups, as the loop of         *)
(* aer_decode_word adds them up.                                            *)
LEMMA PayloadSums ==
  ASSUME NEW raw
  PROVE  \E sum \in [0 .. NumGroups -> Nat] :
           /\ sum[0] = 0
           /\ \A g \in Groups : sum[g + 1] = sum[g] + Share(raw, g)
           /\ PayloadOf(raw) = sum[NumGroups]
<1> DEFINE N == 0 .. NumGroups
           share == [g \in Nat |-> IF g \in Groups THEN Share(raw, g) ELSE 0]
           G == [x \in Nat \X Nat |-> x[2] + share[x[1]]]
<1>0. NumGroups \in Nat /\ \A n \in N \ {0} : n - 1 \in Groups
  BY CodecAssumption DEF Groups
<1>1. share \in [Nat -> Nat]
  BY ShareTyped
<1>2. G \in [Nat \X Nat -> Nat]
  <2> HIDE DEF share
  <2> QED
    BY <1>1
<1>3. PICK f \in [Nat -> Nat] : f[0] = 0 /\ \A n \in Nat : f[n + 1] = G[<<n, f[n]>>]
  <2> HIDE DEF G
  <2>1. \E f \in [Nat -> Nat] : Follows(f, 0, G)
    BY <1>2, PrimitiveRecursion
  <2> QED
    BY <2>1 DEF Follows
<1> DEFINE sum == [n \in N |-> f[n]]
<1>4. \A n \in N \ {0} : sum[n] = sum[n - 1] + Share(raw, n - 1)
  <2> TAKE n \in N \ {0}
  <2>1. n - 1 \in Groups /\ n - 1 \in Nat /\ (n - 1) + 1 = n /\ n - 1 \in N
    BY <1>0 DEF Groups
  <2>2. f[(n - 1) + 1] = G[<<n - 1, f[n - 1]>>]
    BY <1>3, <2>1
  <2>3. G[<<n - 1, f[n - 1]>>] = f[n - 1] + Share(raw, n - 1)
    BY <2>1
  <2> QED
    BY <2>1, <2>2, <2>3
<1>5. sum[0] = 0 /\ sum \in [N -> Nat]
  <2>1. 0 \in N /\ \A n \in N : f[n] \in Nat
    BY <1>0
  <2> QED
    BY <1>3, <2>1
<1> DEFINE Defines(p) == p = [n \in N |-> IF n = 0 THEN 0 ELSE p[n - 1] + Share(raw, n - 1)]
           payload == CHOOSE p : Defines(p)
<1>6. Defines(sum)
  <2> HIDE DEF sum
  <2> QED
    BY <1>4, <1>5
<1>7. Defines(payload)
  <2> HIDE DEF Defines, sum
  <2> QED
    BY <1>6
<1>8. PayloadOf(raw) = payload[NumGroups]
  BY DEF PayloadOf
<1> HIDE DEF payload
<1>9. payload[0] = 0 /\ \A g \in Groups : payload[g + 1] = payload[g] + Share(raw, g)
  <2>1. payload[0] = 0
    BY <1>0, <1>7
  <2>2. ASSUME NEW g \in Groups PROVE payload[g + 1] = payload[g] + Share(raw, g)
    <3>1. g + 1 \in N /\ g + 1 # 0 /\ (g + 1) - 1 = g
      BY <1>0 DEF Groups
    <3> QED
      BY <1>7, <3>1
  <2> QED
    BY <2>1, <2>2
<1>a. \A n \in N : payload[n] \in Nat
  <2> DEFINE S == {n \in Nat : n \in N => payload[n] \in Nat}
  <2>1. 0 \in S
    BY <1>9
  <2>2. ASSUME NEW n \in Nat, n \in S PROVE n + 1 \in S
    <3> SUFFICES ASSUME n + 1 \in N PROVE payload[n + 1] \in Nat
      OBVIOUS
    <3>1. n \in Groups /\ n \in N
      BY <1>0 DEF Groups
    <3>2. payload[n] \in Nat
      BY <2>2, <3>1
    <3> QED
      BY <1>9, <3>1, <3>2, ShareTyped
  <2>3. S \in SUBSET Nat
    OBVIOUS
  <2> HIDE DEF S
  <2>4. S = Nat
    BY <2>1, <2>2, <2>3, NatSetInduction
  <2> QED
    BY <2>4, <1>0 DEF S
<1>b. payload \in [N -> Nat]
  BY <1>7, <1>a
<1> QED
  BY <1>8, <1>9, <1>b

SymbolAt(n, place) == (n \div place) % GroupWidth
Digit(payload, g)  == SymbolAt(payload, Place[g])

(* The symbol that aer_encode_payload takes from a payload for a group is  *)
(* one of the symbols of that group.                                       *)
LEMMA DigitIsSymbol ==
  ASSUME NEW payload \in Nat, NEW g \in Groups
  PROVE  Digit(payload, g) \in Symbols /\ Place[g] \in Nat \ {0} /\ g \in Nat
<1>1. g \in Nat /\ Place[g] \in Nat \ {0}
  BY PlaceSteps, CodecAssumption DEF Groups
<1>2. payload \div Place[g] \in Nat
  BY <1>1, DivFacts
<1> QED
  BY <1>1, <1>2, CodecAssumption DEF Digit, SymbolAt, Symbols

(* aer_encode_payload raises one wire of each group, for every payload.    *)
LEMMA EncodeHot ==
  ASSUME NEW payload \in Nat, NEW g \in Groups
  PROVE  Hot(Encode(payload), g) = {Digit(payload, g)}
BY DigitIsSymbol DEF Hot, Encode, Digit, SymbolAt

(* aer_encode_payload raises exactly one wire of each group, for every     *)
(* payload, also one wider than AER_PAYLOAD_BITS: nothing it produces is   *)
(* rejected by aer_decode_word.                                            *)
THEOREM EncodeIsCodeWord ==
  ASSUME NEW payload \in Nat
  PROVE  Encode(payload) \in CodeWords
<1>1. Encode(payload) \in SUBSET BusWires
  BY DigitIsSymbol DEF Encode, Digit, SymbolAt, BusWires
<1>2. Valid(Encode(payload))
  BY EncodeHot, DigitIsSymbol DEF Valid, OneHot
<1> QED
  BY <1>1, <1>2 DEF CodeWords

(* Decoding an encoded payload adds the symbol of each group at its place. *)
LEMMA EncodeShare ==
  ASSUME NEW payload \in Nat, NEW g \in Groups
  PROVE  Share(Encode(payload), g) = Digit(payload, g) * Place[g]
<1>1. Hot(Encode(payload), g) = {Digit(payload, g)} /\ Digit(payload, g) \in Symbols
  BY EncodeHot, DigitIsSymbol
<1>2. OneHot(Encode(payload), g)
  BY <1>1 DEF OneHot
<1>3. SymbolOf(Encode(payload), g) = Digit(payload, g)
  BY <1>1 DEF SymbolOf
<1> QED
  BY <1>2, <1>3 DEF Share

(* aer_decode_word gives back the payload that aer_encode_payload was      *)
(* given, for every payload of AER_PAYLOAD_BITS: the sum over the first n  *)
(* groups is the payload modulo the place of group n.                      *)
THEOREM DecodeInvertsEncode ==
  ASSUME NEW payload \in 0 .. PayloadSpan - 1
  PROVE  PayloadOf(Encode(payload)) = payload
<1>0. payload \in Nat /\ NumGroups \in Nat /\ PayloadSpan \in Nat \ {0} /\ payload < PayloadSpan
  BY PlaceSteps, CodecAssumption DEF PayloadSpan
<1>1. PICK sum \in [0 .. NumGroups -> Nat] :
           /\ sum[0] = 0
           /\ \A g \in Groups : sum[g + 1] = sum[g] + Share(Encode(payload), g)
           /\ PayloadOf(Encode(payload)) = sum[NumGroups]
  BY PayloadSums
<1> DEFINE P(n) == n <= NumGroups => sum[n] = payload % Place[n]
           S == {n \in Nat : P(n)}
<1>2. P(0)
  BY <1>0, <1>1, PlaceSteps
<1>3. ASSUME NEW n \in Nat, P(n) PROVE P(n + 1)
  <2> SUFFICES ASSUME n + 1 <= NumGroups PROVE sum[n + 1] = payload % Place[n + 1]
    OBVIOUS
  <2>1. n \in Groups /\ n <= NumGroups
    BY <1>0 DEF Groups
  <2>2. sum[n + 1] = sum[n] + Digit(payload, n) * Place[n]
    BY <1>0, <1>1, <2>1, EncodeShare
  <2>3. sum[n] = payload % Place[n]
    BY <1>3, <2>1
  <2>4. Place[n + 1] = GroupWidth * Place[n] /\ Place[n] \in Nat \ {0} /\ GroupWidth \in Nat \ {0}
    BY PlaceSteps, CodecAssumption
  <2>5. payload % (GroupWidth * Place[n])
          = (payload % Place[n]) + ((payload \div Place[n]) % GroupWidth) * Place[n]
    BY <1>0, <2>4, DigitStep
  <2> QED
    BY <2>2, <2>3, <2>4, <2>5 DEF Digit, SymbolAt
<1>4. S = Nat
  <2>1. 0 \in S /\ S \in SUBSET Nat /\ \A n \in S : n + 1 \in S
    <3> HIDE DEF P
    <3> QED
      BY <1>2, <1>3
  <2> HIDE DEF S
  <2> QED
    BY <2>1, NatSetInduction
<1>5. sum[NumGroups] = payload % PayloadSpan
  BY <1>0, <1>4 DEF PayloadSpan
<1>6. payload % PayloadSpan = payload
  <2>1. payload = PayloadSpan * 0 + payload /\ 0 \in Int
    BY <1>0
  <2> QED
    BY <1>0, <2>1, DivUnique
<1> QED
  BY <1>1, <1>5, <1>6

(* Adding a multiple of a higher place changes no lower digit. *)
LEMMA DigitKept ==
  ASSUME NEW a \in Nat, NEW P \in Nat \ {0}, NEW m \in Nat,
         NEW b, b = a + (P * GroupWidth) * m
  PROVE  SymbolAt(b, P) = SymbolAt(a, P)
<1> DEFINE W == GroupWidth
<1>0. W \in Nat \ {0}
  BY CodecAssumption
<1> HIDE DEF W
<1> DEFINE q == a \div P
           r == a % P
           d == q \div W
           s == q % W
           t == q + W * m
<1>1. q \in Nat /\ r \in 0 .. P - 1 /\ a = P * q + r
  BY DivFacts
<1>2. d \in Nat /\ s \in 0 .. W - 1 /\ q = W * d + s
  BY <1>0, <1>1, DivFacts
<1>3. b \in Nat /\ t \in Nat /\ b = P * t + r
  <2>1. (P * W) * m = P * (W * m) /\ P * (W * m) \in Nat /\ W * m \in Nat
    BY <1>0
  <2>2. P * (q + W * m) = P * q + P * (W * m)
    BY <1>1, <2>1
  <2>3. P * q \in Nat
    BY <1>1
  <2>4. b = a + (P * W) * m
    BY DEF W
  <2> QED
    BY <1>1, <2>1, <2>2, <2>3, <2>4
<1>4. t = W * (d + m) + s /\ d + m \in Int
  <2>1. W * (d + m) = W * d + W * m /\ W * d \in Nat /\ W * m \in Nat
    BY <1>0, <1>2
  <2> QED
    BY <1>2, <2>1
<1> HIDE DEF q, r, d, s, t
<1>5. b \div P = t
  BY <1>1, <1>3, DivUnique
<1>6. t % W = s
  BY <1>0, <1>2, <1>3, <1>4, DivUnique
<1> QED
  BY <1>5, <1>6 DEF s, q, W, SymbolAt

(* The place of a group divides the place of each higher group. *)
LEMMA PlaceDivides ==
  ASSUME NEW g \in Nat
  PROVE  \A n \in Nat : n > g => \E k \in Nat : Place[n] = (Place[g] * GroupWidth) * k
<1> DEFINE P(n) == n > g => \E k \in Nat : Place[n] = (Place[g] * GroupWidth) * k
           S == {n \in Nat : P(n)}
<1>1. P(0)
  OBVIOUS
<1>2. ASSUME NEW n \in Nat, P(n) PROVE P(n + 1)
  <2>0. /\ Place[g] \in Nat /\ Place[n] \in Nat /\ GroupWidth \in Nat
        /\ Place[n + 1] = GroupWidth * Place[n]
    BY PlaceSteps, CodecAssumption
  <2>1. CASE n = g
    <3>1. Place[n + 1] = (Place[g] * GroupWidth) * 1
      BY <2>0, <2>1
    <3> QED
      BY <3>1
  <2>2. CASE n > g
    <3>1. PICK k \in Nat : Place[n] = (Place[g] * GroupWidth) * k
      BY <1>2, <2>2
    <3>2. Place[n + 1] = (Place[g] * GroupWidth) * (k * GroupWidth)
      <4>1. GroupWidth * ((Place[g] * GroupWidth) * k) = (Place[g] * GroupWidth) * (k * GroupWidth)
        BY <2>0
      <4> QED
        BY <2>0, <3>1, <4>1
    <3>3. k * GroupWidth \in Nat
      BY <2>0
    <3> QED
      BY <3>2, <3>3
  <2>3. CASE n < g
    BY <2>3
  <2> QED
    BY <2>1, <2>2, <2>3
<1>3. S = Nat
  <2>1. 0 \in S /\ S \in SUBSET Nat /\ \A n \in S : n + 1 \in S
    <3> HIDE DEF P
    <3> QED
      BY <1>1, <1>2
  <2> HIDE DEF S
  <2> QED
    BY <2>1, NatSetInduction
<1> QED
  BY <1>3

(* Every group of a word of the code adds its one symbol at its place. *)
LEMMA CodeWordShare ==
  ASSUME NEW w \in CodeWords, NEW g \in Groups
  PROVE  /\ SymbolOf(w, g) \in Symbols
         /\ Hot(w, g) = {SymbolOf(w, g)}
         /\ Share(w, g) = SymbolOf(w, g) * Place[g]
<1>1. OneHot(w, g)
  BY DEF CodeWords, Valid
<1> QED
  BY <1>1 DEF OneHot, SymbolOf, Share

(* Adding the symbol of a higher group keeps the sum below the next place. *)
LEMMA CarryFree ==
  ASSUME NEW P \in Nat \ {0}, NEW a \in 0 .. P - 1, NEW s \in 0 .. GroupWidth - 1,
         NEW b, b = a + s * P
  PROVE  b \in 0 .. GroupWidth * P - 1 /\ SymbolAt(b, P) = s
<1> DEFINE W == GroupWidth
<1>0. W \in Nat \ {0} /\ s \in 0 .. W - 1
  BY CodecAssumption
<1> HIDE DEF W
<1>1. s * P <= (W - 1) * P /\ (W - 1) * P = W * P - P /\ s * P \in Nat /\ W * P \in Nat
  BY <1>0
<1>2. b \in 0 .. (W * P) - 1
  BY <1>0, <1>1
<1>3. b \in Nat /\ b = P * s + a
  BY <1>0, <1>1
<1>4. b \div P = s
  BY <1>0, <1>3, DivUnique
<1>5. s % W = s
  <2>1. s = W * 0 + s /\ 0 \in Int
    BY <1>0
  <2> QED
    BY <1>0, <2>1, DivUnique
<1> QED
  BY <1>2, <1>4, <1>5 DEF SymbolAt, W

(* The payload accumulated over the first n groups of a word stays below   *)
(* the next place and has the symbols of those groups as its digits: the   *)
(* bits that |= sets for one group are never those of another.             *)
LEMMA SumsOfCodeWord ==
  ASSUME NEW w \in CodeWords, NEW sum \in [0 .. NumGroups -> Nat],
         sum[0] = 0, \A g \in Groups : sum[g + 1] = sum[g] + Share(w, g)
  PROVE  \A n \in Nat : n <= NumGroups =>
           /\ sum[n] \in 0 .. Place[n] - 1
           /\ \A g \in Groups : g < n => Digit(sum[n], g) = SymbolOf(w, g)
<1> DEFINE P(n) == n <= NumGroups =>
                     /\ sum[n] \in 0 .. Place[n] - 1
                     /\ \A g \in Groups : g < n => Digit(sum[n], g) = SymbolOf(w, g)
           S == {n \in Nat : P(n)}
<1>0. NumGroups \in Nat /\ GroupWidth \in Nat \ {0}
  BY CodecAssumption
<1>1. P(0)
  BY <1>0, PlaceSteps DEF Groups
<1>2. ASSUME NEW n \in Nat, P(n) PROVE P(n + 1)
  <2> SUFFICES ASSUME n + 1 <= NumGroups
      PROVE  /\ sum[n + 1] \in 0 .. Place[n + 1] - 1
             /\ \A g \in Groups : g < n + 1 => Digit(sum[n + 1], g) = SymbolOf(w, g)
    OBVIOUS
  <2>1. n \in Groups /\ n <= NumGroups
    BY <1>0 DEF Groups
  <2>2. /\ sum[n] \in 0 .. Place[n] - 1
        /\ \A g \in Groups : g < n => Digit(sum[n], g) = SymbolOf(w, g)
    BY <1>2, <2>1
  <2> DEFINE s == SymbolOf(w, n)
  <2>3. s \in 0 .. GroupWidth - 1 /\ sum[n + 1] = sum[n] + s * Place[n]
    BY <2>1, CodeWordShare DEF Symbols
  <2>4. Place[n + 1] = GroupWidth * Place[n] /\ Place[n] \in Nat \ {0}
    BY PlaceSteps
  <2> HIDE DEF s
  <2>5. /\ sum[n + 1] \in 0 .. Place[n + 1] - 1
        /\ Digit(sum[n + 1], n) = s
    <3> DEFINE a == sum[n]
               p == Place[n]
    <3>1. p \in Nat \ {0} /\ a \in 0 .. p - 1 /\ sum[n + 1] = a + s * p
          /\ Place[n + 1] = GroupWidth * p
      BY <2>2, <2>3, <2>4
    <3> HIDE DEF a, p
    <3>2. sum[n + 1] \in 0 .. GroupWidth * p - 1 /\ SymbolAt(sum[n + 1], p) = s
      BY <2>3, <3>1, CarryFree
    <3> QED
      BY <3>1, <3>2 DEF Digit, p
  <2>6. ASSUME NEW g \in Groups, g < n PROVE Digit(sum[n + 1], g) = SymbolOf(w, g)
    <3>1. g \in Nat /\ n > g /\ Place[g] \in Nat \ {0}
      <4>1. g \in Nat
        BY <1>0 DEF Groups
      <4> QED
        BY <2>6, <4>1, PlaceSteps
    <3>2. PICK k \in Nat : Place[n] = (Place[g] * GroupWidth) * k
      BY <3>1, PlaceDivides
    <3>3. s * Place[n] = (Place[g] * GroupWidth) * (k * s) /\ k * s \in Nat
      <4>1. s * ((Place[g] * GroupWidth) * k) = (Place[g] * GroupWidth) * (k * s)
        BY <1>0, <2>3, <3>1
      <4> QED
        BY <2>3, <3>2, <4>1
    <3>4. sum[n + 1] = sum[n] + (Place[g] * GroupWidth) * (k * s) /\ sum[n] \in Nat
      BY <2>2, <2>3, <3>3
    <3> DEFINE m == k * s
               p == Place[g]
               a == sum[n]
    <3>5. m \in Nat /\ p \in Nat \ {0} /\ a \in Nat /\ sum[n + 1] = a + (p * GroupWidth) * m
      BY <3>1, <3>3, <3>4
    <3> HIDE DEF m, p, a
    <3>6. SymbolAt(sum[n + 1], p) = SymbolAt(a, p)
      BY <3>5, DigitKept
    <3>8. Digit(sum[n + 1], g) = Digit(sum[n], g)
      BY <3>6 DEF Digit, p, a
    <3> QED
      BY <2>2, <2>6, <3>8
  <2>7. ASSUME NEW g \in Groups, g < n + 1 PROVE g = n \/ g < n
    BY <1>0, <2>7 DEF Groups
  <2> QED
    BY <2>5, <2>6, <2>7 DEF s
<1>3. S = Nat
  <2>1. 0 \in S /\ S \in SUBSET Nat /\ \A n \in S : n + 1 \in S
    <3> HIDE DEF P
    <3> QED
      BY <1>1, <1>2
  <2> HIDE DEF S
  <2> QED
    BY <2>1, NatSetInduction
<1> QED
  BY <1>3

(* Every word of the code is the encoding of the payload it decodes to:    *)
(* two different words never decode to one payload.                        *)
THEOREM EncodeInvertsDecode ==
  ASSUME NEW w \in CodeWords
  PROVE  /\ PayloadOf(w) \in 0 .. PayloadSpan - 1
         /\ Encode(PayloadOf(w)) = w
<1>0. NumGroups \in Nat /\ NumGroups <= NumGroups /\ \A g \in Groups : g < NumGroups
  BY CodecAssumption DEF Groups
<1>1. PICK sum \in [0 .. NumGroups -> Nat] :
           /\ sum[0] = 0
           /\ \A g \in Groups : sum[g + 1] = sum[g] + Share(w, g)
           /\ PayloadOf(w) = sum[NumGroups]
  BY PayloadSums
<1>2. /\ PayloadOf(w) \in 0 .. PayloadSpan - 1
      /\ \A g \in Groups : Digit(PayloadOf(w), g) = SymbolOf(w, g)
  BY <1>0, <1>1, SumsOfCodeWord DEF PayloadSpan
<1>3. Encode(PayloadOf(w)) = {<<g, SymbolOf(w, g)>> : g \in Groups}
  BY <1>2 DEF Encode, Digit, SymbolAt
<1>4. w = {<<g, SymbolOf(w, g)>> : g \in Groups}
  <2>1. ASSUME NEW x \in w PROVE \E g \in Groups : x = <<g, SymbolOf(w, g)>>
    <3>1. PICK g \in Groups, s \in Symbols : x = <<g, s>>
      BY DEF CodeWords, BusWires
    <3>2. s \in Hot(w, g)
      BY <3>1 DEF Hot
    <3> QED
      BY <3>1, <3>2, CodeWordShare
  <2>2. ASSUME NEW g \in Groups PROVE <<g, SymbolOf(w, g)>> \in w
    BY CodeWordShare DEF Hot
  <2> QED
    BY <2>1, <2>2
<1> QED
  BY <1>2, <1>3, <1>4

-----------------------------------------------------------------------------
(* What the words of the firmware decode to.                               *)

(* AER_TAIL_PAYLOAD is a payload, and it is above every index.             *)
LEMMA PayloadRange ==
  ASSUME IndexSpan < PayloadSpan
  PROVE  /\ PayloadSpan \in Nat /\ TailPayload \in 0 .. PayloadSpan - 1
         /\ \A i \in 0 .. IndexSpan - 1 : i \in 0 .. PayloadSpan - 1 /\ i # TailPayload
BY PlaceSteps, CodecAssumption, CfgAssumption DEF PayloadSpan, TailPayload

(* aer_decode_word accepts the word of an index, gives the index back and  *)
(* does not take it for the TAIL.                                          *)
LEMMA DecodeOfIndex ==
  ASSUME IndexSpan < PayloadSpan, NEW i \in 0 .. IndexSpan - 1
  PROVE  /\ Encode(i) \in CodeWords
         /\ Decode(Encode(i)).ok /\ ~Decode(Encode(i)).is_tail
         /\ Decode(Encode(i)).payload = i
<1>1. i \in 0 .. PayloadSpan - 1 /\ i # TailPayload /\ i \in Nat
  BY PayloadRange
<1>2. Encode(i) \in CodeWords /\ PayloadOf(Encode(i)) = i
  BY <1>1, EncodeIsCodeWord, DecodeInvertsEncode
<1> QED
  BY <1>1, <1>2 DEF Decode, CodeWords

(* It accepts the TAIL word as the TAIL.                                   *)
LEMMA DecodeOfTail ==
  ASSUME IndexSpan < PayloadSpan
  PROVE  /\ Encode(TailPayload) \in CodeWords
         /\ Decode(Encode(TailPayload)).ok /\ Decode(Encode(TailPayload)).is_tail
<1>1. TailPayload \in 0 .. PayloadSpan - 1 /\ TailPayload \in Nat
  BY PayloadRange
<1>2. Encode(TailPayload) \in CodeWords /\ PayloadOf(Encode(TailPayload)) = TailPayload
  BY <1>1, EncodeIsCodeWord, DecodeInvertsEncode
<1> QED
  BY <1>2 DEF Decode, CodeWords

(* And no other word of the bus is the TAIL: a burst is ended by the       *)
(* sensor's TAIL or not at all.                                            *)
THEOREM OnlyTheTailIsTail ==
  ASSUME NEW raw \in SUBSET BusWires, Decode(raw).is_tail
  PROVE  raw = Encode(TailPayload)
<1>1. raw \in CodeWords /\ PayloadOf(raw) = TailPayload
  BY DEF Decode, CodeWords
<1> QED
  BY <1>1, EncodeInvertsDecode

-----------------------------------------------------------------------------
(* The burst assembler.                                                    *)

(* The payload of any raw word is a number, so its index is in range.      *)
LEMMA DecodedIndex ==
  ASSUME NEW raw
  PROVE  Index(Decode(raw).payload) \in Indices
<1>1. PayloadOf(raw) \in Nat
  <2>1. PICK sum \in [0 .. NumGroups -> Nat] : PayloadOf(raw) = sum[NumGroups]
    BY PayloadSums
  <2>2. NumGroups \in 0 .. NumGroups
    BY CodecAssumption
  <2> QED
    BY <2>1, <2>2
<1>2. Decode(raw).payload = PayloadOf(raw)
  BY DEF Decode
<1> QED
  BY <1>1, <1>2, CfgAssumption DEF Index, Indices

(* aer_burst_feed keeps the assembler's types, whatever it is fed.         *)
LEMMA FeedKeepsTypes ==
  ASSUME burst \in BurstType, NEW word, Index(word.payload) \in Indices, Feed(word)
  PROVE  burst' \in BurstType
<1>0. Cols \in Nat \ {0} /\ CounterMod \in Nat \ {0} /\ 0 \in 0 .. Cols
  BY BurstAssumption
<1> DEFINE index == Index(word.payload)
<1>1. CASE FeedNotOk(word)
  BY <1>1 DEF FeedNotOk
<1>2. CASE FeedTailWithoutRow(word)
  BY <1>2 DEF FeedTailWithoutRow, BurstType, BurstErrs
<1>3. CASE FeedTail(word)
  <2> DEFINE events == (burst.events_emitted + burst.col_count) % CounterMod
             bursts == (burst.bursts_completed + 1) % CounterMod
  <2>1. burst.events_emitted + burst.col_count \in Nat /\ burst.bursts_completed + 1 \in Nat
    BY <1>0 DEF BurstType
  <2>2. events \in 0 .. CounterMod - 1 /\ bursts \in 0 .. CounterMod - 1
    BY <1>0, <2>1
  <2>3. burst' = [burst EXCEPT !.state = ExpectRow, !.events_emitted = events,
                               !.col_count = 0, !.bursts_completed = bursts]
    BY <1>3 DEF FeedTail
  <2> HIDE DEF events, bursts
  <2> QED
    BY <1>0, <2>2, <2>3 DEF BurstType
<1>4. CASE FeedRow(word)
  <2> DEFINE flags == IF index >= Rows THEN burst.err_flags \cup {"ROW_OOR"}
                      ELSE burst.err_flags
  <2>1. burst' = [burst EXCEPT !.state = ExpectColOrTail, !.row = index,
                               !.err_flags = flags, !.col_count = 0]
    BY <1>4 DEF FeedRow
  <2>2. flags \in SUBSET BurstErrs /\ index \in Indices
    BY DEF BurstType, BurstErrs
  <2> HIDE DEF flags, index
  <2> QED
    BY <1>0, <2>1, <2>2 DEF BurstType
<1>5. CASE FeedCol(word)
  <2> DEFINE flags == IF index >= Cols THEN burst.err_flags \cup {"COL_OOR"}
                      ELSE burst.err_flags
             cols  == [burst.cols EXCEPT ![burst.col_count] = index]
             count == burst.col_count + 1
  <2>1. burst' = [burst EXCEPT !.cols = cols, !.col_count = count, !.err_flags = flags]
    BY <1>5 DEF FeedCol
  <2>2. flags \in SUBSET BurstErrs
    BY DEF BurstType, BurstErrs
  <2>3. cols \in [Slots -> Indices \cup {Unwritten}]
    BY DEF BurstType
  <2>4. count \in 0 .. Cols
    BY <1>0, <1>5 DEF FeedCol, BurstType
  <2> HIDE DEF flags, cols, count
  <2> QED
    BY <2>1, <2>2, <2>3, <2>4 DEF BurstType
<1>6. CASE FeedColOverflow(word)
  BY <1>6 DEF FeedColOverflow, BurstType, BurstErrs
<1> QED
  BY <1>1, <1>2, <1>3, <1>4, <1>5, <1>6 DEF Feed

(* A counter of the assembler may be reduced at any time.                  *)
LEMMA RemainderUnique ==
  ASSUME NEW a \in Nat, NEW q \in Nat, NEW r \in 0 .. CounterMod - 1, a = CounterMod * q + r
  PROVE  a % CounterMod = r
BY BurstAssumption, DivUnique

LEMMA CountOn ==
  ASSUME NEW m \in Nat, NEW n \in Nat
  PROVE  ((m % CounterMod) + n) % CounterMod = (m + n) % CounterMod
<1> DEFINE low == m % CounterMod
           q   == m \div CounterMod
           p   == (low + n) \div CounterMod
           r   == (low + n) % CounterMod
<1>1. CounterMod \in Nat \ {0}
  BY BurstAssumption
<1>2. low \in 0 .. CounterMod - 1 /\ q \in Nat /\ m = CounterMod * q + low
  BY <1>1, DivFacts
<1> HIDE DEF low, q
<1>7. low + n \in Nat
  BY <1>2
<1> DEFINE sum == low + n
<1> HIDE DEF sum
<1>8. sum % CounterMod \in 0 .. CounterMod - 1 /\ sum \div CounterMod \in Nat
      /\ sum = CounterMod * (sum \div CounterMod) + (sum % CounterMod)
  BY <1>1, <1>7, DivFacts DEF sum
<1>3. r \in 0 .. CounterMod - 1 /\ p \in Nat /\ low + n = CounterMod * p + r
  BY <1>8 DEF sum
<1> HIDE DEF p, r
<1>4. /\ CounterMod * (q + p) = CounterMod * q + CounterMod * p
      /\ CounterMod * q \in Nat /\ CounterMod * p \in Nat /\ q + p \in Nat
  BY <1>1, <1>2, <1>3
<1>5. m + n = CounterMod * (q + p) + r /\ m + n \in Nat
  BY <1>1, <1>2, <1>3, <1>4
<1>6. (m + n) % CounterMod = r
  BY <1>3, <1>4, <1>5, RemainderUnique
<1> QED
  BY <1>6 DEF r, low

LEMMA CountStays ==
  ASSUME NEW x \in 0 .. CounterMod - 1
  PROVE  (x + 0) % CounterMod = x
BY BurstAssumption

(* A function from 1 .. n is a sequence of length n. *)
LEMMA TableIsSeq ==
  ASSUME NEW S, NEW n \in Nat, NEW f \in [1 .. n -> S]
  PROVE  f \in Seq(S) /\ Len(f) = n
OBVIOUS

(* The events a call hands to the callback. *)
EventType == Indices \X (Indices \cup {Unwritten})

(* aer_burst_feed counts the events it hands out, modulo the counter's range. *)
LEMMA FeedCounts ==
  ASSUME burst \in BurstType, NEW word, Feed(word)
  PROVE  /\ emitted' \in Seq(EventType)
         /\ burst'.events_emitted = (burst.events_emitted + Len(emitted')) % CounterMod
<1> DEFINE x == burst.events_emitted
<1>1. /\ x \in 0 .. CounterMod - 1 /\ burst.row \in Indices
      /\ burst.cols \in [Slots -> Indices \cup {Unwritten}]
      /\ burst.col_count \in 0 .. Cols
  BY DEF BurstType
<1>2. CounterMod \in Nat \ {0} /\ Cols \in Nat \ {0}
  BY BurstAssumption
<1>3. <<>> \in Seq(EventType) /\ Len(<<>>) = 0 /\ (x + 0) % CounterMod = x
  BY <1>1, CountStays
<1>4. CASE FeedTail(word)
  <2> DEFINE y == (x + burst.col_count) % CounterMod
             z == (burst.bursts_completed + 1) % CounterMod
  <2>1. burst' = [burst EXCEPT !.state = ExpectRow, !.events_emitted = y,
                               !.col_count = 0, !.bursts_completed = z]
    BY <1>4 DEF FeedTail
  <2> HIDE DEF y, z
  <2>2. burst'.events_emitted = y
    BY <2>1 DEF BurstType
  <2>3. emitted' = [i \in 1 .. burst.col_count |-> <<burst.row, burst.cols[i - 1]>>]
    BY <1>4 DEF FeedTail, BufferedEvents
  <2>4. \A i \in 1 .. burst.col_count : <<burst.row, burst.cols[i - 1]>> \in EventType
    BY <1>1, <1>2 DEF EventType, Slots
  <2>5. burst.col_count \in Nat
    BY <1>1, <1>2
  <2>6. emitted' \in [1 .. burst.col_count -> EventType]
    BY <2>3, <2>4, Zenon
  <2>7. emitted' \in Seq(EventType) /\ Len(emitted') = burst.col_count
    BY <2>5, <2>6, TableIsSeq
  <2> QED
    BY <2>2, <2>7 DEF y
<1>5. CASE ~FeedTail(word)
  <2>1. emitted' = <<>>
    BY <1>5 DEF Feed, FeedNotOk, FeedTailWithoutRow, FeedRow, FeedCol, FeedColOverflow
  <2>2. burst'.events_emitted = x
    BY <1>5 DEF Feed, FeedNotOk, FeedTailWithoutRow, FeedRow, FeedCol, FeedColOverflow, BurstType
  <2> QED
    BY <1>3, <2>1, <2>2
<1> QED
  BY <1>4, <1>5
=============================================================================
