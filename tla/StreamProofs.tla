---------------------------- MODULE StreamProofs -----------------------------
(* The two stream parsers, for every alphabet, every pair of markers and   *)
(* every answer of any length: text is passed on as if it had come whole,  *)
(* and each tool call is handed over once.                                 *)
EXTENDS MCStreams, OperatorProofs

(* Numbers.                                                                *)
LEMMA MinIs ==
  ASSUME NEW S, S \subseteq Nat, S # {}
  PROVE  Min(S) \in S /\ \A y \in S : Min(S) <= y
<1>1. PICK x \in S : \A y \in S : ~(y < x)
  BY NatMin
<1>2. \A y \in S : x <= y
  <2> SUFFICES ASSUME NEW y \in S  PROVE x <= y
    OBVIOUS
  <2>1. x \in Nat /\ y \in Nat /\ ~(y < x)
    BY <1>1
  <2> QED  BY <2>1
<1> QED  BY <1>2 DEF Min

LEMMA MinOf ==
  ASSUME NEW S, S \subseteq Nat, NEW x \in S, \A y \in S : x <= y
  PROVE  Min(S) = x
<1>1. Min(S) \in S /\ Min(S) <= x /\ x <= Min(S)
  BY MinIs
<1>2. Min(S) \in Nat /\ x \in Nat
  BY <1>1
<1> QED  BY <1>1, <1>2

LEMMA MaxIs ==
  ASSUME NEW S, S \subseteq Nat, S # {}, NEW k \in Nat, \A y \in S : y <= k
  PROVE  Max(S) \in S /\ \A y \in S : y <= Max(S)
<1> DEFINE T == { k - y : y \in S }
<1>1. T \subseteq Nat /\ T # {}
  <2>1. \A y \in S : k - y \in Nat
    <3> SUFFICES ASSUME NEW y \in S  PROVE k - y \in Nat
      OBVIOUS
    <3>1. y \in Nat /\ y <= k
      OBVIOUS
    <3> QED  BY <3>1
  <2> QED  BY <2>1
<1>2. PICK t \in T : \A u \in T : ~(u < t)
  <2> HIDE DEF T
  <2> QED  BY <1>1, NatMin
<1>3. PICK x \in S : t = k - x
  OBVIOUS
<1>4. \A y \in S : x >= y
  <2> SUFFICES ASSUME NEW y \in S  PROVE x >= y
    OBVIOUS
  <2>1. x \in Nat /\ y \in Nat /\ k - y \in T /\ ~(k - y < k - x)
    BY <1>2, <1>3
  <2> QED  BY <2>1
<1>5. Max(S) \in S /\ \A y \in S : Max(S) >= y
  BY <1>4 DEF Max
<1>6. \A y \in S : y <= Max(S)
  <2> SUFFICES ASSUME NEW y \in S  PROVE y <= Max(S)
    OBVIOUS
  <2>1. Max(S) \in Nat /\ y \in Nat /\ Max(S) >= y
    BY <1>5
  <2> QED  BY <2>1
<1> QED  BY <1>5, <1>6

IsLargest(T, m) == m \in T /\ \A y \in T : y <= m

LEMMA LargestOfFinite ==
  ASSUME NEW S, IsFiniteSet(S), S \subseteq Nat, S # {}
  PROVE  \E m \in Nat : IsLargest(S, m)
<1> DEFINE F == { T \in SUBSET S : T # {} /\ ~ \E m \in Nat : IsLargest(T, m) }
<1> SUFFICES ASSUME ~ \E m \in Nat : IsLargest(S, m)  PROVE FALSE
  OBVIOUS
<1>1. PICK T \in F : \A U \in F : U \subseteq T => U = T
  <2>1. F \subseteq SUBSET S /\ S \in F /\ IsFiniteSet(S)
    OBVIOUS
  <2> HIDE DEF F
  <2>2. PICK B, W : B = F /\ W = S
    OBVIOUS
  <2>3. IsFiniteSet(W) /\ B \subseteq SUBSET W /\ W \in B
    BY <2>1, <2>2
  <2>4. \E T \in B : \A U \in B : U \subseteq T => U = T
    BY ONLY <2>3, SmallestSubset
  <2> QED  BY <2>2, <2>4
<1>2. T \subseteq S /\ T \subseteq Nat /\ ~ \E m \in Nat : IsLargest(T, m)
  OBVIOUS
<1>3. PICK x \in T : x \in Nat
  OBVIOUS
<1>4. T \ {x} \notin F /\ T \ {x} \in SUBSET S
  <2> HIDE DEF F
  <2> QED  BY <1>1, <1>2, <1>3
<1>5. CASE T \ {x} = {}
  <2>1. IsLargest(T, x)
    BY <1>3, <1>5 DEF IsLargest
  <2> QED  BY <1>2, <1>3, <2>1
<1>6. CASE T \ {x} # {}
  <2>1. PICK m \in Nat : IsLargest(T \ {x}, m)
    BY <1>4, <1>6
  <2>2. PICK l \in Nat : l \in { m, x } /\ m <= l /\ x <= l
    BY <1>3
  <2>3. IsLargest(T, l)
    BY <1>2, <1>3, <2>1, <2>2 DEF IsLargest
  <2> QED  BY <1>2, <2>3
<1> QED  BY <1>5, <1>6

-----------------------------------------------------------------------------
(* Where a marker is in a text.                                            *)
LEMMA MarkerFacts ==
  ASSUME NEW think \in BOOLEAN
  PROVE  Marker(think) \in Seq(Chars) /\ Len(Marker(think)) \in Nat \ {0}
BY StreamAssumption DEF Marker

LEMMA PartType ==
  ASSUME NEW s \in Seq(Chars), NEW a \in Nat, NEW b \in Nat, a <= b, b <= Len(s)
  PROVE  /\ SubSeq(s, a + 1, b) \in Seq(Chars) /\ Len(SubSeq(s, a + 1, b)) = b - a
         /\ \A i \in 1 .. b - a : SubSeq(s, a + 1, b)[i] = s[a + i]
OBVIOUS

Occurs(buf, marker, i) == \A j \in 1 .. Len(marker) : buf[i + j] = marker[j]

LEMMA FindsAre ==
  ASSUME NEW buf \in Seq(Chars), NEW marker \in Seq(Chars)
  PROVE  /\ Finds(buf, marker) \subseteq Nat
         /\ \A i : i \in Finds(buf, marker) <=>
                     i \in Nat /\ i + Len(marker) <= Len(buf) /\ Occurs(buf, marker, i)
<1>1. ASSUME NEW i \in Nat, i + Len(marker) <= Len(buf)
      PROVE  SubSeq(buf, i + 1, i + Len(marker)) = marker <=> Occurs(buf, marker, i)
  <2>1. PICK n \in Nat : n = Len(marker)
    OBVIOUS
  <2>2. PICK part \in Seq(Chars) :
          /\ part = SubSeq(buf, i + 1, i + n) /\ Len(part) = n
          /\ \A j \in 1 .. n : part[j] = buf[i + j]
    <3>1. PICK b \in Nat : b = i + n
      OBVIOUS
    <3>2. i <= b /\ b <= Len(buf) /\ b - i = n
      BY <1>1, <2>1, <3>1
    <3>3. SubSeq(buf, i + 1, b) \in Seq(Chars) /\ Len(SubSeq(buf, i + 1, b)) = b - i
          /\ \A j \in 1 .. b - i : SubSeq(buf, i + 1, b)[j] = buf[i + j]
      BY <3>2, PartType
    <3> QED  BY <3>1, <3>2, <3>3
  <2>3. part = marker <=> \A j \in 1 .. n : part[j] = marker[j]
    BY <2>1, <2>2, SeqEqual
  <2> QED  BY <2>1, <2>2, <2>3 DEF Occurs
<1>2. \A i : i \in 0 .. Len(buf) - Len(marker) <=> i \in Nat /\ i + Len(marker) <= Len(buf)
  <2>1. Len(buf) \in Nat /\ Len(marker) \in Nat
    OBVIOUS
  <2> QED  BY <2>1
<1> QED  BY <1>1, <1>2 DEF Finds

LEMMA FirstFind ==
  ASSUME NEW buf \in Seq(Chars), NEW marker \in Seq(Chars), Len(marker) # 0,
         Finds(buf, marker) # {}
  PROVE  \E i \in Nat :
           /\ i = Min(Finds(buf, marker)) /\ i \in Finds(buf, marker)
           /\ i + Len(marker) <= Len(buf)
           /\ Before(buf, marker) \in Seq(Chars) /\ Len(Before(buf, marker)) = i
           /\ \A j \in 1 .. i : Before(buf, marker)[j] = buf[j]
           /\ After(buf, marker) \in Seq(Chars)
           /\ Len(After(buf, marker)) = Len(buf) - (i + Len(marker))
           /\ \A j \in 1 .. Len(buf) - (i + Len(marker)) :
                After(buf, marker)[j] = buf[i + Len(marker) + j]
<1>1. PICK i \in Nat : i = Min(Finds(buf, marker)) /\ i \in Finds(buf, marker)
  BY FindsAre, MinIs
<1>2. i + Len(marker) <= Len(buf)
  BY <1>1, FindsAre
<1>3. PICK n \in Nat, m \in Nat : n = Len(marker) /\ m = i + n /\ m <= Len(buf)
  BY <1>2
<1>4. Before(buf, marker) = SubSeq(buf, 1, i) /\ After(buf, marker) = SubSeq(buf, m + 1, Len(buf))
  BY <1>1, <1>3 DEF Before, After
<1>5. /\ Before(buf, marker) \in Seq(Chars) /\ Len(Before(buf, marker)) = i
      /\ \A j \in 1 .. i : Before(buf, marker)[j] = buf[j]
  <2>1. PICK z \in Nat : z = 0 /\ z <= i /\ i <= Len(buf) /\ i - z = i
    BY <1>2
  <2>2. \A j \in 1 .. i : z + j = j
    BY <2>1
  <2> QED  BY <1>4, <2>1, <2>2, PartType
<1>6. /\ After(buf, marker) \in Seq(Chars) /\ Len(After(buf, marker)) = Len(buf) - m
      /\ \A j \in 1 .. Len(buf) - m : After(buf, marker)[j] = buf[m + j]
  <2>1. PICK l \in Nat : l = Len(buf) /\ m <= l
    BY <1>3
  <2> QED  BY <1>4, <2>1, PartType
<1> QED  BY <1>1, <1>2, <1>3, <1>5, <1>6

LEMMA DeltasType ==
  ASSUME NEW text \in Seq(Chars), NEW think \in BOOLEAN
  PROVE  /\ Deltas(text, think) \in Seq(Delta) /\ Len(Deltas(text, think)) = Len(text)
         /\ \A i \in 1 .. Len(text) :
              Deltas(text, think)[i] = [ thinking |-> think, char |-> text[i] ]
<1>1. PICK n \in Nat : n = Len(text) /\ DOMAIN text = 1 .. n
  OBVIOUS
<1>2. Deltas(text, think) = [ i \in 1 .. n |-> [ thinking |-> think, char |-> text[i] ] ]
  BY <1>1 DEF Deltas
<1>3. \A i \in 1 .. n : [ thinking |-> think, char |-> text[i] ] \in Delta
  BY <1>1 DEF Delta
<1>4. PICK f \in [ 1 .. n -> Delta ] : f = Deltas(text, think)
  BY <1>2, <1>3
<1>5. f \in Seq(Delta) /\ Len(f) = n
  BY <1>4, SeqDef
<1> QED  BY <1>1, <1>2, <1>4, <1>5

-----------------------------------------------------------------------------
(* Both recursive functions are what their definitions say: each value     *)
(* rests on that of a shorter text.                                        *)
States == Seq(Chars) \X BOOLEAN

Shorter(s) == << After(s[1], Marker(s[2])), ~s[2] >>

Found(s) == Finds(s[1], Marker(s[2])) # {}

LEMMA ShorterIs ==
  ASSUME NEW s \in States, Found(s)
  PROVE  Shorter(s) \in States /\ Len(Shorter(s)[1]) < Len(s[1])
<1>1. PICK buf \in Seq(Chars), think \in BOOLEAN : s = << buf, think >>
  BY DEF States
<1>2. PICK marker \in Seq(Chars) : marker = Marker(think) /\ Len(marker) # 0
  BY MarkerFacts
<1>3. Finds(buf, marker) # {}
  BY <1>1, <1>2 DEF Found
<1>4. After(buf, marker) \in Seq(Chars) /\ Len(After(buf, marker)) < Len(buf)
  <2>1. PICK i \in Nat : /\ After(buf, marker) \in Seq(Chars)
                         /\ Len(After(buf, marker)) = Len(buf) - (i + Len(marker))
    BY <1>2, <1>3, FirstFind
  <2>2. Len(buf) \in Nat /\ Len(marker) \in Nat
    OBVIOUS
  <2> QED  BY <1>2, <2>1, <2>2
<1>5. Shorter(s) = << After(buf, marker), ~think >>
  BY <1>1, <1>2 DEF Shorter
<1>6. PICK rest \in Seq(Chars), flipped \in BOOLEAN :
        rest = After(buf, marker) /\ flipped = ~think
  BY <1>4
<1>7. Shorter(s) = << rest, flipped >> /\ Len(rest) < Len(buf)
  BY <1>4, <1>5, <1>6
<1> QED  BY <1>1, <1>7 DEF States

WholeBody(f, s) ==
  IF Found(s) THEN Deltas(Before(s[1], Marker(s[2])), s[2]) \o f[Shorter(s)]
  ELSE Deltas(s[1], s[2])

LEMMA BeforeDeltas ==
  ASSUME NEW s \in States, Found(s)
  PROVE  Deltas(Before(s[1], Marker(s[2])), s[2]) \in Seq(Delta)
<1>1. s[1] \in Seq(Chars) /\ s[2] \in BOOLEAN
  BY DEF States
<1>2. Before(s[1], Marker(s[2])) \in Seq(Chars)
  <2>1. Marker(s[2]) \in Seq(Chars) /\ Len(Marker(s[2])) # 0
    BY <1>1, MarkerFacts
  <2> QED  BY <1>1, <2>1, FirstFind DEF Found
<1> QED  BY <1>1, <1>2, DeltasType

LEMMA WholeBodyType ==
  ASSUME NEW f \in [ States -> Seq(Delta) ], NEW s \in States
  PROVE  WholeBody(f, s) \in Seq(Delta)
<1>1. CASE Found(s)
  <2>1. f[Shorter(s)] \in Seq(Delta) /\ Deltas(Before(s[1], Marker(s[2])), s[2]) \in Seq(Delta)
    BY <1>1, ShorterIs, BeforeDeltas
  <2>2. PICK a \in Seq(Delta), b \in Seq(Delta) :
          a = Deltas(Before(s[1], Marker(s[2])), s[2]) /\ b = f[Shorter(s)]
    BY <2>1
  <2>3. WholeBody(f, s) = a \o b
    BY <1>1, <2>2 DEF WholeBody
  <2> QED  BY <2>3
<1>2. CASE ~Found(s)
  <2>1. s[1] \in Seq(Chars) /\ s[2] \in BOOLEAN
    BY DEF States
  <2> QED  BY <1>2, <2>1, DeltasType DEF WholeBody
<1> QED  BY <1>1, <1>2

LEMMA WholeUnfolds ==
  /\ WholeSplit \in [ States -> Seq(Delta) ]
  /\ \A s \in States : WholeSplit[s] = WholeBody(WholeSplit, s)
<1> DEFINE V == Seq(Delta)
           rank == [ s \in States |-> Len(s[1]) ]
           E == [ f \in [ States -> V ] |-> [ s \in States |-> WholeBody(f, s) ] ]
<1>1. rank \in [ States -> Nat ]
  <2>1. \A s \in States : Len(s[1]) \in Nat
    BY DEF States
  <2> QED  BY <2>1
<1>2. E \in [ [ States -> V ] -> [ States -> V ] ]
  BY WholeBodyType
<1>3. ASSUME NEW f, NEW g, NEW s \in States,
             \A t \in States : rank[t] < rank[s] => f[t] = g[t]
      PROVE  WholeBody(f, s) = WholeBody(g, s)
  <2>1. Found(s) => f[Shorter(s)] = g[Shorter(s)]
    BY <1>3, ShorterIs
  <2> QED  BY <2>1 DEF WholeBody
<1>4. Extensional(States, V, rank, E)
  <2>1. \A f \in [ States -> V ], s \in States : E[f][s] = WholeBody(f, s)
    OBVIOUS
  <2> HIDE DEF E, rank
  <2> QED  BY <1>3, <2>1 DEF Extensional
<1>5. PICK f \in [ States -> V ] : f = [ s \in States |-> WholeBody(f, s) ]
  <2>1. V # {}
    BY EmptySeq
  <2>2. \A f \in [ States -> V ] : E[f] = [ s \in States |-> WholeBody(f, s) ]
    OBVIOUS
  <2>3. HasFixed(States, V, E)
    <3>1. IsRecursion(States, V, rank, E)
      BY <1>1, <1>2, <1>4, <2>1 DEF IsRecursion
    <3> HIDE DEF V, rank, E
    <3> QED  BY <3>1, Fixed
  <2>4. \E f \in [ States -> V ] : f = E[f]
    BY <2>3 DEF HasFixed
  <2> QED  BY <2>2, <2>4
<1>6. WholeSplit = CHOOSE g : g = [ s \in States |-> WholeBody(g, s) ]
  BY DEF WholeSplit, WholeBody, Found, Shorter, States
<1>7. WholeSplit = [ s \in States |-> WholeBody(WholeSplit, s) ]
  BY <1>5, <1>6
<1>8. \A s \in States : WholeSplit[s] = WholeBody(WholeSplit, s) /\ f[s] = WholeBody(f, s)
  BY <1>5, <1>7
<1>9. \A s \in States : WholeSplit[s] = f[s]
  <2> DEFINE D == { s \in States : WholeSplit[s] # f[s] }
  <2> SUFFICES ASSUME D # {}  PROVE FALSE
    OBVIOUS
  <2>1. PICK s \in D : \A t \in D : ~(rank[t] < rank[s])
    <3>1. D \subseteq States
      OBVIOUS
    <3> HIDE DEF D, rank
    <3> QED  BY <1>1, <3>1, LowestRank
  <2>2. s \in States /\ WholeSplit[s] # f[s]
    OBVIOUS
  <2>3. \A t \in States : rank[t] < rank[s] => WholeSplit[t] = f[t]
    BY <2>1
  <2>4. WholeBody(WholeSplit, s) = WholeBody(f, s)
    <3> HIDE DEF rank
    <3> QED  BY <1>3, <2>2, <2>3
  <2> QED  BY <1>8, <2>2, <2>4
<1>10. WholeSplit \in [ States -> Seq(Delta) ]
  <2>1. \A s \in States : WholeSplit[s] \in Seq(Delta)
    BY <1>9
  <2>2. WholeSplit = [ s \in States |-> WholeSplit[s] ]
    BY <1>7
  <2> QED  BY <2>1, <2>2
<1> QED  BY <1>8, <1>10

(* What is held back is shorter than the marker it may begin, and every    *)
(* end of the text that may begin one is held back.                        *)
LEMMA HoldFacts ==
  ASSUME NEW buf \in Seq(Chars), NEW marker \in Seq(Chars), Len(marker) # 0
  PROVE  /\ Hold(buf, marker) \in Nat
         /\ Hold(buf, marker) <= Len(buf) /\ Hold(buf, marker) < Len(marker)
         /\ \A n \in Beginnings(buf, marker) : n <= Hold(buf, marker)
<1> DEFINE S == {0} \cup Beginnings(buf, marker)
<1>1. PICK l \in Nat, m \in Nat : l = Len(buf) /\ m = Len(marker)
  OBVIOUS
<1>2. \A n \in S : n \in Nat /\ n <= l /\ n <= m - 1
  BY <1>1 DEF Beginnings
<1>3. Max(S) \in S /\ \A n \in S : n <= Max(S)
  <2>1. S \subseteq Nat /\ S # {}
    BY <1>2
  <2> HIDE DEF S
  <2> QED  BY <1>1, <1>2, <2>1, MaxIs
<1>4. Hold(buf, marker) = Max(S) /\ Beginnings(buf, marker) \subseteq S
  BY DEF Hold
<1> HIDE DEF S
<1>5. Max(S) \in Nat /\ Max(S) <= l /\ Max(S) <= m - 1
  BY <1>2, <1>3
<1> QED  BY <1>1, <1>3, <1>4, <1>5

SplitResult ==
  { r \in [ out : Seq(Delta), held : Seq(Chars), think : BOOLEAN ] :
      Len(r.held) < Len(Marker(r.think)) }

SplitBody(f, s) ==
  IF Found(s)
    THEN [ out   |-> Deltas(Before(s[1], Marker(s[2])), s[2]) \o f[Shorter(s)].out,
           held  |-> f[Shorter(s)].held,
           think |-> f[Shorter(s)].think ]
    ELSE [ out   |-> Deltas(SubSeq(s[1], 1, Len(s[1]) - Hold(s[1], Marker(s[2]))), s[2]),
           held  |-> TailOf(s[1], Hold(s[1], Marker(s[2]))),
           think |-> s[2] ]

(* A text is what is passed on of it and what is held back.                *)
LEMMA HeldParts ==
  ASSUME NEW buf \in Seq(Chars), NEW h \in Nat, h <= Len(buf)
  PROVE  /\ SubSeq(buf, 1, Len(buf) - h) \in Seq(Chars)
         /\ Len(SubSeq(buf, 1, Len(buf) - h)) = Len(buf) - h
         /\ TailOf(buf, h) \in Seq(Chars) /\ Len(TailOf(buf, h)) = h
         /\ \A j \in 1 .. h : TailOf(buf, h)[j] = buf[Len(buf) - h + j]
         /\ buf = SubSeq(buf, 1, Len(buf) - h) \o TailOf(buf, h)
<1>1. PICK l \in Nat, p \in Nat : l = Len(buf) /\ p = l - h /\ p <= l /\ l - p = h
  OBVIOUS
<1>2. PICK a : a = SubSeq(buf, 1, p)
  OBVIOUS
<1>3. /\ a \in Seq(Chars) /\ Len(a) = p
      /\ \A j \in 1 .. p : a[j] = buf[j]
  <2>1. PICK z \in Nat : z = 0 /\ z <= p /\ p <= Len(buf) /\ p - z = p
    BY <1>1
  <2>2. \A j \in 1 .. p : z + j = j
    BY <2>1
  <2>3. /\ SubSeq(buf, z + 1, p) \in Seq(Chars) /\ Len(SubSeq(buf, z + 1, p)) = p - z
        /\ \A j \in 1 .. p - z : SubSeq(buf, z + 1, p)[j] = buf[z + j]
    BY <2>1, PartType
  <2> QED  BY <1>2, <2>1, <2>2, <2>3
<1>4. PICK t : t = SubSeq(buf, p + 1, l)
  OBVIOUS
<1>5. /\ t \in Seq(Chars) /\ Len(t) = h
      /\ \A j \in 1 .. h : t[j] = buf[p + j]
  BY <1>1, <1>4, PartType
<1>6. buf = a \o t
  <2>1. PICK c : c = a \o t /\ c \in Seq(Chars)
    <3>1. a \o t \in Seq(Chars)
      BY <1>3, <1>5, ConcatProperties
    <3> QED  BY <3>1
  <2>2. Len(c) = l
    BY <1>1, <1>3, <1>5, <2>1
  <2>3. \A j \in 1 .. l : c[j] = buf[j]
    <3> SUFFICES ASSUME NEW j \in 1 .. l  PROVE c[j] = buf[j]
      OBVIOUS
    <3>1. CASE j <= p
      BY <1>3, <1>5, <2>1, <3>1
    <3>2. CASE ~(j <= p)
      <4>1. j - p \in 1 .. h /\ p + (j - p) = j
        BY <1>1, <3>2
      <4>2. c[j] = t[j - p]
        BY <1>1, <1>3, <1>5, <2>1, <3>2
      <4>3. t[j - p] = buf[p + (j - p)]
        BY <1>5, <4>1
      <4> QED  BY <4>1, <4>2, <4>3
    <3> QED  BY <3>1, <3>2
  <2> QED  BY <1>1, <2>1, <2>2, <2>3, SeqEqual
<1>7. TailOf(buf, h) = t
  BY <1>1, <1>4 DEF TailOf
<1> QED  BY <1>1, <1>2, <1>3, <1>5, <1>6, <1>7

LEMMA SplitBodyType ==
  ASSUME NEW f \in [ States -> SplitResult ], NEW s \in States
  PROVE  SplitBody(f, s) \in SplitResult
<1>1. PICK buf \in Seq(Chars), think \in BOOLEAN : s = << buf, think >>
  BY DEF States
<1>2. CASE Found(s)
  <2>1. f[Shorter(s)] \in SplitResult
    BY <1>2, ShorterIs
  <2>2. PICK a \in Seq(Delta), r \in SplitResult :
          a = Deltas(Before(s[1], Marker(s[2])), s[2]) /\ r = f[Shorter(s)]
    BY <1>2, <2>1, BeforeDeltas
  <2>3. SplitBody(f, s) = [ out |-> a \o r.out, held |-> r.held, think |-> r.think ]
    BY <1>2, <2>2 DEF SplitBody
  <2>4. /\ r.out \in Seq(Delta) /\ r.held \in Seq(Chars) /\ r.think \in BOOLEAN
        /\ Len(r.held) < Len(Marker(r.think))
    BY DEF SplitResult
  <2>5. a \o r.out \in Seq(Delta)
    BY <2>4
  <2> QED  BY <2>3, <2>4, <2>5 DEF SplitResult
<1>3. CASE ~Found(s)
  <2>1. PICK marker \in Seq(Chars) : marker = Marker(think) /\ Len(marker) # 0
    BY MarkerFacts
  <2>2. PICK h \in Nat : h = Hold(buf, marker) /\ h <= Len(buf) /\ h < Len(marker)
    BY <2>1, HoldFacts
  <2>3. PICK a \in Seq(Chars), t \in Seq(Chars) :
          a = SubSeq(buf, 1, Len(buf) - h) /\ t = TailOf(buf, h) /\ Len(t) = h
    BY <2>2, HeldParts
  <2>4. SplitBody(f, s) = [ out |-> Deltas(a, think), held |-> t, think |-> think ]
    BY <1>1, <1>3, <2>1, <2>2, <2>3 DEF SplitBody
  <2>5. Deltas(a, think) \in Seq(Delta)
    BY DeltasType
  <2> QED  BY <2>1, <2>2, <2>3, <2>4, <2>5 DEF SplitResult
<1> QED  BY <1>2, <1>3

LEMMA SplitUnfolds ==
  \A s \in States : /\ SplitInlineThink[s] \in SplitResult
                    /\ SplitInlineThink[s] = SplitBody(SplitInlineThink, s)
<1> DEFINE V == SplitResult
           rank == [ s \in States |-> Len(s[1]) ]
           E == [ f \in [ States -> V ] |-> [ s \in States |-> SplitBody(f, s) ] ]
<1>1. rank \in [ States -> Nat ]
  <2>1. \A s \in States : Len(s[1]) \in Nat
    BY DEF States
  <2> QED  BY <2>1
<1>2. E \in [ [ States -> V ] -> [ States -> V ] ]
  BY SplitBodyType
<1>3. ASSUME NEW f, NEW g, NEW s \in States,
             \A t \in States : rank[t] < rank[s] => f[t] = g[t]
      PROVE  SplitBody(f, s) = SplitBody(g, s)
  <2>1. Found(s) => f[Shorter(s)] = g[Shorter(s)]
    BY <1>3, ShorterIs
  <2> QED  BY <2>1 DEF SplitBody
<1>4. Extensional(States, V, rank, E)
  <2>1. \A f \in [ States -> V ], s \in States : E[f][s] = SplitBody(f, s)
    OBVIOUS
  <2> HIDE DEF E, rank
  <2> QED  BY <1>3, <2>1 DEF Extensional
<1>5. PICK f \in [ States -> V ] : f = [ s \in States |-> SplitBody(f, s) ]
  <2>1. V # {}
    <3>1. PICK b \in BOOLEAN, r \in { [ out |-> <<>>, held |-> <<>>, think |-> FALSE ] } :
            r = [ out |-> <<>>, held |-> <<>>, think |-> b ]
      OBVIOUS
    <3>2. Len(<<>>) < Len(Marker(b)) /\ <<>> \in Seq(Delta) /\ <<>> \in Seq(Chars)
      <4>1. 0 < Len(Marker(b))
        BY MarkerFacts
      <4>2. Len(<<>>) = 0
        OBVIOUS
      <4>3. Len(<<>>) < Len(Marker(b))
        BY <4>1, <4>2, Zenon
      <4> QED  BY <4>3, EmptySeq
    <3>3. r \in SplitResult
      BY <3>1, <3>2 DEF SplitResult
    <3> QED  BY <3>3
  <2>2. \A f \in [ States -> V ] : E[f] = [ s \in States |-> SplitBody(f, s) ]
    OBVIOUS
  <2>3. HasFixed(States, V, E)
    <3>1. IsRecursion(States, V, rank, E)
      BY <1>1, <1>2, <1>4, <2>1 DEF IsRecursion
    <3> HIDE DEF V, rank, E
    <3> QED  BY <3>1, Fixed
  <2>4. \E f \in [ States -> V ] : f = E[f]
    BY <2>3 DEF HasFixed
  <2> QED  BY <2>2, <2>4
<1>6. SplitInlineThink = CHOOSE g : g = [ s \in States |-> SplitBody(g, s) ]
  BY DEF SplitInlineThink, SplitBody, Found, Shorter, States
<1>7. SplitInlineThink = [ s \in States |-> SplitBody(SplitInlineThink, s) ]
  BY <1>5, <1>6
<1>8. \A s \in States : SplitInlineThink[s] = SplitBody(SplitInlineThink, s) /\ f[s] = SplitBody(f, s)
  BY <1>5, <1>7
<1>9. \A s \in States : SplitInlineThink[s] = f[s]
  <2> DEFINE D == { s \in States : SplitInlineThink[s] # f[s] }
  <2> SUFFICES ASSUME D # {}  PROVE FALSE
    OBVIOUS
  <2>1. PICK s \in D : \A t \in D : ~(rank[t] < rank[s])
    <3>1. D \subseteq States
      OBVIOUS
    <3> HIDE DEF D, rank
    <3> QED  BY <1>1, <3>1, LowestRank
  <2>2. s \in States /\ SplitInlineThink[s] # f[s]
    OBVIOUS
  <2>3. \A t \in States : rank[t] < rank[s] => SplitInlineThink[t] = f[t]
    BY <2>1
  <2>4. SplitBody(SplitInlineThink, s) = SplitBody(f, s)
    <3> HIDE DEF rank
    <3> QED  BY <1>3, <2>2, <2>3
  <2> QED  BY <1>8, <2>2, <2>4
<1> QED  BY <1>8, <1>9

-----------------------------------------------------------------------------
(* What comes after a text changes neither the first marker in it nor what *)
(* is before that.                                                         *)
IsJoint(c, a, b, n, m) ==
  /\ Len(c) = n + m
  /\ \A i \in 1 .. n : c[i] = a[i]
  /\ \A i \in 1 .. m : c[n + i] = b[i]

LEMMA Joint ==
  ASSUME NEW S, NEW a \in Seq(S), NEW b \in Seq(S), NEW n, NEW m, n = Len(a), m = Len(b)
  PROVE  \E c \in Seq(S) : c = a \o b /\ IsJoint(c, a, b, n, m)
<1>1. /\ a \o b \in Seq(S) /\ Len(a \o b) = n + m
      /\ \A i \in 1 .. n : (a \o b)[i] = a[i]
      /\ \A i \in 1 .. m : (a \o b)[n + i] = b[i]
  OBVIOUS
<1> QED  BY <1>1 DEF IsJoint

IsDeltas(d, text, think, n) ==
  Len(d) = n /\ \A i \in 1 .. n : d[i] = [ thinking |-> think, char |-> text[i] ]

LEMMA DeltasAre ==
  ASSUME NEW text \in Seq(Chars), NEW think \in BOOLEAN, NEW n, n = Len(text)
  PROVE  \E d \in Seq(Delta) : d = Deltas(text, think) /\ IsDeltas(d, text, think, n)
BY DeltasType DEF IsDeltas

LEMMA TextAssociates ==
  ASSUME NEW a \in Seq(Chars), NEW b \in Seq(Chars), NEW c \in Seq(Chars)
  PROVE  (a \o b) \o c = a \o (b \o c)
OBVIOUS

LEMMA DeltasAssociate ==
  ASSUME NEW a \in Seq(Delta), NEW b \in Seq(Delta), NEW c \in Seq(Delta)
  PROVE  (a \o b) \o c = a \o (b \o c)
OBVIOUS

LEMMA DeltasJoint ==
  ASSUME NEW a \in Seq(Chars), NEW b \in Seq(Chars), NEW think \in BOOLEAN
  PROVE  Deltas(a \o b, think) = Deltas(a, think) \o Deltas(b, think)
<1>1. PICK n \in Nat, m \in Nat : n = Len(a) /\ m = Len(b)
  OBVIOUS
<1> USE DEF IsJoint, IsDeltas
<1>2. PICK c \in Seq(Chars) : c = a \o b /\ IsJoint(c, a, b, n, m)
  <2> HIDE DEF IsJoint
  <2> QED  BY <1>1, Joint
<1>3. PICK da \in Seq(Delta), db \in Seq(Delta), dc \in Seq(Delta) :
        /\ da = Deltas(a, think) /\ IsDeltas(da, a, think, n)
        /\ db = Deltas(b, think) /\ IsDeltas(db, b, think, m)
        /\ dc = Deltas(c, think) /\ IsDeltas(dc, c, think, n + m)
  <2>1. n + m = Len(c)
    BY <1>2
  <2> HIDE DEF IsDeltas
  <2> QED  BY <1>1, <2>1, DeltasAre
<1>4. PICK d \in Seq(Delta) : d = da \o db /\ IsJoint(d, da, db, n, m)
  <2>1. Len(da) = n /\ Len(db) = m
    BY <1>3
  <2> HIDE DEF IsJoint
  <2> QED  BY <2>1, Joint
<1>5. ASSUME NEW i \in 1 .. n + m  PROVE  dc[i] = d[i]
  <2>1. CASE i \in 1 .. n
    <3>1. c[i] = a[i] /\ d[i] = da[i]
      BY <1>2, <1>4, <2>1
    <3>2. dc[i] = [ thinking |-> think, char |-> c[i] ]
      BY <1>3
    <3>3. da[i] = [ thinking |-> think, char |-> a[i] ]
      BY <1>3, <2>1
    <3> QED  BY <3>1, <3>2, <3>3
  <2>2. CASE i \notin 1 .. n
    <3>1. PICK j \in 1 .. m : i = n + j
      <4>1. i - n \in 1 .. m /\ i = n + (i - n)
        BY <2>2
      <4> QED  BY <4>1
    <3>2. c[i] = b[j] /\ d[i] = db[j]
      BY <1>2, <1>4, <3>1
    <3> QED  BY <1>3, <3>2
  <2> QED  BY <2>1, <2>2
<1>6. dc = d
  BY <1>3, <1>4, <1>5, SeqEqual
<1> QED  BY <1>2, <1>3, <1>4, <1>6

FirstAt(buf, marker, i, b, a, l, n) ==
  /\ i = Min(Finds(buf, marker)) /\ i \in Finds(buf, marker) /\ i + n <= l
  /\ b = Before(buf, marker) /\ Len(b) = i /\ \A j \in 1 .. i : b[j] = buf[j]
  /\ a = After(buf, marker) /\ Len(a) = l - (i + n)
  /\ \A j \in 1 .. l - (i + n) : a[j] = buf[i + n + j]

LEMMA FirstIs ==
  ASSUME NEW buf \in Seq(Chars), NEW marker \in Seq(Chars), Len(marker) # 0,
         Finds(buf, marker) # {}, NEW l, NEW n, l = Len(buf), n = Len(marker)
  PROVE  \E i \in Nat, b \in Seq(Chars), a \in Seq(Chars) : FirstAt(buf, marker, i, b, a, l, n)
BY FirstFind DEF FirstAt

LEMMA FoundEarly ==
  ASSUME NEW buf \in Seq(Chars), NEW z \in Seq(Chars), NEW marker \in Seq(Chars),
         Len(marker) # 0, Finds(buf, marker) # {}
  PROVE  /\ Finds(buf \o z, marker) # {}
         /\ Before(buf \o z, marker) = Before(buf, marker)
         /\ After(buf \o z, marker) = After(buf, marker) \o z
<1>1. PICK l \in Nat, k \in Nat, n \in Nat : l = Len(buf) /\ k = Len(z) /\ n = Len(marker)
  OBVIOUS
<1>2. PICK c \in Seq(Chars) : c = buf \o z /\ IsJoint(c, buf, z, l, k)
  BY <1>1, Joint
<1>3. PICK i \in Nat, b \in Seq(Chars), a \in Seq(Chars) :
        FirstAt(buf, marker, i, b, a, l, n)
  BY <1>1, FirstIs
<1> USE DEF IsJoint, FirstAt
<1>4. ASSUME NEW j \in Nat, j + n <= l
      PROVE  j \in Finds(c, marker) <=> j \in Finds(buf, marker)
  <2>1. Occurs(c, marker, j) <=> Occurs(buf, marker, j)
    <3>1. \A q \in 1 .. n : j + q \in 1 .. l
      BY <1>4
    <3>2. \A q \in 1 .. n : c[j + q] = buf[j + q]
      BY <1>2, <3>1
    <3> QED  BY <1>1, <3>2 DEF Occurs
  <2>2. j + Len(marker) <= Len(c) /\ j + Len(marker) <= Len(buf)
    BY <1>1, <1>2, <1>4
  <2> QED  BY <2>1, <2>2, FindsAre
<1>5. i \in Finds(c, marker)
  BY <1>3, <1>4
<1>6. ASSUME NEW j \in Finds(c, marker)  PROVE  i <= j
  <2>1. j \in Nat
    BY FindsAre
  <2>2. CASE j + n <= l
    <3>1. j \in Finds(buf, marker)
      BY <1>4, <2>1, <2>2
    <3> QED  BY <1>3, <3>1, FindsAre, MinIs
  <2>3. CASE ~(j + n <= l)
    BY <1>3, <2>1, <2>3
  <2> QED  BY <2>2, <2>3
<1>7. PICK b2 \in Seq(Chars), a2 \in Seq(Chars) : FirstAt(c, marker, i, b2, a2, l + k, n)
  <2>1. i = Min(Finds(c, marker)) /\ Finds(c, marker) # {} /\ Len(c) = l + k
    BY <1>2, <1>5, <1>6, FindsAre, MinOf
  <2>2. PICK i2 \in Nat, b2 \in Seq(Chars), a2 \in Seq(Chars) :
          FirstAt(c, marker, i2, b2, a2, l + k, n)
    <3> HIDE DEF FirstAt
    <3> QED  BY <1>1, <2>1, FirstIs
  <2>3. i2 = i
    BY <2>1, <2>2
  <2> QED  BY <2>2, <2>3
<1>8. b2 = b
  <2>1. \A j \in 1 .. i : j \in 1 .. l
    BY <1>3
  <2>2. \A j \in 1 .. i : b2[j] = b[j]
    BY <1>2, <1>3, <1>7, <2>1
  <2> QED  BY <1>3, <1>7, <2>2, SeqEqual
<1>9. a2 = a \o z
  <2>1. PICK p \in Nat : p = l - (i + n) /\ (l + k) - (i + n) = p + k /\ i + n + p = l
    <3>1. i + n <= l
      BY <1>3
    <3>2. l - (i + n) \in Nat /\ (l + k) - (i + n) = l - (i + n) + k
          /\ i + n + (l - (i + n)) = l
      BY <3>1
    <3> QED  BY <3>2
  <2>2. PICK d \in Seq(Chars) : d = a \o z /\ IsJoint(d, a, z, p, k)
    <3>1. Len(a) = p
      BY <1>3, <2>1
    <3> HIDE DEF IsJoint
    <3> QED  BY <1>1, <3>1, Joint
  <2>3. ASSUME NEW j \in 1 .. p + k  PROVE  a2[j] = d[j]
    <3>1. a2[j] = c[i + n + j]
      <4>1. j \in 1 .. (l + k) - (i + n)
        BY <2>1
      <4>2. \A q \in 1 .. (l + k) - (i + n) : a2[q] = c[i + n + q]
        BY <1>7
      <4> QED  BY <4>1, <4>2
    <3>2. CASE j \in 1 .. p
      <4>1. i + n + j \in 1 .. l
        BY <2>1, <3>2
      <4> QED  BY <1>2, <1>3, <2>1, <2>2, <3>1, <3>2, <4>1
    <3>3. CASE j \notin 1 .. p
      <4>1. PICK q \in 1 .. k : j = p + q
        <5>1. j - p \in 1 .. k /\ j = p + (j - p)
          BY <3>3
        <5> QED  BY <5>1
      <4>2. i + n + j = l + q
        BY <2>1, <4>1
      <4> QED  BY <1>2, <2>2, <3>1, <4>1, <4>2
    <3> QED  BY <3>2, <3>3
  <2>4. Len(a2) = Len(d) /\ Len(a2) = p + k
    BY <1>7, <2>1, <2>2
  <2>5. a2 = d
    BY <2>3, <2>4, SeqEqual
  <2> QED  BY <2>2, <2>5
<1> QED  BY <1>2, <1>3, <1>5, <1>7, <1>8, <1>9

(* A text without a marker in front leaves where it is what comes after.   *)
NoneBefore(n, text, marker) == \A i \in Finds(text, marker) : n <= i

Behind(c, a, w, marker) ==
  /\ Finds(c, marker) # {} <=> Finds(w, marker) # {}
  /\ Finds(w, marker) # {} => /\ Before(c, marker) = a \o Before(w, marker)
                              /\ After(c, marker) = After(w, marker)

LEMMA FoundLate ==
  ASSUME NEW a \in Seq(Chars), NEW w \in Seq(Chars), NEW marker \in Seq(Chars),
         Len(marker) # 0, NoneBefore(Len(a), a \o w, marker)
  PROVE  Behind(a \o w, a, w, marker)
<1>1. PICK l \in Nat, k \in Nat, n \in Nat, m \in Nat :
        l = Len(a) /\ k = Len(w) /\ n = Len(marker) /\ m = l + k
  OBVIOUS
<1>2. PICK c \in Seq(Chars) : c = a \o w /\ IsJoint(c, a, w, l, k)
  BY <1>1, Joint
<1> USE DEF IsJoint, FirstAt
<1>3. ASSUME NEW i \in Nat
      PROVE  l + i \in Finds(c, marker) <=> i \in Finds(w, marker)
  <2>1. (l + i) + n <= l + k <=> i + n <= k
    OBVIOUS
  <2>2. ASSUME i + n <= k
        PROVE  Occurs(c, marker, l + i) <=> Occurs(w, marker, i)
    <3>1. ASSUME NEW q \in 1 .. n  PROVE  c[(l + i) + q] = w[i + q]
      <4>1. i + q \in 1 .. k /\ (l + i) + q = l + (i + q)
        BY <2>2
      <4> QED  BY <1>2, <4>1
    <3> QED  BY <1>1, <3>1 DEF Occurs
  <2>3. l + i \in Nat /\ Len(c) = l + k
    BY <1>2
  <2>4. l + i \in Finds(c, marker) <=> (l + i) + n <= l + k /\ Occurs(c, marker, l + i)
    BY <1>1, <2>3, FindsAre
  <2>5. i \in Finds(w, marker) <=> i + n <= k /\ Occurs(w, marker, i)
    BY <1>1, FindsAre
  <2> QED  BY <2>1, <2>2, <2>4, <2>5
<1>4. ASSUME NEW j \in Finds(c, marker)
      PROVE  \E i \in Finds(w, marker) : j = l + i
  <2>1. j \in Nat /\ l <= j
    BY <1>1, <1>2, FindsAre DEF NoneBefore
  <2>2. PICK i \in Nat : j = l + i
    <3>1. j - l \in Nat /\ j = l + (j - l)
      BY <2>1
    <3> QED  BY <3>1
  <2> QED  BY <1>3, <2>2
<1>5. Finds(c, marker) # {} <=> Finds(w, marker) # {}
  <2>1. ASSUME NEW i \in Finds(w, marker)  PROVE  Finds(c, marker) # {}
    <3>1. i \in Nat
      BY FindsAre
    <3> QED  BY <1>3, <3>1
  <2> QED  BY <1>4, <2>1
<1>6. ASSUME Finds(w, marker) # {}
      PROVE  Before(c, marker) = a \o Before(w, marker) /\ After(c, marker) = After(w, marker)
  <2>1. PICK i \in Nat, b \in Seq(Chars), r \in Seq(Chars) : FirstAt(w, marker, i, b, r, k, n)
    <3> HIDE DEF FirstAt
    <3> QED  BY <1>1, <1>6, FirstIs
  <2>2. PICK j \in Nat, b2 \in Seq(Chars), r2 \in Seq(Chars) : FirstAt(c, marker, j, b2, r2, m, n)
    <3>1. Len(c) = m
      BY <1>1, <1>2
    <3> HIDE DEF FirstAt
    <3> QED  BY <1>1, <1>5, <1>6, <3>1, FirstIs
  <2>3. j = l + i
    <3>1. l + i \in Finds(c, marker)
      BY <1>3, <2>1
    <3>2. ASSUME NEW q \in Finds(c, marker)  PROVE  l + i <= q
      <4>1. PICK p \in Finds(w, marker) : q = l + p
        BY <1>4
      <4>2. p \in Nat /\ i <= p
        BY <2>1, FindsAre, MinIs
      <4> QED  BY <4>1, <4>2
    <3>3. Min(Finds(c, marker)) = l + i
      BY <3>1, <3>2, FindsAre, MinOf
    <3> QED  BY <2>2, <3>3
  <2>4. b2 = a \o b
    <3>1. PICK d \in Seq(Chars) : d = a \o b /\ IsJoint(d, a, b, l, i)
      <4>1. Len(b) = i
        BY <2>1
      <4> HIDE DEF IsJoint
      <4> QED  BY <1>1, <4>1, Joint
    <3>2. ASSUME NEW q \in 1 .. l + i  PROVE  b2[q] = d[q]
      <4>1. b2[q] = c[q]
        <5>1. q \in 1 .. j
          BY <2>3
        <5> QED  BY <2>2, <5>1
      <4>2. CASE q \in 1 .. l
        BY <1>2, <3>1, <4>1, <4>2
      <4>3. CASE q \notin 1 .. l
        <5>1. PICK p \in 1 .. i : q = l + p
          <6>1. q - l \in 1 .. i /\ q = l + (q - l)
            BY <4>3
          <6> QED  BY <6>1
        <5>2. p \in 1 .. k
          <6>1. i <= k
            BY <2>1
          <6> QED  BY <6>1
        <5>3. c[l + p] = w[p] /\ d[l + p] = b[p]
          BY <1>2, <3>1, <5>2
        <5>4. b[p] = w[p]
          BY <2>1
        <5> QED  BY <4>1, <5>1, <5>3, <5>4
      <4> QED  BY <4>2, <4>3
    <3>3. Len(b2) = l + i /\ Len(d) = l + i
      BY <2>2, <2>3, <3>1
    <3>4. b2 = d
      BY <3>2, <3>3, SeqEqual
    <3> QED  BY <3>1, <3>4
  <2>5. r2 = r
    <3>1. PICK p \in Nat : p = k - (i + n) /\ m - (j + n) = p
      <4>1. i + n <= k
        BY <2>1
      <4>2. k - (i + n) \in Nat /\ m - (j + n) = k - (i + n)
        BY <1>1, <2>3, <4>1
      <4> QED  BY <4>2
    <3>2. Len(r) = p /\ Len(r2) = p
      BY <2>1, <2>2, <3>1
    <3>3. ASSUME NEW q \in 1 .. p  PROVE  r2[q] = r[q]
      <4>1. r[q] = w[i + n + q]
        BY <2>1, <3>1
      <4>2. r2[q] = c[j + n + q]
        BY <2>2, <3>1
      <4>3. i + n + q \in 1 .. k /\ j + n + q = l + (i + n + q)
        BY <2>3, <3>1
      <4> QED  BY <1>2, <4>1, <4>2, <4>3
    <3> QED  BY <3>2, <3>3, SeqEqual
  <2> QED  BY <2>1, <2>2, <2>4, <2>5
<1> QED  BY <1>2, <1>5, <1>6 DEF Behind

LEMMA WholeLate ==
  ASSUME NEW a \in Seq(Chars), NEW w \in Seq(Chars), NEW think \in BOOLEAN,
         NoneBefore(Len(a), a \o w, Marker(think))
  PROVE  WholeSplit[<< a \o w, think >>] = Deltas(a, think) \o WholeSplit[<< w, think >>]
<1>1. PICK marker \in Seq(Chars) : marker = Marker(think) /\ Len(marker) # 0
  BY MarkerFacts
<1>2. PICK c \in Seq(Chars) : c = a \o w
  BY Joint
<1>3. PICK s \in States, t \in States : s = << c, think >> /\ t = << w, think >>
  BY DEF States
<1>4. /\ s[1] = c /\ s[2] = think /\ t[1] = w /\ t[2] = think
  BY <1>3
<1>5. WholeSplit[s] = WholeBody(WholeSplit, s) /\ WholeSplit[t] = WholeBody(WholeSplit, t)
  BY WholeUnfolds
<1>6. /\ Finds(c, marker) # {} <=> Finds(w, marker) # {}
      /\ Finds(w, marker) # {} => /\ Before(c, marker) = a \o Before(w, marker)
                                  /\ After(c, marker) = After(w, marker)
  <2>1. NoneBefore(Len(a), a \o w, marker)
    BY <1>1
  <2>2. Behind(a \o w, a, w, marker)
    BY <1>1, <2>1, FoundLate
  <2> QED  BY <1>2, <2>2 DEF Behind
<1>7. PICK da \in Seq(Delta) : da = Deltas(a, think)
  BY DeltasType
<1>8. CASE Finds(w, marker) # {}
  <2>1. Found(s) /\ Found(t) /\ Shorter(s) = Shorter(t)
    BY <1>1, <1>4, <1>6, <1>8 DEF Found, Shorter
  <2>2. PICK rest \in Seq(Delta) : rest = WholeSplit[Shorter(t)]
    BY <2>1, ShorterIs, WholeUnfolds
  <2>3. PICK b \in Seq(Chars) : b = Before(w, marker)
    BY <1>1, <1>8, FirstFind
  <2>4. PICK db \in Seq(Delta) : db = Deltas(b, think)
    BY DeltasType
  <2>5. Deltas(Before(c, marker), think) = da \o db
    <3>1. Before(c, marker) = a \o b
      BY <1>6, <1>8, <2>3
    <3>2. Deltas(a \o b, think) = Deltas(a, think) \o Deltas(b, think)
      BY DeltasJoint
    <3> QED  BY <1>7, <2>4, <3>1, <3>2
  <2>6. WholeSplit[s] = (da \o db) \o rest
    BY <1>1, <1>4, <1>5, <2>1, <2>2, <2>5 DEF WholeBody
  <2>7. WholeSplit[t] = db \o rest
    BY <1>1, <1>4, <1>5, <2>1, <2>2, <2>3, <2>4 DEF WholeBody
  <2>8. (da \o db) \o rest = da \o (db \o rest)
    BY ConcatAssociative
  <2> QED  BY <1>2, <1>3, <1>7, <2>6, <2>7, <2>8
<1>9. CASE Finds(w, marker) = {}
  <2>1. ~Found(s) /\ ~Found(t)
    BY <1>1, <1>4, <1>6, <1>9 DEF Found
  <2>2. WholeSplit[s] = Deltas(c, think) /\ WholeSplit[t] = Deltas(w, think)
    BY <1>4, <1>5, <2>1 DEF WholeBody
  <2> QED  BY <1>2, <1>3, <2>2, DeltasJoint
<1> QED  BY <1>8, <1>9

(* Nothing that is passed on belongs to a marker of which the rest is      *)
(* still to come.                                                          *)
LEMMA HoldIsEnough ==
  ASSUME NEW buf \in Seq(Chars), NEW marker \in Seq(Chars), Len(marker) # 0,
         Finds(buf, marker) = {}, NEW z \in Seq(Chars)
  PROVE  NoneBefore(Len(buf) - Hold(buf, marker), buf \o z, marker)
<1> SUFFICES ASSUME NEW i \in Finds(buf \o z, marker)
             PROVE  Len(buf) - Hold(buf, marker) <= i
  BY DEF NoneBefore
<1>1. PICK l \in Nat, k \in Nat, n \in Nat : l = Len(buf) /\ k = Len(z) /\ n = Len(marker)
  OBVIOUS
<1>2. PICK c \in Seq(Chars) : c = buf \o z /\ IsJoint(c, buf, z, l, k)
  BY <1>1, Joint
<1> USE DEF IsJoint
<1>3. PICK h \in Nat : h = Hold(buf, marker) /\ \A q \in Beginnings(buf, marker) : q <= h
  BY HoldFacts
<1>4. i \in Nat /\ i + n <= l + k /\ Occurs(c, marker, i)
  BY <1>1, <1>2, FindsAre
<1>5. CASE l <= i
  BY <1>1, <1>3, <1>4, <1>5
<1>6. CASE ~(l <= i)
  <2>1. PICK q \in Nat : q = l - i /\ q # 0 /\ i + q = l /\ q <= l
    <3>1. l - i \in Nat /\ l - i # 0 /\ i + (l - i) = l /\ l - i <= l
      BY <1>4, <1>6
    <3> QED  BY <3>1
  <2>2. q < n
    <3> SUFFICES ASSUME n <= q  PROVE FALSE
      BY <2>1
    <3>1. \A j \in 1 .. n : i + j \in 1 .. l
      BY <1>4, <2>1
    <3>2. Occurs(buf, marker, i)
      BY <1>1, <1>2, <1>4, <3>1 DEF Occurs
    <3>3. i + Len(marker) <= Len(buf)
      BY <1>1, <1>4, <2>1
    <3> QED  BY <1>4, <3>2, <3>3, FindsAre
  <2>3. PICK t : t = TailOf(buf, q)
    OBVIOUS
  <2>4. /\ t \in Seq(Chars) /\ Len(t) = q
        /\ \A j \in 1 .. q : t[j] = buf[i + j]
    <3>1. l - q = i
      BY <1>4, <2>1
    <3>2. /\ TailOf(buf, q) \in Seq(Chars) /\ Len(TailOf(buf, q)) = q
          /\ \A j \in 1 .. q : TailOf(buf, q)[j] = buf[Len(buf) - q + j]
      BY <1>1, <2>1, HeldParts
    <3> QED  BY <1>1, <2>3, <3>1, <3>2
  <2>5. \A j \in 1 .. q : t[j] = marker[j]
    <3> SUFFICES ASSUME NEW j \in 1 .. q  PROVE t[j] = marker[j]
      OBVIOUS
    <3>1. i + j \in 1 .. l /\ j \in 1 .. n
      BY <1>4, <2>1, <2>2
    <3>2. c[i + j] = buf[i + j] /\ c[i + j] = marker[j]
      BY <1>1, <1>2, <1>4, <3>1 DEF Occurs
    <3> QED  BY <2>4, <3>2
  <2>6. IsPrefix(t, marker)
    <3>1. PICK u : u = SubSeq(marker, 1, q)
      OBVIOUS
    <3>2. /\ u \in Seq(Chars) /\ Len(u) = q
          /\ \A j \in 1 .. q : u[j] = marker[j]
      <4>1. PICK o \in Nat : o = 0 /\ o <= q /\ q <= Len(marker) /\ q - o = q
        BY <1>1, <2>2
      <4>2. \A j \in 1 .. q : o + j = j
        BY <4>1
      <4>3. /\ SubSeq(marker, o + 1, q) \in Seq(Chars) /\ Len(SubSeq(marker, o + 1, q)) = q - o
            /\ \A j \in 1 .. q - o : SubSeq(marker, o + 1, q)[j] = marker[o + j]
        BY <4>1, PartType
      <4> QED  BY <3>1, <4>1, <4>2, <4>3
    <3>3. u = t
      BY <2>4, <2>5, <3>2, SeqEqual
    <3>4. SubSeq(t, 1, Len(t)) = t
      BY <2>4, SubSeqFull
    <3>5. Len(t) <= Len(marker)
      BY <1>1, <2>2, <2>4
    <3> QED  BY <2>4, <3>1, <3>3, <3>4, <3>5 DEF IsPrefix
  <2>7. q \in Beginnings(buf, marker)
    <3>1. q \in 1 .. Len(marker) - 1 /\ q <= Len(buf)
      BY <1>1, <2>1, <2>2
    <3> QED  BY <2>3, <2>6, <3>1 DEF Beginnings
  <2>8. q <= h
    BY <1>3, <2>7
  <2> QED  BY <1>1, <1>3, <1>4, <2>1, <2>8
<1> QED  BY <1>5, <1>6

(* What was passed on of a text, then what the rest becomes together with  *)
(* all that is still to come, is what the whole becomes.                   *)
Keeps(s, z) ==
  WholeSplit[<< s[1] \o z, s[2] >>] =
    SplitInlineThink[s].out
      \o WholeSplit[<< SplitInlineThink[s].held \o z, SplitInlineThink[s].think >>]

LEMMA SplitKeeps ==
  ASSUME NEW z \in Seq(Chars)  PROVE  \A s \in States : Keeps(s, z)
<1> DEFINE rank == [ s \in States |-> Len(s[1]) ]
           D == { s \in States : ~Keeps(s, z) }
<1> SUFFICES ASSUME D # {}  PROVE FALSE
  OBVIOUS
<1>1. rank \in [ States -> Nat ]
  <2>1. \A s \in States : Len(s[1]) \in Nat
    BY DEF States
  <2> QED  BY <2>1
<1>2. PICK s \in D : \A t \in D : ~(rank[t] < rank[s])
  <2>1. D \subseteq States
    OBVIOUS
  <2> HIDE DEF D, rank
  <2> QED  BY <1>1, <2>1, LowestRank
<1>3. s \in States /\ ~Keeps(s, z)
  OBVIOUS
<1>4. \A t \in States : Len(t[1]) < Len(s[1]) => Keeps(t, z)
  BY <1>2, <1>3
<1> HIDE DEF D, rank
<1>5. PICK buf \in Seq(Chars), think \in BOOLEAN :
        s = << buf, think >> /\ s[1] = buf /\ s[2] = think
  <2>1. PICK buf \in Seq(Chars), think \in BOOLEAN : s = << buf, think >>
    BY <1>3 DEF States
  <2>2. s[1] = buf /\ s[2] = think
    BY <2>1
  <2> QED  BY <2>1, <2>2
<1>6. PICK marker \in Seq(Chars) : marker = Marker(think) /\ Len(marker) # 0
  BY MarkerFacts
<1>7. PICK r \in SplitResult : r = SplitInlineThink[s] /\ r = SplitBody(SplitInlineThink, s)
  BY <1>3, SplitUnfolds
<1>8. PICK c \in Seq(Chars) : c = buf \o z
  BY Joint
<1>9. PICK u \in States : u = << c, think >> /\ u[1] = c /\ u[2] = think
  <2>1. << c, think >> \in States /\ << c, think >>[1] = c /\ << c, think >>[2] = think
    BY DEF States
  <2> QED  BY <2>1
<1>10. WholeSplit[u] = WholeBody(WholeSplit, u)
  BY WholeUnfolds
<1>11. CASE Finds(buf, marker) # {}
  <2>1. Found(s) /\ Found(u)
    BY <1>5, <1>6, <1>8, <1>9, <1>11, FoundEarly DEF Found
  <2>2. PICK t \in States : t = Shorter(s) /\ Len(t[1]) < Len(s[1])
    BY <1>3, <2>1, ShorterIs
  <2>3. PICK rest \in Seq(Chars) : rest = After(buf, marker) /\ t = << rest, ~think >>
    BY <1>5, <1>6, <1>11, <2>2, FirstFind DEF Shorter
  <2>4. PICK q \in SplitResult : q = SplitInlineThink[t]
    BY SplitUnfolds
  <2>5. PICK db \in Seq(Delta) : db = Deltas(Before(buf, marker), think)
    <3>1. Deltas(Before(s[1], Marker(s[2])), s[2]) \in Seq(Delta)
      BY <1>3, <2>1, BeforeDeltas
    <3> QED  BY <1>5, <1>6, <3>1
  <2>6. r = [ out |-> db \o q.out, held |-> q.held, think |-> q.think ]
    BY <1>5, <1>6, <1>7, <2>1, <2>2, <2>4, <2>5 DEF SplitBody
  <2>7. WholeSplit[<< rest \o z, ~think >>] = q.out \o WholeSplit[<< q.held \o z, q.think >>]
    <3>1. Keeps(t, z)
      BY <1>4, <2>2
    <3>2. t[1] = rest /\ t[2] = ~think
      BY <2>3
    <3> QED  BY <2>4, <3>1, <3>2 DEF Keeps
  <2>8. Shorter(u) = << rest \o z, ~think >>
    <3>1. After(buf \o z, marker) = After(buf, marker) \o z
      BY <1>6, <1>11, FoundEarly, Zenon
    <3>2. After(c, marker) = rest \o z
      BY <1>8, <2>3, <3>1
    <3> QED  BY <1>6, <1>9, <3>2 DEF Shorter
  <2>9. WholeSplit[u] = db \o (q.out \o WholeSplit[<< q.held \o z, q.think >>])
    <3>1. Before(c, marker) = Before(buf, marker)
      BY <1>6, <1>8, <1>11, FoundEarly
    <3>2. WholeSplit[u] = db \o WholeSplit[Shorter(u)]
      BY <1>6, <1>9, <1>10, <2>1, <2>5, <3>1 DEF WholeBody
    <3> QED  BY <2>7, <2>8, <3>2
  <2>10. PICK last \in Seq(Delta) : last = WholeSplit[<< q.held \o z, q.think >>]
    <3>1. PICK held \in Seq(Chars), mode \in BOOLEAN : held = q.held /\ mode = q.think
      BY DEF SplitResult
    <3>2. PICK e \in Seq(Chars) : e = held \o z
      BY Joint
    <3>3. << e, mode >> \in States
      BY DEF States
    <3>4. WholeSplit[<< e, mode >>] \in Seq(Delta)
      BY <3>3, WholeUnfolds
    <3> QED  BY <3>1, <3>2, <3>4
  <2>11. WholeSplit[u] = (db \o q.out) \o last
    <3>1. PICK x \in Seq(Delta) : x = q.out
      BY DEF SplitResult
    <3>2. (db \o x) \o last = db \o (x \o last)
      OBVIOUS
    <3> QED  BY <2>9, <2>10, <3>1, <3>2
  <2>12. r.out = db \o q.out /\ r.held = q.held /\ r.think = q.think
    BY <2>6
  <2> QED  BY <1>3, <1>5, <1>7, <1>8, <1>9, <2>10, <2>11, <2>12 DEF Keeps
<1>12. CASE Finds(buf, marker) = {}
  <2>1. ~Found(s)
    BY <1>5, <1>6, <1>12 DEF Found
  <2>2. PICK h \in Nat : h = Hold(buf, marker) /\ h <= Len(buf)
    BY <1>6, HoldFacts
  <2>3. PICK a \in Seq(Chars), t \in Seq(Chars) :
          /\ a = SubSeq(buf, 1, Len(buf) - h) /\ t = TailOf(buf, h)
          /\ Len(a) = Len(buf) - h /\ buf = a \o t
    <3>1. /\ SubSeq(buf, 1, Len(buf) - h) \in Seq(Chars)
          /\ Len(SubSeq(buf, 1, Len(buf) - h)) = Len(buf) - h
          /\ TailOf(buf, h) \in Seq(Chars)
          /\ buf = SubSeq(buf, 1, Len(buf) - h) \o TailOf(buf, h)
      BY <2>2, HeldParts
    <3> QED  BY <3>1
  <2>4. r = [ out |-> Deltas(a, think), held |-> t, think |-> think ]
    BY <1>5, <1>6, <1>7, <2>1, <2>2, <2>3 DEF SplitBody
  <2>5. PICK w \in Seq(Chars) : w = t \o z
    BY Joint
  <2>6. c = a \o w
    <3>1. (a \o t) \o z = a \o (t \o z)
      OBVIOUS
    <3> QED  BY <1>8, <2>3, <2>5, <3>1
  <2>7. NoneBefore(Len(a), a \o w, marker)
    <3>1. NoneBefore(Len(buf) - Hold(buf, marker), buf \o z, marker)
      BY <1>6, <1>12, HoldIsEnough
    <3> QED  BY <1>8, <2>2, <2>3, <2>6, <3>1
  <2>8. WholeSplit[<< a \o w, think >>] = Deltas(a, think) \o WholeSplit[<< w, think >>]
    BY <1>6, <2>7, WholeLate
  <2>9. r.out = Deltas(a, think) /\ r.held = t /\ r.think = think
    BY <2>4
  <2> QED  BY <1>3, <1>5, <1>7, <1>8, <2>5, <2>6, <2>8, <2>9 DEF Keeps
<1> QED  BY <1>11, <1>12

-----------------------------------------------------------------------------
(* Tool calls: what has been sent for an index grows with each piece.      *)
OwnPieces(ds, idx) == Selected(ds, { i \in DOMAIN ds : ds[i].index = idx })

SentIn(ds, idx) ==
  [ named     |-> \E i \in DOMAIN OwnPieces(ds, idx) : OwnPieces(ds, idx)[i].named,
    arguments |-> FlattenSeq([ i \in DOMAIN OwnPieces(ds, idx) |->
                                 OwnPieces(ds, idx)[i].arguments ]) ]

LEMMA SentIs == ASSUME NEW idx  PROVE  Sent(idx) = SentIn(tool_deltas, idx)
BY DEF Sent, SentIn, OwnPieces

LEMMA ToolDeltaType ==
  ASSUME NEW d \in ToolDeltas
  PROVE  /\ d.index \in Indices /\ d.index \in Nat /\ d.named \in BOOLEAN
         /\ d.arguments \in Seq(Args)
<1>1. d.index \in Indices /\ d.named \in BOOLEAN
      /\ d.arguments \in { <<>> } \cup { << a >> : a \in Args }
  BY DEF ToolDeltas
<1>2. \A a \in Args : << a >> \in Seq(Args)
  OBVIOUS
<1> QED  BY <1>1, <1>2, EmptySeq, StreamAssumption

LEMMA OwnType ==
  ASSUME NEW ds \in Seq(ToolDeltas), NEW idx
  PROVE  OwnPieces(ds, idx) \in Seq(ToolDeltas)
<1> DEFINE places == { i \in DOMAIN ds : ds[i].index = idx }
<1>1. places \in SUBSET DOMAIN ds
  OBVIOUS
<1>2. OwnPieces(ds, idx) = Selected(ds, places)
  BY DEF OwnPieces
<1> HIDE DEF places
<1> QED  BY <1>1, <1>2, SelectedType

LEMMA OwnMore ==
  ASSUME NEW ds \in Seq(ToolDeltas), NEW d \in ToolDeltas, NEW idx
  PROVE  OwnPieces(Append(ds, d), idx) =
           IF d.index = idx THEN Append(OwnPieces(ds, idx), d) ELSE OwnPieces(ds, idx)
<1>1. PICK n \in Nat, e \in Seq(ToolDeltas) : n = Len(ds) /\ e = Append(ds, d)
  <2>1. PICK n \in Nat : n = Len(ds)
    OBVIOUS
  <2>2. \E e \in Seq(ToolDeltas) : e = Append(ds, d)
    <3>1. Append(ds, d) \in Seq(ToolDeltas)
      BY AppendProperties
    <3> QED  BY <3>1
  <2> QED  BY <2>1, <2>2
<1>2. /\ DOMAIN ds = 1 .. n /\ DOMAIN e = 1 .. n + 1
      /\ e[n + 1] = d /\ \A i \in 1 .. n : e[i] = ds[i]
  BY <1>1
<1>3. PICK p : p = { i \in DOMAIN ds : ds[i].index = idx }
  OBVIOUS
<1>4. IsFiniteSet(p) /\ p \subseteq Nat /\ Selected(ds, p) \in Seq(ToolDeltas)
  <2>1. p \in SUBSET DOMAIN ds
    BY <1>3
  <2> QED  BY <2>1, SelectedType
<1>5. \A i \in p : i < n + 1 /\ ds[i] = e[i]
  BY <1>2, <1>3
<1>6. PICK q : q = { i \in DOMAIN e : e[i].index = idx }
  OBVIOUS
<1>7. q = IF d.index = idx THEN p \cup {n + 1} ELSE p
  <2>1. \A i \in 1 .. n + 1 : i \in 1 .. n \/ i = n + 1
    OBVIOUS
  <2>2. \A i : i \in q <=> (i \in p \/ (i = n + 1 /\ d.index = idx))
    BY <1>2, <1>3, <1>6, <2>1
  <2> QED  BY <2>2
<1>8. OwnPieces(ds, idx) = Selected(ds, p) /\ OwnPieces(e, idx) = Selected(e, q)
  BY <1>3, <1>6 DEF OwnPieces
<1>9. CASE d.index = idx
  <2>1. PICK k \in Nat : k = n + 1
    OBVIOUS
  <2>3. SameBelow(ds, e, p, k)
    BY <1>5, <2>1 DEF SameBelow
  <2>4. PICK a \in Seq(ToolDeltas) : a = Selected(ds, p)
    BY <1>4
  <2>5. d = e[k] /\ q = p \cup {k}
    BY <1>2, <1>7, <1>9, <2>1
  <2>6. Selected(e, q) = Append(a, d)
    <3>1. PICK b : b = Selected(e, q)
      OBVIOUS
    <3>2. IsAppended(b, a, d)
      BY <1>4, <2>3, <2>4, <2>5, <3>1, SelectedMore
    <3>3. b = Append(a, d)
      BY <3>2, AppendIs
    <3> QED  BY <3>1, <3>3
  <2> QED  BY <1>1, <1>8, <1>9, <2>4, <2>6
<1>10. CASE d.index # idx
  <2>1. Selected(ds, p) = Selected(e, p)
    BY <1>4, <1>5, SelectedSame
  <2> QED  BY <1>1, <1>7, <1>8, <1>10, <2>1
<1> QED  BY <1>9, <1>10

LEMMA SentOther ==
  ASSUME NEW ds \in Seq(ToolDeltas), NEW d \in ToolDeltas, NEW idx, d.index # idx
  PROVE  SentIn(Append(ds, d), idx) = SentIn(ds, idx)
BY OwnMore DEF SentIn

LEMMA SentNone ==
  ASSUME NEW ds, NEW idx, \A i \in DOMAIN ds : ds[i].index # idx
  PROVE  SentIn(ds, idx) = NoPartial
<1>1. { i \in DOMAIN ds : ds[i].index = idx } = {}
  OBVIOUS
<1>2. OwnPieces(ds, idx) = <<>>
  BY <1>1, SelectedNone DEF OwnPieces
<1>3. PICK o : o = <<>>
  OBVIOUS
<1>4. /\ ~ \E i \in DOMAIN o : o[i].named
      /\ [ i \in DOMAIN o |-> o[i].arguments ] = <<>>
  <2>1. DOMAIN o = 1 .. 0
    BY <1>3
  <2>2. [ i \in 1 .. 0 |-> o[i].arguments ] = <<>>
    BY EmptyMap
  <2> QED  BY <2>1, <2>2
<1>5. FlattenSeq(<<>>) = <<>>
  BY DEF FlattenSeq
<1> QED  BY <1>2, <1>3, <1>4, <1>5 DEF SentIn, NoPartial

LEMMA SentMore ==
  ASSUME NEW ds \in Seq(ToolDeltas), NEW d \in ToolDeltas
  PROVE  SentIn(Append(ds, d), d.index) = Filled(SentIn(ds, d.index), d)
<1>1. PICK o \in Seq(ToolDeltas), u \in Seq(ToolDeltas) :
        o = OwnPieces(ds, d.index) /\ u = Append(o, d)
  <2>1. PICK o \in Seq(ToolDeltas) : o = OwnPieces(ds, d.index)
    BY OwnType
  <2>2. Append(o, d) \in Seq(ToolDeltas)
    BY AppendProperties
  <2> QED  BY <2>1, <2>2
<1>2. OwnPieces(Append(ds, d), d.index) = u
  BY <1>1, OwnMore
<1>3. PICK n \in Nat : n = Len(o)
  OBVIOUS
<1>4. /\ u \in Seq(ToolDeltas) /\ DOMAIN o = 1 .. n /\ DOMAIN u = 1 .. n + 1
      /\ u[n + 1] = d /\ \A i \in 1 .. n : u[i] = o[i]
  BY <1>1, <1>3
<1>5. (\E i \in DOMAIN u : u[i].named) <=> (\E i \in DOMAIN o : o[i].named) \/ d.named
  <2>1. \A i \in 1 .. n + 1 : i \in 1 .. n \/ i = n + 1
    OBVIOUS
  <2>2. n + 1 \in 1 .. n + 1 /\ \A i \in 1 .. n : i \in 1 .. n + 1
    OBVIOUS
  <2> QED  BY <1>4, <2>1, <2>2, Zenon
<1>6. PICK ao, au : /\ ao = [ i \in DOMAIN o |-> o[i].arguments ]
                    /\ au = [ i \in DOMAIN u |-> u[i].arguments ]
  OBVIOUS
<1>7. ao \in Seq(Seq(Args)) /\ Len(ao) = n
  <2>1. \A i \in DOMAIN o : o[i].arguments \in Seq(Args)
    BY ToolDeltaType
  <2>2. ao \in [ DOMAIN o -> Seq(Args) ]
    BY <1>6, <2>1
  <2> QED  BY <1>3, <2>2, MapSeq
<1>8. au = Append(ao, d.arguments)
  <2>1. IsAppended(au, ao, d.arguments)
    <3>1. \A i \in 1 .. n : i \in 1 .. n + 1
      OBVIOUS
    <3>2. \A i \in 1 .. n : au[i] = ao[i]
      BY <1>4, <1>6, <3>1
    <3>3. au = [ i \in 1 .. n + 1 |-> au[i] ] /\ au[n + 1] = d.arguments
      BY <1>4, <1>6
    <3> QED  BY <1>7, <3>2, <3>3 DEF IsAppended
  <2>2. d.arguments \in Seq(Args)
    BY ToolDeltaType
  <2> QED  BY <1>7, <2>1, <2>2, AppendIs
<1>9. FlattenSeq(au) = FlattenSeq(ao) \o d.arguments
  <2>1. PICK args \in Seq(Args) : args = d.arguments
    BY ToolDeltaType
  <2>2. CASE ao # <<>>
    BY <1>7, <1>8, <2>1, <2>2, FlattenAppend
  <2>3. CASE ao = <<>>
    <3>1. au = << args >>
      BY <1>8, <2>1, <2>3
    <3>2. FlattenSeq(au) = args
      BY <3>1, FlattenOne
    <3>3. FlattenSeq(ao) = <<>>
      BY <2>3 DEF FlattenSeq
    <3>4. <<>> \o args = args
      OBVIOUS
    <3> QED  BY <2>1, <3>2, <3>3, <3>4
  <2> QED  BY <2>2, <2>3
<1>10. PICK bo \in BOOLEAN, bu \in BOOLEAN :
         /\ bo = \E i \in DOMAIN o : o[i].named
         /\ bu = \E i \in DOMAIN u : u[i].named
  OBVIOUS
<1>11. bu = (bo \/ d.named)
  BY <1>5, <1>10
<1>12. SentIn(Append(ds, d), d.index) = [ named |-> bu, arguments |-> FlattenSeq(au) ]
  BY <1>2, <1>6, <1>10 DEF SentIn
<1>13. SentIn(ds, d.index) = [ named |-> bo, arguments |-> FlattenSeq(ao) ]
  BY <1>1, <1>6, <1>10 DEF SentIn
<1> QED  BY <1>9, <1>11, <1>12, <1>13 DEF Filled

-----------------------------------------------------------------------------
(* The invariant of OpenAiStream: whatever comes next, it adds to what was *)
(* passed on what it would add to the whole; each slot is what was sent    *)
(* for its index.                                                          *)
NothingLost ==
  \A z \in Seq(Chars) :
    WholeSplit[<< content \o z, FALSE >>] =
      out \o WholeSplit[<< pending_text \o z, in_think_block >>]

TextInv ==
  /\ content \in Seq(Chars)
  /\ ended = "no" => NothingLost
  /\ CutsDoNotMatter

Collected ==
  /\ Len(partial_tools) <= Max(Indices) + 1
  /\ \A i \in 1 .. Len(partial_tools) : partial_tools[i] = SentIn(tool_deltas, i - 1)
  /\ \A k \in DOMAIN tool_deltas : tool_deltas[k].index < Len(partial_tools)

ToolsInv ==
  /\ tool_deltas \in Seq(ToolDeltas)
  /\ ended = "no" => tool_calls = <<>> /\ Collected
  /\ ended # "no" => partial_tools = <<>>
  /\ CallsAreWhole

OpenAiInv == TypeOK /\ TextInv /\ ToolsInv

LEMMA PieceType ==
  ASSUME NEW piece \in Pieces  PROVE  piece \in Seq(Chars)
<1>1. PICK n \in 1 .. MaxCut : piece \in [ 1 .. n -> Chars ]
  BY DEF Pieces
<1>2. n \in Nat
  BY StreamAssumption
<1> QED  BY <1>1, <1>2, SeqDef

LEMMA NotWhole ==
  ASSUME NEW text \in Seq(Chars), NEW think \in BOOLEAN, Len(text) < Len(Marker(think))
  PROVE  WholeSplit[<< text, think >>] = Deltas(text, think)
<1>1. PICK marker \in Seq(Chars) : marker = Marker(think)
  BY MarkerFacts
<1>2. Finds(text, marker) = {}
  <2> SUFFICES ASSUME NEW i \in Finds(text, marker)  PROVE FALSE
    OBVIOUS
  <2>1. i \in Nat /\ i + Len(marker) <= Len(text)
    BY FindsAre
  <2>2. Len(text) \in Nat /\ Len(marker) \in Nat
    OBVIOUS
  <2> QED  BY <1>1, <2>1, <2>2
<1>3. PICK s \in States : s = << text, think >>
  <2>1. << text, think >> \in States
    BY DEF States
  <2> QED  BY <2>1
<1>4. s[1] = text /\ s[2] = think
  BY <1>3
<1>5. ~Found(s)
  BY <1>1, <1>2, <1>4 DEF Found
<1>6. WholeSplit[s] = WholeBody(WholeSplit, s)
  BY WholeUnfolds
<1> QED  BY <1>3, <1>4, <1>5, <1>6 DEF WholeBody

LEMMA OpenAiInit == Init => OpenAiInv
<1> SUFFICES ASSUME Init  PROVE OpenAiInv
  OBVIOUS
<1> USE DEF Init
<1>1. PICK e : e = <<>> /\ e \in Seq(Chars) /\ Len(e) = 0
  BY EmptySeq, Zenon
<1>2. 0 < Len(Marker(FALSE))
  <2>1. PICK b \in BOOLEAN : b = FALSE
    OBVIOUS
  <2>2. 0 < Len(Marker(b))
    BY MarkerFacts
  <2> QED  BY <2>1, <2>2
<1>3. TypeOK
  <2>1. Len(<<>>) = 0
    OBVIOUS
  <2>2. Len(pending_text) < Len(Marker(in_think_block))
    BY <1>2, <2>1, Zenon
  <2> QED  BY <2>2, EmptySeq DEF TypeOK
<1>4. NothingLost
  <2> SUFFICES ASSUME NEW z \in Seq(Chars)
               PROVE  WholeSplit[<< <<>> \o z, FALSE >>] = <<>> \o WholeSplit[<< <<>> \o z, FALSE >>]
    BY DEF NothingLost
  <2>1. <<>> \o z = z
    OBVIOUS
  <2>2. PICK b \in BOOLEAN : b = FALSE
    OBVIOUS
  <2>3. << z, b >> \in States
    BY DEF States
  <2>4. PICK w \in Seq(Delta) : w = WholeSplit[<< z, b >>]
    BY <2>3, WholeUnfolds
  <2>5. <<>> \o w = w
    OBVIOUS
  <2> QED  BY <2>1, <2>2, <2>4, <2>5
<1>5. CutsDoNotMatter
  <2>1. PICK b \in BOOLEAN : b = FALSE
    OBVIOUS
  <2>2. WholeSplit[<< e, b >>] = Deltas(e, b)
    BY <1>1, <1>2, <2>1, NotWhole
  <2>3. PICK d \in Seq(Delta) : d = Deltas(e, b)
    BY <1>1, DeltasType
  <2>4. <<>> \o d = d
    OBVIOUS
  <2> QED  BY <1>1, <2>1, <2>2, <2>3, <2>4 DEF CutsDoNotMatter
<1>6. Max(Indices) \in Nat
  <2>1. PICK m \in Nat : \A y \in Indices : y <= m
    BY StreamAssumption, LargestOfFinite DEF IsLargest
  <2> QED  BY <2>1, StreamAssumption, MaxIs
<1>7. Collected
  <2>1. Len(<<>>) = 0 /\ DOMAIN <<>> = 1 .. 0
    OBVIOUS
  <2> QED  BY <1>6, <2>1 DEF Collected
<1>8. CallsAreWhole
  BY DEF CallsAreWhole
<1> QED  BY <1>1, <1>3, <1>4, <1>5, <1>7, <1>8, EmptySeq DEF OpenAiInv, TextInv, ToolsInv

LEMMA ContentInv ==
  ASSUME OpenAiInv, NEW piece \in Pieces, Content(piece)
  PROVE  OpenAiInv'
<1> USE DEF OpenAiInv
<1>1. PICK p \in Seq(Chars) : p = piece
  BY PieceType
<1>2. PICK text \in Seq(Chars), think \in BOOLEAN :
        /\ text = pending_text /\ think = in_think_block
        /\ content \in Seq(Chars) /\ out \in Seq(Delta) /\ NothingLost
  BY DEF TypeOK, TextInv, Content
<1>3. PICK s \in States : s = << text \o p, think >> /\ s[1] = text \o p /\ s[2] = think
  <2>1. PICK j \in Seq(Chars) : j = text \o p
    BY Joint
  <2>2. PICK s : s = << j, think >>
    OBVIOUS
  <2>3. s \in States /\ s[1] = j /\ s[2] = think
    BY <2>2 DEF States
  <2> QED  BY <2>1, <2>2, <2>3
<1>4. PICK r \in SplitResult : r = SplitInlineThink[s]
  BY SplitUnfolds
<1>5. /\ out' = out \o r.out /\ pending_text' = r.held /\ in_think_block' = r.think
      /\ content' = content \o p
      /\ UNCHANGED << partial_tools, tool_calls, ended, tool_deltas >> /\ ended = "no"
  BY <1>1, <1>2, <1>3, <1>4 DEF Content
<1>6. PICK o \in Seq(Delta), held \in Seq(Chars), mode \in BOOLEAN :
        /\ o = r.out /\ held = r.held /\ mode = r.think /\ Len(held) < Len(Marker(mode))
  BY DEF SplitResult
<1>7. out' \in Seq(Delta) /\ content' \in Seq(Chars)
  BY <1>2, <1>5, <1>6
<1>8. TypeOK'
  BY <1>5, <1>6, <1>7 DEF TypeOK
<1>9. ASSUME NEW z \in Seq(Chars)
      PROVE  /\ content' \o z \in Seq(Chars) /\ pending_text' \o z \in Seq(Chars)
             /\ WholeSplit[<< content' \o z, FALSE >>] =
                  out' \o WholeSplit[<< pending_text' \o z, in_think_block' >>]
  <2>1. PICK c \in Seq(Chars) : c = content
    BY <1>2
  <2>2. PICK q \in Seq(Chars) : q = p \o z
    BY Joint
  <2>3. (c \o p) \o z = c \o (p \o z)
    BY TextAssociates
  <2>3a. (text \o p) \o z = text \o (p \o z)
    BY TextAssociates
  <2>4. WholeSplit[<< c \o q, FALSE >>] = out \o WholeSplit[<< text \o q, think >>]
    BY <1>2, <2>1 DEF NothingLost
  <2>5. Keeps(s, z)
    BY SplitKeeps
  <2>6. WholeSplit[<< text \o q, think >>] = o \o WholeSplit[<< held \o z, mode >>]
    BY <1>3, <1>4, <1>6, <2>2, <2>3a, <2>5 DEF Keeps
  <2>7. PICK w \in Seq(Delta) : w = WholeSplit[<< held \o z, mode >>]
    <3>1. PICK e \in Seq(Chars) : e = held \o z
      BY Joint
    <3>2. << e, mode >> \in States
      BY DEF States
    <3>3. WholeSplit[<< e, mode >>] \in Seq(Delta)
      BY <3>2, WholeUnfolds
    <3> QED  BY <3>1, <3>3
  <2>8. PICK before \in Seq(Delta) : before = out
    BY <1>2
  <2>9. before \o (o \o w) = (before \o o) \o w
    BY DeltasAssociate
  <2>10. WholeSplit[<< content' \o z, FALSE >>] =
           out' \o WholeSplit[<< pending_text' \o z, in_think_block' >>]
    BY <1>5, <1>6, <2>1, <2>2, <2>3, <2>4, <2>6, <2>7, <2>8, <2>9
  <2>11. content' \o z \in Seq(Chars) /\ held \o z \in Seq(Chars)
    BY <1>7
  <2> QED  BY <1>5, <1>6, <2>10, <2>11
<1>10. NothingLost'
  BY <1>9 DEF NothingLost
<1>11. CutsDoNotMatter'
  <2>1. PICK e \in Seq(Chars) : e = <<>>
    BY EmptySeq
  <2>2. PICK c \in Seq(Chars) : c = content'
    BY <1>7
  <2>3. c \o e = c /\ held \o e = held
    BY <2>1
  <2>4. WholeSplit[<< c, FALSE >>] = out' \o WholeSplit[<< held, mode >>]
    BY <1>5, <1>6, <1>9, <2>2, <2>3
  <2>5. WholeSplit[<< held, mode >>] = Deltas(held, mode)
    BY <1>6, NotWhole
  <2> QED  BY <1>5, <1>6, <2>2, <2>4, <2>5 DEF CutsDoNotMatter
<1>12. TextInv'
  BY <1>7, <1>10, <1>11 DEF TextInv
<1>13. ToolsInv'
  <2>1. /\ CallsAreWhole' <=> CallsAreWhole
        /\ Collected' <=> Collected
    BY <1>5 DEF CallsAreWhole, Collected, Sent
  <2> QED  BY <1>5, <2>1 DEF ToolsInv
<1> QED  BY <1>8, <1>12, <1>13

-----------------------------------------------------------------------------
(* The slots, and what is handed over of them.                             *)
LEMMA SlotTypes ==
  ASSUME NEW tools \in Seq(Partial), NEW idx \in Nat, NEW n, n = Len(tools)
  PROVE  \E s \in Seq(Partial) :
           /\ s = Slots(tools, idx)
           /\ Len(s) = IF n > idx THEN n ELSE idx + 1
           /\ \A i \in 1 .. Len(s) : s[i] = IF i <= n THEN tools[i] ELSE NoPartial
<1>1. PICK m \in Nat : m = IF n > idx THEN n ELSE idx + 1
  OBVIOUS
<1>2. PICK s : s = Slots(tools, idx)
  OBVIOUS
<1>3. s = [ i \in 1 .. m |-> IF i <= n THEN tools[i] ELSE NoPartial ]
  BY <1>1, <1>2 DEF Slots
<1>4. NoPartial \in Partial
  BY EmptySeq DEF NoPartial, Partial
<1>5. \A i \in 1 .. m : (IF i <= n THEN tools[i] ELSE NoPartial) \in Partial
  BY <1>4
<1>6. s \in [ 1 .. m -> Partial ]
  BY <1>3, <1>5
<1>7. s \in Seq(Partial) /\ Len(s) = m
  BY <1>6, SeqDef
<1>8. \A i \in 1 .. m : s[i] = IF i <= n THEN tools[i] ELSE NoPartial
  BY <1>3
<1> QED  BY <1>1, <1>2, <1>7, <1>8

LEMMA NamedType ==
  ASSUME NEW tools \in Seq(Partial)  PROVE  NamedCalls(tools) \in Seq(Partial)
<1> DEFINE places == { i \in DOMAIN tools : tools[i].named }
<1>1. places \in SUBSET DOMAIN tools /\ NamedCalls(tools) = Selected(tools, places)
  BY DEF NamedCalls
<1> HIDE DEF places
<1> QED  BY <1>1, SelectedType

(* Slots without a name make no difference.                                *)
LEMMA NamedSame ==
  ASSUME NEW tools \in Seq(Partial), NEW m \in Nat, Len(tools) <= m,
         NEW more, DOMAIN more = 1 .. m,
         \A i \in 1 .. Len(tools) : more[i] = tools[i],
         \A i \in 1 .. m : i <= Len(tools) \/ more[i] = NoPartial
  PROVE  NamedCalls(more) = NamedCalls(tools)
<1>1. PICK n \in Nat : n = Len(tools) /\ DOMAIN tools = 1 .. n
  OBVIOUS
<1>2. PICK p : p = { i \in DOMAIN tools : tools[i].named }
  OBVIOUS
<1>3. { i \in DOMAIN more : more[i].named } = p
  <2>1. \A i \in 1 .. m : i \in 1 .. n \/ ~more[i].named
    <3>1. ~NoPartial.named
      BY DEF NoPartial
    <3>2. \A i \in 1 .. m : i <= n => i \in 1 .. n
      OBVIOUS
    <3> QED  BY <1>1, <3>1, <3>2
  <2>2. \A i \in 1 .. n : i \in 1 .. m
    BY <1>1
  <2>3. \A i \in 1 .. n : more[i] = tools[i]
    BY <1>1
  <2> QED  BY <1>1, <1>2, <2>1, <2>2, <2>3
<1>4. IsFiniteSet(p) /\ p \subseteq Nat
  <2>1. p \in SUBSET DOMAIN tools
    BY <1>2
  <2> QED  BY <2>1, SelectedType
<1>5. \A i \in p : tools[i] = more[i]
  BY <1>1, <1>2
<1>6. Selected(tools, p) = Selected(more, p)
  BY <1>4, <1>5, SelectedSame
<1> QED  BY <1>2, <1>3, <1>6 DEF NamedCalls

LEMMA MaxIndex ==
  Max(Indices) \in Nat /\ \A i \in Indices : i <= Max(Indices)
<1>1. PICK m \in Nat : \A y \in Indices : y <= m
  BY StreamAssumption, LargestOfFinite DEF IsLargest
<1> QED  BY <1>1, StreamAssumption, MaxIs

LEMMA ToolDeltaInv ==
  ASSUME OpenAiInv, NEW d \in ToolDeltas, ToolDelta(d)
  PROVE  OpenAiInv'
<1> USE DEF OpenAiInv
<1>1. PICK ds \in Seq(ToolDeltas), tools \in Seq(Partial) :
        /\ ds = tool_deltas /\ tools = partial_tools
        /\ Collected /\ tool_calls = <<>> /\ ended = "no"
  BY DEF ToolDelta, ToolsInv, TypeOK
<1>2. PICK idx \in Nat : idx = d.index /\ idx \in Indices /\ idx + 1 <= Max(Indices) + 1
  BY ToolDeltaType, MaxIndex
<1>3. PICK n \in Nat : n = Len(tools)
  OBVIOUS
<1>4. PICK s \in Seq(Partial), l \in Nat :
        /\ s = Slots(tools, idx) /\ l = Len(s) /\ l = IF n > idx THEN n ELSE idx + 1
        /\ \A i \in 1 .. l : s[i] = IF i <= n THEN tools[i] ELSE NoPartial
  BY <1>3, SlotTypes
<1>5. ASSUME NEW i \in 1 .. l  PROVE  s[i] = SentIn(ds, i - 1)
  <2>1. CASE i <= n
    <3>1. i \in 1 .. Len(tools)
      BY <1>3, <2>1
    <3>2. tools[i] = SentIn(ds, i - 1)
      BY <1>1, <3>1 DEF Collected
    <3> QED  BY <1>4, <2>1, <3>2
  <2>2. CASE ~(i <= n)
    <3>1. \A k \in DOMAIN ds : ds[k].index # i - 1
      <4> SUFFICES ASSUME NEW k \in DOMAIN ds  PROVE ds[k].index # i - 1
        OBVIOUS
      <4>1. ds[k].index < n
        BY <1>1, <1>3 DEF Collected
      <4>2. ds[k].index \in Nat
        BY ToolDeltaType
      <4> QED  BY <2>2, <4>1, <4>2
    <3>2. SentIn(ds, i - 1) = NoPartial
      BY <3>1, SentNone
    <3> QED  BY <1>4, <2>2, <3>2
  <2> QED  BY <2>1, <2>2
<1>6. PICK k \in 1 .. l : k = idx + 1 /\ k - 1 = idx
  <2>1. idx + 1 \in 1 .. l /\ idx + 1 - 1 = idx
    BY <1>4
  <2> QED  BY <2>1
<1>7. PICK f \in Partial : f = Filled(s[k], d)
  <2>1. PICK x \in Partial : x = s[k]
    <3>1. s[k] \in Partial
      BY <1>4, ElementOfSeq
    <3> QED  BY <3>1
  <2>2. x.named \in BOOLEAN /\ x.arguments \in Seq(Args)
    BY DEF Partial
  <2>3. d.named \in BOOLEAN /\ d.arguments \in Seq(Args)
    BY ToolDeltaType
  <2>4. x.arguments \o d.arguments \in Seq(Args)
    BY <2>2, <2>3
  <2>5. Filled(x, d) \in Partial
    BY <2>2, <2>3, <2>4 DEF Filled, Partial
  <2> QED  BY <2>1, <2>5
<1>8. PICK new \in Seq(Partial) : /\ new = [ s EXCEPT ![k] = f ] /\ Len(new) = l
                                  /\ \A i \in 1 .. l : new[i] = IF i = k THEN f ELSE s[i]
  <2>1. PICK new : new = [ s EXCEPT ![k] = f ]
    OBVIOUS
  <2>2. /\ new \in Seq(Partial) /\ Len(new) = l
        /\ \A i \in 1 .. l : new[i] = IF i = k THEN f ELSE s[i]
    <3>1. l = Len(s)
      BY <1>4
    <3>2. s \in [ 1 .. l -> Partial ]
      BY <3>1, LenProperties
    <3>3. new \in [ 1 .. l -> Partial ]
          /\ \A i \in 1 .. l : new[i] = IF i = k THEN f ELSE s[i]
      BY <2>1, <3>2
    <3>4. new \in Seq(Partial) /\ Len(new) = l
      BY <3>3, SeqDef
    <3> QED  BY <3>3, <3>4
  <2> QED  BY <2>1, <2>2
<1>9. /\ partial_tools' = new /\ tool_deltas' = Append(ds, d)
      /\ UNCHANGED << pending_text, in_think_block, out, tool_calls, ended, content >>
  BY <1>1, <1>2, <1>4, <1>6, <1>7, <1>8 DEF ToolDelta
<1>10. PICK more \in Seq(ToolDeltas) : more = tool_deltas'
  <2>1. Append(ds, d) \in Seq(ToolDeltas)
    OBVIOUS
  <2> QED  BY <1>9, <2>1
<1>11. ASSUME NEW i \in 1 .. l  PROVE  new[i] = SentIn(more, i - 1)
  <2>1. CASE i = k
    <3>1. SentIn(Append(ds, d), d.index) = Filled(SentIn(ds, d.index), d)
      BY SentMore
    <3>2. d.index = i - 1 /\ SentIn(ds, d.index) = s[k]
      BY <1>2, <1>5, <1>6, <2>1
    <3> QED  BY <1>7, <1>8, <1>9, <1>10, <2>1, <3>1, <3>2
  <2>2. CASE i # k
    <3>1. d.index # i - 1
      BY <1>2, <1>6, <2>2
    <3>2. SentIn(Append(ds, d), i - 1) = SentIn(ds, i - 1)
      BY <3>1, SentOther
    <3> QED  BY <1>5, <1>8, <1>9, <1>10, <2>2, <3>2
  <2> QED  BY <2>1, <2>2
<1>12. Collected'
  <2>1. l <= Max(Indices) + 1
    BY <1>1, <1>2, <1>3, <1>4 DEF Collected
  <2>2. ASSUME NEW j \in DOMAIN more  PROVE more[j].index < l
    <3>1. PICK q \in Nat : q = Len(ds) /\ DOMAIN ds = 1 .. q
      OBVIOUS
    <3>2. /\ DOMAIN more = 1 .. q + 1 /\ more[q + 1] = d
          /\ \A i \in 1 .. q : more[i] = ds[i]
      BY <1>9, <1>10, <3>1
    <3>3. j \in 1 .. q \/ j = q + 1
      BY <3>2
    <3>4. CASE j \in 1 .. q
      <4>1. ds[j].index < n /\ ds[j].index \in Nat
        BY <1>1, <1>3, <3>1, <3>4, ToolDeltaType DEF Collected
      <4> QED  BY <1>4, <3>2, <3>4, <4>1
    <3>5. CASE j = q + 1
      BY <1>2, <1>4, <3>2, <3>5
    <3> QED  BY <3>3, <3>4, <3>5
  <2> QED  BY <1>8, <1>9, <1>10, <1>11, <2>1, <2>2 DEF Collected
<1>13. TypeOK'
  BY <1>9 DEF TypeOK
<1>14. TextInv'
  <2>1. NothingLost' <=> NothingLost
    BY <1>9 DEF NothingLost
  <2>2. CutsDoNotMatter' <=> CutsDoNotMatter
    BY <1>9 DEF CutsDoNotMatter
  <2> QED  BY <1>9, <2>1, <2>2 DEF TextInv
<1>15. ToolsInv'
  BY <1>1, <1>9, <1>10, <1>12 DEF ToolsInv, CallsAreWhole
<1> QED  BY <1>13, <1>14, <1>15

LEMMA SentOfSlots ==
  ASSUME NEW tools \in Seq(Partial), tools = partial_tools, Collected,
         tool_deltas \in Seq(ToolDeltas)
  PROVE  NamedCalls([ i \in 1 .. Max(Indices) + 1 |-> Sent(i - 1) ]) = NamedCalls(tools)
<1>1. PICK n \in Nat, m \in Nat : n = Len(tools) /\ m = Max(Indices) + 1 /\ n <= m
  <2>1. Max(Indices) + 1 \in Nat /\ Len(tools) <= Max(Indices) + 1
    BY MaxIndex DEF Collected
  <2> QED  BY <2>1
<1>2. PICK more : more = [ i \in 1 .. Max(Indices) + 1 |-> Sent(i - 1) ]
  OBVIOUS
<1>3. DOMAIN more = 1 .. m /\ \A i \in 1 .. m : more[i] = SentIn(tool_deltas, i - 1)
  BY <1>1, <1>2, SentIs
<1>4. \A i \in 1 .. Len(tools) : more[i] = tools[i]
  BY <1>1, <1>3 DEF Collected
<1>5. ASSUME NEW i \in 1 .. m, ~(i <= n)  PROVE  more[i] = NoPartial
  <2>1. \A k \in DOMAIN tool_deltas : tool_deltas[k].index # i - 1
    <3> SUFFICES ASSUME NEW k \in DOMAIN tool_deltas  PROVE tool_deltas[k].index # i - 1
      OBVIOUS
    <3>1. tool_deltas[k].index < n /\ tool_deltas[k].index \in Nat
      BY <1>1, ToolDeltaType DEF Collected
    <3> QED  BY <1>5, <3>1
  <2> QED  BY <1>3, <2>1, SentNone
<1>6. \A i \in 1 .. m : i <= Len(tools) \/ more[i] = NoPartial
  BY <1>1, <1>5
<1>7. NamedCalls(more) = NamedCalls(tools)
  BY <1>1, <1>3, <1>4, <1>6, NamedSame
<1> QED  BY <1>2, <1>7

LEMMA NoneNamed == NamedCalls(<<>>) = <<>>
<1>1. PICK e : e = <<>> /\ { i \in DOMAIN e : e[i].named } = {}
  OBVIOUS
<1> QED  BY <1>1, SelectedNone DEF NamedCalls

(* Finish and Done, as far as the calls go.                                *)
LEMMA FlushInv ==
  ASSUME OpenAiInv, FlushTools, ended' # "no", tool_deltas' = tool_deltas
  PROVE  /\ ToolsInv' /\ tool_calls' \in Seq(Partial) /\ partial_tools' = <<>>
<1> USE DEF OpenAiInv
<1>1. PICK tools \in Seq(Partial) : tools = partial_tools
  BY DEF TypeOK
<1>2. PICK calls \in Seq(Partial), named \in Seq(Partial) :
        calls = tool_calls /\ named = NamedCalls(tools)
  BY NamedType DEF TypeOK
<1>3. tool_calls' = calls \o named /\ partial_tools' = <<>>
  BY <1>1, <1>2 DEF FlushTools
<1>4. tool_calls' \in Seq(Partial)
  BY <1>3
<1>5. NamedCalls([ i \in 1 .. Max(Indices) + 1 |-> Sent(i - 1) ]) = tool_calls'
  <2>1. CASE ended = "no"
    <3>1. calls = <<>> /\ Collected /\ tool_deltas \in Seq(ToolDeltas)
      BY <1>2, <2>1 DEF ToolsInv
    <3>2. <<>> \o named = named
      OBVIOUS
    <3> QED  BY <1>1, <1>2, <1>3, <3>1, <3>2, SentOfSlots
  <2>2. CASE ended # "no"
    <3>1. tools = <<>> /\ calls = NamedCalls([ i \in 1 .. Max(Indices) + 1 |-> Sent(i - 1) ])
      BY <1>1, <1>2, <2>2 DEF ToolsInv, CallsAreWhole
    <3>2. named = <<>>
      BY <1>2, <3>1, NoneNamed
    <3>3. calls \o <<>> = calls
      OBVIOUS
    <3> QED  BY <1>3, <3>1, <3>2, <3>3
  <2> QED  BY <2>1, <2>2
<1>6. (\A i : Sent(i)' = Sent(i))
  BY DEF Sent
<1>7. CallsAreWhole'
  BY <1>5, <1>6 DEF CallsAreWhole
<1> QED  BY <1>3, <1>4, <1>7 DEF ToolsInv

LEMMA FinishInv == ASSUME OpenAiInv, Finish  PROVE OpenAiInv'
<1> USE DEF OpenAiInv
<1>1. PICK text \in Seq(Chars), think \in BOOLEAN, o \in Seq(Delta), d \in Seq(Delta) :
        text = pending_text /\ think = in_think_block /\ o = out /\ d = Deltas(text, think)
  BY DeltasType DEF TypeOK
<1>2. /\ out' = o \o d /\ pending_text' = <<>> /\ in_think_block' = think
      /\ content' = content /\ tool_deltas' = tool_deltas /\ ended' = "finished"
      /\ FlushTools
  BY <1>1 DEF Finish
<1>3. ToolsInv' /\ tool_calls' \in Seq(Partial) /\ partial_tools' = <<>>
  BY <1>2, FlushInv
<1>4. PICK e \in Seq(Chars) : e = <<>> /\ Len(e) = 0
  <2>1. <<>> \in Seq(Chars) /\ Len(<<>>) = 0
    OBVIOUS
  <2> QED  BY <2>1
<1>5. TypeOK'
  <2>1. 0 < Len(Marker(think))
    BY MarkerFacts
  <2>2. o \o d \in Seq(Delta)
    OBVIOUS
  <2>3. <<>> \in Seq(Partial)
    BY EmptySeq
  <2> QED  BY <1>2, <1>3, <1>4, <2>1, <2>2, <2>3 DEF TypeOK
<1>6. CutsDoNotMatter'
  <2>1. PICK f \in Seq(Delta) : f = Deltas(e, think) /\ Len(f) = 0
    BY <1>4, DeltasType
  <2>2. (o \o d) \o f = o \o d
    <3>1. f = <<>>
      BY <2>1
    <3> QED  BY <3>1
  <2>3. o \o d = WholeSplit[<< content, FALSE >>]
    BY <1>1 DEF TextInv, CutsDoNotMatter
  <2> QED  BY <1>2, <1>4, <2>1, <2>2, <2>3 DEF CutsDoNotMatter
<1>7. TextInv'
  BY <1>2, <1>6 DEF TextInv
<1> QED  BY <1>3, <1>5, <1>7

LEMMA DoneInv == ASSUME OpenAiInv, Done  PROVE OpenAiInv'
<1> USE DEF OpenAiInv
<1>1. /\ UNCHANGED << pending_text, in_think_block, out, content, tool_deltas >>
      /\ ended' = "done" /\ FlushTools
  BY DEF Done
<1>2. ToolsInv' /\ tool_calls' \in Seq(Partial) /\ partial_tools' = <<>>
  BY <1>1, FlushInv
<1>3. TypeOK'
  <2>1. <<>> \in Seq(Partial)
    BY EmptySeq
  <2> QED  BY <1>1, <1>2, <2>1 DEF TypeOK
<1>4. CutsDoNotMatter' <=> CutsDoNotMatter
  BY <1>1 DEF CutsDoNotMatter
<1>5. TextInv'
  BY <1>1, <1>4 DEF TextInv
<1> QED  BY <1>2, <1>3, <1>5

LEMMA OpenAiStays == ASSUME OpenAiInv, UNCHANGED vars  PROVE OpenAiInv'
<1> USE DEF OpenAiInv, vars
<1>1. TypeOK'
  BY DEF TypeOK
<1>2. (NothingLost' <=> NothingLost) /\ (CutsDoNotMatter' <=> CutsDoNotMatter)
  BY DEF NothingLost, CutsDoNotMatter
<1>3. TextInv'
  BY <1>2 DEF TextInv
<1>4. (Collected' <=> Collected) /\ (CallsAreWhole' <=> CallsAreWhole)
  BY DEF Collected, CallsAreWhole, Sent
<1>5. ToolsInv'
  BY <1>4 DEF ToolsInv
<1> QED  BY <1>1, <1>3, <1>5

LEMMA OpenAiSteps == ASSUME OpenAiInv, OpenAiNext  PROVE OpenAiInv'
BY ContentInv, ToolDeltaInv, FinishInv, DoneInv DEF OpenAiNext

-----------------------------------------------------------------------------
(* AnthropicStream: what the accumulator holds is the block that is open,  *)
(* if it knows its type, and the calls of those that are closed.           *)
SentBlock == [ type : Anthropic!BlockType, call : Anthropic!Call, open : BOOLEAN ]

Counts(b) == b.type = "tool_use" /\ ~b.open /\ b.call.named

MadeIn(bs) == Selected(bs, { i \in DOMAIN bs : Counts(bs[i]) })

CallsIn(bs) == [ i \in DOMAIN MadeIn(bs) |-> MadeIn(bs)[i].call ]

IsOpen(bs) == bs # <<>> /\ bs[Len(bs)].open

Held(bs) ==
  IF IsOpen(bs) /\ bs[Len(bs)].type # "other"
    THEN [ type |-> bs[Len(bs)].type, call |-> bs[Len(bs)].call ]
    ELSE Anthropic!NoBlock

AnthropicInv ==
  /\ Anthropic!TypeOK
  /\ blocks \in Seq(SentBlock)
  /\ current_block = Held(blocks)
  /\ aended # "no" => ~IsOpen(blocks)
  /\ acalls \o NamedCalls(finished) = CallsIn(blocks)

LEMMA SameSelection ==
  \A s, places : Anthropic!Selected(s, places) = Selected(s, places)
BY DEF Anthropic!Selected, Selected, Anthropic!Cardinality, Cardinality

LEMMA SameNames ==
  /\ Anthropic!Call = Partial
  /\ \A calls : Anthropic!NamedCalls(calls) = NamedCalls(calls)
  /\ Anthropic!CallsMade = CallsIn(blocks)
BY SameSelection
   DEF Anthropic!Call, Partial, Anthropic!NamedCalls, NamedCalls, Anthropic!CallsMade,
       CallsIn, MadeIn, Counts

LEMMA MadeType ==
  ASSUME NEW bs \in Seq(SentBlock)
  PROVE  MadeIn(bs) \in Seq(SentBlock) /\ CallsIn(bs) \in Seq(Partial)
<1> DEFINE places == { i \in DOMAIN bs : Counts(bs[i]) }
<1>1. places \in SUBSET DOMAIN bs /\ MadeIn(bs) = Selected(bs, places)
  BY DEF MadeIn
<1> HIDE DEF places
<1>2. PICK made \in Seq(SentBlock) : made = MadeIn(bs)
  BY <1>1, SelectedType
<1>3. \A i \in DOMAIN made : made[i].call \in Partial
  <2> SUFFICES ASSUME NEW i \in DOMAIN made  PROVE made[i].call \in Partial
    OBVIOUS
  <2>1. made[i] \in SentBlock
    OBVIOUS
  <2> QED  BY <2>1, SameNames DEF SentBlock
<1>4. CallsIn(bs) \in [ DOMAIN made -> Partial ]
  BY <1>2, <1>3 DEF CallsIn
<1> QED  BY <1>2, <1>4, MapSeq

(* Only the last block changes, and none that counts does.                 *)
LastChanges(bs, cs, n) ==
  /\ DOMAIN cs = 1 .. n
  /\ DOMAIN bs = 1 .. n \/ DOMAIN bs = 1 .. n - 1
  /\ \A i \in 1 .. n - 1 : cs[i] = bs[i]
  /\ n \in DOMAIN bs => bs[n].open

Grown(bs, cs, b) ==
  CallsIn(cs) = IF Counts(b) THEN Append(CallsIn(bs), b.call) ELSE CallsIn(bs)

LEMMA CallsGrow ==
  ASSUME NEW bs \in Seq(SentBlock), NEW cs \in Seq(SentBlock), NEW n \in Nat, n # 0,
         LastChanges(bs, cs, n)
  PROVE  Grown(bs, cs, cs[n])
<1> USE DEF LastChanges
<1>1. PICK p : p = { i \in DOMAIN bs : Counts(bs[i]) }
  OBVIOUS
<1>2. IsFiniteSet(p) /\ p \subseteq Nat
  <2>1. p \in SUBSET DOMAIN bs
    BY <1>1
  <2> QED  BY <2>1, SelectedType
<1>3. \A i \in p : i \in 1 .. n - 1
  <2> SUFFICES ASSUME NEW i \in p  PROVE i \in 1 .. n - 1
    OBVIOUS
  <2>1. i \in 1 .. n /\ i # n
    BY <1>1 DEF Counts
  <2> QED  BY <2>1
<1>4. SameBelow(bs, cs, p, n)
  <2> SUFFICES ASSUME NEW i \in p  PROVE i < n /\ bs[i] = cs[i]
    BY DEF SameBelow
  <2>1. i \in 1 .. n - 1
    BY <1>3
  <2> QED  BY <2>1
<1>5. PICK q : q = { i \in DOMAIN cs : Counts(cs[i]) }
  OBVIOUS
<1>6. q = IF Counts(cs[n]) THEN p \cup {n} ELSE p
  <2>1. \A i \in 1 .. n : i \in 1 .. n - 1 \/ i = n
    OBVIOUS
  <2>2. \A i \in 1 .. n - 1 : i \in DOMAIN bs /\ i \in 1 .. n /\ cs[i] = bs[i]
    OBVIOUS
  <2>3. n \in 1 .. n /\ DOMAIN cs = 1 .. n
    OBVIOUS
  <2> HIDE DEF LastChanges
  <2>4. \A i : i \in q <=> (i \in p \/ (i = n /\ Counts(cs[n])))
    BY ONLY <1>1, <1>3, <1>5, <2>1, <2>2, <2>3, Zenon
  <2>5. CASE Counts(cs[n])
    BY ONLY <2>4, <2>5
  <2>6. CASE ~Counts(cs[n])
    BY ONLY <2>4, <2>6
  <2> QED  BY ONLY <2>5, <2>6
<1>7. PICK a \in Seq(SentBlock), b \in Seq(SentBlock) : a = MadeIn(bs) /\ b = MadeIn(cs)
  BY MadeType
<1>8. a = Selected(bs, p) /\ b = Selected(cs, q)
  BY <1>1, <1>5, <1>7 DEF MadeIn
<1>9. CASE Counts(cs[n])
  <2>1. PICK x \in SentBlock : x = cs[n]
    <3>1. n \in DOMAIN cs
      OBVIOUS
    <3> QED  BY <3>1
  <2>2. IsAppended(b, a, x)
    BY <1>2, <1>4, <1>6, <1>8, <1>9, <2>1, SelectedMore
  <2>3. PICK l \in Nat : l = Len(a) /\ DOMAIN a = 1 .. l
    OBVIOUS
  <2>4. /\ DOMAIN b = 1 .. l + 1 /\ b[l + 1] = x
        /\ \A i \in 1 .. l : b[i] = a[i]
    BY <2>2, <2>3 DEF IsAppended
  <2>5. PICK ca \in Seq(Partial), cb \in Seq(Partial) : ca = CallsIn(bs) /\ cb = CallsIn(cs)
    BY MadeType
  <2>6. ca = [ i \in 1 .. l |-> a[i].call ] /\ cb = [ i \in 1 .. l + 1 |-> b[i].call ]
    BY <1>7, <2>3, <2>4, <2>5 DEF CallsIn
  <2>7. Len(ca) = l
    BY <2>5, <2>6
  <2>8. IsAppended(cb, ca, x.call)
    <3>1. \A i \in 1 .. l : i \in 1 .. l + 1
      OBVIOUS
    <3>2. cb = [ i \in 1 .. l + 1 |-> cb[i] ] /\ cb[l + 1] = x.call
      BY <2>4, <2>6
    <3>3. \A i \in 1 .. l : cb[i] = ca[i]
      BY <2>4, <2>6, <3>1
    <3> QED  BY <2>7, <3>2, <3>3 DEF IsAppended
  <2>9. x.call \in Partial
    BY SameNames DEF SentBlock
  <2>10. cb = Append(ca, x.call)
    BY <2>8, <2>9, AppendIs
  <2> QED  BY <1>9, <2>1, <2>5, <2>10 DEF Grown
<1>10. CASE ~Counts(cs[n])
  <2>1. \A i \in p : bs[i] = cs[i]
    BY <1>4 DEF SameBelow
  <2>2. a = b
    BY <1>2, <1>6, <1>8, <1>10, <2>1, SelectedSame
  <2> QED  BY <1>7, <1>10, <2>2 DEF CallsIn, Grown
<1> QED  BY <1>9, <1>10

LEMMA NamedMore ==
  ASSUME NEW calls \in Seq(Partial), NEW c \in Partial
  PROVE  NamedCalls(Append(calls, c)) =
           IF c.named THEN Append(NamedCalls(calls), c) ELSE NamedCalls(calls)
<1>1. PICK n \in Nat : n = Len(calls) /\ DOMAIN calls = 1 .. n
  OBVIOUS
<1>2. PICK e \in Seq(Partial) :
        /\ e = Append(calls, c) /\ DOMAIN e = 1 .. n + 1 /\ e[n + 1] = c
        /\ \A i \in 1 .. n : e[i] = calls[i]
  <2>1. Append(calls, c) \in Seq(Partial)
    BY AppendProperties
  <2>2. PICK e \in Seq(Partial) : e = Append(calls, c)
    BY <2>1
  <2>3. /\ Len(e) = Len(calls) + 1 /\ e[Len(calls) + 1] = c
        /\ \A i \in 1 .. Len(calls) : e[i] = calls[i]
    BY <2>2, AppendProperties
  <2> QED  BY <1>1, <2>2, <2>3
<1>3. PICK p, q : /\ p = { i \in DOMAIN calls : calls[i].named }
                  /\ q = { i \in DOMAIN e : e[i].named }
  OBVIOUS
<1>4. IsFiniteSet(p) /\ p \subseteq Nat /\ Selected(calls, p) \in Seq(Partial)
  <2>1. p \in SUBSET DOMAIN calls
    BY <1>3
  <2> QED  BY <2>1, SelectedType
<1>5. SameBelow(calls, e, p, n + 1)
  <2> SUFFICES ASSUME NEW i \in p  PROVE i < n + 1 /\ calls[i] = e[i]
    BY DEF SameBelow
  <2>1. i \in 1 .. n
    BY <1>1, <1>3
  <2> QED  BY <1>2, <2>1
<1>6. q = IF c.named THEN p \cup {n + 1} ELSE p
  <2>1. \A i \in 1 .. n + 1 : i \in 1 .. n \/ i = n + 1
    OBVIOUS
  <2>2. \A i : i \in q <=> (i \in p \/ (i = n + 1 /\ c.named))
    <3>1. n + 1 \in 1 .. n + 1 /\ \A i \in 1 .. n : i \in 1 .. n + 1
      OBVIOUS
    <3> QED  BY <1>1, <1>2, <1>3, <2>1, <3>1, Zenon
  <2> QED  BY <2>2
<1>7. PICK a \in Seq(Partial), k \in Nat : a = Selected(calls, p) /\ k = n + 1
  BY <1>4
<1>8. NamedCalls(calls) = a /\ NamedCalls(e) = Selected(e, q)
  BY <1>3, <1>7 DEF NamedCalls
<1>9. CASE c.named
  <2>1. PICK b : b = Selected(e, q)
    OBVIOUS
  <2>2. c = e[k] /\ q = p \cup {k} /\ SameBelow(calls, e, p, k)
    BY <1>2, <1>5, <1>6, <1>7, <1>9
  <2>3. IsAppended(b, a, c)
    BY <1>4, <1>7, <2>1, <2>2, SelectedMore
  <2>4. b = Append(a, c)
    BY <2>3, AppendIs
  <2> QED  BY <1>2, <1>8, <1>9, <2>1, <2>4
<1>10. CASE ~c.named
  <2>1. \A i \in p : calls[i] = e[i]
    BY <1>5 DEF SameBelow
  <2>2. a = Selected(e, q)
    BY <1>4, <1>6, <1>7, <1>10, <2>1, SelectedSame
  <2> QED  BY <1>2, <1>8, <1>10, <2>2
<1> QED  BY <1>9, <1>10

LEMMA OpenIs ==
  /\ Anthropic!Open = IsOpen(blocks)
  /\ Anthropic!Open => Anthropic!Last(blocks) = blocks[Len(blocks)]
BY DEF Anthropic!Open, IsOpen, Anthropic!Last

(* What the parser holds of a last block b.                                *)
HeldOf(b) ==
  IF b.open /\ b.type # "other" THEN [ type |-> b.type, call |-> b.call ]
  ELSE Anthropic!NoBlock

LastBlock(bs, n, b) ==
  Len(bs) = n /\ b = bs[n] /\ b \in SentBlock /\ (IsOpen(bs) <=> b.open) /\ Held(bs) = HeldOf(b)

LEMMA LastIs ==
  ASSUME NEW bs \in Seq(SentBlock), NEW n \in Nat, n # 0, DOMAIN bs = 1 .. n
  PROVE  LastBlock(bs, n, bs[n])
<1>1. Len(bs) = n /\ bs # <<>>
  OBVIOUS
<1>2. n \in DOMAIN bs
  OBVIOUS
<1>3. bs[n] \in SentBlock
  BY <1>2
<1> QED  BY <1>1, <1>3 DEF IsOpen, Held, LastBlock, HeldOf

LEMMA Lengthened ==
  ASSUME NEW bs \in Seq(SentBlock), NEW b \in SentBlock, b.open, NEW cs, cs = Append(bs, b)
  PROVE  /\ cs \in Seq(SentBlock) /\ CallsIn(cs) = CallsIn(bs)
         /\ IsOpen(cs) /\ Held(cs) = HeldOf(b)
<1>1. PICK l \in Nat : l = Len(bs) /\ DOMAIN bs = 1 .. l
  OBVIOUS
<1>2. PICK n \in Nat : n = l + 1
  OBVIOUS
<1>3. /\ cs \in Seq(SentBlock) /\ DOMAIN cs = 1 .. n /\ cs[n] = b
      /\ \A i \in 1 .. n - 1 : cs[i] = bs[i]
  <2>1. PICK ds \in Seq(SentBlock) : ds = cs
    BY AppendProperties
  <2>2. Len(ds) = n /\ ds[n] = b /\ \A i \in 1 .. n - 1 : ds[i] = bs[i]
    BY <1>1, <1>2, <2>1, AppendProperties
  <2> QED  BY <2>1, <2>2
<1>4. n # 0 /\ n \notin DOMAIN bs /\ DOMAIN bs = 1 .. n - 1
  BY <1>1, <1>2
<1>5. LastChanges(bs, cs, n)
  BY <1>3, <1>4 DEF LastChanges
<1>6. ~Counts(cs[n])
  BY <1>3 DEF Counts
<1>7. CallsIn(cs) = CallsIn(bs)
  BY <1>3, <1>4, <1>5, <1>6, CallsGrow DEF Grown
<1>8. LastBlock(cs, n, cs[n])
  BY <1>3, <1>4, LastIs
<1> QED  BY <1>3, <1>7, <1>8 DEF LastBlock

LEMMA Replaced ==
  ASSUME NEW bs \in Seq(SentBlock), NEW n \in Nat, n # 0, DOMAIN bs = 1 .. n, bs[n].open,
         NEW b \in SentBlock, NEW cs, cs = [ bs EXCEPT ![n] = b ]
  PROVE  cs \in Seq(SentBlock) /\ LastBlock(cs, n, b) /\ Grown(bs, cs, b)
<1>1. cs \in [ 1 .. n -> SentBlock ]
  BY SMT
<1>2. cs \in Seq(SentBlock) /\ DOMAIN cs = 1 .. n
  BY <1>1, SeqDef
<1>3. n \in DOMAIN bs /\ \A i \in 1 .. n - 1 : i \in DOMAIN bs /\ i # n
  OBVIOUS
<1>4. cs[n] = b /\ \A i \in 1 .. n - 1 : cs[i] = bs[i]
  BY <1>3
<1>5. LastChanges(bs, cs, n)
  BY <1>2, <1>4 DEF LastChanges
<1>6. LastBlock(cs, n, cs[n]) /\ Grown(bs, cs, cs[n])
  BY <1>2, <1>5, LastIs, CallsGrow
<1> QED  BY <1>2, <1>4, <1>6

LEMMA NothingMade == CallsIn(<<>>) = <<>>
<1>1. { i \in DOMAIN <<>> : Counts(<<>>[i]) } = {}
  OBVIOUS
<1>2. MadeIn(<<>>) = <<>>
  BY <1>1, SelectedNone DEF MadeIn
<1> QED  BY <1>2 DEF CallsIn

LEMMA AnthropicInit == Anthropic!Init => AnthropicInv
<1> SUFFICES ASSUME Anthropic!Init  PROVE AnthropicInv
  OBVIOUS
<1> USE DEF Anthropic!Init
<1>1. Anthropic!TypeOK
  BY DEF Anthropic!TypeOK
<1>2. blocks \in Seq(SentBlock) /\ ~IsOpen(blocks)
  BY DEF IsOpen
<1>3. current_block = Held(blocks)
  BY <1>2 DEF Held
<1>4. acalls \o NamedCalls(finished) = CallsIn(blocks)
  <2>1. acalls = <<>> /\ NamedCalls(finished) = <<>> /\ CallsIn(blocks) = <<>>
    BY NoneNamed, NothingMade
  <2> QED  BY <2>1
<1> QED  BY <1>1, <1>2, <1>3, <1>4 DEF AnthropicInv

-----------------------------------------------------------------------------
LEMMA HeldType ==
  ASSUME NEW bs \in Seq(SentBlock)  PROVE Held(bs) \in Anthropic!Block \cup {Anthropic!NoBlock}
<1>1. PICK n \in Nat : n = Len(bs) /\ DOMAIN bs = 1 .. n
  OBVIOUS
<1>2. CASE n = 0
  <2>1. bs = <<>>
    BY <1>1, <1>2
  <2> QED  BY <2>1 DEF Held, IsOpen
<1>3. CASE n # 0
  <2>1. bs[n] \in SentBlock /\ Held(bs) = HeldOf(bs[n])
    BY <1>1, <1>3, LastIs DEF LastBlock
  <2>2. [ type |-> bs[n].type, call |-> bs[n].call ] \in Anthropic!Block
    BY <2>1 DEF SentBlock, Anthropic!Block
  <2> QED  BY <2>1, <2>2 DEF HeldOf
<1> QED  BY <1>2, <1>3

(* A step that makes no call whole.                                        *)
LEMMA FillsInv ==
  ASSUME AnthropicInv, aended = "no", NEW bs \in Seq(SentBlock), bs = blocks',
         current_block' = Held(bs), CallsIn(bs) = CallsIn(blocks),
         UNCHANGED << finished, aout, acalls, aended >>
  PROVE  AnthropicInv'
<1>1. current_block' \in Anthropic!Block \cup {Anthropic!NoBlock}
  BY HeldType
<1>2. Anthropic!TypeOK'
  BY <1>1 DEF AnthropicInv, Anthropic!TypeOK, Anthropic!Block, Anthropic!NoBlock
<1>3. acalls' \o NamedCalls(finished)' = CallsIn(blocks)'
  BY DEF AnthropicInv
<1> QED  BY <1>2, <1>3 DEF AnthropicInv

LEMMA StartInv ==
  ASSUME AnthropicInv, NEW type \in Anthropic!BlockType, NEW named \in BOOLEAN,
         Anthropic!ContentBlockStart(type, named)
  PROVE  AnthropicInv'
<1> USE DEF Anthropic!ContentBlockStart
<1>1. PICK b \in SentBlock :
        b = [ type |-> type, call |-> Anthropic!NewCall(named), open |-> TRUE ]
  <2>1. Anthropic!NewCall(named) \in Anthropic!Call
    BY DEF Anthropic!NewCall, Anthropic!Call
  <2> QED  BY <2>1 DEF SentBlock
<1>2. blocks \in Seq(SentBlock) /\ ~IsOpen(blocks) /\ current_block = Held(blocks)
  BY OpenIs DEF AnthropicInv
<1>3. PICK bs : bs = Append(blocks, b) /\ bs = blocks'
  BY <1>1 DEF Anthropic!Opened
<1>4. b.open /\ b.type = type /\ b.call = Anthropic!NewCall(named)
  BY <1>1
<1>5. /\ bs \in Seq(SentBlock) /\ CallsIn(bs) = CallsIn(blocks)
      /\ Held(bs) = HeldOf(b)
  BY <1>2, <1>3, <1>4, Lengthened
<1>6. current_block' = Held(bs)
  <2>1. CASE type = "other"
    BY <1>2, <1>4, <1>5, <2>1 DEF HeldOf, Held
  <2>2. CASE type # "other"
    BY <1>4, <1>5, <2>2 DEF HeldOf
  <2> QED  BY <2>1, <2>2
<1> QED  BY <1>3, <1>5, <1>6, FillsInv

LEMMA TextDeltaInv ==
  ASSUME AnthropicInv, NEW type \in Anthropic!BlockType, Anthropic!TextDelta(type)
  PROVE  AnthropicInv'
<1> USE DEF Anthropic!TextDelta
<1>1. aout' \in Seq({ "text", "thinking" })
  <2>1. PICK T : T = { "text", "thinking" }
    OBVIOUS
  <2>2. aout \in Seq(T) /\ type \in T
    BY <2>1 DEF AnthropicInv, Anthropic!TypeOK
  <2>3. Append(aout, type) \in Seq(T)
    BY <2>2, AppendProperties
  <2> QED  BY <2>1, <2>3
<1>2. Anthropic!TypeOK'
  BY <1>1 DEF AnthropicInv, Anthropic!TypeOK, Anthropic!Block, Anthropic!NoBlock
<1> QED  BY <1>2 DEF AnthropicInv

LEMMA InputJsonInv ==
  ASSUME AnthropicInv, NEW piece \in Args, Anthropic!InputJsonDelta(piece)
  PROVE  AnthropicInv'
<1> USE DEF Anthropic!InputJsonDelta
<1>1. blocks \in Seq(SentBlock) /\ IsOpen(blocks) /\ current_block = Held(blocks)
  BY OpenIs DEF AnthropicInv
<1>2. PICK n \in Nat : n = Len(blocks) /\ n # 0 /\ DOMAIN blocks = 1 .. n
  BY <1>1 DEF IsOpen
<1>3. PICK l : l = blocks[n] /\ LastBlock(blocks, n, l)
  BY <1>1, <1>2, LastIs
<1>4. l \in SentBlock /\ l.open /\ current_block = HeldOf(l)
  BY <1>1, <1>3 DEF LastBlock
<1>5. PICK more \in Seq(Args) : more = Append(l.call.arguments, piece)
  <2>1. l.call.arguments \in Seq(Args)
    BY <1>4 DEF SentBlock, Anthropic!Call
  <2>2. Append(l.call.arguments, piece) \in Seq(Args)
    BY <2>1, AppendProperties
  <2> QED  BY <2>2
<1>6. PICK b \in SentBlock : b = [ l EXCEPT !.call.arguments = more ]
  <2>1. [ l.call EXCEPT !.arguments = more ] \in Anthropic!Call
    BY <1>4 DEF SentBlock, Anthropic!Call
  <2> QED  BY <1>4, <2>1 DEF SentBlock
<1>7. PICK bs : bs = blocks' /\ bs = [ blocks EXCEPT ![n] = b ]
  BY <1>2, <1>3, <1>5, <1>6 DEF Anthropic!Extended
<1>8. bs \in Seq(SentBlock) /\ LastBlock(bs, n, b) /\ Grown(blocks, bs, b)
  BY <1>1, <1>2, <1>3, <1>4, <1>7, Replaced
<1>9. b.open /\ b.type = l.type /\ b.call = [ l.call EXCEPT !.arguments = more ]
  BY <1>4, <1>6 DEF SentBlock
<1>10. CallsIn(bs) = CallsIn(blocks)
  BY <1>8, <1>9 DEF Grown, Counts
<1>11. current_block' = Held(bs)
  <2>1. Held(bs) = HeldOf(b)
    BY <1>8 DEF LastBlock
  <2>2. CASE l.type = "other"
    BY <1>4, <1>9, <2>1, <2>2 DEF HeldOf, Anthropic!NoBlock
  <2>3. CASE l.type = "tool_use"
    <3>1. current_block = [ type |-> l.type, call |-> l.call ]
      BY <1>4, <2>3 DEF HeldOf
    <3>2. current_block' = [ current_block EXCEPT !.call.arguments = Append(@, piece) ]
      BY <2>3, <3>1
    <3>3. current_block' = [ type |-> l.type, call |-> [ l.call EXCEPT !.arguments = more ] ]
      BY <1>5, <3>1, <3>2
    <3> QED  BY <1>9, <2>1, <2>3, <3>3 DEF HeldOf
  <2> QED  BY <1>2, <1>3, <2>2, <2>3, OpenIs
<1> QED  BY <1>7, <1>8, <1>10, <1>11, FillsInv

LEMMA ThenAppended ==
  ASSUME NEW a \in Seq(Partial), NEW b \in Seq(Partial), NEW c \in Partial,
         NEW f, f = Append(b, c)
  PROVE  IsAppended(a \o f, a \o b, c)
<1>1. PICK k \in Nat, l \in Nat : k = Len(a) /\ l = Len(b)
  OBVIOUS
<1>2. PICK h \in Nat, m \in Nat, o \in Nat : h = l + 1 /\ m = k + l /\ o = k + h
  OBVIOUS
<1>3. /\ f \in Seq(Partial) /\ h = Len(f) /\ f[h] = c
      /\ \A i \in 1 .. l : f[i] = b[i]
  <2>1. PICK g \in Seq(Partial) : g = Append(b, c)
    BY AppendProperties
  <2>2. Len(g) = Len(b) + 1 /\ g[Len(b) + 1] = c /\ \A i \in 1 .. Len(b) : g[i] = b[i]
    BY <2>1, AppendProperties
  <2>3. Len(g) = h /\ g[h] = c /\ \A i \in 1 .. l : g[i] = b[i]
    BY <1>1, <1>2, <2>2
  <2> QED  BY <2>1, <2>3
<1>4. PICK p \in Seq(Partial) : p = a \o b /\ IsJoint(p, a, b, k, l)
  BY <1>1, Joint
<1>5. PICK q \in Seq(Partial) : q = a \o f /\ IsJoint(q, a, f, k, h)
  BY <1>1, <1>3, Joint
<1>6. /\ Len(p) = m /\ \A i \in 1 .. k : p[i] = a[i]
      /\ \A i \in 1 .. l : p[k + i] = b[i]
  BY <1>2, <1>4 DEF IsJoint
<1>7. /\ Len(q) = o /\ \A i \in 1 .. k : q[i] = a[i]
      /\ \A i \in 1 .. h : q[k + i] = f[i]
  BY <1>2, <1>5 DEF IsJoint
<1>8. \A i \in 1 .. m : q[i] = p[i]
  <2> SUFFICES ASSUME NEW i \in 1 .. m  PROVE q[i] = p[i]
    OBVIOUS
  <2>1. CASE i <= k
    <3>1. i \in 1 .. k
      BY <1>2, <2>1
    <3> QED  BY <1>6, <1>7, <3>1
  <2>2. CASE ~(i <= k)
    <3>1. PICK j \in 1 .. l : i = k + j
      <4>1. i - k \in 1 .. l /\ i = k + (i - k)
        BY <1>2, <2>2
      <4> QED  BY <4>1
    <3>2. j \in 1 .. h
      BY <1>2
    <3>3. q[k + j] = f[j] /\ p[k + j] = b[j] /\ f[j] = b[j]
      BY <1>3, <1>6, <1>7, <3>2
    <3> QED  BY <3>1, <3>3
  <2> QED  BY <2>1, <2>2
<1>9. q[o] = c
  <2>1. h \in 1 .. h
    BY <1>2
  <2>2. q[k + h] = f[h]
    BY <1>7, <2>1
  <2> QED  BY <1>2, <1>3, <2>2
<1>10. IsAppended(q, p, c)
  <2>1. DOMAIN q = 1 .. o /\ o = m + 1
    BY <1>2, <1>7
  <2>2. q = [ i \in 1 .. o |-> q[i] ]
    BY <2>1
  <2> QED  BY <1>6, <1>8, <1>9, <2>1, <2>2 DEF IsAppended
<1> QED  BY <1>4, <1>5, <1>10

LEMMA StopInv ==
  ASSUME AnthropicInv, Anthropic!ContentBlockStop  PROVE AnthropicInv'
<1> USE DEF Anthropic!ContentBlockStop, Anthropic!Taken
<1>1. blocks \in Seq(SentBlock) /\ IsOpen(blocks) /\ current_block = Held(blocks)
  BY OpenIs DEF AnthropicInv
<1>2. PICK n \in Nat : n = Len(blocks) /\ n # 0 /\ DOMAIN blocks = 1 .. n
  BY <1>1 DEF IsOpen
<1>3. PICK l : l = blocks[n] /\ LastBlock(blocks, n, l)
  BY <1>1, <1>2, LastIs
<1>4. l \in SentBlock /\ l.open /\ current_block = HeldOf(l)
  BY <1>1, <1>3 DEF LastBlock
<1>5. PICK b \in SentBlock : b = [ l EXCEPT !.open = FALSE ]
  BY <1>4 DEF SentBlock
<1>6. PICK bs : bs = blocks' /\ bs = [ blocks EXCEPT ![n] = b ]
  BY <1>2, <1>3, <1>5 DEF Anthropic!Closed
<1>7. bs \in Seq(SentBlock) /\ LastBlock(bs, n, b) /\ Grown(blocks, bs, b)
  BY <1>1, <1>2, <1>3, <1>4, <1>6, Replaced
<1>8. ~b.open /\ b.type = l.type /\ b.call = l.call
  BY <1>4, <1>5 DEF SentBlock
<1>9. Held(bs) = Anthropic!NoBlock /\ ~IsOpen(bs)
  BY <1>7, <1>8 DEF LastBlock, HeldOf
<1>10. current_block.type = "tool_use" <=> l.type = "tool_use"
  BY <1>4 DEF HeldOf, Anthropic!NoBlock
<1>11. l.type = "tool_use" => current_block.call = l.call
  BY <1>4 DEF HeldOf
<1>12. /\ finished \in Seq(Partial) /\ acalls \in Seq(Partial) /\ l.call \in Partial
       /\ acalls \o NamedCalls(finished) = CallsIn(blocks)
  BY <1>4, SameNames DEF AnthropicInv, Anthropic!TypeOK, SentBlock
<1>13. finished' = IF l.type = "tool_use" THEN Append(finished, l.call) ELSE finished
  BY <1>10, <1>11
<1>14. finished' \in Seq(Partial)
  BY <1>12, <1>13, AppendProperties
<1>15. Anthropic!TypeOK'
  BY <1>14, SameNames DEF AnthropicInv, Anthropic!TypeOK, Anthropic!Block, Anthropic!NoBlock
<1>16. acalls \o NamedCalls(finished') = CallsIn(bs)
  <2>1. PICK c \in Partial, f \in Seq(Partial), fs \in Seq(Partial) :
          c = l.call /\ f = finished /\ fs = finished'
    BY <1>12, <1>14
  <2>2. PICK made \in Seq(Partial), now \in Seq(Partial) :
          made = CallsIn(blocks) /\ now = CallsIn(bs)
    BY <1>1, <1>7, MadeType
  <2>3. PICK kept \in Seq(Partial), next \in Seq(Partial) :
          kept = NamedCalls(f) /\ next = NamedCalls(fs)
    BY <2>1, NamedType
  <2>4. acalls \o kept = made
    BY <1>12, <2>1, <2>2, <2>3
  <2>5. CASE l.type = "tool_use" /\ c.named
    <3>1. now = Append(made, c)
      BY <1>7, <1>8, <2>1, <2>2, <2>5 DEF Grown, Counts
    <3>2. next = Append(kept, c)
      BY <1>13, <2>1, <2>3, <2>5, NamedMore
    <3>3. IsAppended(acalls \o next, made, c)
      BY <1>12, <2>4, <3>2, ThenAppended
    <3>4. PICK whole : whole = acalls \o next
      OBVIOUS
    <3>5. whole = Append(made, c)
      BY <3>3, <3>4, AppendIs
    <3> QED  BY <2>1, <2>2, <2>3, <3>1, <3>4, <3>5
  <2>6. CASE ~(l.type = "tool_use" /\ c.named)
    <3>1. now = made
      BY <1>7, <1>8, <2>1, <2>2, <2>6 DEF Grown, Counts
    <3>2. next = kept
      BY <1>13, <2>1, <2>3, <2>6, NamedMore
    <3> QED  BY <2>1, <2>2, <2>3, <2>4, <3>1, <3>2
  <2> QED  BY <2>5, <2>6
<1>17. current_block' = Held(bs) /\ acalls' = acalls
  BY <1>9
<1> QED  BY <1>6, <1>7, <1>9, <1>15, <1>16, <1>17 DEF AnthropicInv

(* Handing the calls over moves them, and leaves none behind.              *)
LEMMA HandOver ==
  ASSUME AnthropicInv, Anthropic!FlushTools
  PROVE  /\ finished' = <<>> /\ acalls' \in Seq(Partial)
         /\ acalls' \o NamedCalls(finished') = CallsIn(blocks)
<1>1. finished \in Seq(Partial) /\ acalls \in Seq(Partial)
  BY SameNames DEF AnthropicInv, Anthropic!TypeOK
<1>2. acalls' = acalls \o NamedCalls(finished) /\ finished' = <<>>
  BY SameNames DEF Anthropic!FlushTools
<1>3. PICK made \in Seq(Partial) : made = CallsIn(blocks) /\ acalls' = made
  BY <1>2, MadeType DEF AnthropicInv
<1>4. made \o <<>> = made
  BY ConcatEmptySeq
<1> QED  BY <1>2, <1>3, <1>4, NoneNamed

LEMMA MessageDeltaInv ==
  ASSUME AnthropicInv, NEW known \in BOOLEAN, Anthropic!MessageDelta(known)
  PROVE  AnthropicInv'
<1> USE DEF Anthropic!MessageDelta
<1>1. ~IsOpen(blocks) /\ UNCHANGED << current_block, aout, blocks >>
  BY OpenIs
<1>2. /\ finished' \in Seq(Partial) /\ acalls' \in Seq(Partial)
      /\ acalls' \o NamedCalls(finished') = CallsIn(blocks)
  <2>1. CASE known
    BY <2>1, HandOver
  <2>2. CASE ~known
    BY <2>2, SameNames DEF AnthropicInv, Anthropic!TypeOK
  <2> QED  BY <2>1, <2>2
<1>3. aended' \in { "reason", "other_reason" }
  OBVIOUS
<1>4. Anthropic!TypeOK'
  BY <1>1, <1>2, <1>3, SameNames
     DEF AnthropicInv, Anthropic!TypeOK, Anthropic!Block, Anthropic!NoBlock
<1> QED  BY <1>1, <1>2, <1>4 DEF AnthropicInv

LEMMA MessageStopInv ==
  ASSUME AnthropicInv, Anthropic!MessageStop  PROVE AnthropicInv'
<1> USE DEF Anthropic!MessageStop
<1>1. ~IsOpen(blocks) /\ UNCHANGED << current_block, aout, blocks >>
  BY DEF AnthropicInv
<1>2. /\ finished' = <<>> /\ acalls' \in Seq(Partial)
      /\ acalls' \o NamedCalls(finished') = CallsIn(blocks)
  BY HandOver
<1>3. current_block = Anthropic!NoBlock
  BY <1>1 DEF AnthropicInv, Held
<1>4. Anthropic!TypeOK'
  BY <1>1, <1>2, <1>3, SameNames
     DEF AnthropicInv, Anthropic!TypeOK, Anthropic!Block, Anthropic!NoBlock
<1> QED  BY <1>1, <1>2, <1>4 DEF AnthropicInv

LEMMA AnthropicStays ==
  ASSUME AnthropicInv, UNCHANGED avars  PROVE AnthropicInv'
BY DEF AnthropicInv, avars, Anthropic!TypeOK, Anthropic!Block, Anthropic!NoBlock

LEMMA AnthropicSteps == ASSUME AnthropicInv, Anthropic!Next  PROVE AnthropicInv'
BY StartInv, TextDeltaInv, InputJsonInv, StopInv, MessageDeltaInv, MessageStopInv
   DEF Anthropic!Next

-----------------------------------------------------------------------------
(* An answer comes in one format, and the other accumulator stays empty.   *)
StreamInv == OpenAiInv /\ AnthropicInv

LEMMA StreamInit == MCInit => StreamInv
BY OpenAiInit, AnthropicInit DEF MCInit, StreamInv

LEMMA StreamSteps == StreamInv /\ [MCNext]_<< vars, avars, format >> => StreamInv'
<1> SUFFICES ASSUME StreamInv, [MCNext]_<< vars, avars, format >>  PROVE StreamInv'
  OBVIOUS
<1> USE DEF StreamInv
<1>1. CASE format = "OpenAiSse" /\ OpenAiNext /\ UNCHANGED avars
  BY <1>1, OpenAiSteps, AnthropicStays
<1>2. CASE format = "AnthropicSse" /\ Anthropic!Next /\ UNCHANGED vars
  BY <1>2, OpenAiStays, AnthropicSteps
<1>3. CASE UNCHANGED << vars, avars, format >>
  BY <1>3, OpenAiStays, AnthropicStays
<1> QED  BY <1>1, <1>2, <1>3 DEF MCNext

LEMMA StreamAlways == MCSpec => []StreamInv
<1>1. MCInit => StreamInv
  BY StreamInit
<1>2. StreamInv /\ [MCNext]_<< vars, avars, format >> => StreamInv'
  BY StreamSteps
<1> QED  BY <1>1, <1>2, PTL DEF MCSpec

(* Both accumulators keep their types, and nothing is left in one whose    *)
(* answer is over.                                                         *)
THEOREM StreamsTypeOK == MCSpec => []StreamTypeOK
<1>1. StreamInv => StreamTypeOK
  BY DEF StreamInv, OpenAiInv, AnthropicInv, StreamTypeOK
<1> QED  BY <1>1, StreamAlways, PTL

(* However an answer is cut into pieces, and wherever a cut falls inside a *)
(* marker, SplitInlineThink has passed on just what it would have made of  *)
(* the whole answer.                                                       *)
THEOREM StreamsCutsDoNotMatter == MCSpec => []CutsDoNotMatter
<1>1. StreamInv => CutsDoNotMatter
  BY DEF StreamInv, OpenAiInv, TextInv
<1> QED  BY <1>1, StreamAlways, PTL

(* In either format the calls handed over and those kept for it are those  *)
(* the model has made: each once, in order, with just its own arguments.   *)
THEOREM StreamsCallsComeOnce == MCSpec => []CallsComeOnce
<1>1. StreamInv => CallsAreWhole
  BY DEF StreamInv, OpenAiInv, ToolsInv
<1>2. StreamInv => Anthropic!CallsComeOnce
  <2> SUFFICES ASSUME StreamInv  PROVE Anthropic!CallsComeOnce
    OBVIOUS
  <2>1. acalls \o Anthropic!NamedCalls(finished) = Anthropic!CallsMade
    BY SameNames DEF StreamInv, AnthropicInv
  <2>2. ASSUME aended = "stopped"  PROVE acalls = Anthropic!CallsMade
    <3>1. finished = <<>> /\ acalls \in Seq(Partial)
      BY <2>2, SameNames DEF StreamInv, AnthropicInv, Anthropic!TypeOK
    <3>2. acalls \o <<>> = acalls
      BY <3>1, ConcatEmptySeq
    <3> QED  BY <2>1, <3>1, <3>2, SameNames, NoneNamed
  <2> QED  BY <2>1, <2>2 DEF Anthropic!CallsComeOnce
<1>3. StreamInv => CallsComeOnce
  BY <1>1, <1>2 DEF CallsComeOnce
<1> QED  BY <1>3, StreamAlways, PTL
=============================================================================
