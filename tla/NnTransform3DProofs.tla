------------------------ MODULE NnTransform3DProofs ------------------------
(***************************************************************************)
(* Theorems about the neural decoders: loading a model on any host, and    *)
(* decoding with it on any number of threads, for every area, tile size,   *)
(* chunk size and field height, and any failures.                          *)
(***************************************************************************)
EXTENDS NnTransform3D, FiniteSetTheorems, TLAPS

-----------------------------------------------------------------------------
\* Tiles.

\* Multiplying by a positive number keeps the order of the integers, and their gaps.
LEMMA Scaled ==
  ASSUME NEW b \in Nat \ {0}, NEW x \in Int, NEW y \in Int
  PROVE  /\ b * x \in Int /\ b * (x + 1) = (b * x) + b /\ b * (x - 1) = (b * x) - b
         /\ x < y => (b * x) + b <= b * y
         /\ x <= y => b * x <= b * y
<1>1. b * x \in Int /\ b * (x + 1) = (b * x) + b /\ b * (x - 1) = (b * x) - b
  OBVIOUS
<1>2. ASSUME x < y PROVE (b * x) + b <= b * y
  <2>1. PICK d \in Nat : y = x + 1 + d
    <3>1. y - x - 1 \in Nat /\ y = x + 1 + (y - x - 1)
      BY <1>2
    <3> QED
      BY <3>1
  <2>2. b * y = (b * x) + b + (b * d)
    BY <2>1
  <2>3. b * d \in Nat
    BY <2>1
  <2> QED
    BY <1>1, <2>2, <2>3
<1> QED
  BY <1>1, <1>2

\* Division by b, its remainder, and which quotient a number has.
LEMMA Divided ==
  ASSUME NEW b \in Nat \ {0}, NEW n \in Int
  PROVE  /\ n \div b \in Int /\ n % b \in 0 .. b - 1
         /\ n = (b * (n \div b)) + (n % b)
  OBVIOUS

LEMMA QuotientIs ==
  ASSUME NEW b \in Nat \ {0}, NEW q \in Int, NEW r \in 0 .. b - 1
  PROVE  ((b * q) + r) \div b = q /\ ((b * q) + r) % b = r
<1> DEFINE n == (b * q) + r
<1>1. n \in Int
  OBVIOUS
<1>2. /\ n \div b \in Int /\ n % b \in 0 .. b - 1
      /\ n = (b * (n \div b)) + (n % b)
  BY <1>1, Divided
<1> DEFINE p == n \div b
           s == n % b
<1>3. p \in Int /\ s \in 0 .. b - 1 /\ (b * q) + r = (b * p) + s
  BY <1>2
<1> HIDE DEF n, p, s
<1>4. (p < q => (b * p) + b <= b * q) /\ (q < p => (b * q) + b <= b * p)
  BY <1>3, Scaled
<1>5. b * p \in Int /\ b * q \in Int
  BY <1>3
<1>6. p = q
  BY <1>3, <1>4, <1>5
<1>7. s = r
  BY <1>3, <1>5, <1>6
<1> QED
  BY <1>6, <1>7 DEF p, s, n

LEMMA QuotientGrows ==
  ASSUME NEW b \in Nat \ {0}, NEW m \in Int, NEW n \in Int, m <= n
  PROVE  m \div b <= n \div b
<1> DEFINE p == m \div b
           q == n \div b
<1>1. /\ p \in Int /\ q \in Int /\ m % b \in 0 .. b - 1 /\ n % b \in 0 .. b - 1
      /\ m = (b * p) + (m % b) /\ n = (b * q) + (n % b)
  BY Divided
<1> HIDE DEF p, q
<1>2. q < p => (b * q) + b <= b * p
  BY <1>1, Scaled
<1>3. b * p \in Int /\ b * q \in Int
  BY <1>1
<1>4. p <= q
  BY <1>1, <1>2, <1>3
<1> QED
  BY <1>4 DEF p, q

LEMMA CardinalityOfFour ==
  ASSUME NEW a, NEW b, NEW c, NEW d, a # b, a # c, a # d, b # c, b # d, c # d
  PROVE  Cardinality({a, b, c, d}) = 4
<1>1. IsFiniteSet({a}) /\ Cardinality({a}) = 1
  BY FS_Singleton
<1>2. IsFiniteSet({a} \cup {b}) /\ Cardinality({a} \cup {b}) = 2
  <2>1. b \notin {a}
    OBVIOUS
  <2> QED
    BY <1>1, <2>1, FS_AddElement
<1>3. IsFiniteSet(({a} \cup {b}) \cup {c}) /\ Cardinality(({a} \cup {b}) \cup {c}) = 3
  <2>1. c \notin {a} \cup {b}
    OBVIOUS
  <2> QED
    BY <1>2, <2>1, FS_AddElement
<1>4. Cardinality((({a} \cup {b}) \cup {c}) \cup {d}) = 4
  <2>1. d \notin ({a} \cup {b}) \cup {c}
    OBVIOUS
  <2> QED
    BY <1>3, <2>1, FS_AddElement
<1>5. (({a} \cup {b}) \cup {c}) \cup {d} = {a, b, c, d}
  OBVIOUS
<1> QED
  BY <1>4, <1>5

LEMMA Geometry ==
  ASSUME NEW a \in Areas
  PROVE  /\ Half \in Nat \ {0} /\ Block = Half + Half
         /\ TileLine(a) = a.first - Half /\ TileColumn(a) = a.start - Half
         /\ a.first \in Int /\ a.last \in Int /\ a.start \in Int /\ a.end \in Int
         /\ a.first <= a.last /\ a.start < a.end
         /\ LinesOfTiles(a) \in Nat \ {0, 1} /\ ColumnsOfTiles(a) \in Nat \ {0, 1}
         /\ NumBlocks(a) = ColumnsOfTiles(a) * LinesOfTiles(a)
         /\ NumBlocks(a) \in Nat \ {0}
         /\ ChunksOf(a) \in Nat \ {0} /\ ChunkTiles \in Nat \ {0}
<1>1. Half \in Nat \ {0} /\ Block = Half + Half /\ ChunkTiles \in Nat \ {0}
  BY NnAssumption DEF Half
<1>2. /\ a.first \in Int /\ a.last \in Int /\ a.start \in Int /\ a.end \in Int
      /\ a.first <= a.last /\ a.start < a.end
  BY NnAssumption
<1>3. TileLine(a) = a.first - Half /\ TileColumn(a) = a.start - Half
  BY DEF TileLine, TileColumn
<1>4. ASSUME NEW m \in Int, m >= Half PROVE m \div Half \in Nat \ {0}
  <2>1. Half \div Half = 1
    BY <1>1, QuotientIs, Half = (Half * 1) + 0
  <2>2. Half \div Half <= m \div Half
    BY <1>1, <1>4, QuotientGrows
  <2>3. m \div Half \in Int
    BY <1>1, Divided
  <2> QED
    BY <2>1, <2>2, <2>3
<1>5. LinesOfTiles(a) \in Nat \ {0, 1}
  <2>1. a.last - TileLine(a) \in Int /\ a.last - TileLine(a) >= Half
    BY <1>1, <1>2, <1>3
  <2>2. (a.last - TileLine(a)) \div Half \in Nat \ {0}
    BY <1>4, <2>1
  <2> QED
    BY <2>2 DEF LinesOfTiles
<1>6. ColumnsOfTiles(a) \in Nat \ {0, 1}
  <2>1. a.end - 1 - TileColumn(a) \in Int /\ a.end - 1 - TileColumn(a) >= Half
    BY <1>1, <1>2, <1>3
  <2>2. (a.end - 1 - TileColumn(a)) \div Half \in Nat \ {0}
    BY <1>4, <2>1
  <2> QED
    BY <2>2 DEF ColumnsOfTiles
<1>7. /\ NumBlocks(a) = ColumnsOfTiles(a) * LinesOfTiles(a)
      /\ NumBlocks(a) \in Nat \ {0}
  BY <1>5, <1>6 DEF NumBlocks
<1>8. ChunksOf(a) \in Nat \ {0}
  <2>1. NumBlocks(a) - 1 \in Nat
    BY <1>7
  <2>2. (NumBlocks(a) - 1) \div ChunkTiles \in Nat
    BY <1>1, <2>1
  <2> QED
    BY <2>2 DEF ChunksOf
<1> QED
  BY <1>1, <1>2, <1>3, <1>5, <1>6, <1>7, <1>8

\* Along one axis, a sample d past the first tile lies in two tiles.
LEMMA TwoTilesAlong ==
  ASSUME NEW h \in Nat \ {0}, NEW d \in Int, NEW i \in Int
  PROVE  (h * i <= d /\ d < (h * i) + h + h) <=> i \in {(d \div h) - 1, d \div h}
<1> DEFINE q == d \div h
<1>1. q \in Int /\ d % h \in 0 .. h - 1 /\ d = (h * q) + (d % h)
  BY Divided
<1> HIDE DEF q
<1>2. /\ h * i \in Int /\ h * q \in Int /\ h * (i + 1) = (h * i) + h
      /\ q < i => (h * q) + h <= h * i
      /\ i < q => (h * i) + h <= h * q
      /\ i + 1 < q => (h * (i + 1)) + h <= h * q
      /\ i = q - 1 => h * i = (h * q) - h
  BY <1>1, Scaled, i + 1 \in Int
<1>3. ASSUME h * i <= d, d < (h * i) + h + h PROVE i \in {q - 1, q}
  BY <1>1, <1>2, <1>3
<1>4. ASSUME i \in {q - 1, q} PROVE h * i <= d /\ d < (h * i) + h + h
  BY <1>1, <1>2, <1>4
<1> QED
  BY <1>3, <1>4 DEF q

\* Every active sample lies in exactly four tiles of its frame.
LEMMA FourTiles ==
  ASSUME NEW a \in Areas, NEW line \in a.first .. a.last, NEW column \in a.start .. a.end - 1
  PROVE  Cardinality({n \in 1 .. NumBlocks(a) : Covers(a, n, line, column)}) = 4
<1> DEFINE l == LinesOfTiles(a)
           c == ColumnsOfTiles(a)
           h == Half
           dl == line - TileLine(a)
           dc == column - TileColumn(a)
           q == dl \div h
           r == dc \div h
           Number(i, j) == (c * i) + j + 1
<1>1. /\ h \in Nat \ {0} /\ Block = h + h
      /\ TileLine(a) = a.first - h /\ TileColumn(a) = a.start - h
      /\ a.first \in Int /\ a.last \in Int /\ a.start \in Int /\ a.end \in Int
      /\ l \in Nat \ {0, 1} /\ c \in Nat \ {0, 1} /\ NumBlocks(a) = c * l
  BY Geometry
<1>2. line \in Int /\ column \in Int /\ dl \in Int /\ dc \in Int
  BY <1>1
<1>3. q \in 1 .. l - 1
  <2>1. h <= dl /\ dl <= a.last - TileLine(a) /\ a.last - TileLine(a) \in Int
    BY <1>1
  <2>2. h \div h = 1
    BY <1>1, QuotientIs, h = (h * 1) + 0
  <2>3. h \div h <= q /\ q <= (a.last - TileLine(a)) \div h
    BY <1>1, <1>2, <2>1, QuotientGrows
  <2>4. q \in Int /\ (a.last - TileLine(a)) \div h \in Int
    <3> HIDE DEF h, dl
    <3> QED
      BY <1>1, <1>2, <2>1, Divided
  <2>5. l = ((a.last - TileLine(a)) \div h) + 1
    BY DEF LinesOfTiles
  <2> HIDE DEF h, q, l, dl
  <2> QED
    BY <2>2, <2>3, <2>4, <2>5
<1>4. r \in 1 .. c - 1
  <2>1. h <= dc /\ dc <= a.end - 1 - TileColumn(a) /\ a.end - 1 - TileColumn(a) \in Int
    BY <1>1
  <2>2. h \div h = 1
    BY <1>1, QuotientIs, h = (h * 1) + 0
  <2>3. h \div h <= r /\ r <= (a.end - 1 - TileColumn(a)) \div h
    BY <1>1, <1>2, <2>1, QuotientGrows
  <2>4. r \in Int /\ (a.end - 1 - TileColumn(a)) \div h \in Int
    <3> HIDE DEF h, dc
    <3> QED
      BY <1>1, <1>2, <2>1, Divided
  <2>5. c = ((a.end - 1 - TileColumn(a)) \div h) + 1
    BY DEF ColumnsOfTiles
  <2> HIDE DEF h, r, c, dc
  <2> QED
    BY <2>2, <2>3, <2>4, <2>5
<1>5. ASSUME NEW n \in 1 .. NumBlocks(a)
      PROVE  /\ (n - 1) \div c \in Int /\ (n - 1) % c \in Int
             /\ n = Number((n - 1) \div c, (n - 1) % c)
             /\ Covers(a, n, line, column) <=>
                  (n - 1) \div c \in {q - 1, q} /\ (n - 1) % c \in {r - 1, r}
  <2> DEFINE i == (n - 1) \div c
             j == (n - 1) % c
  <2>1. n - 1 \in Int /\ i \in Int /\ j \in 0 .. c - 1 /\ n - 1 = (c * i) + j
    <3>1. n - 1 \in Int /\ c \in Nat \ {0}
      BY <1>1, <1>5
    <3> HIDE DEF c
    <3> QED
      BY <3>1, Divided
  <2>2. Covers(a, n, line, column) <=>
          /\ TileLine(a) + (h * i) <= line /\ line < TileLine(a) + (h * i) + Block
          /\ TileColumn(a) + (h * j) <= column /\ column < TileColumn(a) + (h * j) + Block
    BY DEF Covers, Tile
  <2> HIDE DEF i, j
  <2>3. h * i \in Int /\ h * j \in Int
    BY <1>1, <2>1
  <2>4. Covers(a, n, line, column) <=>
          /\ h * i <= dl /\ dl < (h * i) + h + h
          /\ h * j <= dc /\ dc < (h * j) + h + h
    BY <1>1, <1>2, <2>2, <2>3
  <2> HIDE DEF h, dl, dc, c
  <2>5. j \in Int
    BY <1>1, <2>1
  <2>7. /\ (h * i <= dl /\ dl < (h * i) + h + h) <=> i \in {q - 1, q}
        /\ (h * j <= dc /\ dc < (h * j) + h + h) <=> j \in {r - 1, r}
    BY <1>1, <1>2, <2>1, <2>5, TwoTilesAlong
  <2>8. Covers(a, n, line, column) <=> i \in {q - 1, q} /\ j \in {r - 1, r}
    BY <2>4, <2>7
  <2>6. n = Number(i, j)
    BY <1>1, <2>1
  <2> QED
    BY <2>1, <2>5, <2>6, <2>8 DEF i, j
<1>6. ASSUME NEW i \in {q - 1, q}, NEW j \in {r - 1, r}
      PROVE  /\ Number(i, j) \in 1 .. NumBlocks(a)
             /\ (Number(i, j) - 1) \div c = i /\ (Number(i, j) - 1) % c = j
  <2> HIDE DEF q, r, l, c
  <2>1. i \in Int /\ i \in 0 .. l - 1 /\ j \in 0 .. c - 1
    BY <1>1, <1>3, <1>4
  <2>2. c * i >= 0 /\ c * i \in Int /\ (c * i) + c <= c * l
    <3>1. c * 0 <= c * i /\ (c * i) + c <= c * l /\ c * 0 = 0
      BY <1>1, <2>1, Scaled
    <3> QED
      BY <1>1, <2>1, <3>1
  <2>3. Number(i, j) \in 1 .. NumBlocks(a)
    BY <1>1, <2>1, <2>2
  <2>4. Number(i, j) - 1 = (c * i) + j
    BY <1>1, <2>1, <2>2
  <2>5. ((c * i) + j) \div c = i /\ ((c * i) + j) % c = j
    BY <1>1, <2>1, QuotientIs
  <2> HIDE DEF Number
  <2> QED
    BY <2>3, <2>4, <2>5
<1> DEFINE S == {n \in 1 .. NumBlocks(a) : Covers(a, n, line, column)}
<1>7. S = {Number(q - 1, r - 1), Number(q - 1, r), Number(q, r - 1), Number(q, r)}
  <2> HIDE DEF Number, q, r, c
  <2>1. ASSUME NEW n \in S
        PROVE  n \in {Number(q - 1, r - 1), Number(q - 1, r), Number(q, r - 1), Number(q, r)}
    BY <1>5
  <2>2. ASSUME NEW i \in {q - 1, q}, NEW j \in {r - 1, r} PROVE Number(i, j) \in S
    BY <1>5, <1>6
  <2> HIDE DEF S
  <2> QED
    BY <2>1, <2>2
<1>8. /\ Number(q - 1, r - 1) # Number(q - 1, r) /\ Number(q - 1, r - 1) # Number(q, r - 1)
      /\ Number(q - 1, r - 1) # Number(q, r) /\ Number(q - 1, r) # Number(q, r - 1)
      /\ Number(q - 1, r) # Number(q, r) /\ Number(q, r - 1) # Number(q, r)
  <2> HIDE DEF q, r, c, l
  <2>1. q \in Int /\ r \in Int /\ c * q \in Int /\ c * (q - 1) = (c * q) - c
    BY <1>1, <1>3, <1>4, Scaled
  <2> QED
    BY <1>1, <2>1, <1>4
<1> HIDE DEF S, Number
<1>9. Cardinality(S) = 4
  BY <1>7, <1>8, CardinalityOfFour
<1> QED
  BY <1>9 DEF S

-----------------------------------------------------------------------------
\* The backend of a loaded model.

\* The providers the call was to try, in their order.
Asked == BuildAutoChain(request.backend)
Attaches(p) == ProviderIsAvailable(p) /\ Attach(p)

Statuses == {"idle", "resolving", "attaching", "creating", "bound", "OK",
             "INVALID_ARG", "NN_BACKEND_UNAVAILABLE", "NN_MODEL_LOAD"}
ModelTypeOK ==
    /\ modelStatus \in Statuses
    /\ modelStatus \in {"resolving", "attaching", "creating", "OK"} => request.backend \in Backends
    /\ chain \in Seq(Providers)
    /\ active \in Native \cup Providers \cup {"none"}

\* While the chain is walked, what is left of it is its tail and none of those before
\* attaches.
TailOfTheChain ==
    modelStatus = "attaching" =>
        /\ request.backend \in Providers \cup Automatic
        /\ Len(chain) <= Len(Asked)
        /\ \A m \in 1 .. Len(chain) : chain[m] = Asked[(Len(Asked) - Len(chain)) + m]
        /\ \A m \in 1 .. Len(Asked) - Len(chain) : ~Attaches(Asked[m])

\* A session is made on the first provider of the chain that attaches.
FirstOfTheChain ==
    modelStatus \in {"creating", "OK"} /\ active \notin Native =>
        /\ request.backend \in Providers \cup Automatic
        /\ \E n \in 1 .. Len(Asked) :
             /\ Asked[n] = active
             /\ Attaches(active)
             /\ \A m \in 1 .. n - 1 : ~Attaches(Asked[m])

ModelIInv == ModelTypeOK /\ TailOfTheChain /\ FirstOfTheChain

LEMMA ChainType ==
  ASSUME NEW b \in Providers \cup Automatic
  PROVE  /\ BuildAutoChain(b) \in Seq(Providers)
         /\ b \in Providers => BuildAutoChain(b) = <<b>>
         /\ b \notin Providers => BuildAutoChain(b) = AutoChain
<1>1. AutoChain \in Seq(Providers)
  <2>1. /\ <<"ORT_TENSORRT", "ORT_CUDA", "ORT_DIRECTML", "ORT_CPU">> \in Seq(Providers)
        /\ <<"ORT_COREML", "ORT_CPU">> \in Seq(Providers)
        /\ <<"ORT_TENSORRT", "ORT_CUDA", "ORT_MIGRAPHX", "ORT_CPU">> \in Seq(Providers)
    BY DEF Providers
  <2>2. CASE host.platform = "windows"
    BY <2>1, <2>2 DEF AutoChain
  <2>3. CASE host.platform = "mac"
    BY <2>1, <2>3 DEF AutoChain
  <2>4. CASE host.platform # "windows" /\ host.platform # "mac"
    BY <2>1, <2>4 DEF AutoChain
  <2> QED
    BY <2>2, <2>3, <2>4
<1>2. ASSUME b \in Providers PROVE BuildAutoChain(b) = <<b>>
  BY <1>2 DEF BuildAutoChain, Providers, Automatic
<1>3. ASSUME b \notin Providers PROVE BuildAutoChain(b) = AutoChain
  BY <1>3 DEF BuildAutoChain
<1>4. ASSUME b \in Providers PROVE <<b>> \in Seq(Providers)
  BY <1>4
<1> QED
  BY <1>1, <1>2, <1>3, <1>4

LEMMA ModelInitIInv == NnInit => ModelIInv
BY DEF NnInit, ModelInit, ModelIInv, ModelTypeOK, Statuses, TailOfTheChain, FirstOfTheChain,
       Providers, Native, Automatic, Backends, NoRequest

LEMMA ModelStep ==
  ASSUME ModelIInv, ModelNext
  PROVE  ModelIInv'
<1> USE DEF ModelIInv
<1>1. ASSUME NEW from \in {"file", "memory"}, NEW b \in Backends, NEW a \in Artifacts,
             LoadModel(from, b, a)
      PROVE  ModelIInv'
  BY <1>1 DEF LoadModel, ModelTypeOK, Statuses, TailOfTheChain, FirstOfTheChain
<1>2. CASE ResolveBackend
  <2>1. CASE WantNative(request)
    BY <1>2, <2>1 DEF ResolveBackend, ModelTypeOK, Statuses, TailOfTheChain, FirstOfTheChain, Native
  <2>2. CASE ~WantNative(request)
    <3>1. request.backend \in Providers \cup Automatic
      BY <1>2, <2>2 DEF ResolveBackend, WantNative, Backends, ModelTypeOK
    <3>2. Asked \in Seq(Providers)
      BY <3>1, ChainType DEF Asked
    <3>3. /\ host' = host /\ request' = request
          /\ active' = "none"
          /\ \/ modelStatus' = "attaching" /\ chain' = Asked
             \/ modelStatus' = "NN_BACKEND_UNAVAILABLE" /\ chain' = <<>>
      BY <1>2, <2>2 DEF ResolveBackend, Asked
    <3>4. Asked' = Asked
      BY <3>3 DEF Asked, BuildAutoChain, AutoChain
    <3>5. ModelTypeOK' /\ FirstOfTheChain'
      <4>1. chain' \in Seq(Providers) /\ active' = "none"
        <5>1. chain' \in {Asked, <<>>} /\ <<>> \in Seq(Providers)
          BY <3>3
        <5> QED
          BY <3>2, <3>3, <5>1
      <4>2. request'.backend \in Backends /\ modelStatus' \in Statuses \ {"creating", "OK"}
        BY <3>1, <3>3 DEF Backends, Statuses
      <4> QED
        BY <4>1, <4>2 DEF ModelTypeOK, FirstOfTheChain
    <3>6. TailOfTheChain'
      BY <3>1, <3>2, <3>3, <3>4 DEF TailOfTheChain
    <3> QED
      BY <3>5, <3>6
  <2> QED
    BY <2>1, <2>2
<1>3. CASE AttachFails
  BY <1>3 DEF AttachFails, ModelTypeOK, Statuses, TailOfTheChain, FirstOfTheChain
<1>4. CASE TryProvider
  <2>1. /\ host' = host /\ request' = request /\ modelStatus = "attaching"
        /\ chain \in Seq(Providers) /\ chain # <<>>
    BY <1>4 DEF TryProvider, ModelTypeOK
  <2>2. Asked' = Asked /\ \A p : Attaches(p)' <=> Attaches(p)
    BY <2>1 DEF Asked, BuildAutoChain, AutoChain, Attaches, Attach, ProviderIsAvailable,
                AttachCuda, ApplyEntries, OnItsPlatform
  <2> DEFINE d == Len(Asked) - Len(chain)
  <2>3. /\ Len(Asked) \in Nat /\ Len(chain) \in Nat \ {0} /\ d \in Nat /\ d + 1 \in 1 .. Len(Asked)
        /\ Head(chain) = chain[1] /\ chain[1] \in Providers /\ chain[1] = Asked[d + 1]
        /\ \A m \in 1 .. d : ~Attaches(Asked[m])
        /\ request.backend \in Providers \cup Automatic
    <3>1. /\ request.backend \in Providers \cup Automatic /\ Len(chain) <= Len(Asked)
          /\ \A m \in 1 .. Len(chain) : chain[m] = Asked[d + m]
          /\ \A m \in 1 .. d : ~Attaches(Asked[m])
      BY <2>1 DEF TailOfTheChain
    <3>2. Len(Asked) \in Nat
      BY <3>1, ChainType DEF Asked
    <3>3. Len(chain) \in Nat \ {0} /\ Head(chain) = chain[1] /\ chain[1] \in Providers
      BY <2>1
    <3> QED
      BY <3>1, <3>2, <3>3
  <2>4. CASE Attaches(Head(chain))
    <3>1. active' = Head(chain) /\ modelStatus' = "creating" /\ chain' = <<>>
      BY <1>4, <2>4 DEF TryProvider, Attaches
    <3>2. ModelTypeOK' /\ TailOfTheChain'
      BY <2>1, <2>3, <3>1 DEF ModelTypeOK, TailOfTheChain, Statuses
    <3>3. FirstOfTheChain'
      BY <2>1, <2>2, <2>3, <2>4, <3>1 DEF FirstOfTheChain
    <3> QED
      BY <3>2, <3>3
  <2>5. CASE ~Attaches(Head(chain))
    <3>1. active' = active /\ modelStatus' = modelStatus /\ chain' = Tail(chain)
      BY <1>4, <2>5 DEF TryProvider, Attaches
    <3>2. ModelTypeOK' /\ FirstOfTheChain'
      BY <2>1, <2>3, <3>1 DEF ModelTypeOK, FirstOfTheChain
    <3>3. /\ Len(Tail(chain)) = Len(chain) - 1
          /\ \A m \in 1 .. Len(chain) - 1 : Tail(chain)[m] = chain[m + 1]
      BY <2>1, <2>3
    <3> DEFINE left == Len(chain')
    <3>4. /\ left \in Nat /\ left = Len(chain) - 1 /\ Len(Asked) - left = d + 1
          /\ \A m \in 1 .. left : chain'[m] = chain[m + 1]
      BY <2>3, <3>1, <3>3
    <3>5. \A m \in 1 .. left : chain'[m] = Asked[(d + 1) + m]
      <4>1. \A m \in 1 .. Len(chain) : chain[m] = Asked[d + m]
        BY <2>1 DEF TailOfTheChain
      <4>2. ASSUME NEW m \in 1 .. left PROVE chain'[m] = Asked[(d + 1) + m]
        <5> HIDE DEF d, left
        <5>1. m + 1 \in 1 .. Len(chain) /\ d + (m + 1) = (d + 1) + m
          BY <2>3, <3>4
        <5>2. chain'[m] = chain[m + 1]
          BY <3>4
        <5>3. chain[m + 1] = Asked[d + (m + 1)]
          BY <4>1, <5>1
        <5> QED
          BY <5>1, <5>2, <5>3
      <4> QED
        BY <4>2
    <3>6. \A m \in 1 .. d + 1 : ~Attaches(Asked[m])
      BY <2>3, <2>5
    <3>7. TailOfTheChain'
      BY <2>1, <2>2, <2>3, <3>4, <3>5, <3>6 DEF TailOfTheChain
    <3> QED
      BY <3>2, <3>7
  <2> QED
    BY <2>4, <2>5
<1>5. CASE CreateSession
  <2>1. /\ host' = host /\ request' = request /\ chain' = chain /\ active' = active
        /\ modelStatus = "creating" /\ modelStatus' \in {"OK", "NN_MODEL_LOAD"}
    BY <1>5 DEF CreateSession
  <2>2. Asked' = Asked /\ \A p : Attaches(p)' <=> Attaches(p)
    BY <2>1 DEF Asked, BuildAutoChain, AutoChain, Attaches, Attach, ProviderIsAvailable,
                AttachCuda, ApplyEntries, OnItsPlatform
  <2> QED
    BY <2>1, <2>2 DEF ModelTypeOK, Statuses, TailOfTheChain, FirstOfTheChain
<1> QED
  BY <1>1, <1>2, <1>3, <1>4, <1>5 DEF ModelNext

LEMMA FirstOfTheChainSuffices ==
  ASSUME ModelIInv
  PROVE  BackendIsTheFirstThatAttaches
<1> SUFFICES ASSUME modelStatus = "OK", active \notin Native
             PROVE  IF request.backend \in Providers
                      THEN active = request.backend
                      ELSE \E n \in 1 .. Len(AutoChain) :
                             /\ AutoChain[n] = active
                             /\ ProviderIsAvailable(active) /\ Attach(active)
                             /\ \A m \in 1 .. n - 1 :
                                  ~(ProviderIsAvailable(AutoChain[m]) /\ Attach(AutoChain[m]))
  BY DEF BackendIsTheFirstThatAttaches
<1>1. /\ request.backend \in Providers \cup Automatic
      /\ \E n \in 1 .. Len(Asked) :
           /\ Asked[n] = active
           /\ Attaches(active)
           /\ \A m \in 1 .. n - 1 : ~Attaches(Asked[m])
  BY DEF ModelIInv, FirstOfTheChain
<1>2. CASE request.backend \in Providers
  <2>1. Asked = <<request.backend>>
    BY <1>2, ChainType DEF Asked
  <2> QED
    BY <1>1, <1>2, <2>1
<1>3. CASE request.backend \notin Providers
  <2>1. Asked = AutoChain
    BY <1>1, <1>3, ChainType DEF Asked
  <2> QED
    BY <1>1, <1>3, <2>1 DEF Attaches
<1> QED
  BY <1>2, <1>3

\* Once a decoder is bound to the model, nothing of the load matters any more.
LEMMA CommitStep ==
  ASSUME ModelIInv, NEW k, CommitNn(k)
  PROVE  ModelIInv'
BY DEF CommitNn, ModelIInv, ModelTypeOK, Statuses, TailOfTheChain, FirstOfTheChain

LEMMA ModelStutters ==
  ASSUME ModelIInv, UNCHANGED modelVars
  PROVE  ModelIInv'
<1>1. Asked' = Asked
  BY DEF modelVars, Asked, BuildAutoChain, AutoChain, ProviderIsAvailable, OnItsPlatform
<1>2. \A p : Attaches(p)' <=> Attaches(p)
  BY DEF modelVars, Attaches, Attach, ProviderIsAvailable, AttachCuda, ApplyEntries, OnItsPlatform
<1>3. ModelTypeOK'
  BY DEF modelVars, ModelIInv, ModelTypeOK
<1>4. TailOfTheChain'
  BY <1>1, <1>2 DEF modelVars, ModelIInv, TailOfTheChain
<1>5. FirstOfTheChain'
  BY <1>1, <1>2 DEF modelVars, ModelIInv, FirstOfTheChain
<1> QED
  BY <1>3, <1>4, <1>5 DEF ModelIInv

LEMMA WorkerKeepsTheModel ==
  ASSUME NEW w \in Workers, WorkerNext(w)
  PROVE  UNCHANGED <<modelVars, kind, threads, resident>> /\ modelStatus = "bound"
BY DEF WorkerNext, At, StartCall, BeginFrame, CpuBody, Finish, EnsureBatchCapacity, EnsureWindows,
       Batch, Download, Upload, ForwardFFT, PredictResident, InverseFFT, ResidentStep, DownloadIfft,
       SnapshotModel, InferencePoint, Predict, FallBackToCpu, InferenceThrows, RunSession

\* The backend of a loaded model is the one that was pinned, or else the first of the
\* platform's chain that this host lists and can attach: for every host and every model.
THEOREM FirstBackend == NnSpec => []BackendIsTheFirstThatAttaches
<1>1. ModelIInv /\ [NnNext]_nnVars => ModelIInv'
  <2> SUFFICES ASSUME ModelIInv, [NnNext]_nnVars
               PROVE  ModelIInv'
    OBVIOUS
  <2>1. CASE ModelNext
    BY <2>1, ModelStep
  <2>2. ASSUME NEW k \in LdzeugKinds \cup {"nnTransform3D"}, CommitNn(k)
        PROVE  ModelIInv'
    BY <2>2, CommitStep
  <2>3. ASSUME NEW w \in Workers, WorkerNext(w)
        PROVE  ModelIInv'
    BY <2>3, WorkerKeepsTheModel, ModelStutters
  <2>4. CASE UNCHANGED nnVars
    BY <2>4, ModelStutters DEF nnVars
  <2> QED
    BY <2>1, <2>2, <2>3, <2>4 DEF NnNext
<1> QED
  BY <1>1, ModelInitIInv, FirstOfTheChainSuffices, PTL DEF NnSpec

-----------------------------------------------------------------------------
\* Types.

Tiled == "nnTransform3D"
Kinds == LdzeugKinds \cup {Tiled}
ChunkPCs == {"chunk", "forward", "mask", "inverse", "fetch", "predict", "fallback"}
GpuPCs == {"cache", "windows", "batch", "download"}
RowPCs == {"frame", "predict", "fallback", "gaveUp", "finish"}
PCs == {"idle", "frame", "cpu", "gaveUp", "finish"} \cup ChunkPCs \cup GpuPCs

Contributions == Nat \X Nat
Data == (Workers \cup {"none"}) \X Nat \X Nat
Accumulators == [chroma : SUBSET (Nat \X Nat \X Data), weight : SUBSET Contributions]
Typed(bufs) == \A f \in DOMAIN bufs : f \in Nat /\ bufs[f] \in Accumulators
Calls == [pc : PCs, k : Nat, frames : Nat, area : Areas \cup {NoArea}, pair : FrameFields \cup {<<>>},
          chunk : Nat, copies : Nat, onGpu : BOOLEAN, snap : {"none", "asked", "cpuOnly"},
          ok : BOOLEAN, previous : BOOLEAN, triedCpu : BOOLEAN, calls : Nat]
Frames == [kind : {"none", "rows", "nn", "2d"}, k : Nat, area : Areas \cup {NoArea},
           chroma : SUBSET (Nat \X Nat \X Data), weight : SUBSET Contributions, previous : BOOLEAN]

GpuCaches == [blocks : Nat, plans : BOOLEAN, size : Nat, windows : {"none", "allocated", "filled"}]

DecodeTypeOK ==
    /\ kind \in Kinds \cup {"none"}
    /\ threads \subseteq Workers
    /\ resident \in BOOLEAN
    /\ engine \in {"asked", "cpuOnly"}
    /\ mps \in [tiles : Data, spectrum : Data, mask : Data, result : Data]
    /\ work \in [Workers -> Calls]
    /\ DOMAIN buffers = Workers
    /\ \A w \in Workers : Typed(buffers[w])
    /\ device \in [Workers -> GpuCaches]
    /\ DOMAIN rows = Workers
    /\ \A w \in Workers : DOMAIN rows[w] = {"table", "frame"}
    /\ last \in [Workers -> Frames]
    /\ faults \in Nat
TypeOK == ModelTypeOK /\ DecodeTypeOK

\* Where a call can be, under each decoder and each backend.
InItsPipeline(w) ==
    LET c == work[w]
    IN  c.pc # "idle" =>
          /\ modelStatus = "bound" /\ w \in threads /\ kind \in Kinds
          /\ c.pc \in ChunkPCs => active = "COREML"
          /\ c.pc = "cpu" => active # "COREML"
          /\ c.pc \in GpuPCs => active \notin {"COREML", "ORT_CPU"}
          /\ c.pc \in {"forward", "mask", "inverse", "fetch"} => c.onGpu
          /\ c.onGpu => resident
          /\ kind = Tiled =>
               /\ c.area \in Areas
               /\ c.pc = "frame" => DOMAIN buffers[w] \subseteq {c.k}
               /\ c.pc # "frame" => DOMAIN buffers[w] = {c.k, c.k + 1}
               /\ c.pc \in ChunkPCs => c.chunk \in 1 .. ChunksOf(c.area)
               /\ c.pc \in {"cache", "windows", "batch"} => c.copies = 0
               /\ c.pc = "download" => c.copies \in 0 .. 3
          /\ kind # Tiled =>
               /\ c.pair \in FrameFields /\ c.pc \in RowPCs
               /\ c.chunk \in {1, 2} /\ (c.chunk = 2 => PerField(kind))
Placed ==
    /\ modelStatus = "bound" => kind \in Kinds
    /\ modelStatus # "bound" => \A w \in Workers : last[w] = NoFrame
    /\ \A w \in Workers : InItsPipeline(w)

\* Tiles of the frame under way that its own buffer and the next one have the weight of.
Pairs(k, tiles) == {<<k, n>> : n \in tiles}
Chromas(k, tiles, data) == {<<k, n, data>> : n \in tiles}
Tiles(a) == 1 .. NumBlocks(a)
WeightsGrow(w) ==
    LET c == work[w]
        k == c.k
        own == Pairs(k, Tiles(c.area))
        before == Pairs(k - 1, Tiles(c.area))
    IN  kind = Tiled =>
          /\ c.pc # "idle" /\ c.previous => before \subseteq Buffer(w, k).weight
          /\ c.pc \in ChunkPCs =>
               \A n \in Tiles(c.area) : (n - 1) \div ChunkTiles < c.chunk - 1 =>
                 <<k, n>> \in buffers[w][k].weight /\ <<k, n>> \in buffers[w][k + 1].weight
          /\ c.pc = "download" /\ c.copies >= 2 => own \subseteq buffers[w][k].weight
          /\ c.pc = "finish" /\ c.ok =>
               own \subseteq buffers[w][k].weight /\ own \subseteq buffers[w][k + 1].weight
WholeFrame(w) ==
    last[w].kind = "nn" =>
        /\ last[w].area \in Areas
        /\ Pairs(last[w].k, Tiles(last[w].area)) \subseteq last[w].weight
        /\ last[w].previous => Pairs(last[w].k - 1, Tiles(last[w].area)) \subseteq last[w].weight
Whole == \A w \in Workers : WeightsGrow(w) /\ WholeFrame(w)

\* What the chroma of an accumulator was summed from.
Summed(chroma) == {<<c[1], c[2]>> : c \in chroma}
Level(acc) == Summed(acc.chroma) = acc.weight
\* Pipelines that never touch one sum without the other.
Together == active \in {"COREML", "ORT_CPU"}
SumsGrow(w) ==
    LET c == work[w]
        k == c.k
        own == Pairs(k, Tiles(c.area))
        due == Together \/ c.previous \/ k = 0
    IN  kind = Tiled =>
          /\ c.pc = "frame" /\ due => Level(Buffer(w, k))
          /\ c.pc \notin {"idle", "frame", "download", "finish"} =>
               (due => Level(buffers[w][k])) /\ Level(buffers[w][k + 1])
          /\ c.pc = "download" =>
               /\ due => IF c.copies = 1 THEN Summed(buffers[w][k].chroma) = buffers[w][k].weight \cup own
                                         ELSE Level(buffers[w][k])
               /\ IF c.copies = 3 THEN Summed(buffers[w][k + 1].chroma) = buffers[w][k + 1].weight \cup own
                                  ELSE Level(buffers[w][k + 1])
          /\ c.pc = "finish" /\ (c.ok \/ Together) =>
               (due => Level(buffers[w][k])) /\ Level(buffers[w][k + 1])
Summing == (\A w \in Workers : SumsGrow(w)) /\ SumsMatchTheirWeights

\* Where each contribution of an accumulator comes from.
OwnTiles(w, a, chroma) ==
    \A c \in chroma :
        /\ c[3][1] = w /\ c[3][2] = c[1]
        /\ active = "COREML" => c[2] \in TilesOfChunk(a, c[3][3])
Alone == ~(resident /\ Cardinality(threads) > 1)
OwnBuffers(w) ==
    LET c == work[w]
    IN  kind = Tiled /\ c.pc # "idle" =>
          /\ \A f \in DOMAIN buffers[w] : OwnTiles(w, c.area, buffers[w][f].chroma)
          /\ c.pc = "forward" => mps.tiles = Own(w)
          /\ c.pc \in {"mask", "inverse"} => mps.spectrum = Own(w)
          /\ c.pc = "inverse" => mps.mask = Own(w)
          /\ c.pc = "fetch" => mps.result = Own(w)
OwnEverywhere == Alone => \A w \in Workers : OwnBuffers(w) /\ OwnTiles(w, last[w].area, last[w].chroma)

\* The plans a thread keeps are those of its buffers.
CacheFits(w) ==
    /\ device[w].plans => device[w].size = device[w].blocks
    /\ work[w].pc \in {"windows", "batch", "download"} =>
         device[w].plans /\ device[w].blocks = NumBlocks(work[w].area)
Caches == \A w \in Workers : CacheFits(w)

\* The rows of the fields done so far.
RowIsDone(w, r) == rows[w].frame[r] = TrueRow(kind, work[w].k, work[w].pair, r)
RowsGrow(w) ==
    LET c == work[w]
    IN  kind \in LdzeugKinds =>
          /\ c.pc \in {"frame", "predict", "fallback", "gaveUp"} /\ c.chunk = 2 =>
               \A r \in StoredRows : r % 2 = c.pair[1].offset => RowIsDone(w, r)
          /\ c.pc = "finish" => \A r \in StoredRows : RowIsDone(w, r)
Weaving == \A w \in Workers : RowsGrow(w)

IInv == TypeOK /\ Placed /\ Whole /\ Summing /\ OwnEverywhere /\ Caches /\ Weaving

LEMMA InitIInv == NnInit => IInv
<1> SUFFICES ASSUME NnInit PROVE IInv
  OBVIOUS
<1>1. ModelTypeOK
  BY ModelInitIInv DEF ModelIInv
<1>2. /\ kind = "none" /\ threads = {} /\ resident = FALSE /\ engine = "asked" /\ faults = 0
      /\ mps = [tiles |-> NoData, spectrum |-> NoData, mask |-> NoData, result |-> NoData]
      /\ work = [w \in Workers |-> NoCall]
      /\ buffers = [w \in Workers |-> <<>>]
      /\ device = [w \in Workers |-> NoCache]
      /\ rows = [w \in Workers |-> [table |-> <<>>, frame |-> <<>>]]
      /\ last = [w \in Workers |-> NoFrame]
      /\ modelStatus = "idle"
  BY DEF NnInit, ModelInit, DecodeInit
<1>3. DecodeTypeOK
  <2>1. NoData \in Data
    BY DEF NoData, Data
  <2>2. NoCall \in Calls
    BY DEF NoCall, Calls, PCs
  <2>3. NoFrame \in Frames
    BY DEF NoFrame, Frames
  <2>4. NoCache \in GpuCaches
    BY DEF NoCache, GpuCaches
  <2>5. \A w \in Workers : DOMAIN buffers[w] = {}
    BY <1>2
  <2> QED
    BY <1>2, <2>1, <2>2, <2>3, <2>4, <2>5 DEF DecodeTypeOK, Typed
<1>4. \A w \in Workers : work[w].pc = "idle" /\ last[w].kind = "none" /\ last[w].chroma = {}
                         /\ device[w].plans = FALSE
  BY <1>2 DEF NoCall, NoFrame, NoCache
<1>5. Placed /\ Whole /\ Summing /\ OwnEverywhere /\ Caches /\ Weaving
  BY <1>2, <1>4 DEF Placed, InItsPipeline, Whole, WeightsGrow, WholeFrame, Summing, SumsGrow,
     SumsMatchTheirWeights, OwnEverywhere, OwnBuffers, OwnTiles, Caches, CacheFits, Weaving, RowsGrow,
     Tiled, LdzeugKinds
<1> QED
  BY <1>1, <1>3, <1>5 DEF IInv, TypeOK

\* Every update of a call keeps its type.
LEMMA CallUpdates ==
  ASSUME NEW c \in Calls
  PROVE  /\ \A pc \in PCs : [c EXCEPT !.pc = pc] \in Calls
         /\ \A pc \in PCs, b \in BOOLEAN : [c EXCEPT !.pc = pc, !.ok = b] \in Calls
         /\ \A pc \in PCs, b \in BOOLEAN : [c EXCEPT !.pc = pc, !.triedCpu = b] \in Calls
         /\ \A b \in BOOLEAN : [c EXCEPT !.pc = "chunk", !.onGpu = b] \in Calls
         /\ \A x \in {"asked", "cpuOnly"} :
              [c EXCEPT !.pc = "predict", !.snap = x, !.triedCpu = FALSE] \in Calls
         /\ \A pc \in PCs, b \in BOOLEAN : [c EXCEPT !.copies = @ + 1, !.pc = pc, !.ok = b] \in Calls
         /\ [c EXCEPT !.pc = "frame", !.chunk = 2] \in Calls
         /\ [c EXCEPT !.pc = "chunk", !.chunk = @ + 1] \in Calls
         /\ [c EXCEPT !.pc = "frame", !.k = @ + 1, !.chunk = 1, !.previous = c.ok] \in Calls
         /\ NnIdle(c) \in Calls
<1>1. NnIdle(c) \in Calls
  <2>1. c.calls \in Nat
    BY DEF Calls
  <2> QED
    BY <2>1 DEF NnIdle, NoCall, Calls, PCs
<1>2. "chunk" \in PCs /\ "predict" \in PCs /\ "frame" \in PCs
  BY DEF PCs, ChunkPCs
<1>3. c.copies + 1 \in Nat /\ c.chunk + 1 \in Nat /\ c.k + 1 \in Nat /\ c.ok \in BOOLEAN /\ 1 \in Nat /\ 2 \in Nat
  BY DEF Calls
<1>4. \A pc \in PCs : [c EXCEPT !.pc = pc] \in Calls
  BY DEF Calls
<1>5. \A pc \in PCs, b \in BOOLEAN :
        [c EXCEPT !.pc = pc, !.ok = b] \in Calls /\ [c EXCEPT !.pc = pc, !.triedCpu = b] \in Calls
  BY DEF Calls
<1>6. /\ \A b \in BOOLEAN : [c EXCEPT !.pc = "chunk", !.onGpu = b] \in Calls
      /\ \A x \in {"asked", "cpuOnly"} :
           [c EXCEPT !.pc = "predict", !.snap = x, !.triedCpu = FALSE] \in Calls
  BY <1>2 DEF Calls
<1>7. \A pc \in PCs, b \in BOOLEAN : [c EXCEPT !.copies = @ + 1, !.pc = pc, !.ok = b] \in Calls
  BY <1>3 DEF Calls
<1>8. [c EXCEPT !.pc = "frame", !.chunk = 2] \in Calls /\ [c EXCEPT !.pc = "chunk", !.chunk = @ + 1] \in Calls
  BY <1>2, <1>3 DEF Calls
<1>9. [c EXCEPT !.pc = "frame", !.k = @ + 1, !.chunk = 1, !.previous = c.ok] \in Calls
  BY <1>2, <1>3 DEF Calls
<1> QED
  BY <1>1, <1>4, <1>5, <1>6, <1>7, <1>8, <1>9

\* What a step does to one worker's part of the state, and leaves of the others'.
LEMMA StepOfOne ==
  ASSUME DecodeTypeOK, NEW w \in Workers, NEW r \in Calls, Step(w, r)
  PROVE  /\ work' \in [Workers -> Calls]
         /\ work'[w] = r /\ \A v \in Workers \ {w} : work'[v] = work[v]
BY DEF DecodeTypeOK, Step

LEMMA BuffersOfOne ==
  ASSUME DecodeTypeOK, NEW w \in Workers, NEW bufs,
         Typed(bufs),
         buffers' = [buffers EXCEPT ![w] = bufs]
  PROVE  /\ DOMAIN buffers' = Workers
         /\ \A v \in Workers : Typed(buffers'[v])
         /\ buffers'[w] = bufs /\ \A v \in Workers \ {w} : buffers'[v] = buffers[v]
BY DEF DecodeTypeOK

LEMMA AddedAt ==
  ASSUME NEW bufs, Typed(bufs),
         NEW k \in Nat, NEW tiles \in SUBSET Nat, NEW data \in Data, NEW f \in DOMAIN bufs
  PROVE  LET acc == Added(bufs, k, tiles, data)[f]
         IN  /\ acc \in Accumulators
             /\ acc.weight = bufs[f].weight \cup Pairs(k, tiles)
             /\ acc.chroma = bufs[f].chroma \cup Chromas(k, tiles, data)
<1> DEFINE b == bufs[f]
           acc == Coloured(Weighted(b, k, tiles), k, tiles, data)
<1>1. b \in Accumulators
  BY DEF Typed
<1>2. /\ acc \in Accumulators
      /\ acc.weight = b.weight \cup Pairs(k, tiles)
      /\ acc.chroma = b.chroma \cup Chromas(k, tiles, data)
  <2> HIDE DEF b
  <2>1. {<<k, n>> : n \in tiles} \subseteq Contributions
    BY DEF Contributions
  <2>2. Chromas(k, tiles, data) \subseteq Nat \X Nat \X Data
    BY DEF Chromas
  <2> QED
    BY <1>1, <2>1, <2>2 DEF Coloured, Weighted, Pairs, Chromas, Accumulators
<1>3. Added(bufs, k, tiles, data)[f] = acc
  BY DEF Added
<1> HIDE DEF acc
<1> QED
  BY <1>2, <1>3

AddsTo(new, bufs, k, tiles, data) ==
  /\ DOMAIN new = DOMAIN bufs
  /\ \A f \in DOMAIN bufs :
       /\ new[f].weight = bufs[f].weight \cup Pairs(k, tiles)
       /\ new[f].chroma = bufs[f].chroma \cup Chromas(k, tiles, data)

LEMMA AddedAdds ==
  ASSUME NEW bufs, Typed(bufs),
         NEW k \in Nat, NEW tiles \in SUBSET Nat, NEW data \in Data
  PROVE  AddsTo(Added(bufs, k, tiles, data), bufs, k, tiles, data)
<1> DEFINE new == Added(bufs, k, tiles, data)
<1>1. DOMAIN new = DOMAIN bufs
  BY DEF Added
<1>2. ASSUME NEW f \in DOMAIN bufs
      PROVE  /\ new[f].weight = bufs[f].weight \cup Pairs(k, tiles)
             /\ new[f].chroma = bufs[f].chroma \cup Chromas(k, tiles, data)
  BY AddedAt
<1> HIDE DEF new
<1>3. AddsTo(new, bufs, k, tiles, data)
  BY <1>1, <1>2 DEF AddsTo
<1> QED
  BY <1>3 DEF new

LEMMA AddedFacts ==
  ASSUME NEW bufs, Typed(bufs),
         NEW k \in Nat, NEW tiles \in SUBSET Nat, NEW data \in Data
  PROVE  /\ DOMAIN Added(bufs, k, tiles, data) = DOMAIN bufs
         /\ Typed(Added(bufs, k, tiles, data))
<1>1. DOMAIN Added(bufs, k, tiles, data) = DOMAIN bufs
  BY DEF Added
<1>2. \A f \in DOMAIN bufs : Added(bufs, k, tiles, data)[f] \in Accumulators
  BY AddedAt
<1>3. \A f \in DOMAIN bufs : f \in Nat
  BY DEF Typed
<1> HIDE DEF Added
<1> QED
  BY <1>1, <1>2, <1>3 DEF Typed

LEMMA TilesAreNumbers ==
  ASSUME NEW a \in Areas
  PROVE  /\ Tiles(a) \in SUBSET Nat
         /\ \A c : TilesOfChunk(a, c) \in SUBSET Tiles(a)
BY Geometry DEF Tiles, TilesOfChunk

\* An inference that succeeds adds its chunk, or its rows, and moves on.
LEMMA ContributeTypes ==
  ASSUME TypeOK, Placed, NEW w \in Workers, kind = Tiled, work[w].pc # "idle",
         NEW data \in Data, Contribute(w, data), NextChunk(w)
  PROVE  /\ work' \in [Workers -> Calls]
         /\ DOMAIN buffers' = Workers
         /\ \A v \in Workers : Typed(buffers'[v])
<1> DEFINE c == work[w]
           tiles == TilesOfChunk(c.area, c.chunk)
<1>1. c \in Calls /\ DecodeTypeOK /\ c.area \in Areas
  BY DEF TypeOK, DecodeTypeOK, Placed, InItsPipeline
<1>2. c.k \in Nat /\ c.chunk \in Nat
  BY <1>1 DEF Calls
<1>3. tiles \in SUBSET Nat
  BY <1>1, TilesAreNumbers
<1> HIDE DEF tiles
<1>4. Typed(buffers[w])
  BY <1>1 DEF DecodeTypeOK
<1>5. buffers' = [buffers EXCEPT ![w] = Added(buffers[w], c.k, tiles, data)]
  BY <1>1 DEF Contribute, tiles, DecodeTypeOK
<1>6. Typed(Added(buffers[w], c.k, tiles, data))
  BY <1>2, <1>3, <1>4, AddedFacts
<1>7. [c EXCEPT !.pc = "finish", !.ok = TRUE] \in Calls /\ [c EXCEPT !.pc = "chunk", !.chunk = @ + 1] \in Calls
  BY <1>1, CallUpdates DEF PCs
<1>8. work' \in [Workers -> Calls]
  BY <1>1, <1>7, StepOfOne DEF NextChunk
<1> QED
  BY <1>1, <1>5, <1>6, <1>8, BuffersOfOne

LEMMA DeliverRowsTypes ==
  ASSUME TypeOK, NEW w \in Workers, DeliverRows(w)
  PROVE  /\ work' \in [Workers -> Calls]
         /\ DOMAIN rows' = Workers /\ \A v \in Workers : DOMAIN rows'[v] = {"table", "frame"}
<1> DEFINE c == work[w]
<1>1. c \in Calls /\ DecodeTypeOK
  BY DEF TypeOK, DecodeTypeOK
<1>2. [c EXCEPT !.pc = "finish", !.ok = TRUE] \in Calls /\ [c EXCEPT !.pc = "frame", !.chunk = 2] \in Calls
  BY <1>1, CallUpdates DEF PCs
<1>3. \/ Step(w, [c EXCEPT !.pc = "finish", !.ok = TRUE])
      \/ Step(w, [c EXCEPT !.pc = "frame", !.chunk = 2])
  BY DEF DeliverRows
<1>4. work' \in [Workers -> Calls]
  BY <1>1, <1>2, <1>3, StepOfOne
<1>5. PICK t, f : rows' = [rows EXCEPT ![w] = [table |-> t, frame |-> f]]
  BY DEF DeliverRows
<1>6. DOMAIN rows' = Workers /\ \A v \in Workers : DOMAIN rows'[v] = {"table", "frame"}
  BY <1>1, <1>5 DEF DecodeTypeOK
<1> QED
  BY <1>4, <1>6

\* What an update of a call keeps of its type.
LEMMA TypesKept ==
  ASSUME IInv, NEW w \in Workers, WorkerNext(w)
  PROVE  TypeOK'
<1> DEFINE c == work[w]
<1>1. ModelTypeOK'
  <2>1. UNCHANGED modelVars
    BY WorkerKeepsTheModel
  <2> QED
    BY <2>1 DEF modelVars, ModelTypeOK, IInv, TypeOK
<1>2. DecodeTypeOK /\ InItsPipeline(w) /\ c \in Calls
  BY DEF IInv, TypeOK, Placed, DecodeTypeOK
<1>3. CASE StartCall(w)
  <2>1. PICK n \in 1 .. MaxBatch,
             a \in (IF kind = "nnTransform3D" THEN Areas ELSE {NoArea}),
             p \in (IF kind = "nnTransform3D" THEN {<<>>} ELSE FrameFields) :
          Step(w, [NoCall EXCEPT !.pc = "frame", !.frames = n, !.area = a, !.pair = p, !.chunk = 1,
                                 !.calls = c.calls + 1])
    BY <1>3 DEF StartCall
  <2>2. [NoCall EXCEPT !.pc = "frame", !.frames = n, !.area = a, !.pair = p, !.chunk = 1,
                       !.calls = c.calls + 1] \in Calls
    <3>1. n \in Nat /\ a \in Areas \cup {NoArea} /\ p \in FrameFields \cup {<<>>} /\ c.calls + 1 \in Nat
      BY <1>2 DEF Calls
    <3> HIDE DEF c
    <3> QED
      BY <3>1 DEF Calls, NoCall, PCs
  <2>3. work' \in [Workers -> Calls]
    BY <1>2, <2>1, <2>2 DEF Step, DecodeTypeOK
  <2>4. NoFrame \in Frames /\ DOMAIN <<>> = {}
    BY DEF NoFrame, Frames
  <2>5. /\ buffers' = [buffers EXCEPT ![w] = <<>>]
        /\ rows' = [rows EXCEPT ![w] = [table |-> [m \in FrameRows |-> Unmeasured], frame |-> NoRows]]
        /\ last' = [last EXCEPT ![w] = NoFrame]
        /\ UNCHANGED <<kind, threads, resident, engine, mps, device, faults>>
    BY <1>3 DEF StartCall
  <2>6. last' \in [Workers -> Frames] /\ DOMAIN rows' = Workers /\ DOMAIN buffers' = Workers
    BY <1>2, <2>4, <2>5 DEF DecodeTypeOK
  <2>7. \A v \in Workers : DOMAIN rows'[v] = {"table", "frame"}
    BY <1>2, <2>5 DEF DecodeTypeOK
  <2>8. \A v \in Workers : Typed(buffers'[v])
    BY <1>2, <2>4, <2>5 DEF DecodeTypeOK, Typed
  <2> QED
    BY <1>1, <1>2, <2>3, <2>5, <2>6, <2>7, <2>8 DEF TypeOK, DecodeTypeOK
<1>4. CASE BeginFrame(w)
  <2>1. c.pc = "frame" /\ c.k \in Nat /\ kind = Tiled
    BY <1>2, <1>4 DEF BeginFrame, At, Calls, Tiled
  <2>2. Buffer(w, c.k) \in Accumulators /\ Buffer(w, c.k + 1) \in Accumulators
    BY <1>2, <2>1 DEF Buffer, Empty, Accumulators, DecodeTypeOK, Typed
  <2>3. [c EXCEPT !.pc = Pipeline, !.chunk = 1, !.copies = 0, !.onGpu = resident, !.ok = FALSE] \in Calls
    <3>1. Pipeline \in PCs
      BY DEF Pipeline, PCs, ChunkPCs, GpuPCs
    <3> HIDE DEF c
    <3> QED
      BY <1>2, <3>1 DEF Calls, DecodeTypeOK
  <2> DEFINE both == [f \in {c.k, c.k + 1} |-> Buffer(w, f)]
  <2>4. /\ buffers' = [buffers EXCEPT ![w] = both]
        /\ work' = [work EXCEPT ![w] = [c EXCEPT !.pc = Pipeline, !.chunk = 1, !.copies = 0,
                                                 !.onGpu = resident, !.ok = FALSE]]
        /\ last' = [last EXCEPT ![w] = NoFrame]
        /\ UNCHANGED <<kind, threads, resident, engine, mps, device, rows, faults>>
    BY <1>4 DEF BeginFrame, Step
  <2>5. Typed(both)
    BY <2>1, <2>2 DEF Typed
  <2>6. NoFrame \in Frames
    BY DEF NoFrame, Frames
  <2> HIDE DEF both, c
  <2>7. \A v \in Workers : Typed(buffers'[v])
    BY <1>2, <2>4, <2>5 DEF DecodeTypeOK
  <2> QED
    BY <1>1, <1>2, <2>3, <2>4, <2>6, <2>7 DEF TypeOK, DecodeTypeOK
<1>5. CASE CpuBody(w)
  <2>1. PICK n \in 0 .. NumBlocks(c.area) :
          /\ buffers' = [buffers EXCEPT ![w] = Added(buffers[w], c.k, 1 .. n, Own(w))]
          /\ Step(w, [c EXCEPT !.pc = "finish", !.ok = (n = NumBlocks(c.area))])
          /\ NoFault \/ Fault
    BY <1>2, <1>5 DEF CpuBody, DecodeTypeOK
  <2>2. UNCHANGED <<kind, threads, resident, engine, mps, device, rows, last>>
    BY <1>5 DEF CpuBody
  <2>3. c.k \in Nat /\ Own(w) \in Data /\ 1 .. n \in SUBSET Nat
    BY <1>2 DEF Calls, Own, Data
  <2>4. [c EXCEPT !.pc = "finish", !.ok = (n = NumBlocks(c.area))] \in Calls
    BY <1>2, CallUpdates DEF PCs
  <2>5. work' \in [Workers -> Calls]
    BY <1>2, <2>1, <2>4, StepOfOne
  <2>6. Typed(buffers[w])
    BY <1>2 DEF DecodeTypeOK
  <2>7. Typed(Added(buffers[w], c.k, 1 .. n, Own(w)))
    BY <2>3, <2>6, AddedFacts
  <2>8. /\ DOMAIN buffers' = Workers
        /\ \A v \in Workers : Typed(buffers'[v])
    BY <1>2, <2>1, <2>7, BuffersOfOne
  <2> QED
    BY <1>1, <1>2, <2>1, <2>2, <2>5, <2>8 DEF TypeOK, DecodeTypeOK, Fault, NoFault
<1>6. CASE EnsureBatchCapacity(w) \/ EnsureWindows(w) \/ Batch(w)
  <2>1. /\ [c EXCEPT !.pc = "windows"] \in Calls /\ [c EXCEPT !.pc = "batch"] \in Calls
        /\ [c EXCEPT !.pc = "download"] \in Calls /\ [c EXCEPT !.pc = "finish", !.ok = FALSE] \in Calls
    BY <1>2, CallUpdates DEF PCs, GpuPCs
  <2>2. work' \in [Workers -> Calls]
    BY <1>2, <1>6, <2>1, StepOfOne DEF EnsureBatchCapacity, EnsureWindows, Batch, Failed
  <2>3. UNCHANGED <<kind, threads, resident, engine, mps, buffers, rows, last>> /\ faults' \in Nat
    BY <1>2, <1>6 DEF EnsureBatchCapacity, EnsureWindows, Batch, Fault, NoFault, DecodeTypeOK
  <2>4. c.pc \in GpuPCs
    BY <1>6 DEF EnsureBatchCapacity, EnsureWindows, Batch, At, GpuPCs
  <2>5. device' \in [Workers -> GpuCaches]
    <3>1. NumBlocks(c.area) \in Nat
      <4>1. kind = Tiled
        BY <1>2, <2>4 DEF InItsPipeline, RowPCs, GpuPCs
      <4> QED
        BY <1>2, <2>4, <4>1, Geometry DEF InItsPipeline, GpuPCs
    <3> DEFINE d == device[w]
    <3>2. d \in GpuCaches
      BY <1>2 DEF DecodeTypeOK
    <3>3. /\ [d EXCEPT !.blocks = NumBlocks(c.area), !.plans = TRUE, !.size = NumBlocks(c.area)] \in GpuCaches
          /\ [d EXCEPT !.plans = FALSE, !.size = 0] \in GpuCaches
          /\ [d EXCEPT !.windows = "filled"] \in GpuCaches /\ [d EXCEPT !.windows = "allocated"] \in GpuCaches
      <4> HIDE DEF d
      <4> QED
        BY <3>1, <3>2 DEF GpuCaches
    <3>4. device' = device \/ \E x \in GpuCaches : device' = [device EXCEPT ![w] = x]
      <4>1. \/ device' = device
            \/ device' = [device EXCEPT ![w] = [d EXCEPT !.blocks = NumBlocks(c.area), !.plans = TRUE, !.size = NumBlocks(c.area)]]
            \/ device' = [device EXCEPT ![w] = [d EXCEPT !.plans = FALSE, !.size = 0]]
            \/ device' = [device EXCEPT ![w] = [d EXCEPT !.windows = "filled"]]
            \/ device' = [device EXCEPT ![w] = [d EXCEPT !.windows = "allocated"]]
        BY <1>2, <1>6 DEF EnsureBatchCapacity, EnsureWindows, Batch, DecodeTypeOK
      <4> HIDE DEF d
      <4> QED
        BY <3>3, <4>1
    <3> QED
      BY <1>2, <3>4 DEF DecodeTypeOK
  <2> QED
    BY <1>1, <1>2, <2>2, <2>3, <2>5 DEF TypeOK, DecodeTypeOK
<1>7. CASE Download(w)
  <2>1. /\ [c EXCEPT !.copies = @ + 1, !.pc = IF c.copies = CopiesToMake - 1 THEN "finish" ELSE "download",
                     !.ok = (c.copies = CopiesToMake - 1)] \in Calls
        /\ [c EXCEPT !.pc = "finish", !.ok = FALSE] \in Calls
    BY <1>2, CallUpdates DEF PCs, GpuPCs
  <2>2. work' \in [Workers -> Calls]
    BY <1>2, <1>7, <2>1, StepOfOne DEF Download, Failed
  <2>3. UNCHANGED <<kind, threads, resident, engine, mps, device, rows, last>> /\ faults' \in Nat
    BY <1>2, <1>7 DEF Download, Fault, NoFault, DecodeTypeOK
  <2> DEFINE all == 1 .. NumBlocks(c.area)
             f == IF c.copies < 2 THEN c.k ELSE c.k + 1
             old == buffers[w][f]
             new == IF c.copies % 2 = 0 THEN Coloured(old, c.k, all, Own(w)) ELSE Weighted(old, c.k, all)
  <2>4. /\ DOMAIN buffers' = Workers
        /\ \A v \in Workers : Typed(buffers'[v])
    <3>1. CASE buffers' = buffers
      BY <1>2, <3>1 DEF DecodeTypeOK
    <3>2. CASE buffers' = Downloaded(w)
      <4>1. c.pc = "download" /\ kind = Tiled /\ DOMAIN buffers[w] = {c.k, c.k + 1}
        BY <1>2, <1>7 DEF Download, At, InItsPipeline, RowPCs
      <4>2. f \in DOMAIN buffers[w] /\ Typed(buffers[w]) /\ old \in Accumulators /\ f \in Nat
        BY <1>2, <4>1 DEF DecodeTypeOK, Typed
      <4>3. new \in Accumulators
        <5>1. Own(w) \in Data /\ c.k \in Nat /\ all \subseteq Nat
          BY <1>2 DEF Own, Data, Calls
        <5>2. /\ {<<c.k, n>> : n \in all} \subseteq Contributions
              /\ {<<c.k, n, Own(w)>> : n \in all} \subseteq Nat \X Nat \X Data
          BY <5>1 DEF Contributions
        <5> HIDE DEF old, all, c
        <5> QED
          BY <4>2, <5>2 DEF Accumulators, Coloured, Weighted
      <4>4. buffers' = [buffers EXCEPT ![w] = [buffers[w] EXCEPT ![f] = new]]
        BY <1>2, <3>2, <4>2 DEF Downloaded, DecodeTypeOK
      <4> HIDE DEF f, new
      <4>5. Typed([buffers[w] EXCEPT ![f] = new])
        BY <4>2, <4>3 DEF Typed
      <4> QED
        BY <1>2, <4>4, <4>5, BuffersOfOne
    <3> QED
      BY <1>7, <3>1, <3>2 DEF Download
  <2> QED
    BY <1>1, <1>2, <2>2, <2>3, <2>4 DEF TypeOK, DecodeTypeOK
<1>8. CASE Upload(w) \/ ForwardFFT(w) \/ PredictResident(w) \/ InverseFFT(w)
  <2>1. /\ \A pc \in PCs : [c EXCEPT !.pc = pc] \in Calls
        /\ [c EXCEPT !.pc = "chunk", !.onGpu = FALSE] \in Calls
        /\ {"forward", "mask", "inverse", "fetch"} \subseteq PCs
    BY <1>2, CallUpdates DEF PCs, ChunkPCs
  <2>2. work' \in [Workers -> Calls]
    BY <1>2, <1>8, <2>1, StepOfOne DEF Upload, ForwardFFT, PredictResident, InverseFFT, ResidentStep,
                                       AfterResidentFailure
  <2>3. /\ UNCHANGED <<kind, threads, resident, engine, buffers, device, rows, last>> /\ faults' \in Nat
    BY <1>2, <1>8 DEF Upload, ForwardFFT, PredictResident, InverseFFT, ResidentStep, AfterResidentFailure,
                      Fault, NoFault, DecodeTypeOK
  <2>4. mps' \in [tiles : Data, spectrum : Data, mask : Data, result : Data]
    <3>1. Own(w) \in Data /\ NoData \in Data
      BY <1>2 DEF Own, Data, Calls, NoData
    <3>2. mps \in [tiles : Data, spectrum : Data, mask : Data, result : Data]
      BY <1>2 DEF DecodeTypeOK
    <3>3. \/ mps' = mps
          \/ \E x \in Data : \/ mps' = [mps EXCEPT !.tiles = x]
                             \/ mps' = [mps EXCEPT !.spectrum = x]
                             \/ mps' = [mps EXCEPT !.mask = x]
                             \/ mps' = [mps EXCEPT !.result = x]
      <4>1. mps.tiles \in Data /\ mps.spectrum \in Data
        BY <3>2
      <4> QED
        BY <1>8, <3>1, <4>1 DEF Upload, ForwardFFT, PredictResident, InverseFFT, ResidentStep
    <3> QED
      BY <3>2, <3>3
  <2> QED
    BY <1>1, <1>2, <2>2, <2>3, <2>4 DEF TypeOK, DecodeTypeOK
<1>9. CASE DownloadIfft(w)
  <2>1. kind = Tiled /\ c.pc # "idle"
    BY <1>2, <1>9 DEF DownloadIfft, At, InItsPipeline, RowPCs
  <2>2. mps.result \in Data
    BY <1>2 DEF DecodeTypeOK
  <2>3. TypeOK /\ Placed
    BY DEF IInv
  <2>4. /\ work' \in [Workers -> Calls]
        /\ DOMAIN buffers' = Workers
        /\ \A v \in Workers : Typed(buffers'[v])
    BY <1>9, <2>1, <2>2, <2>3, ContributeTypes DEF DownloadIfft
  <2> QED
    BY <1>1, <1>2, <1>9, <2>4 DEF DownloadIfft, TypeOK, DecodeTypeOK
<1>10. CASE SnapshotModel(w) \/ InferenceThrows(w)
  <2>1. /\ [c EXCEPT !.pc = "predict", !.snap = engine, !.triedCpu = FALSE] \in Calls
        /\ [c EXCEPT !.pc = "finish", !.ok = FALSE] \in Calls
        /\ NnIdle(c) \in Calls
    BY <1>2, CallUpdates DEF PCs, DecodeTypeOK
  <2>2. work' \in [Workers -> Calls]
    BY <1>2, <1>10, <2>1, StepOfOne DEF SnapshotModel, InferenceThrows, Failed
  <2> QED
    BY <1>1, <1>2, <1>10, <2>2 DEF SnapshotModel, InferenceThrows, TypeOK, DecodeTypeOK
<1>11. CASE Predict(w) \/ FallBackToCpu(w) \/ RunSession(w)
  <2>1. /\ UNCHANGED <<kind, threads, resident, mps, device, last>> /\ faults' \in Nat
        /\ engine' \in {"asked", "cpuOnly"} /\ c.pc # "idle"
    <3>1. UNCHANGED <<kind, threads, resident, mps, device, last>>
      BY <1>11 DEF Predict, FallBackToCpu, RunSession
    <3>2. faults' \in Nat
      <4>1. NoFault \/ Fault
        BY <1>11 DEF Predict, FallBackToCpu, RunSession
      <4> QED
        BY <1>2, <4>1 DEF Fault, NoFault, DecodeTypeOK
    <3>3. engine' \in {"asked", "cpuOnly"}
      BY <1>2, <1>11 DEF Predict, FallBackToCpu, RunSession, DecodeTypeOK
    <3>4. c.pc # "idle"
      BY <1>11 DEF Predict, FallBackToCpu, RunSession, At
    <3> QED
      BY <3>1, <3>2, <3>3, <3>4
  <2>2. /\ work' \in [Workers -> Calls]
        /\ DOMAIN buffers' = Workers /\ \A v \in Workers : Typed(buffers'[v])
        /\ DOMAIN rows' = Workers /\ \A v \in Workers : DOMAIN rows'[v] = {"table", "frame"}
    <3>1. CASE kind = Tiled /\ Deliver(w)
      <4>1. Own(w) \in Data
        BY <1>2 DEF Own, Data, Calls
      <4>2. Contribute(w, Own(w)) /\ NextChunk(w) /\ UNCHANGED rows
        BY <3>1 DEF Deliver, Tiled
      <4>3. TypeOK /\ Placed
        BY DEF IInv
      <4> QED
        BY <1>2, <2>1, <3>1, <4>1, <4>2, <4>3, ContributeTypes DEF DecodeTypeOK
    <3>2. CASE DeliverRows(w) /\ UNCHANGED buffers
      <4>1. TypeOK
        BY DEF IInv
      <4> QED
        BY <1>2, <3>2, <4>1, DeliverRowsTypes DEF DecodeTypeOK
    <3>3. CASE (\E b \in BOOLEAN : GivesUp(w, b)) \/ (Step(w, [c EXCEPT !.pc = "fallback"]) /\ UNCHANGED <<buffers, rows>>)
      <4>1. /\ \A b \in BOOLEAN : [c EXCEPT !.pc = "gaveUp", !.triedCpu = b] \in Calls
            /\ [c EXCEPT !.pc = "fallback"] \in Calls
        BY <1>2, CallUpdates DEF PCs, ChunkPCs
      <4>2. work' \in [Workers -> Calls] /\ UNCHANGED <<buffers, rows>>
        BY <1>2, <3>3, <4>1, StepOfOne DEF GivesUp
      <4> QED
        BY <1>2, <4>2 DEF DecodeTypeOK
    <3>4. (work[w].snap = "cpuOnly") \in BOOLEAN
      OBVIOUS
    <3> QED
      BY <1>11, <3>1, <3>2, <3>3, <3>4 DEF Predict, FallBackToCpu, RunSession, Deliver, Tiled
  <2> QED
    BY <1>1, <1>2, <2>1, <2>2 DEF TypeOK, DecodeTypeOK
<1>12. CASE Finish(w)
  <2>1. /\ [c EXCEPT !.pc = "frame", !.k = @ + 1, !.chunk = 1, !.previous = c.ok] \in Calls
        /\ NnIdle(c) \in Calls
    BY <1>2, CallUpdates
  <2>2. work' \in [Workers -> Calls]
    BY <1>2, <1>12, <2>1, StepOfOne DEF Finish
  <2>3. UNCHANGED <<kind, threads, resident, engine, mps, device, rows, faults>>
    BY <1>12 DEF Finish
  <2> DEFINE bufs == [f \in DOMAIN buffers[w] \ {c.k} |-> buffers[w][f]]
  <2>4. Typed(bufs) /\ buffers' = [buffers EXCEPT ![w] = bufs]
    BY <1>2, <1>12 DEF Finish, Typed, DecodeTypeOK
  <2>5. DOMAIN buffers' = Workers /\ \A v \in Workers : Typed(buffers'[v])
    BY <1>2, <2>4, BuffersOfOne
  <2>6. last' \in [Workers -> Frames]
    <3>1. CASE kind # "nnTransform3D"
      <4>1. [NoFrame EXCEPT !.kind = "rows", !.k = c.k] \in Frames
        <5>1. c.k \in Nat
          BY <1>2 DEF Calls
        <5> HIDE DEF c
        <5> QED
          BY <5>1 DEF NoFrame, Frames
      <4> QED
        BY <1>2, <1>12, <3>1, <4>1 DEF Finish, DecodeTypeOK
    <3>2. CASE kind = "nnTransform3D"
      <4> DEFINE shown == [kind |-> IF c.ok THEN "nn" ELSE "2d", k |-> c.k, area |-> c.area,
                           chroma |-> buffers[w][c.k].chroma, weight |-> buffers[w][c.k].weight,
                           previous |-> c.previous]
      <4>1. last' = [last EXCEPT ![w] = shown]
        BY <1>12, <3>2 DEF Finish
      <4>2. c.k \in DOMAIN buffers[w] /\ Typed(buffers[w])
        BY <1>2, <1>12, <3>2 DEF Finish, At, InItsPipeline, Tiled, DecodeTypeOK
      <4>3. buffers[w][c.k] \in Accumulators
        BY <4>2 DEF Typed
      <4>4. shown \in Frames
        <5>1. /\ c.k \in Nat /\ c.area \in Areas \cup {NoArea} /\ c.previous \in BOOLEAN
              /\ buffers[w][c.k].chroma \in SUBSET (Nat \X Nat \X Data)
              /\ buffers[w][c.k].weight \in SUBSET Contributions
          BY <1>2, <4>3 DEF Calls, Accumulators
        <5> HIDE DEF c
        <5> QED
          BY <5>1 DEF Frames
      <4> HIDE DEF shown
      <4> QED
        BY <1>2, <4>1, <4>4 DEF DecodeTypeOK
    <3> QED
      BY <3>1, <3>2
  <2> QED
    BY <1>1, <1>2, <2>2, <2>3, <2>5, <2>6 DEF TypeOK, DecodeTypeOK
<1> QED
  BY <1>3, <1>4, <1>5, <1>6, <1>7, <1>8, <1>9, <1>10, <1>11, <1>12 DEF WorkerNext

\* A step of one worker leaves the others' part of the state alone.
LEMMA OthersKept ==
  ASSUME DecodeTypeOK, NEW w \in Workers, WorkerNext(w), NEW v \in Workers \ {w}
  PROVE  /\ work'[v] = work[v] /\ buffers'[v] = buffers[v] /\ device'[v] = device[v]
         /\ rows'[v] = rows[v] /\ last'[v] = last[v]
<1>1. \E r : Step(w, r)
  BY DEF WorkerNext, StartCall, BeginFrame, CpuBody, Finish, EnsureBatchCapacity, EnsureWindows,
         Batch, Download, Failed, Upload, ForwardFFT, PredictResident, InverseFFT, ResidentStep,
         AfterResidentFailure, DownloadIfft, NextChunk, SnapshotModel, Predict, Deliver, DeliverRows,
         FallBackToCpu, GivesUp, InferenceThrows, RunSession
<1>2. work'[v] = work[v]
  BY <1>1 DEF Step, DecodeTypeOK
<1>3. buffers' = buffers \/ \E b : buffers' = [buffers EXCEPT ![w] = b]
  <2>1. CASE Download(w)
    <3>1. buffers' = buffers \/ buffers' = Downloaded(w)
      BY <2>1 DEF Download
    <3> QED
      BY <3>1 DEF Downloaded
  <2>2. CASE StartCall(w) \/ BeginFrame(w) \/ CpuBody(w) \/ Finish(w)
    BY <2>2 DEF StartCall, BeginFrame, CpuBody, Finish
  <2>3. CASE EnsureBatchCapacity(w) \/ EnsureWindows(w) \/ Batch(w) \/ Upload(w) \/ ForwardFFT(w)
             \/ PredictResident(w) \/ InverseFFT(w) \/ SnapshotModel(w) \/ InferenceThrows(w)
    BY <2>3 DEF EnsureBatchCapacity, EnsureWindows, Batch, Upload, ForwardFFT, PredictResident,
                InverseFFT, ResidentStep, AfterResidentFailure, SnapshotModel, InferenceThrows
  <2>4. CASE DownloadIfft(w) \/ Predict(w) \/ FallBackToCpu(w) \/ RunSession(w)
    BY <2>4 DEF DownloadIfft, Contribute, Predict, FallBackToCpu, RunSession, Deliver, GivesUp
  <2> QED
    BY <2>1, <2>2, <2>3, <2>4 DEF WorkerNext
<1>4. /\ rows' = rows \/ \E b : rows' = [rows EXCEPT ![w] = b]
      /\ last' = last \/ \E b : last' = [last EXCEPT ![w] = b]
  BY DEF WorkerNext, StartCall, BeginFrame, CpuBody, Finish, EnsureBatchCapacity, EnsureWindows,
         Batch, Download, Upload, ForwardFFT, PredictResident, InverseFFT, ResidentStep,
         DownloadIfft, SnapshotModel, Predict, Deliver, DeliverRows,
         FallBackToCpu, GivesUp, InferenceThrows, RunSession
<1>5. device' = device \/ \E b : device' = [device EXCEPT ![w] = b]
  <2>1. CASE EnsureBatchCapacity(w) \/ EnsureWindows(w)
    BY <2>1 DEF EnsureBatchCapacity, EnsureWindows
  <2>2. CASE ~(EnsureBatchCapacity(w) \/ EnsureWindows(w))
    BY <2>2 DEF WorkerNext, StartCall, BeginFrame, CpuBody, Finish,
         Batch, Download, Upload, ForwardFFT, PredictResident, InverseFFT, ResidentStep,
         DownloadIfft, SnapshotModel, Predict, FallBackToCpu, InferenceThrows, RunSession
  <2> QED
    BY <2>1, <2>2
<1> QED
  BY <1>2, <1>3, <1>4, <1>5 DEF DecodeTypeOK

\* Where a successful inference leads.
LEMMA AfterInference ==
  ASSUME TypeOK, Placed, NEW w \in Workers, kind = Tiled, work[w].pc # "idle",
         NEW data \in Data, Contribute(w, data), NextChunk(w)
  PROVE  LET c == work[w]
         IN  /\ work'[w] = IF c.chunk = ChunksOf(c.area)
                             THEN [c EXCEPT !.pc = "finish", !.ok = TRUE]
                             ELSE [c EXCEPT !.pc = "chunk", !.chunk = @ + 1]
             /\ buffers'[w] = Added(buffers[w], c.k, TilesOfChunk(c.area, c.chunk), data)
             /\ DOMAIN buffers'[w] = DOMAIN buffers[w]
<1> DEFINE c == work[w]
<1>1. w \in DOMAIN work /\ w \in DOMAIN buffers
  BY DEF TypeOK, DecodeTypeOK
<1>2. work'[w] = IF c.chunk = ChunksOf(c.area)
                   THEN [c EXCEPT !.pc = "finish", !.ok = TRUE]
                   ELSE [c EXCEPT !.pc = "chunk", !.chunk = @ + 1]
  BY <1>1 DEF NextChunk, Step
<1>3. buffers'[w] = Added(buffers[w], c.k, TilesOfChunk(c.area, c.chunk), data)
  BY <1>1 DEF Contribute
<1>4. DOMAIN Added(buffers[w], c.k, TilesOfChunk(c.area, c.chunk), data) = DOMAIN buffers[w]
  BY DEF Added
<1> QED
  BY <1>2, <1>3, <1>4

\* Where a field's rows, or a frame's, lead.
LEMMA AfterRows ==
  ASSUME TypeOK, NEW w \in Workers, DeliverRows(w), work[w].chunk \in {1, 2}
  PROVE  LET c == work[w]
         IN  IF PerField(kind) /\ c.chunk = 1
               THEN work'[w] = [c EXCEPT !.pc = "frame", !.chunk = 2]
               ELSE work'[w] = [c EXCEPT !.pc = "finish", !.ok = TRUE]
<1> DEFINE c == work[w]
<1>1. w \in DOMAIN work
  BY DEF TypeOK, DecodeTypeOK
<1>2. 2 \in (IF PerField(kind) THEN {c.chunk} ELSE {1, 2}) <=> ~(PerField(kind) /\ c.chunk = 1)
  OBVIOUS
<1>3. work'[w] = IF 2 \in (IF PerField(kind) THEN {c.chunk} ELSE {1, 2})
                   THEN [c EXCEPT !.pc = "finish", !.ok = TRUE]
                   ELSE [c EXCEPT !.pc = "frame", !.chunk = 2]
  BY <1>1 DEF DeliverRows, Step
<1> QED
  BY <1>2, <1>3

LEMMA PlacedStep ==
  ASSUME IInv, NEW w \in Workers, WorkerNext(w)
  PROVE  Placed'
<1> DEFINE c == work[w]
           d == work'[w]
<1>1. DecodeTypeOK /\ InItsPipeline(w) /\ c \in Calls /\ kind \in Kinds
  BY WorkerKeepsTheModel DEF IInv, TypeOK, Placed, DecodeTypeOK
<1>2. UNCHANGED <<modelStatus, active, kind, threads, resident>> /\ modelStatus = "bound"
  BY WorkerKeepsTheModel DEF modelVars
<1>3. \A v \in Workers \ {w} : InItsPipeline(v)'
  <2> TAKE v \in Workers \ {w}
  <2>1. work'[v] = work[v] /\ buffers'[v] = buffers[v]
    BY <1>1, OthersKept
  <2>2. InItsPipeline(v)
    BY DEF IInv, Placed
  <2> QED
    BY <1>2, <2>1, <2>2 DEF InItsPipeline
<1>4. InItsPipeline(w)'
  <2>1. CASE StartCall(w)
    <3>1. PICK n \in 1 .. MaxBatch,
               a \in (IF kind = "nnTransform3D" THEN Areas ELSE {NoArea}),
               p \in (IF kind = "nnTransform3D" THEN {<<>>} ELSE FrameFields) :
            Step(w, [NoCall EXCEPT !.pc = "frame", !.frames = n, !.area = a, !.pair = p, !.chunk = 1,
                                   !.calls = c.calls + 1])
      BY <2>1 DEF StartCall
    <3>2. d.pc = "frame" /\ d.area = a /\ d.pair = p /\ d.chunk = 1 /\ d.onGpu = FALSE
      BY <1>1, <3>1 DEF Step, DecodeTypeOK, NoCall
    <3>3. DOMAIN buffers'[w] = {} /\ w \in threads
      BY <1>1, <2>1 DEF StartCall, DecodeTypeOK
    <3> QED
      BY <1>1, <1>2, <3>2, <3>3 DEF InItsPipeline, Tiled, RowPCs, ChunkPCs, GpuPCs
  <2>2. CASE BeginFrame(w)
    <3>1. d = [c EXCEPT !.pc = Pipeline, !.chunk = 1, !.copies = 0, !.onGpu = resident, !.ok = FALSE]
      BY <1>1, <2>2 DEF BeginFrame, Step, DecodeTypeOK
    <3>2. /\ d.pc = Pipeline /\ d.chunk = 1 /\ d.copies = 0 /\ d.onGpu = resident
          /\ d.area = c.area /\ d.k = c.k
      BY <1>1, <3>1 DEF Calls
    <3>3. DOMAIN buffers'[w] = {c.k, c.k + 1} /\ kind = Tiled /\ c.pc = "frame"
      BY <1>1, <2>2 DEF BeginFrame, At, Tiled, DecodeTypeOK
    <3>4. c.area \in Areas /\ w \in threads /\ 1 \in 1 .. ChunksOf(c.area)
      BY <1>1, <3>3, Geometry DEF InItsPipeline
    <3>5. /\ Pipeline \in {"chunk", "cache", "cpu"}
          /\ Pipeline = "chunk" => active = "COREML"
          /\ Pipeline = "cpu" => active # "COREML"
          /\ Pipeline = "cache" => active \notin {"COREML", "ORT_CPU"}
      BY DEF Pipeline
    <3> QED
      BY <1>1, <1>2, <3>2, <3>3, <3>4, <3>5 DEF InItsPipeline, ChunkPCs, GpuPCs
  <2>3. CASE CpuBody(w)
    <3>1. /\ c.pc = "cpu" /\ kind = Tiled
          /\ \E n \in 0 .. NumBlocks(c.area) :
               /\ d = [c EXCEPT !.pc = "finish", !.ok = (n = NumBlocks(c.area))]
               /\ buffers'[w] = Added(buffers[w], c.k, 1 .. n, Own(w))
      BY <1>1, <2>3 DEF CpuBody, At, Tiled, Step, DecodeTypeOK
    <3>2. d.pc = "finish" /\ d.area = c.area /\ d.k = c.k /\ d.onGpu = c.onGpu
      BY <1>1, <3>1 DEF Calls
    <3>3. DOMAIN buffers'[w] = DOMAIN buffers[w]
      BY <3>1 DEF Added
    <3> QED
      BY <1>1, <1>2, <3>1, <3>2, <3>3 DEF InItsPipeline, ChunkPCs, GpuPCs
  <2>4. CASE EnsureBatchCapacity(w) \/ EnsureWindows(w) \/ Batch(w)
             \/ (At(w, "download") /\ Failed(w) /\ UNCHANGED buffers)
    <3>1. c.pc \in GpuPCs /\ kind = Tiled
      BY <1>1, <2>4 DEF EnsureBatchCapacity, EnsureWindows, Batch, At, GpuPCs, InItsPipeline, RowPCs
    <3>2. \/ \E pc \in {"windows", "batch", "download"} :
               (pc = "download" => c.pc = "batch") /\ d = [c EXCEPT !.pc = pc]
          \/ d = [c EXCEPT !.pc = "finish", !.ok = FALSE]
      BY <1>1, <2>4 DEF EnsureBatchCapacity, EnsureWindows, Batch, Failed, Step, At, DecodeTypeOK
    <3>3. /\ d.area = c.area /\ d.k = c.k /\ d.onGpu = c.onGpu /\ d.copies = c.copies
          /\ d.pc \in {"windows", "batch", "download", "finish"}
          /\ d.pc = "download" => c.pc = "batch"
          /\ c.pc # "download" \/ d.pc = "finish"
      <4>1. c.pc # "download" \/ d = [c EXCEPT !.pc = "finish", !.ok = FALSE]
        BY <1>1, <2>4 DEF EnsureBatchCapacity, EnsureWindows, Batch, Failed, Step, At, DecodeTypeOK
      <4> QED
        BY <1>1, <3>2, <4>1 DEF Calls
    <3>4. DOMAIN buffers'[w] = DOMAIN buffers[w]
      <4>1. buffers' = buffers
        BY <1>1, <2>4 DEF EnsureBatchCapacity, EnsureWindows, Batch
      <4> QED
        BY <4>1
    <3>5. c.copies = 0 \/ c.pc = "download"
      BY <1>1, <3>1 DEF InItsPipeline, GpuPCs
    <3> QED
      BY <1>1, <1>2, <3>1, <3>3, <3>4, <3>5 DEF InItsPipeline, ChunkPCs, GpuPCs
  <2>5. CASE /\ At(w, "download")
             /\ buffers' = Downloaded(w)
             /\ Step(w, [c EXCEPT !.copies = @ + 1,
                                  !.pc = IF c.copies = CopiesToMake - 1 THEN "finish" ELSE "download",
                                  !.ok = (c.copies = CopiesToMake - 1)])
    <3>1. c.pc = "download" /\ kind = Tiled
      BY <1>1, <2>5 DEF At, GpuPCs, InItsPipeline, RowPCs
    <3>2. d = [c EXCEPT !.copies = @ + 1, !.pc = IF c.copies = CopiesToMake - 1 THEN "finish" ELSE "download",
                        !.ok = (c.copies = CopiesToMake - 1)]
      BY <1>1, <2>5 DEF Step, DecodeTypeOK
    <3>3. /\ d.area = c.area /\ d.k = c.k /\ d.onGpu = c.onGpu /\ d.copies = c.copies + 1
          /\ d.pc = IF c.copies = 3 THEN "finish" ELSE "download"
      BY <1>1, <3>2 DEF Calls, CopiesToMake
    <3>4. DOMAIN buffers'[w] = DOMAIN buffers[w]
      BY <1>1, <2>5 DEF Downloaded, DecodeTypeOK
    <3>5. c.copies \in 0 .. 3
      BY <1>1, <3>1 DEF InItsPipeline
    <3> QED
      BY <1>1, <1>2, <3>1, <3>3, <3>4, <3>5 DEF InItsPipeline, ChunkPCs, GpuPCs
  <2>6. CASE Upload(w) \/ ForwardFFT(w) \/ PredictResident(w) \/ InverseFFT(w)
    <3>1. /\ c.pc \in {"chunk", "forward", "mask", "inverse"} /\ c.onGpu
          /\ buffers' = buffers
          /\ \/ \E pc \in {"forward", "mask", "inverse", "fetch"} : d = [c EXCEPT !.pc = pc]
             \/ d = [c EXCEPT !.pc = "chunk", !.onGpu = FALSE]
      BY <1>1, <2>6 DEF Upload, ForwardFFT, PredictResident, InverseFFT, ResidentStep, AfterResidentFailure,
                        At, Step, DecodeTypeOK, InItsPipeline
    <3>2. kind = Tiled
      BY <1>1, <3>1 DEF InItsPipeline, RowPCs
    <3>3. /\ d.area = c.area /\ d.k = c.k /\ d.chunk = c.chunk
          /\ (d.pc \in {"forward", "mask", "inverse", "fetch"} /\ d.onGpu) \/ (d.pc = "chunk" /\ ~d.onGpu)
      <4>1. ASSUME NEW pc \in {"forward", "mask", "inverse", "fetch"}, d = [c EXCEPT !.pc = pc]
            PROVE  d.area = c.area /\ d.k = c.k /\ d.chunk = c.chunk /\ d.pc = pc /\ d.onGpu = c.onGpu
        BY <1>1, <4>1 DEF Calls
      <4>2. ASSUME d = [c EXCEPT !.pc = "chunk", !.onGpu = FALSE]
            PROVE  d.area = c.area /\ d.k = c.k /\ d.chunk = c.chunk /\ d.pc = "chunk" /\ d.onGpu = FALSE
        BY <1>1, <4>2 DEF Calls
      <4> QED
        BY <3>1, <4>1, <4>2
    <3> QED
      BY <1>1, <1>2, <3>1, <3>2, <3>3 DEF InItsPipeline, ChunkPCs, GpuPCs
  <2>7. ASSUME NEW data \in Data, kind = Tiled, c.pc \in ChunkPCs, Contribute(w, data), NextChunk(w)
        PROVE  InItsPipeline(w)'
    <3>1. /\ d = IF c.chunk = ChunksOf(c.area) THEN [c EXCEPT !.pc = "finish", !.ok = TRUE]
                                               ELSE [c EXCEPT !.pc = "chunk", !.chunk = @ + 1]
          /\ DOMAIN buffers'[w] = DOMAIN buffers[w]
      BY <2>7, AfterInference DEF IInv, ChunkPCs
    <3>2. /\ d.area = c.area /\ d.k = c.k /\ d.onGpu = c.onGpu
          /\ \/ d.pc = "finish"
             \/ d.pc = "chunk" /\ d.chunk = c.chunk + 1 /\ c.chunk # ChunksOf(c.area)
      BY <1>1, <3>1 DEF Calls
    <3>3. c.chunk \in 1 .. ChunksOf(c.area) /\ ChunksOf(c.area) \in Nat
      BY <1>1, <2>7, Geometry DEF InItsPipeline, ChunkPCs
    <3> QED
      BY <1>1, <1>2, <2>7, <3>1, <3>2, <3>3 DEF InItsPipeline, ChunkPCs, GpuPCs
  <2>8. CASE DownloadIfft(w)
    <3>1. kind = Tiled /\ c.pc \in ChunkPCs /\ mps.result \in Data
      BY <1>1, <2>8 DEF DownloadIfft, At, InItsPipeline, RowPCs, ChunkPCs, DecodeTypeOK
    <3> QED
      BY <2>7, <2>8, <3>1 DEF DownloadIfft
  <2>9. CASE SnapshotModel(w) \/ InferenceThrows(w)
    <3>1. \/ /\ d = [c EXCEPT !.pc = "predict", !.snap = engine, !.triedCpu = FALSE]
             /\ active = "COREML"
             /\ \/ c.pc = "chunk" /\ kind = Tiled
                \/ c.pc = "frame" /\ kind # Tiled
          \/ c.pc = "gaveUp" /\ kind = Tiled /\ d = [c EXCEPT !.pc = "finish", !.ok = FALSE]
          \/ kind # Tiled /\ d = NnIdle(c)
      BY <1>1, <2>9 DEF SnapshotModel, InferencePoint, InferenceThrows, Failed, At, Step, DecodeTypeOK, Tiled,
                        InItsPipeline, RowPCs
    <3>2. buffers' = buffers
      BY <2>9 DEF SnapshotModel, InferenceThrows
    <3>3. \/ d.pc = "idle"
          \/ /\ d.area = c.area /\ d.k = c.k /\ d.onGpu = c.onGpu /\ d.chunk = c.chunk /\ d.pair = c.pair
             /\ \/ /\ d.pc = "predict" /\ active = "COREML"
                   /\ (c.pc = "chunk" /\ kind = Tiled) \/ (c.pc = "frame" /\ kind # Tiled)
                \/ d.pc = "finish" /\ c.pc = "gaveUp" /\ kind = Tiled
      BY <1>1, <3>1 DEF Calls, NnIdle, NoCall
    <3> QED
      BY <1>1, <1>2, <3>2, <3>3 DEF InItsPipeline, ChunkPCs, GpuPCs, RowPCs
  <2>10. ASSUME kind # Tiled, c.pc # "idle", DeliverRows(w)
         PROVE  InItsPipeline(w)'
    <3>1. c.chunk \in {1, 2} /\ (c.chunk = 2 => PerField(kind))
      BY <1>1, <2>10 DEF InItsPipeline
    <3>2. d = IF PerField(kind) /\ c.chunk = 1 THEN [c EXCEPT !.pc = "frame", !.chunk = 2]
                                               ELSE [c EXCEPT !.pc = "finish", !.ok = TRUE]
      BY <2>10, <3>1, AfterRows DEF IInv
    <3>3. /\ d.pair = c.pair /\ d.onGpu = c.onGpu /\ d.pc \in {"frame", "finish"}
          /\ d.chunk \in {1, 2} /\ (d.chunk = 2 => PerField(kind))
      BY <1>1, <3>1, <3>2 DEF Calls
    <3> QED
      BY <1>1, <1>2, <2>10, <3>3 DEF InItsPipeline, ChunkPCs, GpuPCs, RowPCs
  <2>11. CASE Predict(w) \/ FallBackToCpu(w) \/ RunSession(w)
    <3>1. c.pc # "idle" /\ (kind = Tiled => c.pc \in {"predict", "fallback"})
      BY <2>11 DEF Predict, FallBackToCpu, RunSession, At, Tiled
    <3>2. CASE Deliver(w) /\ kind = Tiled
      <4>1. Own(w) \in Data
        BY <1>1 DEF Own, Data, Calls
      <4>2. Contribute(w, Own(w)) /\ NextChunk(w)
        BY <3>2 DEF Deliver, Tiled
      <4> QED
        BY <2>7, <3>1, <3>2, <4>1, <4>2 DEF ChunkPCs
    <3>3. CASE DeliverRows(w) /\ kind # Tiled
      BY <2>10, <3>1, <3>3
    <3>4. CASE /\ \/ d = [c EXCEPT !.pc = "fallback"] /\ c.pc = "predict"
                  \/ \E b : d = [c EXCEPT !.pc = "gaveUp", !.triedCpu = b]
               /\ buffers' = buffers
      <4>1. /\ d.area = c.area /\ d.k = c.k /\ d.onGpu = c.onGpu /\ d.chunk = c.chunk /\ d.pair = c.pair
            /\ (d.pc = "fallback" /\ c.pc = "predict") \/ d.pc = "gaveUp"
        BY <1>1, <3>4 DEF Calls
      <4> QED
        BY <1>1, <1>2, <3>1, <3>4, <4>1 DEF InItsPipeline, ChunkPCs, GpuPCs, RowPCs
    <3> QED
      BY <1>1, <2>11, <3>2, <3>3, <3>4 DEF Predict, FallBackToCpu, RunSession, Deliver, GivesUp, Step, At, Tiled,
                                           DecodeTypeOK
  <2>12. CASE Finish(w)
    <3>1. /\ c.pc = "finish"
          /\ \/ d = NnIdle(c)
             \/ d = [c EXCEPT !.pc = "frame", !.k = @ + 1, !.chunk = 1, !.previous = c.ok]
          /\ DOMAIN buffers'[w] = DOMAIN buffers[w] \ {c.k}
      BY <1>1, <2>12 DEF Finish, At, Step, DecodeTypeOK
    <3>2. \/ d.pc = "idle"
          \/ /\ d.pc = "frame" /\ d.area = c.area /\ d.k = c.k + 1 /\ d.onGpu = c.onGpu /\ d.chunk = 1
             /\ d.pair = c.pair
      BY ZenonT(60), <1>1, <3>1 DEF Calls, NnIdle, NoCall
    <3> QED
      BY <1>1, <1>2, <3>1, <3>2 DEF InItsPipeline, ChunkPCs, GpuPCs, RowPCs
  <2> QED
    BY <2>1, <2>2, <2>3, <2>4, <2>5, <2>6, <2>8, <2>9, <2>11, <2>12 DEF WorkerNext, Download
<1> QED
  BY <1>2, <1>1, <1>3, <1>4 DEF Placed

-----------------------------------------------------------------------------
\* The steps of a call of nnTransform3D, by what they do to its buffers.
Same(w) ==
    /\ work'[w].k = work[w].k /\ work'[w].area = work[w].area /\ work'[w].previous = work[w].previous
Starts(w) ==
    /\ work'[w].pc = "frame" /\ work'[w].k = 0 /\ ~work'[w].previous
    /\ DOMAIN buffers'[w] = {}
    /\ last'[w] = NoFrame
Enters(w) ==
    /\ work[w].pc = "frame" /\ work'[w].pc \in {"chunk", "cache", "cpu"}
    /\ Same(w) /\ work'[w].chunk = 1 /\ work'[w].copies = 0
    /\ buffers'[w] = [f \in {work[w].k, work[w].k + 1} |-> Buffer(w, f)]
    /\ last'[w] = NoFrame
Sums(w, tiles, data) ==
    /\ buffers'[w] = Added(buffers[w], work[w].k, tiles, data)
    /\ Same(w) /\ last'[w] = last[w]
SumsUpTo(w, n) ==
    /\ work[w].pc = "cpu" /\ work'[w].pc = "finish"
    /\ work'[w].ok = (n = NumBlocks(work[w].area))
    /\ Sums(w, 1 .. n, Own(w))
SumsChunk(w, data) ==
    /\ work[w].pc \in ChunkPCs
    /\ data = Own(w) \/ (work[w].pc = "fetch" /\ data = mps.result)
    /\ IF work[w].chunk = ChunksOf(work[w].area)
         THEN work'[w].pc = "finish" /\ work'[w].ok
         ELSE work'[w].pc = "chunk" /\ work'[w].chunk = work[w].chunk + 1
    /\ Sums(w, TilesOfChunk(work[w].area, work[w].chunk), data)
Copies(w) ==
    /\ work[w].pc = "download" /\ work'[w].copies = work[w].copies + 1
    /\ work'[w].pc = IF work[w].copies = 3 THEN "finish" ELSE "download"
    /\ Same(w) /\ last'[w] = last[w]
    /\ buffers' = Downloaded(w)
Waits(w) ==
    /\ work[w].pc \in {"gaveUp"} \cup ChunkPCs \cup GpuPCs
    /\ work'[w].pc \in {"gaveUp", "finish"} \cup ChunkPCs \cup GpuPCs
    /\ work'[w].pc \in ChunkPCs => work[w].pc \in ChunkPCs
    /\ work'[w].pc = "download" => work[w].pc = "batch"
    /\ work[w].pc = "download" => work'[w].pc = "finish"
    /\ work'[w].pc = "finish" => ~work'[w].ok
    /\ Same(w) /\ work'[w].chunk = work[w].chunk /\ work'[w].copies = work[w].copies
    /\ buffers'[w] = buffers[w] /\ last'[w] = last[w]
Finishes(w) ==
    /\ work[w].pc = "finish"
    /\ \/ work'[w].pc = "idle"
       \/ /\ work'[w].pc = "frame" /\ work'[w].k = work[w].k + 1 /\ work'[w].area = work[w].area
          /\ work'[w].previous = work[w].ok
    /\ buffers'[w] = [f \in DOMAIN buffers[w] \ {work[w].k} |-> buffers[w][f]]
    /\ last'[w] = [kind |-> IF work[w].ok THEN "nn" ELSE "2d", k |-> work[w].k, area |-> work[w].area,
                   chroma |-> buffers[w][work[w].k].chroma, weight |-> buffers[w][work[w].k].weight,
                   previous |-> work[w].previous]

LEMMA TiledSteps ==
  ASSUME IInv, NEW w \in Workers, WorkerNext(w), kind = Tiled
  PROVE  \/ Starts(w) \/ Enters(w) \/ Copies(w) \/ Waits(w) \/ Finishes(w)
         \/ \E n \in 0 .. NumBlocks(work[w].area) : SumsUpTo(w, n)
         \/ \E data \in Data : SumsChunk(w, data)
<1> DEFINE c == work[w]
           d == work'[w]
<1>1. /\ TypeOK /\ Placed /\ DecodeTypeOK /\ InItsPipeline(w) /\ c \in Calls
      /\ w \in DOMAIN work /\ w \in DOMAIN buffers /\ w \in DOMAIN last
  BY DEF IInv, TypeOK, Placed, DecodeTypeOK
<1>2. c.pc = "frame" \/ c.pc \in {"idle", "cpu", "gaveUp", "finish"} \cup ChunkPCs \cup GpuPCs
  BY <1>1 DEF Calls, PCs
<1>3. CASE StartCall(w)
  <2>1. PICK n \in 1 .. MaxBatch,
             a \in (IF kind = "nnTransform3D" THEN Areas ELSE {NoArea}),
             p \in (IF kind = "nnTransform3D" THEN {<<>>} ELSE FrameFields) :
          Step(w, [NoCall EXCEPT !.pc = "frame", !.frames = n, !.area = a, !.pair = p, !.chunk = 1,
                                 !.calls = c.calls + 1])
    BY <1>3 DEF StartCall
  <2>2. d.pc = "frame" /\ d.k = 0 /\ d.previous = FALSE
    BY <1>1, <2>1 DEF Step, NoCall
  <2>3. DOMAIN buffers'[w] = {} /\ last'[w] = NoFrame
    BY <1>1, <1>3 DEF StartCall
  <2> QED
    BY <2>2, <2>3 DEF Starts
<1>4. CASE BeginFrame(w)
  <2>1. d = [c EXCEPT !.pc = Pipeline, !.chunk = 1, !.copies = 0, !.onGpu = resident, !.ok = FALSE]
    BY <1>1, <1>4 DEF BeginFrame, Step
  <2>2. Pipeline \in {"chunk", "cache", "cpu"}
    BY DEF Pipeline
  <2>3. /\ d.pc = Pipeline /\ d.chunk = 1 /\ d.copies = 0
        /\ d.k = c.k /\ d.area = c.area /\ d.previous = c.previous
    BY <1>1, <2>1 DEF Calls
  <2>4. /\ c.pc = "frame" /\ last'[w] = NoFrame
        /\ buffers'[w] = [f \in {c.k, c.k + 1} |-> Buffer(w, f)]
    BY <1>1, <1>4 DEF BeginFrame, At
  <2> QED
    BY <2>2, <2>3, <2>4 DEF Enters, Same
<1>5. CASE CpuBody(w)
  <2>1. PICK n \in 0 .. NumBlocks(c.area) :
          /\ buffers'[w] = Added(buffers[w], c.k, 1 .. n, Own(w))
          /\ d = [c EXCEPT !.pc = "finish", !.ok = (n = NumBlocks(c.area))]
    BY <1>1, <1>5 DEF CpuBody, Step
  <2>2. /\ d.pc = "finish" /\ d.ok = (n = NumBlocks(c.area))
        /\ d.k = c.k /\ d.area = c.area /\ d.previous = c.previous
    BY <1>1, <2>1 DEF Calls
  <2>3. c.pc = "cpu" /\ last'[w] = last[w]
    BY <1>5 DEF CpuBody, At
  <2> QED
    BY <2>1, <2>2, <2>3 DEF SumsUpTo, Sums, Same
<1>6. CASE Download(w) /\ buffers' = Downloaded(w)
           /\ Step(w, [c EXCEPT !.copies = @ + 1,
                                !.pc = IF c.copies = CopiesToMake - 1 THEN "finish" ELSE "download",
                                !.ok = (c.copies = CopiesToMake - 1)])
  <2>1. d = [c EXCEPT !.copies = @ + 1, !.pc = IF c.copies = CopiesToMake - 1 THEN "finish" ELSE "download",
                      !.ok = (c.copies = CopiesToMake - 1)]
    BY <1>1, <1>6 DEF Step
  <2>2. /\ d.k = c.k /\ d.area = c.area /\ d.previous = c.previous /\ d.copies = c.copies + 1
        /\ d.pc = IF c.copies = 3 THEN "finish" ELSE "download"
    BY <1>1, <2>1 DEF Calls, CopiesToMake
  <2>3. c.pc = "download" /\ last'[w] = last[w]
    BY <1>6 DEF Download, At
  <2> QED
    BY <1>6, <2>2, <2>3 DEF Copies, Same
<1>7. ASSUME NEW data \in Data, data = Own(w) \/ (c.pc = "fetch" /\ data = mps.result),
             c.pc \in ChunkPCs, Contribute(w, data), NextChunk(w), last' = last
      PROVE  SumsChunk(w, data)
  <2>1. /\ d = IF c.chunk = ChunksOf(c.area) THEN [c EXCEPT !.pc = "finish", !.ok = TRUE]
                                             ELSE [c EXCEPT !.pc = "chunk", !.chunk = @ + 1]
        /\ buffers'[w] = Added(buffers[w], c.k, TilesOfChunk(c.area, c.chunk), data)
    BY <1>1, <1>7, AfterInference DEF ChunkPCs
  <2>2. /\ d.k = c.k /\ d.area = c.area /\ d.previous = c.previous
        /\ IF c.chunk = ChunksOf(c.area) THEN d.pc = "finish" /\ d.ok
                                         ELSE d.pc = "chunk" /\ d.chunk = c.chunk + 1
    BY <1>1, <2>1 DEF Calls
  <2> QED
    BY <1>7, <2>1, <2>2 DEF SumsChunk, Sums, Same
<1>8. CASE DownloadIfft(w)
  <2>1. c.pc = "fetch" /\ c.pc \in ChunkPCs /\ last' = last /\ mps.result \in Data
    BY <1>1, <1>8 DEF DownloadIfft, At, ChunkPCs, DecodeTypeOK
  <2> QED
    BY <1>7, <1>8, <2>1 DEF DownloadIfft
<1>9. CASE (Predict(w) \/ FallBackToCpu(w)) /\ Deliver(w)
  <2>1. c.pc \in ChunkPCs /\ last' = last
    BY <1>9 DEF Predict, FallBackToCpu, At, ChunkPCs
  <2>2. Own(w) \in Data
    BY <1>1 DEF Own, Data, Calls
  <2>3. Contribute(w, Own(w)) /\ NextChunk(w)
    BY <1>9 DEF Deliver, Tiled
  <2> QED
    BY <1>7, <2>1, <2>2, <2>3
<1>10. ASSUME c.pc \in {"gaveUp"} \cup ChunkPCs \cup GpuPCs, buffers' = buffers, last' = last,
              NEW pc, pc \in ChunkPCs => c.pc \in ChunkPCs, pc = "download" => c.pc = "batch",
              \/ /\ d = [c EXCEPT !.pc = pc]
                 /\ pc \in ChunkPCs \cup GpuPCs /\ c.pc # "download"
              \/ d = [c EXCEPT !.pc = pc, !.ok = FALSE] /\ pc = "finish"
              \/ d = [c EXCEPT !.pc = pc, !.onGpu = FALSE] /\ pc = "chunk"
              \/ d = [c EXCEPT !.pc = pc, !.snap = engine, !.triedCpu = FALSE] /\ pc = "predict"
              \/ c.pc \in ChunkPCs /\ pc = "gaveUp" /\ \E b : d = [c EXCEPT !.pc = pc, !.triedCpu = b]
       PROVE  Waits(w)
  <2>1. \E x, ok, gpu, snap, tried :
          /\ d = [pc |-> x, k |-> c.k, frames |-> c.frames, area |-> c.area, pair |-> c.pair, chunk |-> c.chunk,
                  copies |-> c.copies, onGpu |-> gpu, snap |-> snap, ok |-> ok, previous |-> c.previous,
                  triedCpu |-> tried, calls |-> c.calls]
          /\ x = pc
          /\ pc = "finish" => ok = FALSE
    <3>1. CASE d = [c EXCEPT !.pc = pc] /\ pc \in ChunkPCs \cup GpuPCs
      <4>1. pc # "finish"
        BY <3>1 DEF ChunkPCs, GpuPCs
      <4>2. d = [pc |-> pc, k |-> c.k, frames |-> c.frames, area |-> c.area, pair |-> c.pair, chunk |-> c.chunk,
                 copies |-> c.copies, onGpu |-> c.onGpu, snap |-> c.snap, ok |-> c.ok, previous |-> c.previous,
                 triedCpu |-> c.triedCpu, calls |-> c.calls]
        BY <1>1, <3>1 DEF Calls
      <4> QED
        BY <4>1, <4>2
    <3>2. CASE d = [c EXCEPT !.pc = pc, !.ok = FALSE]
      BY <1>1, <3>2 DEF Calls
    <3>3. CASE d = [c EXCEPT !.pc = pc, !.onGpu = FALSE] /\ pc = "chunk"
      BY ZenonT(60), <1>1, <3>3 DEF Calls
    <3>4. CASE d = [c EXCEPT !.pc = pc, !.snap = engine, !.triedCpu = FALSE] /\ pc = "predict"
      BY ZenonT(60), <1>1, <3>4 DEF Calls
    <3>5. CASE pc = "gaveUp" /\ \E b : d = [c EXCEPT !.pc = pc, !.triedCpu = b]
      BY ZenonT(60), <1>1, <3>5 DEF Calls
    <3> QED
      BY <1>10, <3>1, <3>2, <3>3, <3>4, <3>5
  <2>2. /\ d.k = c.k /\ d.area = c.area /\ d.previous = c.previous
        /\ d.chunk = c.chunk /\ d.copies = c.copies /\ d.pc = pc
        /\ pc = "finish" => d.ok = FALSE
    BY <2>1
  <2>3. /\ pc \in {"gaveUp", "finish"} \cup ChunkPCs \cup GpuPCs
        /\ c.pc = "download" => pc = "finish"
    BY <1>10 DEF ChunkPCs, GpuPCs
  <2> QED
    BY <1>10, <2>2, <2>3 DEF Waits, Same
<1>11. CASE EnsureBatchCapacity(w) \/ EnsureWindows(w) \/ Batch(w)
            \/ (Download(w) /\ Failed(w) /\ UNCHANGED buffers)
  <2>1. c.pc \in GpuPCs /\ buffers' = buffers /\ last' = last
    BY <1>11 DEF EnsureBatchCapacity, EnsureWindows, Batch, Download, At, GpuPCs
  <2>2. \/ d = [c EXCEPT !.pc = "windows"] /\ c.pc = "cache"
        \/ d = [c EXCEPT !.pc = "batch"] /\ c.pc = "windows"
        \/ d = [c EXCEPT !.pc = "download"] /\ c.pc = "batch"
        \/ d = [c EXCEPT !.pc = "finish", !.ok = FALSE]
    BY <1>1, <1>11 DEF EnsureBatchCapacity, EnsureWindows, Batch, Failed, At, Step
  <2>3. {"windows", "batch", "download"} \subseteq GpuPCs \ ChunkPCs /\ "finish" \notin ChunkPCs
    BY DEF ChunkPCs, GpuPCs
  <2>4. CASE d = [c EXCEPT !.pc = "windows"] /\ c.pc = "cache"
    BY <1>10, <2>1, <2>3, <2>4
  <2>5. CASE d = [c EXCEPT !.pc = "batch"] /\ c.pc = "windows"
    BY <1>10, <2>1, <2>3, <2>5
  <2>6. CASE d = [c EXCEPT !.pc = "download"] /\ c.pc = "batch"
    BY <1>10, <2>1, <2>3, <2>6
  <2>7. CASE d = [c EXCEPT !.pc = "finish", !.ok = FALSE]
    BY <1>10, <2>1, <2>3, <2>7
  <2> QED
    BY <2>2, <2>4, <2>5, <2>6, <2>7
<1>12. CASE Upload(w) \/ ForwardFFT(w) \/ PredictResident(w) \/ InverseFFT(w)
  <2>1. c.pc \in ChunkPCs /\ buffers' = buffers /\ last' = last
    BY <1>12 DEF Upload, ForwardFFT, PredictResident, InverseFFT, ResidentStep, AfterResidentFailure,
                 At, ChunkPCs
  <2>2. \/ \E pc \in {"forward", "mask", "inverse", "fetch"} : d = [c EXCEPT !.pc = pc]
        \/ d = [c EXCEPT !.pc = "chunk", !.onGpu = FALSE]
    BY <1>1, <1>12 DEF Upload, ForwardFFT, PredictResident, InverseFFT, ResidentStep, AfterResidentFailure,
                       Step
  <2> QED
    BY <1>10, <2>1, <2>2 DEF ChunkPCs, GpuPCs
<1>13. CASE SnapshotModel(w)
  <2>1. /\ c.pc = "chunk" /\ buffers' = buffers /\ last' = last
        /\ d = [c EXCEPT !.pc = "predict", !.snap = engine, !.triedCpu = FALSE]
    BY <1>1, <1>13 DEF SnapshotModel, InferencePoint, At, Step, Tiled
  <2>2. {"chunk", "predict"} \subseteq ChunkPCs
    BY DEF ChunkPCs
  <2> QED
    BY <1>10, <2>1, <2>2
<1>14. CASE InferenceThrows(w)
  <2>1. c.pc = "gaveUp" /\ buffers' = buffers /\ last' = last /\ d = [c EXCEPT !.pc = "finish", !.ok = FALSE]
    BY <1>1, <1>14 DEF InferenceThrows, Failed, At, Step, Tiled
  <2>2. "finish" \notin ChunkPCs
    BY DEF ChunkPCs
  <2> QED
    BY <1>10, <2>1, <2>2
<1>15. CASE (Predict(w) \/ FallBackToCpu(w)) /\ ~Deliver(w)
  <2>1. c.pc \in {"predict", "fallback"} /\ buffers' = buffers /\ last' = last
    BY <1>15 DEF Predict, FallBackToCpu, GivesUp, At
  <2>2. \/ d = [c EXCEPT !.pc = "fallback"]
        \/ \E b : d = [c EXCEPT !.pc = "gaveUp", !.triedCpu = b]
    BY <1>1, <1>15 DEF Predict, FallBackToCpu, GivesUp, Step
  <2>3. /\ {"predict", "fallback"} \subseteq ChunkPCs
        /\ "gaveUp" \notin ChunkPCs
    BY DEF ChunkPCs
  <2>4. CASE d = [c EXCEPT !.pc = "fallback"]
    BY <1>10, <2>1, <2>3, <2>4
  <2>5. CASE \E b : d = [c EXCEPT !.pc = "gaveUp", !.triedCpu = b]
    BY <1>10, <2>1, <2>3, <2>5
  <2> QED
    BY <2>2, <2>4, <2>5
<1>16. CASE Finish(w)
  <2>1. /\ c.pc = "finish"
        /\ d = NnIdle(c) \/ d = [c EXCEPT !.pc = "frame", !.k = @ + 1, !.chunk = 1, !.previous = c.ok]
        /\ buffers'[w] = [f \in DOMAIN buffers[w] \ {c.k} |-> buffers[w][f]]
        /\ last'[w] = [kind |-> IF c.ok THEN "nn" ELSE "2d", k |-> c.k, area |-> c.area,
                       chroma |-> buffers[w][c.k].chroma, weight |-> buffers[w][c.k].weight,
                       previous |-> c.previous]
    BY <1>1, <1>16 DEF Finish, At, Step, Tiled
  <2>2. \/ d.pc = "idle"
        \/ d.pc = "frame" /\ d.k = c.k + 1 /\ d.area = c.area /\ d.previous = c.ok
    BY <1>1, <2>1 DEF Calls, NnIdle, NoCall
  <2> QED
    BY <2>1, <2>2 DEF Finishes
<1>17. ~RunSession(w)
  BY DEF RunSession, Tiled
<1> QED
  BY <1>3, <1>4, <1>5, <1>6, <1>8, <1>9, <1>11, <1>12, <1>13, <1>14, <1>15, <1>16, <1>17
     DEF WorkerNext, Download, DownloadIfft

\* A finished frame of an ldzeug decoder holds no sums.
LEMMA RowFrames ==
  ASSUME DecodeTypeOK, NEW w \in Workers, WorkerNext(w), kind # Tiled
  PROVE  \/ last'[w] = last[w]
         \/ last'[w].kind \in {"none", "rows"} /\ last'[w].chroma = {}
<1>1. \/ last' = last
      \/ last' = [last EXCEPT ![w] = NoFrame]
      \/ \E k : last' = [last EXCEPT ![w] = [NoFrame EXCEPT !.kind = "rows", !.k = k]]
  BY DEF WorkerNext, StartCall, BeginFrame, CpuBody, Finish, EnsureBatchCapacity, EnsureWindows,
         Batch, Download, Upload, ForwardFFT, PredictResident, InverseFFT, ResidentStep,
         DownloadIfft, SnapshotModel, Predict, FallBackToCpu, InferenceThrows, RunSession, Tiled
<1>2. /\ NoFrame.kind = "none" /\ NoFrame.chroma = {}
      /\ \A k : LET f == [NoFrame EXCEPT !.kind = "rows", !.k = k] IN f.kind = "rows" /\ f.chroma = {}
  BY DEF NoFrame
<1>3. w \in DOMAIN last
  BY DEF DecodeTypeOK
<1>4. last'[w] = last[w] \/ last'[w] = NoFrame \/ \E k : last'[w] = [NoFrame EXCEPT !.kind = "rows", !.k = k]
  BY <1>1, <1>3
<1> QED
  BY <1>2, <1>4

\* The buffers of a call of nnTransform3D, and the numbers of its tiles.
LEMMA CallFacts ==
  ASSUME TypeOK, Placed, NEW w \in Workers, kind = Tiled, work[w].pc # "idle"
  PROVE  LET c == work[w]
         IN  /\ c \in Calls /\ c.k \in Nat /\ c.area \in Areas /\ Typed(buffers[w])
             /\ Tiles(c.area) \in SUBSET Nat /\ Own(w) \in Data
             /\ \A x : TilesOfChunk(c.area, x) \in SUBSET Nat
             /\ c.pc # "frame" => /\ DOMAIN buffers[w] = {c.k, c.k + 1}
                                  /\ buffers[w][c.k] \in Accumulators
                                  /\ buffers[w][c.k + 1] \in Accumulators
                                  /\ Buffer(w, c.k) = buffers[w][c.k]
             /\ c.pc = "frame" => /\ DOMAIN buffers[w] \subseteq {c.k}
                                  /\ Buffer(w, c.k + 1) = Empty
                                  /\ Buffer(w, c.k) \in Accumulators
<1> DEFINE c == work[w]
<1>1. c \in Calls /\ DecodeTypeOK /\ InItsPipeline(w) /\ Typed(buffers[w])
  BY DEF TypeOK, DecodeTypeOK, Placed
<1>2. c.k \in Nat /\ c.chunk \in Nat /\ c.area \in Areas
  BY <1>1 DEF Calls, InItsPipeline
<1>3. Tiles(c.area) \in SUBSET Nat /\ \A x : TilesOfChunk(c.area, x) \in SUBSET Nat
  BY <1>2, TilesAreNumbers
<1>4. Own(w) \in Data
  BY <1>2 DEF Own, Data
<1>5. ASSUME c.pc # "frame"
      PROVE  /\ DOMAIN buffers[w] = {c.k, c.k + 1}
             /\ buffers[w][c.k] \in Accumulators /\ buffers[w][c.k + 1] \in Accumulators
             /\ Buffer(w, c.k) = buffers[w][c.k]
  BY <1>1, <1>5 DEF InItsPipeline, Typed, Buffer
<1>6. ASSUME c.pc = "frame"
      PROVE  /\ DOMAIN buffers[w] \subseteq {c.k} /\ Buffer(w, c.k + 1) = Empty
             /\ Buffer(w, c.k) \in Accumulators
  <2>1. DOMAIN buffers[w] \subseteq {c.k}
    BY <1>1, <1>6 DEF InItsPipeline
  <2>2. Empty \in Accumulators
    BY DEF Empty, Accumulators
  <2> QED
    BY <1>1, <1>2, <2>1, <2>2 DEF Buffer, Typed
<1> QED
  BY <1>1, <1>2, <1>3, <1>4, <1>5, <1>6

\* Each of the four copies of a GPU frame adds one sum to one buffer.
LEMMA CopyFacts ==
  ASSUME TypeOK, Placed, NEW w \in Workers, kind = Tiled, Copies(w)
  PROVE  LET c == work[w]
             k == c.k
             own == Pairs(k, Tiles(c.area))
             data == Chromas(k, Tiles(c.area), Own(w))
         IN  /\ DOMAIN buffers'[w] = {k, k + 1}
             /\ buffers'[w][k].weight = buffers[w][k].weight \cup (IF c.copies = 1 THEN own ELSE {})
             /\ buffers'[w][k + 1].weight = buffers[w][k + 1].weight \cup (IF c.copies = 3 THEN own ELSE {})
             /\ buffers'[w][k].chroma = buffers[w][k].chroma \cup (IF c.copies = 0 THEN data ELSE {})
             /\ buffers'[w][k + 1].chroma = buffers[w][k + 1].chroma \cup (IF c.copies = 2 THEN data ELSE {})
<1> DEFINE c == work[w]
           k == c.k
           b == buffers[w]
           own == Pairs(k, Tiles(c.area))
           data == Chromas(k, Tiles(c.area), Own(w))
           f == IF c.copies < 2 THEN k ELSE k + 1
           new == IF c.copies % 2 = 0 THEN Coloured(b[f], k, Tiles(c.area), Own(w))
                                      ELSE Weighted(b[f], k, Tiles(c.area))
<1>1. c.pc = "download" /\ c.copies \in 0 .. 3
  BY DEF Copies, Placed, InItsPipeline
<1>2. /\ DOMAIN b = {k, k + 1} /\ b[k] \in Accumulators /\ b[k + 1] \in Accumulators /\ k \in Nat
  BY <1>1, CallFacts
<1>3. buffers'[w] = [b EXCEPT ![f] = new]
  <2>1. w \in DOMAIN buffers
    BY DEF TypeOK, DecodeTypeOK
  <2>2. buffers' = Downloaded(w)
    BY DEF Copies
  <2> QED
    BY <2>1, <2>2 DEF Downloaded, Tiles
<1>4. b[f] \in Accumulators /\ f \in DOMAIN b
  BY <1>2
<1>5. /\ c.copies % 2 = 0 => new.weight = b[f].weight /\ new.chroma = b[f].chroma \cup data
      /\ c.copies % 2 # 0 => new.weight = b[f].weight \cup own /\ new.chroma = b[f].chroma
  <2> DEFINE acc == b[f]
  <2> HIDE DEF acc, k
  <2>1. acc = [chroma |-> acc.chroma, weight |-> acc.weight]
    BY <1>4 DEF Accumulators, acc
  <2> QED
    BY <2>1 DEF Coloured, Weighted, Pairs, Chromas, acc
<1> HIDE DEF new, own, data, b, k
<1>6. /\ c.copies = 0 => f = k /\ c.copies % 2 = 0
      /\ c.copies = 1 => f = k /\ c.copies % 2 # 0
      /\ c.copies = 2 => f = k + 1 /\ c.copies % 2 = 0
      /\ c.copies = 3 => f = k + 1 /\ c.copies % 2 # 0
  OBVIOUS
<1> HIDE DEF f, c
<1>7. /\ DOMAIN buffers'[w] = {k, k + 1}
      /\ buffers'[w][k].weight = b[k].weight \cup (IF c.copies = 1 THEN own ELSE {})
      /\ buffers'[w][k + 1].weight = b[k + 1].weight \cup (IF c.copies = 3 THEN own ELSE {})
      /\ buffers'[w][k].chroma = b[k].chroma \cup (IF c.copies = 0 THEN data ELSE {})
      /\ buffers'[w][k + 1].chroma = b[k + 1].chroma \cup (IF c.copies = 2 THEN data ELSE {})
  <2>1. CASE c.copies = 0
    BY <1>2, <1>3, <1>5, <1>6, <2>1
  <2>2. CASE c.copies = 1
    BY <1>2, <1>3, <1>5, <1>6, <2>2
  <2>3. CASE c.copies = 2
    BY <1>2, <1>3, <1>5, <1>6, <2>3
  <2>4. CASE c.copies = 3
    BY <1>2, <1>3, <1>5, <1>6, <2>4
  <2> QED
    BY <1>1, <2>1, <2>2, <2>3, <2>4
<1> QED
  BY <1>7 DEF own, data, b, k, c

LEMMA WholeStep ==
  ASSUME IInv, NEW w \in Workers, WorkerNext(w)
  PROVE  Whole'
<1> DEFINE c == work[w]
           d == work'[w]
           k == c.k
           b == buffers[w]
           T == Tiles(c.area)
<1>1. DecodeTypeOK /\ TypeOK /\ Placed /\ WeightsGrow(w) /\ WholeFrame(w)
  BY DEF IInv, TypeOK, Whole
<1>2. kind' = kind
  BY WorkerKeepsTheModel
<1>3. \A v \in Workers \ {w} : WeightsGrow(v)' /\ WholeFrame(v)'
  <2> TAKE v \in Workers \ {w}
  <2>1. work'[v] = work[v] /\ buffers'[v] = buffers[v] /\ last'[v] = last[v]
    BY <1>1, OthersKept
  <2>2. WeightsGrow(v) /\ WholeFrame(v)
    BY DEF IInv, Whole
  <2>3. Buffer(v, work[v].k)' = Buffer(v, work[v].k)
    BY <2>1 DEF Buffer
  <2> QED
    BY <1>2, <2>1, <2>2, <2>3 DEF WeightsGrow, WholeFrame
<1>4. CASE kind # Tiled
  <2>1. last'[w] = last[w] \/ last'[w].kind \in {"none", "rows"}
    BY <1>1, <1>4, RowFrames
  <2>2. WeightsGrow(w)' /\ WholeFrame(w)'
    BY <1>1, <1>2, <1>4, <2>1 DEF WeightsGrow, WholeFrame
  <2> QED
    BY <1>3, <2>2 DEF Whole
<1>5. CASE kind = Tiled
  <2>1. ASSUME last'[w] = last[w] \/ last'[w] = NoFrame PROVE WholeFrame(w)'
    BY <1>1, <2>1 DEF WholeFrame, NoFrame
  <2>2. CASE Starts(w)
    BY <1>2, <1>3, <2>1, <2>2 DEF Starts, WeightsGrow, ChunkPCs, Whole
  <2>3. CASE Enters(w)
    <3>1. /\ c.pc = "frame" /\ d.pc \in {"chunk", "cache", "cpu"} /\ d.k = k /\ d.area = c.area
          /\ d.previous = c.previous /\ d.chunk = 1
          /\ buffers'[w] = [f \in {k, k + 1} |-> Buffer(w, f)]
      BY <2>3 DEF Enters, Same
    <3>2. Buffer(w, k)' = Buffer(w, k)
      BY <3>1 DEF Buffer
    <3>3. \A n \in T : ~((n - 1) \div ChunkTiles < 0)
      <4>1. ChunkTiles \in Nat \ {0}
        BY NnAssumption
      <4> QED
        BY <4>1 DEF Tiles
    <3>4. WeightsGrow(w)'
      BY <1>1, <1>2, <1>5, <3>1, <3>2, <3>3 DEF WeightsGrow, ChunkPCs
    <3> QED
      BY <1>3, <2>1, <2>3, <3>4 DEF Enters, Whole
  <2>4. CASE c.pc \notin {"idle", "frame"}
    <3>1. /\ k \in Nat /\ c.area \in Areas /\ Typed(b) /\ T \in SUBSET Nat /\ Own(w) \in Data
          /\ \A x : TilesOfChunk(c.area, x) \in SUBSET Nat
          /\ DOMAIN b = {k, k + 1} /\ Buffer(w, k) = b[k]
      BY <1>1, <1>5, <2>4, CallFacts
    <3>2. ASSUME NEW tiles \in SUBSET Nat, NEW data \in Data, Sums(w, tiles, data)
          PROVE  /\ d.k = k /\ d.area = c.area /\ d.previous = c.previous
                 /\ buffers'[w][k].weight = b[k].weight \cup Pairs(k, tiles)
                 /\ buffers'[w][k + 1].weight = b[k + 1].weight \cup Pairs(k, tiles)
                 /\ Buffer(w, k)' = buffers'[w][k]
                 /\ WholeFrame(w)'
      <4>1. /\ buffers'[w] = Added(b, k, tiles, data)
            /\ d.k = k /\ d.area = c.area /\ d.previous = c.previous /\ last'[w] = last[w]
        BY <3>2 DEF Sums, Same
      <4>2. /\ DOMAIN buffers'[w] = DOMAIN b
            /\ buffers'[w][k].weight = b[k].weight \cup Pairs(k, tiles)
            /\ buffers'[w][k + 1].weight = b[k + 1].weight \cup Pairs(k, tiles)
        <5>1. k \in Nat /\ Typed(b) /\ tiles \in SUBSET Nat /\ data \in Data
          BY <3>1, <3>2
        <5>2. DOMAIN b = {k, k + 1}
          BY <3>1
        <5> HIDE DEF b, k
        <5>3. AddsTo(Added(b, k, tiles, data), b, k, tiles, data)
          BY <5>1, AddedAdds
        <5> QED
          BY <4>1, <5>2, <5>3 DEF AddsTo
      <4>3. Buffer(w, k)' = buffers'[w][k]
        BY <3>1, <4>1, <4>2 DEF Buffer
      <4> QED
        BY <2>1, <4>1, <4>2, <4>3
    <3>3. ASSUME NEW n \in 0 .. NumBlocks(c.area), SumsUpTo(w, n)
          PROVE  Whole'
      <4>1. /\ Sums(w, 1 .. n, Own(w)) /\ d.pc = "finish" /\ d.ok = (n = NumBlocks(c.area)) /\ 1 .. n \in SUBSET Nat
        BY <3>3 DEF SumsUpTo
      <4>2. d.ok => T = 1 .. n
        BY <4>1 DEF Tiles
      <4>3. WeightsGrow(w)'
        <5>1. c.previous => Pairs(k - 1, T) \subseteq b[k].weight
          BY <1>1, <1>5, <2>4, <3>1 DEF WeightsGrow
        <5>2. /\ d.k = k /\ d.area = c.area /\ d.previous = c.previous
              /\ buffers'[w][k].weight = b[k].weight \cup Pairs(k, 1 .. n)
              /\ buffers'[w][k + 1].weight = b[k + 1].weight \cup Pairs(k, 1 .. n)
              /\ Buffer(w, k)' = buffers'[w][k]
          BY <3>1, <3>2, <4>1
        <5> QED
          BY <1>2, <4>1, <4>2, <5>1, <5>2 DEF WeightsGrow, ChunkPCs
      <4> QED
        BY <1>3, <3>1, <3>2, <4>1, <4>3 DEF Whole
    <3>4. ASSUME NEW data \in Data, SumsChunk(w, data)
          PROVE  Whole'
      <4> DEFINE tiles == TilesOfChunk(c.area, c.chunk)
      <4>1. /\ Sums(w, tiles, data) /\ tiles \in SUBSET Nat /\ c.pc \in ChunkPCs
            /\ IF c.chunk = ChunksOf(c.area) THEN d.pc = "finish" /\ d.ok
                                             ELSE d.pc = "chunk" /\ d.chunk = c.chunk + 1
        BY <3>1, <3>4 DEF SumsChunk
      <4>2. /\ c.chunk \in 1 .. ChunksOf(c.area) /\ ChunksOf(c.area) \in Nat
            /\ NumBlocks(c.area) \in Nat \ {0} /\ ChunkTiles \in Nat \ {0}
        BY <1>1, <1>5, <2>4, <3>1, <4>1, Geometry DEF Placed, InItsPipeline
      <4>3. ASSUME NEW n \in T, (n - 1) \div ChunkTiles < c.chunk
            PROVE  <<k, n>> \in buffers'[w][k].weight /\ <<k, n>> \in buffers'[w][k + 1].weight
        <5>1. n \in Nat \ {0} /\ (n - 1) \div ChunkTiles \in Int
          BY <4>2 DEF Tiles
        <5>2. CASE (n - 1) \div ChunkTiles < c.chunk - 1
          <6>1. <<k, n>> \in b[k].weight /\ <<k, n>> \in b[k + 1].weight
            BY <1>1, <1>5, <4>1, <5>2 DEF WeightsGrow
          <6> QED
            BY <3>2, <4>1, <6>1
        <5>3. CASE (n - 1) \div ChunkTiles = c.chunk - 1
          <6>1. n \in tiles
            BY <5>3 DEF TilesOfChunk, Tiles
          <6>2. <<k, n>> \in Pairs(k, tiles)
            BY <6>1 DEF Pairs
          <6> QED
            BY <3>2, <4>1, <6>2
        <5> QED
          BY <4>2, <4>3, <5>1, <5>2, <5>3
      <4>4. ASSUME c.chunk = ChunksOf(c.area)
            PROVE  Pairs(k, T) \subseteq buffers'[w][k].weight /\ Pairs(k, T) \subseteq buffers'[w][k + 1].weight
        <5>1. ASSUME NEW n \in T PROVE (n - 1) \div ChunkTiles < c.chunk
          <6>1. n \in Int /\ n - 1 <= NumBlocks(c.area) - 1
            BY <4>2 DEF Tiles
          <6>2. (n - 1) \div ChunkTiles <= (NumBlocks(c.area) - 1) \div ChunkTiles
            BY <4>2, <6>1, QuotientGrows
          <6>3. c.chunk = ((NumBlocks(c.area) - 1) \div ChunkTiles) + 1
            BY <4>4 DEF ChunksOf
          <6>4. (n - 1) \div ChunkTiles \in Int /\ (NumBlocks(c.area) - 1) \div ChunkTiles \in Int
            BY <4>2, <6>1
          <6> QED
            BY <6>2, <6>3, <6>4
        <5> QED
          BY <4>3, <5>1 DEF Pairs
      <4> HIDE DEF tiles
      <4>5. WeightsGrow(w)'
        <5>1. c.previous => Pairs(k - 1, T) \subseteq b[k].weight
          BY <1>1, <1>5, <2>4, <3>1 DEF WeightsGrow
        <5>2. c.chunk # ChunksOf(c.area) => d.chunk - 1 = c.chunk
          BY <4>1, <4>2
        <5>3. d.pc \in {"finish", "chunk"} /\ (d.pc = "finish" <=> c.chunk = ChunksOf(c.area))
          BY <4>1
        <5> QED
          BY <1>2, <3>2, <4>1, <4>3, <4>4, <5>1, <5>2, <5>3 DEF WeightsGrow, ChunkPCs
      <4> QED
        BY <1>3, <3>2, <4>1, <4>5 DEF Whole
    <3>5. CASE Copies(w)
      <4>1. /\ c.pc = "download" /\ d.copies = c.copies + 1 /\ c.copies \in 0 .. 3
            /\ d.pc = IF c.copies = 3 THEN "finish" ELSE "download"
            /\ d.k = k /\ d.area = c.area /\ d.previous = c.previous /\ last'[w] = last[w]
        BY <1>1, <1>5, <2>4, <3>5 DEF Copies, Same, Placed, InItsPipeline
      <4>2. /\ DOMAIN buffers'[w] = {k, k + 1}
            /\ buffers'[w][k].weight = b[k].weight \cup (IF c.copies = 1 THEN Pairs(k, T) ELSE {})
            /\ buffers'[w][k + 1].weight = b[k + 1].weight \cup (IF c.copies = 3 THEN Pairs(k, T) ELSE {})
        BY <1>1, <1>5, <2>4, <3>5, CopyFacts
      <4>3. Buffer(w, k)' = buffers'[w][k]
        BY <3>1, <4>1, <4>2 DEF Buffer
      <4>4. /\ c.previous => Pairs(k - 1, T) \subseteq b[k].weight
            /\ c.copies >= 2 => Pairs(k, T) \subseteq b[k].weight
        BY <1>1, <1>5, <3>1, <4>1 DEF WeightsGrow
      <4>5. WeightsGrow(w)'
        BY <1>2, <4>1, <4>2, <4>3, <4>4 DEF WeightsGrow, ChunkPCs
      <4> QED
        BY <1>3, <2>1, <4>1, <4>5 DEF Whole
    <3>6. CASE Waits(w)
      <4>1. /\ d.k = k /\ d.area = c.area /\ d.previous = c.previous /\ d.chunk = c.chunk /\ d.copies = c.copies
            /\ buffers'[w] = b /\ last'[w] = last[w]
            /\ d.pc \in ChunkPCs => c.pc \in ChunkPCs
            /\ d.pc = "download" => c.pc = "batch"
            /\ d.pc = "finish" => ~d.ok
        BY <3>6 DEF Waits, Same
      <4>2. Buffer(w, k)' = Buffer(w, k)
        BY <4>1 DEF Buffer
      <4>3. c.pc = "batch" => c.copies = 0
        BY <1>1, <1>5, <2>4 DEF Placed, InItsPipeline
      <4>4. WeightsGrow(w)'
        BY <1>1, <1>2, <1>5, <2>4, <4>1, <4>2, <4>3 DEF WeightsGrow
      <4> QED
        BY <1>3, <2>1, <4>1, <4>4 DEF Whole
    <3>7. CASE Finishes(w)
      <4>1. /\ c.pc = "finish"
            /\ \/ d.pc = "idle"
               \/ d.pc = "frame" /\ d.k = k + 1 /\ d.area = c.area /\ d.previous = c.ok
            /\ buffers'[w] = [f \in DOMAIN b \ {k} |-> b[f]]
            /\ last'[w] = [kind |-> IF c.ok THEN "nn" ELSE "2d", k |-> k, area |-> c.area,
                           chroma |-> b[k].chroma, weight |-> b[k].weight, previous |-> c.previous]
        BY <3>7 DEF Finishes
      <4>2. /\ c.previous => Pairs(k - 1, T) \subseteq b[k].weight
            /\ c.ok => Pairs(k, T) \subseteq b[k].weight /\ Pairs(k, T) \subseteq b[k + 1].weight
        BY <1>1, <1>5, <3>1, <4>1 DEF WeightsGrow
      <4>3. WholeFrame(w)'
        <5>1. /\ last'[w].kind = IF c.ok THEN "nn" ELSE "2d"
              /\ last'[w].k = k /\ last'[w].area = c.area /\ last'[w].weight = b[k].weight
              /\ last'[w].previous = c.previous
          BY <4>1
        <5> QED
          BY <3>1, <4>2, <5>1 DEF WholeFrame
      <4>4. d.pc = "frame" => Buffer(w, k)' = b[k + 1]
        BY <3>1, <4>1 DEF Buffer
      <4>5. (k + 1) - 1 = k
        BY <3>1
      <4>6. WeightsGrow(w)'
        BY <1>2, <4>1, <4>2, <4>4, <4>5 DEF WeightsGrow, ChunkPCs
      <4> QED
        BY <1>3, <4>3, <4>6 DEF Whole
    <3> QED
      BY <1>5, <2>2, <2>3, <3>3, <3>4, <3>5, <3>6, <3>7, TiledSteps
  <2>5. CASE c.pc \in {"idle", "frame"}
    <3>1. Starts(w) \/ Enters(w)
      BY <1>5, <2>5, TiledSteps DEF Copies, Waits, Finishes, SumsUpTo, SumsChunk, ChunkPCs, GpuPCs
    <3> QED
      BY <2>2, <2>3, <3>1
  <2> QED
    BY <2>4, <2>5
<1> QED
  BY <1>4, <1>5

\* A copy adds the chroma of a frame, the next its weight: between them the sums are not
\* level, after both they are again.
LEMMA FirstLevelAcrossACopy ==
  ASSUME NEW n \in 0 .. 3, NEW own, NEW wt, NEW su,
         IF n = 1 THEN su = wt \cup own ELSE su = wt
  PROVE  IF n + 1 = 1
           THEN su \cup (IF n = 0 THEN own ELSE {}) = (wt \cup (IF n = 1 THEN own ELSE {})) \cup own
           ELSE su \cup (IF n = 0 THEN own ELSE {}) = wt \cup (IF n = 1 THEN own ELSE {})
<1>1. CASE n = 0
  BY <1>1
<1>2. CASE n = 1
  BY <1>2
<1>3. CASE n # 0 /\ n # 1
  BY <1>3
<1> QED
  BY <1>1, <1>2, <1>3

LEMMA SecondLevelAcrossACopy ==
  ASSUME NEW n \in 0 .. 3, NEW own, NEW wt, NEW su,
         IF n = 3 THEN su = wt \cup own ELSE su = wt
  PROVE  IF n + 1 = 3
           THEN su \cup (IF n = 2 THEN own ELSE {}) = (wt \cup (IF n = 3 THEN own ELSE {})) \cup own
           ELSE su \cup (IF n = 2 THEN own ELSE {}) = wt \cup (IF n = 3 THEN own ELSE {})
<1>1. CASE n = 2
  BY <1>1
<1>2. CASE n = 3
  BY <1>2
<1>3. CASE n # 2 /\ n # 3
  BY <1>3
<1> QED
  BY <1>1, <1>2, <1>3

LEMMA SummedFacts ==
  /\ \A A, B : Summed(A \cup B) = Summed(A) \cup Summed(B)
  /\ \A k, tiles, data : Summed(Chromas(k, tiles, data)) = Pairs(k, tiles)
  /\ Level(Empty)
<1>1. ASSUME NEW A, NEW B PROVE Summed(A \cup B) = Summed(A) \cup Summed(B)
  BY DEF Summed
<1>2. ASSUME NEW k, NEW tiles, NEW data PROVE Summed(Chromas(k, tiles, data)) = Pairs(k, tiles)
  <2> DEFINE C == Chromas(k, tiles, data)
  <2>1. ASSUME NEW p \in Summed(C) PROVE p \in Pairs(k, tiles)
    BY <2>1 DEF Summed, Pairs, Chromas
  <2>2. ASSUME NEW p \in Pairs(k, tiles) PROVE p \in Summed(C)
    <3>1. PICK n \in tiles : p = <<k, n>>
      BY <2>2 DEF Pairs
    <3>2. <<k, n, data>> \in C /\ p = << <<k, n, data>>[1], <<k, n, data>>[2] >>
      BY <3>1 DEF Chromas
    <3> HIDE DEF C
    <3> QED
      BY <3>2 DEF Summed
  <2> QED
    BY <2>1, <2>2
<1>3. Level(Empty)
  BY DEF Level, Empty, Summed
<1> QED
  BY <1>1, <1>2, <1>3

LEMMA SummingStep ==
  ASSUME IInv, NEW w \in Workers, WorkerNext(w)
  PROVE  Summing'
<1> DEFINE c == work[w]
           d == work'[w]
           k == c.k
           b == buffers[w]
           T == Tiles(c.area)
           due == Together \/ c.previous \/ k = 0
           LastIsLevel(v) == last[v].kind = "nn" /\ (Together \/ last[v].previous \/ last[v].k = 0) =>
                               Summed(last[v].chroma) = last[v].weight
<1>1. DecodeTypeOK /\ TypeOK /\ Placed /\ SumsGrow(w) /\ \A v \in Workers : LastIsLevel(v)
  BY DEF IInv, TypeOK, Summing, SumsMatchTheirWeights, Summed, Together
<1>2. kind' = kind /\ active' = active
  BY WorkerKeepsTheModel DEF modelVars
<1>3. \A v \in Workers \ {w} : SumsGrow(v)' /\ LastIsLevel(v)'
  <2> TAKE v \in Workers \ {w}
  <2>1. work'[v] = work[v] /\ buffers'[v] = buffers[v] /\ last'[v] = last[v]
    BY <1>1, OthersKept
  <2>2. SumsGrow(v) /\ LastIsLevel(v)
    BY <1>1 DEF IInv, Summing
  <2>3. Buffer(v, work[v].k)' = Buffer(v, work[v].k)
    BY <2>1 DEF Buffer
  <2> QED
    BY <1>2, <2>1, <2>2, <2>3 DEF SumsGrow, Together, Level
<1>4. SUFFICES SumsGrow(w)' /\ LastIsLevel(w)'
  BY <1>3 DEF Summing, SumsMatchTheirWeights, Summed, Together
<1>5. CASE kind # Tiled
  <2>1. last'[w] = last[w] \/ last'[w].kind \in {"none", "rows"}
    BY <1>1, <1>5, RowFrames
  <2> QED
    BY <1>1, <1>2, <1>5, <2>1 DEF SumsGrow, Together
<1>6. CASE kind = Tiled
  <2>1. ASSUME last'[w] = last[w] \/ last'[w] = NoFrame PROVE LastIsLevel(w)'
    BY <1>1, <1>2, <2>1 DEF NoFrame, Together
  <2> HIDE DEF LastIsLevel
  <2>2. CASE Starts(w)
    <3>1. Buffer(w, k)' = Empty
      BY <2>2 DEF Starts, Buffer
    <3>2. Level(Buffer(w, k)')
      BY <3>1, SummedFacts
    <3> QED
      BY <1>2, <2>1, <2>2, <3>2 DEF Starts, SumsGrow, Level
  <2>3. CASE Enters(w)
    <3>1. /\ c.pc = "frame" /\ d.pc \in {"chunk", "cache", "cpu"} /\ d.k = k /\ d.area = c.area
          /\ d.previous = c.previous
          /\ buffers'[w] = [f \in {k, k + 1} |-> Buffer(w, f)] /\ last'[w] = NoFrame
      BY <2>3 DEF Enters, Same
    <3>2. Buffer(w, k + 1) = Empty /\ k \in Nat
      BY <1>1, <1>6, <3>1, CallFacts
    <3>3. buffers'[w][k] = Buffer(w, k) /\ buffers'[w][k + 1] = Empty
      BY <3>1, <3>2
    <3>4. (due => Level(buffers'[w][k])) /\ Level(buffers'[w][k + 1])
      BY <1>1, <1>6, <3>1, <3>3, SummedFacts DEF SumsGrow
    <3> QED
      BY <1>2, <2>1, <3>1, <3>4 DEF SumsGrow, Level, Together
  <2>4. CASE c.pc \notin {"idle", "frame"}
    <3>1. /\ k \in Nat /\ c.area \in Areas /\ Typed(b) /\ T \in SUBSET Nat /\ Own(w) \in Data
          /\ \A x : TilesOfChunk(c.area, x) \in SUBSET Nat
          /\ DOMAIN b = {k, k + 1} /\ Buffer(w, k) = b[k]
      BY <1>1, <1>6, <2>4, CallFacts
    <3>2. c.pc \in GpuPCs => ~Together
      BY <1>1, <2>4 DEF Placed, InItsPipeline, Together
    <3>3. ASSUME NEW tiles \in SUBSET Nat, NEW data \in Data, Sums(w, tiles, data),
                 c.pc \notin {"download", "finish"}, d.pc \in {"chunk", "finish"}
          PROVE  SumsGrow(w)' /\ LastIsLevel(w)'
      <4>1. /\ buffers'[w] = Added(b, k, tiles, data)
            /\ d.k = k /\ d.area = c.area /\ d.previous = c.previous /\ last'[w] = last[w]
        BY <3>3 DEF Sums, Same
      <4>2. ASSUME NEW f \in {k, k + 1}
            PROVE  /\ buffers'[w][f].weight = b[f].weight \cup Pairs(k, tiles)
                   /\ buffers'[w][f].chroma = b[f].chroma \cup Chromas(k, tiles, data)
        <5>1. f \in DOMAIN b
          BY <3>1
        <5>3. k \in Nat /\ Typed(b) /\ tiles \in SUBSET Nat /\ data \in Data
          BY <3>1, <3>3
        <5> HIDE DEF b, k
        <5>4. AddsTo(Added(b, k, tiles, data), b, k, tiles, data)
          BY <5>3, AddedAdds
        <5> QED
          BY <4>1, <5>1, <5>4 DEF b, k, AddsTo
      <4>3. ASSUME NEW f \in {k, k + 1}, Level(b[f]) PROVE Level(buffers'[w][f])
        <5> DEFINE A == b[f].chroma
                   B == Chromas(k, tiles, data)
        <5>1. /\ buffers'[w][f].weight = b[f].weight \cup Pairs(k, tiles)
              /\ buffers'[w][f].chroma = A \cup B
              /\ Summed(A) = b[f].weight
          BY <4>2, <4>3 DEF Level
        <5>2. Summed(B) = Pairs(k, tiles)
          BY SummedFacts
        <5> HIDE DEF A, B
        <5>3. Summed(A \cup B) = Summed(A) \cup Summed(B)
          BY SummedFacts
        <5> QED
          BY <5>1, <5>2, <5>3 DEF Level
      <4>4. (due => Level(b[k])) /\ Level(b[k + 1])
        BY <1>1, <1>6, <2>4, <3>3 DEF SumsGrow
      <4>5. (due => Level(buffers'[w][k])) /\ Level(buffers'[w][k + 1])
        BY <4>3, <4>4
      <4> QED
        BY <1>2, <2>1, <3>3, <4>1, <4>5 DEF SumsGrow, Level, Together
    <3>4. ASSUME NEW n \in 0 .. NumBlocks(c.area), SumsUpTo(w, n)
          PROVE  SumsGrow(w)' /\ LastIsLevel(w)'
      BY <3>1, <3>3, <3>4, 1 .. n \in SUBSET Nat DEF SumsUpTo
    <3>5. ASSUME NEW data \in Data, SumsChunk(w, data)
          PROVE  SumsGrow(w)' /\ LastIsLevel(w)'
      BY <3>1, <3>3, <3>5 DEF SumsChunk, ChunkPCs
    <3>6. CASE Copies(w)
      <4>1. /\ c.pc = "download" /\ d.copies = c.copies + 1 /\ c.copies \in 0 .. 3
            /\ d.pc = IF c.copies = 3 THEN "finish" ELSE "download"
            /\ d.k = k /\ d.area = c.area /\ d.previous = c.previous /\ last'[w] = last[w]
        BY <1>1, <1>6, <2>4, <3>6 DEF Copies, Same, Placed, InItsPipeline
      <4> DEFINE own == Pairs(k, T)
      <4>2. /\ buffers'[w][k].weight = b[k].weight \cup (IF c.copies = 1 THEN own ELSE {})
            /\ buffers'[w][k + 1].weight = b[k + 1].weight \cup (IF c.copies = 3 THEN own ELSE {})
            /\ Summed(buffers'[w][k].chroma) = Summed(b[k].chroma) \cup (IF c.copies = 0 THEN own ELSE {})
            /\ Summed(buffers'[w][k + 1].chroma) = Summed(b[k + 1].chroma) \cup (IF c.copies = 2 THEN own ELSE {})
        <5>1. Summed({}) = {}
          BY DEF Summed
        <5> DEFINE data == Chromas(k, T, Own(w))
        <5>2. /\ buffers'[w][k].weight = b[k].weight \cup (IF c.copies = 1 THEN own ELSE {})
              /\ buffers'[w][k + 1].weight = b[k + 1].weight \cup (IF c.copies = 3 THEN own ELSE {})
              /\ buffers'[w][k].chroma = b[k].chroma \cup (IF c.copies = 0 THEN data ELSE {})
              /\ buffers'[w][k + 1].chroma = b[k + 1].chroma \cup (IF c.copies = 2 THEN data ELSE {})
          BY <1>1, <1>6, <3>6, CopyFacts
        <5>3. Summed(data) = own
          BY SummedFacts
        <5> HIDE DEF data, own
        <5>4. \A A, B : Summed(A \cup B) = Summed(A) \cup Summed(B)
          BY SummedFacts
        <5> QED
          BY <5>1, <5>2, <5>3, <5>4
      <4>3. /\ due => IF c.copies = 1 THEN Summed(b[k].chroma) = b[k].weight \cup own
                                      ELSE Summed(b[k].chroma) = b[k].weight
            /\ IF c.copies = 3 THEN Summed(b[k + 1].chroma) = b[k + 1].weight \cup own
                               ELSE Summed(b[k + 1].chroma) = b[k + 1].weight
        BY <1>1, <1>6, <4>1 DEF SumsGrow, Level
      <4> HIDE DEF own, due
      <4>4. /\ due => IF d.copies = 1 THEN Summed(buffers'[w][k].chroma) = buffers'[w][k].weight \cup own
                                      ELSE Summed(buffers'[w][k].chroma) = buffers'[w][k].weight
            /\ IF d.copies = 3 THEN Summed(buffers'[w][k + 1].chroma) = buffers'[w][k + 1].weight \cup own
                               ELSE Summed(buffers'[w][k + 1].chroma) = buffers'[w][k + 1].weight
        <5> DEFINE n == c.copies
                   w0 == b[k].weight
                   s0 == Summed(b[k].chroma)
                   w1 == b[k + 1].weight
                   s1 == Summed(b[k + 1].chroma)
        <5>1. due => IF n + 1 = 1
                       THEN s0 \cup (IF n = 0 THEN own ELSE {}) = (w0 \cup (IF n = 1 THEN own ELSE {})) \cup own
                       ELSE s0 \cup (IF n = 0 THEN own ELSE {}) = w0 \cup (IF n = 1 THEN own ELSE {})
          <6> HIDE DEF n, w0, s0
          <6> QED
            BY <4>1, <4>3, FirstLevelAcrossACopy DEF n, w0, s0
        <5>2. IF n + 1 = 3
                THEN s1 \cup (IF n = 2 THEN own ELSE {}) = (w1 \cup (IF n = 3 THEN own ELSE {})) \cup own
                ELSE s1 \cup (IF n = 2 THEN own ELSE {}) = w1 \cup (IF n = 3 THEN own ELSE {})
          <6> HIDE DEF n, w1, s1
          <6> QED
            BY <4>1, <4>3, SecondLevelAcrossACopy DEF n, w1, s1
        <5> QED
          BY <4>1, <4>2, <5>1, <5>2
      <4>5. SumsGrow(w)'
        BY <1>2, <4>1, <4>4 DEF SumsGrow, Level, Together, own, due
      <4> QED
        BY <2>1, <4>1, <4>5
    <3>7. CASE Waits(w)
      <4>1. /\ d.k = k /\ d.area = c.area /\ d.previous = c.previous /\ d.copies = c.copies
            /\ buffers'[w] = b /\ last'[w] = last[w]
            /\ c.pc \in {"gaveUp"} \cup ChunkPCs \cup GpuPCs
            /\ d.pc \in {"gaveUp", "finish"} \cup ChunkPCs \cup GpuPCs
            /\ d.pc = "download" => c.pc = "batch"
            /\ c.pc = "download" => d.pc = "finish"
            /\ d.pc = "finish" => ~d.ok
        BY <3>7 DEF Waits, Same
      <4>2. (c.pc = "batch" => c.copies = 0) /\ (c.pc = "download" => ~Together)
        BY <1>1, <1>6, <2>4, <3>2 DEF Placed, InItsPipeline, GpuPCs
      <4>3. c.pc # "download" => (due => Level(b[k])) /\ Level(b[k + 1])
        BY <1>1, <1>6, <2>4, <4>1 DEF SumsGrow, ChunkPCs, GpuPCs
      <4>4. SumsGrow(w)'
        BY <1>2, <4>1, <4>2, <4>3 DEF SumsGrow, Level, Together, ChunkPCs, GpuPCs
      <4> QED
        BY <2>1, <4>1, <4>4
    <3>8. CASE Finishes(w)
      <4>1. /\ c.pc = "finish"
            /\ \/ d.pc = "idle"
               \/ d.pc = "frame" /\ d.k = k + 1 /\ d.area = c.area /\ d.previous = c.ok
            /\ buffers'[w] = [f \in DOMAIN b \ {k} |-> b[f]]
            /\ last'[w] = [kind |-> IF c.ok THEN "nn" ELSE "2d", k |-> k, area |-> c.area,
                           chroma |-> b[k].chroma, weight |-> b[k].weight, previous |-> c.previous]
        BY <3>8 DEF Finishes
      <4>2. c.ok \/ Together => (due => Level(b[k])) /\ Level(b[k + 1])
        BY <1>1, <1>6, <4>1 DEF SumsGrow
      <4>3. LastIsLevel(w)'
        <5>1. /\ last'[w].kind = IF c.ok THEN "nn" ELSE "2d"
              /\ last'[w].k = k /\ last'[w].weight = b[k].weight /\ last'[w].chroma = b[k].chroma
              /\ last'[w].previous = c.previous
          BY <4>1
        <5> QED
          BY <1>2, <4>2, <5>1 DEF LastIsLevel, Level, Together
      <4>4. d.pc = "frame" => Buffer(w, k)' = b[k + 1]
        BY <3>1, <4>1 DEF Buffer
      <4>5. k + 1 # 0
        BY <3>1
      <4>6. SumsGrow(w)'
        BY <1>2, <4>1, <4>2, <4>4, <4>5 DEF SumsGrow, Level, Together
      <4> QED
        BY <4>3, <4>6
    <3> QED
      BY <1>6, <2>2, <2>3, <3>4, <3>5, <3>6, <3>7, <3>8, TiledSteps
  <2>5. CASE c.pc \in {"idle", "frame"}
    <3>1. Starts(w) \/ Enters(w)
      BY <1>6, <2>5, TiledSteps DEF Copies, Waits, Finishes, SumsUpTo, SumsChunk, ChunkPCs, GpuPCs
    <3> QED
      BY <2>2, <2>3, <3>1
  <2> QED
    BY <2>4, <2>5
<1> QED
  BY <1>5, <1>6

\* With the resident path on, a thread that is alone is the only one.
LEMMA OnlyOne ==
  ASSUME Alone, resident, threads \subseteq Workers, NEW v \in threads, NEW w \in threads
  PROVE  v = w
<1> SUFFICES ASSUME v # w PROVE FALSE
  OBVIOUS
<1>1. IsFiniteSet(threads)
  BY NnAssumption, FS_Subset
<1>2. IsFiniteSet({v}) /\ Cardinality({v}) = 1
  BY FS_Singleton
<1>3. Cardinality({v} \cup {w}) = 2
  <2>1. w \notin {v}
    OBVIOUS
  <2> QED
    BY <1>2, <2>1, FS_AddElement
<1>4. Cardinality({v} \cup {w}) <= Cardinality(threads)
  <2>1. {v} \cup {w} \in SUBSET threads
    OBVIOUS
  <2> QED
    BY <1>1, <2>1, FS_Subset
<1>5. Cardinality(threads) \in Nat
  BY <1>1, FS_CardinalityType
<1> QED
  BY <1>3, <1>4, <1>5 DEF Alone

\* Only the resident steps lead to one another, each writing the buffer the next one reads.
LEMMA ResidentSteps ==
  ASSUME DecodeTypeOK, NEW w \in Workers, WorkerNext(w)
  PROVE  /\ work'[w].pc = "forward" => mps'.tiles = Own(w)
         /\ work'[w].pc = "mask" => work[w].pc = "forward" /\ mps'.spectrum = mps.tiles
         /\ work'[w].pc = "inverse" =>
              work[w].pc = "mask" /\ mps'.mask = mps.spectrum /\ mps'.spectrum = mps.spectrum
         /\ work'[w].pc = "fetch" =>
              /\ work[w].pc = "inverse"
              /\ mps'.result = IF mps.mask = mps.spectrum THEN mps.spectrum ELSE NoData
<1> DEFINE c == work[w]
           d == work'[w]
<1>1. c \in Calls /\ w \in DOMAIN work /\ mps \in [tiles : Data, spectrum : Data, mask : Data, result : Data]
  BY DEF DecodeTypeOK
<1>2. CASE Upload(w)
  <2>1. d.pc = "forward"
    BY <1>1, <1>2 DEF Upload, Step, Calls
  <2> QED
    BY <1>1, <1>2, <2>1 DEF Upload
<1>3. CASE ForwardFFT(w) \/ PredictResident(w) \/ InverseFFT(w)
  <2>1. \/ /\ d = [c EXCEPT !.pc = "mask"] /\ c.pc = "forward"
           /\ mps' = [mps EXCEPT !.spectrum = mps.tiles]
        \/ /\ d = [c EXCEPT !.pc = "inverse"] /\ c.pc = "mask"
           /\ mps' = [mps EXCEPT !.mask = mps.spectrum]
        \/ /\ d = [c EXCEPT !.pc = "fetch"] /\ c.pc = "inverse"
           /\ mps' = [mps EXCEPT !.result = IF mps.mask = mps.spectrum THEN mps.spectrum ELSE NoData]
        \/ d = [c EXCEPT !.pc = "chunk", !.onGpu = FALSE]
    BY <1>1, <1>3 DEF ForwardFFT, PredictResident, InverseFFT, ResidentStep, AfterResidentFailure, Step, At
  <2>2. CASE d = [c EXCEPT !.pc = "mask"] /\ c.pc = "forward" /\ mps' = [mps EXCEPT !.spectrum = mps.tiles]
    <3>1. d.pc = "mask"
      BY <1>1, <2>2 DEF Calls
    <3> QED
      BY <1>1, <2>2, <3>1
  <2>3. CASE d = [c EXCEPT !.pc = "inverse"] /\ c.pc = "mask" /\ mps' = [mps EXCEPT !.mask = mps.spectrum]
    <3>1. d.pc = "inverse"
      BY <1>1, <2>3 DEF Calls
    <3> QED
      BY <1>1, <2>3, <3>1
  <2>4. CASE /\ d = [c EXCEPT !.pc = "fetch"] /\ c.pc = "inverse"
             /\ mps' = [mps EXCEPT !.result = IF mps.mask = mps.spectrum THEN mps.spectrum ELSE NoData]
    <3>1. d.pc = "fetch"
      BY <1>1, <2>4 DEF Calls
    <3> QED
      BY <1>1, <2>4, <3>1
  <2>5. CASE d = [c EXCEPT !.pc = "chunk", !.onGpu = FALSE]
    <3>1. d.pc = "chunk"
      BY <1>1, <2>5 DEF Calls
    <3> QED
      BY <3>1
  <2> QED
    BY <2>1, <2>2, <2>3, <2>4, <2>5
<1>4. ASSUME ~Upload(w), ~(ForwardFFT(w) \/ PredictResident(w) \/ InverseFFT(w))
      PROVE  d.pc \notin {"forward", "mask", "inverse", "fetch"}
  <2>1. CASE StartCall(w)
    <3>1. PICK n \in 1 .. MaxBatch,
               a \in (IF kind = "nnTransform3D" THEN Areas ELSE {NoArea}),
               p \in (IF kind = "nnTransform3D" THEN {<<>>} ELSE FrameFields) :
            Step(w, [NoCall EXCEPT !.pc = "frame", !.frames = n, !.area = a, !.pair = p, !.chunk = 1,
                                   !.calls = c.calls + 1])
      BY <2>1 DEF StartCall
    <3> QED
      BY <1>1, <3>1 DEF Step, NoCall
  <2>2. CASE BeginFrame(w)
    <3>1. d = [c EXCEPT !.pc = Pipeline, !.chunk = 1, !.copies = 0, !.onGpu = resident, !.ok = FALSE]
      BY <1>1, <2>2 DEF BeginFrame, Step
    <3>2. d.pc = Pipeline /\ Pipeline \in {"chunk", "cache", "cpu"}
      BY <1>1, <3>1 DEF Calls, Pipeline
    <3> QED
      BY <3>2
  <2>3. CASE ~StartCall(w) /\ ~BeginFrame(w)
    <3>1. \/ \E b \in BOOLEAN : d = [c EXCEPT !.pc = "finish", !.ok = b]
          \/ \E pc \in {"windows", "batch", "download", "fallback"} : d = [c EXCEPT !.pc = pc]
          \/ \E pc \in {"finish", "download"} : \E b \in BOOLEAN : d = [c EXCEPT !.copies = @ + 1, !.pc = pc, !.ok = b]
          \/ d = [c EXCEPT !.pc = "chunk", !.chunk = @ + 1]
          \/ d = [c EXCEPT !.pc = "frame", !.chunk = 2]
          \/ d = [c EXCEPT !.pc = "predict", !.snap = engine, !.triedCpu = FALSE]
          \/ \E b \in BOOLEAN : d = [c EXCEPT !.pc = "gaveUp", !.triedCpu = b]
          \/ d = NnIdle(c)
          \/ d = [c EXCEPT !.pc = "frame", !.k = @ + 1, !.chunk = 1, !.previous = c.ok]
      <4>1. CASE CpuBody(w) \/ EnsureBatchCapacity(w) \/ EnsureWindows(w) \/ Batch(w)
        <5>1. \/ \E b \in BOOLEAN : Step(w, [c EXCEPT !.pc = "finish", !.ok = b])
              \/ Step(w, [c EXCEPT !.pc = "windows"]) \/ Step(w, [c EXCEPT !.pc = "batch"])
              \/ Step(w, [c EXCEPT !.pc = "download"])
          <6>1. CASE CpuBody(w)
            BY <6>1 DEF CpuBody
          <6>2. CASE EnsureBatchCapacity(w)
            BY <6>2 DEF EnsureBatchCapacity, Failed
          <6>3. CASE EnsureWindows(w)
            BY <6>3 DEF EnsureWindows, Failed
          <6>4. CASE Batch(w)
            BY <6>4 DEF Batch, Failed
          <6> QED
            BY <4>1, <6>1, <6>2, <6>3, <6>4
        <5> QED
          BY <1>1, <5>1 DEF Step
      <4>2. CASE Download(w)
        <5> DEFINE fourth == c.copies = CopiesToMake - 1
                   pc == IF fourth THEN "finish" ELSE "download"
        <5>1. \/ Step(w, [c EXCEPT !.copies = @ + 1, !.pc = pc, !.ok = fourth])
              \/ Step(w, [c EXCEPT !.pc = "finish", !.ok = FALSE])
          BY <4>2 DEF Download, Failed
        <5>2. pc \in {"finish", "download"}
          OBVIOUS
        <5>3. fourth \in BOOLEAN
          OBVIOUS
        <5> HIDE DEF pc, fourth
        <5> QED
          BY <1>1, <5>1, <5>2, <5>3 DEF Step
      <4>3. CASE DownloadIfft(w) \/ Predict(w) \/ FallBackToCpu(w) \/ RunSession(w)
        <5>1. NextChunk(w) \/ DeliverRows(w) \/ (\E b \in BOOLEAN : GivesUp(w, b)) \/ Step(w, [c EXCEPT !.pc = "fallback"])
          BY <4>3 DEF DownloadIfft, Predict, FallBackToCpu, RunSession, Deliver
        <5> QED
          BY <1>1, <5>1 DEF NextChunk, DeliverRows, GivesUp, Step
      <4>4. CASE SnapshotModel(w) \/ InferenceThrows(w) \/ Finish(w)
        BY <1>1, <4>4 DEF SnapshotModel, InferenceThrows, Finish, Failed, Step
      <4> QED
        BY <1>4, <2>3, <4>1, <4>2, <4>3, <4>4 DEF WorkerNext
    <3>2. NnIdle(c).pc = "idle"
      BY DEF NnIdle, NoCall
    <3> HIDE DEF c, d
    <3>3. d.pc \in {"finish", "windows", "batch", "download", "fallback", "chunk", "frame", "predict",
                    "gaveUp", "idle"}
      <4>1. CASE \E b \in BOOLEAN : d = [c EXCEPT !.pc = "finish", !.ok = b]
        BY <1>1, <4>1 DEF Calls
      <4>2. CASE \E pc \in {"windows", "batch", "download", "fallback"} : d = [c EXCEPT !.pc = pc]
        BY <1>1, <4>2 DEF Calls
      <4>3. CASE \E pc \in {"finish", "download"} :
                   \E b \in BOOLEAN : d = [c EXCEPT !.copies = @ + 1, !.pc = pc, !.ok = b]
        BY <1>1, <4>3 DEF Calls
      <4>4. CASE d = [c EXCEPT !.pc = "chunk", !.chunk = @ + 1]
        BY <1>1, <4>4 DEF Calls
      <4>5. CASE d = [c EXCEPT !.pc = "frame", !.chunk = 2]
        BY <1>1, <4>5 DEF Calls
      <4>6. CASE d = [c EXCEPT !.pc = "predict", !.snap = engine, !.triedCpu = FALSE]
        BY <1>1, <4>6 DEF Calls
      <4>7. CASE \E b \in BOOLEAN : d = [c EXCEPT !.pc = "gaveUp", !.triedCpu = b]
        BY <1>1, <4>7 DEF Calls
      <4>8. CASE d = NnIdle(c)
        BY <3>2, <4>8
      <4>9. CASE d = [c EXCEPT !.pc = "frame", !.k = @ + 1, !.chunk = 1, !.previous = c.ok]
        BY <1>1, <4>9 DEF Calls
      <4> QED
        BY <3>1, <4>1, <4>2, <4>3, <4>4, <4>5, <4>6, <4>7, <4>8, <4>9
    <3> QED
      BY <3>3
  <2> QED
    BY <2>1, <2>2, <2>3
<1> QED
  BY <1>2, <1>3, <1>4

\* Only the resident path touches the shared buffers.
LEMMA SharedBuffers ==
  ASSUME DecodeTypeOK, Placed, NEW w \in Workers, WorkerNext(w)
  PROVE  mps' = mps \/ (work[w].pc # "idle" /\ work[w].onGpu)
<1>1. CASE Upload(w)
  BY <1>1 DEF Upload, At
<1>2. CASE ForwardFFT(w) \/ PredictResident(w) \/ InverseFFT(w)
  <2>1. work[w].pc \in {"forward", "mask", "inverse"}
    BY <1>2 DEF ForwardFFT, PredictResident, InverseFFT, ResidentStep, At
  <2> QED
    BY <2>1 DEF Placed, InItsPipeline
<1>3. CASE ~(Upload(w) \/ ForwardFFT(w) \/ PredictResident(w) \/ InverseFFT(w))
  BY <1>3 DEF WorkerNext, StartCall, BeginFrame, CpuBody, Finish, EnsureBatchCapacity, EnsureWindows,
       Batch, Download, DownloadIfft, SnapshotModel, Predict, FallBackToCpu, InferenceThrows, RunSession
<1> QED
  BY <1>1, <1>2, <1>3

\* What a chunk, a frame or a copy adds to a sum is its own.
LEMMA OwnAdded ==
  ASSUME NEW w, NEW a, NEW k, NEW chunk, NEW tiles,
         active = "COREML" => tiles \subseteq TilesOfChunk(a, chunk)
  PROVE  OwnTiles(w, a, Chromas(k, tiles, <<w, k, chunk>>))
<1> SUFFICES ASSUME NEW n \in tiles, NEW c, c = <<k, n, <<w, k, chunk>>>>
             PROVE  /\ c[3][1] = w /\ c[3][2] = c[1]
                    /\ active = "COREML" => c[2] \in TilesOfChunk(a, c[3][3])
  BY DEF OwnTiles, Chromas
<1> QED
  OBVIOUS

LEMMA OwnUnion ==
  ASSUME NEW w, NEW a, NEW A, NEW B, OwnTiles(w, a, A), OwnTiles(w, a, B)
  PROVE  OwnTiles(w, a, A \cup B)
BY DEF OwnTiles

LEMMA OwnStep ==
  ASSUME IInv, NEW w \in Workers, WorkerNext(w)
  PROVE  OwnEverywhere'
<1> DEFINE c == work[w]
           d == work'[w]
           k == c.k
           b == buffers[w]
           LastIsOwn(v) == OwnTiles(v, last[v].area, last[v].chroma)
<1>1. DecodeTypeOK /\ TypeOK /\ Placed /\ InItsPipeline(w)
  BY DEF IInv, TypeOK, Placed
<1>2. /\ kind' = kind /\ active' = active /\ threads' = threads /\ resident' = resident
      /\ threads \subseteq Workers
  BY <1>1, WorkerKeepsTheModel DEF modelVars, DecodeTypeOK
<1>3. SUFFICES ASSUME Alone
               PROVE  \A v \in Workers : OwnBuffers(v)' /\ LastIsOwn(v)'
  BY <1>2 DEF OwnEverywhere, Alone
<1>4. \A v \in Workers : OwnBuffers(v) /\ LastIsOwn(v)
  BY <1>3 DEF IInv, OwnEverywhere
<1>5. \A v \in Workers \ {w} : OwnBuffers(v)' /\ LastIsOwn(v)'
  <2> TAKE v \in Workers \ {w}
  <2>1. work'[v] = work[v] /\ buffers'[v] = buffers[v] /\ last'[v] = last[v]
    BY <1>1, OthersKept
  <2>2. LastIsOwn(v)'
    BY <1>2, <1>4, <2>1 DEF OwnTiles
  <2>3. mps' = mps \/ work[v].pc \notin {"forward", "mask", "inverse", "fetch"}
    <3> SUFFICES ASSUME mps' # mps, work[v].pc \in {"forward", "mask", "inverse", "fetch"}
                 PROVE  FALSE
      OBVIOUS
    <3>1. c.pc # "idle" /\ c.onGpu
      BY <1>1, SharedBuffers
    <3>2. w \in threads /\ resident
      BY <1>1, <3>1 DEF InItsPipeline
    <3>3. v \in threads
      BY <1>1 DEF Placed, InItsPipeline
    <3> QED
      BY <1>2, <1>3, <3>2, <3>3, OnlyOne
  <2>4. OwnBuffers(v) /\ Own(v)' = Own(v)
    BY <1>4, <2>1 DEF Own
  <2>5. OwnBuffers(v)'
    BY <1>2, <2>1, <2>3, <2>4 DEF OwnBuffers, OwnTiles
  <2> QED
    BY <2>2, <2>5
<1>6. SUFFICES OwnBuffers(w)' /\ LastIsOwn(w)'
  BY <1>5
<1>7. CASE kind # Tiled
  <2>1. last'[w] = last[w] \/ last'[w].chroma = {}
    BY <1>1, <1>7, RowFrames
  <2>2. LastIsOwn(w)'
    BY <1>2, <1>4, <2>1 DEF OwnTiles
  <2> QED
    BY <1>2, <1>7, <2>2 DEF OwnBuffers
<1>8. CASE kind = Tiled
  <2>1. ASSUME last'[w] = last[w] \/ last'[w] = NoFrame PROVE LastIsOwn(w)'
    BY <1>2, <1>4, <2>1 DEF OwnTiles, NoFrame
  <2> HIDE DEF LastIsOwn
  <2>2. CASE Starts(w)
    <3>1. d.pc = "frame" /\ DOMAIN buffers'[w] = {} /\ last'[w] = NoFrame
      BY <2>2 DEF Starts
    <3>2. OwnBuffers(w)'
      BY <1>2, <3>1 DEF OwnBuffers
    <3> QED
      BY <2>1, <3>1, <3>2
  <2>3. CASE Enters(w)
    <3>1. /\ c.pc = "frame" /\ d.pc \in {"chunk", "cache", "cpu"} /\ d.area = c.area
          /\ buffers'[w] = [f \in {k, k + 1} |-> Buffer(w, f)] /\ last'[w] = NoFrame
      BY <2>3 DEF Enters, Same
    <3>2. \A f \in DOMAIN b : OwnTiles(w, c.area, b[f].chroma)
      BY <1>4, <1>8, <3>1 DEF OwnBuffers
    <3>3. \A f \in {k, k + 1} : OwnTiles(w, c.area, Buffer(w, f).chroma)
      BY <3>2 DEF Buffer, Empty, OwnTiles
    <3>4. \A f \in DOMAIN buffers'[w] : OwnTiles(w, d.area, buffers'[w][f].chroma)
      BY <3>1, <3>3
    <3>5. OwnBuffers(w)'
      BY <1>2, <3>1, <3>4 DEF OwnBuffers, OwnTiles
    <3> QED
      BY <2>1, <3>1, <3>5
  <2>4. CASE c.pc \notin {"idle", "frame"}
    <3>1. /\ k \in Nat /\ c.area \in Areas /\ Typed(b) /\ Tiles(c.area) \in SUBSET Nat /\ Own(w) \in Data
          /\ \A x : TilesOfChunk(c.area, x) \in SUBSET Nat
          /\ DOMAIN b = {k, k + 1}
      BY <1>1, <1>8, <2>4, CallFacts
    <3>2. \A f \in DOMAIN b : OwnTiles(w, c.area, b[f].chroma)
      BY <1>4, <1>8, <2>4 DEF OwnBuffers
    <3>3. ASSUME NEW tiles \in SUBSET Nat, Sums(w, tiles, Own(w)), d.pc \in {"chunk", "finish"},
                 active = "COREML" => tiles \subseteq TilesOfChunk(c.area, c.chunk)
          PROVE  OwnBuffers(w)' /\ LastIsOwn(w)'
      <4>1. buffers'[w] = Added(b, k, tiles, Own(w)) /\ d.area = c.area /\ last'[w] = last[w]
        BY <3>3 DEF Sums, Same
      <4>2. DOMAIN buffers'[w] = DOMAIN b
        BY <4>1 DEF Added
      <4>3. OwnTiles(w, c.area, Chromas(k, tiles, Own(w)))
        BY <3>3, OwnAdded DEF Own
      <4>4. ASSUME NEW f \in DOMAIN b PROVE OwnTiles(w, d.area, buffers'[w][f].chroma)
        <5>1. k \in Nat /\ Typed(b) /\ tiles \in SUBSET Nat /\ Own(w) \in Data
          BY <3>1, <3>3
        <5> HIDE DEF b, k
        <5>2. Added(b, k, tiles, Own(w))[f].chroma = b[f].chroma \cup Chromas(k, tiles, Own(w))
          BY <4>4, <5>1, AddedAt
        <5>3. OwnTiles(w, c.area, b[f].chroma)
          BY <3>2
        <5> QED
          BY <4>1, <4>3, <5>2, <5>3, OwnUnion
      <4>5. OwnBuffers(w)'
        BY <1>2, <3>3, <4>2, <4>4 DEF OwnBuffers, OwnTiles
      <4> QED
        BY <2>1, <4>1, <4>5
    <3>4. ASSUME NEW n \in 0 .. NumBlocks(c.area), SumsUpTo(w, n)
          PROVE  OwnBuffers(w)' /\ LastIsOwn(w)'
      <4>1. active # "COREML"
        BY <1>1, <3>4 DEF SumsUpTo, InItsPipeline
      <4> QED
        BY <3>3, <3>4, <4>1, 1 .. n \in SUBSET Nat DEF SumsUpTo
    <3>5. ASSUME NEW data \in Data, SumsChunk(w, data)
          PROVE  OwnBuffers(w)' /\ LastIsOwn(w)'
      <4>1. data = Own(w)
        BY <1>4, <1>8, <3>5 DEF SumsChunk, OwnBuffers
      <4> QED
        BY <3>1, <3>3, <3>5, <4>1 DEF SumsChunk
    <3>6. CASE Copies(w)
      <4>1. /\ c.pc = "download" /\ d.pc \in {"finish", "download"} /\ d.area = c.area /\ last'[w] = last[w]
        BY <3>6 DEF Copies, Same
      <4> DEFINE data == Chromas(k, Tiles(c.area), Own(w))
      <4>2. /\ DOMAIN buffers'[w] = {k, k + 1}
            /\ buffers'[w][k].chroma = b[k].chroma \cup (IF c.copies = 0 THEN data ELSE {})
            /\ buffers'[w][k + 1].chroma = b[k + 1].chroma \cup (IF c.copies = 2 THEN data ELSE {})
        BY <1>1, <1>8, <3>6, CopyFacts
      <4>3. active # "COREML"
        BY <1>1, <4>1 DEF InItsPipeline, GpuPCs
      <4>4. OwnTiles(w, c.area, data) /\ OwnTiles(w, c.area, {})
        BY <4>3, OwnAdded DEF Own, OwnTiles
      <4> HIDE DEF data
      <4>5. \A f \in DOMAIN buffers'[w] : OwnTiles(w, c.area, buffers'[w][f].chroma)
        BY <3>1, <3>2, <4>2, <4>4, OwnUnion
      <4>6. OwnBuffers(w)'
        BY <1>2, <4>1, <4>5 DEF OwnBuffers, OwnTiles
      <4> QED
        BY <2>1, <4>1, <4>6
    <3>7. CASE Waits(w)
      <4>1. /\ d.area = c.area /\ buffers'[w] = b /\ last'[w] = last[w] /\ Own(w)' = Own(w)
        BY <3>7 DEF Waits, Same, Own
      <4>2. /\ c.pc = "forward" => mps.tiles = Own(w)
            /\ c.pc \in {"mask", "inverse"} => mps.spectrum = Own(w)
            /\ c.pc = "inverse" => mps.mask = Own(w)
        BY <1>4, <1>8, <2>4 DEF OwnBuffers
      <4>3. /\ d.pc = "forward" => mps'.tiles = Own(w)
            /\ d.pc \in {"mask", "inverse"} => mps'.spectrum = Own(w)
            /\ d.pc = "inverse" => mps'.mask = Own(w)
            /\ d.pc = "fetch" => mps'.result = Own(w)
        BY <1>1, <4>2, ResidentSteps
      <4>4. OwnBuffers(w)'
        BY <1>2, <3>2, <4>1, <4>3 DEF OwnBuffers, OwnTiles
      <4> QED
        BY <2>1, <4>1, <4>4
    <3>8. CASE Finishes(w)
      <4>1. /\ d.pc = "idle" \/ (d.pc = "frame" /\ d.area = c.area)
            /\ buffers'[w] = [f \in DOMAIN b \ {k} |-> b[f]]
            /\ last'[w].chroma = b[k].chroma /\ last'[w].area = c.area
        BY <3>8 DEF Finishes
      <4>2. LastIsOwn(w)'
        BY <1>2, <3>1, <3>2, <4>1 DEF LastIsOwn, OwnTiles
      <4>3. \A f \in DOMAIN buffers'[w] : OwnTiles(w, c.area, buffers'[w][f].chroma)
        BY <3>2, <4>1
      <4>4. OwnBuffers(w)'
        BY <1>2, <4>1, <4>3 DEF OwnBuffers, OwnTiles
      <4> QED
        BY <4>2, <4>4
    <3>9. ~Enters(w)
      BY <2>4 DEF Enters
    <3> QED
      BY <1>8, <2>2, <3>4, <3>5, <3>6, <3>7, <3>8, <3>9, TiledSteps
  <2>5. CASE c.pc \in {"idle", "frame"}
    <3>1. Starts(w) \/ Enters(w)
      BY <1>8, <2>5, TiledSteps DEF Copies, Waits, Finishes, SumsUpTo, SumsChunk, ChunkPCs, GpuPCs
    <3> QED
      BY <2>2, <2>3, <3>1
  <2> QED
    BY <2>4, <2>5
<1> QED
  BY <1>7, <1>8

\* The steps that leave the thread's GPU cache alone lead to none that uses it.
LEMMA CacheSteps ==
  ASSUME IInv, NEW w \in Workers, WorkerNext(w),
         ~EnsureBatchCapacity(w), ~EnsureWindows(w), ~Batch(w), ~Download(w)
  PROVE  device' = device /\ work'[w].pc \notin {"windows", "batch", "download"}
<1> DEFINE c == work[w]
           d == work'[w]
<1>1. device' = device
  BY DEF WorkerNext, StartCall, BeginFrame, CpuBody, Finish, Upload, ForwardFFT, PredictResident,
         InverseFFT, ResidentStep, DownloadIfft, SnapshotModel, Predict, FallBackToCpu,
         InferenceThrows, RunSession
<1>2. DecodeTypeOK /\ TypeOK /\ Placed /\ InItsPipeline(w) /\ InItsPipeline(w)'
  BY PlacedStep DEF IInv, TypeOK, Placed
<1>3. kind' = kind /\ active' = active
  BY WorkerKeepsTheModel DEF modelVars
<1>4. c.pc \notin GpuPCs
  BY DEF GpuPCs, At, WorkerNext, StartCall, BeginFrame, CpuBody, Finish, Upload, ForwardFFT,
         PredictResident, InverseFFT, ResidentStep, DownloadIfft, SnapshotModel, InferencePoint,
         Predict, FallBackToCpu, InferenceThrows, RunSession
<1>5. SUFFICES ASSUME d.pc \in {"windows", "batch", "download"} PROVE FALSE
  BY <1>1
<1>6. kind = Tiled /\ active # "COREML"
  BY <1>2, <1>3, <1>5 DEF InItsPipeline, RowPCs, GpuPCs
<1>7. c.pc = "gaveUp"
  <2>1. Waits(w) \/ c.pc = "download" \/ c.pc \in ChunkPCs
    BY <1>5, <1>6, TiledSteps DEF Starts, Enters, SumsUpTo, SumsChunk, Copies, Finishes
  <2> QED
    BY <1>2, <1>4, <1>6, <2>1 DEF Waits, InItsPipeline, GpuPCs, ChunkPCs
<1>8. InferenceThrows(w)
  BY <1>7 DEF At, WorkerNext, StartCall, BeginFrame, CpuBody, Finish, EnsureBatchCapacity,
         EnsureWindows, Batch, Download, Upload, ForwardFFT, PredictResident, InverseFFT,
         ResidentStep, DownloadIfft, SnapshotModel, InferencePoint, Predict, FallBackToCpu, RunSession
<1>9. d = [c EXCEPT !.pc = "finish", !.ok = FALSE] /\ c \in Calls
  BY <1>2, <1>6, <1>8 DEF InferenceThrows, Failed, Step, DecodeTypeOK, Tiled
<1> QED
  BY <1>5, <1>9 DEF Calls

LEMMA CachesStep ==
  ASSUME IInv, NEW w \in Workers, WorkerNext(w)
  PROVE  Caches'
<1> DEFINE c == work[w]
           d == work'[w]
           g == device[w]
           n == NumBlocks(c.area)
<1>1. DecodeTypeOK /\ CacheFits(w) /\ c \in Calls /\ g \in GpuCaches /\ w \in DOMAIN work /\ w \in DOMAIN device
  BY DEF IInv, TypeOK, Caches, DecodeTypeOK
<1>2. \A v \in Workers \ {w} : CacheFits(v)'
  <2> TAKE v \in Workers \ {w}
  <2>1. work'[v] = work[v] /\ device'[v] = device[v]
    BY <1>1, OthersKept
  <2> QED
    BY <2>1 DEF IInv, Caches, CacheFits
<1>3. SUFFICES CacheFits(w)'
  BY <1>2 DEF Caches
<1>4. /\ \A pc \in PCs : [c EXCEPT !.pc = pc].pc = pc /\ [c EXCEPT !.pc = pc].area = c.area
      /\ [c EXCEPT !.pc = "finish", !.ok = FALSE].pc = "finish"
  BY <1>1 DEF Calls
<1>5. CASE EnsureBatchCapacity(w)
  <2>1. CASE d = [c EXCEPT !.pc = "windows"] /\ device' = device /\ g.blocks = n /\ g.plans
    <3>1. d.pc = "windows" /\ d.area = c.area
      BY <1>4, <2>1 DEF PCs, GpuPCs
    <3> QED
      BY <1>1, <2>1, <3>1 DEF CacheFits
  <2>2. CASE d = [c EXCEPT !.pc = "windows"] /\ device'[w] = [g EXCEPT !.blocks = n, !.plans = TRUE, !.size = n]
    <3>1. d.pc = "windows" /\ d.area = c.area
      BY <1>4, <2>2 DEF PCs, GpuPCs
    <3>2. device'[w].plans = TRUE /\ device'[w].size = n /\ device'[w].blocks = n
      BY <1>1, <2>2 DEF GpuCaches
    <3> QED
      BY <3>1, <3>2 DEF CacheFits
  <2>3. CASE d = [c EXCEPT !.pc = "finish", !.ok = FALSE] /\ device'[w] = [g EXCEPT !.plans = FALSE, !.size = 0]
    <3>1. d.pc = "finish" /\ device'[w].plans = FALSE
      BY <1>1, <1>4, <2>3 DEF GpuCaches
    <3> QED
      BY <3>1 DEF CacheFits
  <2> QED
    BY <1>1, <1>5, <2>1, <2>2, <2>3 DEF EnsureBatchCapacity, CacheHit, Failed, Step
<1>6. CASE EnsureWindows(w)
  <2>1. c.pc = "windows" /\ (d = [c EXCEPT !.pc = "batch"] \/ d = [c EXCEPT !.pc = "finish", !.ok = FALSE])
    BY <1>1, <1>6 DEF EnsureWindows, At, Failed, Step
  <2>2. d.pc = "finish" \/ (d.pc = "batch" /\ d.area = c.area)
    BY ZenonT(60), <1>4, <2>1 DEF PCs, GpuPCs
  <2>3. device' = device \/ \E x : device' = [device EXCEPT ![w].windows = x]
    BY <1>6 DEF EnsureWindows
  <2>4. device'[w].plans = g.plans /\ device'[w].size = g.size /\ device'[w].blocks = g.blocks
    BY <1>1, <2>3 DEF GpuCaches
  <2> QED
    BY <1>1, <2>1, <2>2, <2>4 DEF CacheFits
<1>7. CASE Batch(w) \/ Download(w)
  <2>1. c.pc \in {"batch", "download"} /\ device' = device
    BY <1>7 DEF Batch, Download, At
  <2>2. d.area = c.area
    <3>1. CASE Batch(w)
      <4>1. d = [c EXCEPT !.pc = "download"] \/ d = [c EXCEPT !.pc = "finish", !.ok = FALSE]
        BY <1>1, <3>1 DEF Batch, Failed, Step
      <4> QED
        BY <1>1, <4>1 DEF Calls
    <3>2. CASE Download(w)
      <4> DEFINE fourth == c.copies = CopiesToMake - 1
                 pc == IF fourth THEN "finish" ELSE "download"
      <4>1. \/ d = [c EXCEPT !.copies = @ + 1, !.pc = pc, !.ok = fourth]
            \/ d = [c EXCEPT !.pc = "finish", !.ok = FALSE]
        BY <1>1, <3>2 DEF Download, Failed, Step
      <4>2. pc \in PCs /\ fourth \in BOOLEAN
        BY DEF PCs, GpuPCs
      <4> HIDE DEF pc, fourth
      <4> QED
        BY <1>1, <4>1, <4>2 DEF Calls
    <3> QED
      BY <1>7, <3>1, <3>2
  <2> QED
    BY <1>1, <2>1, <2>2 DEF CacheFits
<1>8. CASE ~(EnsureBatchCapacity(w) \/ EnsureWindows(w) \/ Batch(w) \/ Download(w))
  BY <1>1, <1>8, CacheSteps DEF CacheFits
<1> QED
  BY <1>5, <1>6, <1>7, <1>8

-----------------------------------------------------------------------------
\* The two fields of a frame interlace: each stored row is one line of one of them.
FieldOf(p, r) == IF p[1].offset = r % 2 THEN 1 ELSE 2

LEMMA Interlaced ==
  ASSUME NEW p \in FrameFields, NEW r \in StoredRows
  PROVE  /\ p[1].offset \in {0, 1} /\ p[2].offset = 1 - p[1].offset
         /\ p[1].id \in 1 .. 4 /\ p[2].id \in 1 .. 4
         /\ FieldOf(p, r) \in {1, 2} /\ r \div 2 \in FieldRows /\ r \in FrameRows
         /\ FrameLine(p, FieldOf(p, r), r \div 2) = r
         /\ \A s \in {1, 2}, y \in FieldRows :
              FrameLine(p, s, y) = r => s = FieldOf(p, r) /\ y = r \div 2
<1>1. PICK o \in {0, 1}, first \in 1 .. 4, second \in 1 .. 4 :
        p = <<[offset |-> o, id |-> first], [offset |-> 1 - o, id |-> second]>>
  BY NnAssumption
<1>2. /\ p[1].offset \in {0, 1} /\ p[2].offset = 1 - p[1].offset
      /\ p[1].id \in 1 .. 4 /\ p[2].id \in 1 .. 4
  BY <1>1
<1>3. FieldHeight \in Nat /\ r \in Nat /\ r <= (2 * FieldHeight) - 2
  BY NnAssumption DEF StoredRows
<1>4. r \div 2 \in FieldRows /\ r \in FrameRows /\ r = (2 * (r \div 2)) + (r % 2) /\ r % 2 \in {0, 1}
  BY <1>3 DEF FieldRows, FrameRows
<1>5. FieldOf(p, r) \in {1, 2} /\ p[FieldOf(p, r)].offset = r % 2
  BY <1>2, <1>4 DEF FieldOf
<1>6. ASSUME NEW s \in {1, 2}, NEW y \in FieldRows, FrameLine(p, s, y) = r
      PROVE  s = FieldOf(p, r) /\ y = r \div 2
  <2>1. p[s].offset \in {0, 1} /\ y \in Nat /\ r = (2 * y) + p[s].offset
    BY <1>2, <1>3, <1>6 DEF FrameLine, FieldRows
  <2>2. y = r \div 2 /\ p[s].offset = r % 2
    BY <1>3, <2>1
  <2> QED
    BY <1>2, <1>4, <2>2 DEF FieldOf
<1> QED
  BY <1>2, <1>4, <1>5, <1>6 DEF FrameLine

\* The burst the table holds for a row is that row's own.
OwnBurst(kd, k, p, bursts, r) ==
    LET s == FieldOf(p, r)
        y == r \div 2
    IN  bursts[TableRow(kd, p, s, y)] = [k |-> k, sub |-> s, y |-> y, sign |-> RowSign(p, s, y)]

\* The burst table of a call holds, for each row of the fields just packed, its own line's.
LEMMA MeasuredRow ==
  ASSUME NEW kd \in LdzeugKinds, NEW k, NEW p \in FrameFields, NEW table, NEW r \in StoredRows,
         NEW subs, \A s \in subs : s \in {1, 2}, FieldOf(p, r) \in subs,
         PerField(kd) => subs = {FieldOf(p, r)}
  PROVE  OwnBurst(kd, k, p, Measured(kd, k, p, subs, table), r)
<1> DEFINE s == FieldOf(p, r)
           y == r \div 2
           n == TableRow(kd, p, s, y)
           hits == {e \in subs \X FieldRows : TableRow(kd, p, e[1], e[2]) = n}
<1>1. /\ s \in {1, 2} /\ y \in FieldRows /\ r \in FrameRows /\ FrameLine(p, s, y) = r
      /\ \A x \in {1, 2}, z \in FieldRows : FrameLine(p, x, z) = r => x = s /\ z = y
  BY Interlaced
<1>2. n \in FrameRows
  BY <1>1, NnAssumption DEF TableRow, FieldRows, FrameRows
<1>3. hits = {<<s, y>>}
  <2>1. <<s, y>> \in hits
    BY <1>1
  <2>2. ASSUME NEW e \in hits PROVE e = <<s, y>>
    <3>1. /\ e = <<e[1], e[2]>> /\ e[1] \in subs /\ e[2] \in FieldRows
          /\ TableRow(kd, p, e[1], e[2]) = n
      OBVIOUS
    <3>2. CASE PerField(kd)
      BY <3>1, <3>2 DEF TableRow
    <3>3. CASE ~PerField(kd)
      <4>1. FrameLine(p, e[1], e[2]) = r
        BY <1>1, <3>1, <3>3 DEF TableRow
      <4> QED
        BY <1>1, <3>1, <4>1
    <3> QED
      BY <3>2, <3>3
  <2> QED
    BY <2>1, <2>2
<1>4. s <= s
  BY <1>1
<1> DEFINE latest == CHOOSE e \in hits : \A o \in hits : o[1] <= e[1]
<1> HIDE DEF hits, n
<1>5. latest = <<s, y>> /\ hits # {}
  BY <1>3, <1>4
<1>6. Measured(kd, k, p, subs, table)[n] =
        IF hits = {} THEN table[n]
        ELSE [k |-> k, sub |-> latest[1], y |-> latest[2], sign |-> RowSign(p, latest[1], latest[2])]
  BY <1>2 DEF Measured, hits
<1> HIDE DEF latest, s, y
<1>7. Measured(kd, k, p, subs, table)[n] = [k |-> k, sub |-> s, y |-> y, sign |-> RowSign(p, s, y)]
  BY <1>5, <1>6
<1> QED
  BY <1>7 DEF OwnBurst, n, s, y

\* After an inference over some fields of a frame, their rows are true and the others kept.
LEMMA WovenRow ==
  ASSUME NEW kd \in LdzeugKinds, NEW k, NEW p \in FrameFields, NEW old, NEW r \in StoredRows,
         NEW subs, \A s \in subs : s \in {1, 2}, NEW bursts,
         Colour(kd) /\ FieldOf(p, r) \in subs => OwnBurst(kd, k, p, bursts, r)
  PROVE  /\ FieldOf(p, r) \in subs => Woven(kd, k, p, subs, bursts, old)[r] = TrueRow(kd, k, p, r)
         /\ FieldOf(p, r) \notin subs => Woven(kd, k, p, subs, bursts, old)[r] = old[r]
<1> DEFINE s == FieldOf(p, r)
           y == r \div 2
           e == CHOOSE e \in subs \X FieldRows : FrameLine(p, e[1], e[2]) = r
           Row(x) == [sub |-> x[1], y |-> x[2],
                      burst |-> IF Colour(kd) THEN bursts[TableRow(kd, p, x[1], x[2])]
                                ELSE IF r \in ActiveRows
                                  THEN [k |-> k, sub |-> x[1], y |-> x[2], sign |-> NominalSign(p, r)]
                                  ELSE Unmeasured]
<1>1. /\ s \in {1, 2} /\ y \in FieldRows /\ FrameLine(p, s, y) = r
      /\ \A x \in {1, 2}, z \in FieldRows : FrameLine(p, x, z) = r => x = s /\ z = y
      /\ p[1].offset \in {0, 1} /\ p[2].offset = 1 - p[1].offset
      /\ p[1].id \in 1 .. 4 /\ p[2].id \in 1 .. 4
  BY Interlaced
<1>2. (\E x \in subs, z \in FieldRows : FrameLine(p, x, z) = r) <=> s \in subs
  BY <1>1
<1>3. Woven(kd, k, p, subs, bursts, old)[r] = IF s \in subs THEN Row(e) ELSE old[r]
  <2> HIDE DEF s
  <2> QED
    BY <1>2 DEF Woven
<1>4. ASSUME s \in subs PROVE e = <<s, y>>
  <2>1. <<s, y>> \in subs \X FieldRows /\ FrameLine(p, <<s, y>>[1], <<s, y>>[2]) = r
    BY <1>1, <1>4
  <2>2. e \in subs \X FieldRows /\ FrameLine(p, e[1], e[2]) = r
    BY <2>1
  <2> HIDE DEF e
  <2>3. e = <<e[1], e[2]>> /\ e[1] \in subs /\ e[2] \in FieldRows
    BY <2>2
  <2>4. e[1] \in {1, 2}
    BY <2>3
  <2>5. e[1] = s /\ e[2] = y
    BY <1>1, <2>2, <2>3, <2>4
  <2> QED
    BY <2>3, <2>5
<1> DEFINE sign == IF (y % 2 = 0) = (p[s].id \in {1, 4}) THEN 1 ELSE -1
<1>5. RowSign(p, s, y) = sign
  <2>1. y % 2 \in {0, 1} /\ p[s].id \in {1, 2, 3, 4}
    BY <1>1, NnAssumption DEF FieldRows
  <2> HIDE DEF y, s
  <2> QED
    BY <2>1 DEF RowSign, FieldPhaseSign
<1>6. NominalSign(p, r) = sign
  <2>1. r % 2 \in {0, 1}
    BY NnAssumption DEF StoredRows
  <2>2. FramePhaseIDs(p)[(r % 2) + 1] = p[s].id
    BY <1>1, <2>1 DEF FramePhaseIDs, FieldOf
  <2> HIDE DEF s
  <2> QED
    BY <2>2 DEF NominalSign, LinePhase
<1>7. TrueRow(kd, k, p, r) =
        [sub |-> s, y |-> y,
         burst |-> IF Colour(kd) \/ r \in ActiveRows
                     THEN [k |-> k, sub |-> s, y |-> y, sign |-> sign]
                     ELSE Unmeasured]
  BY DEF TrueRow, FieldOf
<1>8. ASSUME s \in subs, Colour(kd)
      PROVE  bursts[TableRow(kd, p, s, y)] = [k |-> k, sub |-> s, y |-> y, sign |-> sign]
  BY <1>5, <1>8 DEF OwnBurst
<1> HIDE DEF s, y, e, sign
<1>9. ASSUME s \in subs PROVE Row(e) = TrueRow(kd, k, p, r)
  BY <1>4, <1>6, <1>7, <1>8, <1>9
<1> QED
  BY <1>3, <1>9 DEF s

\* What an inference of an ldzeug decoder leaves in the frame.
LEMMA DeliveredRows ==
  ASSUME IInv, NEW w \in Workers, kind \in LdzeugKinds,
         work[w].pc \in {"frame", "predict", "fallback"}, DeliverRows(w), kind' = kind
  PROVE  RowsGrow(w)'
<1> DEFINE c == work[w]
           d == work'[w]
           p == c.pair
           subs == IF PerField(kind) THEN {c.chunk} ELSE {1, 2}
           table == rows[w].table
           bursts == IF Colour(kind) THEN Measured(kind, c.k, p, subs, table) ELSE table
           old == IF c.chunk = 1 THEN NoRows ELSE rows[w].frame
<1>1. /\ TypeOK /\ DecodeTypeOK /\ InItsPipeline(w) /\ RowsGrow(w) /\ c \in Calls
      /\ w \in DOMAIN rows
  BY DEF IInv, TypeOK, DecodeTypeOK, Placed, Weaving
<1>2. kind # Tiled /\ p \in FrameFields /\ c.chunk \in {1, 2} /\ (c.chunk = 2 => PerField(kind))
  BY <1>1 DEF InItsPipeline, LdzeugKinds, Tiled
<1>3. rows'[w].frame = Woven(kind, c.k, p, subs, bursts, old)
  <2>1. rows' = [rows EXCEPT ![w] = [table |-> bursts, frame |-> Woven(kind, c.k, p, subs, bursts, old)]]
    BY DEF DeliverRows
  <2> HIDE DEF bursts, old, subs
  <2> QED
    BY <1>1, <2>1
<1>4. /\ d.k = c.k /\ d.pair = p
      /\ IF PerField(kind) /\ c.chunk = 1 THEN d.pc = "frame" /\ d.chunk = 2 ELSE d.pc = "finish"
  <2>1. IF PerField(kind) /\ c.chunk = 1
          THEN d = [c EXCEPT !.pc = "frame", !.chunk = 2]
          ELSE d = [c EXCEPT !.pc = "finish", !.ok = TRUE]
    BY <1>1, <1>2, AfterRows
  <2> QED
    BY <1>1, <2>1 DEF Calls
<1>5. \A r \in StoredRows :
        rows'[w].frame[r] = IF FieldOf(p, r) \in subs THEN TrueRow(kind, c.k, p, r) ELSE old[r]
  <2> TAKE r \in StoredRows
  <2>1. (\A s \in subs : s \in {1, 2}) /\ (PerField(kind) /\ FieldOf(p, r) \in subs => subs = {FieldOf(p, r)})
    BY <1>2
  <2>2. p \in FrameFields
    BY <1>2
  <2> HIDE DEF old, subs, table, p, c
  <2>3. Colour(kind) /\ FieldOf(p, r) \in subs => OwnBurst(kind, c.k, p, bursts, r)
    BY <2>1, <2>2, MeasuredRow
  <2> HIDE DEF bursts
  <2>4. Woven(kind, c.k, p, subs, bursts, old)[r] =
          IF FieldOf(p, r) \in subs THEN TrueRow(kind, c.k, p, r) ELSE old[r]
    BY <2>1, <2>2, <2>3, WovenRow
  <2> QED
    BY <1>3, <2>4
<1>6. \A r \in StoredRows : FieldOf(p, r) \in {1, 2} /\ (FieldOf(p, r) = 1 <=> r % 2 = p[1].offset)
  BY DEF FieldOf
<1>7. CASE PerField(kind) /\ c.chunk = 1
  <2>1. \A r \in StoredRows : r % 2 = p[1].offset => rows'[w].frame[r] = TrueRow(kind, c.k, p, r)
    BY <1>5, <1>6, <1>7
  <2> QED
    BY <1>4, <1>7, <2>1 DEF RowsGrow, RowIsDone
<1>8. CASE PerField(kind) /\ c.chunk = 2
  <2>1. \A r \in StoredRows : r % 2 = p[1].offset => rows[w].frame[r] = TrueRow(kind, c.k, p, r)
    BY <1>1, <1>8 DEF RowsGrow, RowIsDone
  <2>2. \A r \in StoredRows : rows'[w].frame[r] = TrueRow(kind, c.k, p, r)
    BY <1>5, <1>6, <1>8, <2>1
  <2> QED
    BY <1>4, <1>8, <2>2 DEF RowsGrow, RowIsDone
<1>9. CASE ~PerField(kind)
  <2>1. \A r \in StoredRows : rows'[w].frame[r] = TrueRow(kind, c.k, p, r)
    BY <1>5, <1>6, <1>9
  <2> QED
    BY <1>4, <1>9, <2>1 DEF RowsGrow, RowIsDone
<1> QED
  BY <1>2, <1>7, <1>8, <1>9

LEMMA WeavingStep ==
  ASSUME IInv, NEW w \in Workers, WorkerNext(w)
  PROVE  Weaving'
<1> DEFINE c == work[w]
           d == work'[w]
<1>1. /\ DecodeTypeOK /\ InItsPipeline(w) /\ RowsGrow(w) /\ c \in Calls
      /\ w \in DOMAIN rows /\ w \in DOMAIN work
  BY DEF IInv, TypeOK, DecodeTypeOK, Placed, Weaving
<1>2. kind' = kind
  BY WorkerKeepsTheModel
<1>3. \A v \in Workers \ {w} : RowsGrow(v)'
  <2> TAKE v \in Workers \ {w}
  <2>1. work'[v] = work[v] /\ rows'[v] = rows[v]
    BY <1>1, OthersKept
  <2> QED
    BY <1>2, <2>1 DEF IInv, Weaving, RowsGrow, RowIsDone
<1>4. SUFFICES ASSUME kind \in LdzeugKinds PROVE RowsGrow(w)'
  BY <1>2, <1>3 DEF Weaving, RowsGrow
<1>5. kind # "nnTransform3D" /\ (c.pc # "idle" => c.pc \in RowPCs)
  BY <1>1, <1>4 DEF InItsPipeline, LdzeugKinds, Tiled
<1>6. ASSUME d.k = c.k, d.pair = c.pair, d.chunk = c.chunk, rows' = rows,
             c.pc \in {"frame", "predict", "fallback"}, d.pc \in {"predict", "fallback", "gaveUp"}
      PROVE  RowsGrow(w)'
  BY <1>1, <1>2, <1>6 DEF RowsGrow, RowIsDone
<1>7. ASSUME d.pc = "idle" \/ (d.pc = "frame" /\ d.chunk = 1) PROVE RowsGrow(w)'
  BY <1>7 DEF RowsGrow
<1>8. CASE StartCall(w)
  <2>1. PICK n \in 1 .. MaxBatch,
             a \in (IF kind = "nnTransform3D" THEN Areas ELSE {NoArea}),
             p \in (IF kind = "nnTransform3D" THEN {<<>>} ELSE FrameFields) :
          Step(w, [NoCall EXCEPT !.pc = "frame", !.frames = n, !.area = a, !.pair = p, !.chunk = 1,
                                 !.calls = c.calls + 1])
    BY <1>8 DEF StartCall
  <2>2. d.pc = "frame" /\ d.chunk = 1
    BY <1>1, <2>1 DEF Step, NoCall
  <2> QED
    BY <1>7, <2>2
<1>9. CASE Finish(w)
  <2>1. d = NnIdle(c) \/ d = [c EXCEPT !.pc = "frame", !.k = @ + 1, !.chunk = 1, !.previous = c.ok]
    BY <1>1, <1>9 DEF Finish, Step
  <2>2. d.pc = "idle" \/ (d.pc = "frame" /\ d.chunk = 1)
    BY <1>1, <2>1 DEF Calls, NnIdle, NoCall
  <2> QED
    BY <1>7, <2>2
<1>10. CASE InferenceThrows(w)
  <2>1. d = NnIdle(c)
    BY <1>1, <1>5, <1>10 DEF InferenceThrows, Step
  <2> QED
    BY <1>7, <2>1 DEF NnIdle, NoCall
<1>11. CASE SnapshotModel(w)
  <2>1. /\ c.pc = "frame" /\ rows' = rows
        /\ d = [c EXCEPT !.pc = "predict", !.snap = engine, !.triedCpu = FALSE]
    BY <1>1, <1>5, <1>11 DEF SnapshotModel, InferencePoint, At, Step, RowPCs
  <2>2. d.pc = "predict" /\ d.k = c.k /\ d.pair = c.pair /\ d.chunk = c.chunk
    BY <1>1, <2>1 DEF Calls
  <2> QED
    BY <1>6, <2>1, <2>2
<1>12. CASE Predict(w) \/ FallBackToCpu(w) \/ RunSession(w)
  <2>1. c.pc \in {"frame", "predict", "fallback"}
    BY <1>12 DEF Predict, FallBackToCpu, RunSession, At
  <2>2. \/ DeliverRows(w)
        \/ rows' = rows /\ Step(w, [c EXCEPT !.pc = "fallback"])
        \/ rows' = rows /\ \E b \in BOOLEAN : Step(w, [c EXCEPT !.pc = "gaveUp", !.triedCpu = b])
    BY <1>5, <1>12 DEF Predict, FallBackToCpu, RunSession, Deliver, GivesUp
  <2>3. CASE DeliverRows(w)
    BY <1>2, <1>4, <2>1, <2>3, DeliveredRows
  <2>4. CASE rows' = rows /\ Step(w, [c EXCEPT !.pc = "fallback"])
    <3>1. d.pc = "fallback" /\ d.k = c.k /\ d.pair = c.pair /\ d.chunk = c.chunk
      BY <1>1, <2>4 DEF Calls, Step
    <3> QED
      BY <1>6, <2>1, <2>4, <3>1
  <2>5. CASE rows' = rows /\ \E b \in BOOLEAN : Step(w, [c EXCEPT !.pc = "gaveUp", !.triedCpu = b])
    <3>1. d.pc = "gaveUp" /\ d.k = c.k /\ d.pair = c.pair /\ d.chunk = c.chunk
      BY <1>1, <2>5 DEF Calls, Step
    <3> QED
      BY <1>6, <2>1, <2>5, <3>1
  <2> QED
    BY <2>2, <2>3, <2>4, <2>5
<1>13. /\ ~BeginFrame(w) /\ ~CpuBody(w) /\ ~EnsureBatchCapacity(w) /\ ~EnsureWindows(w) /\ ~Batch(w)
       /\ ~Download(w) /\ ~Upload(w) /\ ~ForwardFFT(w) /\ ~PredictResident(w) /\ ~InverseFFT(w)
       /\ ~DownloadIfft(w)
  BY <1>5 DEF BeginFrame, CpuBody, EnsureBatchCapacity, EnsureWindows, Batch, Download, Upload,
              ForwardFFT, PredictResident, InverseFFT, ResidentStep, DownloadIfft, At, RowPCs
<1> QED
  BY <1>8, <1>9, <1>10, <1>11, <1>12, <1>13 DEF WorkerNext

-----------------------------------------------------------------------------
\* The invariant, and what follows from it.

LEMMA WorkerStep ==
  ASSUME IInv, NEW w \in Workers, WorkerNext(w)
  PROVE  IInv'
BY TypesKept, PlacedStep, WholeStep, SummingStep, OwnStep, CachesStep, WeavingStep DEF IInv

\* Nothing can be wrong of frames not yet begun.
LEMMA BeforeTheFirstCall ==
  ASSUME \A w \in Workers : work'[w].pc = "idle" /\ last'[w] = NoFrame
  PROVE  Whole' /\ Summing' /\ OwnEverywhere' /\ Weaving'
<1>1. NoFrame.kind = "none" /\ NoFrame.chroma = {}
  BY DEF NoFrame
<1>2. \A w \in Workers : WeightsGrow(w)' /\ WholeFrame(w)'
  BY <1>1 DEF WeightsGrow, WholeFrame, ChunkPCs
<1>3. \A w \in Workers : SumsGrow(w)'
  BY DEF SumsGrow
<1>4. SumsMatchTheirWeights'
  BY <1>1 DEF SumsMatchTheirWeights
<1>5. OwnEverywhere'
  BY <1>1 DEF OwnEverywhere, OwnBuffers, OwnTiles
<1>6. Weaving'
  BY DEF Weaving, RowsGrow
<1> QED
  BY <1>2, <1>3, <1>4, <1>5, <1>6 DEF Whole, Summing

\* Loading the model, and committing a decoder with it.
LEMMA LoadSteps ==
  ASSUME IInv, ModelIInv,
         \/ ModelNext /\ UNCHANGED decodeVars
         \/ \E k \in Kinds : CommitNn(k)
  PROVE  IInv'
<1>1. modelStatus # "bound" /\ UNCHANGED <<engine, mps, work, buffers, device, rows, last, faults>>
  BY DEF ModelNext, LoadModel, ResolveBackend, AttachFails, TryProvider, CreateSession, CommitNn, decodeVars
<1>2. \A w \in Workers : work[w].pc = "idle" /\ last[w] = NoFrame
  BY <1>1 DEF IInv, Placed, InItsPipeline
<1>3. Whole' /\ Summing' /\ OwnEverywhere' /\ Weaving'
  BY <1>1, <1>2, BeforeTheFirstCall
<1>4. Caches'
  BY <1>1, <1>2 DEF IInv, Caches, CacheFits
<1>5. Placed'
  <2>1. \A w \in Workers : InItsPipeline(w)'
    BY <1>1, <1>2 DEF InItsPipeline
  <2>2. modelStatus' = "bound" => kind' \in Kinds
    BY <1>1 DEF ModelNext, LoadModel, ResolveBackend, AttachFails, TryProvider, CreateSession, CommitNn
  <2> QED
    BY <1>1, <1>2, <2>1, <2>2 DEF Placed
<1>6. ModelTypeOK'
  BY ModelStep, CommitStep DEF ModelIInv
<1>7. kind' \in Kinds \cup {"none"} /\ threads' \subseteq Workers /\ resident' \in BOOLEAN
  <2>1. CASE UNCHANGED decodeVars
    BY <2>1 DEF decodeVars, IInv, TypeOK, DecodeTypeOK
  <2>2. CASE \E k \in Kinds : CommitNn(k)
    BY <2>2, NnAssumption DEF CommitNn
  <2> QED
    BY <2>1, <2>2
<1>8. DecodeTypeOK'
  BY <1>1, <1>7 DEF IInv, TypeOK, DecodeTypeOK, Typed
<1> QED
  BY <1>3, <1>4, <1>5, <1>6, <1>8 DEF IInv, TypeOK

LEMMA Stutters ==
  ASSUME IInv, UNCHANGED nnVars
  PROVE  IInv'
<1>1. UNCHANGED <<host, request, chain, active, modelStatus, kind, threads, resident, engine, mps, work, buffers,
                  device, rows, last, faults>>
  BY DEF nnVars, modelVars, decodeVars
<1>2. TypeOK'
  BY <1>1 DEF IInv, TypeOK, ModelTypeOK, DecodeTypeOK, Typed
<1>3. Placed'
  BY <1>1 DEF IInv, Placed, InItsPipeline
<1>4. Whole'
  BY <1>1 DEF IInv, Whole, WeightsGrow, WholeFrame, Buffer
<1>5. Summing'
  BY ZenonT(60), <1>1 DEF IInv, Summing, SumsGrow, SumsMatchTheirWeights, Level, Together, Buffer
<1>6. OwnEverywhere' /\ Caches' /\ Weaving'
  BY <1>1 DEF IInv, OwnEverywhere, Alone, OwnBuffers, OwnTiles, Own, Caches, CacheFits, Weaving,
              RowsGrow, RowIsDone
<1> QED
  BY <1>2, <1>3, <1>4, <1>5, <1>6 DEF IInv

\* What is invariant whatever the host, the model, the decoder, the threads, the video,
\* the size of a tile and of a chunk, and whatever fails.
LEMMA Invariant == NnSpec => []IInv
<1>1. IInv /\ ModelIInv /\ [NnNext]_nnVars => (IInv /\ ModelIInv)'
  <2> SUFFICES ASSUME IInv, ModelIInv, [NnNext]_nnVars
               PROVE  IInv' /\ ModelIInv'
    OBVIOUS
  <2>1. CASE ModelNext /\ UNCHANGED decodeVars
    BY <2>1, LoadSteps, ModelStep
  <2>2. ASSUME NEW k \in LdzeugKinds \cup {"nnTransform3D"}, CommitNn(k)
        PROVE  IInv' /\ ModelIInv'
    BY <2>2, LoadSteps, CommitStep DEF Kinds, Tiled
  <2>3. ASSUME NEW w \in Workers, WorkerNext(w)
        PROVE  IInv' /\ ModelIInv'
    BY <2>3, WorkerStep, WorkerKeepsTheModel, ModelStutters
  <2>4. CASE UNCHANGED nnVars
    BY <2>4, Stutters, ModelStutters DEF nnVars
  <2> QED
    BY <2>1, <2>2, <2>3, <2>4 DEF NnNext
<1> QED
  BY <1>1, InitIInv, ModelInitIInv, PTL DEF NnSpec

\* Every variable keeps its type: the engine, the threads' calls, accumulators and GPU
\* caches, the shared Metal buffers, the woven rows.
THEOREM TypeCorrect == NnSpec => []TypeOK
<1>1. IInv => TypeOK
  BY DEF IInv
<1> QED
  BY <1>1, Invariant, PTL

\* A frame with the weight of all of its tiles has four of them over every active sample.
LEMMA WholeFramesAreCovered ==
  ASSUME IInv PROVE NnFramesAreWhole
<1> SUFFICES ASSUME NEW w \in Workers, last[w].kind = "nn",
                    NEW line \in last[w].area.first .. last[w].area.last,
                    NEW column \in last[w].area.start .. last[w].area.end - 1
             PROVE  /\ Cardinality(TilesOver(last[w], last[w].k, line, column)) = 4
                    /\ last[w].previous =>
                         Cardinality(TilesOver(last[w], last[w].k - 1, line, column)) = 4
  BY DEF NnFramesAreWhole
<1> DEFINE f == last[w]
           a == f.area
<1>1. /\ a \in Areas
      /\ Pairs(f.k, Tiles(a)) \subseteq f.weight
      /\ f.previous => Pairs(f.k - 1, Tiles(a)) \subseteq f.weight
  BY DEF IInv, Whole, WholeFrame
<1>2. ASSUME NEW pair, Pairs(pair, Tiles(a)) \subseteq f.weight
      PROVE  TilesOver(f, pair, line, column) = {n \in 1 .. NumBlocks(a) : Covers(a, n, line, column)}
  BY <1>2 DEF TilesOver, Pairs, Tiles
<1>3. Cardinality({n \in 1 .. NumBlocks(a) : Covers(a, n, line, column)}) = 4
  BY <1>1, FourTiles
<1> QED
  BY <1>1, <1>2, <1>3

\* Every active sample of a frame the network coloured carries the weight of exactly four
\* tiles of its own pair, and of the pair before it when that one succeeded; and without a
\* resident path shared by several threads, each of them was computed from its own samples:
\* for every area, tile size and chunk size, any number of threads and any failures.
THEOREM OwnWholeFrames == NnSpec => []NnFramesAreTheirOwn
<1>1. IInv => NnFramesAreTheirOwn
  <2> SUFFICES ASSUME IInv PROVE NnFramesAreTheirOwn
    OBVIOUS
  <2>1. OwnTilesOnly
    BY DEF IInv, OwnEverywhere, Alone, OwnTiles, OwnTilesOnly
  <2> QED
    BY <2>1, WholeFramesAreCovered DEF NnFramesAreTheirOwn
<1> QED
  BY <1>1, Invariant, PTL

\* The chroma of a coloured frame is the sum of the tiles its weight counts, unless a GPU
\* pipeline failed between its copies for the frame before.
THEOREM SumsMatch == NnSpec => []SumsMatchTheirWeights
<1>1. IInv => SumsMatchTheirWeights
  BY DEF IInv, Summing
<1> QED
  BY <1>1, Invariant, PTL

\* A GPU batch runs on buffers and plans made for its number of tiles, whatever allocation
\* failed before and whatever video the thread decoded.
THEOREM BuffersFit == NnSpec => []GpuBuffersFit
<1>1. IInv => GpuBuffersFit
  BY DEF IInv, Caches, CacheFits, GpuBuffersFit
<1> QED
  BY <1>1, Invariant, PTL

\* Every row of a finished ldzeug frame is its own field line, with the burst of that line:
\* for any height, active rows and phase IDs, and either order of the fields.
THEOREM OwnBursts == NnSpec => []BurstOfItsOwnRow
<1>1. IInv => BurstOfItsOwnRow
  BY DEF IInv, Weaving, RowsGrow, RowIsDone, BurstOfItsOwnRow
<1> QED
  BY <1>1, Invariant, PTL
=============================================================================
