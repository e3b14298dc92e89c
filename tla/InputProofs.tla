---------------------------- MODULE InputProofs -----------------------------
(***************************************************************************)
(* Theorems about what the library reads and writes: the fields of a file  *)
(* (FieldReader), the metadata beside it (Sidecar), and what is opened and *)
(* decoded from the two (VideoOpening).                                    *)
(***************************************************************************)
EXTENDS VideoOpening, FieldReader, SequenceTheorems, FiniteSetTheorems,
        WellFoundedInduction, TLAPS

-----------------------------------------------------------------------------
(* Fields, for any files, standards, readers and number of faults.          *)
(*                                                                          *)
(* Wherever a field is read from, its samples are named by two numbers: the *)
(* position of its first one and how many of them lie in the file           *)
(* (SampleOf).  The invariant says that the cache and the answers hold just *)
(* those, that a TbcSource knows where its stream stands, and what open()   *)
(* resolved, all but the first two whatever the stream did.                 *)

Lines == {<<1, Height>>, <<1, 1>>, <<Height, Height>>}

Before(first) == (first - 1) * Width
Through(last) == last * Width

\* The position of a field's first sample, and how many of its samples are in the file.
FieldStart(f) ==
  IF layout = "native"
    THEN ((f - 1) \div 2) * FrameSamples + (IF f % 2 = 1 THEN 0 ELSE FieldSamples)
    ELSE (f - 1) * FieldSamples

FieldReal(f) == IF layout = "native" /\ f % 2 # 1 THEN FrameSamples - FieldSamples ELSE FieldSamples

SampleOf(f, k) == Everywhere(IF k <= FieldReal(f) THEN FieldStart(f) + k - 1 ELSE Pad)

Held(f, first, last) ==
  [i \in 1 .. Through(last) - Before(first) |-> SampleOf(f, Before(first) + i)]

----------------------------------------------------------------------------
(* Sizes. *)

LEMMA Sizes ==
  ASSUME ReaderAssumption, inputFile \in Files
  PROVE  /\ Width \in Nat \ {0} /\ Height \in Nat \ {0} /\ FrameSamples \in Nat \ {0}
         /\ FieldSamples \in Nat \ {0}
         /\ Width <= FieldSamples
         /\ FieldSamples < FrameSamples
         /\ 2 * FieldSamples - Width <= FrameSamples
         /\ FrameSamples < 2 * FieldSamples
<1> DEFINE s == inputFile.standard
<1>1. /\ {s.width, s.height, s.frameSamples} \subseteq Nat \ {0}
      /\ s.width * s.height < s.frameSamples
      /\ 2 * (s.width * s.height) - s.width <= s.frameSamples
      /\ s.frameSamples < 2 * (s.width * s.height)
  BY DEF ReaderAssumption, StandardsAssumption, FilesAssumption
<1>2. s.width \in Nat \ {0} /\ s.height \in Nat \ {0} /\ s.frameSamples \in Nat \ {0}
  BY <1>1
<1>3. s.width * s.height \in Nat \ {0} /\ s.width <= s.width * s.height
  BY <1>2
<1> QED
  BY <1>1, <1>2, <1>3 DEF Width, Height, FrameSamples, FieldSamples

\* The lines asked for lie in the field; the whole field is all of its samples.
LEMMA Slices ==
  ASSUME ReaderAssumption, inputFile \in Files, NEW first, NEW last, <<first, last>> \in Lines
  PROVE  /\ first \in Nat \ {0} /\ last \in Nat \ {0}
         /\ Before(first) \in Nat /\ Through(last) \in Nat
         /\ Before(first) + Width <= Through(last)
         /\ Through(last) <= FieldSamples
         /\ (last - first + 1) * Width = Through(last) - Before(first)
         /\ WholeField(first, last) => Before(first) = 0 /\ Through(last) = FieldSamples
<1> DEFINE w == Width
           h == Height
<1>1. w \in Nat \ {0} /\ h \in Nat \ {0} /\ w <= FieldSamples /\ FieldSamples = w * h
  BY Sizes DEF FieldSamples
<1>2. h * w = FieldSamples /\ (h - 1) * w = FieldSamples - w /\ 1 * w = w /\ 0 * w = 0
  BY <1>1
<1>3. first \in Nat \ {0} /\ last \in Nat \ {0}
  BY <1>1 DEF Lines
<1>4. CASE first = 1 /\ last = h
  <2>1. first - 1 = 0 /\ last - first + 1 = h
    BY <1>1, <1>4
  <2> QED
    BY <2>1, <1>1, <1>2, <1>3, <1>4 DEF Before, Through
<1>5. CASE first = 1 /\ last = 1
  <2>1. first - 1 = 0 /\ last - first + 1 = 1
    BY <1>5
  <2> QED
    BY <2>1, <1>1, <1>2, <1>3, <1>5 DEF Before, Through, WholeField
<1>6. CASE first = h /\ last = h
  <2>1. last - first + 1 = 1
    BY <1>1, <1>6
  <2>2. first = 1 => h = 1
    BY <1>6
  <2> QED
    BY <2>1, <2>2, <1>1, <1>2, <1>3, <1>6 DEF Before, Through, WholeField
<1> QED
  BY <1>4, <1>5, <1>6 DEF Lines

LEMMA WholeFieldIsALine ==
  <<1, Height>> \in Lines /\ WholeField(1, Height)
BY DEF Lines, WholeField

LEMMA FieldExtent ==
  ASSUME ReaderAssumption, inputFile \in Files, NEW f \in Int
  PROVE  FieldStart(f) \in Int /\ FieldReal(f) \in Nat /\ FieldReal(f) <= FieldSamples
<1>1. FrameSamples \in Nat /\ FieldSamples \in Nat /\ FieldSamples < FrameSamples
      /\ FrameSamples < 2 * FieldSamples
  BY Sizes
<1>2. (f - 1) \div 2 \in Int /\ f - 1 \in Int
  OBVIOUS
<1>3. ((f - 1) \div 2) * FrameSamples \in Int /\ (f - 1) * FieldSamples \in Int
  BY <1>1, <1>2
<1> QED
  BY <1>1, <1>3 DEF FieldStart, FieldReal

----------------------------------------------------------------------------
(* Plans: a read, wherever it is cut, asks for the samples that belong there. *)

LEMMA Plans ==
  ASSUME ReaderAssumption, inputFile \in Files, layout \in {"raster", "native"},
         NEW f \in Int, NEW first, NEW last, <<first, last>> \in Lines
  PROVE  LET plan == Plan(f, first, last)
         IN  /\ plan.start = FieldStart(f) + Before(first)
             /\ plan.start \in Int /\ plan.count \in Nat /\ plan.pad \in Nat
             /\ plan.count + plan.pad = Through(last) - Before(first)
             /\ \A i \in 1 .. Through(last) - Before(first) :
                  i <= plan.count <=> Before(first) + i <= FieldReal(f)
<1> DEFINE fs == FieldSamples
           lo == Before(first)
           hi == Through(last)
<1>1. FrameSamples \in Nat /\ fs \in Nat /\ Width \in Nat /\ fs < FrameSamples
      /\ FrameSamples < 2 * fs
      /\ 2 * fs - Width <= FrameSamples
  BY Sizes
<1>2. lo \in Nat /\ hi \in Nat /\ lo + Width <= hi /\ hi <= fs
      /\ (last - first + 1) * Width = hi - lo
  BY Slices
<1>3. lo = (first - 1) * Width /\ hi = last * Width
  BY DEF Before, Through
<1>4. FieldStart(f) \in Int
  BY FieldExtent
<1>5. CASE layout = "raster"
  <2>1. Plan(f, first, last) = [start |-> (f - 1) * fs + lo, count |-> hi - lo, pad |-> 0]
    BY <1>2, <1>3, <1>5 DEF Plan, RasterPlan
  <2>2. FieldStart(f) = (f - 1) * fs /\ FieldReal(f) = fs
    BY <1>5 DEF FieldStart, FieldReal
  <2> HIDE DEF fs, lo, hi
  <2> QED
    BY <2>1, <2>2, <1>1, <1>2, <1>4 DEF fs, lo, hi
<1>6. CASE layout = "native"
  <2> DEFINE base == IF f % 2 = 1 THEN 0 ELSE fs
             frame == ((f - 1) \div 2) * FrameSamples
             to == Lesser(base + hi, FrameSamples)
  <2>1. base \in {0, fs} /\ base \in Nat
    BY <1>1
  <2>2. Lesser(base + lo, FrameSamples) = base + lo
    <3>1. base + lo <= FrameSamples
      BY <2>1, <1>1, <1>2
    <3> HIDE DEF base, lo
    <3> QED
      BY <3>1, <2>1, <1>1, <1>2 DEF Lesser
  <2>3. Plan(f, first, last) =
          [start |-> frame + (base + lo), count |-> to - (base + lo), pad |-> base + hi - to]
    <3>1. Plan(f, first, last) = NativePlan(f, first, last)
      BY <1>6 DEF Plan
    <3>2. NativePlan(f, first, last) =
            [start |-> frame + Lesser(base + lo, FrameSamples),
             count |-> to - Lesser(base + lo, FrameSamples),
             pad |-> base + hi - to]
      BY DEF NativePlan, FrameSamples, Before, Through
    <3> HIDE DEF base, to, frame, lo, hi
    <3> QED
      BY <3>1, <3>2, <2>2
  <2>4. FieldStart(f) = frame + base
    BY <1>6 DEF FieldStart
  <2>5. FieldReal(f) = IF f % 2 = 1 THEN fs ELSE FrameSamples - fs
    BY <1>6 DEF FieldReal
  <2>6. frame \in Int
    BY <1>1
  <2>7. /\ to \in Nat /\ base + lo <= to /\ to <= base + hi
        /\ to <= FrameSamples
        /\ to = base + hi \/ (to = FrameSamples /\ FrameSamples < base + hi)
    <3> HIDE DEF lo, hi, fs, base
    <3> QED
      BY <2>1, <1>1, <1>2 DEF Lesser
  <2>8. \A i \in 1 .. hi - lo : i <= to - (base + lo) <=> lo + i <= FieldReal(f)
    <3>1. CASE f % 2 = 1
      <4>1. base = 0 /\ FieldReal(f) = fs
        BY <2>5, <3>1
      <4> HIDE DEF lo, hi, fs, base, to
      <4> QED
        BY <4>1, <2>7, <1>1, <1>2
    <3>2. CASE f % 2 # 1
      <4>1. base = fs /\ FieldReal(f) = FrameSamples - fs
        BY <2>5, <3>2
      <4> HIDE DEF lo, hi, fs, base, to
      <4> QED
        BY <4>1, <2>7, <1>1, <1>2
    <3> QED
      BY <3>1, <3>2
  <2> HIDE DEF lo, hi, base, frame, to
  <2> QED
    <3>1. /\ Plan(f, first, last).start = FieldStart(f) + lo
          /\ Plan(f, first, last).count = to - (base + lo)
          /\ Plan(f, first, last).pad = base + hi - to
      BY <2>1, <2>3, <2>4, <2>6, <1>2
    <3>2. /\ FieldStart(f) + lo \in Int /\ to - (base + lo) \in Nat /\ base + hi - to \in Nat
          /\ to - (base + lo) + (base + hi - to) = hi - lo
      BY <2>1, <2>7, <1>2, <1>4
    <3> QED
      BY <3>1, <3>2, <2>8 DEF lo, hi
<1> QED
  BY <1>5, <1>6

LEMMA PlanesSubset == Planes \subseteq {"y", "c"} /\ "y" \in Planes
BY DEF Planes

\* What a read gives that starts where its plan says.
LEMMA ReadsHeld ==
  ASSUME ReaderAssumption, inputFile \in Files, layout \in {"raster", "native"},
         NEW f \in Int, NEW first, NEW last, <<first, last>> \in Lines, NEW at,
         Plan(f, first, last).count > 0 =>
           \A p \in Planes : at[p] = Plan(f, first, last).start
  PROVE  Samples(at, Plan(f, first, last)) = Held(f, first, last)
<1> DEFINE plan == Plan(f, first, last)
           n == Through(last) - Before(first)
<1>1. /\ plan.start = FieldStart(f) + Before(first)
      /\ plan.start \in Int /\ plan.count \in Nat /\ plan.pad \in Nat
      /\ plan.count + plan.pad = n
      /\ \A i \in 1 .. n : i <= plan.count <=> Before(first) + i <= FieldReal(f)
  BY Plans
<1>2. Before(first) \in Nat /\ FieldStart(f) \in Int /\ n \in Int
  BY Slices, FieldExtent
<1>3. ASSUME NEW i \in 1 .. n
      PROVE  (IF i <= plan.count THEN [p \in Planes |-> at[p] + i - 1]
                                 ELSE [p \in Planes |-> Pad])
               = SampleOf(f, Before(first) + i)
  <2>1. CASE i <= plan.count
    <3>1. plan.count > 0
      BY <1>1, <1>2, <2>1
    <3>2. \A p \in Planes : at[p] + i - 1 = FieldStart(f) + (Before(first) + i) - 1
      <4> SUFFICES ASSUME NEW p \in Planes
                   PROVE  at[p] + i - 1 = FieldStart(f) + (Before(first) + i) - 1
        OBVIOUS
      <4>1. at[p] = FieldStart(f) + Before(first)
        BY <3>1, <1>1
      <4> QED
        BY <4>1, <1>2
    <3>3. SampleOf(f, Before(first) + i)
            = [p \in Planes |-> FieldStart(f) + (Before(first) + i) - 1]
      BY <1>1, <2>1 DEF SampleOf, Everywhere
    <3> QED
      BY <3>2, <3>3, <2>1
  <2>2. CASE ~(i <= plan.count)
    BY <1>1, <2>2 DEF SampleOf, Everywhere
  <2> QED
    BY <2>1, <2>2
<1>4. Samples(at, plan)
        = [i \in 1 .. n |-> IF i <= plan.count THEN [p \in Planes |-> at[p] + i - 1]
                                               ELSE [p \in Planes |-> Pad]]
  BY <1>1 DEF Samples
<1>5. Held(f, first, last) = [i \in 1 .. n |-> SampleOf(f, Before(first) + i)]
  BY DEF Held
<1> HIDE DEF plan, n
<1> QED
  BY <1>3, <1>4, <1>5 DEF plan

----------------------------------------------------------------------------
(* The invariant. *)

LineTypes ==
  /\ disk \in Nat
  /\ inputFilePos \in Int
  /\ streamPos \in [{"y", "c"} -> Int]
  /\ numFields \in Int

\* What open() leaves, and what is so before it.
Resolved ==
  /\ ~isOpen => numFields = -1 /\ answer.outcome # "returned"
  /\ isOpen => numFields = FieldsIn(layout)
  /\ kind = "tbc" => layout = "raster"
  /\ isOpen /\ kind # "tbc" =>
       inputFile.size > 0 /\ layout = ResolveFrameLayout(request) /\ request.declared \in Nat

\* Unless a discard was cut short, a TbcSource's stream stands where it thinks.
StreamKnown == isOpen /\ kind = "tbc" /\ ~cut => inputFilePos = streamPos["y"]

CacheHolds == ~cut => \A f \in DOMAIN fieldCache : fieldCache[f] = Held(f, 1, Height)

AnswerHolds ==
  answer.outcome = "returned" =>
    /\ answer.field \in 1 .. numFields
    /\ <<answer.first, answer.last>> \in Lines
    /\ ~cut => answer.data = Held(answer.field, answer.first, answer.last)

IInv ==
  /\ ReaderTypeOK
  /\ LineTypes
  /\ Resolved
  /\ StreamKnown
  /\ CacheHolds
  /\ AnswerHolds

LEMMA HeldStays ==
  ASSUME UNCHANGED <<kind, inputFile, layout>>
  PROVE  /\ \A f, first, last : Held(f, first, last)' = Held(f, first, last)
         /\ Height' = Height /\ Lines' = Lines
<1>1. /\ Width' = Width /\ Height' = Height /\ FieldSamples' = FieldSamples
      /\ FrameSamples' = FrameSamples /\ Planes' = Planes
  BY DEF Width, Height, FieldSamples, FrameSamples, Planes
<1>2. \A f : FieldStart(f)' = FieldStart(f) /\ FieldReal(f)' = FieldReal(f)
  BY <1>1 DEF FieldStart, FieldReal
<1>3. \A f, k : SampleOf(f, k)' = SampleOf(f, k)
  BY <1>1, <1>2 DEF SampleOf, Everywhere
<1>4. Lines' = Lines
  BY <1>1 DEF Lines
<1> QED
  BY <1>1, <1>3, <1>4 DEF Held, Before, Through

LEMMA Initially ==
  ASSUME ReaderAssumption, ReaderInit
  PROVE  IInv
<1>1. inputFile.size \in Nat
  BY DEF ReaderInit, ReaderAssumption, FilesAssumption
<1>2. DOMAIN fieldCache = {}
  BY DEF ReaderInit
<1>3. numFields \in -1 .. 2 * inputFile.size /\ DOMAIN fieldCache \subseteq 1 .. numFields
  BY <1>1, <1>2 DEF ReaderInit
<1>4. answer = NoAnswer /\ answer.outcome = "none"
  BY DEF ReaderInit, NoAnswer
<1>5. ReaderTypeOK
  BY <1>3, <1>4 DEF ReaderInit, ReaderTypeOK
<1> QED
  BY <1>1, <1>2, <1>4, <1>5
  DEF ReaderInit, IInv, LineTypes, Resolved, StreamKnown, CacheHolds, AnswerHolds, NoAnswer

LEMMA Divided ==
  ASSUME NEW n \in Nat \ {0}, NEW m \in Int
  PROVE  m \div n \in Int /\ m % n \in 0 .. n - 1 /\ m = (n * (m \div n)) + (m % n)
  OBVIOUS

LEMMA Wholes ==
  ASSUME NEW n \in Nat \ {0}, NEW m \in Nat
  PROVE  m \div n \in 0 .. m /\ n * (m \div n) <= m
<1> DEFINE q == m \div n
           r == m % n
<1>1. q \in Int /\ r \in 0 .. n - 1 /\ m = (n * q) + r
  BY Divided
<1> HIDE DEF q, r
<1>2. q <= -1 => n * q <= -n
  BY <1>1
<1>3. q >= 0 => n * q >= q
  BY <1>1
<1>4. n * q \in Int
  BY <1>1
<1>5. q \in 0 .. m /\ n * q <= m
  BY <1>1, <1>2, <1>3, <1>4
<1> QED
  BY <1>5 DEF q

LEMMA FieldCount ==
  ASSUME ReaderAssumption, inputFile \in Files, NEW l \in {"raster", "native"}
  PROVE  /\ FieldsIn(l) \in 0 .. 2 * inputFile.size
         /\ l = "raster" => FieldSamples * FieldsIn(l) <= inputFile.size
         /\ l = "native" => /\ (FieldsIn(l) \div 2) * FrameSamples <= inputFile.size
                            /\ FieldsIn(l) % 2 = 0
<1>1. inputFile.size \in Nat
  BY DEF ReaderAssumption, FilesAssumption
<1>3. FrameSamples \in Nat \ {0} /\ FieldSamples \in Nat \ {0}
  BY Sizes
<1>4. CASE l = "raster"
  <2>1. inputFile.size \div FieldSamples \in 0 .. inputFile.size
        /\ FieldSamples * (inputFile.size \div FieldSamples) <= inputFile.size
    BY <1>1, <1>3, Wholes
  <2>2. FieldsIn(l) = inputFile.size \div FieldSamples
    BY <1>4 DEF FieldsIn
  <2> QED
    BY <2>1, <2>2, <1>1, <1>4
<1>5. CASE l = "native"
  <2> DEFINE q == inputFile.size \div FrameSamples
  <2>1. q \in Nat /\ q <= inputFile.size /\ FrameSamples * q <= inputFile.size
    BY <1>1, <1>3, Wholes
  <2>2. FieldsIn(l) = 2 * q
    BY <1>5 DEF FieldsIn, FrameSamples
  <2> HIDE DEF q
  <2>3. (2 * q) \div 2 = q /\ (2 * q) % 2 = 0 /\ q * FrameSamples = FrameSamples * q
    BY <2>1, <1>3
  <2> QED
    BY <2>1, <2>2, <2>3, <1>1, <1>5
<1> QED
  BY <1>4, <1>5

----------------------------------------------------------------------------
(* Opening. *)

LEMMA NothingYet ==
  ASSUME IInv, ~isOpen
  PROVE  DOMAIN fieldCache = {} /\ answer.outcome # "returned"
<1>1. DOMAIN fieldCache \subseteq 1 .. numFields
  BY DEF IInv, ReaderTypeOK
<1>2. numFields = -1 /\ answer.outcome # "returned"
  BY DEF IInv, Resolved
<1>3. 1 .. numFields = {}
  BY <1>2
<1> QED
  BY <1>1, <1>2, <1>3

LEMMA TbcOpens ==
  ASSUME ReaderAssumption, IInv, OpenTbc
  PROVE  IInv'
<1>1. /\ UNCHANGED <<kind, inputFile, fieldCache, answer, disk, cut, failed>>
      /\ kind = "tbc" /\ ~isOpen /\ isOpen' = TRUE /\ layout' = "raster"
      /\ numFields' = FieldsIn("raster") /\ inputFilePos' = 0
      /\ streamPos' = [p \in {"y", "c"} |-> 0]
  BY DEF OpenTbc
<1>2. FieldsIn("raster") \in 0 .. 2 * inputFile.size /\ (FieldsIn(layout))' = FieldsIn("raster")
  <2>1. inputFile \in Files
    BY DEF IInv, ReaderTypeOK
  <2>2. "raster" \in {"raster", "native"}
    OBVIOUS
  <2>3. FieldsIn("raster") \in 0 .. 2 * inputFile.size
    BY <2>1, <2>2, FieldCount
  <2>4. FieldSamples' = FieldSamples
    BY <1>1 DEF FieldSamples, Width, Height
  <2>5. FieldsIn("raster") = inputFile.size \div FieldSamples
    BY DEF FieldsIn
  <2>6. (FieldsIn(layout))' = inputFile'.size \div FieldSamples'
    BY <1>1 DEF FieldsIn
  <2> QED
    BY <2>3, <2>4, <2>5, <2>6, <1>1
<1>3. DOMAIN fieldCache = {} /\ answer.outcome # "returned" /\ inputFile.size \in Nat
  BY <1>1, NothingYet DEF IInv, ReaderTypeOK, ReaderAssumption, FilesAssumption
<1>4. ReaderTypeOK'
  BY <1>1, <1>2, <1>3 DEF IInv, ReaderTypeOK
<1>5. LineTypes' /\ Resolved' /\ StreamKnown'
  BY <1>1, <1>2, <1>3 DEF IInv, LineTypes, Resolved, StreamKnown
<1>6. CacheHolds' /\ AnswerHolds'
  BY <1>1, <1>3 DEF CacheHolds, AnswerHolds
<1> QED
  BY <1>4, <1>5, <1>6 DEF IInv

LEMMA CvbsOpens ==
  ASSUME ReaderAssumption, IInv,
         NEW o \in {"unknown", "native"}, NEW s \in BOOLEAN, NEW d \in Declared,
         OpenCvbs(o, s, d)
  PROVE  IInv'
<1> DEFINE r == [override |-> o, standardRate |-> s, declared |-> d]
           l == ResolveFrameLayout(r)
<1>1. /\ UNCHANGED <<kind, inputFile, fieldCache, answer, disk, cut, failed, inputFilePos>>
      /\ kind # "tbc" /\ ~isOpen /\ isOpen' = TRUE /\ layout' = l /\ request' = r
      /\ numFields' = FieldsIn(l) /\ streamPos' = [p \in {"y", "c"} |-> Width]
      /\ inputFile.size > 0
  BY DEF OpenCvbs
<1>2. l \in {"raster", "native"}
  BY DEF ResolveFrameLayout, ByTotals
<1>3. inputFile \in Files /\ inputFile.size \in Nat /\ Width \in Int /\ FrameSamples \in Nat \ {0}
      /\ FieldSamples \in Nat \ {0}
  BY Sizes DEF IInv, ReaderTypeOK, ReaderAssumption, FilesAssumption
<1>4. /\ Width' = Width /\ Height' = Height /\ FieldSamples' = FieldSamples
      /\ PackedSamples' = PackedSamples
  BY <1>1 DEF FieldSamples, Width, Height, PackedSamples
<1>5. FieldsIn(l) \in 0 .. 2 * inputFile.size
  BY <1>2, <1>3, FieldCount
<1>6. (FieldsIn(layout))' = FieldsIn(l) /\ (ResolveFrameLayout(request))' = l
  BY <1>1, <1>4 DEF FieldsIn, ResolveFrameLayout, ByTotals, FrameSamples
<1>7. d \in Nat
  <2>1. PackedSamples \in Nat \ {0}
    BY <1>3 DEF PackedSamples
  <2>2. inputFile.size \div FrameSamples \in Nat /\ inputFile.size \div PackedSamples \in Nat
    BY <2>1, <1>3, Wholes
  <2> DEFINE a == inputFile.size \div FrameSamples
             b == inputFile.size \div PackedSamples
  <2>3. Declared = {0, a, b}
    BY DEF Declared, FrameSamples
  <2> HIDE DEF a, b
  <2>4. a \in Nat /\ b \in Nat
    BY <2>2 DEF a, b
  <2> QED
    BY <2>3, <2>4
<1>8. DOMAIN fieldCache = {} /\ answer.outcome # "returned"
  BY <1>1, NothingYet
<1> HIDE DEF l
<1>9. ReaderTypeOK'
  BY <1>1, <1>2, <1>3, <1>5, <1>8 DEF IInv, ReaderTypeOK
<1>10. LineTypes' /\ StreamKnown'
  BY <1>1, <1>3, <1>5 DEF IInv, LineTypes, StreamKnown
<1>11. Resolved'
  BY <1>1, <1>6, <1>7 DEF Resolved
<1>12. CacheHolds' /\ AnswerHolds'
  BY <1>1, <1>8 DEF CacheHolds, AnswerHolds
<1> QED
  BY <1>9, <1>10, <1>11, <1>12 DEF IInv

----------------------------------------------------------------------------
(* Which fields are counted. *)

LEMMA Scaled ==
  ASSUME NEW b \in Nat \ {0}, NEW m \in Int, NEW n \in Int
  PROVE  m < n => (b * m) + b <= b * n
<1>1. SUFFICES ASSUME m < n PROVE (b * m) + b <= b * n
  OBVIOUS
<1>2. n - m - 1 \in Nat
  BY <1>1
<1>3. b * (n - m - 1) \in Nat
  BY <1>2
<1>4. b * (n - m - 1) = (b * n) - (b * m) - b
  OBVIOUS
<1>5. b * n \in Int /\ b * m \in Int
  OBVIOUS
<1> QED
  BY <1>3, <1>4, <1>5

LEMMA WithinFields ==
  ASSUME NEW b \in Nat \ {0}, NEW f \in Int, NEW n \in Int,
         NEW lo \in Nat, NEW hi \in Nat, lo < hi, hi <= b
  PROVE  /\ f \in 1 .. n => 0 <= (f - 1) * b + lo /\ (f - 1) * b + hi <= b * n
         /\ 0 <= (f - 1) * b + lo /\ (f - 1) * b + hi <= b * n => f \in 1 .. n
<1> DEFINE g == f - 1
<1>1. g \in Int /\ g * b = b * g /\ b * g \in Int /\ b * n \in Int /\ b * 0 = 0
  OBVIOUS
<1> HIDE DEF g
<1>2. g < 0 => (b * g) + b <= 0
  BY <1>1, Scaled
<1>3. 0 < g => b <= b * g
  BY <1>1, Scaled
<1>4. g < n => (b * g) + b <= b * n
  BY <1>1, Scaled
<1>5. n < g => (b * n) + b <= b * g
  BY <1>1, Scaled
<1>6. g = n => b * g = b * n
  OBVIOUS
<1>7. g = 0 => b * g = 0
  BY <1>1
<1>8. /\ g >= 0 /\ g < n => 0 <= g * b + lo /\ g * b + hi <= b * n
      /\ 0 <= g * b + lo /\ g * b + hi <= b * n => g >= 0 /\ g < n
  BY <1>1, <1>2, <1>3, <1>4, <1>5, <1>6, <1>7
<1> QED
  BY <1>8 DEF g

LEMMA Counted ==
  ASSUME ReaderAssumption, IInv, isOpen, NEW f \in Int, NEW first, NEW last,
         <<first, last>> \in Lines
  PROVE  f \in 1 .. numFields <=> ~OutOfRange(f, first, last)
<1>1. inputFile \in Files /\ numFields \in Int
  BY DEF IInv, ReaderTypeOK, LineTypes
<1>2. /\ Before(first) \in Nat /\ Through(last) \in Nat /\ Before(first) + Width <= Through(last)
      /\ Through(last) <= FieldSamples
      /\ (last - first + 1) * Width = Through(last) - Before(first)
  BY <1>1, Slices
<1>3. FieldSamples \in Nat \ {0} /\ Width \in Nat \ {0}
  BY <1>1, Sizes
<1>4. CASE kind = "tbc"
  <2> DEFINE p == RasterPlan(f, first, last)
             b == FieldSamples
             lo == Before(first)
             hi == Through(last)
  <2>1. p.start = (f - 1) * b + lo /\ p.count = hi - lo
    BY <1>2 DEF RasterPlan, Before
  <2>2. OutOfRange(f, first, last) <=> p.start < 0 \/ p.start + p.count > b * numFields
    BY <1>4 DEF OutOfRange
  <2> HIDE DEF p, b, lo, hi
  <2>3. b \in Nat \ {0} /\ lo \in Nat /\ hi \in Nat /\ lo < hi /\ hi <= b
    BY <1>2, <1>3 DEF b, lo, hi
  <2>4. (f - 1) * b \in Int /\ b * numFields \in Int
    BY <2>3, <1>1
  <2>5. p.start + p.count = (f - 1) * b + hi
    BY <2>1, <2>3, <2>4
  <2>6. /\ f \in 1 .. numFields => 0 <= (f - 1) * b + lo /\ (f - 1) * b + hi <= b * numFields
        /\ 0 <= (f - 1) * b + lo /\ (f - 1) * b + hi <= b * numFields => f \in 1 .. numFields
    BY <2>3, <1>1, WithinFields
  <2> QED
    BY <2>1, <2>2, <2>3, <2>4, <2>5, <2>6
<1>5. CASE kind # "tbc"
  BY <1>5 DEF OutOfRange
<1> QED
  BY <1>4, <1>5

----------------------------------------------------------------------------
(* Reading. *)

ReadInvariants == ReaderTypeOK /\ Resolved /\ CacheHolds /\ AnswerHolds

\* What was read is handed out, and kept when it is a whole field.
LEMMA HandsOut ==
  ASSUME ReaderAssumption, IInv, isOpen,
         NEW f \in 1 .. numFields, NEW first, NEW last, <<first, last>> \in Lines, NEW data,
         UNCHANGED <<kind, inputFile, request, isOpen, layout, numFields>>,
         failed' \in BOOLEAN, cut' \in BOOLEAN, cut => cut',
         ~cut' => data = Held(f, first, last),
         Reply(f, first, last, "returned", data),
         Keep(f, first, last, data)
  PROVE  ReadInvariants'
<1>1. /\ \A g, a, b : Held(g, a, b)' = Held(g, a, b)
      /\ Height' = Height /\ Lines' = Lines
  BY HeldStays
<1>2. /\ answer'.field = f /\ answer'.first = first /\ answer'.last = last
      /\ answer'.outcome = "returned" /\ answer'.data = data
  BY DEF Reply
<1>3. DOMAIN fieldCache' \subseteq DOMAIN fieldCache \cup {f}
  BY DEF Keep
<1>4. DOMAIN fieldCache' \subseteq 1 .. numFields
  BY <1>3 DEF IInv, ReaderTypeOK
<1>5. ReaderTypeOK'
  BY <1>2, <1>4 DEF IInv, ReaderTypeOK
<1>6. Resolved'
  <2>1. (FieldsIn(layout))' = FieldsIn(layout)
        /\ (ResolveFrameLayout(request))' = ResolveFrameLayout(request)
    BY DEF FieldsIn, ResolveFrameLayout, ByTotals, FieldSamples, FrameSamples, PackedSamples,
        Width, Height
  <2> QED
    BY <2>1 DEF IInv, Resolved
<1>7. CacheHolds'
  <2>1. SUFFICES ASSUME ~cut', NEW g \in DOMAIN fieldCache'
                 PROVE  fieldCache'[g] = Held(g, 1, Height)
    BY <1>1 DEF CacheHolds
  <2>2. ~cut /\ (g \in DOMAIN fieldCache => fieldCache[g] = Held(g, 1, Height))
    BY <2>1 DEF IInv, CacheHolds
  <2>3. CASE WholeField(first, last)
    <3>1. fieldCache'[g] = IF g = f THEN data ELSE fieldCache[g]
      BY <2>1, <2>3 DEF Keep
    <3>2. data = Held(f, 1, Height)
      BY <2>1, <2>3 DEF WholeField
    <3> QED
      BY <3>1, <3>2, <2>1, <2>2, <1>3
  <2>4. CASE ~WholeField(first, last)
    BY <2>1, <2>2, <2>4 DEF Keep
  <2> QED
    BY <2>3, <2>4
<1>8. AnswerHolds'
  BY <1>1, <1>2 DEF AnswerHolds
<1> QED
  BY <1>5, <1>6, <1>7, <1>8 DEF ReadInvariants

\* A call that fails leaves the cache as it was.
LEMMA HandsNothing ==
  ASSUME ReaderAssumption, IInv,
         NEW f, NEW first, NEW last, NEW outcome \in {"refused", "threw"},
         UNCHANGED <<kind, inputFile, request, isOpen, layout, numFields, fieldCache>>,
         failed' \in BOOLEAN, cut' \in BOOLEAN, cut => cut',
         Reply(f, first, last, outcome, <<>>)
  PROVE  ReadInvariants'
<1>1. /\ \A g, a, b : Held(g, a, b)' = Held(g, a, b)
      /\ Height' = Height
  BY HeldStays
<1>2. answer'.outcome \in {"refused", "threw"}
  BY DEF Reply
<1>3. ReaderTypeOK'
  BY <1>2 DEF IInv, ReaderTypeOK
<1>4. (FieldsIn(layout))' = FieldsIn(layout)
      /\ (ResolveFrameLayout(request))' = ResolveFrameLayout(request)
  BY DEF FieldsIn, ResolveFrameLayout, ByTotals, FieldSamples, FrameSamples, PackedSamples,
        Width, Height
<1>5. Resolved'
  BY <1>2, <1>4 DEF IInv, Resolved
<1>6. CacheHolds' /\ AnswerHolds'
  BY <1>1, <1>2 DEF IInv, CacheHolds, AnswerHolds
<1> QED
  BY <1>3, <1>5, <1>6 DEF ReadInvariants

LEMMA GotIs ==
  ASSUME IInv, NEW pos \in Int, NEW n \in Nat
  PROVE  Got(pos, n) \in 0 .. n /\ (pos + n <= disk => Got(pos, n) = n)
BY DEF IInv, LineTypes, Got, Lesser

\* A TbcSource reads from where its stream stands, or was put.
LEMMA Delivers ==
  ASSUME ReaderAssumption, IInv, isOpen, kind = "tbc",
         NEW f \in 1 .. numFields, NEW first, NEW last, <<first, last>> \in Lines,
         NEW pos \in Int, NEW stuck \in BOOLEAN,
         UNCHANGED <<kind, inputFile, request, isOpen, layout, numFields, disk>>,
         cut' \in BOOLEAN, cut => cut',
         ~cut' => pos = RasterPlan(f, first, last).start,
         Deliver(f, first, last, pos, stuck)
  PROVE  IInv'
<1> DEFINE plan == RasterPlan(f, first, last)
           n == IF stuck THEN 0 ELSE Got(pos, plan.count)
           data == Samples([p \in Planes |-> pos], plan)
<1>1. layout = "raster" /\ Plan(f, first, last) = plan
  BY DEF IInv, Resolved, Plan
<1>2. inputFile \in Files /\ f \in Int /\ layout \in {"raster", "native"}
  BY DEF IInv, ReaderTypeOK, LineTypes
<1>3. plan.start \in Int /\ plan.count \in Nat
  BY <1>1, <1>2, Plans
<1>4. /\ streamPos' = [streamPos EXCEPT !["y"] = pos + n]
      /\ inputFilePos' = plan.start + n
      /\ failed' = (n < plan.count)
      /\ IF n = plan.count
           THEN /\ Reply(f, first, last, "returned", data)
                /\ Keep(f, first, last, data)
           ELSE /\ Reply(f, first, last, "threw", <<>>)
                /\ fieldCache' = fieldCache
  BY DEF Deliver
<1>5. n \in Nat
  <2>1. Got(pos, plan.count) \in 0 .. plan.count
    BY <1>3, GotIs
  <2> QED
    BY <2>1, <1>3
<1>6. ~cut' => data = Held(f, first, last)
  <2>1. SUFFICES ASSUME ~cut' PROVE data = Held(f, first, last)
    OBVIOUS
  <2>2. \A p \in Planes : [q \in Planes |-> pos][p] = plan.start
    BY <2>1
  <2> QED
    BY <2>2, <1>1, <1>2, ReadsHeld
<1> HIDE DEF plan, n, data
<1>7. ReadInvariants'
  <2>1. failed' \in BOOLEAN
    BY <1>4
  <2>2. CASE n = plan.count
    BY <2>1, <2>2, <1>4, <1>6, HandsOut
  <2>3. CASE n # plan.count
    <3>1. Reply(f, first, last, "threw", <<>>) /\ fieldCache' = fieldCache
      BY <2>3, <1>4
    <3>2. "threw" \in {"refused", "threw"}
      OBVIOUS
    <3> QED
      BY <2>1, <3>1, <3>2, HandsNothing
  <2> QED
    BY <2>2, <2>3
<1>8. LineTypes'
  BY <1>3, <1>4, <1>5 DEF IInv, LineTypes
<1>9. StreamKnown'
  <2>1. ~cut' => pos = plan.start
    BY DEF plan
  <2> QED
    BY <2>1, <1>4 DEF IInv, LineTypes, StreamKnown
<1> QED
  BY <1>7, <1>8, <1>9 DEF IInv, ReadInvariants

LEMMA TbcReads ==
  ASSUME ReaderAssumption, IInv, NEW f \in Int, NEW first, NEW last, <<first, last>> \in Lines,
         ReadTbc(f, first, last)
  PROVE  IInv'
<1> DEFINE plan == RasterPlan(f, first, last)
<1>1. /\ kind = "tbc" /\ isOpen /\ ~OutOfRange(f, first, last)
      /\ UNCHANGED <<kind, inputFile, request, isOpen, layout, numFields, disk, cut>>
  BY DEF ReadTbc, MustRead
<1>2. f \in 1 .. numFields
  BY <1>1, Counted
<1>3. cut' \in BOOLEAN /\ failed \in BOOLEAN /\ streamPos["y"] \in Int /\ inputFile \in Files
      /\ layout \in {"raster", "native"} /\ plan = Plan(f, first, last)
  BY <1>1 DEF IInv, ReaderTypeOK, LineTypes, Resolved, Plan
<1>4. plan.start \in Int
  BY <1>3, Plans
<1>5. CASE Sought(plan)
  <2>1. Deliver(f, first, last, plan.start, FALSE)
    BY <1>5 DEF ReadTbc
  <2> QED
    BY <2>1, <1>1, <1>2, <1>3, <1>4, Delivers
<1>6. CASE ~Sought(plan)
  <2>1. Deliver(f, first, last, streamPos["y"], failed)
    BY <1>6 DEF ReadTbc
  <2>2. ~cut' => streamPos["y"] = plan.start
    BY <1>1, <1>6 DEF IInv, StreamKnown, Sought
  <2> QED
    BY <2>1, <2>2, <1>1, <1>2, <1>3, Delivers
<1> QED
  BY <1>5, <1>6

LEMMA TbcReadsOn ==
  ASSUME ReaderAssumption, IInv, NEW f \in Int, NEW first, NEW last, <<first, last>> \in Lines,
         ReadTbcUnseekable(f, first, last)
  PROVE  IInv'
<1> DEFINE plan == RasterPlan(f, first, last)
           skip == plan.start - inputFilePos
           n == Got(streamPos["y"], skip)
<1>1. /\ kind = "tbc" /\ isOpen /\ ~OutOfRange(f, first, last)
      /\ UNCHANGED <<kind, inputFile, request, isOpen, layout, numFields, disk>>
  BY DEF ReadTbcUnseekable, MustRead
<1>2. f \in 1 .. numFields
  BY <1>1, Counted
<1>3. cut \in BOOLEAN /\ failed \in BOOLEAN /\ streamPos["y"] \in Int /\ inputFile \in Files
      /\ inputFilePos \in Int /\ layout \in {"raster", "native"} /\ plan = Plan(f, first, last)
  BY <1>1 DEF IInv, ReaderTypeOK, LineTypes, Resolved, Plan
<1>4. plan.start \in Int /\ skip \in Int
  BY <1>3, Plans
<1>5. \/ /\ skip > 0 /\ n = skip
         /\ Deliver(f, first, last, streamPos["y"] + n, FALSE)
         /\ cut' = cut
      \/ /\ skip > 0 /\ n < skip
         /\ streamPos' = [streamPos EXCEPT !["y"] = @ + n]
         /\ failed' = TRUE
         /\ cut' = TRUE
         /\ Reply(f, first, last, "threw", <<>>)
         /\ UNCHANGED <<inputFilePos, fieldCache>>
      \/ /\ skip < 0
         /\ failed' = TRUE
         /\ Reply(f, first, last, "threw", <<>>)
         /\ UNCHANGED <<inputFilePos, streamPos, fieldCache, cut>>
  BY DEF ReadTbcUnseekable
<1>6. "threw" \in {"refused", "threw"}
  OBVIOUS
<1>7. CASE /\ skip > 0 /\ n = skip
           /\ Deliver(f, first, last, streamPos["y"] + n, FALSE)
           /\ cut' = cut
  <2>1. streamPos["y"] + n \in Int /\ cut' \in BOOLEAN /\ FALSE \in BOOLEAN
    BY <1>3, <1>4, <1>7
  <2>2. ~cut' => streamPos["y"] + n = plan.start
    <3>1. SUFFICES ASSUME ~cut' PROVE streamPos["y"] + n = plan.start
      OBVIOUS
    <3>2. inputFilePos = streamPos["y"]
      BY <3>1, <1>1, <1>7 DEF IInv, StreamKnown
    <3>3. streamPos["y"] + n = streamPos["y"] + (plan.start - inputFilePos)
      BY <1>7
    <3> HIDE DEF plan, n
    <3> QED
      BY <3>2, <3>3, <1>3, <1>4
  <2> HIDE DEF n, skip
  <2> QED
    BY <2>1, <2>2, <1>1, <1>2, <1>7, Delivers
<1>8. CASE /\ skip > 0 /\ n < skip
           /\ streamPos' = [streamPos EXCEPT !["y"] = @ + n]
           /\ failed' = TRUE
           /\ cut' = TRUE
           /\ Reply(f, first, last, "threw", <<>>)
           /\ UNCHANGED <<inputFilePos, fieldCache>>
  <2>1. ReadInvariants'
    BY <1>1, <1>6, <1>8, HandsNothing
  <2>2. n \in Int
    <3>1. skip \in Nat
      BY <1>4, <1>8
    <3>2. n \in 0 .. skip
      BY <3>1, <1>3, GotIs
    <3> QED
      BY <3>1, <3>2
  <2> HIDE DEF n, skip
  <2>3. LineTypes' /\ StreamKnown'
    BY <2>2, <1>1, <1>3, <1>8 DEF IInv, LineTypes, StreamKnown
  <2> QED
    BY <2>1, <2>3 DEF IInv, ReadInvariants
<1>9. CASE /\ skip < 0
           /\ failed' = TRUE
           /\ Reply(f, first, last, "threw", <<>>)
           /\ UNCHANGED <<inputFilePos, streamPos, fieldCache, cut>>
  <2>1. ReadInvariants'
    BY <1>1, <1>3, <1>6, <1>9, HandsNothing
  <2>2. LineTypes' /\ StreamKnown'
    BY <1>1, <1>9 DEF IInv, LineTypes, StreamKnown
  <2> QED
    BY <2>1, <2>2 DEF IInv, ReadInvariants
<1> HIDE DEF n, skip
<1> QED
  BY <1>5, <1>7, <1>8, <1>9

LEMMA CvbsReads ==
  ASSUME ReaderAssumption, IInv, NEW f \in Int, NEW first, NEW last, <<first, last>> \in Lines,
         ReadCvbs(f, first, last)
  PROVE  IInv'
<1> DEFINE plan == Plan(f, first, last)
           at == IF plan.count > 0 THEN SeekAll(plan.start) ELSE streamPos
           data == Samples(at, plan)
<1>1. /\ kind \in {"composite", "yc"} /\ isOpen /\ ~OutOfRange(f, first, last)
      /\ UNCHANGED <<kind, inputFile, request, isOpen, layout, numFields, disk, inputFilePos,
                     failed, cut>>
      /\ streamPos' = [p \in {"y", "c"} |-> at[p] + Got(at[p], plan.count)]
      /\ IF plan.count = 0 \/ Got(plan.start, plan.count) = plan.count
           THEN /\ Reply(f, first, last, "returned", data)
                /\ Keep(f, first, last, data)
           ELSE /\ Reply(f, first, last, "threw", <<>>)
                /\ fieldCache' = fieldCache
  BY DEF ReadCvbs, MustRead
<1>2. f \in 1 .. numFields
  BY <1>1, Counted
<1>3. inputFile \in Files /\ layout \in {"raster", "native"} /\ failed' \in BOOLEAN
      /\ cut' \in BOOLEAN
  BY <1>1 DEF IInv, ReaderTypeOK
<1>4. plan.start \in Int /\ plan.count \in Nat
  BY <1>3, Plans
<1>5. plan.count > 0 => \A p \in Planes : at[p] = plan.start
  BY PlanesSubset DEF SeekAll
<1>6. data = Held(f, first, last)
  BY <1>3, <1>5, ReadsHeld
<1>7. at \in [{"y", "c"} -> Int]
  BY <1>4 DEF SeekAll, IInv, LineTypes
<1> HIDE DEF plan, at, data
<1>8. ReadInvariants'
  <2>1. CASE plan.count = 0 \/ Got(plan.start, plan.count) = plan.count
    BY <2>1, <1>1, <1>2, <1>3, <1>6, HandsOut
  <2>2. CASE ~(plan.count = 0 \/ Got(plan.start, plan.count) = plan.count)
    <3>1. Reply(f, first, last, "threw", <<>>) /\ fieldCache' = fieldCache
      BY <2>2, <1>1
    <3>2. "threw" \in {"refused", "threw"}
      OBVIOUS
    <3> QED
      BY <3>1, <3>2, <1>1, <1>3, HandsNothing
  <2> QED
    BY <2>1, <2>2
<1>9. LineTypes'
  <2>1. ASSUME NEW p \in {"y", "c"}
        PROVE  at[p] + Got(at[p], plan.count) \in Int
    <3>1. at[p] \in Int
      BY <1>7
    <3>2. Got(at[p], plan.count) \in 0 .. plan.count
      BY <3>1, <1>4, GotIs
    <3> QED
      BY <3>1, <3>2, <1>4
  <2> QED
    BY <2>1, <1>1 DEF IInv, LineTypes
<1>10. StreamKnown'
  BY <1>1 DEF StreamKnown
<1> QED
  BY <1>8, <1>9, <1>10 DEF IInv, ReadInvariants

LEMMA Serves ==
  ASSUME ReaderAssumption, IInv, NEW f, ServeFromCache(f)
  PROVE  IInv'
<1>1. /\ isOpen /\ f \in DOMAIN fieldCache
      /\ Reply(f, 1, Height, "returned", fieldCache[f])
      /\ UNCHANGED <<kind, inputFile, request, isOpen, layout, numFields, disk, inputFilePos,
                     streamPos, failed, cut, fieldCache>>
  BY DEF ServeFromCache
<1>2. /\ \A g, a, b : Held(g, a, b)' = Held(g, a, b)
      /\ Height' = Height /\ Lines' = Lines
  BY <1>1, HeldStays
<1>3. /\ answer'.field = f /\ answer'.first = 1 /\ answer'.last = Height
      /\ answer'.outcome = "returned" /\ answer'.data = fieldCache[f]
  BY <1>1 DEF Reply
<1>4. (FieldsIn(layout))' = FieldsIn(layout)
      /\ (ResolveFrameLayout(request))' = ResolveFrameLayout(request)
  BY <1>1 DEF FieldsIn, ResolveFrameLayout, ByTotals, FieldSamples, FrameSamples, PackedSamples,
        Width, Height
<1>5. ReaderTypeOK' /\ LineTypes' /\ StreamKnown'
  BY <1>1, <1>3 DEF IInv, ReaderTypeOK, LineTypes, StreamKnown
<1>6. Resolved'
  BY <1>1, <1>3, <1>4 DEF IInv, Resolved
<1>7. CacheHolds'
  BY <1>1, <1>2 DEF IInv, CacheHolds
<1>8. AnswerHolds'
  BY <1>1, <1>2, <1>3, WholeFieldIsALine DEF IInv, ReaderTypeOK, CacheHolds, AnswerHolds
<1> QED
  BY <1>5, <1>6, <1>7, <1>8 DEF IInv

LEMMA Refuses ==
  ASSUME ReaderAssumption, IInv, NEW f, NEW first, NEW last, Refuse(f, first, last)
  PROVE  IInv'
<1>1. /\ Reply(f, first, last, "refused", <<>>)
      /\ UNCHANGED <<kind, inputFile, request, isOpen, layout, numFields, disk, inputFilePos,
                     streamPos, failed, cut, fieldCache>>
  BY DEF Refuse
<1>2. failed' \in BOOLEAN /\ cut' \in BOOLEAN /\ "refused" \in {"refused", "threw"}
  BY <1>1 DEF IInv, ReaderTypeOK
<1>3. ReadInvariants'
  BY <1>1, <1>2, HandsNothing
<1>4. LineTypes' /\ StreamKnown'
  BY <1>1 DEF IInv, LineTypes, StreamKnown
<1> QED
  BY <1>3, <1>4 DEF IInv, ReadInvariants

\* Steps that no caller of the reader sees.
LEMMA Unseen ==
  ASSUME ReaderAssumption, IInv, disk' \in Nat,
         UNCHANGED <<kind, inputFile, request, isOpen, layout, numFields, inputFilePos, streamPos,
                     failed, cut, fieldCache, answer>>
  PROVE  IInv'
<1>1. /\ \A g, a, b : Held(g, a, b)' = Held(g, a, b)
      /\ Height' = Height /\ Lines' = Lines
  BY HeldStays
<1>2. (FieldsIn(layout))' = FieldsIn(layout)
      /\ (ResolveFrameLayout(request))' = ResolveFrameLayout(request)
  BY DEF FieldsIn, ResolveFrameLayout, ByTotals, FieldSamples, FrameSamples, PackedSamples,
        Width, Height
<1>3. ReaderTypeOK' /\ LineTypes' /\ StreamKnown'
  BY DEF IInv, ReaderTypeOK, LineTypes, StreamKnown
<1>4. Resolved'
  BY <1>2 DEF IInv, Resolved
<1>5. CacheHolds' /\ AnswerHolds'
  BY <1>1 DEF IInv, CacheHolds, AnswerHolds
<1> QED
  BY <1>3, <1>4, <1>5 DEF IInv

LEMMA AskedAreNumbers ==
  ASSUME ReaderAssumption, IInv
  PROVE  Asked \subseteq Int
<1>1. numFields \in Int /\ MaxField \in Nat
  BY DEF IInv, LineTypes, ReaderAssumption, BoundsAssumption
<1> QED
  BY <1>1 DEF Asked, Lesser

LEMMA Steps ==
  ASSUME ReaderAssumption, IInv, [ReaderNext]_readerVars
  PROVE  IInv'
<1>1. disk \in Nat /\ inputFile.size \in Nat /\ FieldSamples \in Nat
  BY Sizes DEF IInv, ReaderTypeOK, LineTypes, ReaderAssumption, FilesAssumption
<1>2. CASE OpenTbc
  BY <1>2, TbcOpens
<1>3. CASE \E o \in {"unknown", "native"}, s \in BOOLEAN, d \in Declared : OpenCvbs(o, s, d)
  BY <1>3, CvbsOpens
<1>4. CASE \E f \in Asked : ServeFromCache(f)
  BY <1>4, Serves
<1>5. ASSUME NEW f \in Asked, NEW lines \in Lines,
             \/ Refuse(f, lines[1], lines[2])
             \/ ReadTbc(f, lines[1], lines[2])
             \/ ReadTbcUnseekable(f, lines[1], lines[2])
             \/ ReadCvbs(f, lines[1], lines[2])
      PROVE  IInv'
  <2>1. f \in Int /\ <<lines[1], lines[2]>> \in Lines
    BY AskedAreNumbers DEF Lines
  <2>2. CASE Refuse(f, lines[1], lines[2])
    BY <2>2, Refuses
  <2>3. CASE ReadTbc(f, lines[1], lines[2])
    BY <2>1, <2>3, TbcReads
  <2>4. CASE ReadTbcUnseekable(f, lines[1], lines[2])
    BY <2>1, <2>4, TbcReadsOn
  <2>5. CASE ReadCvbs(f, lines[1], lines[2])
    BY <2>1, <2>5, CvbsReads
  <2> QED
    BY <1>5, <2>2, <2>3, <2>4, <2>5
<1>6. CASE \E size \in {inputFile.size, FieldSamples + 1} : FileChanges(size)
  BY <1>1, <1>6, Unseen DEF FileChanges
<1>7. CASE UNCHANGED readerVars
  BY <1>1, <1>7, Unseen DEF readerVars
<1> QED
  BY <1>2, <1>3, <1>4, <1>5, <1>6, <1>7 DEF ReaderNext, Lines

\* The invariant holds of every reader of every file.
THEOREM Invariant == ReaderSpec => []IInv
<1>1. ReaderInit => IInv
  BY ReaderAssumed, Initially
<1>2. IInv /\ [ReaderNext]_readerVars => IInv'
  BY ReaderAssumed, Steps
<1> QED
  BY <1>1, <1>2, PTL DEF ReaderSpec

----------------------------------------------------------------------------
(* What it means. *)

\* Every variable of the reader keeps its type (the readers' open() and
\* getVideoField()).
THEOREM TypeCorrect == ReaderSpec => []ReaderTypeOK
<1>1. IInv => ReaderTypeOK
  BY DEF IInv
<1> QED
  BY <1>1, Invariant, PTL


Samplings == [Planes -> Int]

\* A field of a reader is a sequence of its samples.
LEMMA Fields ==
  ASSUME ReaderAssumption, inputFile \in Files, NEW f \in Int
  PROVE  /\ Held(f, 1, Height) \in Seq(Samplings)
         /\ Len(Held(f, 1, Height)) = FieldSamples
         /\ \A i \in 1 .. FieldSamples : Held(f, 1, Height)[i] = SampleOf(f, i)
<1> DEFINE n == FieldSamples
           h == Held(f, 1, Height)
<1>1. Before(1) = 0 /\ Through(Height) = n
  BY Slices, WholeFieldIsALine
<1>2. n \in Nat
  BY Sizes
<1>3. FieldStart(f) \in Int /\ FieldReal(f) \in Int
  BY FieldExtent
<1> HIDE DEF n
<1>4. h = [i \in 1 .. n |-> SampleOf(f, i)]
  <2>1. \A i \in 1 .. n - 0 : 0 + i = i
    BY <1>2
  <2>2. n - 0 = n
    BY <1>2
  <2> QED
    BY <1>1, <2>1, <2>2 DEF Held
<1>5. \A i \in 1 .. n : SampleOf(f, i) \in Samplings
  BY <1>2, <1>3 DEF SampleOf, Everywhere, Samplings, Pad
<1> HIDE DEF h
<1>6. h \in [1 .. n -> Samplings]
  BY <1>4, <1>5
<1>7. h \in Seq(Samplings)
  BY <1>2, <1>6, SeqDef
<1>8. Len(h) = n
  BY <1>2, <1>6, <1>7, LenProperties
<1> QED
  BY <1>4, <1>7, <1>8 DEF h, n

LEMMA Halves ==
  ASSUME NEW f \in Int, f % 2 = 1
  PROVE  /\ (f - 1) \div 2 = f \div 2
         /\ (f + 1) % 2 # 1
         /\ ((f + 1) - 1) \div 2 = f \div 2
OBVIOUS

LEMMA CacheTiles ==
  ASSUME ReaderAssumption, IInv
  PROVE  CachedFieldsTileTheFile
<1>1. SUFFICES ASSUME ~cut, NEW f \in DOMAIN fieldCache
      PROVE  /\ Len(fieldCache[f]) = FieldSamples
             /\ layout = "raster" =>
                  InOrder(fieldCache[f], (f - 1) * FieldSamples, f * FieldSamples - 1)
             /\ layout = "native" /\ f % 2 = 1 /\ f + 1 \in DOMAIN fieldCache =>
                  TilesFrame(fieldCache[f] \o fieldCache[f + 1],
                             (f \div 2) * FrameSamples)
  BY DEF CachedFieldsTileTheFile
<1> DEFINE n == FieldSamples
<1>2. inputFile \in Files /\ f \in Int /\ fieldCache[f] = Held(f, 1, Height)
  BY <1>1 DEF IInv, ReaderTypeOK, LineTypes, CacheHolds
<1>3. /\ fieldCache[f] \in Seq(Samplings)
      /\ Len(fieldCache[f]) = n
      /\ \A i \in 1 .. n : fieldCache[f][i] = SampleOf(f, i)
  BY <1>2, Fields
<1>4. /\ n \in Nat \ {0} /\ FrameSamples \in Nat /\ n < FrameSamples /\ FrameSamples < 2 * n
      /\ FrameSamples = FrameSamples
  BY <1>2, Sizes DEF FrameSamples
<1>5. DOMAIN fieldCache[f] = 1 .. n
  BY <1>3, LenProperties
<1>6. ASSUME layout = "raster"
      PROVE  InOrder(fieldCache[f], (f - 1) * n, f * n - 1)
  <2>1. f * n = (f - 1) * n + n /\ (f - 1) * n \in Int
    BY <1>2, <1>4
  <2>2. FieldStart(f) = (f - 1) * n /\ FieldReal(f) = n
    BY <1>6 DEF FieldStart, FieldReal
  <2>3. \A i \in 1 .. n : fieldCache[f][i] = Everywhere((f - 1) * n + i - 1)
    <3> SUFFICES ASSUME NEW i \in 1 .. n
                 PROVE  fieldCache[f][i] = Everywhere((f - 1) * n + i - 1)
      OBVIOUS
    <3>1. i <= FieldReal(f)
      BY <2>2
    <3> QED
      BY <3>1, <2>2, <1>3 DEF SampleOf
  <2>4. Len(fieldCache[f]) = (f * n - 1) - (f - 1) * n + 1
    BY <2>1, <1>3, <1>4
  <2> QED
    BY <2>3, <2>4, <1>5 DEF InOrder
<1>7. ASSUME layout = "native", f % 2 = 1, f + 1 \in DOMAIN fieldCache
      PROVE  TilesFrame(fieldCache[f] \o fieldCache[f + 1], (f \div 2) * FrameSamples)
  <2> DEFINE g == f + 1
             frame == (f \div 2) * FrameSamples
             both == fieldCache[f] \o fieldCache[g]
  <2>1. g \in Int /\ fieldCache[g] = Held(g, 1, Height)
    BY <1>1, <1>2, <1>7 DEF IInv, CacheHolds
  <2>2. /\ fieldCache[g] \in Seq(Samplings)
        /\ Len(fieldCache[g]) = n
        /\ \A i \in 1 .. n : fieldCache[g][i] = SampleOf(g, i)
    BY <2>1, <1>2, Fields
  <2>3. (f - 1) \div 2 = f \div 2 /\ g % 2 # 1 /\ (g - 1) \div 2 = f \div 2
    BY <1>2, <1>7, Halves
  <2>4. FieldStart(f) = frame /\ FieldReal(f) = n
    <3>1. FieldStart(f) = ((f - 1) \div 2) * FrameSamples + 0 /\ FieldReal(f) = n
      BY <1>7 DEF FieldStart, FieldReal
    <3>2. frame \in Int
      BY <1>2, <1>4
    <3> QED
      BY <2>3, <3>1, <3>2
  <2>5. FieldStart(g) = frame + n /\ FieldReal(g) = FrameSamples - n
    BY <2>3, <1>7 DEF FieldStart, FieldReal
  <2>6. f \div 2 \in Int /\ frame \in Int
    BY <1>2, <1>4
  <2>7. /\ both \in Seq(Samplings) /\ Len(both) = n + n
        /\ \A i \in 1 .. n + n : both[i] = IF i <= n THEN fieldCache[f][i] ELSE fieldCache[g][i - n]
    <3> DEFINE s1 == fieldCache[f]
               s2 == fieldCache[g]
    <3>1. s1 \in Seq(Samplings) /\ s2 \in Seq(Samplings) /\ Len(s1) = n /\ Len(s2) = n
      BY <2>2, <1>3
    <3> HIDE DEF s1, s2
    <3>2. /\ s1 \o s2 \in Seq(Samplings)
          /\ Len(s1 \o s2) = Len(s1) + Len(s2)
          /\ \A i \in 1 .. Len(s1) + Len(s2) :
               (s1 \o s2)[i] = IF i <= Len(s1) THEN s1[i] ELSE s2[i - Len(s1)]
      BY <3>1, ConcatProperties
    <3> QED
      BY <3>1, <3>2 DEF s1, s2
  <2>8. DOMAIN both = 1 .. n + n
    BY <2>7, LenProperties
  <2> HIDE DEF g, frame, both, n
  <2>9. ASSUME NEW i \in 1 .. n + n
        PROVE  both[i] = Everywhere(IF i <= FrameSamples THEN frame + i - 1 ELSE Pad)
    <3>1. CASE i <= n
      <4>1. both[i] = SampleOf(f, i)
        BY <3>1, <2>7, <1>3, <1>4
      <4>2. i <= FieldReal(f) /\ i <= FrameSamples
        BY <3>1, <2>4, <1>4
      <4> QED
        BY <4>1, <4>2, <2>4 DEF SampleOf
    <3>2. CASE n < i /\ i <= FrameSamples
      <4>1. i - n \in 1 .. n /\ i - n <= FieldReal(g) /\ ~(i <= n)
        BY <3>2, <2>5, <1>4
      <4>2. both[i] = SampleOf(g, i - n)
        BY <4>1, <2>2, <2>7
      <4>3. FieldStart(g) + (i - n) - 1 = frame + i - 1
        BY <2>5, <2>6, <1>4
      <4> QED
        BY <4>1, <4>2, <4>3, <3>2 DEF SampleOf
    <3>3. CASE FrameSamples < i
      <4>1. i - n \in 1 .. n /\ ~(i - n <= FieldReal(g)) /\ ~(i <= n) /\ ~(i <= FrameSamples)
        BY <3>3, <2>5, <1>4
      <4>2. both[i] = SampleOf(g, i - n)
        BY <4>1, <2>2, <2>7
      <4> QED
        BY <4>1, <4>2 DEF SampleOf
    <3> QED
      BY <3>1, <3>2, <3>3, <1>4
  <2>10. TilesFrame(both, frame)
    BY <2>8, <2>9, <1>4 DEF TilesFrame
  <2> QED
    BY <2>10 DEF both, frame, g
<1> QED
  BY <1>3, <1>4, <1>6, <1>7

LEMMA AnswersSlice ==
  ASSUME ReaderAssumption, IInv
  PROVE  LinesAreSlices
<1> DEFINE f == answer.field
           lo == Before(answer.first)
           hi == Through(answer.last)
<1>1. SUFFICES ASSUME ~cut, answer.outcome = "returned", f \in DOMAIN fieldCache
      PROVE  answer.data = SubSeq(fieldCache[f], lo + 1, hi)
  BY DEF LinesAreSlices, Before, Through
<1>2. /\ inputFile \in Files /\ f \in Int /\ fieldCache[f] = Held(f, 1, Height)
      /\ <<answer.first, answer.last>> \in Lines
      /\ answer.data = Held(f, answer.first, answer.last)
  BY <1>1 DEF IInv, ReaderTypeOK, LineTypes, CacheHolds, AnswerHolds
<1>3. lo \in Nat /\ hi \in Nat /\ lo + Width <= hi /\ hi <= FieldSamples
  BY <1>2, Slices
<1>4. FieldSamples \in Nat /\ Width \in Nat \ {0} /\ FieldStart(f) \in Int /\ FieldReal(f) \in Int
  BY <1>2, Sizes, FieldExtent
<1>5. \A i \in 1 .. FieldSamples :
        fieldCache[f][i] = SampleOf(f, i) /\ SampleOf(f, i) \in Samplings
  <2>1. \A i \in 1 .. FieldSamples : SampleOf(f, i) \in Samplings
    BY <1>4 DEF SampleOf, Everywhere, Samplings, Pad
  <2> QED
    BY <2>1, <1>2, Fields
<1>6. answer.data = [i \in 1 .. hi - lo |-> SampleOf(f, lo + i)]
  BY <1>2 DEF Held
<1> DEFINE cached == fieldCache[f]
           data == answer.data
           slice == SubSeq(cached, lo + 1, hi)
<1> HIDE DEF lo, hi, f, cached, data
<1>7. \A i \in lo + 1 .. hi : cached[i] = SampleOf(f, i) /\ cached[i] \in Samplings
  BY <1>3, <1>4, <1>5 DEF cached
<1>8. /\ slice \in Seq(Samplings)
      /\ Len(slice) = hi - lo
      /\ \A i \in 1 .. hi - lo : slice[i] = cached[lo + i]
  <2>1. /\ slice \in Seq(Samplings)
        /\ Len(slice) = IF lo + 1 <= hi THEN hi - (lo + 1) + 1 ELSE 0
        /\ \A i \in 1 .. hi - (lo + 1) + 1 : slice[i] = cached[lo + 1 + i - 1]
    BY <1>3, <1>7, SubSeqProperties
  <2>2. lo + 1 <= hi /\ hi - (lo + 1) + 1 = hi - lo
    BY <1>3, <1>4
  <2> HIDE DEF slice
  <2>3. ASSUME NEW i \in 1 .. hi - lo PROVE slice[i] = cached[lo + i]
    <3>1. lo + 1 + i - 1 = lo + i
      BY <1>3
    <3> QED
      BY <2>1, <2>2, <3>1
  <2> QED
    BY <2>1, <2>2, <2>3
<1> HIDE DEF slice
<1>9. /\ data = [i \in 1 .. hi - lo |-> SampleOf(f, lo + i)]
      /\ \A i \in 1 .. hi - lo : lo + i \in lo + 1 .. hi
  BY <1>3, <1>6 DEF data
<1>10. data \in [1 .. hi - lo -> Samplings]
  BY <1>7, <1>9
<1>11. hi - lo \in Nat
  BY <1>3, <1>4
<1>12. data \in Seq(Samplings)
  BY <1>10, <1>11, SeqDef
<1>13. Len(data) = hi - lo
  BY <1>10, <1>11, <1>12, LenProperties
<1>14. \A i \in 1 .. Len(data) : data[i] = slice[i]
  BY <1>7, <1>8, <1>9, <1>13
<1>15. data = slice
  BY <1>8, <1>12, <1>13, <1>14, SeqEqual
<1> QED
  BY <1>15 DEF data, slice, cached

LEMMA Recognised ==
  ASSUME ReaderAssumption, IInv
  PROVE  LayoutRecognised
<1> DEFINE d == request.declared
           P == PackedSamples
           T == FrameSamples
<1>1. SUFFICES ASSUME isOpen, kind # "tbc", request.override = "unknown", request.standardRate
      PROVE  /\ (inputFile.truth = "native" /\ d * T = inputFile.size) => layout = "native"
             /\ (inputFile.truth = "raster" /\ d * P = inputFile.size) => layout = "raster"
             /\ (d = 0 /\ layout # inputFile.truth /\ Divides(TrueTotal, inputFile.size)) =>
                  Divides(T, inputFile.size) /\ Divides(P, inputFile.size)
  BY DEF LayoutRecognised, FrameSamples
<1>2. /\ inputFile.size > 0 /\ layout = ResolveFrameLayout(request) /\ d \in Nat
      /\ inputFile \in Files /\ inputFile.truth \in {"raster", "native"} /\ inputFile.size \in Nat
  BY <1>1 DEF IInv, ReaderTypeOK, Resolved, ReaderAssumption, FilesAssumption
<1>3. T \in Nat \ {0} /\ P \in Nat /\ T < P
  BY <1>2, Sizes DEF PackedSamples
<1>4. layout = IF d > 0 /\ inputFile.size = d * T THEN "native"
               ELSE IF d > 0 /\ inputFile.size = d * P THEN "raster"
               ELSE ByTotals
  BY <1>1, <1>2 DEF ResolveFrameLayout, FrameSamples
<1>5. ByTotals = IF Divides(T, inputFile.size) /\ ~Divides(P, inputFile.size)
                 THEN "native" ELSE "raster"
  BY DEF ByTotals, FrameSamples
<1>6. TrueTotal = IF inputFile.truth = "native" THEN T ELSE P
  BY DEF TrueTotal, FrameSamples
<1> HIDE DEF d, P, T
<1>7. d = 0 => d * T = 0 /\ d * P = 0
  BY <1>3
<1>8. d > 0 => d * T < d * P
  <2>1. SUFFICES ASSUME d > 0 PROVE d * T < d * P
    OBVIOUS
  <2>2. d \in Nat \ {0} /\ T \in Int /\ P \in Int
    BY <2>1, <1>2, <1>3 DEF d
  <2>3. (d * T) + d <= d * P
    BY <2>2, <1>3, Scaled
  <2> QED
    BY <2>2, <2>3
<1>9. d \in Nat /\ d * T \in Int /\ d * P \in Int
  BY <1>2, <1>3 DEF d
<1>10. (inputFile.truth = "native" /\ d * T = inputFile.size) => layout = "native"
  BY <1>2, <1>4, <1>7, <1>9
<1>11. (inputFile.truth = "raster" /\ d * P = inputFile.size) => layout = "raster"
  BY <1>2, <1>4, <1>7, <1>8, <1>9
<1>12. (d = 0 /\ layout # inputFile.truth /\ Divides(TrueTotal, inputFile.size)) =>
         Divides(T, inputFile.size) /\ Divides(P, inputFile.size)
  BY <1>2, <1>4, <1>5, <1>6
<1> QED
  BY <1>10, <1>11, <1>12

\* Whatever TbcSource, CvbsCompositeSource or CvbsYcSource returned is what the file
\* holds there: the cached fields tile the file, lines are slices of their field, and a
\* file is read in the layout it was written in.
THEOREM TrueReads == ReaderSpec => []ReadsAreTrue
<1>1. IInv => ReadsAreTrue
  BY ReaderAssumed, CacheTiles, AnswersSlice, Recognised DEF IInv, ReadsAreTrue
<1> QED
  BY <1>1, Invariant, PTL

----------------------------------------------------------------------------
(* Every field that is counted can be read. *)

LEMMA HalfBelow ==
  ASSUME NEW f \in Int, NEW n \in Int, n % 2 = 0, f <= n
  PROVE  /\ (f - 1) \div 2 \in Int /\ n \div 2 \in Int
         /\ (f - 1) \div 2 < n \div 2
OBVIOUS

LEMMA FieldEnds ==
  ASSUME ReaderAssumption, IInv, isOpen, NEW f \in 1 .. numFields
  PROVE  FieldStart(f) + FieldReal(f) <= inputFile.size
<1> DEFINE n == FieldSamples
<1>1. /\ inputFile \in Files /\ inputFile.size \in Nat /\ numFields \in Int /\ f \in Int
      /\ layout \in {"raster", "native"} /\ numFields = FieldsIn(layout)
  BY DEF IInv, ReaderTypeOK, LineTypes, Resolved, ReaderAssumption, FilesAssumption
<1>2. n \in Nat \ {0} /\ FrameSamples \in Nat \ {0} /\ n < FrameSamples
  BY <1>1, Sizes
<1>3. /\ layout = "raster" => n * numFields <= inputFile.size
      /\ layout = "native" => /\ (numFields \div 2) * FrameSamples <= inputFile.size
                              /\ numFields % 2 = 0
  BY <1>1, FieldCount
<1>4. CASE layout = "raster"
  <2>1. FieldStart(f) = (f - 1) * n /\ FieldReal(f) = n
    BY <1>4 DEF FieldStart, FieldReal
  <2>2. (f - 1) * n + n <= n * numFields
    <3>1. f - 1 \in Int /\ f - 1 < numFields
      BY <1>1
    <3>2. (n * (f - 1)) + n <= n * numFields
      BY <3>1, <1>1, <1>2, Scaled
    <3>3. (f - 1) * n = n * (f - 1)
      BY <3>1, <1>2
    <3> QED
      BY <3>2, <3>3
  <2>3. (f - 1) * n \in Int /\ n * numFields \in Int
    BY <1>1, <1>2
  <2> HIDE DEF n
  <2> QED
    BY <2>1, <2>2, <2>3, <1>1, <1>2, <1>3, <1>4
<1>5. CASE layout = "native"
  <2> DEFINE h == (f - 1) \div 2
             q == numFields \div 2
  <2>1. h \in Int /\ q \in Int /\ h < q
    BY <1>1, <1>3, <1>5, HalfBelow
  <2>2. FieldStart(f) + FieldReal(f) <= h * FrameSamples + FrameSamples
    <3>1. FieldStart(f) = h * FrameSamples + (IF f % 2 = 1 THEN 0 ELSE n)
      BY <1>5 DEF FieldStart
    <3>2. FieldReal(f) = IF f % 2 # 1 THEN FrameSamples - n ELSE n
      BY <1>5 DEF FieldReal
    <3>3. h * FrameSamples \in Int
      BY <2>1, <1>2
    <3> HIDE DEF h, n
    <3> QED
      BY <3>1, <3>2, <3>3, <1>2
  <2>3. (FrameSamples * h) + FrameSamples <= FrameSamples * q
    BY <2>1, <1>2, Scaled
  <2>4. FrameSamples * h = h * FrameSamples /\ FrameSamples * q = q * FrameSamples
        /\ h * FrameSamples \in Int /\ q * FrameSamples \in Int
    BY <2>1, <1>2
  <2>5. q * FrameSamples <= inputFile.size
    BY <1>3, <1>5
  <2>6. FieldStart(f) + FieldReal(f) \in Int
    BY <1>1, FieldExtent
  <2> HIDE DEF h, q
  <2> QED
    BY <2>2, <2>3, <2>4, <2>5, <2>6, <1>1, <1>2
<1> QED
  BY <1>1, <1>4, <1>5

LEMMA PlanFits ==
  ASSUME ReaderAssumption, IInv, isOpen, disk = inputFile.size, NEW f \in 1 .. numFields,
         NEW first, NEW last, <<first, last>> \in Lines, Plan(f, first, last).count # 0
  PROVE  Got(Plan(f, first, last).start, Plan(f, first, last).count) = Plan(f, first, last).count
<1> DEFINE plan == Plan(f, first, last)
           n == Through(last) - Before(first)
<1>1. inputFile \in Files /\ layout \in {"raster", "native"} /\ f \in Int
  BY DEF IInv, ReaderTypeOK, LineTypes
<1>2. /\ plan.start = FieldStart(f) + Before(first)
      /\ plan.start \in Int /\ plan.count \in Nat /\ plan.pad \in Nat
      /\ plan.count + plan.pad = n
      /\ \A i \in 1 .. n : i <= plan.count <=> Before(first) + i <= FieldReal(f)
  BY <1>1, Plans
<1>3. Before(first) \in Nat /\ n \in Int /\ FieldStart(f) \in Int /\ FieldReal(f) \in Int
  BY <1>1, Slices, FieldExtent
<1>4. FieldStart(f) + FieldReal(f) <= disk
  BY FieldEnds
<1>5. disk \in Nat
  BY DEF IInv, LineTypes
<1>6. plan.count # 0
  OBVIOUS
<1> HIDE DEF plan, n
<1>7. plan.count \in 1 .. n
  BY <1>2, <1>3, <1>6
<1>8. plan.start + plan.count <= disk
  BY <1>2, <1>3, <1>4, <1>5, <1>7
<1>9. Got(plan.start, plan.count) = plan.count
  BY <1>2, <1>8, GotIs
<1> QED
  BY <1>9 DEF plan

\* A line is never empty.
LEMMA LinesAreRead ==
  ASSUME ReaderAssumption, inputFile \in Files, NEW first, NEW last, <<first, last>> \in Lines,
         NEW f
  PROVE  RasterPlan(f, first, last).count # 0
BY Slices, Sizes DEF RasterPlan

LEMMA TbcReturns ==
  ASSUME ReaderAssumption, IInv, NEW f \in Int, NEW first, NEW last, <<first, last>> \in Lines,
         disk = inputFile.size, ~failed, ~cut, ReadTbc(f, first, last)
  PROVE  answer'.outcome = "returned"
<1> DEFINE plan == RasterPlan(f, first, last)
<1>1. kind = "tbc" /\ isOpen /\ ~OutOfRange(f, first, last)
  BY DEF ReadTbc, MustRead
<1>2. inputFile \in Files /\ layout = "raster" /\ plan = Plan(f, first, last)
  BY <1>1 DEF IInv, ReaderTypeOK, Resolved, Plan
<1>3. f \in 1 .. numFields
  BY <1>1, Counted
<1>4. Got(plan.start, plan.count) = plan.count
  BY <1>1, <1>2, <1>3, PlanFits, LinesAreRead
<1>5. \/ Deliver(f, first, last, plan.start, FALSE)
      \/ ~Sought(plan) /\ Deliver(f, first, last, streamPos["y"], failed)
  BY DEF ReadTbc
<1>6. inputFilePos = streamPos["y"]
  BY <1>1 DEF IInv, StreamKnown
<1>7. Deliver(f, first, last, plan.start, FALSE)
  BY <1>5, <1>6 DEF Sought, IInv, ReaderTypeOK
<1> QED
  BY <1>4, <1>7 DEF Deliver, Reply

LEMMA CvbsReturns ==
  ASSUME ReaderAssumption, IInv, NEW f \in Int, NEW first, NEW last, <<first, last>> \in Lines,
         disk = inputFile.size, ReadCvbs(f, first, last)
  PROVE  answer'.outcome = "returned"
<1> DEFINE plan == Plan(f, first, last)
<1>1. isOpen /\ ~OutOfRange(f, first, last)
  BY DEF ReadCvbs, MustRead
<1>2. f \in 1 .. numFields
  BY <1>1, Counted
<1>3. plan.count = 0 \/ Got(plan.start, plan.count) = plan.count
  BY <1>1, <1>2, PlanFits
<1> QED
  BY <1>3 DEF ReadCvbs, Reply

LEMMA RefusesOthers ==
  ASSUME ReaderAssumption, IInv, isOpen, NEW f \in Int, NEW first, NEW last,
         <<first, last>> \in Lines, Refuse(f, first, last)
  PROVE  answer'.field \notin 1 .. numFields
BY Counted DEF Refuse, Reply

FaultsCounted == faults \in Nat

LEMMA FaultsCount == ReaderSpec => []FaultsCounted
<1>1. ReaderInit => FaultsCounted
  BY DEF ReaderInit, FaultsCounted
<1>2. FaultsCounted /\ [ReaderNext]_readerVars => FaultsCounted'
  <2>1. SUFFICES ASSUME [ReaderNext]_readerVars PROVE faults' \in {faults, faults + 1}
    BY DEF FaultsCounted
  <2>2. CASE OpenTbc
    BY <2>2 DEF OpenTbc
  <2>3. CASE \E o \in {"unknown", "native"}, s \in BOOLEAN, d \in Declared : OpenCvbs(o, s, d)
    BY <2>3 DEF OpenCvbs
  <2>4. CASE \E f \in Asked : ServeFromCache(f)
    BY <2>4 DEF ServeFromCache
  <2>5. ASSUME NEW f, NEW first, NEW last,
               \/ Refuse(f, first, last)
               \/ ReadTbc(f, first, last)
               \/ ReadTbcUnseekable(f, first, last)
               \/ ReadCvbs(f, first, last)
        PROVE  faults' \in {faults, faults + 1}
    BY <2>5 DEF Refuse, ReadTbc, ReadTbcUnseekable, ReadCvbs
  <2>6. CASE \E size \in {inputFile.size, FieldSamples + 1} : FileChanges(size)
    BY <2>6 DEF FileChanges
  <2>7. CASE UNCHANGED readerVars
    BY <2>7 DEF readerVars
  <2> QED
    BY <2>1, <2>2, <2>3, <2>4, <2>5, <2>6, <2>7 DEF ReaderNext
<1> QED
  BY <1>1, <1>2, PTL DEF ReaderSpec

\* Every field that getNumberOfAvailableFields() counts can be read while the file is
\* whole, whatever was read, lost or retried before: a TbcSource refuses only to go on
\* from a stream that just failed, or that a discard left elsewhere.
THEOREM CountedAreReadable == ReaderSpec => CountedFieldsReadable
<1> DEFINE Granted == /\ isOpen /\ disk = inputFile.size /\ faults' = faults
                      /\ answer' # answer /\ answer'.field \in 1 .. numFields
                      => answer'.outcome = "returned" \/ failed \/ cut
<1>1. ASSUME IInv, FaultsCounted, [ReaderNext]_readerVars PROVE [Granted]_readerVars
  <2>1. SUFFICES ASSUME ReaderNext, isOpen, disk = inputFile.size, faults' = faults,
                        answer' # answer,
                        answer'.field \in 1 .. numFields, ~failed, ~cut
                 PROVE  answer'.outcome = "returned"
    BY <1>1
  <2>2. CASE OpenTbc
    BY <2>1, <2>2 DEF OpenTbc
  <2>3. CASE \E o \in {"unknown", "native"}, s \in BOOLEAN, d \in Declared : OpenCvbs(o, s, d)
    BY <2>1, <2>3 DEF OpenCvbs
  <2>4. CASE \E f \in Asked : ServeFromCache(f)
    BY <2>4 DEF ServeFromCache, Reply
  <2>5. ASSUME NEW f \in Asked, NEW lines \in Lines,
               \/ Refuse(f, lines[1], lines[2])
               \/ ReadTbc(f, lines[1], lines[2])
               \/ ReadTbcUnseekable(f, lines[1], lines[2])
               \/ ReadCvbs(f, lines[1], lines[2])
        PROVE  answer'.outcome = "returned"
    <3>1. f \in Int /\ <<lines[1], lines[2]>> \in Lines
      BY <1>1, ReaderAssumed, AskedAreNumbers DEF Lines
    <3>2. CASE Refuse(f, lines[1], lines[2])
      BY <1>1, <2>1, <3>1, <3>2, ReaderAssumed, RefusesOthers
    <3>3. CASE ReadTbc(f, lines[1], lines[2])
      BY <1>1, <2>1, <3>1, <3>3, ReaderAssumed, TbcReturns
    <3>4. CASE ReadTbcUnseekable(f, lines[1], lines[2])
      <4>1. faults \in Int
        BY <1>1 DEF FaultsCounted
      <4>2. faults' = faults + 1
        BY <3>4 DEF ReadTbcUnseekable
      <4> QED
        BY <2>1, <4>1, <4>2
    <3>5. CASE ReadCvbs(f, lines[1], lines[2])
      BY <1>1, <2>1, <3>1, <3>5, ReaderAssumed, CvbsReturns
    <3> QED
      BY <2>5, <3>2, <3>3, <3>4, <3>5
  <2>6. CASE \E size \in {inputFile.size, FieldSamples + 1} : FileChanges(size)
    BY <2>1, <2>6 DEF FileChanges
  <2> QED
    BY <2>1, <2>2, <2>3, <2>4, <2>5, <2>6 DEF ReaderNext, Lines
<1> QED
  BY <1>1, Invariant, FaultsCount, PTL DEF ReaderSpec, CountedFieldsReadable

-----------------------------------------------------------------------------
(* Sequences and tables. *)

\* A sequence is the function of its places.
LEMMA SequencesAre ==
  ASSUME NEW s, SequenceOf(s)
  PROVE  Len(s) \in Nat /\ DOMAIN s = 1 .. Len(s) /\ s = [i \in 1 .. Len(s) |-> s[i]]
<1> DEFINE R == {s[i] : i \in DOMAIN s}
<1>1. s \in Seq(R)
  BY DEF SequenceOf
<1> HIDE DEF R
<1> QED BY <1>1

\* A function of the places 1 to n is a sequence of length n.
LEMMA MakesSequence ==
  ASSUME NEW s, NEW n \in Nat, DOMAIN s = 1 .. n, s = [i \in 1 .. n |-> s[i]]
  PROVE  SequenceOf(s) /\ Len(s) = n
<1> DEFINE R == {s[i] : i \in DOMAIN s}
<1>1. s \in [1 .. n -> R]
  BY Zenon
<1>2. s \in Seq(R)
  <2> HIDE DEF R
  <2> QED BY <1>1
<1>3. SequenceOf(s)
  BY <1>2 DEF SequenceOf
<1>4. Len(s) = n
  <2> HIDE DEF R
  <2> QED BY <1>1, <1>2
<1> QED BY <1>3, <1>4

\* Append keeps every element and adds one.
LEMMA AppendsAre ==
  ASSUME NEW s, NEW x, SequenceOf(s)
  PROVE  /\ SequenceOf(Append(s, x)) /\ Len(Append(s, x)) = Len(s) + 1
         /\ \A i \in 1 .. Len(s) : Append(s, x)[i] = s[i]
         /\ Append(s, x)[Len(s) + 1] = x
<1> DEFINE R == {s[i] : i \in DOMAIN s} \cup {x}
           t == Append(s, x)
<1>1. s \in Seq(R) /\ x \in R
  <2>1. {s[i] : i \in DOMAIN s} \subseteq R
    OBVIOUS
  <2> QED BY <2>1, SeqMonotonic DEF SequenceOf
<1> HIDE DEF R
<1>2. /\ t \in Seq(R) /\ Len(t) = Len(s) + 1
      /\ \A i \in 1 .. Len(s) : t[i] = s[i]
      /\ t[Len(s) + 1] = x
  BY <1>1, AppendProperties
<1> HIDE DEF t
<1>3. Len(t) \in Nat /\ DOMAIN t = 1 .. Len(t) /\ t = [i \in 1 .. Len(t) |-> t[i]]
  BY <1>2
<1>4. SequenceOf(t)
  BY <1>3, MakesSequence
<1> QED BY <1>2, <1>4 DEF t

\* Two tables are the same but for the rows of one key.
KeptBut(k, d, r) ==
  \A x : x # k => (x \in DOMAIN d <=> x \in DOMAIN r) /\ (x \in DOMAIN d => d[x] = r[x])

\* A row written or replaced leaves the other rows alone.
LEMMA WithKeeps ==
  ASSUME NEW d, NEW r, NEW k, NEW row, KeptBut(k, d, r)
  PROVE  /\ KeptBut(k, With(d, k, row), r)
         /\ k \in DOMAIN With(d, k, row) /\ With(d, k, row)[k] = row
BY DEF With, KeptBut

\* So does a row deleted.
LEMMA WithoutKeeps ==
  ASSUME NEW r, NEW k
  PROVE  KeptBut(k, Without(r, k), r) /\ k \notin DOMAIN Without(r, k)
BY DEF Without, KeptBut

\* A number within or just past a gapless range leaves it gapless.
LEMMA OneMoreId ==
  ASSUME NEW n \in Nat, NEW a \in 0 .. n
  PROVE  \E t \in Nat : (0 .. (n - 1)) \cup {a} = 0 .. (t - 1)
<1>1. CASE a < n
  <2>1. (0 .. (n - 1)) \cup {a} = 0 .. (n - 1)
    BY <1>1
  <2> QED BY <2>1
<1>2. CASE a = n
  <2>1. (0 .. (n - 1)) \cup {a} = 0 .. ((n + 1) - 1)
    BY <1>2
  <2> QED BY <2>1
<1> QED BY <1>1, <1>2

\* A non-empty set of numbers has a least one.
LEMMA LeastExists ==
  ASSUME NEW S \in SUBSET Nat, S # {}
  PROVE  \E n \in S : \A m \in S : n <= m
<1>1. PICK x \in S : \A y \in S : ~(<<y, x>> \in OpToRel(<, Nat))
  <2>1. IsWellFoundedOn(OpToRel(<, Nat), Nat)
    BY NatLessThanWellFounded
  <2> QED BY <2>1, WFMin
<1>2. \A y \in S : ~(y < x)
  BY <1>1 DEF OpToRel
<1> QED BY <1>2

-----------------------------------------------------------------------------
(* The state. *)

FileShape(db) ==
  /\ DOMAIN db = {"exists", "captures", "pcm", "records", "vbi", "dropOuts"}
  /\ SequenceOf(db.captures)
  /\ \A i \in DOMAIN db.captures :
        DOMAIN db.captures[i] = {"system", "declared", "first", "exclusiveLast"}

\* The fields of capture 1 leave no gap, and every row belongs to a field.
FileWhole(db) ==
  /\ FileShape(db)
  /\ DOMAIN db.records \subseteq Nat \X Nat
  /\ \E n \in Nat : FieldIds(db, 1) = 0 .. (n - 1)
  /\ DOMAIN db.vbi \subseteq DOMAIN db.records
  /\ DOMAIN db.dropOuts \subseteq DOMAIN db.records

FieldShape(f) == f = [seqNo |-> f.seqNo, audioSamples |-> f.audioSamples, vbi |-> f.vbi,
                      dropOuts |-> f.dropOuts]

ObjectFields == {"isValid", "system", "declared", "fields", "lines", "pcm"}

\* An object whose fields are numbered by their places.
MetaWhole(m) ==
  /\ DOMAIN m = ObjectFields
  /\ SequenceOf(m.fields)
  /\ \A i \in 1 .. Len(m.fields) : FieldShape(m.fields[i]) /\ m.fields[i].seqNo = i

\* A field as the tables hold it.
Stored(db, k, f) ==
  /\ k \in DOMAIN db.records /\ db.records[k] = f.audioSamples
  /\ RowsOf(db.vbi, k) = f.vbi
  /\ RowsOf(db.dropOuts, k) = f.dropOuts

Holds(db, c, m, n) == \A i \in 1 .. n : Stored(db, <<c, i - 1>>, m.fields[i])

Describes(db, m) == db.captures[1].declared = m.declared /\ db.captures[1].system = m.system

SaveShape ==
  /\ DOMAIN save = {"step", "isUpdate", "capture", "next", "db", "skipped"}
  /\ save.step \in {"idle", "schema", "capture", "fields"}

SaveWhole ==
  /\ SaveShape
  /\ save.step # "fields" => ~save.skipped
  /\ save.step = "schema" => ~save.isUpdate
  /\ save.step \in {"schema", "capture"} => save.db = file
  /\ save.step = "capture" /\ save.isUpdate => save.capture = 1 /\ 1 \in DOMAIN file.captures
  /\ save.step = "fields" =>
        /\ save.capture \in Nat \ {0} /\ save.next \in 1 .. (Len(meta.fields) + 1)
        /\ ~save.skipped =>
              /\ FileWhole(save.db)
              /\ Holds(save.db, save.capture, meta, save.next - 1)
              /\ Len(save.db.captures) = 1 => save.capture = 1 /\ Describes(save.db, meta)

SavedWhole ==
  saved.known /\ Len(file.captures) = 1 =>
     /\ MetaWhole(saved.meta) /\ Describes(file, saved.meta)
     /\ Holds(file, 1, saved.meta, Len(saved.meta.fields))

\* Nothing is said of a file that a failed statement left a field out of.
SidecarInv ==
  /\ saved.known => ~saved.lost
  /\ ~saved.lost => FileWhole(file) /\ MetaWhole(meta) /\ SaveWhole /\ SavedWhole

-----------------------------------------------------------------------------
(* Reading. *)

ReadsAs(db, m) ==
  LET r == readFields(db, 1)
      n == Len(m.fields)
  IN  Len(r) >= n /\ SubSeq(r, 1, n) = [i \in 1 .. n |-> AsRead(m.fields[i])]

\* The fields of a capture that has no gap are read in the order of their ids.
LEMMA FieldsAreRead ==
  ASSUME NEW db, NEW n \in Nat, FieldIds(db, 1) = 0 .. (n - 1)
  PROVE  readFields(db, 1) = [i \in 1 .. n |-> readField(db, <<1, i - 1>>)]
<1> DEFINE ids == FieldIds(db, 1)
           Below(id) == {j \in ids : j < id}
           nth(i) == CHOOSE id \in ids : Cardinality(Below(id)) = i - 1
<1>1. readFields(db, 1) = [i \in 1 .. Cardinality(ids) |-> readField(db, <<1, nth(i)>>)]
  BY DEF readFields
<1>2. ids = 0 .. (n - 1)
  OBVIOUS
<1>3. Cardinality(ids) = n
  <2>1. Cardinality(0 .. (n - 1)) = n
    BY FS_Interval, SMT
  <2> QED BY <1>2, <2>1
<1>4. ASSUME NEW id \in ids PROVE Cardinality(Below(id)) = id
  <2>1. Below(id) = 0 .. (id - 1) /\ id \in Nat
    BY <1>2
  <2>2. Cardinality(0 .. (id - 1)) = id
    BY <2>1, FS_Interval, SMT
  <2> HIDE DEF Below
  <2> QED BY <2>1, <2>2
<1>5. ASSUME NEW i \in 1 .. n PROVE nth(i) = i - 1
  <2>1. i - 1 \in ids /\ Cardinality(Below(i - 1)) = i - 1
    BY <1>2, <1>4
  <2>2. \A id \in ids : Cardinality(Below(id)) = i - 1 => id = i - 1
    BY <1>4
  <2> HIDE DEF Below, ids
  <2> QED BY <2>1, <2>2
<1> HIDE DEF nth, ids
<1> QED BY <1>1, <1>3, <1>5

\* What a file holds of an object's fields is read back.
LEMMA ReadsBack ==
  ASSUME NEW db, NEW m, FileWhole(db), MetaWhole(m), Holds(db, 1, m, Len(m.fields))
  PROVE  ReadsAs(db, m)
<1> DEFINE n == Len(m.fields)
<1>1. n \in Nat
  BY SequencesAre DEF MetaWhole
<1>2. PICK c \in Nat : FieldIds(db, 1) = 0 .. (c - 1)
  BY DEF FileWhole
<1>3. n <= c
  <2>1. CASE n = 0
    BY <2>1
  <2>2. CASE n # 0
    <3>1. <<1, n - 1>> \in DOMAIN db.records
      BY <1>1, <2>2 DEF Holds, Stored
    <3>2. n - 1 \in FieldIds(db, 1)
      BY <3>1 DEF FieldIds
    <3> QED BY <1>1, <1>2, <3>2
  <2> QED BY <2>1, <2>2
<1> DEFINE r == [i \in 1 .. c |-> readField(db, <<1, i - 1>>)]
<1>4. readFields(db, 1) = r
  BY <1>2, FieldsAreRead
<1>5. ASSUME NEW i \in 1 .. n PROVE r[i] = AsRead(m.fields[i])
  <2> DEFINE f == m.fields[i]
  <2>1. FieldShape(f) /\ f.seqNo = i
    BY DEF MetaWhole
  <2>2. Stored(db, <<1, i - 1>>, f)
    BY DEF Holds
  <2>3. AsRead(f) = [seqNo |-> i, audioSamples |-> f.audioSamples, vbi |-> f.vbi,
                     dropOuts |-> OrderBy(f.dropOuts)]
    <3> HIDE DEF f
    <3> QED BY <2>1 DEF FieldShape, AsRead
  <2>4. readField(db, <<1, i - 1>>)
          = [seqNo |-> i, audioSamples |-> f.audioSamples, vbi |-> f.vbi,
             dropOuts |-> OrderBy(f.dropOuts)]
    <3>1. (i - 1) + 1 = i
      BY <1>1
    <3> HIDE DEF f
    <3> QED BY <2>2, <3>1 DEF Stored, readField, readDropouts
  <2>5. r[i] = readField(db, <<1, i - 1>>)
    BY <1>1, <1>3
  <2> QED BY <2>3, <2>4, <2>5
<1>6. SequenceOf(r) /\ Len(r) = c
  <2>1. DOMAIN r = 1 .. c /\ r = [i \in 1 .. c |-> r[i]]
    OBVIOUS
  <2> HIDE DEF r
  <2> QED BY <2>1, MakesSequence
<1>7. SubSeq(r, 1, n) = [i \in 1 .. n |-> AsRead(m.fields[i])]
  <2> DEFINE R == {r[i] : i \in DOMAIN r}
  <2>1. r \in Seq(R)
    BY <1>6 DEF SequenceOf
  <2> HIDE DEF R, r, n
  <2>2. SubSeq(r, 1, n) = [i \in 1 .. n |-> r[i]]
    BY <1>1, <1>3, <1>6, <2>1
  <2> QED BY <1>5, <2>2
<1>8. Len(readFields(db, 1)) >= n
  BY <1>1, <1>3, <1>4, <1>6
<1>9. SubSeq(readFields(db, 1), 1, n) = [i \in 1 .. n |-> AsRead(m.fields[i])]
  BY <1>4, <1>7
<1> HIDE DEF r
<1> QED BY <1>8, <1>9 DEF ReadsAs

\* A read makes a whole object out of a whole file.
LEMMA ReadIsWhole ==
  ASSUME NEW db, FileWhole(db)
  PROVE  LET m == readCaptureMetadata(db)
         IN  /\ MetaWhole(m) /\ m.fields = readFields(db, 1)
             /\ Describes(db, m)
<1> DEFINE row == db.captures[1]
           fields == readFields(db, 1)
           m == readCaptureMetadata(db)
           Reads(o) == /\ DOMAIN o = ObjectFields /\ o.fields = fields
                       /\ o.declared = row.declared /\ o.system = row.system
<1>1. Reads(m)
  <2> DEFINE read == [Cleared EXCEPT !.isValid = TRUE, !.system = row.system,
                          !.declared = row.declared, !.fields = fields, !.pcm = 1 \in db.pcm]
             default == initialiseVideoSystemParameters(read)
  <2>1. m = IF readLines(row) = <<None, None>> THEN default
            ELSE [default EXCEPT !.lines = applyTo(read.system, readLines(row))]
    BY DEF readCaptureMetadata
  <2> HIDE DEF fields, row, m
  <2>2. Reads(read)
    BY DEF Cleared, ObjectFields
  <2> HIDE DEF read
  <2>3. Reads(default)
    BY <2>2 DEF initialiseVideoSystemParameters, ObjectFields
  <2> HIDE DEF default
  <2>4. ASSUME NEW l PROVE Reads([default EXCEPT !.lines = l])
    BY <2>3 DEF ObjectFields
  <2> HIDE DEF Reads
  <2> QED BY <2>1, <2>3, <2>4
<1>2. PICK n \in Nat : FieldIds(db, 1) = 0 .. (n - 1)
  BY DEF FileWhole
<1>3. fields = [i \in 1 .. n |-> readField(db, <<1, i - 1>>)]
  BY <1>2, FieldsAreRead
<1>4. ASSUME NEW i \in 1 .. n PROVE FieldShape(fields[i]) /\ fields[i].seqNo = i
  <2>1. (i - 1) + 1 = i
    OBVIOUS
  <2>2. fields[i] = readField(db, <<1, i - 1>>)
    BY <1>3
  <2> HIDE DEF fields
  <2> QED BY <2>1, <2>2 DEF FieldShape, readField
<1>5. SequenceOf(fields) /\ Len(fields) = n
  <2> HIDE DEF fields
  <2>1. DOMAIN fields = 1 .. n /\ fields = [i \in 1 .. n |-> fields[i]]
    BY <1>3
  <2> QED BY <2>1, MakesSequence
<1> HIDE DEF m, fields, row
<1> QED BY <1>1, <1>4, <1>5 DEF MetaWhole, Describes, m, fields, row

-----------------------------------------------------------------------------
(* Writing. *)

\* A field written over whatever there was under its number.
LEMMA WritesField ==
  ASSUME NEW db, NEW c \in Nat \ {0}, NEW f, FileShape(db), FieldShape(f), f.seqNo \in Nat \ {0},
         DOMAIN db.vbi \subseteq DOMAIN db.records, DOMAIN db.dropOuts \subseteq DOMAIN db.records
  PROVE  LET w == writeField(db, c, f)
             k == <<c, f.seqNo - 1>>
         IN  /\ FileShape(w) /\ w.captures = db.captures
             /\ DOMAIN w.records = DOMAIN db.records \cup {k}
             /\ DOMAIN w.vbi \subseteq DOMAIN w.records /\ DOMAIN w.dropOuts \subseteq DOMAIN w.records
             /\ Stored(w, k, f)
             /\ \A x, g : x # k /\ Stored(db, x, g) => Stored(w, x, g)
<1> DEFINE k == <<c, f.seqNo - 1>>
           free == IF k \in DOMAIN db.records THEN deleteCascade(db, k) ELSE db
           one == writeFieldRecord(db, k, f.audioSamples)
           two == writeFieldVbi(one, k, f.vbi)
           w == writeFieldDropouts(two, k, f.dropOuts)
           Columns == {"exists", "captures", "pcm", "records", "vbi", "dropOuts"}
           Keeps(d) == /\ DOMAIN d = Columns /\ d.captures = db.captures
                       /\ KeptBut(k, d.records, db.records) /\ KeptBut(k, d.vbi, db.vbi)
                       /\ KeptBut(k, d.dropOuts, db.dropOuts)
<1>1. Keeps(free) /\ k \notin DOMAIN free.vbi /\ k \notin DOMAIN free.dropOuts
  <2>1. CASE k \in DOMAIN db.records
    <3> HIDE DEF k
    <3> DEFINE e == deleteCascade(db, k)
    <3>1. /\ DOMAIN e = Columns /\ e.captures = db.captures /\ e.records = Without(db.records, k)
          /\ e.vbi = Without(db.vbi, k) /\ e.dropOuts = Without(db.dropOuts, k)
      BY DEF deleteCascade, FileShape
    <3> HIDE DEF e
    <3>2. free = e
      BY <2>1 DEF e
    <3> HIDE DEF free
    <3> QED BY <3>1, <3>2, WithoutKeeps
  <2>2. CASE k \notin DOMAIN db.records
    <3> HIDE DEF k
    <3>1. free = db
      BY <2>2
    <3> HIDE DEF free
    <3> QED BY <2>2, <3>1 DEF FileShape, KeptBut
  <2> QED BY <2>1, <2>2
<1>2. /\ Keeps(one) /\ k \notin DOMAIN one.vbi /\ k \notin DOMAIN one.dropOuts
      /\ k \in DOMAIN one.records /\ one.records[k] = f.audioSamples
  <2>1. one = [free EXCEPT !.records = With(@, k, f.audioSamples)]
    BY DEF writeFieldRecord
  <2> HIDE DEF one, free, k
  <2>2. /\ DOMAIN one = Columns /\ one.captures = free.captures /\ one.vbi = free.vbi
        /\ one.dropOuts = free.dropOuts /\ one.records = With(free.records, k, f.audioSamples)
    BY <1>1, <2>1
  <2> QED BY <1>1, <2>2, WithKeeps
<1>3. /\ Keeps(two) /\ two.records = one.records /\ k \notin DOMAIN two.dropOuts
      /\ RowsOf(two.vbi, k) = f.vbi
  <2> HIDE DEF one, k
  <2>1. CASE f.vbi = NoVbi
    <3>1. two = one
      BY <2>1 DEF writeFieldVbi
    <3> HIDE DEF two
    <3> QED BY <1>2, <2>1, <3>1 DEF RowsOf, NoVbi
  <2>2. CASE f.vbi # NoVbi
    <3>1. two = [one EXCEPT !.vbi = With(@, k, f.vbi)]
      BY <2>2 DEF writeFieldVbi
    <3> HIDE DEF two
    <3>2. /\ DOMAIN two = Columns /\ two.captures = one.captures /\ two.records = one.records
          /\ two.dropOuts = one.dropOuts /\ two.vbi = With(one.vbi, k, f.vbi)
      BY <1>2, <3>1
    <3> QED BY <1>2, <3>2, WithKeeps DEF RowsOf
  <2> QED BY <2>1, <2>2
<1>4. /\ Keeps(w) /\ w.records = two.records /\ w.vbi = two.vbi
      /\ RowsOf(w.dropOuts, k) = f.dropOuts
  <2> HIDE DEF two, k, one
  <2>1. CASE f.dropOuts = <<>>
    <3>1. w = two
      BY <2>1 DEF writeFieldDropouts
    <3> HIDE DEF w
    <3> QED BY <1>3, <2>1, <3>1 DEF RowsOf
  <2>2. CASE f.dropOuts # <<>>
    <3>1. w = [two EXCEPT !.dropOuts = With(@, k, IF k \in DOMAIN @ THEN @[k] \o f.dropOuts
                                                  ELSE f.dropOuts)]
      BY <2>2 DEF writeFieldDropouts
    <3> HIDE DEF w
    <3>2. /\ DOMAIN w = Columns /\ w.captures = two.captures /\ w.records = two.records
          /\ w.vbi = two.vbi /\ w.dropOuts = With(two.dropOuts, k, f.dropOuts)
      BY <1>3, <3>1
    <3> QED BY <1>3, <3>2, WithKeeps DEF RowsOf
  <2> QED BY <2>1, <2>2
<1>5. w = writeField(db, c, f)
  BY DEF writeField
<1> HIDE DEF w, two, one, free, k
<1>6. FileShape(w) /\ w.captures = db.captures
  BY <1>4 DEF FileShape
<1>7. DOMAIN w.records = DOMAIN db.records \cup {k}
  BY <1>2, <1>3, <1>4 DEF KeptBut
<1>8. DOMAIN w.vbi \subseteq DOMAIN w.records /\ DOMAIN w.dropOuts \subseteq DOMAIN w.records
  BY <1>4, <1>7 DEF KeptBut
<1>9. Stored(w, k, f)
  BY <1>2, <1>3, <1>4 DEF Stored
<1>10. ASSUME NEW x, NEW g, x # k, Stored(db, x, g)
       PROVE  Stored(w, x, g)
  BY <1>4, <1>10 DEF Stored, RowsOf, KeptBut
<1> QED BY <1>5, <1>6, <1>7, <1>8, <1>9, <1>10 DEF k

\* The next field of a save.
LEMMA NextIsStored ==
  ASSUME NEW db, NEW c \in Nat \ {0}, NEW m, NEW i \in 1 .. Len(m.fields),
         FileWhole(db), MetaWhole(m), Holds(db, c, m, i - 1)
  PROVE  LET w == writeField(db, c, m.fields[i])
         IN  FileWhole(w) /\ Holds(w, c, m, i) /\ w.captures = db.captures
<1> DEFINE f == m.fields[i]
           w == writeField(db, c, f)
           k == <<c, i - 1>>
<1>1. Len(m.fields) \in Nat
  BY SequencesAre DEF MetaWhole
<1>2. FieldShape(f) /\ f.seqNo = i /\ i \in Nat \ {0}
  BY <1>1 DEF MetaWhole
<1>3. /\ FileShape(w) /\ w.captures = db.captures
      /\ DOMAIN w.records = DOMAIN db.records \cup {k}
      /\ DOMAIN w.vbi \subseteq DOMAIN w.records /\ DOMAIN w.dropOuts \subseteq DOMAIN w.records
      /\ Stored(w, k, f)
      /\ \A x, g : x # k /\ Stored(db, x, g) => Stored(w, x, g)
  <2> HIDE DEF f
  <2> QED BY <1>2, WritesField DEF FileWhole
<1> HIDE DEF w
<1>4. Holds(w, c, m, i)
  <2> SUFFICES ASSUME NEW j \in 1 .. i PROVE Stored(w, <<c, j - 1>>, m.fields[j])
    BY DEF Holds
  <2>1. CASE j = i
    BY <1>3, <2>1
  <2>2. CASE j # i
    <3>1. j \in 1 .. (i - 1) /\ <<c, j - 1>> # k
      BY <1>2, <2>2
    <3> QED BY <1>3, <3>1 DEF Holds
  <2> QED BY <2>1, <2>2
<1>5. DOMAIN w.records \subseteq Nat \X Nat
  BY <1>2, <1>3 DEF FileWhole
<1>6. \E n \in Nat : FieldIds(w, 1) = 0 .. (n - 1)
  <2>1. PICK n \in Nat : FieldIds(db, 1) = 0 .. (n - 1)
    BY DEF FileWhole
  <2>2. CASE c # 1
    <3>1. FieldIds(w, 1) = FieldIds(db, 1)
      BY <1>3, <2>2 DEF FieldIds
    <3> QED BY <2>1, <3>1
  <2>3. CASE c = 1
    <3>1. FieldIds(w, 1) = FieldIds(db, 1) \cup {i - 1}
      BY <1>3, <2>3 DEF FieldIds
    <3>2. i - 1 <= n
      <4>1. CASE i = 1
        BY <4>1
      <4>2. CASE i # 1
        <5>1. i - 1 \in 1 .. (i - 1)
          BY <1>2, <4>2
        <5>2. <<c, (i - 1) - 1>> \in DOMAIN db.records
          BY <5>1 DEF Holds, Stored
        <5>3. (i - 1) - 1 \in FieldIds(db, 1)
          BY <2>3, <5>2 DEF FieldIds
        <5> QED BY <1>2, <2>1, <5>3
      <4> QED BY <4>1, <4>2
    <3>3. i - 1 \in 0 .. n
      BY <1>2, <2>1, <3>2
    <3>4. \E t \in Nat : (0 .. (n - 1)) \cup {i - 1} = 0 .. (t - 1)
      BY <3>3, OneMoreId
    <3> QED BY <2>1, <3>1, <3>4
  <2> QED BY <2>2, <2>3
<1>7. FileWhole(w)
  BY <1>3, <1>5, <1>6 DEF FileWhole
<1> QED BY <1>3, <1>4, <1>7 DEF w

-----------------------------------------------------------------------------
(* The invariant. *)

\* A process starts with an empty object beside a whole file.
LEMMA InitiallySound == Init => SidecarInv
<1> SUFFICES ASSUME Init PROVE SidecarInv
  OBVIOUS
<1>1. FileWhole(file)
  <2>1. DOMAIN file.records \subseteq Nat \X Nat /\ IsFiniteSet(DOMAIN file.records)
    BY InitialFilesAssumption DEF Init
  <2>2. PICK n \in 0 .. Cardinality(DOMAIN file.records) : FieldIds(file, 1) = 0 .. (n - 1)
    BY InitialFilesAssumption DEF Init, FieldIds
  <2>3. n \in Nat
    <3>1. Cardinality(DOMAIN file.records) \in Nat
      BY <2>1, FS_CardinalityType
    <3> QED BY <3>1
  <2>4. FileShape(file)
    BY InitialFilesAssumption DEF Init, FileShape
  <2>5. DOMAIN file.vbi \subseteq DOMAIN file.records /\ DOMAIN file.dropOuts \subseteq DOMAIN file.records
    BY InitialFilesAssumption DEF Init
  <2> QED BY <2>1, <2>2, <2>3, <2>4, <2>5 DEF FileWhole
<1>2. MetaWhole(Cleared)
  <2>1. Cleared.fields = <<>> /\ DOMAIN Cleared = ObjectFields
    BY DEF Cleared, ObjectFields
  <2>2. SequenceOf(<<>>) /\ Len(<<>>) = 0
    BY EmptySeq DEF SequenceOf
  <2> QED BY <2>1, <2>2 DEF MetaWhole
<1>3. SaveWhole
  BY DEF Init, Idle, SaveWhole, SaveShape
<1>4. ~saved.known
  BY DEF Init, NoSave
<1> QED BY <1>1, <1>2, <1>3, <1>4 DEF Init, SidecarInv, SavedWhole

\* Edits of the object leave the file and the last save alone.
LEMMA EditsAreSound ==
  ASSUME SidecarInv, NEW m, Edit(m), ~saved.lost => MetaWhole(m)
  PROVE  SidecarInv'
<1>1. /\ save = Idle /\ save' = Idle /\ meta' = m
      /\ UNCHANGED <<file, saved>>
  BY DEF Edit
<1>2. SaveWhole'
  BY <1>1 DEF Idle, SaveWhole, SaveShape
<1> QED BY <1>1, <1>2 DEF SidecarInv, SavedWhole

\* An edit of anything but the fields keeps their numbers.
LEMMA EditedIsWhole ==
  ASSUME NEW m, MetaWhole(m), NEW e, DOMAIN e = ObjectFields, e.fields = m.fields
  PROVE  MetaWhole(e)
BY DEF MetaWhole

\* An edit of a field keeps its number.
LEMMA FieldEdited ==
  ASSUME NEW m, MetaWhole(m), NEW n \in DOMAIN m.fields, NEW f, FieldShape(f), f.seqNo = n,
         NEW e, DOMAIN e = ObjectFields, e.fields = [m.fields EXCEPT ![n] = f]
  PROVE  MetaWhole(e)
<1>1. /\ Len(m.fields) \in Nat /\ DOMAIN m.fields = 1 .. Len(m.fields)
      /\ m.fields = [i \in 1 .. Len(m.fields) |-> m.fields[i]]
  BY SequencesAre DEF MetaWhole
<1>2. /\ DOMAIN e.fields = 1 .. Len(m.fields)
      /\ e.fields = [i \in 1 .. Len(m.fields) |-> e.fields[i]]
  BY <1>1
<1>3. SequenceOf(e.fields) /\ Len(e.fields) = Len(m.fields)
  BY <1>1, <1>2, MakesSequence
<1>4. ASSUME NEW i \in 1 .. Len(m.fields) PROVE FieldShape(e.fields[i]) /\ e.fields[i].seqNo = i
  BY <1>1 DEF MetaWhole
<1> QED BY <1>3, <1>4 DEF MetaWhole

\* What a JSON file leaves in the object, refused or not, is numbered by place.
LEMMA JsonIsWhole ==
  ASSUME NEW j \in JsonFiles
  PROVE  MetaWhole(readJson(j).meta)
<1> DEFINE bad == {i \in DOMAIN j.fields : ~dropOutArraysMatch(j.fields[i])}
           least == CHOOSE i \in bad : \A k \in bad : i <= k
           stop == least - 1
           read == IF bad = {} THEN j.fields ELSE SubSeq(j.fields, 1, stop)
           made == [i \in DOMAIN read |-> readJsonField(read[i])]
           m == [readJsonParameters(j) EXCEPT !.fields = made]
<1>1. /\ Len(j.fields) \in Nat /\ DOMAIN j.fields = 1 .. Len(j.fields)
      /\ \A i \in DOMAIN j.fields : j.fields[i].seqNo = i
  BY JsonFilesAssumption, SequencesAre
<1>2. PICK n \in 0 .. Len(j.fields) :
         DOMAIN read = 1 .. n /\ \A i \in 1 .. n : read[i] = j.fields[i]
  <2>1. CASE bad = {}
    BY <1>1, <2>1
  <2>2. CASE bad # {}
    <3>1. bad \subseteq 1 .. Len(j.fields)
      BY <1>1
    <3>2. stop \in 0 .. Len(j.fields)
      <4> HIDE DEF bad
      <4>1. \E i \in bad : \A k \in bad : i <= k
        <5>1. bad \subseteq Nat
          BY <1>1, <3>1
        <5> QED BY <2>2, <5>1, LeastExists
      <4>2. least \in bad
        BY <4>1
      <4> HIDE DEF least
      <4> QED BY <1>1, <3>1, <4>2
    <3> DEFINE R == {j.fields[i] : i \in DOMAIN j.fields}
    <3>3. j.fields \in Seq(R)
      BY JsonFilesAssumption DEF SequenceOf
    <3>4. read = SubSeq(j.fields, 1, stop)
      BY <2>2
    <3> HIDE DEF R, stop, bad, read
    <3>5. DOMAIN read = 1 .. stop /\ \A i \in 1 .. stop : read[i] = j.fields[i]
      BY <1>1, <3>2, <3>3, <3>4
    <3> QED BY <3>2, <3>5
  <2> QED BY <2>1, <2>2
<1>3. SequenceOf(made) /\ Len(made) = n
  <2> HIDE DEF read
  <2>1. DOMAIN made = 1 .. n /\ made = [i \in 1 .. n |-> made[i]]
    BY <1>2
  <2> HIDE DEF made
  <2> QED BY <1>1, <2>1, MakesSequence
<1>4. ASSUME NEW i \in 1 .. n PROVE FieldShape(made[i]) /\ made[i].seqNo = i
  <2> HIDE DEF read
  <2>1. made[i] = readJsonField(j.fields[i]) /\ j.fields[i].seqNo = i
    BY <1>1, <1>2
  <2> HIDE DEF made
  <2> QED BY <2>1 DEF readJsonField, FieldShape
<1>5. DOMAIN m = ObjectFields /\ m.fields = made
  <2> HIDE DEF made
  <2> QED BY DEF readJsonParameters, Cleared, ObjectFields
<1>6. MetaWhole(m)
  <2> HIDE DEF m, made
  <2> QED BY <1>3, <1>4, <1>5 DEF MetaWhole
<1>7. readJson(j).meta = m \/ readJson(j).meta = initialiseVideoSystemParameters(m)
  BY DEF readJson
<1> HIDE DEF m
<1>8. MetaWhole(initialiseVideoSystemParameters(m))
  BY <1>6, EditedIsWhole DEF initialiseVideoSystemParameters, MetaWhole, ObjectFields
<1> QED BY <1>6, <1>7, <1>8

\* Every edit keeps the fields numbered by their places.
LEMMA EditsKeepWhole ==
  ASSUME SidecarInv, ~saved.lost,
         NEW system, NEW lines, NEW vbi, NEW drops
  PROVE  /\ SetVideoParameters(system, lines) => SidecarInv'
         /\ AppendField(vbi, drops) => SidecarInv'
         /\ OverrideVideoSystem(system) => SidecarInv'
         /\ \A n \in DOMAIN meta.fields :
               UpdateFieldVbi(n, vbi) \/ UpdateFieldDropOuts(n, drops) => SidecarInv'
<1>1. MetaWhole(meta) /\ DOMAIN meta = ObjectFields
  BY DEF SidecarInv, MetaWhole
<1>2. ASSUME SetVideoParameters(system, lines) PROVE SidecarInv'
  <2> DEFINE e == [meta EXCEPT !.isValid = TRUE, !.system = system, !.declared = 0,
                               !.lines = lines]
  <2>1. DOMAIN e = ObjectFields /\ e.fields = meta.fields
    BY <1>1 DEF ObjectFields
  <2>2. Edit(e)
    BY <1>2 DEF SetVideoParameters
  <2> HIDE DEF e
  <2> QED BY <1>1, <2>1, <2>2, EditedIsWhole, EditsAreSound
<1>3. ASSUME OverrideVideoSystem(system) PROVE SidecarInv'
  <2> DEFINE e == [meta EXCEPT !.system = system, !.lines = applyTo(system, meta.lines)]
  <2>1. DOMAIN e = ObjectFields /\ e.fields = meta.fields
    BY <1>1 DEF ObjectFields
  <2>2. Edit(e)
    BY <1>3 DEF OverrideVideoSystem
  <2> HIDE DEF e
  <2> QED BY <1>1, <2>1, <2>2, EditedIsWhole, EditsAreSound
<1>4. ASSUME AppendField(vbi, drops) PROVE SidecarInv'
  <2> DEFINE c == Len(meta.fields) + 1
             f == [seqNo |-> c, audioSamples |-> c, vbi |-> vbi, dropOuts |-> drops]
             e == [meta EXCEPT !.fields = Append(@, f), !.declared = c]
  <2>1. Edit(e)
    BY <1>4 DEF AppendField
  <2>2. DOMAIN e = ObjectFields /\ e.fields = Append(meta.fields, f)
    BY <1>1 DEF ObjectFields
  <2>3. FieldShape(f) /\ f.seqNo = c
    BY DEF FieldShape
  <2>4. SequenceOf(meta.fields) /\ Len(meta.fields) \in Nat
    BY <1>1, SequencesAre DEF MetaWhole
  <2> HIDE DEF e, f
  <2>5. /\ SequenceOf(e.fields) /\ Len(e.fields) = c
        /\ \A i \in 1 .. Len(meta.fields) : e.fields[i] = meta.fields[i]
        /\ e.fields[c] = f
    BY <2>2, <2>4, AppendsAre
  <2>6. ASSUME NEW i \in 1 .. c PROVE FieldShape(e.fields[i]) /\ e.fields[i].seqNo = i
    <3>1. CASE i = c
      BY <2>3, <2>5, <3>1
    <3>2. CASE i # c
      <4>1. i \in 1 .. Len(meta.fields)
        BY <2>4, <3>2
      <4> QED BY <1>1, <2>5, <4>1 DEF MetaWhole
    <3> QED BY <3>1, <3>2
  <2>7. MetaWhole(e)
    BY <2>2, <2>5, <2>6 DEF MetaWhole
  <2> QED BY <2>1, <2>7, EditsAreSound
<1>5. \A n \in DOMAIN meta.fields : FieldShape(meta.fields[n]) /\ meta.fields[n].seqNo = n
  BY <1>1, SequencesAre DEF MetaWhole
<1>6. ASSUME NEW n \in DOMAIN meta.fields, UpdateFieldVbi(n, vbi) PROVE SidecarInv'
  <2> DEFINE g == meta.fields[n]
             f == [g EXCEPT !.vbi = vbi]
             e == [meta EXCEPT !.fields[n].vbi = vbi]
  <2>1. Edit(e)
    BY <1>6 DEF UpdateFieldVbi
  <2>2. DOMAIN e = ObjectFields /\ e.fields = [meta.fields EXCEPT ![n] = f]
    BY <1>1 DEF ObjectFields
  <2>3. FieldShape(f) /\ f.seqNo = n
    <3>1. FieldShape(g) /\ g.seqNo = n
      BY <1>5
    <3> HIDE DEF g
    <3> QED BY <3>1 DEF FieldShape
  <2> HIDE DEF e, f
  <2> QED BY <1>1, <2>1, <2>2, <2>3, FieldEdited, EditsAreSound
<1>7. ASSUME NEW n \in DOMAIN meta.fields, UpdateFieldDropOuts(n, drops) PROVE SidecarInv'
  <2> DEFINE g == meta.fields[n]
             f == [g EXCEPT !.dropOuts = drops]
             e == [meta EXCEPT !.fields[n].dropOuts = drops]
  <2>1. Edit(e)
    BY <1>7 DEF UpdateFieldDropOuts
  <2>2. DOMAIN e = ObjectFields /\ e.fields = [meta.fields EXCEPT ![n] = f]
    BY <1>1 DEF ObjectFields
  <2>3. FieldShape(f) /\ f.seqNo = n
    <3>1. FieldShape(g) /\ g.seqNo = n
      BY <1>5
    <3> HIDE DEF g
    <3> QED BY <3>1 DEF FieldShape
  <2> HIDE DEF e, f
  <2> QED BY <1>1, <2>1, <2>2, <2>3, FieldEdited, EditsAreSound
<1> QED BY <1>2, <1>3, <1>4, <1>6, <1>7

\* Steps that leave nothing under way.
LEMMA IdleIsSound ==
  ASSUME SidecarInv, save' = Idle, UNCHANGED <<file, saved>>,
         ~saved.lost => MetaWhole(meta')
  PROVE  SidecarInv'
<1>1. SaveWhole'
  BY DEF Idle, SaveWhole, SaveShape
<1> QED BY <1>1 DEF SidecarInv, SavedWhole

\* A read replaces the object by a whole one.
LEMMA ReadsAreSound ==
  ASSUME SidecarInv, ReadSqlite \/ \E j \in JsonFiles : ReadJson(j)
  PROVE  SidecarInv'
<1>1. ~saved.lost => MetaWhole(Cleared)
  <2>1. Cleared.fields = <<>> /\ DOMAIN Cleared = ObjectFields
    BY DEF Cleared, ObjectFields
  <2>2. SequenceOf(<<>>) /\ Len(<<>>) = 0
    BY EmptySeq DEF SequenceOf
  <2> QED BY <2>1, <2>2 DEF MetaWhole
<1>2. CASE ReadSqlite
  <2>1. /\ save = Idle /\ save' = save /\ UNCHANGED <<file, saved>>
        /\ meta' = Cleared \/ meta' = readCaptureMetadata(file)
    BY <1>2 DEF ReadSqlite
  <2>2. ~saved.lost => MetaWhole(readCaptureMetadata(file))
    BY ReadIsWhole DEF SidecarInv
  <2> QED BY <1>1, <2>1, <2>2, IdleIsSound
<1>3. ASSUME NEW j \in JsonFiles, ReadJson(j) PROVE SidecarInv'
  <2>1. save = Idle /\ save' = save /\ UNCHANGED <<file, saved>> /\ meta' = readJson(j).meta
    BY <1>3 DEF ReadJson
  <2>2. MetaWhole(readJson(j).meta)
    BY JsonIsWhole
  <2> QED BY <2>1, <2>2, IdleIsSound
<1> QED BY <1>2, <1>3

\* A save starts from the committed file.
LEMMA BeginSaveIsSound ==
  ASSUME SidecarInv, BeginSave
  PROVE  SidecarInv'
<1>1. PICK isUpdate \in BOOLEAN :
         /\ isUpdate => readable(file)
         /\ save' = [Idle EXCEPT !.step = IF isUpdate THEN "capture" ELSE "schema",
                                 !.isUpdate = isUpdate, !.capture = 1, !.db = file]
  BY DEF BeginSave
<1>2. UNCHANGED <<meta, file, saved>>
  BY DEF BeginSave
<1>3. /\ DOMAIN save' = {"step", "isUpdate", "capture", "next", "db", "skipped"}
      /\ save'.step = IF isUpdate THEN "capture" ELSE "schema"
      /\ save'.isUpdate = isUpdate /\ save'.capture = 1 /\ save'.db = file /\ ~save'.skipped
  BY <1>1 DEF Idle
<1>4. SaveWhole' \/ saved.lost
  <2> SUFFICES ASSUME ~saved.lost PROVE SaveWhole'
    OBVIOUS
  <2>1. isUpdate => 1 \in DOMAIN file.captures
    <3> SUFFICES ASSUME file.captures # <<>> PROVE 1 \in DOMAIN file.captures
      BY <1>1 DEF readable
    <3>1. SequenceOf(file.captures)
      BY DEF SidecarInv, FileWhole, FileShape
    <3> DEFINE R == {file.captures[i] : i \in DOMAIN file.captures}
    <3>2. file.captures \in Seq(R)
      BY <3>1 DEF SequenceOf
    <3> HIDE DEF R
    <3> QED BY <3>2
  <2> QED BY <1>2, <1>3, <2>1 DEF SaveWhole, SaveShape
<1> QED BY <1>2, <1>4 DEF SidecarInv, SavedWhole

\* A schema adds no row.
LEMMA SameRows ==
  ASSUME NEW db, NEW e, FileWhole(db), DOMAIN e = DOMAIN db, e.captures = db.captures,
         e.records = db.records, e.vbi = db.vbi, e.dropOuts = db.dropOuts
  PROVE  /\ FileWhole(e)
         /\ \A c, m, n : Holds(db, c, m, n) => Holds(e, c, m, n)
         /\ \A m : Describes(db, m) => Describes(e, m)
<1>1. FileWhole(e)
  BY DEF FileWhole, FileShape, FieldIds
<1>2. ASSUME NEW k, NEW f, Stored(db, k, f) PROVE Stored(e, k, f)
  BY <1>2 DEF Stored, RowsOf
<1>3. ASSUME NEW c, NEW m, NEW n, Holds(db, c, m, n) PROVE Holds(e, c, m, n)
  BY <1>2, <1>3 DEF Holds
<1>4. ASSUME NEW m, Describes(db, m) PROVE Describes(e, m)
  BY <1>4 DEF Describes
<1> QED BY <1>1, <1>3, <1>4

\* The schema is committed and has no row.
LEMMA CreateSchemaIsSound ==
  ASSUME SidecarInv, CreateSchema
  PROVE  SidecarInv'
<1> SUFFICES ASSUME ~saved.lost PROVE SidecarInv'
  BY DEF SidecarInv, CreateSchema
<1> USE DEF SidecarInv
<1>1. FileWhole(file) /\ DOMAIN file = {"exists", "captures", "pcm", "records", "vbi", "dropOuts"}
  BY DEF FileWhole, FileShape
<1>2. UNCHANGED <<meta, saved>> /\ file' = [file EXCEPT !.exists = TRUE]
  BY DEF CreateSchema
<1>3. /\ DOMAIN file' = DOMAIN file /\ file'.captures = file.captures /\ file'.records = file.records
      /\ file'.vbi = file.vbi /\ file'.dropOuts = file.dropOuts
  BY <1>1, <1>2
<1>4. /\ FileWhole(file') /\ \A c, m, n : Holds(file, c, m, n) => Holds(file', c, m, n)
      /\ \A m : Describes(file, m) => Describes(file', m)
  BY <1>1, <1>3, SameRows
<1>5. /\ DOMAIN save' = DOMAIN save /\ save'.step = "capture" /\ save'.db = file'
      /\ ~save'.isUpdate /\ ~save'.skipped
  BY DEF CreateSchema, SaveWhole, SaveShape
<1>6. SaveWhole'
  BY <1>5 DEF SaveWhole, SaveShape
<1>7. SavedWhole'
  BY <1>2, <1>3, <1>4 DEF SavedWhole
<1> QED BY <1>2, <1>4, <1>6, <1>7

\* The capture's row is written: the first one is updated, or a row is appended
\* and is the first one if there was none.
LEMMA WriteCaptureIsSound ==
  ASSUME SidecarInv, WriteCapture
  PROVE  SidecarInv'
<1> SUFFICES ASSUME ~saved.lost, meta.system \in SchemaSystems PROVE SidecarInv'
  BY IdleIsSound DEF SidecarInv, WriteCapture
<1> USE DEF SidecarInv
<1> DEFINE capture == IF save.isUpdate THEN save.capture ELSE Len(file.captures) + 1
           row == IF save.isUpdate THEN updateCaptureMetadata(file, capture, meta)
                  ELSE writeCaptureMetadata(file, meta)
           db == writePcmAudioParameters(row, capture, meta)
           Row == {"system", "declared", "first", "exclusiveLast"}
<1>1. save.step = "capture" /\ save.db = file /\ UNCHANGED <<meta, file, saved>>
  BY DEF WriteCapture, SaveWhole
<1>2. save' = [save EXCEPT !.step = "fields", !.capture = capture, !.next = 1, !.db = db]
  BY <1>1 DEF WriteCapture
<1>3. /\ DOMAIN file = {"exists", "captures", "pcm", "records", "vbi", "dropOuts"}
      /\ SequenceOf(file.captures)
      /\ \A i \in DOMAIN file.captures : DOMAIN file.captures[i] = Row
  BY DEF FileWhole, FileShape
<1>4. Len(file.captures) \in Nat /\ DOMAIN file.captures = 1 .. Len(file.captures)
  BY <1>3, SequencesAre
<1>5. /\ DOMAIN row = DOMAIN file /\ row.records = file.records /\ row.vbi = file.vbi
      /\ row.dropOuts = file.dropOuts /\ capture \in Nat \ {0}
      /\ SequenceOf(row.captures) /\ \A i \in DOMAIN row.captures : DOMAIN row.captures[i] = Row
      /\ Len(row.captures) = 1 => capture = 1 /\ Describes(row, meta)
  <2>1. CASE save.isUpdate
    <3> DEFINE r == file.captures[1]
               s == [[r EXCEPT !.system = meta.system] EXCEPT !.declared = meta.declared]
               cs == [file.captures EXCEPT ![1] = s]
    <3>1. capture = 1 /\ 1 \in DOMAIN file.captures
      BY <1>1, <2>1 DEF SaveWhole
    <3>2. row = [file EXCEPT !.captures[1].system = meta.system,
                             !.captures[1].declared = meta.declared]
      BY <2>1, <3>1 DEF updateCaptureMetadata
    <3>3. DOMAIN s = Row /\ s.system = meta.system /\ s.declared = meta.declared
      <4>1. DOMAIN r = Row
        BY <1>3, <3>1
      <4> HIDE DEF r
      <4> QED BY <4>1
    <3>4. /\ DOMAIN row = DOMAIN file /\ row.records = file.records /\ row.vbi = file.vbi
          /\ row.dropOuts = file.dropOuts
      <4> HIDE DEF row
      <4> QED BY <1>3, <3>2
    <3>5. row.captures = cs
      <4> HIDE DEF row
      <4> QED BY <1>3, <3>1, <3>2
    <3>6. SequenceOf(cs) /\ \A i \in DOMAIN cs : DOMAIN cs[i] = Row
      <4>1. file.captures = [i \in 1 .. Len(file.captures) |-> file.captures[i]]
        BY <1>3, SequencesAre
      <4> HIDE DEF s
      <4>2. /\ DOMAIN cs = 1 .. Len(file.captures)
            /\ cs = [i \in 1 .. Len(file.captures) |-> cs[i]]
            /\ \A i \in DOMAIN cs : DOMAIN cs[i] = Row
        BY <1>3, <1>4, <3>3, <4>1
      <4> HIDE DEF cs
      <4> QED BY <1>4, <4>2, MakesSequence
    <3>7. cs[1] = s
      BY <3>1
    <3> HIDE DEF row, capture, s, cs
    <3> QED BY <3>1, <3>3, <3>4, <3>5, <3>6, <3>7 DEF Describes
  <2>2. CASE ~save.isUpdate
    <3> DEFINE s == [system |-> meta.system, declared |-> meta.declared, first |-> None,
                     exclusiveLast |-> None]
    <3>1. row = [file EXCEPT !.captures = Append(@, s)]
      BY <2>2 DEF writeCaptureMetadata
    <3>2. DOMAIN s = Row /\ s.system = meta.system /\ s.declared = meta.declared
      OBVIOUS
    <3>3. capture = Len(file.captures) + 1
      BY <2>2
    <3> HIDE DEF row, s, capture
    <3>4. /\ DOMAIN row = DOMAIN file /\ row.records = file.records /\ row.vbi = file.vbi
          /\ row.dropOuts = file.dropOuts /\ row.captures = Append(file.captures, s)
      BY <1>3, <3>1
    <3>5. /\ SequenceOf(row.captures) /\ Len(row.captures) = capture
          /\ \A i \in 1 .. Len(file.captures) : row.captures[i] = file.captures[i]
          /\ row.captures[capture] = s
      BY <1>3, <3>3, <3>4, AppendsAre
    <3>6. DOMAIN row.captures = 1 .. capture
      BY <3>5, SequencesAre
    <3>7. \A i \in DOMAIN row.captures : DOMAIN row.captures[i] = Row
      BY <1>3, <1>4, <3>2, <3>3, <3>5, <3>6
    <3>8. capture = 1 => Describes(row, meta)
      BY <3>2, <3>5 DEF Describes
    <3> QED BY <1>4, <3>3, <3>4, <3>5, <3>7, <3>8
  <2> QED BY <2>1, <2>2
<1>6. /\ DOMAIN db = DOMAIN file /\ db.records = file.records /\ db.vbi = file.vbi
      /\ db.dropOuts = file.dropOuts /\ db.captures = row.captures
  <2> HIDE DEF row, capture
  <2> QED BY <1>3, <1>5 DEF writePcmAudioParameters
<1> HIDE DEF row, capture, db
<1>7. FileWhole(db)
  BY <1>3, <1>5, <1>6 DEF FileWhole, FileShape, FieldIds
<1>8. Len(db.captures) = 1 => capture = 1 /\ Describes(db, meta)
  BY <1>5, <1>6 DEF Describes
<1>9. /\ DOMAIN save' = DOMAIN save /\ save'.step = "fields" /\ save'.capture = capture
      /\ save'.next = 1 /\ save'.db = db /\ save'.skipped = save.skipped
  BY <1>2 DEF SaveWhole, SaveShape
<1>10. Len(meta.fields) \in Nat
  BY SequencesAre DEF MetaWhole
<1>11. Holds(db, capture, meta, 0)
  BY DEF Holds
<1>12. SaveWhole'
  BY <1>1, <1>5, <1>7, <1>8, <1>9, <1>10, <1>11 DEF SaveWhole, SaveShape
<1> QED BY <1>1, <1>12 DEF SavedWhole

\* A field joins those the transaction holds, or the save counts as lost.
LEMMA WriteNextFieldIsSound ==
  ASSUME SidecarInv, WriteNextField
  PROVE  SidecarInv'
<1> SUFFICES ASSUME ~saved.lost PROVE SidecarInv'
  BY DEF SidecarInv, WriteNextField
<1> USE DEF SidecarInv
<1>1. /\ save.step = "fields" /\ save.next <= Len(meta.fields)
      /\ UNCHANGED <<meta, file, saved>>
  BY DEF WriteNextField
<1>2. Len(meta.fields) \in Nat /\ save.next \in 1 .. Len(meta.fields) /\ save.capture \in Nat \ {0}
  BY <1>1, SequencesAre DEF MetaWhole, SaveWhole
<1> DEFINE w == writeField(save.db, save.capture, meta.fields[save.next])
<1>3. CASE save' = [save EXCEPT !.next = @ + 1, !.db = w]
  <2>1. /\ DOMAIN save' = DOMAIN save /\ save'.step = "fields" /\ save'.capture = save.capture
        /\ save'.next = save.next + 1 /\ save'.db = w /\ save'.skipped = save.skipped
    <3> HIDE DEF w
    <3> QED BY <1>1, <1>3 DEF SaveWhole, SaveShape
  <2>2. ~save.skipped =>
           /\ FileWhole(w) /\ Holds(w, save.capture, meta, save.next)
           /\ w.captures = save.db.captures
    BY <1>1, <1>2, NextIsStored DEF SaveWhole
  <2> HIDE DEF w
  <2>3. ~save.skipped => (Len(w.captures) = 1 => save.capture = 1 /\ Describes(w, meta))
    BY <1>1, <2>2 DEF SaveWhole, Describes
  <2>4. (save.next + 1) - 1 = save.next
    BY <1>2
  <2>5. SaveWhole'
    BY <1>1, <1>2, <2>1, <2>2, <2>3, <2>4 DEF SaveWhole, SaveShape
  <2> QED BY <1>1, <2>5 DEF SavedWhole
<1>4. CASE save' = [save EXCEPT !.next = @ + 1, !.skipped = TRUE]
  <2>1. /\ DOMAIN save' = DOMAIN save /\ save'.step = "fields" /\ save'.capture = save.capture
        /\ save'.next = save.next + 1 /\ save'.skipped
    BY <1>1, <1>4 DEF SaveWhole, SaveShape
  <2>2. SaveWhole'
    BY <1>1, <1>2, <2>1 DEF SaveWhole, SaveShape
  <2> QED BY <1>1, <2>2 DEF SavedWhole
<1> QED BY <1>3, <1>4 DEF WriteNextField

\* What a commit says of itself.
LEMMA CommitReports ==
  ASSUME CommitSave
  PROVE  /\ saved'.meta = meta
         /\ saved'.known <=> ~(saved.lost \/ save.skipped)
         /\ saved'.lost <=> (saved.lost \/ save.skipped)
<1>1. saved' = [meta |-> meta, known |-> ~(saved.lost \/ save.skipped),
                lost |-> saved.lost \/ save.skipped]
  BY DEF CommitSave
<1> QED BY <1>1

\* With the last field stored, the transaction is the whole object.
LEMMA CommitSaveIsSound ==
  ASSUME SidecarInv, CommitSave
  PROVE  SidecarInv'
<1>1. /\ save.step = "fields" /\ save.next > Len(meta.fields)
      /\ file' = save.db /\ save' = Idle /\ meta' = meta
  BY DEF CommitSave
<1>2. /\ saved'.meta = meta
      /\ saved'.known <=> ~(saved.lost \/ save.skipped)
      /\ saved'.lost <=> (saved.lost \/ save.skipped)
  BY CommitReports
<1>7. CASE saved.lost \/ save.skipped
  <2>1. saved'.lost /\ ~saved'.known
    BY <1>2, <1>7, Zenon
  <2> QED BY <2>1 DEF SidecarInv
<1> SUFFICES ASSUME ~saved.lost, ~save.skipped PROVE SidecarInv'
  BY <1>7
<1> USE DEF SidecarInv
<1>3. Len(meta.fields) \in Nat /\ save.next - 1 = Len(meta.fields)
  BY <1>1, SequencesAre DEF MetaWhole, SaveWhole
<1>4. /\ FileWhole(save.db) /\ Holds(save.db, save.capture, meta, Len(meta.fields))
      /\ Len(save.db.captures) = 1 => save.capture = 1 /\ Describes(save.db, meta)
  BY <1>1, <1>3 DEF SaveWhole
<1>5. SaveWhole'
  BY <1>1 DEF Idle, SaveWhole, SaveShape
<1>6. SavedWhole'
  BY <1>1, <1>2, <1>4 DEF SavedWhole
<1> QED BY <1>1, <1>2, <1>4, <1>5, <1>6

\* Every step keeps the invariant; once a statement has failed it says nothing.
LEMMA StepsAreSound ==
  ASSUME SidecarInv, [Next]_vars
  PROVE  SidecarInv'
<1>1. CASE UNCHANGED vars
  BY <1>1 DEF vars, SidecarInv, SaveWhole, SaveShape, SavedWhole
<1>2. CASE saved.lost /\ saved'.lost /\ ~saved'.known
  BY <1>2 DEF SidecarInv
<1>3. ASSUME ~saved.lost, Next PROVE SidecarInv'
  <2>1. ASSUME NEW system \in Systems, NEW lines,
               SetVideoParameters(system, lines) \/ OverrideVideoSystem(system)
        PROVE  SidecarInv'
    BY <1>3, <2>1, EditsKeepWhole
  <2>2. ASSUME NEW content \in Contents, AppendField(content[1], content[2])
        PROVE  SidecarInv'
    BY <1>3, <2>2, EditsKeepWhole
  <2>3. ASSUME NEW n \in DOMAIN meta.fields, NEW vbi, UpdateFieldVbi(n, vbi)
        PROVE  SidecarInv'
    BY <1>3, <2>3, EditsKeepWhole
  <2>4. ASSUME NEW n \in DOMAIN meta.fields, NEW drops, UpdateFieldDropOuts(n, drops)
        PROVE  SidecarInv'
    BY <1>3, <2>4, EditsKeepWhole
  <2>5. CASE FailSave
    BY <2>5, IdleIsSound DEF FailSave, SidecarInv
  <2>6. CASE Crash
    <3>1. MetaWhole(Cleared)
      <4>1. Cleared.fields = <<>> /\ DOMAIN Cleared = ObjectFields
        BY DEF Cleared, ObjectFields
      <4>2. SequenceOf(<<>>) /\ Len(<<>>) = 0
        BY EmptySeq DEF SequenceOf
      <4> QED BY <4>1, <4>2 DEF MetaWhole
    <3> QED BY <2>6, <3>1, IdleIsSound DEF Crash
  <2> QED BY <1>3, <2>1, <2>2, <2>3, <2>4, <2>5, <2>6, ReadsAreSound, BeginSaveIsSound,
             CreateSchemaIsSound, WriteCaptureIsSound, WriteNextFieldIsSound, CommitSaveIsSound
          DEF Next
<1>4. CASE saved.lost /\ Next
  <2>1. ~saved.known
    BY <1>4 DEF SidecarInv
  <2>2. saved' = saved \/ CommitSave
    BY <1>4 DEF Next, SetVideoParameters, OverrideVideoSystem, AppendField, UpdateFieldVbi,
                UpdateFieldDropOuts, Edit, ReadSqlite, ReadJson, BeginSave, CreateSchema,
                WriteCapture, WriteNextField, FailSave, Crash
  <2>3. saved'.lost /\ ~saved'.known
    <3>1. CASE saved' = saved
      BY <1>4, <2>1, <3>1
    <3>2. CASE CommitSave
      BY <1>4, <3>2, CommitReports, Zenon
    <3> QED BY <2>2, <3>1, <3>2
  <2> QED BY <1>2, <1>4, <2>3
<1> QED BY <1>1, <1>3, <1>4

\* The invariant of the file, the object and the save between them.
LEMMA SidecarInvariant == Spec => []SidecarInv
<1>1. Init => SidecarInv
  BY InitiallySound
<1>2. SidecarInv /\ [Next]_vars => SidecarInv'
  BY StepsAreSound
<1> QED BY <1>1, <1>2, PTL DEF Spec

\* A readable file holds all of the last save that reported success and nothing of
\* any other, whatever was interrupted, refused or saved over: for any number of
\* fields, any content, any first files and any sequence of edits, reads, saves,
\* faults and crashes.
THEOREM LastSaveKept == Spec => []FileIsLastSave
<1>1. SidecarInv => FileIsLastSave
  <2> SUFFICES ASSUME SidecarInv, saved.known, Len(file.captures) = 1 PROVE FileIsLastSave
    BY DEF FileIsLastSave
  <2> DEFINE m == readCaptureMetadata(file)
             o == saved.meta
             n == Len(o.fields)
  <2>1. /\ FileWhole(file) /\ MetaWhole(o) /\ Describes(file, o) /\ Holds(file, 1, o, n)
    BY DEF SidecarInv, SavedWhole
  <2>2. m.fields = readFields(file, 1) /\ Describes(file, m)
    BY <2>1, ReadIsWhole
  <2>3. /\ Len(readFields(file, 1)) >= n
        /\ SubSeq(readFields(file, 1), 1, n) = [i \in 1 .. n |-> AsRead(o.fields[i])]
    <3> HIDE DEF o
    <3>1. ReadsAs(file, o)
      BY <2>1, ReadsBack
    <3> QED BY <3>1 DEF ReadsAs
  <2> HIDE DEF m, o
  <2> QED BY <2>1, <2>2, <2>3 DEF FileIsLastSave, Describes, m, o
<1> QED BY <1>1, SidecarInvariant, PTL

-----------------------------------------------------------------------------
(* Active lines.  The invariant says that the systems named in the file and *)
(* in the transaction are known and that the lines in force are theirs.     *)

Usable(s, l) ==
  /\ l[1] \in Int /\ l[2] \in Int
  /\ SystemLines[s][1] <= l[1] /\ l[1] <= l[2] /\ l[2] <= SystemLines[s][3]

RowKnown(row) ==
  /\ DOMAIN row = {"system", "declared", "first", "exclusiveLast"}
  /\ row.system \in DOMAIN SystemLines
  /\ row.declared \in Int /\ row.first \in Int /\ row.exclusiveLast \in Int

FileKnown(db) ==
  /\ DOMAIN db = {"exists", "captures", "pcm", "records", "vbi", "dropOuts"}
  /\ SequenceOf(db.captures)
  /\ \A i \in DOMAIN db.captures : RowKnown(db.captures[i])

\* The active lines of an object are not set, or are its system's.
MetaLines(m) ==
  /\ DOMAIN m = ObjectFields
  /\ m.system \in DOMAIN SystemLines /\ m.declared \in Int
  /\ m.lines = <<None, None>> \/ Usable(m.system, m.lines)

LinesInv ==
  /\ MetaLines(meta) /\ FileKnown(file)
  /\ SaveShape
  /\ save # Idle => FileKnown(save.db)
  /\ save.step = "capture" => save.db = file
  /\ save.step \in {"schema", "capture"} /\ save.isUpdate => save.capture = 1 /\ 1 \in DOMAIN file.captures

\* Whatever lines are asked for, those in force are the system's.
LEMMA LinesApply ==
  ASSUME NEW s \in DOMAIN SystemLines, NEW l, l[1] \in Int, l[2] \in Int
  PROVE  Usable(s, applyTo(s, l))
<1> DEFINE low == SystemLines[s][1]
           first == SystemLines[s][2]
           last == SystemLines[s][3]
           a == IF l[1] \in low .. last THEN l[1] ELSE first
           b == IF l[2] \in low .. last THEN l[2] ELSE last
<1>1. low \in Int /\ first \in Int /\ last \in Int /\ low <= first /\ first <= last
  BY SystemLinesAssumption
<1>2. applyTo(s, l) = IF a > b THEN <<first, last>> ELSE <<a, b>>
  BY DEF applyTo
<1>3. a \in Int /\ b \in Int /\ low <= a /\ b <= last
  <2> HIDE DEF low, first, last
  <2> QED BY <1>1
<1> DEFINE r == applyTo(s, l)
<1>4. CASE a > b
  <2>1. r[1] = first /\ r[2] = last
    BY <1>2, <1>4
  <2> HIDE DEF r
  <2> QED BY <1>1, <2>1 DEF Usable, r
<1>5. CASE ~(a > b)
  <2>1. r[1] = a /\ r[2] = b
    BY <1>2, <1>5
  <2> HIDE DEF r, a, b
  <2> QED BY <1>1, <1>3, <1>5, <2>1 DEF Usable, r
<1> QED BY <1>4, <1>5

\* An object of a known system, its defaults set.
LEMMA DefaultLines ==
  ASSUME NEW m, DOMAIN m = ObjectFields, m.system \in DOMAIN SystemLines, m.declared \in Int
  PROVE  LET e == initialiseVideoSystemParameters(m)
         IN  /\ MetaLines(e) /\ Usable(e.system, e.lines)
             /\ e.system = m.system /\ e.declared = m.declared
<1> DEFINE l == applyTo(m.system, <<None, None>>)
           e == [m EXCEPT !.lines = l]
<1>1. Usable(m.system, l)
  <2>1. None \in Int
    BY DEF None
  <2>2. <<None, None>>[1] \in Int /\ <<None, None>>[2] \in Int
    BY <2>1
  <2> QED BY <2>2, LinesApply
<1> HIDE DEF l
<1>2. DOMAIN e = ObjectFields /\ e.system = m.system /\ e.declared = m.declared /\ e.lines = l
  BY DEF ObjectFields
<1>3. e = initialiseVideoSystemParameters(m)
  BY DEF initialiseVideoSystemParameters, l
<1> HIDE DEF e
<1> QED BY <1>1, <1>2, <1>3 DEF MetaLines

\* The object a process starts with.
LEMMA ClearedLines == MetaLines(Cleared)
<1>1. /\ DOMAIN Cleared = ObjectFields /\ Cleared.system = "PAL" /\ Cleared.declared = None
      /\ Cleared.lines = <<None, None>>
  BY DEF Cleared, ObjectFields
<1> QED BY <1>1, SystemsAssumption DEF MetaLines, None

\* A capture is read with the lines its row states, made usable.
LEMMA ReadLines ==
  ASSUME NEW db, FileKnown(db), readable(db)
  PROVE  LET m == readCaptureMetadata(db)
         IN  MetaLines(m) /\ Usable(m.system, m.lines)
<1> DEFINE row == db.captures[1]
           m == [Cleared EXCEPT !.isValid = TRUE, !.system = row.system, !.declared = row.declared,
                                !.fields = readFields(db, 1), !.pcm = 1 \in db.pcm]
           default == initialiseVideoSystemParameters(m)
           stated == readLines(row)
           r == readCaptureMetadata(db)
           l == applyTo(m.system, stated)
<1>1. RowKnown(row)
  <2> DEFINE R == {db.captures[i] : i \in DOMAIN db.captures}
  <2>1. db.captures \in Seq(R) /\ db.captures # <<>>
    BY DEF FileKnown, SequenceOf, readable
  <2>2. 1 \in DOMAIN db.captures
    <3> HIDE DEF R
    <3> QED BY <2>1
  <2> QED BY <2>2 DEF FileKnown
<1>2. DOMAIN m = ObjectFields /\ m.system = row.system /\ m.declared = row.declared
  <2> HIDE DEF row
  <2> QED BY DEF Cleared, ObjectFields
<1>3. stated = <<row.first, IF row.exclusiveLast > 0 THEN row.exclusiveLast - 1 ELSE None>>
  BY DEF readLines
<1>4. stated[1] \in Int /\ stated[2] \in Int
  <2> HIDE DEF row, stated
  <2> QED BY <1>1, <1>3 DEF RowKnown, None
<1>5. r = IF stated = <<None, None>> THEN default ELSE [default EXCEPT !.lines = l]
  BY DEF readCaptureMetadata
<1> HIDE DEF row, m, stated
<1>6. /\ MetaLines(default) /\ Usable(default.system, default.lines)
      /\ default.system = m.system /\ default.declared = m.declared
  BY <1>1, <1>2, DefaultLines DEF RowKnown
<1>7. Usable(m.system, l)
  BY <1>1, <1>2, <1>4, LinesApply DEF RowKnown
<1> HIDE DEF l, default
<1>8. CASE stated = <<None, None>>
  BY <1>5, <1>6, <1>8
<1>9. CASE stated # <<None, None>>
  <2>1. DOMAIN r = ObjectFields /\ r.system = m.system /\ r.declared = m.declared /\ r.lines = l
    BY <1>5, <1>6, <1>9 DEF MetaLines, ObjectFields
  <2> HIDE DEF r
  <2>2. MetaLines(r) /\ Usable(r.system, r.lines)
    BY <1>6, <1>7, <2>1 DEF MetaLines
  <2> QED BY <2>2 DEF r
<1> QED BY <1>8, <1>9

\* A JSON file that is read sets its system's lines; one that is refused leaves them.
LEMMA JsonLines ==
  ASSUME NEW j \in JsonFiles
  PROVE  LET r == readJson(j)
         IN  MetaLines(r.meta) /\ (r.ok => Usable(r.meta.system, r.meta.lines))
<1> DEFINE bad == {i \in DOMAIN j.fields : ~dropOutArraysMatch(j.fields[i])}
           read == IF bad = {} THEN j.fields
                   ELSE SubSeq(j.fields, 1, (CHOOSE i \in bad : \A k \in bad : i <= k) - 1)
           made == [i \in DOMAIN read |-> readJsonField(read[i])]
           m == [readJsonParameters(j) EXCEPT !.fields = made]
           ok == bad = {} /\ j.declared = Len(j.fields)
           r == readJson(j)
<1>1. r = [ok |-> ok, meta |-> IF ok THEN initialiseVideoSystemParameters(m) ELSE m]
  BY DEF readJson
<1> HIDE DEF made
<1>2. /\ DOMAIN m = ObjectFields /\ m.system = jsonSystem(j) /\ m.declared = j.declared
      /\ m.lines = <<None, None>>
  BY DEF readJsonParameters, Cleared, ObjectFields
<1>3. jsonSystem(j) \in DOMAIN SystemLines /\ j.declared \in Int
  BY JsonFilesAssumption, SystemsAssumption DEF jsonSystem
<1> HIDE DEF m, ok
<1>4. MetaLines(m)
  BY <1>2, <1>3 DEF MetaLines
<1>5. /\ MetaLines(initialiseVideoSystemParameters(m))
      /\ Usable(initialiseVideoSystemParameters(m).system, initialiseVideoSystemParameters(m).lines)
  BY <1>2, <1>3, DefaultLines
<1>6. r.ok = ok /\ r.meta = IF ok THEN initialiseVideoSystemParameters(m) ELSE m
  BY <1>1
<1> HIDE DEF r
<1>7. MetaLines(r.meta) /\ (r.ok => Usable(r.meta.system, r.meta.lines))
  BY <1>4, <1>5, <1>6
<1> QED BY <1>7 DEF r

\* Writing and replacing rows of fields leaves the captures' rows alone.
LEMMA FieldRowsKnown ==
  ASSUME NEW db, FileKnown(db), NEW c, NEW f
  PROVE  FileKnown(writeField(db, c, f))
<1> DEFINE k == <<c, f.seqNo - 1>>
           free == IF k \in DOMAIN db.records THEN deleteCascade(db, k) ELSE db
           one == writeFieldRecord(db, k, f.audioSamples)
           two == writeFieldVbi(one, k, f.vbi)
           w == writeFieldDropouts(two, k, f.dropOuts)
           Same(d) == DOMAIN d = DOMAIN db /\ d.captures = db.captures
<1>0. DOMAIN db = {"exists", "captures", "pcm", "records", "vbi", "dropOuts"}
  BY DEF FileKnown
<1>1. w = writeField(db, c, f)
  BY DEF writeField
<1>2. Same(free)
  BY <1>0 DEF deleteCascade
<1>3. one = [free EXCEPT !.records = With(@, k, f.audioSamples)]
  BY DEF writeFieldRecord
<1> HIDE DEF free, k
<1>4. Same(one)
  BY <1>0, <1>2, <1>3
<1> HIDE DEF one
<1>5. Same(two)
  BY <1>0, <1>4 DEF writeFieldVbi
<1> HIDE DEF two
<1>6. Same(w)
  BY <1>0, <1>5 DEF writeFieldDropouts
<1> HIDE DEF w
<1> QED BY <1>1, <1>6 DEF FileKnown

\* The first capture's row is rewritten with the object's system.
LEMMA CaptureUpdated ==
  ASSUME NEW db, FileKnown(db), 1 \in DOMAIN db.captures, MetaLines(meta), NEW c, c = 1
  PROVE  FileKnown(updateCaptureMetadata(db, c, meta))
<1> DEFINE r == db.captures[1]
           s == [[r EXCEPT !.system = meta.system] EXCEPT !.declared = meta.declared]
           cs == [db.captures EXCEPT ![1] = s]
           e == updateCaptureMetadata(db, c, meta)
<1>1. e = [db EXCEPT !.captures[1].system = meta.system, !.captures[1].declared = meta.declared]
  BY DEF updateCaptureMetadata
<1>2. RowKnown(r)
  BY DEF FileKnown
<1>3. RowKnown(s)
  <2> HIDE DEF r
  <2> QED BY <1>2 DEF RowKnown, MetaLines
<1>4. DOMAIN e = DOMAIN db /\ e.captures = cs
  <2> HIDE DEF e
  <2> QED BY <1>1 DEF FileKnown
<1>5. /\ Len(db.captures) \in Nat /\ DOMAIN db.captures = 1 .. Len(db.captures)
      /\ db.captures = [i \in 1 .. Len(db.captures) |-> db.captures[i]]
  BY SequencesAre DEF FileKnown
<1> HIDE DEF s, e
<1>6. /\ DOMAIN cs = 1 .. Len(db.captures) /\ cs = [i \in 1 .. Len(db.captures) |-> cs[i]]
      /\ \A i \in DOMAIN cs : RowKnown(cs[i])
  BY <1>3, <1>5 DEF FileKnown
<1> HIDE DEF cs
<1>7. SequenceOf(cs)
  BY <1>5, <1>6, MakesSequence
<1>8. FileKnown(e)
  BY <1>4, <1>6, <1>7 DEF FileKnown
<1> QED BY <1>8 DEF e

\* A row is added for a capture of the object's system.
LEMMA CaptureWritten ==
  ASSUME NEW db, FileKnown(db), MetaLines(meta)
  PROVE  FileKnown(writeCaptureMetadata(db, meta))
<1> DEFINE s == [system |-> meta.system, declared |-> meta.declared, first |-> None,
                 exclusiveLast |-> None]
           e == writeCaptureMetadata(db, meta)
           n == Len(db.captures)
<1>1. e = [db EXCEPT !.captures = Append(@, s)]
  BY DEF writeCaptureMetadata
<1>2. RowKnown(s)
  BY DEF RowKnown, MetaLines, None
<1> HIDE DEF s, e
<1>3. DOMAIN e = DOMAIN db /\ e.captures = Append(db.captures, s)
  BY <1>1 DEF FileKnown
<1>4. n \in Nat /\ DOMAIN db.captures = 1 .. n
  BY SequencesAre DEF FileKnown
<1>5. /\ SequenceOf(e.captures) /\ Len(e.captures) = n + 1
      /\ \A i \in 1 .. n : e.captures[i] = db.captures[i]
      /\ e.captures[n + 1] = s
  BY <1>3, AppendsAre DEF FileKnown
<1>6. DOMAIN e.captures = 1 .. (n + 1)
  BY <1>5, SequencesAre
<1> HIDE DEF n
<1>7. ASSUME NEW i \in 1 .. (n + 1) PROVE RowKnown(e.captures[i])
  <2>1. CASE i = n + 1
    BY <1>2, <1>5, <2>1
  <2>2. CASE i \in 1 .. n
    BY <1>4, <1>5, <2>2 DEF FileKnown
  <2> QED BY <1>4, <2>1, <2>2
<1>8. FileKnown(e)
  BY <1>3, <1>5, <1>6, <1>7 DEF FileKnown
<1> QED BY <1>8 DEF e

\* The lines in force and the systems on file stay known, whatever step is made.
LEMMA LinesStay ==
  ASSUME LinesInv, [Next]_vars
  PROVE  LinesInv'
<1>0. DOMAIN meta = ObjectFields /\ DOMAIN save = {"step", "isUpdate", "capture", "next", "db", "skipped"}
  BY DEF LinesInv, MetaLines, SaveShape
<1>1. ASSUME UNCHANGED <<file, save>>, MetaLines(meta') PROVE LinesInv'
  BY <1>1 DEF LinesInv, SaveShape
<1>2. ASSUME save' = Idle, FileKnown(file'), MetaLines(meta') PROVE LinesInv'
  BY <1>2 DEF LinesInv, SaveShape, Idle
<1>3. ASSUME NEW system \in Systems, NEW lines \in CallerLines(system),
             SetVideoParameters(system, lines)
      PROVE  LinesInv'
  <2> DEFINE m == [meta EXCEPT !.isValid = TRUE, !.system = system, !.declared = 0,
                               !.lines = lines]
  <2>1. DOMAIN m = ObjectFields /\ m.system = system /\ m.declared = 0 /\ m.lines = lines
    BY <1>0 DEF ObjectFields
  <2>2. meta' = m /\ UNCHANGED <<file, save>>
    BY <1>3 DEF SetVideoParameters, Edit
  <2> HIDE DEF m
  <2>3. lines = <<None, None>> \/ Usable(system, lines)
    BY SystemsAssumption, SystemLinesAssumption DEF CallerLines, Usable
  <2>4. MetaLines(meta')
    BY <2>1, <2>2, <2>3, SystemsAssumption DEF MetaLines
  <2> QED BY <1>1, <2>2, <2>4
<1>4. ASSUME NEW system \in Systems, OverrideVideoSystem(system) PROVE LinesInv'
  <2> DEFINE l == applyTo(system, meta.lines)
  <2>1. Usable(system, l)
    <3>1. meta.lines[1] \in Int /\ meta.lines[2] \in Int
      <4>1. CASE meta.lines = <<None, None>>
        BY <4>1 DEF None
      <4>2. CASE Usable(meta.system, meta.lines)
        BY <4>2 DEF Usable
      <4> QED BY <4>1, <4>2 DEF LinesInv, MetaLines
    <3> QED BY <3>1, LinesApply, SystemsAssumption
  <2> HIDE DEF l
  <2>2. meta' = [meta EXCEPT !.system = system, !.lines = l] /\ UNCHANGED <<file, save>>
    BY <1>4 DEF OverrideVideoSystem, Edit, l
  <2>3. /\ DOMAIN meta' = ObjectFields /\ meta'.system = system /\ meta'.declared = meta.declared
        /\ meta'.lines = l
    BY <1>0, <2>2 DEF ObjectFields
  <2>4. MetaLines(meta')
    BY <2>1, <2>3, SystemsAssumption DEF LinesInv, MetaLines
  <2> QED BY <1>1, <2>2, <2>4
<1>5. ASSUME DOMAIN meta' = ObjectFields, meta'.system = meta.system, meta'.lines = meta.lines,
             meta'.declared \in Int, UNCHANGED <<file, save>>
      PROVE  LinesInv'
  <2>1. MetaLines(meta')
    BY <1>5 DEF LinesInv, MetaLines
  <2> QED BY <1>1, <1>5, <2>1
<1>6. ASSUME NEW vbi, NEW drops, AppendField(vbi, drops) PROVE LinesInv'
  <2> DEFINE c == Len(meta.fields) + 1
             fs == Append(meta.fields, [seqNo |-> c, audioSamples |-> c, vbi |-> vbi, dropOuts |-> drops])
  <2>1. meta' = [meta EXCEPT !.fields = fs, !.declared = c] /\ UNCHANGED <<file, save>>
    BY <1>0, <1>6 DEF AppendField, Edit, ObjectFields
  <2>2. c \in Int
    BY <1>6 DEF AppendField
  <2> QED BY <1>0, <1>5, <2>1, <2>2 DEF ObjectFields
<1>7. ASSUME NEW n, NEW vbi, UpdateFieldVbi(n, vbi) PROVE LinesInv'
  <2>1. meta' = [meta EXCEPT !.fields[n].vbi = vbi] /\ UNCHANGED <<file, save>>
    BY <1>7 DEF UpdateFieldVbi, Edit
  <2> QED BY <1>0, <1>5, <2>1 DEF ObjectFields, LinesInv, MetaLines
<1>8. ASSUME NEW n, NEW drops, UpdateFieldDropOuts(n, drops) PROVE LinesInv'
  <2>1. meta' = [meta EXCEPT !.fields[n].dropOuts = drops] /\ UNCHANGED <<file, save>>
    BY <1>8 DEF UpdateFieldDropOuts, Edit
  <2> QED BY <1>0, <1>5, <2>1 DEF ObjectFields, LinesInv, MetaLines
<1>9. ASSUME ReadSqlite PROVE LinesInv'
  <2>1. /\ UNCHANGED <<file, save>>
        /\ meta' = IF readable(file) THEN readCaptureMetadata(file) ELSE Cleared
    BY <1>9 DEF ReadSqlite
  <2> QED BY <1>1, <2>1, ReadLines, ClearedLines DEF LinesInv
<1>10. ASSUME NEW j \in JsonFiles, ReadJson(j) PROVE LinesInv'
  <2>1. UNCHANGED <<file, save>> /\ meta' = readJson(j).meta
    BY <1>10 DEF ReadJson
  <2> QED BY <1>1, <2>1, JsonLines
<1>11. ASSUME BeginSave PROVE LinesInv'
  <2>1. PICK isUpdate \in BOOLEAN :
           /\ isUpdate => readable(file)
           /\ save' = [Idle EXCEPT !.step = IF isUpdate THEN "capture" ELSE "schema",
                                   !.isUpdate = isUpdate, !.capture = 1, !.db = file]
    BY <1>11 DEF BeginSave
  <2>2. UNCHANGED <<meta, file>>
    BY <1>11 DEF BeginSave
  <2>3. /\ DOMAIN save' = {"step", "isUpdate", "capture", "next", "db", "skipped"}
        /\ save'.step = IF isUpdate THEN "capture" ELSE "schema"
        /\ save'.isUpdate = isUpdate /\ save'.capture = 1 /\ save'.db = file
    BY <2>1 DEF Idle
  <2>4. isUpdate => 1 \in DOMAIN file.captures
    <3> DEFINE R == {file.captures[i] : i \in DOMAIN file.captures}
    <3>1. file.captures \in Seq(R)
      BY DEF LinesInv, FileKnown, SequenceOf
    <3> HIDE DEF R
    <3> QED BY <2>1, <3>1 DEF readable
  <2> QED BY <2>2, <2>3, <2>4 DEF LinesInv, SaveShape
<1>12. ASSUME CreateSchema PROVE LinesInv'
  <2>1. /\ save.step = "schema" /\ UNCHANGED meta
        /\ file' = [file EXCEPT !.exists = TRUE]
        /\ save' = [save EXCEPT !.step = "capture", !.db = file']
    BY <1>12 DEF CreateSchema
  <2>2. DOMAIN file' = DOMAIN file /\ file'.captures = file.captures
    BY <2>1 DEF LinesInv, FileKnown
  <2>3. FileKnown(file')
    BY <2>2 DEF LinesInv, FileKnown
  <2> QED BY <2>1, <2>2, <2>3 DEF LinesInv, SaveShape
<1>13. ASSUME WriteCapture PROVE LinesInv'
  <2>1. save.step = "capture" /\ save.db = file /\ UNCHANGED <<meta, file>>
    BY <1>13 DEF WriteCapture, LinesInv
  <2>2. CASE save' = Idle
    BY <1>2, <2>1, <2>2 DEF LinesInv
  <2>3. CASE save' # Idle
    <3> DEFINE capture == IF save.isUpdate THEN save.capture ELSE Len(file.captures) + 1
               row == IF save.isUpdate THEN updateCaptureMetadata(file, capture, meta)
                      ELSE writeCaptureMetadata(file, meta)
               db == writePcmAudioParameters(row, capture, meta)
    <3>1. save' = [save EXCEPT !.step = "fields", !.capture = capture, !.next = 1, !.db = db]
      BY <1>13, <2>1, <2>3 DEF WriteCapture
    <3>2. FileKnown(row)
      <4>1. CASE save.isUpdate
        BY <2>1, <4>1, CaptureUpdated DEF LinesInv
      <4>2. CASE ~save.isUpdate
        BY <4>2, CaptureWritten DEF LinesInv
      <4> QED BY <4>1, <4>2
    <3>3. FileKnown(db)
      <4>1. DOMAIN db = DOMAIN row /\ db.captures = row.captures
        <5> HIDE DEF row, capture
        <5> QED BY <3>2 DEF writePcmAudioParameters, FileKnown
      <4> HIDE DEF row, db
      <4> QED BY <3>2, <4>1 DEF FileKnown
    <3> HIDE DEF db, capture
    <3>4. DOMAIN save' = DOMAIN save /\ save'.step = "fields" /\ save'.db = db
      BY <1>0, <3>1
    <3> QED BY <1>0, <2>1, <3>3, <3>4 DEF LinesInv, SaveShape
  <2> QED BY <2>2, <2>3
<1>14. ASSUME WriteNextField PROVE LinesInv'
  <2> DEFINE db == writeField(save.db, save.capture, meta.fields[save.next])
  <2>1. save.step = "fields" /\ save # Idle /\ UNCHANGED <<meta, file>>
    BY <1>14 DEF WriteNextField, Idle
  <2>2. FileKnown(db)
    BY <2>1, FieldRowsKnown DEF LinesInv
  <2> HIDE DEF db
  <2>3. \/ save' = [save EXCEPT !.next = @ + 1, !.db = db]
        \/ save' = [save EXCEPT !.next = @ + 1, !.skipped = TRUE]
    BY <1>0, <1>14 DEF WriteNextField, db
  <2>4. DOMAIN save' = DOMAIN save /\ save'.step = "fields" /\ (save'.db = db \/ save'.db = save.db)
    BY <1>0, <2>1, <2>3
  <2> QED BY <1>0, <2>1, <2>2, <2>4 DEF LinesInv, SaveShape
<1>15. ASSUME CommitSave PROVE LinesInv'
  <2>1. save.step = "fields" /\ save # Idle /\ file' = save.db /\ save' = Idle /\ meta' = meta
    BY <1>15 DEF CommitSave, Idle
  <2> QED BY <1>2, <2>1 DEF LinesInv
<1>16. ASSUME FailSave \/ Crash PROVE LinesInv'
  BY <1>2, <1>16, ClearedLines DEF FailSave, Crash, LinesInv
<1>17. CASE UNCHANGED vars
  BY <1>17 DEF vars, LinesInv, SaveShape
<1> QED BY <1>3, <1>4, <1>6, <1>7, <1>8, <1>9, <1>10, <1>11, <1>12, <1>13, <1>14, <1>15,
           <1>16, <1>17 DEF Next

LEMMA InitialLines == Init => LinesInv
<1> SUFFICES ASSUME Init PROVE LinesInv
  OBVIOUS
<1>1. FileKnown(file)
  BY InitialFilesAssumption DEF Init, FileKnown, RowKnown
<1> QED BY <1>1, ClearedLines DEF Init, Idle, LinesInv, SaveShape

\* Wherever they came from, the active lines in force are the system's.
LEMMA LinesAreUsable == LinesInv => ActiveLinesUsable
BY DEF LinesInv, MetaLines, Usable, ActiveLinesUsable

-----------------------------------------------------------------------------
(* The audio of the fields. *)

\* A sum over the places before each, by the sum before the one before.
LEMMA SumsExist ==
  ASSUME NEW length, NEW n \in Int
  PROVE  \E start : start = [i \in 1 .. n |-> IF i = 1 THEN 0 ELSE start[i - 1] + length[i - 1]]
<1> DEFINE Sums(m, s) == s = [i \in 1 .. m |-> IF i = 1 THEN 0 ELSE s[i - 1] + length[i - 1]]
           Bad == {m \in Nat : ~\E s : Sums(m, s)}
<1>1. Sums(0, <<>>)
  OBVIOUS
<1>2. ASSUME NEW m \in Nat, NEW s, Sums(m, s) PROVE \E t : Sums(m + 1, t)
  <2> DEFINE t == [i \in 1 .. (m + 1) |-> IF i = 1 THEN 0 ELSE s[i - 1] + length[i - 1]]
  <2>1. ASSUME NEW i \in 1 .. m PROVE t[i] = s[i]
    BY <1>2
  <2>2. ASSUME NEW i \in 1 .. (m + 1) PROVE t[i] = IF i = 1 THEN 0 ELSE t[i - 1] + length[i - 1]
    <3>1. CASE i = 1
      BY <3>1
    <3>2. CASE i # 1
      <4>1. i - 1 \in 1 .. m
        BY <3>2
      <4> QED BY <2>1, <3>2, <4>1
    <3> QED BY <3>1, <3>2
  <2>3. t = [i \in 1 .. (m + 1) |-> t[i]]
    OBVIOUS
  <2>4. Sums(m + 1, t)
    <3> HIDE DEF t
    <3> QED BY <2>2, <2>3
  <2> QED BY <2>4
<1>3. Bad = {}
  <2> SUFFICES ASSUME Bad # {} PROVE FALSE
    OBVIOUS
  <2>1. PICK m \in Bad : \A k \in Bad : m <= k
    <3>1. Bad \in SUBSET Nat
      OBVIOUS
    <3> HIDE DEF Bad
    <3> QED BY <3>1, LeastExists
  <2>2. m # 0
    <3>1. \E s : Sums(0, s)
      BY <1>1
    <3> HIDE DEF Sums
    <3> QED BY <3>1
  <2>3. m - 1 \in Nat /\ m - 1 \notin Bad
    <3> HIDE DEF Bad
    <3>1. m \in Nat
      BY <2>1 DEF Bad
    <3> QED BY <2>1, <2>2, <3>1
  <2> HIDE DEF Sums
  <2>4. \E s : Sums(m - 1, s)
    BY <2>3
  <2>5. (m - 1) + 1 = m
    BY <2>3
  <2>6. \E t : Sums(m, t)
    BY <1>2, <2>3, <2>4, <2>5
  <2> QED BY <2>1, <2>6
<1>4. CASE n \in Nat
  <2> HIDE DEF Sums
  <2>1. \E s : Sums(n, s)
    BY <1>3, <1>4
  <2> QED BY <2>1 DEF Sums
<1>5. CASE n \notin Nat
  <2>1. <<>> = [i \in 1 .. n |-> IF i = 1 THEN 0 ELSE <<>>[i - 1] + length[i - 1]]
    BY <1>5
  <2> QED BY <2>1
<1> QED BY <1>4, <1>5

\* Each field's audio starts where that of the field before ends.
LEMMA AudioTiles ==
  ASSUME NEW m, m.declared \in Int, audio' = generatePcmAudioMap(m)
  PROVE  AudioSpansTile'
<1> DEFINE d == m.declared
           length == [n \in 1 .. d |-> getField(m, n).audioSamples]
           start == CHOOSE s : s = [n \in 1 .. d |-> IF n = 1 THEN 0 ELSE s[n - 1] + length[n - 1]]
           starts == [n \in 1 .. d |-> start[n]]
<1>1. audio' = [start |-> Append(starts, 0), length |-> Append(length, 0)]
  BY DEF generatePcmAudioMap
<1> HIDE DEF length
<1>2. start = [n \in 1 .. d |-> IF n = 1 THEN 0 ELSE start[n - 1] + length[n - 1]]
  BY SumsExist
<1> HIDE DEF start
<1> DEFINE k == IF d \in Nat THEN d ELSE 0
<1>3. k \in Nat /\ 1 .. d = 1 .. k
  OBVIOUS
<1>4. /\ DOMAIN starts = 1 .. k /\ starts = [n \in 1 .. k |-> starts[n]]
      /\ DOMAIN length = 1 .. k /\ length = [n \in 1 .. k |-> length[n]]
  BY <1>3 DEF length
<1>5. \A n \in 1 .. k : starts[n] = IF n = 1 THEN 0 ELSE starts[n - 1] + length[n - 1]
  <2> SUFFICES ASSUME NEW n \in 1 .. k PROVE starts[n] = IF n = 1 THEN 0 ELSE starts[n - 1] + length[n - 1]
    OBVIOUS
  <2>1. starts[n] = IF n = 1 THEN 0 ELSE start[n - 1] + length[n - 1]
    BY <1>2, <1>3
  <2>2. n # 1 => n - 1 \in 1 .. d
    BY <1>3
  <2> HIDE DEF d
  <2>3. n # 1 => starts[n - 1] = start[n - 1]
    BY <2>2
  <2> HIDE DEF starts
  <2> QED BY <2>1, <2>3
<1> HIDE DEF starts, k
<1>6. /\ SequenceOf(starts) /\ Len(starts) = k
      /\ SequenceOf(length) /\ Len(length) = k
  BY <1>3, <1>4, MakesSequence
<1> DEFINE ss == Append(starts, 0)
           ls == Append(length, 0)
<1>7. /\ Len(ss) = k + 1 /\ Len(ls) = k + 1
      /\ \A n \in 1 .. k : ss[n] = starts[n] /\ ls[n] = length[n]
  BY <1>6, AppendsAre
<1>8. audio'.start = ss /\ audio'.length = ls
  BY <1>1
<1> HIDE DEF ss, ls
<1> SUFFICES ASSUME NEW n \in 1 .. (Len(audio'.start) - 2)
             PROVE  getFieldPcmAudioStart(audio', n + 1)
                       = getFieldPcmAudioStart(audio', n) + getFieldPcmAudioLength(audio', n)
  BY DEF AudioSpansTile
<1>9. n \in 1 .. k /\ n + 1 \in 1 .. k /\ (n + 1) - 1 = n /\ n + 1 # 1
  BY <1>3, <1>7, <1>8
<1>10. starts[n + 1] = starts[n] + length[n]
  BY <1>5, <1>9
<1>11. /\ getFieldPcmAudioStart(audio', n + 1) = starts[n + 1]
       /\ getFieldPcmAudioStart(audio', n) = starts[n]
       /\ getFieldPcmAudioLength(audio', n) = length[n]
  BY <1>3, <1>7, <1>8, <1>9 DEF getFieldPcmAudioStart, getFieldPcmAudioLength
<1> QED BY <1>10, <1>11

\* However the object is read, cleared and edited, the audio map has no gap.
LEMMA AudioStays ==
  ASSUME LinesInv, AudioSpansTile, [Next]_vars
  PROVE  AudioSpansTile'
<1>1. ASSUME UNCHANGED audio PROVE AudioSpansTile'
  BY <1>1 DEF AudioSpansTile
<1>2. CASE ReadSqlite
  <2>1. audio' = audio \/ audio' = generatePcmAudioMap(meta')
    BY <1>2 DEF ReadSqlite
  <2>2. meta'.declared \in Int
    BY <1>2, LinesStay DEF LinesInv, MetaLines, Next
  <2> QED BY <1>1, <2>1, <2>2, AudioTiles
<1>3. ASSUME NEW j \in JsonFiles, ReadJson(j) PROVE AudioSpansTile'
  <2>1. audio' = audio \/ audio' = generatePcmAudioMap(meta')
    BY <1>3 DEF ReadJson
  <2>2. meta'.declared \in Int
    BY <1>3, LinesStay DEF LinesInv, MetaLines, Next
  <2> QED BY <1>1, <2>1, <2>2, AudioTiles
<1>4. CASE Crash
  <2>1. audio' = [start |-> <<>>, length |-> <<>>]
    BY <1>4 DEF Crash, NoAudio
  <2> QED BY <2>1 DEF AudioSpansTile
<1>5. CASE UNCHANGED vars
  BY <1>1, <1>5 DEF vars
<1>6. CASE Next /\ ~ReadSqlite /\ ~Crash /\ ~\E j \in JsonFiles : ReadJson(j)
  BY <1>1, <1>6 DEF Next, SetVideoParameters, OverrideVideoSystem, AppendField, UpdateFieldVbi,
                    UpdateFieldDropOuts, Edit, BeginSave, CreateSchema, WriteCapture, WriteNextField,
                    CommitSave, FailSave
<1> QED BY <1>2, <1>3, <1>4, <1>5, <1>6

-----------------------------------------------------------------------------
(* Open sources.  What the properties say of every source is proved of each *)
(* one as it is opened, and kept since.                                     *)

SourceRight(o) ==
  LET p == o.source.parameters
  IN  /\ p.system = o.meta.parameters.system
      /\ SystemLines[p.system][1] <= o.meta.parameters.lines[1]
      /\ o.meta.parameters.lines[2] <= SystemLines[p.system][3]
      /\ \A line \in {0, 1, 2 * p.fieldHeight - 3, 2 * p.fieldHeight - 2} :
            signal_line_to_frame_line(p.fieldHeight, frame_line_to_signal_line(p.fieldHeight, line)) = line
      /\ p.system = "SECAM" /\ o.synthesized => ~p.isSubcarrierLocked
      /\ ~o.source.tbc => /\ rowOfStandardZero(o.source) = p.activeVideoStart
                          /\ p.colourBurst[2] <= p.activeVideoStart

EncodingRight(o) ==
  RightlyDeclared(o) /\ hasStandardAmplitudeMapping(o.source.encoding) =>
     o.source.parameters.black = 64 * o.capture.black /\ o.source.neutral = 0

PhasesRight(o) ==
  RightlyDeclared(o) =>
     \A i \in DOMAIN o.meta.phases :
        o.meta.phases[i] \in {Unknown, ((o.capture.firstPhase + i - 2) % 4) + 1}

OpenRight(o) == o.opened => SourceRight(o) /\ EncodingRight(o) /\ PhasesRight(o)

\* The first and last lines of both fields are found again.
LEMMA LinesNumbered ==
  ASSUME NEW H \in Nat, H >= 2, NEW line \in {0, 1, 2 * H - 3, 2 * H - 2}
  PROVE  signal_line_to_frame_line(H, frame_line_to_signal_line(H, line)) = line
<1>1. line \in Int /\ (\E k \in Int : (line = 2 * k \/ line = 2 * k + 1) /\ k \in 0 .. (H - 1))
  <2>1. CASE line = 0
    BY <2>1
  <2>2. CASE line = 1
    BY <2>2
  <2>3. CASE line = 2 * H - 3
    <3>1. line = 2 * (H - 2) + 1 /\ H - 2 \in Int /\ H - 2 \in 0 .. (H - 1)
      BY <2>3
    <3> QED BY <3>1
  <2>4. CASE line = 2 * H - 2
    <3>1. line = 2 * (H - 1) /\ H - 1 \in Int /\ H - 1 \in 0 .. (H - 1)
      BY <2>4
    <3> QED BY <3>1
  <2> QED BY <2>1, <2>2, <2>3, <2>4
<1>2. PICK k \in 0 .. (H - 1) : line = 2 * k \/ line = 2 * k + 1
  BY <1>1
<1>3. CASE line = 2 * k
  <2>1. line % 2 = 0 /\ line \div 2 = k
    BY <1>3
  <2>2. frame_line_to_signal_line(H, line) = k + 1
    BY <2>1 DEF frame_line_to_signal_line
  <2>3. k + 1 <= H /\ 2 * ((k + 1) - 1) = line
    BY <1>3
  <2> QED BY <2>2, <2>3 DEF signal_line_to_frame_line
<1>4. CASE line = 2 * k + 1
  <2>1. line % 2 = 1 /\ (line + 1) \div 2 = k + 1
    BY <1>4
  <2>2. frame_line_to_signal_line(H, line) = H + (k + 1)
    BY <2>1 DEF frame_line_to_signal_line
  <2>3. ~(H + (k + 1) <= H) /\ 2 * ((H + (k + 1)) - H - 1) + 1 = line
    BY <1>4
  <2> QED BY <2>2, <2>3 DEF signal_line_to_frame_line
<1> QED BY <1>2, <1>3, <1>4

Alignments == {"SYNC_START", "BLANKING_START"}

\* In every standard's lattice, however its rows are cut, the burst is over before
\* the active line starts.
LEMMA BurstBeforeActive ==
  ASSUME NEW s \in DOMAIN PRESETS, NEW alignment \in Alignments
  PROVE  /\ colourBurst(PRESETS[s], alignment)[2] <= activeVideoStart(PRESETS[s], alignment)
         /\ linesPerField(PRESETS[s]) \in Nat /\ linesPerField(PRESETS[s]) >= 2
<1> DEFINE p == PRESETS[s]
<1>1. DOMAIN PRESETS = {"PAL", "NTSC", "PAL_M"}
  BY DEF PRESETS
<1>2. /\ p.width \in {1135, 910, 909}
      /\ <<p.width, p.active, p.zeroH, p.burstFromZeroH, p.burstLength, p.linesPerFrame>>
           \in {<<1135, 948, 95, 993, 40, 625>>, <<910, 768, 164, 760, 36, 525>>,
                <<909, 768, 164, 760, 36, 525>>}
      /\ p.syncStartBurst[2] <= 95 + (IF p.width = 1135 THEN 43 ELSE 0)
      /\ p.syncStartBurst[2] \in Int
  BY <1>1 DEF PRESETS
<1> HIDE DEF p
<1> QED BY <1>2 DEF p, colourBurst, activeVideoStart, roundTenths, ceilTenths, linesPerField, Alignments

\* A row is cut one of two ways.
LEMMA RowsAreCut ==
  ASSUME NEW c, NEW r, NEW rasters, NEW n
  PROVE  windowAlignment(c, r, rasters, n) \in Alignments
BY DEF windowAlignment, measuredAlignment, derivedAlignment, resolveFrameNativeAlignment, Alignments

\* What a CVBS source says of itself: its standard's, its rows cut one way.
CvbsSource(source, c, r) ==
  LET p == PRESETS[r.preset]
      q == source.parameters
  IN  /\ \E a \in Alignments :
            /\ source.alignment = a /\ q.activeVideoStart = activeVideoStart(p, a)
            /\ q.colourBurst = colourBurst(p, a)
      /\ ~source.tbc /\ source.encoding = r.encoding
      /\ source.neutral = convertChromaSampleToCenteredCanonical(r.encoding, c.neutral, p.blanking)
      /\ DOMAIN q = {"system", "isSubcarrierLocked", "fieldWidth", "fieldHeight", "activeVideoStart",
                     "colourBurst", "lines", "black"}
      /\ q.system = r.preset /\ q.fieldHeight = linesPerField(p) /\ q.lines = p.lines
      /\ q.black = IF r.black = Unknown THEN 64 * p.black
                   ELSE convertCompositeSampleToCanonical(r.encoding, r.black, p.blanking)

LEMMA CvbsOpensSource ==
  ASSUME NEW c, NEW r, openCvbs(c, r).opened
  PROVE  CvbsSource(openCvbs(c, r), c, r)
<1> DEFINE p == PRESETS[r.preset]
           rasters == resolveFrameLayout(r.layout, p, r.state, c.samples, r.frames)
           count == IF rasters = "FRAME_NATIVE" THEN 2 * (c.samples \div p.samplesPerFrame)
                        ELSE c.samples \div (p.width * linesPerField(p))
           a == windowAlignment(c, r, rasters, count)
           q == makeCvbsVideoParameters(r, rasters, a)
           source == openCvbs(c, r)
           made == [opened |-> TRUE, tbc |-> FALSE, layout |-> rasters, numFields |-> count,
                    alignment |-> a, encoding |-> r.encoding,
                    neutral |-> convertChromaSampleToCenteredCanonical(r.encoding, c.neutral, p.blanking),
                    parameters |-> q]
<1>1. source = IF ~r.opened \/ c.samples <= 0 THEN Failed ELSE made
  BY DEF openCvbs, rowAlignment
<1>2. source = made
  BY <1>1 DEF Failed
<1>3. a \in Alignments
  BY RowsAreCut
<1> HIDE DEF rasters, count, a, source
<1>4. /\ DOMAIN q = {"system", "isSubcarrierLocked", "fieldWidth", "fieldHeight", "activeVideoStart",
                     "colourBurst", "lines", "black"}
      /\ q.activeVideoStart = activeVideoStart(p, a) /\ q.colourBurst = colourBurst(p, a)
      /\ q.system = r.preset /\ q.fieldHeight = linesPerField(p) /\ q.lines = p.lines
      /\ q.black = IF r.black = Unknown THEN 64 * p.black
                   ELSE convertCompositeSampleToCanonical(r.encoding, r.black, p.blanking)
  BY DEF makeCvbsVideoParameters
<1> HIDE DEF p, q
<1>5. /\ source.alignment = a /\ ~source.tbc /\ source.encoding = r.encoding
      /\ source.neutral = convertChromaSampleToCenteredCanonical(r.encoding, c.neutral, p.blanking)
      /\ source.parameters = q
  BY <1>2
<1>6. CvbsSource(source, c, r)
  BY <1>3, <1>4, <1>5 DEF CvbsSource, p
<1> QED BY <1>6 DEF source

\* The metadata made for it.
SynthesizedMeta(m, c, source) ==
  /\ m.parameters = source.parameters
  /\ m.phases = measureNtscFieldPhaseIds(source.parameters.system, source.encoding, c.bursts)

LEMMA SynthesizedIs ==
  ASSUME NEW c, NEW r, openSynthesized(c, r).opened, r.declareSecam \in BOOLEAN
  PROVE  LET o == openSynthesized(c, r)
         IN  \E source, made :
                /\ CvbsSource(source, c, r) /\ SynthesizedMeta(made, c, source)
                /\ DOMAIN source = {"opened", "tbc", "layout", "numFields", "alignment", "encoding",
                                    "neutral", "parameters"}
                /\ o.capture = c /\ o.synthesized
                /\ o.source = IF r.declareSecam
                              THEN [source EXCEPT !.parameters = redeclareVideoSystem(@, "SECAM")]
                              ELSE source
                /\ o.meta = IF r.declareSecam
                            THEN [made EXCEPT !.parameters = overrideSystem(@, "SECAM")] ELSE made
                /\ "parameters" \in DOMAIN made /\ "phases" \in DOMAIN made
<1> DEFINE source == openCvbs(c, r)
           made == synthesizeMetadata(c, source, r.secondFieldFirst)
           o == openSynthesized(c, r)
           s2 == IF r.declareSecam
                 THEN [source EXCEPT !.parameters = redeclareVideoSystem(@, "SECAM")] ELSE source
           m2 == IF r.declareSecam
                 THEN [made EXCEPT !.parameters = overrideSystem(@, "SECAM")] ELSE made
           full == [opened |-> TRUE, capture |-> c, synthesized |-> TRUE, source |-> s2, meta |-> m2]
<1>1. o = IF ~r.opened \/ ~source.opened THEN Failed ELSE full
  BY DEF openSynthesized
<1>2. source.opened /\ o = full
  BY <1>1 DEF Failed
<1>3. CvbsSource(source, c, r)
  BY <1>2, CvbsOpensSource
<1>4. DOMAIN source = {"opened", "tbc", "layout", "numFields", "alignment", "encoding",
                       "neutral", "parameters"}
  BY <1>2 DEF openCvbs, Failed
<1>5. SynthesizedMeta(made, c, source) /\ "parameters" \in DOMAIN made /\ "phases" \in DOMAIN made
  <2> HIDE DEF source
  <2> QED BY DEF synthesizeMetadata, SynthesizedMeta
<1> HIDE DEF source, made
<1>6. o.capture = c /\ o.synthesized /\ o.source = s2 /\ o.meta = m2
  <2> HIDE DEF o, s2, m2
  <2> QED BY <1>2
<1> QED BY <1>3, <1>4, <1>5, <1>6

KnownOverride(o) == o = NoOverride \/ o \in Overrides

\* The black level the parameters state is the capture's.
BlackStated(c, r) ==
  r.preset = c.preset /\ r.encoding = c.encoding =>
     IF r.black = Unknown THEN c.black = PRESETS[c.preset].black
     ELSE r.black = Raw(c.encoding, c.black, PRESETS[c.preset].blanking)

\* A sidecar a CVBS capture may be opened with: one of its own, or none that is there.
CvbsSidecar(c, s) == s.exists => s.isCvbs /\ s \in {c["db"], c["json"], c["meta"]}

LEMMA ParamsResolved ==
  ASSUME NEW c \in AllCaptures, NEW s, CvbsSidecar(c, s), NEW override, KnownOverride(override),
         resolveCvbsParams(c, s, override).opened
  PROVE  LET r == resolveCvbsParams(c, s, override)
         IN  /\ r.preset \in DOMAIN PRESETS /\ r.declareSecam \in BOOLEAN
             /\ r.declareSecam => r.preset = "PAL"
             /\ BlackStated(c, r)
<1> DEFINE t == IF s.exists THEN s ELSE c.meta
           secam == override.given /\ override.standard = "SECAM"
           From(preset, encoding, state, frames, black) ==
              [opened |-> TRUE, preset |-> preset, encoding |-> encoding, state |-> state,
               frames |-> frames, black |-> black,
               layout |-> IF override.given THEN override.layout ELSE "UNKNOWN",
               locked |-> override.given /\ override.locked,
               secondFieldFirst |-> override.given /\ override.secondFieldFirst,
               declareSecam |-> secam]
           r == resolveCvbsParams(c, s, override)
<1>1. r = IF t.exists
          THEN IF ~readCvbsMetadata(t) \/ (secam /\ t.preset # "PAL") THEN Failed
               ELSE From(t.preset, t.encoding, t.state, t.frames, t.black)
          ELSE IF ~override.given \/ override.standard = "UNKNOWN" THEN Failed
               ELSE From(IF secam THEN "PAL" ELSE override.standard, override.encoding,
                         override.state, Unknown, Unknown)
  BY DEF resolveCvbsParams
<1>2. secam \in BOOLEAN
  <2>1. override.given \in BOOLEAN
    <3>1. CASE override = NoOverride
      <4>1. override.given = FALSE
        BY <3>1 DEF NoOverride
      <4> QED BY <4>1
    <3>2. CASE override \in Overrides
      BY <3>2, OverridesAssumption
    <3> QED BY <3>1, <3>2 DEF KnownOverride
  <2> QED BY <2>1
<1>3. "PAL" \in DOMAIN PRESETS
  BY DEF PRESETS
<1>4. ~Failed.opened
  BY DEF Failed
<1>5. CASE t.exists
  <2> DEFINE f == From(t.preset, t.encoding, t.state, t.frames, t.black)
  <2>1. r = f /\ readCvbsMetadata(t) /\ (secam => t.preset = "PAL")
    BY <1>1, <1>4, <1>5
  <2>2. f.preset = t.preset /\ f.encoding = t.encoding /\ f.black = t.black /\ f.declareSecam = secam
    OBVIOUS
  <2>3. t.isCvbs /\ t \in {c["db"], c["json"], c["meta"]}
    BY <1>5, SidecarsAssumption DEF CvbsSidecar
  <2>4. IF t.black = Unknown THEN c.black = PRESETS[c.preset].black
        ELSE t.black = Raw(t.encoding, c.black, PRESETS[c.preset].blanking)
    <3> HIDE DEF t
    <3> QED BY <1>5, <2>3, SidecarsAssumption
  <2> HIDE DEF f, r, t
  <2>5. /\ r.preset \in DOMAIN PRESETS /\ r.declareSecam \in BOOLEAN
        /\ r.declareSecam => r.preset = "PAL"
    BY <1>2, <2>1, <2>2 DEF readCvbsMetadata
  <2>6. BlackStated(c, r)
    BY <2>1, <2>2, <2>4 DEF BlackStated
  <2> QED BY <2>5, <2>6 DEF r
<1>6. CASE ~t.exists
  <2> DEFINE f == From(IF secam THEN "PAL" ELSE override.standard, override.encoding,
                       override.state, Unknown, Unknown)
  <2>1. r = f /\ override.given /\ override.standard # "UNKNOWN"
    BY <1>1, <1>4, <1>6
  <2>2. /\ f.preset = IF secam THEN "PAL" ELSE override.standard
        /\ f.black = Unknown /\ f.declareSecam = secam
    OBVIOUS
  <2>3. ~c.meta.exists
    BY <1>6
  <2>4. override.standard \in {"SECAM"} \cup DOMAIN PRESETS
    BY <2>1, OverridesAssumption DEF KnownOverride, NoOverride
  <2> HIDE DEF f, r, t
  <2>5. /\ r.preset \in DOMAIN PRESETS /\ r.declareSecam \in BOOLEAN
        /\ r.declareSecam => r.preset = "PAL"
    BY <1>2, <1>3, <2>1, <2>2, <2>4
  <2>6. BlackStated(c, r)
    BY <2>1, <2>2, <2>3, SignalsAssumption DEF BlackStated
  <2> QED BY <2>5, <2>6 DEF r
<1> QED BY <1>5, <1>6

\* What an encoding writes of a 10-bit value is read as 64 times it.
LEMMA RawIsCanonical ==
  ASSUME NEW value \in 0 .. 1023, NEW blanking \in Int,
         NEW encoding \in {"CVBS_U10_4FSC", "CVBS_U16_4FSC", "CVBS_TPG21_4FSC", "CVBS_S16_FSC"}
  PROVE  convertCompositeSampleToCanonical(encoding, Raw(encoding, value, blanking), blanking) = 64 * value
<1>1. Clamped(64 * value, 0, 65535) = 64 * value
  BY DEF Clamped
<1>2. CASE encoding = "CVBS_U10_4FSC"
  BY <1>1, <1>2 DEF Raw, convertCompositeSampleToCanonical
<1>3. CASE encoding = "CVBS_U16_4FSC"
  <2>1. (value * 64) % 65536 = 64 * value
    OBVIOUS
  <2> QED BY <1>3, <2>1 DEF Raw, convertCompositeSampleToCanonical
<1>4. CASE encoding = "CVBS_TPG21_4FSC"
  <2>1. (value - 508) * 64 + 508 * 64 = 64 * value
    OBVIOUS
  <2> QED BY <1>1, <1>4, <2>1 DEF Raw, convertCompositeSampleToCanonical
<1>5. CASE encoding = "CVBS_S16_FSC"
  <2>1. ((value - blanking) * 32) * 2 + blanking * 64 = 64 * value
    OBVIOUS
  <2> QED BY <1>1, <1>5, <2>1 DEF Raw, convertCompositeSampleToCanonical
<1> QED BY <1>2, <1>3, <1>4, <1>5

\* What an encoding writes of the neutral value is read as zero.
LEMMA NeutralIsZero ==
  ASSUME NEW blanking \in Int,
         NEW encoding \in {"CVBS_U10_4FSC", "CVBS_U16_4FSC", "CVBS_TPG21_4FSC", "CVBS_S16_FSC"}
  PROVE  convertChromaSampleToCenteredCanonical(encoding, Raw(encoding, 512, blanking), blanking) = 0
<1>1. Clamped(0, -32768, 32767) = 0
  BY DEF Clamped
<1>2. CASE encoding = "CVBS_U10_4FSC"
  BY <1>1, <1>2 DEF Raw, convertChromaSampleToCenteredCanonical
<1>3. CASE encoding = "CVBS_U16_4FSC"
  <2>1. ((512 * 64) % 65536) - 32768 = 0
    OBVIOUS
  <2> QED BY <1>1, <1>3, <2>1 DEF Raw, convertChromaSampleToCenteredCanonical
<1>4. CASE encoding = "CVBS_TPG21_4FSC"
  <2>1. (512 - 508) * 64 - (512 - 508) * 64 = 0
    OBVIOUS
  <2> QED BY <1>1, <1>4, <2>1 DEF Raw, convertChromaSampleToCenteredCanonical
<1>5. CASE encoding = "CVBS_S16_FSC"
  <2>1. ((512 - blanking) * 32) * 2 + (blanking - 512) * 64 = 0
    OBVIOUS
  <2> QED BY <1>1, <1>5, <2>1 DEF Raw, convertChromaSampleToCenteredCanonical
<1> QED BY <1>2, <1>3, <1>4, <1>5

\* A field's polarity, where one is found, is that of its place in the sequence.
LEMMA PolarityIsTrue ==
  ASSUME NEW c \in AllCaptures, NEW field \in DOMAIN c.bursts
  PROVE  LET position == ((c.firstPhase + field - 2) % 4) + 1
         IN  measureNtscFieldBurstPolarity(c.bursts[field])
                \in {"mixed", IF position \in {1, 4} THEN "positive" ELSE "negative"}
<1> DEFINE rows == c.bursts[field]
           position == ((c.firstPhase + field - 2) % 4) + 1
           valid == {i \in DOMAIN rows : rows[i] # "none"}
           pos(i) == (rows[i] = "plus") <=> ((FirstRow + i - 1) % 2 = 0)
           positive == {i \in valid : pos(i)}
           wrong == {i \in valid : ~(pos(i) <=> position \in {1, 4})}
           Agree(votes) == Cardinality(votes) * 4 >= Cardinality(valid) * 3
<1>1. measureNtscFieldBurstPolarity(rows) =
         IF Cardinality(valid) < 4 THEN "mixed"
         ELSE IF Agree(positive) THEN "positive"
         ELSE IF Agree(valid \ positive) THEN "negative" ELSE "mixed"
  BY DEF measureNtscFieldBurstPolarity
<1>2. SequenceOf(rows) /\ (Cardinality(valid) < 4 \/ Cardinality(wrong) * 4 < Cardinality(valid) * 3)
  BY SignalsAssumption
<1>3. /\ Cardinality(valid) \in Nat /\ Cardinality(positive) \in Nat
      /\ Cardinality(valid \ positive) \in Nat
  <2>2. Len(rows) \in Nat /\ DOMAIN rows = 1 .. Len(rows)
    BY <1>2, SequencesAre
  <2>3. IsFiniteSet(valid)
    <3>1. IsFiniteSet(1 .. Len(rows))
      BY <2>2, FS_Interval
    <3>2. valid \subseteq 1 .. Len(rows)
      BY <2>2
    <3> HIDE DEF valid
    <3> QED BY <3>1, <3>2, FS_Subset
  <2>4. positive \subseteq valid /\ (valid \ positive) \subseteq valid
    OBVIOUS
  <2> HIDE DEF valid, positive
  <2> QED BY <2>3, <2>4, FS_Subset, FS_CardinalityType
<1>4. wrong = IF position \in {1, 4} THEN valid \ positive ELSE positive
  <2>1. CASE position \in {1, 4}
    BY <2>1
  <2>2. CASE position \notin {1, 4}
    BY <2>2
  <2> QED BY <2>1, <2>2
<1> DEFINE polarity == measureNtscFieldBurstPolarity(rows)
<1>5. polarity \in {"mixed", IF position \in {1, 4} THEN "positive" ELSE "negative"}
  <2> HIDE DEF valid, positive, wrong, position, rows
  <2> QED BY <1>1, <1>2, <1>3, <1>4
<1> QED BY <1>5

Sign(position) == IF position \in {1, 4} THEN "positive" ELSE "negative"

\* Two fields next to each other tell their places, or neither does.
LEMMA PairTells ==
  ASSUME NEW a \in 1 .. 4, NEW b, b = (a % 4) + 1,
         NEW first \in {"mixed", Sign(a)}, NEW second \in {"mixed", Sign(b)}
  PROVE  /\ phasesOfPair(first, second)[1] \in {Unknown, a}
         /\ phasesOfPair(first, second)[2] \in {Unknown, b}
<1>1. \/ a = 1 /\ b = 2
      \/ a = 2 /\ b = 3
      \/ a = 3 /\ b = 4
      \/ a = 4 /\ b = 1
  OBVIOUS
<1>2. \/ a = 1 /\ first \in {"mixed", "positive"} /\ b = 2 /\ second \in {"mixed", "negative"}
      \/ a = 2 /\ first \in {"mixed", "negative"} /\ b = 3 /\ second \in {"mixed", "negative"}
      \/ a = 3 /\ first \in {"mixed", "negative"} /\ b = 4 /\ second \in {"mixed", "positive"}
      \/ a = 4 /\ first \in {"mixed", "positive"} /\ b = 1 /\ second \in {"mixed", "positive"}
  BY <1>1 DEF Sign
<1> QED BY <1>2 DEF phasesOfPair

\* A measured field's place in the sequence is right or unknown.
LEMMA PhasesMeasured ==
  ASSUME NEW c \in AllCaptures, NEW system, NEW encoding,
         NEW i \in DOMAIN measureNtscFieldPhaseIds(system, encoding, c.bursts)
  PROVE  measureNtscFieldPhaseIds(system, encoding, c.bursts)[i]
            \in {Unknown, ((c.firstPhase + i - 2) % 4) + 1}
<1> DEFINE n == Len(c.bursts)
           polarity == [k \in 1 .. n |-> measureNtscFieldBurstPolarity(c.bursts[k])]
           first(k) == 2 * ((k - 1) \div 2) + 1
           P(k) == ((c.firstPhase + k - 2) % 4) + 1
           ids == measureNtscFieldPhaseIds(system, encoding, c.bursts)
<1>1. /\ n \in Nat /\ DOMAIN c.bursts = 1 .. n /\ c.firstPhase \in 1 .. 4
  BY SignalsAssumption, SequencesAre
<1>2. ids = IF system # "NTSC" \/ ~hasStandardAmplitudeMapping(encoding)
            THEN [k \in 1 .. n |-> Unknown]
            ELSE [k \in 1 .. n |-> IF first(k) = n THEN Unknown
                     ELSE phasesOfPair(polarity[first(k)], polarity[first(k) + 1])[k - first(k) + 1]]
  BY DEF measureNtscFieldPhaseIds
<1> HIDE DEF n, polarity
<1>3. i \in 1 .. n
  BY <1>2
<1> DEFINE f == first(i)
<1>4. ids[i] = Unknown \/ (f # n /\ ids[i] = phasesOfPair(polarity[f], polarity[f + 1])[i - f + 1])
  BY <1>2, <1>3
<1>5. f \in Int /\ f <= i /\ i <= f + 1 /\ f >= 1
  BY <1>1, <1>3
<1> HIDE DEF f, ids
<1> SUFFICES ASSUME f # n, ids[i] = phasesOfPair(polarity[f], polarity[f + 1])[i - f + 1]
             PROVE  ids[i] \in {Unknown, P(i)}
  BY <1>4 DEF ids
<1>6. f \in 1 .. n /\ f + 1 \in 1 .. n
  BY <1>1, <1>3, <1>5
<1>7. \A k \in 1 .. n : polarity[k] \in {"mixed", Sign(P(k))}
  BY <1>1, PolarityIsTrue DEF polarity, Sign
<1>8. P(f) \in 1 .. 4 /\ P(f + 1) = (P(f) % 4) + 1
  <2> DEFINE m == c.firstPhase + f - 2
  <2>1. m \in Int /\ c.firstPhase + (f + 1) - 2 = m + 1
    BY <1>1, <1>5
  <2> HIDE DEF m
  <2>2. m % 4 \in 0 .. 3 /\ (m + 1) % 4 = ((m % 4) + 1) % 4
    BY <2>1
  <2>3. P(f) = (m % 4) + 1 /\ P(f + 1) = ((m + 1) % 4) + 1
    BY <2>1 DEF m
  <2> QED BY <2>2, <2>3
<1>9. /\ phasesOfPair(polarity[f], polarity[f + 1])[1] \in {Unknown, P(f)}
      /\ phasesOfPair(polarity[f], polarity[f + 1])[2] \in {Unknown, P(f + 1)}
  <2> HIDE DEF P
  <2> QED BY <1>6, <1>7, <1>8, PairTells
<1>10. CASE i = f
  <2>1. i - f + 1 = 1
    BY <1>5, <1>10
  <2> HIDE DEF P
  <2> QED BY <1>9, <1>10, <2>1
<1>11. CASE i = f + 1
  <2>1. i - f + 1 = 2
    BY <1>5, <1>11
  <2> HIDE DEF P
  <2> QED BY <1>9, <1>11, <2>1
<1> QED BY <1>1, <1>3, <1>5, <1>10, <1>11

\* A CVBS capture is what it and the caller say, re-declared or not.
LEMMA SynthesizedRight ==
  ASSUME NEW c \in AllCaptures, NEW s, CvbsSidecar(c, s), NEW override, KnownOverride(override)
  PROVE  OpenRight(openSynthesized(c, resolveCvbsParams(c, s, override)))
<1> DEFINE r == resolveCvbsParams(c, s, override)
           o == openSynthesized(c, r)
<1> SUFFICES ASSUME o.opened PROVE SourceRight(o) /\ EncodingRight(o) /\ PhasesRight(o)
  BY DEF OpenRight
<1>1. r.opened
  BY DEF openSynthesized, Failed
<1>2. /\ r.preset \in DOMAIN PRESETS /\ r.declareSecam \in BOOLEAN
      /\ r.declareSecam => r.preset = "PAL"
      /\ BlackStated(c, r)
  BY <1>1, ParamsResolved
<1> HIDE DEF r
<1>3. PICK source, made :
         /\ CvbsSource(source, c, r) /\ SynthesizedMeta(made, c, source)
         /\ DOMAIN source = {"opened", "tbc", "layout", "numFields", "alignment", "encoding",
                             "neutral", "parameters"}
         /\ o.capture = c /\ o.synthesized
         /\ o.source = IF r.declareSecam
                       THEN [source EXCEPT !.parameters = redeclareVideoSystem(@, "SECAM")]
                       ELSE source
         /\ o.meta = IF r.declareSecam
                     THEN [made EXCEPT !.parameters = overrideSystem(@, "SECAM")] ELSE made
         /\ "parameters" \in DOMAIN made /\ "phases" \in DOMAIN made
  BY <1>2, SynthesizedIs
<1> HIDE DEF o
<1> DEFINE q == source.parameters
           e == o.source.parameters
           p == PRESETS[r.preset]
           S == IF r.declareSecam THEN "SECAM" ELSE r.preset
<1>4. DOMAIN PRESETS = {"PAL", "NTSC", "PAL_M"}
  BY DEF PRESETS
<1>5. PICK a \in Alignments :
         /\ source.alignment = a /\ q.activeVideoStart = activeVideoStart(p, a)
         /\ q.colourBurst = colourBurst(p, a)
  BY <1>3 DEF CvbsSource
<1>6. /\ e.system = S /\ e.fieldHeight = linesPerField(p) /\ e.black = q.black
      /\ e.activeVideoStart = activeVideoStart(p, a) /\ e.colourBurst = colourBurst(p, a)
      /\ r.declareSecam => ~e.isSubcarrierLocked
  <2> DEFINE d == redeclareVideoSystem(q, "SECAM")
  <2>1. /\ d.system = "SECAM" /\ d.isSubcarrierLocked = FALSE /\ d.fieldHeight = q.fieldHeight
        /\ d.black = q.black /\ d.activeVideoStart = q.activeVideoStart /\ d.colourBurst = q.colourBurst
    BY <1>3 DEF redeclareVideoSystem, CvbsSource
  <2> HIDE DEF d
  <2>2. o.source = IF r.declareSecam THEN [source EXCEPT !.parameters = d] ELSE source
    BY <1>3 DEF d
  <2>3. e = IF r.declareSecam THEN d ELSE q
    BY <1>3, <2>2
  <2> HIDE DEF e
  <2> QED BY <1>3, <1>5, <2>1, <2>3 DEF CvbsSource
<1>7. /\ ~o.source.tbc /\ o.source.encoding = r.encoding /\ o.source.alignment = a
      /\ o.source.neutral = convertChromaSampleToCenteredCanonical(r.encoding, c.neutral, p.blanking)
  <2> HIDE DEF p
  <2>1. /\ ~source.tbc /\ source.encoding = r.encoding
        /\ source.neutral = convertChromaSampleToCenteredCanonical(r.encoding, c.neutral, p.blanking)
    BY <1>3 DEF CvbsSource, p
  <2> QED BY <1>3, <1>5, <2>1
<1>8. /\ o.meta.parameters.system = S
      /\ SystemLines[S][1] <= o.meta.parameters.lines[1]
      /\ o.meta.parameters.lines[2] <= SystemLines[S][3]
  <2>1. p.lines = <<SystemLines[r.preset][2], SystemLines[r.preset][3]>> /\ r.preset \in DOMAIN SystemLines
    BY <1>2, PresetsAssumption
  <2>2. /\ SystemLines[r.preset][1] \in Int /\ SystemLines[r.preset][2] \in Int
        /\ SystemLines[r.preset][3] \in Int
        /\ SystemLines[r.preset][1] <= SystemLines[r.preset][2]
    BY <2>1, SystemLinesAssumption
  <2>3. made.parameters = q /\ q.lines = p.lines /\ q.system = r.preset
    BY <1>3 DEF SynthesizedMeta, CvbsSource
  <2>4. CASE ~r.declareSecam
    <3>1. o.meta.parameters = q
      BY <1>3, <2>3, <2>4
    <3> HIDE DEF q, p
    <3> QED BY <2>1, <2>2, <2>3, <2>4, <3>1
  <2>5. CASE r.declareSecam
    <3> DEFINE d == overrideSystem(q, "SECAM")
               l == applyTo("SECAM", q.lines)
    <3>1. d.system = "SECAM" /\ d.lines = l
      BY <1>3 DEF overrideSystem, CvbsSource
    <3>2. Usable("SECAM", l)
      <4>1. q.lines[1] \in Int /\ q.lines[2] \in Int
        <5> HIDE DEF q, p
        <5> QED BY <2>1, <2>2, <2>3
      <4> QED BY <4>1, LinesApply, PresetsAssumption
    <3>3. o.meta.parameters = d
      <4> HIDE DEF d, q
      <4>1. o.meta = [made EXCEPT !.parameters = overrideSystem(@, "SECAM")]
        BY <1>3, <2>5
      <4> QED BY <1>3, <2>3, <4>1 DEF d
    <3> HIDE DEF d, l
    <3> QED BY <2>5, <3>1, <3>2, <3>3 DEF Usable
  <2> QED BY <2>4, <2>5
<1>9. SourceRight(o)
  <2>1. colourBurst(p, a)[2] <= activeVideoStart(p, a) /\ e.fieldHeight \in Nat /\ e.fieldHeight >= 2
    BY <1>2, <1>6, BurstBeforeActive
  <2>2. rowOfStandardZero(o.source) = activeVideoStart(p, a)
    <3>1. PRESETS[IF S \in {"NTSC", "PAL_M"} THEN S ELSE "PAL"] = p
      BY <1>2, <1>4
    <3> HIDE DEF p
    <3> QED BY <1>6, <1>7, <3>1 DEF rowOfStandardZero
  <2>3. S = "SECAM" => r.declareSecam
    BY <1>2, <1>4
  <2>4. \A line \in {0, 1, 2 * e.fieldHeight - 3, 2 * e.fieldHeight - 2} :
           signal_line_to_frame_line(e.fieldHeight, frame_line_to_signal_line(e.fieldHeight, line)) = line
    BY <2>1, LinesNumbered
  <2> HIDE DEF S, p
  <2> QED BY <1>3, <1>6, <1>7, <1>8, <2>1, <2>2, <2>3, <2>4 DEF SourceRight
<1>10. RightlyDeclared(o) => r.preset = c.preset /\ r.encoding = c.encoding
  <2>1. c.preset \in DOMAIN PRESETS
    BY SignalsAssumption
  <2> QED BY <1>2, <1>3, <1>4, <1>6, <1>7, <2>1 DEF RightlyDeclared
<1>11. EncodingRight(o)
  <2> SUFFICES ASSUME RightlyDeclared(o), hasStandardAmplitudeMapping(o.source.encoding)
               PROVE  e.black = 64 * c.black /\ o.source.neutral = 0
    BY <1>3 DEF EncodingRight
  <2>1. r.preset = c.preset /\ r.encoding = c.encoding
    BY <1>10
  <2>2. c.encoding \in {"CVBS_U10_4FSC", "CVBS_U16_4FSC", "CVBS_TPG21_4FSC", "CVBS_S16_FSC"}
    BY <1>7, <2>1, SignalsAssumption DEF hasStandardAmplitudeMapping
  <2>3. p.blanking \in Int
    BY <1>2, <1>4 DEF PRESETS
  <2>4. q.black = IF r.black = Unknown THEN 64 * p.black
                  ELSE convertCompositeSampleToCanonical(r.encoding, r.black, p.blanking)
    BY <1>3 DEF CvbsSource
  <2>5. /\ c.black \in 0 .. 1023 /\ c.neutral = Raw(c.encoding, 512, PRESETS[c.preset].blanking)
    BY SignalsAssumption
  <2>6. IF r.black = Unknown THEN c.black = PRESETS[c.preset].black
        ELSE r.black = Raw(c.encoding, c.black, PRESETS[c.preset].blanking)
    BY <1>2, <2>1 DEF BlackStated
  <2> HIDE DEF p
  <2>0. p = PRESETS[c.preset]
    BY <2>1 DEF p
  <2>7. q.black = 64 * c.black
    <3>1. CASE r.black = Unknown
      BY <2>0, <2>4, <2>6, <3>1
    <3>2. CASE r.black # Unknown
      <4> DEFINE b == p.blanking
      <4>1. r.black = Raw(c.encoding, c.black, b)
        BY <2>0, <2>6, <3>2
      <4>2. q.black = convertCompositeSampleToCanonical(c.encoding, r.black, b)
        BY <2>1, <2>4, <3>2
      <4> HIDE DEF b
      <4>3. b \in Int
        BY <2>3 DEF b
      <4>4. convertCompositeSampleToCanonical(c.encoding, Raw(c.encoding, c.black, b), b) = 64 * c.black
        BY <2>2, <2>5, <4>3, RawIsCanonical, Zenon
      <4> QED BY <4>1, <4>2, <4>4, Zenon
    <3> QED BY <3>1, <3>2
  <2>8. o.source.neutral = 0
    BY <1>7, <2>1, <2>2, <2>3, <2>5, NeutralIsZero DEF p
  <2> QED BY <1>6, <2>7, <2>8
<1>12. PhasesRight(o)
  <2>1. o.meta.phases = made.phases
    BY <1>3
  <2>2. made.phases = measureNtscFieldPhaseIds(q.system, source.encoding, c.bursts)
    BY <1>3 DEF SynthesizedMeta
  <2> DEFINE ids == measureNtscFieldPhaseIds(q.system, source.encoding, c.bursts)
  <2>3. \A i \in DOMAIN ids : ids[i] \in {Unknown, ((c.firstPhase + i - 2) % 4) + 1}
    BY PhasesMeasured
  <2> HIDE DEF ids
  <2>4. o.meta.phases = ids /\ o.capture = c
    BY <1>3, <2>1, <2>2 DEF ids
  <2> QED BY <2>3, <2>4 DEF PhasesRight
<1> QED BY <1>9, <1>11, <1>12

\* An ld-decode sidecar as it may be found.
LdSidecar(s) == s.exists /\ ~s.isCvbs /\ s.json \in JsonFiles /\ s.height \in Nat /\ s.height >= 2

\* An ld-decode capture is what its sidecar and the caller say.
LEMMA LdRight ==
  ASSUME FileKnown(file), NEW c, NEW s, LdSidecar(s), NEW override, KnownOverride(override)
  PROVE  OpenRight(openLd(c, s, override))
<1> DEFINE r == readLd(s)
           redeclared == override.given /\ override.standard # "UNKNOWN"
           system == IF redeclared THEN override.standard ELSE r.meta.system
           parameters == [system |-> r.meta.system, isSubcarrierLocked |-> s.locked,
                          fieldWidth |-> s.width, fieldHeight |-> s.height, lines |-> r.meta.lines]
           bound == IF system = r.meta.system THEN parameters ELSE overrideSystem(parameters, system)
           source == [opened |-> TRUE, tbc |-> TRUE, layout |-> "FIELD_RASTER",
                      alignment |-> derivedAlignment(s.locked),
                      encoding |-> "CVBS_U16_4FSC", parameters |-> bound]
           made == [parameters |-> bound, isFirstFieldFirst |-> TRUE, fields |-> r.meta.declared]
           full == [opened |-> TRUE, capture |-> c, synthesized |-> FALSE, source |-> source, meta |-> made]
           o == openLd(c, s, override)
<1>1. o = IF ~r.ok \/ is625Line(system) # is625Line(r.meta.system) \/ c.samples <= 0 THEN Failed
          ELSE full
  BY DEF openLd
<1> SUFFICES ASSUME o.opened PROVE SourceRight(o) /\ EncodingRight(o) /\ PhasesRight(o)
  BY DEF OpenRight
<1>2. r.ok /\ o = full
  BY <1>1 DEF Failed
<1>3. MetaLines(r.meta) /\ Usable(r.meta.system, r.meta.lines)
  <2>1. CASE s.flavour = "db"
    <3>1. r = [ok |-> readable(file), meta |-> IF readable(file) THEN readCaptureMetadata(file) ELSE Cleared]
      BY <2>1 DEF readLd
    <3>2. readable(file) /\ r.meta = readCaptureMetadata(file)
      BY <1>2, <3>1
    <3> QED BY <3>2, ReadLines
  <2>2. CASE s.flavour # "db"
    <3>1. r = readJson(s.json)
      BY <2>2 DEF readLd
    <3> QED BY <1>2, <3>1, JsonLines DEF LdSidecar
  <2> QED BY <2>1, <2>2
<1> HIDE DEF r
<1>4. system \in DOMAIN SystemLines
  <2>1. redeclared => override.standard \in {"SECAM"} \cup DOMAIN PRESETS
    BY OverridesAssumption DEF KnownOverride, NoOverride
  <2> QED BY <1>3, <2>1, PresetsAssumption DEF MetaLines
<1> HIDE DEF system
<1>5. /\ bound.system = system /\ Usable(system, bound.lines) /\ bound.fieldHeight = s.height
  <2>1. CASE system = r.meta.system
    BY <1>3, <2>1
  <2>2. CASE system # r.meta.system
    <3> DEFINE l == applyTo(system, r.meta.lines)
    <3>1. Usable(system, l)
      BY <1>3, <1>4, LinesApply DEF Usable
    <3>2. bound = [parameters EXCEPT !.system = system, !.lines = l]
      BY <2>2 DEF overrideSystem
    <3> HIDE DEF l, bound
    <3> QED BY <3>1, <3>2
  <2> QED BY <2>1, <2>2
<1> HIDE DEF bound, o
<1>6. /\ o.source.parameters = bound /\ o.meta.parameters = bound /\ o.source.tbc = TRUE
      /\ o.synthesized = FALSE
  BY <1>2
<1>7. SourceRight(o)
  <2>1. s.height \in Nat /\ s.height >= 2
    BY DEF LdSidecar
  <2>2. \A line \in {0, 1, 2 * s.height - 3, 2 * s.height - 2} :
           signal_line_to_frame_line(s.height, frame_line_to_signal_line(s.height, line)) = line
    BY <2>1, LinesNumbered
  <2> QED BY <1>5, <1>6, <2>2 DEF SourceRight, Usable
<1>8. ~RightlyDeclared(o)
  BY <1>6 DEF RightlyDeclared
<1> QED BY <1>7, <1>8 DEF EncodingRight, PhasesRight

\* The sidecars a capture may be opened with.
LEMMA SidecarsKnown ==
  ASSUME NEW c \in AllCaptures, NEW sidecar \in SidecarArguments(c)
  PROVE  LET s == resolveSidecarFlavour(c, sidecar)
         IN  /\ s \in {Missing, c["db"], c["json"], c["meta"]}
             /\ s.exists /\ ~s.isCvbs => LdSidecar(s)
             /\ ~(s.exists /\ ~s.isCvbs) => CvbsSidecar(c, s)
<1> DEFINE s == resolveSidecarFlavour(c, sidecar)
<1>1. sidecar = Null \/ sidecar \in {Missing, c["db"], c["json"], c["meta"]}
  BY DEF SidecarArguments
<1>2. s \in {Missing, c["db"], c["json"], c["meta"]}
  BY <1>1 DEF resolveSidecarFlavour
<1> HIDE DEF s
<1>3. Missing.exists = TRUE => FALSE
  BY DEF Missing
<1>4. s.exists /\ ~s.isCvbs => LdSidecar(s)
  BY <1>2, <1>3, SidecarsAssumption DEF LdSidecar
<1>5. ~(s.exists /\ ~s.isCvbs) => CvbsSidecar(c, s)
  BY <1>2, <1>3 DEF CvbsSidecar
<1> QED BY <1>2, <1>4, <1>5 DEF s

\* So is a capture opened alone, beside a sidecar of its own or another's.
LEMMA CompositeRight ==
  ASSUME FileKnown(file), NEW c \in AllCaptures, NEW override, KnownOverride(override),
         NEW sidecar, sidecar \in SidecarArguments(c) \/ (sidecar # Null /\ LdSidecar(sidecar))
  PROVE  OpenRight(openCompositeSource(c, sidecar, override))
<1> DEFINE s == resolveSidecarFlavour(c, sidecar)
           o == openCompositeSource(c, sidecar, override)
<1>1. /\ s.exists /\ ~s.isCvbs => LdSidecar(s)
      /\ ~(s.exists /\ ~s.isCvbs) => CvbsSidecar(c, s)
  <2>1. CASE sidecar \in SidecarArguments(c)
    BY <2>1, SidecarsKnown
  <2>2. CASE sidecar # Null /\ LdSidecar(sidecar)
    <3>1. s = sidecar
      BY <2>2 DEF resolveSidecarFlavour
    <3> HIDE DEF s
    <3> QED BY <2>2, <3>1 DEF LdSidecar
  <2> QED BY <2>1, <2>2
<1>2. o = IF sidecar # Null /\ ~s.exists THEN Failed
          ELSE IF s.exists /\ ~s.isCvbs THEN openLd(c, s, override)
          ELSE openSynthesized(c, resolveCvbsParams(c, s, override))
  BY DEF openCompositeSource
<1> HIDE DEF s, o
<1>3. OpenRight(Failed)
  BY DEF OpenRight, Failed
<1>4. CASE s.exists /\ ~s.isCvbs
  BY <1>1, <1>2, <1>3, <1>4, LdRight DEF o
<1>5. CASE ~(s.exists /\ ~s.isCvbs)
  BY <1>1, <1>2, <1>3, <1>5, SynthesizedRight DEF o
<1> QED BY <1>4, <1>5

\* And the two files of a pair.
LEMMA PairRight ==
  ASSUME FileKnown(file), NEW y \in AllCaptures, NEW c \in AllCaptures,
         NEW sidecar \in SidecarArguments(y), NEW override, KnownOverride(override)
  PROVE  /\ ~decodeMerge(y, sidecar) => OpenRight(openCvbsPair(y, c, sidecar, override))
         /\ decodeMerge(y, sidecar) => OpenRight(openChroma(y, c, sidecar, override))
<1> DEFINE s == resolveSidecarFlavour(y, sidecar)
<1>1. /\ s \in {Missing, y["db"], y["json"], y["meta"]}
      /\ s.exists /\ ~s.isCvbs => LdSidecar(s)
      /\ ~(s.exists /\ ~s.isCvbs) => CvbsSidecar(y, s)
  BY SidecarsKnown
<1>2. decodeMerge(y, sidecar) <=> s.exists /\ ~s.isCvbs
  BY DEF decodeMerge
<1>3. ASSUME ~decodeMerge(y, sidecar) PROVE OpenRight(openCvbsPair(y, c, sidecar, override))
  <2>1. \/ openCvbsPair(y, c, sidecar, override) = Failed
        \/ openCvbsPair(y, c, sidecar, override) = openSynthesized(y, resolveCvbsParams(y, s, override))
    BY DEF openCvbsPair
  <2> HIDE DEF s
  <2>2. OpenRight(openSynthesized(y, resolveCvbsParams(y, s, override)))
    BY <1>1, <1>2, <1>3, SynthesizedRight
  <2>3. OpenRight(Failed)
    BY DEF OpenRight, Failed
  <2> QED BY <2>1, <2>2, <2>3
<1>4. ASSUME decodeMerge(y, sidecar) PROVE OpenRight(openChroma(y, c, sidecar, override))
  <2> DEFINE t == IF resolveSidecarFlavour(c, Null).exists THEN Null ELSE s
  <2>1. openChroma(y, c, sidecar, override) = openCompositeSource(c, t, override)
    BY DEF openChroma
  <2>2. s # Null /\ LdSidecar(s)
    <3> HIDE DEF s
    <3>1. s.exists /\ s # Missing
      BY <1>2, <1>4 DEF Missing
    <3> QED BY <1>1, <1>2, <1>4, <3>1, SidecarsAssumption
  <2>3. Null \in SidecarArguments(c)
    BY DEF SidecarArguments
  <2> HIDE DEF s
  <2> QED BY <2>1, <2>2, <2>3, CompositeRight
<1> QED BY <1>3, <1>4

Right(o) == SourceRight(o) /\ EncodingRight(o) /\ PhasesRight(o)

VideoRight ==
  video # NoVideo =>
     /\ DOMAIN video = {"primary", "chroma", "extras", "chromaExtras"}
     /\ SequenceOf(video.extras) /\ SequenceOf(video.chromaExtras)
     /\ Right(video.primary) /\ (video.chroma # NoVideo => Right(video.chroma))
     /\ \A i \in DOMAIN video.extras : Right(video.extras[i])
     /\ \A i \in DOMAIN video.chromaExtras : Right(video.chromaExtras[i])

\* What is right of each open source is what the properties say of all of them.
LEMMA RightIsDescribed ==
  ASSUME VideoRight
  PROVE  SourcesAgree /\ EncodingsAgree /\ MeasuredPhaseIsTrue
<1>1. \A o \in Sources : Right(o)
  BY DEF Sources, VideoRight
<1> QED BY <1>1 DEF Right, SourceRight, EncodingRight, PhasesRight, SourcesAgree, EncodingsAgree,
              MeasuredPhaseIsTrue

\* A video is opened whole, or not at all.
LEMMA OpenedRight ==
  ASSUME NEW y, OpenRight(y), NEW c, c = NoVideo \/ OpenRight(c), Opened(y, c)
  PROVE  VideoRight'
<1>1. CASE y.opened /\ (c = NoVideo \/ c.opened)
  <2>1. \A o \in {y} \cup {d \in {c} : d # NoVideo} : o.opened
    BY <1>1
  <2>2. video' = [primary |-> y, chroma |-> c, extras |-> <<>>, chromaExtras |-> <<>>]
    BY <2>1 DEF Opened
  <2>3. SequenceOf(<<>>) /\ DOMAIN <<>> = {}
    BY EmptySeq DEF SequenceOf
  <2> QED BY <1>1, <2>2, <2>3 DEF VideoRight, OpenRight, Right
<1>2. CASE ~(y.opened /\ (c = NoVideo \/ c.opened))
  <2>1. ~\A o \in {y} \cup {d \in {c} : d # NoVideo} : o.opened
    BY <1>2
  <2>2. video' = NoVideo
    BY <2>1 DEF Opened
  <2> QED BY <2>2 DEF VideoRight
<1> QED BY <1>1, <1>2

\* A further source is added to those that are right.
LEMMA ExtrasRight ==
  ASSUME VideoRight, video # NoVideo, NEW y, Right(y), NEW c, Right(c),
         \/ video' = [video EXCEPT !.extras = Append(@, y)]
         \/ video' = [video EXCEPT !.extras = Append(@, y), !.chromaExtras = Append(@, c)]
  PROVE  VideoRight'
<1> DEFINE Holds1(t) == SequenceOf(t) /\ \A i \in DOMAIN t : Right(t[i])
<1>1. ASSUME NEW t, Holds1(t), NEW o, Right(o) PROVE Holds1(Append(t, o))
  <2>1. Len(t) \in Nat /\ DOMAIN t = 1 .. Len(t)
    BY <1>1, SequencesAre
  <2>2. /\ SequenceOf(Append(t, o)) /\ Len(Append(t, o)) = Len(t) + 1
        /\ \A i \in 1 .. Len(t) : Append(t, o)[i] = t[i]
        /\ Append(t, o)[Len(t) + 1] = o
    BY <1>1, AppendsAre
  <2>3. DOMAIN Append(t, o) = 1 .. (Len(t) + 1)
    BY <2>2, SequencesAre
  <2>4. ASSUME NEW i \in 1 .. (Len(t) + 1) PROVE Right(Append(t, o)[i])
    <3>1. CASE i = Len(t) + 1
      BY <1>1, <2>2, <3>1
    <3>2. CASE i \in 1 .. Len(t)
      BY <1>1, <2>1, <2>2, <3>2
    <3> QED BY <2>1, <3>1, <3>2
  <2> QED BY <2>2, <2>3, <2>4
<1>2. Holds1(video.extras) /\ Holds1(video.chromaExtras)
  BY DEF VideoRight
<1> DEFINE a == Append(video.extras, y)
           b == Append(video.chromaExtras, c)
<1>3. Holds1(a) /\ Holds1(b)
  BY <1>1, <1>2
<1> HIDE DEF a, b
<1>4. /\ DOMAIN video' = DOMAIN video /\ video'.primary = video.primary
      /\ video'.chroma = video.chroma /\ video'.extras = a
      /\ video'.chromaExtras \in {video.chromaExtras, b}
  BY DEF VideoRight, a, b
<1> QED BY <1>2, <1>3, <1>4 DEF VideoRight

\* However a video is opened and added to, its sources are right.
LEMMA VideoStaysRight ==
  ASSUME FileKnown(file), VideoRight, NextOpening \/ NextExtra
  PROVE  VideoRight'
<1>0. Captures \cup Extras \subseteq AllCaptures
  BY DEF AllCaptures
<1>1. ASSUME NEW pair \in Pairs \cup ExtraPairs PROVE pair[1] \in AllCaptures /\ pair[2] \in AllCaptures
  BY DEF AllCaptures
<1>2. ASSUME NEW override \in Overrides, NEW c \in Captures, NEW sidecar \in SidecarArguments(c),
             OpenComposite(c, sidecar, override)
      PROVE  VideoRight'
  BY <1>0, <1>2, CompositeRight, OpenedRight DEF OpenComposite, KnownOverride
<1>3. ASSUME NEW override \in Overrides, NEW pair \in Pairs, NEW sidecar \in SidecarArguments(pair[1]),
             OpenYc(pair[1], pair[2], sidecar, override)
      PROVE  VideoRight'
  <2> DEFINE a == openCvbsPair(pair[1], pair[2], sidecar, override)
             y == openCompositeSource(pair[1], sidecar, override)
             c == openChroma(pair[1], pair[2], sidecar, override)
  <2>1. KnownOverride(override)
    BY DEF KnownOverride
  <2>2. OpenRight(y)
    BY <1>1, <2>1, CompositeRight
  <2>3. CASE ~decodeMerge(pair[1], sidecar)
    <3>1. OpenRight(a)
      BY <1>1, <2>1, <2>3, PairRight
    <3>2. Opened(a, NoVideo)
      BY <1>3, <2>3 DEF OpenYc
    <3> HIDE DEF a
    <3> QED BY <3>1, <3>2, OpenedRight
  <2>4. CASE decodeMerge(pair[1], sidecar)
    <3>1. OpenRight(c)
      BY <1>1, <2>1, <2>4, PairRight
    <3>2. UNCHANGED video \/ Opened(y, c)
      BY <1>3, <2>4 DEF OpenYc
    <3> HIDE DEF y, c
    <3>3. CASE UNCHANGED video
      BY <3>3 DEF VideoRight
    <3> QED BY <2>2, <3>1, <3>2, <3>3, OpenedRight
  <2> QED BY <2>3, <2>4
<1>4. ASSUME video # NoVideo, NEW c \in Extras, NEW sidecar \in SidecarArguments(c),
             AddExtraComposite(c, sidecar)
      PROVE  VideoRight'
  <2> DEFINE o == openCompositeSource(c, sidecar, NoOverride)
  <2>1. OpenRight(o)
    BY <1>0, CompositeRight DEF KnownOverride
  <2>2. video' = IF o.opened THEN [video EXCEPT !.extras = Append(@, o)] ELSE video
    BY <1>4 DEF AddExtraComposite
  <2> HIDE DEF o
  <2>3. CASE o.opened
    BY <1>4, <2>1, <2>2, <2>3, ExtrasRight DEF OpenRight, Right
  <2>4. CASE ~o.opened
    BY <2>2, <2>4 DEF VideoRight
  <2> QED BY <2>3, <2>4
<1>5. ASSUME video # NoVideo, NEW pair \in ExtraPairs, NEW sidecar \in SidecarArguments(pair[1]),
             AddExtraYc(pair[1], pair[2], sidecar)
      PROVE  VideoRight'
  <2> DEFINE merge == decodeMerge(pair[1], sidecar)
             y == IF merge THEN openCompositeSource(pair[1], sidecar, NoOverride)
                  ELSE openCvbsPair(pair[1], pair[2], sidecar, NoOverride)
             c == openChroma(pair[1], pair[2], sidecar, NoOverride)
  <2>1. KnownOverride(NoOverride)
    BY DEF KnownOverride
  <2>2. OpenRight(y) /\ (merge => OpenRight(c))
    BY <1>1, <2>1, CompositeRight, PairRight
  <2>3. video' = IF ~y.opened THEN video
                 ELSE [video EXCEPT !.extras = Append(@, y),
                                    !.chromaExtras = IF merge /\ c.opened THEN Append(@, c) ELSE @]
    BY <1>5 DEF AddExtraYc
  <2> HIDE DEF y, c, merge
  <2>4. CASE ~y.opened
    BY <2>3, <2>4 DEF VideoRight
  <2>5. CASE y.opened /\ merge /\ c.opened
    <3>1. video' = [video EXCEPT !.extras = Append(@, y), !.chromaExtras = Append(@, c)]
      BY <2>3, <2>5
    <3>2. Right(y) /\ Right(c)
      BY <2>2, <2>5 DEF OpenRight, Right
    <3> QED BY <1>5, <3>1, <3>2, ExtrasRight
  <2>6. CASE y.opened /\ ~(merge /\ c.opened)
    <3>1. video' = [video EXCEPT !.extras = Append(@, y)]
      BY <1>5, <2>3, <2>6 DEF VideoRight
    <3>2. Right(y)
      BY <2>2, <2>6 DEF OpenRight, Right
    <3> QED BY <1>5, <3>1, <3>2, ExtrasRight
  <2> QED BY <2>4, <2>5, <2>6
<1> QED BY <1>2, <1>3, <1>4, <1>5 DEF NextOpening, NextExtra

-----------------------------------------------------------------------------
(* Words.  A step of decode() takes both numbers of a time out of its word, *)
(* or leaves both as they were.                                             *)

\* Two digits are a number, and so is one.
LEMMA DigitsAre ==
  ASSUME NEW a \in 0 .. 15, NEW b \in 0 .. 15
  PROVE  V!ValueOf(<<a>>) = a /\ V!ValueOf(<<a, b>>) = 10 * a + b
<1>1. V!ValueOf(<<a>>) = a
  <2> DEFINE f == [i \in 0 .. 1 |-> IF i = 0 THEN 0 ELSE a]
             v == CHOOSE g : g = [i \in 0 .. 1 |-> IF i = 0 THEN 0 ELSE 10 * g[i - 1] + <<a>>[i]]
  <2>1. f = [i \in 0 .. 1 |-> IF i = 0 THEN 0 ELSE 10 * f[i - 1] + <<a>>[i]]
    OBVIOUS
  <2>2. v = [i \in 0 .. 1 |-> IF i = 0 THEN 0 ELSE 10 * v[i - 1] + <<a>>[i]]
    <3> HIDE DEF f
    <3> QED BY <2>1
  <2>3. V!ValueOf(<<a>>) = v[1]
    BY DEF V!ValueOf
  <2> HIDE DEF v
  <2>4. v[0] = 0
    BY <2>2
  <2>5. v[1] = 10 * v[0] + a
    BY <2>2
  <2> QED BY <2>3, <2>4, <2>5
<1>2. V!ValueOf(<<a, b>>) = 10 * a + b
  <2> DEFINE f == [i \in 0 .. 2 |-> IF i = 0 THEN 0 ELSE IF i = 1 THEN a ELSE 10 * a + b]
             v == CHOOSE g : g = [i \in 0 .. 2 |-> IF i = 0 THEN 0 ELSE 10 * g[i - 1] + <<a, b>>[i]]
  <2>1. f = [i \in 0 .. 2 |-> IF i = 0 THEN 0 ELSE 10 * f[i - 1] + <<a, b>>[i]]
    OBVIOUS
  <2>2. v = [i \in 0 .. 2 |-> IF i = 0 THEN 0 ELSE 10 * v[i - 1] + <<a, b>>[i]]
    <3> HIDE DEF f
    <3> QED BY <2>1
  <2>3. V!ValueOf(<<a, b>>) = v[2]
    BY DEF V!ValueOf
  <2> HIDE DEF v
  <2>4. v[0] = 0
    BY <2>2
  <2>5. v[1] = 10 * v[0] + a
    BY <2>2
  <2>6. v[2] = 10 * v[1] + b
    BY <2>2
  <2> QED BY <2>3, <2>4, <2>5, <2>6
<1> QED BY <1>1, <1>2

Items == {"type", "userCode", "picNo", "chNo", "clvHr", "clvMin", "clvSec", "clvPicNo",
          "soundMode", "soundModeAm2", "flags"}

IsVbi(v) == DOMAIN v = Items

SameTime(v, u) == v.clvHr = u.clvHr /\ v.clvMin = u.clvMin
SamePicture(v, u) == v.clvSec = u.clvSec /\ v.clvPicNo = u.clvPicNo
SameClock(v, u) == IsVbi(v) /\ SameTime(v, u) /\ SamePicture(v, u)

\* The codes that say nothing of the time.
LEMMA OtherCodes ==
  ASSUME NEW u, IsVbi(u), NEW w, NEW cond, NEW name
  PROVE  /\ SameClock(V!Flag(u, cond, name), u)
         /\ SameClock(V!decodePictureNumber(u, w), u)
         /\ SameClock(V!decodeChapter(u, w), u)
         /\ SameClock(V!decodeProgrammeStatus(u, w), u)
         /\ SameClock(V!decodeProgrammeStatusAm2(u, w), u)
         /\ SameClock(V!decodeUserCode(u, w), u)
         /\ SameClock([u EXCEPT !.type = name], u)
<1> USE DEF SameClock, IsVbi, SameTime, SamePicture, Items
<1>1. SameClock(V!Flag(u, cond, name), u)
  BY DEF V!Flag
<1>2. SameClock(V!decodePictureNumber(u, w), u)
  BY DEF V!decodePictureNumber
<1>3. SameClock(V!decodeChapter(u, w), u)
  BY DEF V!decodeChapter
<1>4. SameClock(V!decodeProgrammeStatus(u, w), u)
  BY DEF V!decodeProgrammeStatus
<1>5. SameClock(V!decodeProgrammeStatusAm2(u, w), u)
  BY DEF V!decodeProgrammeStatusAm2
<1>6. SameClock(V!decodeUserCode(u, w), u)
  BY DEF V!decodeUserCode
<1>7. SameClock([u EXCEPT !.type = name], u)
  OBVIOUS
<1> QED BY <1>1, <1>2, <1>3, <1>4, <1>5, <1>6, <1>7

Word == [1 .. 6 -> 0 .. 15]

\* Hour and minute out of one word.
TimeIn(v, w) ==
  /\ v.clvHr = w[2] /\ w[2] \in 0 .. 9
  /\ v.clvMin = 10 * w[5] + w[6] /\ w[5] \in 0 .. 9 /\ w[6] \in 0 .. 9
NoTime(v) == v.clvHr = -1 /\ v.clvMin = -1

\* Second and picture out of one word.
PictureIn(v, w) ==
  /\ v.clvSec = 10 * (w[2] - 10) + w[4] /\ w[2] \in 10 .. 15 /\ w[4] \in 0 .. 9
  /\ v.clvPicNo = 10 * w[5] + w[6] /\ w[5] \in 0 .. 9 /\ w[6] \in 0 .. 9
NoPicture(v) == v.clvSec = -1 /\ v.clvPicNo = -1

\* A programme time is taken whole or not at all.
LEMMA ProgrammeTimeTaken ==
  ASSUME NEW u, IsVbi(u), NEW w \in Word
  PROVE  LET v == V!decodeProgrammeTime(u, w)
         IN  IsVbi(v) /\ SamePicture(v, u) /\ (SameTime(v, u) \/ TimeIn(v, w))
<1> DEFINE minute == <<w[5], w[6]>>
           v == V!decodeProgrammeTime(u, w)
           timed == w[1] = 15 /\ w[3] = 13 /\ w[4] = 13 /\ V!Decimal(<<w[2]>>)
           e == [u EXCEPT !.clvMin = V!decodeBCD(minute, @),
                          !.clvHr = IF V!Decimal(minute) THEN V!decodeBCD(<<w[2]>>, @) ELSE @]
<1>1. v = IF timed THEN e ELSE u
  BY DEF V!decodeProgrammeTime
<1>2. w[2] \in 0 .. 15 /\ w[5] \in 0 .. 15 /\ w[6] \in 0 .. 15
  BY DEF Word
<1>3. V!Decimal(<<w[2]>>) <=> w[2] <= 9
  BY DEF V!Decimal
<1>4. V!Decimal(minute) <=> w[5] <= 9 /\ w[6] <= 9
  BY DEF V!Decimal
<1>5. /\ V!decodeBCD(minute, u.clvMin) = IF V!Decimal(minute) THEN 10 * w[5] + w[6] ELSE u.clvMin
      /\ V!decodeBCD(<<w[2]>>, u.clvHr) = IF V!Decimal(<<w[2]>>) THEN w[2] ELSE u.clvHr
  BY <1>2, DigitsAre DEF V!decodeBCD
<1> HIDE DEF v
<1>6. CASE ~timed
  BY <1>1, <1>6 DEF SamePicture, SameTime, v
<1>7. CASE timed
  <2>1. /\ DOMAIN v = Items /\ v.clvSec = u.clvSec /\ v.clvPicNo = u.clvPicNo
        /\ v.clvMin = V!decodeBCD(minute, u.clvMin)
        /\ v.clvHr = IF V!Decimal(minute) THEN V!decodeBCD(<<w[2]>>, u.clvHr) ELSE u.clvHr
    <3> HIDE DEF minute
    <3> QED BY <1>1, <1>7 DEF IsVbi, Items
  <2>2. SameTime(v, u) \/ TimeIn(v, w)
    BY <1>2, <1>3, <1>4, <1>5, <1>7, <2>1 DEF SameTime, TimeIn
  <2> QED BY <2>1, <2>2 DEF IsVbi, SamePicture, v
<1> QED BY <1>6, <1>7

\* And so are second and picture.
LEMMA ClvPictureTaken ==
  ASSUME NEW u, IsVbi(u), NEW w \in Word
  PROVE  LET v == V!decodeClvPicture(u, w)
         IN  IsVbi(v) /\ SameTime(v, u) /\ (SamePicture(v, u) \/ PictureIn(v, w))
<1> DEFINE picture == <<w[5], w[6]>>
           v == V!decodeClvPicture(u, w)
           taken == /\ w[1] = 8 /\ w[3] = 14 /\ w[2] >= 10
                    /\ V!Decimal(<<w[4]>>) /\ V!Decimal(picture)
           e == [u EXCEPT !.clvPicNo = V!decodeBCD(picture, @),
                          !.clvSec = 10 * (w[2] - 10) + w[4],
                          !.type = "clv", !.picNo = V!Unknown]
<1>1. v = IF taken THEN e ELSE u
  BY DEF V!decodeClvPicture
<1>2. w[2] \in 0 .. 15 /\ w[4] \in 0 .. 15 /\ w[5] \in 0 .. 15 /\ w[6] \in 0 .. 15
  BY DEF Word
<1>3. V!Decimal(<<w[4]>>) <=> w[4] <= 9
  BY DEF V!Decimal
<1>4. V!Decimal(picture) <=> w[5] <= 9 /\ w[6] <= 9
  BY DEF V!Decimal
<1>5. V!decodeBCD(picture, u.clvPicNo) = IF V!Decimal(picture) THEN 10 * w[5] + w[6] ELSE u.clvPicNo
  BY <1>2, DigitsAre DEF V!decodeBCD
<1> HIDE DEF v
<1>6. CASE ~taken
  BY <1>1, <1>6 DEF SamePicture, SameTime, v
<1>7. CASE taken
  <2>1. /\ DOMAIN v = Items /\ v.clvHr = u.clvHr /\ v.clvMin = u.clvMin
        /\ v.clvPicNo = V!decodeBCD(picture, u.clvPicNo)
        /\ v.clvSec = 10 * (w[2] - 10) + w[4]
    <3> HIDE DEF picture
    <3> QED BY <1>1, <1>7 DEF IsVbi, Items
  <2>2. PictureIn(v, w)
    BY <1>2, <1>3, <1>4, <1>5, <1>7, <2>1 DEF PictureIn
  <2> QED BY <2>1, <2>2 DEF IsVbi, SameTime, v
<1> QED BY <1>6, <1>7

TimeOf(v, words) == NoTime(v) \/ \E w \in words : TimeIn(v, w)
PictureOf(v, words) == NoPicture(v) \/ \E w \in words : PictureIn(v, w)
Whole(v, words) == IsVbi(v) /\ TimeOf(v, words) /\ PictureOf(v, words)

\* A field's time and picture are each one word's, or none.
LEMMA FieldIsWhole ==
  ASSUME NEW a \in Word, NEW b \in Word, NEW c \in Word
  PROVE  Whole(V!decode(a, b, c), {a, b, c})
<1>0. IsVbi(V!NoVbi) /\ NoTime(V!NoVbi) /\ NoPicture(V!NoVbi)
  BY DEF V!NoVbi, V!Unknown, IsVbi, Items, NoTime, NoPicture
<1> DEFINE w == {a, b, c}
           bth == {b, c}
           s0 == V!Flag(V!NoVbi, V!LeadIn \in bth, "leadIn")
           s1 == V!Flag(s0, V!LeadOut \in bth, "leadOut")
           p0 == V!decodePictureNumber(s1, b)
           p1 == V!decodePictureNumber(p0, c)
           q0 == V!Flag(p1, TRUE, "picStop")
           q1 == [q0 EXCEPT !.type = "cav"]
           q2 == IF V!PictureStop \in {a, b} THEN q1 ELSE p1
           h0 == V!decodeChapter(q2, b)
           h1 == V!decodeChapter(h0, c)
           t0 == V!decodeProgrammeTime(h1, b)
           t1 == V!decodeProgrammeTime(t0, c)
           v0 == [t1 EXCEPT !.type = "clv"]
           v1 == IF t1.clvHr # V!Unknown \/ b = V!ConstantLinearVelocity THEN v0 ELSE t1
           r0 == V!decodeProgrammeStatus(v1, a)
           r1 == V!decodeProgrammeStatusAm2(r0, a)
           r2 == V!decodeUserCode(r1, a)
           r3 == V!decodeClvPicture(r2, a)
<1>1. V!decode(a, b, c) = IF a = V!Unread /\ b = V!Unread /\ c = V!Unread THEN V!NoVbi ELSE r3
  BY DEF V!decode
<1> HIDE DEF s0, s1, p0, p1, q0, q1, q2, h0, h1, t0, t1, v0, v1, r0, r1, r2, r3
<1> DEFINE Blank(v) == IsVbi(v) /\ NoTime(v) /\ NoPicture(v)
           Timed(v) == IsVbi(v) /\ TimeOf(v, w) /\ NoPicture(v)
<1>2. ASSUME NEW u, Blank(u), NEW v, SameClock(v, u) PROVE Blank(v)
  BY <1>2 DEF SameClock, SameTime, SamePicture, NoTime, NoPicture
<1>3. ASSUME NEW u, Timed(u), NEW v, SameClock(v, u) PROVE Timed(v)
  BY <1>3 DEF SameClock, SameTime, SamePicture, NoTime, NoPicture, TimeOf, TimeIn
<1>4. Blank(s0)
  <2>1. SameClock(s0, V!NoVbi)
    BY <1>0, OtherCodes DEF s0
  <2> QED BY <1>0, <1>2, <2>1
<1>5. Blank(s1)
  <2>1. SameClock(s1, s0)
    BY <1>4, OtherCodes DEF s1
  <2> QED BY <1>4, <1>2, <2>1
<1>6. Blank(p0)
  <2>1. SameClock(p0, s1)
    BY <1>5, OtherCodes DEF p0
  <2> QED BY <1>5, <1>2, <2>1
<1>7. Blank(p1)
  <2>1. SameClock(p1, p0)
    BY <1>6, OtherCodes DEF p1
  <2> QED BY <1>6, <1>2, <2>1
<1>8. Blank(q1)
  <2>1. SameClock(q0, p1)
    BY <1>7, OtherCodes DEF q0
  <2>2. Blank(q0)
    BY <1>7, <1>2, <2>1
  <2>3. SameClock(q1, q0)
    BY <2>2, OtherCodes DEF q1
  <2> QED BY <2>2, <1>2, <2>3
<1>9. Blank(q2)
  BY <1>7, <1>8 DEF q2
<1>10. Blank(h0)
  <2>1. SameClock(h0, q2)
    BY <1>9, OtherCodes DEF h0
  <2> QED BY <1>9, <1>2, <2>1
<1>11. Blank(h1)
  <2>1. SameClock(h1, h0)
    BY <1>10, OtherCodes DEF h1
  <2> QED BY <1>10, <1>2, <2>1
<1>12. Timed(t0)
  <2>1. IsVbi(t0) /\ SamePicture(t0, h1) /\ (SameTime(t0, h1) \/ TimeIn(t0, b))
    BY <1>11, ProgrammeTimeTaken DEF t0
  <2> QED BY <1>11, <2>1 DEF SameTime, SamePicture, NoTime, NoPicture, TimeOf
<1>13. Timed(t1)
  <2>1. IsVbi(t1) /\ SamePicture(t1, t0) /\ (SameTime(t1, t0) \/ TimeIn(t1, c))
    BY <1>12, ProgrammeTimeTaken DEF t1
  <2> QED BY <1>12, <2>1 DEF SameTime, SamePicture, NoTime, NoPicture, TimeOf, TimeIn
<1>14. Timed(v1)
  <2>1. SameClock(v0, t1)
    BY <1>13, OtherCodes DEF v0
  <2>2. Timed(v0)
    BY <1>13, <1>3, <2>1
  <2> QED BY <1>13, <2>2 DEF v1
<1>15. Timed(r0)
  <2>1. SameClock(r0, v1)
    BY <1>14, OtherCodes DEF r0
  <2> QED BY <1>14, <1>3, <2>1
<1>16. Timed(r1)
  <2>1. SameClock(r1, r0)
    BY <1>15, OtherCodes DEF r1
  <2> QED BY <1>15, <1>3, <2>1
<1>17. Timed(r2)
  <2>1. SameClock(r2, r1)
    BY <1>16, OtherCodes DEF r2
  <2> QED BY <1>16, <1>3, <2>1
<1>18. Whole(r3, w)
  <2>1. IsVbi(r3) /\ SameTime(r3, r2) /\ (SamePicture(r3, r2) \/ PictureIn(r3, a))
    BY <1>17, ClvPictureTaken DEF r3
  <2> QED BY <1>17, <2>1 DEF Whole, SameTime, SamePicture, NoTime, NoPicture, TimeOf, TimeIn, PictureOf
<1>19. Whole(V!NoVbi, w)
  BY <1>0 DEF Whole, TimeOf, PictureOf
<1> QED BY <1>1, <1>18, <1>19

\* A frame's are its first field's, or else its second's.
LEMMA FrameIsWhole ==
  ASSUME NEW first \in [1 .. 3 -> Word], NEW second \in [1 .. 3 -> Word],
         NEW r, r = V!decodeFrame(first, second)
  PROVE  LET words == {<<first, second>>[f][l] : f \in 1 .. 2, l \in 1 .. 3}
         IN  TimeOf(r, words) /\ PictureOf(r, words)
<1> DEFINE words == {<<first, second>>[f][l] : f \in 1 .. 2, l \in 1 .. 3}
           a == V!decode(first[1], first[2], first[3])
           b == V!decode(second[1], second[2], second[3])
           wa == {first[1], first[2], first[3]}
           wb == {second[1], second[2], second[3]}
<1>1. Whole(a, wa) /\ Whole(b, wb)
  BY FieldIsWhole
<1>2. wa \subseteq words /\ wb \subseteq words
  OBVIOUS
<1> HIDE DEF words, wa, wb
<1>3. Whole(a, words) /\ Whole(b, words)
  BY <1>1, <1>2 DEF Whole, TimeOf, PictureOf
<1>4. /\ r.clvHr = (IF a.clvHr # -1 THEN a.clvHr ELSE b.clvHr)
      /\ r.clvMin = (IF a.clvMin # -1 THEN a.clvMin ELSE b.clvMin)
      /\ r.clvSec = (IF a.clvSec # -1 THEN a.clvSec ELSE b.clvSec)
      /\ r.clvPicNo = (IF a.clvPicNo # -1 THEN a.clvPicNo ELSE b.clvPicNo)
  <2> DEFINE g == [item \in DOMAIN V!NoVbi |->
                     IF item = "flags" THEN a.flags \cup b.flags
                     ELSE IF a[item] # V!NoVbi[item] THEN a[item] ELSE b[item]]
  <2>1. r = g
    BY DEF V!decodeFrame
  <2> HIDE DEF a, b
  <2> QED BY <2>1 DEF V!NoVbi, V!Unknown
<1> HIDE DEF a, b
<1>5. TimeOf(r, words)
  <2>1. CASE NoTime(a)
    BY <1>3, <1>4, <2>1 DEF Whole, TimeOf, TimeIn, NoTime
  <2>2. ASSUME NEW w \in words, TimeIn(a, w) PROVE TimeIn(r, w)
    <3>1. a.clvHr # -1 /\ a.clvMin # -1
      BY <2>2 DEF TimeIn
    <3> QED BY <1>4, <2>2, <3>1 DEF TimeIn
  <2> QED BY <1>3, <2>1, <2>2 DEF Whole, TimeOf
<1>6. PictureOf(r, words)
  <2>1. CASE NoPicture(a)
    BY <1>3, <1>4, <2>1 DEF Whole, PictureOf, PictureIn, NoPicture
  <2>2. ASSUME NEW w \in words, PictureIn(a, w) PROVE PictureIn(r, w)
    <3>1. a.clvSec # -1 /\ a.clvPicNo # -1
      BY <2>2 DEF PictureIn
    <3> QED BY <1>4, <2>2, <3>1 DEF PictureIn
  <2> QED BY <1>3, <2>1, <2>2 DEF Whole, PictureOf
<1> QED BY <1>5, <1>6 DEF words

\* Hours, minutes and seconds out of a number of seconds.
HourIs(q, h) == q \div 3600 = h
AtHour(q, h, x) == x \in 0 .. 3599 /\ q = 3600 * h + x

LEMMA HourOf ==
  ASSUME NEW q \in Nat, NEW h \in Nat, NEW x, AtHour(q, h, x)
  PROVE  HourIs(q, h)
BY DEF HourIs, AtHour

LEMMA MinuteOf ==
  ASSUME NEW q \in Nat, NEW k \in Nat, NEW s \in 0 .. 59, q = 60 * k + s
  PROVE  q \div 60 = k /\ q % 60 = s
OBVIOUS

LEMMA PictureNumberOf ==
  ASSUME NEW n \in Nat, NEW q \in Nat, NEW p \in 0 .. 24, n = 25 * q + p
  PROVE  n \div 25 = q /\ n % 25 = p
OBVIOUS

IsClock(h, m, s, p, q, n) ==
  /\ h \in Nat /\ m \in 0 .. 59 /\ s \in 0 .. 59 /\ p \in 0 .. 24
  /\ q = 3600 * h + 60 * m + s /\ n = 25 * q + p
ClockBack(h, m, s, p, n) ==
  /\ n \in Nat /\ (n \div 25) \div 3600 = h /\ ((n \div 25) \div 60) % 60 = m
  /\ (n \div 25) % 60 = s /\ n % 25 = p

LEMMA ClockOf ==
  ASSUME NEW h, NEW m, NEW s, NEW p, NEW q, NEW n, IsClock(h, m, s, p, q, n)
  PROVE  ClockBack(h, m, s, p, n)
<1>0. h \in Nat /\ m \in 0 .. 59 /\ s \in 0 .. 59 /\ p \in 0 .. 24
  BY DEF IsClock
<1>1. q = 3600 * h + 60 * m + s /\ n = 25 * q + p
  BY DEF IsClock
<1>2. q \in Nat
  BY <1>0, <1>1
<1>3. HourIs(q, h)
  <2> DEFINE x == 60 * m + s
  <2>1. AtHour(q, h, x)
    BY <1>0, <1>1 DEF AtHour
  <2> HIDE DEF x
  <2> QED BY <1>0, <1>2, <2>1, HourOf
<1>4. q \div 60 = 60 * h + m /\ q % 60 = s
  <2>1. 60 * h + m \in Nat /\ q = 60 * (60 * h + m) + s
    BY <1>0, <1>1
  <2> QED BY <1>0, <1>2, <2>1, MinuteOf
<1>5. (60 * h + m) % 60 = m
  <2>1. 60 * h + m \in Nat
    BY <1>0
  <2>2. \A k \in Nat : k = 60 * h + m => k % 60 = m
    BY <1>0, MinuteOf
  <2> QED BY <2>1, <2>2
<1>6. n \in Nat /\ n \div 25 = q /\ n % 25 = p
  <2>1. n \in Nat
    BY <1>0, <1>1, <1>2
  <2> QED BY <1>0, <1>1, <1>2, <2>1, PictureNumberOf
<1> QED BY <1>3, <1>4, <1>5, <1>6 DEF ClockBack, HourIs

\* A time code, made a frame number, is found again.
LEMMA NumberGoesBack ==
  ASSUME NEW h, NEW m, NEW s, NEW p, h \in Nat, m \in 0 .. 59, s \in 0 .. 59, p \in 0 .. 24
  PROVE  LET t == [hours |-> h, minutes |-> m, seconds |-> s, pictureNumber |-> p]
         IN  V!convertFrameNumberToClvTimecode("PAL", V!convertClvTimecodeToFrameNumber("PAL", t)) = t
<1> DEFINE t == [hours |-> h, minutes |-> m, seconds |-> s, pictureNumber |-> p]
           q == 3600 * h + 60 * m + s
           n == 25 * q + p
<1>1. V!convertClvTimecodeToFrameNumber("PAL", t) = n
  BY DEF V!convertClvTimecodeToFrameNumber, V!FramesPerSecond, V!Unknown
<1>2. IsClock(h, m, s, p, q, n)
  BY DEF IsClock
<1> HIDE DEF q, n
<1>3. ClockBack(h, m, s, p, n)
  BY <1>2, ClockOf
<1>4. V!convertFrameNumberToClvTimecode("PAL", n) = t
  BY <1>3 DEF ClockBack, V!convertFrameNumberToClvTimecode, V!FramesPerSecond
<1> QED BY <1>1, <1>4

\* What the words of a frame decode to is what they say.
LEMMA VbiDecoded ==
  ASSUME NEW first \in WordTriples, NEW second \in WordTriples, DecodeVbi(first, second)
  PROVE  TimecodesStayTogether'
<1> DEFINE r == V!decodeFrame(first, second)
           f3 == [l \in 1 .. 3 |-> first[l]]
           words == {<<first, second>>[f][l] : f \in 1 .. 2, l \in 1 .. 3}
           g3 == [l \in 1 .. 3 |-> second[l]]
<1>1. f3 \in [1 .. 3 -> Word] /\ g3 \in [1 .. 3 -> Word]
  BY WordTriplesAssumption DEF Word
<1>2. r = V!decodeFrame(f3, g3)
  BY DEF V!decodeFrame
<1>3. words = {<<f3, g3>>[f][l] : f \in 1 .. 2, l \in 1 .. 3}
  OBVIOUS
<1> HIDE DEF f3, g3, r
<1>4. TimeOf(r, words) /\ PictureOf(r, words)
  <2>1. LET w == {<<f3, g3>>[f][l] : f \in 1 .. 2, l \in 1 .. 3} IN TimeOf(r, w) /\ PictureOf(r, w)
    BY <1>1, <1>2, FrameIsWhole
  <2> QED BY <1>3, <2>1
<1>5. query' = [kind |-> "vbi", words |-> <<first, second>>, result |-> r]
  BY DEF DecodeVbi, r
<1> DEFINE t == [hours |-> r.clvHr, minutes |-> r.clvMin, seconds |-> r.clvSec,
                 pictureNumber |-> r.clvPicNo]
           number == V!convertClvTimecodeToFrameNumber("PAL", t)
<1>6. \A w \in words : w \in Word
  BY WordTriplesAssumption DEF Word
<1> HIDE DEF words
<1>7. \/ {r.clvHr, r.clvMin} = {V!Unknown}
      \/ \E w \in words : <<r.clvHr, r.clvMin>> = <<w[2], 10 * w[5] + w[6]>>
  BY <1>4 DEF TimeOf, TimeIn, NoTime, V!Unknown
<1>8. \/ {r.clvSec, r.clvPicNo} = {V!Unknown}
      \/ \E w \in words : <<r.clvSec, r.clvPicNo>> = <<10 * (w[2] - 10) + w[4], 10 * w[5] + w[6]>>
  BY <1>4 DEF PictureOf, PictureIn, NoPicture, V!Unknown
<1>9. ASSUME number # V!Unknown, r.clvMin < 60, r.clvPicNo < 25
      PROVE  V!convertFrameNumberToClvTimecode("PAL", number) = t
  <2>1. V!Unknown \notin {t.hours, t.minutes, t.seconds, t.pictureNumber}
    BY <1>9 DEF V!convertClvTimecodeToFrameNumber
  <2>2. r.clvHr # -1 /\ r.clvSec # -1
    BY <2>1 DEF V!Unknown
  <2>3. PICK w \in words : TimeIn(r, w)
    BY <1>4, <2>2 DEF TimeOf, NoTime
  <2>4. PICK x \in words : PictureIn(r, x)
    BY <1>4, <2>2 DEF PictureOf, NoPicture
  <2>5. /\ t.hours \in Nat /\ t.minutes \in 0 .. 59 /\ t.seconds \in 0 .. 59
        /\ t.pictureNumber \in 0 .. 24
    BY <1>9, <2>3, <2>4 DEF TimeIn, PictureIn
  <2> QED BY <2>5, NumberGoesBack
<1>10. Unknown = V!Unknown
  BY DEF Unknown, V!Unknown
<1> HIDE DEF number, t
<1> QED BY <1>5, <1>7, <1>8, <1>9, <1>10 DEF TimecodesStayTogether, number, t, words

-----------------------------------------------------------------------------
(* The dropouts of a frame. *)

\* A line is the samples whose quotient it is.
LEMMA SamplesOfLine ==
  ASSUME NEW S \in Nat \ {0}, NEW z \in Int, NEW l \in Int
  PROVE  /\ z \div S \in Int
         /\ z \div S = l <=> S * l <= z /\ z < S * l + S
         /\ z \div S < l <=> z < S * l
<1> DEFINE q == z \div S
           r == z % S
           a == S * q
           b == S * l
<1>1. q \in Int /\ r \in 0 .. S - 1 /\ z = a + r
  BY Divided
<1>2. (q < l => a + S <= b) /\ (l < q => b + S <= a)
  BY <1>1, Scaled
<1>3. q = l => a = b
  OBVIOUS
<1>4. a \in Int /\ b \in Int
  BY <1>1
<1> HIDE DEF q, r, a, b
<1>5. (q = l <=> b <= z /\ z < b + S) /\ (q < l <=> z < b)
  BY <1>1, <1>2, <1>3, <1>4
<1> QED BY <1>1, <1>5 DEF q, b

\* The samples of a slice, as RunsCovered counts them.
SamplesOf(S, s) == {S * (2 * (s.line - 1) + s.field) + x : x \in s.startx .. (s.endx - 1)}
CoveredBy(S, list) == UNION {SamplesOf(S, list[i]) : i \in DOMAIN list}
RunSamples(run) == run.start .. (run.start + run.count - 1)

SliceOf(run, line, S) ==
  [field |-> line % 2, line |-> line \div 2 + 1, startx |-> D!sliceStart(run, line, S),
   endx |-> IF run.start + run.count < (line + 1) * S THEN run.start + run.count - line * S ELSE S]

\* The slice of a run on a line is the run's samples on that line.
LEMMA SliceIsTheLines ==
  ASSUME NEW S \in Nat \ {0}, NEW run, run.start \in Nat, run.count \in Int,
         NEW line \in Nat, line >= run.start \div S
  PROVE  SamplesOf(S, SliceOf(run, line, S)) = {z \in RunSamples(run) : z \div S = line}
<1> DEFINE s == SliceOf(run, line, S)
           start == run.start
           end == run.start + run.count
           first == start \div S
           base == S * line
<1>1. 2 * (s.line - 1) + s.field = line
  BY DEF SliceOf
<1>2. s.startx = IF line = first THEN start % S ELSE 0
  BY DEF SliceOf, D!sliceStart, D!firstLineOf
<1>3. (line + 1) * S = base + S /\ line * S = base /\ base \in Int
  OBVIOUS
<1>4. s.endx = IF end < base + S THEN end - base ELSE S
  BY <1>3 DEF SliceOf
<1>5. first \in Int /\ start % S \in 0 .. S - 1 /\ start = (S * first) + (start % S)
  <2>1. start \in Int
    OBVIOUS
  <2> HIDE DEF start
  <2> QED BY <2>1, Divided
<1>6. first < line => (S * first) + S <= base
  BY <1>5, Scaled
<1>7. SamplesOf(S, s) = {base + x : x \in s.startx .. (s.endx - 1)}
  BY <1>1 DEF SamplesOf
<1>8. \A z \in Int : z \div S = line <=> base <= z /\ z < base + S
  BY SamplesOfLine
<1>9. line = first => S * first = base
  OBVIOUS
<1> DEFINE rest == start % S
           foot == S * first
<1>10. s.startx \in Int /\ s.endx \in Int /\ end \in Int
  BY <1>2, <1>3, <1>4, <1>5
<1>11. /\ base + s.startx = IF line = first THEN start ELSE base
       /\ line # first => base > start
       /\ line = first => base <= start
  <2> HIDE DEF first, base
  <2>1. rest \in 0 .. S - 1 /\ foot \in Int /\ start = foot + rest /\ base \in Int
    BY <1>3, <1>5
  <2>2. (first < line => foot + S <= base) /\ (line = first => foot = base) /\ first <= line
    BY <1>6, <1>9 DEF first
  <2> HIDE DEF rest, foot, start, s
  <2>3. line # first => first < line
    BY <1>5, <2>2
  <2>4. s.startx = IF line = first THEN rest ELSE 0
    BY <1>2 DEF rest, start
  <2> QED BY <2>1, <2>2, <2>3, <2>4
<1> DEFINE lo == s.startx
           hi == s.endx
<1>12. ASSUME NEW z \in Int
       PROVE  z \in start .. (end - 1) /\ base <= z /\ z < base + S <=> base + lo <= z /\ z <= base + hi - 1
  <2>1. base + hi - 1 = IF end < base + S THEN end - 1 ELSE base + S - 1
    BY <1>3, <1>4, <1>10
  <2> HIDE DEF lo, hi, base, start, end, first
  <2>2. start \in Int /\ end \in Int /\ base \in Int
    BY <1>3, <1>10 DEF start
  <2>3. base + lo = (IF line = first THEN start ELSE base)
    BY <1>11 DEF lo
  <2> QED BY <1>11, <2>1, <2>2, <2>3
<1>13. ASSUME NEW z
       PROVE  z \in {base + x : x \in lo .. (hi - 1)}
                <=> z \in Int /\ base + lo <= z /\ z <= base + hi - 1
  <2> HIDE DEF base, lo, hi
  <2>1. base \in Int /\ lo \in Int /\ hi \in Int
    BY <1>3, <1>10 DEF lo, hi
  <2>2. ASSUME z \in Int, base + lo <= z, z <= base + hi - 1
        PROVE  z \in {base + x : x \in lo .. (hi - 1)}
    <3>1. z - base \in lo .. (hi - 1) /\ z = base + (z - base)
      BY <2>1, <2>2
    <3> QED BY <3>1
  <2> QED BY <2>1, <2>2
<1> HIDE DEF base, lo, hi
<1>14. ASSUME NEW z
       PROVE  z \in {base + x : x \in lo .. (hi - 1)} <=> z \in start .. (end - 1) /\ z \div S = line
  BY <1>8, <1>10, <1>12, <1>13
<1> QED BY <1>7, <1>14 DEF RunSamples, lo, hi

\* What is covered by two lists one after the other.
LEMMA CoveredTogether ==
  ASSUME NEW S, NEW a, NEW b, SequenceOf(a), SequenceOf(b)
  PROVE  SequenceOf(a \o b) /\ CoveredBy(S, a \o b) = CoveredBy(S, a) \cup CoveredBy(S, b)
<1> DEFINE R == {a[i] : i \in DOMAIN a} \cup {b[i] : i \in DOMAIN b}
           c == a \o b
           m == Len(a)
           n == Len(b)
<1>1. a \in Seq(R) /\ b \in Seq(R)
  <2>1. {a[i] : i \in DOMAIN a} \subseteq R /\ {b[i] : i \in DOMAIN b} \subseteq R
    OBVIOUS
  <2> QED BY <2>1, SeqMonotonic DEF SequenceOf
<1> HIDE DEF R
<1>2. /\ c \in Seq(R) /\ Len(c) = m + n
      /\ \A i \in 1 .. m + n : c[i] = IF i <= m THEN a[i] ELSE b[i - m]
  BY <1>1, ConcatProperties
<1> HIDE DEF c
<1>3. Len(c) \in Nat /\ DOMAIN c = 1 .. Len(c) /\ c = [i \in 1 .. Len(c) |-> c[i]]
  BY <1>2
<1>4. SequenceOf(c)
  BY <1>3, MakesSequence
<1>5. m \in Nat /\ n \in Nat /\ DOMAIN a = 1 .. m /\ DOMAIN b = 1 .. n
  BY SequencesAre
<1>6. ASSUME NEW i \in DOMAIN c
      PROVE  (\E j \in DOMAIN a : c[i] = a[j]) \/ (\E j \in DOMAIN b : c[i] = b[j])
  <2> HIDE DEF m, n
  <2>1. CASE i <= m
    BY <1>2, <1>3, <1>5, <2>1
  <2>2. CASE ~(i <= m)
    <3>1. i - m \in 1 .. n
      BY <1>2, <1>3, <1>5, <2>2
    <3> QED BY <1>2, <1>3, <1>5, <2>2, <3>1
  <2> QED BY <2>1, <2>2
<1>7. ASSUME NEW j \in DOMAIN a PROVE \E i \in DOMAIN c : c[i] = a[j]
  <2> HIDE DEF m, n
  <2>1. j \in 1 .. m + n /\ j <= m
    BY <1>5
  <2> QED BY <1>2, <1>3, <2>1
<1>8. ASSUME NEW j \in DOMAIN b PROVE \E i \in DOMAIN c : c[i] = b[j]
  <2> HIDE DEF m, n
  <2>1. j + m \in 1 .. m + n /\ ~(j + m <= m) /\ (j + m) - m = j
    BY <1>5
  <2> QED BY <1>2, <1>3, <2>1
<1>9. CoveredBy(S, c) = CoveredBy(S, a) \cup CoveredBy(S, b)
  <2> DEFINE A == {SamplesOf(S, a[i]) : i \in DOMAIN a}
             B == {SamplesOf(S, b[i]) : i \in DOMAIN b}
             C == {SamplesOf(S, c[i]) : i \in DOMAIN c}
  <2>1. C = A \cup B
    <3>1. ASSUME NEW x \in C PROVE x \in A \cup B
      BY <1>6
    <3>2. ASSUME NEW x \in A \cup B PROVE x \in C
      BY <1>7, <1>8
    <3> QED BY <3>1, <3>2
  <2> HIDE DEF A, B, C
  <2>2. UNION C = (UNION A) \cup (UNION B)
    BY <2>1
  <2> QED BY <2>2 DEF A, B, C, CoveredBy
<1> QED BY <1>4, <1>9 DEF c

\* A run sliced is its samples within the lines of two fields.
LEMMA RunIsSliced ==
  ASSUME NEW S \in Nat \ {0}, NEW L \in Nat \ {0}, NEW run, run.start \in Nat, run.count \in Nat \ {0}
  PROVE  LET list == D!sliceRunIntoFieldDropouts(run, S, L)
         IN  /\ SequenceOf(list)
             /\ CoveredBy(S, list) = RunSamples(run) \cap 0 .. (2 * L * S - 1)
<1> DEFINE first == run.start \div S
           final == run.start + run.count - 1
           last == final \div S
           most == 2 * L - 1
           kept == IF last \div 2 + 1 <= L THEN last ELSE 2 * L - 1
           size == kept - first + 1
           list == D!sliceRunIntoFieldDropouts(run, S, L)
<1>1. list = [i \in 1 .. size |-> SliceOf(run, first + i - 1, S)]
  BY DEF D!sliceRunIntoFieldDropouts, D!firstLineOf, D!lastLineOf, SliceOf
<1>2. first \in Nat
  <2>1. run.start \in Nat
    OBVIOUS
  <2> QED BY <2>1, Wholes
<1>3. final \in Nat /\ run.start <= final /\ RunSamples(run) = run.start .. final
  BY DEF RunSamples
<1>4. last \in Nat
  <2>1. final \in Nat
    BY <1>3
  <2> HIDE DEF final
  <2> QED BY <2>1, Wholes
<1> HIDE DEF first, last, list, final
<1>5. kept = (IF last <= most THEN last ELSE most) /\ kept \in Int /\ most \in Nat
  BY <1>4
<1> DEFINE h == 2 * L * S
<1>6. \A z \in Int : /\ z \div S \in Int
                     /\ z <= final => z \div S <= last
                     /\ z >= run.start => z \div S >= first
                     /\ z < h <=> z \div S <= most
  <2> SUFFICES ASSUME NEW z \in Int
               PROVE  /\ z \div S \in Int
                      /\ z <= final => z \div S <= last
                      /\ z >= run.start => z \div S >= first
                      /\ z < h <=> z \div S <= most
    OBVIOUS
  <2> DEFINE q == z \div S
  <2>1. q \in Int /\ (q < first <=> z < S * first)
    BY <1>2, SamplesOfLine
  <2>2. S * first <= run.start
    <3>1. run.start \in Int
      OBVIOUS
    <3> QED BY <1>2, <3>1, SamplesOfLine DEF first
  <2>3. q < last + 1 <=> z < S * (last + 1)
    BY <1>4, SamplesOfLine
  <2>4. final < S * (last + 1)
    <3>1. final < S * last + S
      BY <1>3, <1>4, SamplesOfLine DEF last
    <3>2. S * (last + 1) = S * last + S
      BY <1>4
    <3> QED BY <3>1, <3>2
  <2>5. q < 2 * L <=> z < S * (2 * L)
    <3>1. 2 * L \in Int
      OBVIOUS
    <3> QED BY <3>1, SamplesOfLine
  <2>6. S * (2 * L) = 2 * L * S
    OBVIOUS
  <2>7. S * first \in Int /\ S * (last + 1) \in Int /\ run.start \in Int /\ 2 * L * S \in Int
    BY <1>2, <1>4
  <2>8. q <= most <=> q < 2 * L
    BY <2>1
  <2> DEFINE f == S * first
             g == S * (last + 1)
  <2>9. /\ z <= final => q <= last
        /\ z >= run.start => q >= first
        /\ z < h <=> q <= most
    <3> HIDE DEF q, f, g, most, h
    <3> QED BY <1>2, <1>3, <1>4, <2>1, <2>2, <2>3, <2>4, <2>5, <2>6, <2>7, <2>8 DEF f, g, h
  <2> QED BY <2>1, <2>9
<1>6a. h \in Int
  OBVIOUS
<1> HIDE DEF kept, most, h
<1>7. ASSUME NEW i \in 1 .. size
      PROVE  SamplesOf(S, list[i]) = {z \in RunSamples(run) : z \div S = first + i - 1}
  <2>1. first + i - 1 \in Nat /\ first + i - 1 >= first
    BY <1>2
  <2>2. list[i] = SliceOf(run, first + i - 1, S)
    BY <1>1
  <2> QED BY <2>1, <2>2, SliceIsTheLines DEF first
<1>8. size \in Int
  BY <1>2, <1>5
<1> HIDE DEF size
<1>9. CoveredBy(S, list) = RunSamples(run) \cap 0 .. (h - 1)
  <2>1. CoveredBy(S, list) = UNION {{z \in RunSamples(run) : z \div S = first + i - 1} : i \in 1 .. size}
    <3>1. DOMAIN list = 1 .. size
      BY <1>1
    <3> QED BY <1>7, <3>1 DEF CoveredBy
  <2>2. ASSUME NEW z, NEW i \in 1 .. size, z \in RunSamples(run), z \div S = first + i - 1
        PROVE  z \in 0 .. (h - 1)
    <3>1. z \in Nat
      BY <1>3, <2>2
    <3>2. z \div S <= most
      BY <1>2, <1>4, <1>5, <2>2 DEF size
    <3>3. z < h
      BY <1>6, <3>1, <3>2
    <3> QED BY <1>6a, <3>1, <3>3
  <2>3. ASSUME NEW z \in RunSamples(run), z \in 0 .. (h - 1)
        PROVE  \E i \in 1 .. size : z \div S = first + i - 1
    <3>1. z \in Int /\ run.start <= z /\ z <= final
      BY <1>3, <2>3
    <3>2. z < h
      BY <1>6a, <2>3, <3>1
    <3> DEFINE q == z \div S
    <3>3. q \in Int /\ first <= q /\ q <= last /\ q <= most
      BY <1>6, <3>1, <3>2
    <3> HIDE DEF q
    <3>4. q - first + 1 \in 1 .. size /\ q = first + (q - first + 1) - 1
      BY <1>2, <1>4, <1>5, <3>3 DEF size
    <3> QED BY <3>4 DEF q
  <2> QED BY <2>1, <2>2, <2>3
<1>10. SequenceOf(list)
  <2> DEFINE n == IF size \in Nat THEN size ELSE 0
  <2>1. n \in Nat /\ 1 .. size = 1 .. n
    BY <1>8
  <2> HIDE DEF n
  <2>2. DOMAIN list = 1 .. n /\ list = [i \in 1 .. n |-> list[i]]
    BY <1>1, <2>1
  <2> QED BY <2>1, <2>2, MakesSequence
<1> QED BY <1>9, <1>10 DEF list, h

\* f holds the dropouts of the first i runs, but those passed over.
IsUpTo(f, runs, passed, n, S, L) ==
  f = [i \in 0 .. n |-> IF i = 0 THEN <<>>
                        ELSE IF i \in passed THEN f[i - 1]
                        ELSE f[i - 1] \o D!sliceRunIntoFieldDropouts(runs[i], S, L)]

\* The dropouts of the runs before each place, by those before the one before.
LEMMA SlicesExist ==
  ASSUME NEW runs, NEW passed, NEW n \in Nat, NEW S, NEW L
  PROVE  \E f : IsUpTo(f, runs, passed, n, S, L)
<1> DEFINE slices == [i \in 1 .. n |-> D!sliceRunIntoFieldDropouts(runs[i], S, L)]
<1> DEFINE Step(i, before) == IF i \in passed THEN before ELSE before \o slices[i]
           Lists(m, s) == s = [i \in 0 .. m |-> IF i = 0 THEN <<>> ELSE Step(i, s[i - 1])]
           Bad == {m \in Nat : ~\E s : Lists(m, s)}
<1>1. \E s : Lists(0, s)
  <2> DEFINE s == [i \in 0 .. 0 |-> <<>>]
  <2>1. Lists(0, s)
    OBVIOUS
  <2> QED BY <2>1
<1>2. ASSUME NEW m \in Nat, NEW s, Lists(m, s) PROVE \E t : Lists(m + 1, t)
  <2> HIDE DEF Step
  <2> DEFINE t == [i \in 0 .. (m + 1) |-> IF i = 0 THEN <<>> ELSE Step(i, s[i - 1])]
  <2>1. ASSUME NEW i \in 0 .. m PROVE t[i] = s[i]
    BY <1>2
  <2>2. ASSUME NEW i \in 0 .. (m + 1) PROVE t[i] = IF i = 0 THEN <<>> ELSE Step(i, t[i - 1])
    <3>1. CASE i = 0
      BY <3>1
    <3>2. CASE i # 0
      <4>1. i - 1 \in 0 .. m
        BY <3>2
      <4> QED BY <2>1, <3>2, <4>1
    <3> QED BY <3>1, <3>2
  <2>3. t = [i \in 0 .. (m + 1) |-> t[i]]
    OBVIOUS
  <2>4. Lists(m + 1, t)
    <3> HIDE DEF t
    <3> QED BY <2>2, <2>3
  <2> QED BY <2>4
<1>3. Bad = {}
  <2> SUFFICES ASSUME Bad # {} PROVE FALSE
    OBVIOUS
  <2> HIDE DEF Lists
  <2>1. PICK m \in Bad : \A k \in Bad : m <= k
    <3>1. Bad \in SUBSET Nat
      OBVIOUS
    <3> HIDE DEF Bad
    <3> QED BY <3>1, LeastExists
  <2>2. m # 0
    BY <1>1
  <2>3. m - 1 \in Nat /\ m - 1 \notin Bad
    <3> HIDE DEF Bad
    <3>1. m \in Nat
      BY <2>1 DEF Bad
    <3> QED BY <2>1, <2>2, <3>1
  <2>4. \E s : Lists(m - 1, s)
    BY <2>3
  <2>5. (m - 1) + 1 = m
    BY <2>3
  <2>6. \E t : Lists(m, t)
    BY <1>2, <2>3, <2>4, <2>5
  <2> QED BY <2>1, <2>6
<1> HIDE DEF Lists
<1>4. PICK s : Lists(n, s)
  BY <1>3
<1>5. s = [i \in 0 .. n |-> IF i = 0 THEN <<>> ELSE Step(i, s[i - 1])]
  BY <1>4 DEF Lists
<1>6. \A i \in 0 .. n : i # 0 => slices[i] = D!sliceRunIntoFieldDropouts(runs[i], S, L)
  <2>1. \A i \in 0 .. n : i # 0 => i \in 1 .. n
    OBVIOUS
  <2> QED BY <2>1
<1> HIDE DEF slices
<1>7. IsUpTo(s, runs, passed, n, S, L)
  BY <1>5, <1>6 DEF IsUpTo
<1> QED BY <1>7

\* The samples of the first i runs that are a frame's.
RunsTo(runs, frame, i) == {k \in 1 .. i : runs[k].frame = frame /\ runs[k].start >= 0}
SamplesTo(runs, frame, i) == UNION {RunSamples(runs[k]) : k \in RunsTo(runs, frame, i)}

LEMMA OneMoreRun ==
  ASSUME NEW runs, NEW frame, NEW i \in Nat \ {0}
  PROVE  SamplesTo(runs, frame, i)
           = SamplesTo(runs, frame, i - 1)
               \cup (IF runs[i].frame = frame /\ runs[i].start >= 0 THEN RunSamples(runs[i]) ELSE {})
<1>1. 1 .. i = (1 .. (i - 1)) \cup {i}
  OBVIOUS
<1>2. RunsTo(runs, frame, i)
        = RunsTo(runs, frame, i - 1) \cup (IF runs[i].frame = frame /\ runs[i].start >= 0 THEN {i} ELSE {})
  BY <1>1 DEF RunsTo
<1> QED BY <1>2 DEF SamplesTo

AllCovered(f, runs, frame, n, S, L) ==
  CoveredBy(S, f[n]) = SamplesTo(runs, frame, n) \cap 0 .. (2 * L * S - 1)
AllInt(runs, n) == \A i \in 1 .. n : runs[i].start \in Int /\ runs[i].count \in Int
PassesOver(passed, runs, frame, n) ==
  \A i \in 1 .. n : i \in passed <=> \/ ~(runs[i].count > 0 /\ runs[i].start >= 0)
                                     \/ runs[i].frame # frame

\* Whatever the runs of a frame are, its dropouts cover their samples in it.
LEMMA FrameCovered ==
  ASSUME NEW S \in Nat \ {0}, NEW L \in Nat \ {0}, NEW runs, NEW frame, NEW n \in Nat, NEW passed, NEW f,
         AllInt(runs, n), PassesOver(passed, runs, frame, n), IsUpTo(f, runs, passed, n, S, L)
  PROVE  AllCovered(f, runs, frame, n, S, L)
<1> DEFINE seen == 0 .. (2 * L * S - 1)
           Fine(i) == SequenceOf(f[i]) /\ CoveredBy(S, f[i]) = SamplesTo(runs, frame, i) \cap seen
           Bad == {i \in 0 .. n : ~Fine(i)}
<1>1. Fine(0)
  <2>1. f[0] = <<>>
    BY DEF IsUpTo
  <2>2. SequenceOf(<<>>) /\ CoveredBy(S, <<>>) = {}
    BY DEF SequenceOf, CoveredBy
  <2>3. SamplesTo(runs, frame, 0) = {}
    BY DEF SamplesTo, RunsTo
  <2> QED BY <2>1, <2>2, <2>3
<1>2. ASSUME NEW i \in 1 .. n, Fine(i - 1) PROVE Fine(i)
  <2> DEFINE run == runs[i]
             list == D!sliceRunIntoFieldDropouts(run, S, L)
             mine == run.frame = frame /\ run.start >= 0
  <2>1. f[i] = IF i \in passed THEN f[i - 1] ELSE f[i - 1] \o list
    <3>1. i \in 0 .. n /\ i # 0
      OBVIOUS
    <3> HIDE DEF list
    <3> QED BY <3>1 DEF list, IsUpTo
  <2>2. SamplesTo(runs, frame, i)
          = SamplesTo(runs, frame, i - 1) \cup (IF mine THEN RunSamples(run) ELSE {})
    <3>1. i \in Nat \ {0}
      OBVIOUS
    <3> HIDE DEF Fine
    <3> QED BY <3>1, OneMoreRun
  <2>3. CASE i \in passed
    <3>1. mine => RunSamples(run) = {}
      BY <2>3 DEF RunSamples, AllInt, PassesOver
    <3>2. SamplesTo(runs, frame, i) = SamplesTo(runs, frame, i - 1)
      BY <2>2, <3>1
    <3> QED BY <1>2, <2>1, <2>3, <3>2
  <2>4. CASE i \notin passed
    <3>1. mine /\ run.start \in Nat /\ run.count \in Nat \ {0}
      BY <2>4 DEF AllInt, PassesOver
    <3>2. SequenceOf(list) /\ CoveredBy(S, list) = RunSamples(run) \cap seen
      BY <3>1, RunIsSliced
    <3>3. f[i] = f[i - 1] \o list
      BY <2>1, <2>4
    <3> HIDE DEF list, seen, mine, run
    <3>4. /\ SequenceOf(f[i])
          /\ CoveredBy(S, f[i]) = CoveredBy(S, f[i - 1]) \cup CoveredBy(S, list)
      <4> DEFINE a == f[i - 1]
      <4>1. SequenceOf(a)
        BY <1>2
      <4> HIDE DEF a
      <4>2. SequenceOf(a \o list) /\ CoveredBy(S, a \o list) = CoveredBy(S, a) \cup CoveredBy(S, list)
        BY <3>2, <4>1, CoveredTogether
      <4> QED BY <3>3, <4>2 DEF a
    <3>5. SamplesTo(runs, frame, i) = SamplesTo(runs, frame, i - 1) \cup RunSamples(run)
      BY <2>2, <3>1
    <3> QED BY <1>2, <3>2, <3>4, <3>5
  <2> QED BY <2>3, <2>4
<1> HIDE DEF Fine
<1>3. Bad = {}
  <2> SUFFICES ASSUME Bad # {} PROVE FALSE
    OBVIOUS
  <2>1. PICK i \in Bad : \A k \in Bad : i <= k
    <3>1. Bad \in SUBSET Nat
      OBVIOUS
    <3> HIDE DEF Bad
    <3> QED BY <3>1, LeastExists
  <2>2. i \in 1 .. n
    BY <1>1
  <2>3. i - 1 \in 0 .. n /\ i - 1 \notin Bad
    <3> HIDE DEF Bad
    <3> QED BY <2>1, <2>2
  <2> QED BY <1>2, <2>1, <2>2, <2>3
<1>4. Fine(n)
  BY <1>3
<1> QED BY <1>4 DEF Fine, AllCovered

\* What a dropout table is read as is what its runs say.
LEMMA DropoutsDecoded ==
  ASSUME NEW table \in DropoutTables, ReadDropouts(table)
  PROVE  RunsCovered'
<1> DEFINE S == SamplesPerLine
           L == LinesPerField
           runs == table.runs
           n == Len(runs)
           kept == {i \in DOMAIN runs : runs[i].count > 0 /\ runs[i].start >= 0}
           result == D!readCvbsDropoutsExtension(table, S, L)
<1>1. S \in Nat \ {0} /\ L \in Nat \ {0}
  BY TablesAssumption
<1>2. /\ SequenceOf(runs)
      /\ \A i \in DOMAIN runs : runs[i].start \in Int /\ runs[i].count \in Int
  BY TablesAssumption
<1>3. n \in Nat /\ DOMAIN runs = 1 .. n
  BY <1>2, SequencesAre
<1>4. query' = [kind |-> "dropouts", table |-> table, result |-> result]
  BY DEF ReadDropouts
<1> DEFINE Passed(frame) == {i \in 1 .. n : i \notin kept \/ runs[i].frame # frame}
           UpTo(frame) == CHOOSE g : g = [i \in 0 .. n |->
                             IF i = 0 THEN <<>>
                             ELSE IF i \notin kept \/ runs[i].frame # frame THEN g[i - 1]
                             ELSE g[i - 1] \o D!sliceRunIntoFieldDropouts(runs[i], S, L)]
           frames == [frame \in {runs[i].frame : i \in kept} |-> UpTo(frame)[n]]
           ok == table.version = D!ExpectedVersion
<1>5. result = [ok |-> ok, frames |-> IF ok THEN frames ELSE <<>>]
  BY DEF D!readCvbsDropoutsExtension
<1>6. ASSUME NEW frame
      PROVE  CoveredBy(S, UpTo(frame)[n]) = SamplesTo(runs, frame, n) \cap 0 .. (2 * L * S - 1)
  <2> DEFINE f == UpTo(frame)
             passed == Passed(frame)
             Is(g) == g = [i \in 0 .. n |->
                             IF i = 0 THEN <<>>
                             ELSE IF i \notin kept \/ runs[i].frame # frame THEN g[i - 1]
                             ELSE g[i - 1] \o D!sliceRunIntoFieldDropouts(runs[i], S, L)]
  <2>1. ASSUME NEW g PROVE Is(g) <=> IsUpTo(g, runs, passed, n, S, L)
    <3>1. \A i \in 0 .. n : i # 0 => (i \in passed <=> i \notin kept \/ runs[i].frame # frame)
      <4>1. \A i \in 0 .. n : i # 0 => i \in 1 .. n
        BY <1>3
      <4> HIDE DEF kept, n
      <4> QED BY <4>1
    <3> HIDE DEF passed, kept, n
    <3> QED BY <3>1 DEF IsUpTo
  <2>2. \E g : Is(g)
    <3> HIDE DEF passed, Is, n, runs, S, L
    <3> QED BY <1>3, <2>1, SlicesExist
  <2>3. Is(f)
    <3>1. f = CHOOSE g : Is(g)
      OBVIOUS
    <3> HIDE DEF Is, f
    <3> QED BY <2>2, <3>1
  <2>4. IsUpTo(f, runs, passed, n, S, L)
    <3> HIDE DEF Is, f, passed, n, runs, S, L
    <3> QED BY <2>1, <2>3
  <2>5. PassesOver(passed, runs, frame, n)
    BY <1>3 DEF PassesOver
  <2> HIDE DEF f, passed, runs, n, S, L
  <2>6. AllInt(runs, n)
    BY <1>2, <1>3 DEF AllInt
  <2>7. AllCovered(f, runs, frame, n, S, L)
    BY <1>1, <1>3, <2>4, <2>5, <2>6, FrameCovered
  <2> QED BY <2>7 DEF f, AllCovered
<1> HIDE DEF UpTo, result
<1> SUFFICES ASSUME result.ok, NEW frame \in DOMAIN result.frames
             PROVE  LET list == result.frames[frame]
                        Damaged(s) == {S * (2 * (s.line - 1) + s.field) + x : x \in s.startx .. (s.endx - 1)}
                        every == {runs[i] : i \in DOMAIN runs}
                        mine == {r \in every : r.frame = frame /\ r.start >= 0}
                    IN  UNION {Damaged(list[i]) : i \in DOMAIN list}
                          = (UNION {r.start .. (r.start + r.count - 1) : r \in mine})
                                \cap 0 .. (2 * L * S - 1)
  BY <1>4 DEF RunsCovered
<1> DEFINE list == result.frames[frame]
           every == {runs[i] : i \in DOMAIN runs}
           mine == {r \in every : r.frame = frame /\ r.start >= 0}
<1>7. list = UpTo(frame)[n]
  BY <1>5
<1>8. UNION {r.start .. (r.start + r.count - 1) : r \in mine} = SamplesTo(runs, frame, n)
  BY <1>3 DEF SamplesTo, RunsTo, RunSamples
<1>9. UNION {{S * (2 * (list[i].line - 1) + list[i].field) + x :
                  x \in list[i].startx .. (list[i].endx - 1)} : i \in DOMAIN list}
        = CoveredBy(S, list)
  BY DEF CoveredBy, SamplesOf
<1> HIDE DEF list, mine, every, S, L, runs, n
<1>10. CoveredBy(S, list)
         = (UNION {r.start .. (r.start + r.count - 1) : r \in mine}) \cap 0 .. (2 * L * S - 1)
  BY <1>6, <1>7, <1>8
<1> QED BY <1>9, <1>10 DEF list, mine, every

-----------------------------------------------------------------------------
(* Together. *)

OpeningInv == LinesInv /\ AudioSpansTile /\ VideoRight /\ TimecodesStayTogether /\ RunsCovered

LEMMA OpeningInitially == OpeningInit => OpeningInv
<1> SUFFICES ASSUME OpeningInit PROVE OpeningInv
  OBVIOUS
<1>1. LinesInv
  BY InitialLines DEF OpeningInit
<1>2. AudioSpansTile
  <2>1. audio = NoAudio
    BY DEF OpeningInit, Init
  <2>2. Len(audio.start) = 0
    BY <2>1, EmptySeq DEF NoAudio
  <2> QED BY <2>2 DEF AudioSpansTile
<1>3. VideoRight /\ TimecodesStayTogether /\ RunsCovered
  BY DEF OpeningInit, VideoRight, TimecodesStayTogether, RunsCovered, NoQuery
<1> QED BY <1>1, <1>2, <1>3 DEF OpeningInv

\* One lemma for each of the things a step may do: the sidecar, the video or the
\* query, the others left alone.
LEMMA OpeningSteps ==
  ASSUME OpeningInv, [OpeningNext]_allVars
  PROVE  OpeningInv'
<1>1. ASSUME UNCHANGED video PROVE VideoRight'
  BY <1>1 DEF OpeningInv, VideoRight
<1>2. ASSUME UNCHANGED query PROVE TimecodesStayTogether' /\ RunsCovered'
  <2>1. query' = query
    BY <1>2
  <2>2. TimecodesStayTogether'
    BY <2>1 DEF OpeningInv, TimecodesStayTogether
  <2>3. RunsCovered'
    BY <2>1 DEF OpeningInv, RunsCovered
  <2> QED BY <2>2, <2>3
<1>3. ASSUME [Next]_vars PROVE LinesInv' /\ AudioSpansTile'
  BY <1>3, LinesStay, AudioStays DEF OpeningInv
<1>4. CASE UNCHANGED allVars
  BY <1>1, <1>2, <1>3, <1>4 DEF allVars, OpeningInv
<1>5. CASE NextSidecar
  BY <1>1, <1>2, <1>3, <1>5 DEF NextSidecar, OpeningInv
<1>6. CASE NextOpening \/ NextExtra
  <2>1. UNCHANGED <<vars, query>>
    BY <1>6 DEF NextOpening, NextExtra
  <2>2. FileKnown(file) /\ VideoRight
    BY DEF OpeningInv, LinesInv
  <2>3. VideoRight'
    BY <1>6, <2>2, VideoStaysRight
  <2> QED BY <1>2, <1>3, <2>1, <2>3 DEF OpeningInv
<1>7. CASE NextQuery
  <2>1. UNCHANGED <<vars, video>>
    BY <1>7 DEF NextQuery
  <2>2. TimecodesStayTogether' /\ RunsCovered'
    <3>1. ASSUME NEW first \in WordTriples, NEW second \in WordTriples, DecodeVbi(first, second)
          PROVE  TimecodesStayTogether' /\ RunsCovered'
      <4>1. query'.kind = "vbi"
        BY <3>1 DEF DecodeVbi
      <4> QED BY <3>1, <4>1, VbiDecoded DEF RunsCovered
    <3>2. ASSUME NEW table \in DropoutTables, ReadDropouts(table)
          PROVE  TimecodesStayTogether' /\ RunsCovered'
      <4>1. query'.kind = "dropouts"
        BY <3>2 DEF ReadDropouts
      <4> QED BY <3>2, <4>1, DropoutsDecoded DEF TimecodesStayTogether
    <3> QED BY <1>7, <3>1, <3>2 DEF NextQuery
  <2> QED BY <1>1, <1>3, <2>1, <2>2 DEF OpeningInv
<1> QED BY <1>4, <1>5, <1>6, <1>7 DEF OpeningNext

LEMMA OpeningInvariant == OpeningSpec => []OpeningInv
BY OpeningInitially, OpeningSteps, PTL DEF OpeningSpec

\* However a capture is opened, re-declared and added to, for any captures, sidecars
\* and overrides: its source and its metadata tell the decoders the same system and
\* active lines of it, a row begins where the standard's numbering says, and black and
\* neutral are the same canonical samples from every encoding.
THEOREM SourcesDescribed == OpeningSpec => []SourcesAreAsDescribed
<1>1. OpeningInv => SourcesAreAsDescribed
  BY LinesAreUsable, RightIsDescribed DEF OpeningInv, SourcesAreAsDescribed
<1> QED BY <1>1, OpeningInvariant, PTL

\* The place in the colour sequence measured for a field with no sidecar to say it is
\* the true one or unknown, whatever bursts the rows of the file carry, as long as
\* fewer than three in four of a field's are wrong.
THEOREM PhasesAreTrue == OpeningSpec => []MeasuredPhaseIsTrue
<1>1. OpeningInv => MeasuredPhaseIsTrue
  BY RightIsDescribed DEF OpeningInv
<1> QED BY <1>1, OpeningInvariant, PTL

\* What is decoded out of a sidecar is what it says: a time code is made of whole
\* words, the dropouts of a frame are the samples of its runs, and the audio of the
\* fields leaves no gap; for any words, tables, widths, heights and files.
THEOREM StoredIsDecoded == OpeningSpec => []DecodedAsStored
<1>1. OpeningInv => DecodedAsStored
  BY DEF OpeningInv, DecodedAsStored
<1> QED BY <1>1, OpeningInvariant, PTL
=============================================================================
