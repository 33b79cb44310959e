------------------------ MODULE BindingCommandsProofs ------------------------
(***************************************************************************)
(* The commands about bindings.  Nothing becomes verified on its way from  *)
(* a contributor or the extractor to the game that nobody has seen to      *)
(* agree with the binary: commands write back what they read some time     *)
(* ago, so that what is true of the files has to be true of every entry in *)
(* somebody's hands.  Extraction says what it read, the headers of the SDK *)
(* are those of one build, and a signature finds its function again while  *)
(* what it keeps of the instructions holds still.                          *)
(***************************************************************************)
EXTENDS BindingCatalog, CatalogExtraction, Surface, ByteSignatures, SequenceLemmas, SequenceTheorems
------------------------------------------------------------------------------
(* The binding catalog *)

(* Of every offset that an entry calls verified, C knows a check. *)
KnownTo(e, C) ==
  \A p \in Pairs : e.offsets[p].verified =>
    [pair |-> p, symbol |-> e.symbol, signature |-> e.signature, rva |-> e.offsets[p].rva] \in C

Known == {e \in CatalogEntry : KnownTo(e, SeenOrCrossed)}

ExtractionWasSeen ==
  extraction.offset.verified =>
    [pair |-> extraction.pair, symbol |-> extraction.symbol,
     signature |-> extraction.signature, rva |-> extraction.offset.rva] \in checks

ChecksAreKept ==
  /\ \A s \in Stems : files[s].entry \in Known
  /\ \A c \in Contributors : work[c].file.entry \in Known
  /\ generator.entries \in Seq(Known)
  /\ extraction.text.entry \in Known /\ ExtractionWasSeen

Catalog == BindingTypeOK /\ ChecksAreKept /\ PbindsHoldWhatWasChecked /\ CrossedWasSeen

(* What the commands do to an entry *)

LEMMA RvaSets == Sentinel \in Rvas /\ NoRva \in Rvas /\ 0 \in Rvas /\ Addresses \subseteq Rvas
BY BindingRecordsAssumption DEF Rvas, NoRva, Sentinel, Addresses

LEMMA NobodyKnows == NoProvenance \in Provenance /\ NoOffset \in Offset /\ SentinelOffset \in Offset
<1>1. NoProvenance \in Provenance
  BY DEF NoProvenance, Provenance
<1>2. NoOffset \in Offset /\ NoOffset.verified = FALSE
  BY <1>1, RvaSets DEF NoOffset, Offset
<1>3. SentinelOffset \in Offset
  BY <1>2 DEF SentinelOffset, Offset
<1> QED
  BY <1>1, <1>2, <1>3

LEMMA EntryParts ==
  ASSUME NEW e \in CatalogEntry
  PROVE  /\ e.symbol \in Symbols /\ e.signature \in Signatures /\ e.offsets \in [Pairs -> Offset]
         /\ e = [symbol |-> e.symbol, signature |-> e.signature, offsets |-> e.offsets]
BY DEF CatalogEntry

LEMMA SentinelsAreKnown ==
  ASSUME NEW C, NEW s \in Symbols, NEW g \in Signatures, NEW ps
  PROVE  /\ BuildSentinelEntry(s, g, ps) \in CatalogEntry
         /\ KnownTo(BuildSentinelEntry(s, g, ps), C)
<1> DEFINE o == [p \in Pairs |-> IF p \in ps THEN SentinelOffset ELSE NoOffset]
<1>1. o \in [Pairs -> Offset]
  BY NobodyKnows
<1>2. \A p \in Pairs : ~o[p].verified
  BY DEF SentinelOffset, NoOffset
<1> HIDE DEF o
<1>3. BuildSentinelEntry(s, g, ps) = [symbol |-> s, signature |-> g, offsets |-> o]
  BY DEF BuildSentinelEntry, o
<1> QED
  BY <1>1, <1>2, <1>3 DEF CatalogEntry, KnownTo

LEMMA SomeEntryIsKnown ==
  ASSUME NEW C
  PROVE  SomeEntry \in CatalogEntry /\ KnownTo(SomeEntry, C)
<1>1. (CHOOSE s \in Symbols : TRUE) \in Symbols /\ (CHOOSE g \in Signatures : TRUE) \in Signatures
  BY BindingCatalogAssumption
<1> QED
  BY <1>1, SentinelsAreKnown DEF SomeEntry

LEMMA RawIsKnown ==
  ASSUME NEW C, NEW e \in CatalogEntry
  PROVE  /\ EntryFromRaw(e) \in CatalogEntry
         /\ EntryFromRaw(e).symbol = e.symbol /\ EntryFromRaw(e).signature = e.signature
         /\ KnownTo(e, C) => KnownTo(EntryFromRaw(e), C)
<1> DEFINE o == [p \in Pairs |->
                   [e.offsets[p] EXCEPT !.verified = e.offsets[p].verified /\ e.offsets[p].rva # NoRva]]
<1>1. e.symbol \in Symbols /\ e.signature \in Signatures /\ e.offsets \in [Pairs -> Offset]
  BY EntryParts
<1>2. ASSUME NEW p \in Pairs
      PROVE  o[p] \in Offset /\ o[p].rva = e.offsets[p].rva
             /\ (o[p].verified => e.offsets[p].verified)
  <2> DEFINE x == e.offsets[p]
             v == x.verified /\ x.rva # NoRva
  <2>1. x \in Offset
    BY <1>1
  <2>2. v \in BOOLEAN /\ o[p] = [x EXCEPT !.verified = v]
    OBVIOUS
  <2> HIDE DEF x, v
  <2>3. [x EXCEPT !.verified = v] \in Offset /\ [x EXCEPT !.verified = v].rva = x.rva
        /\ [x EXCEPT !.verified = v].verified = v
    BY <2>1, <2>2 DEF Offset
  <2>4. v => x.verified
    BY DEF v
  <2> QED
    BY <2>2, <2>3, <2>4 DEF x
<1>3. EntryFromRaw(e) = [e EXCEPT !.offsets = o]
  BY DEF EntryFromRaw
<1>4. o \in [Pairs -> Offset]
  BY <1>2
<1> HIDE DEF o
<1>5. [e EXCEPT !.offsets = o] = [symbol |-> e.symbol, signature |-> e.signature, offsets |-> o]
  BY DEF CatalogEntry
<1> QED
  BY <1>1, <1>2, <1>3, <1>4, <1>5 DEF CatalogEntry, KnownTo

LEMMA WithOffsetIsKnown ==
  ASSUME NEW C, NEW e \in CatalogEntry, KnownTo(e, C), NEW q \in Pairs, NEW a \in Rvas,
         NEW c \in Contributors
  PROVE  WithOffset(e, q, a, c) \in CatalogEntry /\ KnownTo(WithOffset(e, q, a, c), C)
<1> DEFINE new == [registered |-> TRUE, rva |-> a, verified |-> FALSE,
                   provenance |-> [NoProvenance EXCEPT !.source = c]]
           o == [e.offsets EXCEPT ![q] = new]
<1>1. e.symbol \in Symbols /\ e.signature \in Signatures /\ e.offsets \in [Pairs -> Offset]
  BY EntryParts
<1>2. [NoProvenance EXCEPT !.source = c] \in Provenance
  BY NobodyKnows DEF Provenance
<1>3. new \in Offset /\ ~new.verified
  BY <1>2 DEF Offset
<1>4. WithOffset(e, q, a, c) = [symbol |-> e.symbol, signature |-> e.signature, offsets |-> o]
  <2>1. WithOffset(e, q, a, c) = [e EXCEPT !.offsets[q] = new]
    BY DEF WithOffset
  <2> HIDE DEF new
  <2>2. [e EXCEPT !.offsets[q] = new] =
          [symbol |-> e.symbol, signature |-> e.signature, offsets |-> o]
    BY DEF CatalogEntry
  <2> QED
    BY <2>1, <2>2
<1> HIDE DEF new
<1>5. /\ o \in [Pairs -> Offset] /\ o[q] = new
      /\ \A p \in Pairs : p # q => o[p] = e.offsets[p]
  BY <1>1, <1>3
<1> HIDE DEF o
<1> QED
  BY <1>1, <1>3, <1>4, <1>5 DEF CatalogEntry, KnownTo

LEMMA WithSignatureIsKnown ==
  ASSUME NEW C, NEW e \in CatalogEntry, NEW g \in Signatures
  PROVE  WithSignature(e, g) \in CatalogEntry /\ KnownTo(WithSignature(e, g), C)
<1> DEFINE Cleared(x) == [x EXCEPT !.verified = FALSE, !.provenance.crossCheck = FALSE,
                                   !.provenance.prologue = FALSE]
           o == [p \in Pairs |-> Cleared(e.offsets[p])]
<1>1. e.symbol \in Symbols /\ e.signature \in Signatures /\ e.offsets \in [Pairs -> Offset]
  BY EntryParts
<1>2. ASSUME NEW x \in Offset PROVE Cleared(x) \in Offset /\ ~Cleared(x).verified
  <2>1. x.provenance \in Provenance
    BY DEF Offset
  <2> DEFINE y == [x EXCEPT !.verified = FALSE]
             z == [y EXCEPT !.provenance.crossCheck = FALSE]
  <2>2. y \in Offset /\ ~y.verified
    BY DEF Offset
  <2>3. Cleared(x) = [z EXCEPT !.provenance.prologue = FALSE]
    BY DEF Offset, Provenance
  <2> HIDE DEF y
  <2>4. z \in Offset /\ ~z.verified
    BY <2>2 DEF Offset, Provenance
  <2> HIDE DEF z
  <2>5. /\ [z EXCEPT !.provenance.prologue = FALSE] \in Offset
        /\ ~[z EXCEPT !.provenance.prologue = FALSE].verified
    BY <2>4 DEF Offset, Provenance
  <2> QED
    BY <2>3, <2>5
<1> HIDE DEF Cleared
<1>3. o \in [Pairs -> Offset] /\ \A p \in Pairs : ~o[p].verified
  BY <1>1, <1>2
<1>4. WithSignature(e, g) = [symbol |-> e.symbol, signature |-> g, offsets |-> o]
  BY DEF WithSignature, Cleared
<1> HIDE DEF o
<1> QED
  BY <1>1, <1>3, <1>4 DEF CatalogEntry, KnownTo

(* An offset put into an entry, known if the offset is. *)
LEMMA WithOffsetPut ==
  ASSUME NEW C, NEW e \in CatalogEntry, KnownTo(e, C), NEW q \in Pairs, NEW o \in Offset,
         o.verified =>
           [pair |-> q, symbol |-> e.symbol, signature |-> e.signature, rva |-> o.rva] \in C
  PROVE  [e EXCEPT !.offsets[q] = o] \in CatalogEntry /\ KnownTo([e EXCEPT !.offsets[q] = o], C)
<1> DEFINE os == [e.offsets EXCEPT ![q] = o]
<1>1. e.symbol \in Symbols /\ e.signature \in Signatures /\ e.offsets \in [Pairs -> Offset]
  BY EntryParts
<1>2. [e EXCEPT !.offsets[q] = o] = [symbol |-> e.symbol, signature |-> e.signature, offsets |-> os]
  BY DEF CatalogEntry
<1>3. os \in [Pairs -> Offset] /\ os[q] = o /\ \A p \in Pairs : p # q => os[p] = e.offsets[p]
  BY <1>1
<1> HIDE DEF os
<1> QED
  BY <1>1, <1>2, <1>3 DEF CatalogEntry, KnownTo

LEMMA DerivedIsOffset ==
  ASSUME NEW a \in Rvas, NEW ok \in BOOLEAN, NEW x \in BOOLEAN
  PROVE  DerivedOffset(a, ok, x) \in Offset
<1> DEFINE v == ok /\ a # 0
           pr == [source |-> "nobody", crossCheck |-> x, prologue |-> TRUE]
           d == [registered |-> TRUE, rva |-> a, verified |-> v, provenance |-> pr]
<1>1. v \in BOOLEAN /\ pr \in Provenance
  BY DEF Provenance
<1>2. DerivedOffset(a, ok, x) = SentinelOffset \/ DerivedOffset(a, ok, x) = d
  BY DEF DerivedOffset
<1> HIDE DEF v, pr
<1>3. d \in Offset
  BY <1>1 DEF Offset
<1> QED
  BY <1>2, <1>3, NobodyKnows
------------------------------------------------------------------------------
(* Loading the catalog *)

SameKind(x, e) == x.symbol = e.symbol /\ x.signature = e.signature

(* The entries are of the first k files, and known. *)
Loading(fs, C, k, es) ==
  /\ es \in Seq(CatalogEntry)
  /\ \A i \in DOMAIN es : KnownTo(es[i], C) /\ \E j \in 1 .. k : SameKind(es[i], fs[j].entry)

(* Files that may be loaded: they agree on the symbols they share. *)
Loadable(fs, C) ==
  /\ Len(fs) \in Nat
  /\ \A i \in 1 .. Len(fs) : fs[i].entry \in CatalogEntry /\ KnownTo(fs[i].entry, C)
  /\ \A i, j \in 1 .. Len(fs) : i # j => ~Conflict(fs[i].entry, fs[j].entry)

LEMMA MergeKeepsLoading ==
  ASSUME NEW fs, NEW C, Loadable(fs, C), NEW k \in 1 .. Len(fs), NEW es,
         Loading(fs, C, k - 1, es)
  PROVE  Loading(fs, C, k, Merge(es, EntryFromRaw(fs[k].entry)))
<1> DEFINE f == fs[k].entry
           e == EntryFromRaw(f)
           n == Len(es)
<1>1. f \in CatalogEntry /\ KnownTo(f, C) /\ Len(fs) \in Nat
  BY DEF Loadable
<1>2. e \in CatalogEntry /\ SameKind(e, f) /\ KnownTo(e, C)
  BY <1>1, RawIsKnown DEF SameKind
<1>3. /\ es \in Seq(CatalogEntry) /\ n \in Nat /\ DOMAIN es = 1 .. n
      /\ \A i \in 1 .. n : es[i] \in CatalogEntry /\ KnownTo(es[i], C)
  BY DEF Loading
<1>4. ASSUME NEW i \in 1 .. n PROVE \E j \in 1 .. k - 1 : SameKind(es[i], fs[j].entry)
  BY <1>3 DEF Loading
<1>5. \A j \in 1 .. k - 1 : j \in 1 .. k /\ j \in 1 .. Len(fs) /\ j # k
  BY <1>1
<1>6. k \in 1 .. k /\ k \in 1 .. Len(fs)
  BY <1>1
<1> HIDE DEF n
<1>7. CASE \E i \in 1 .. n : es[i].symbol = e.symbol
  <2> DEFINE Taken(x) == [x EXCEPT !.offsets = [p \in Pairs |->
                            IF e.offsets[p].registered THEN e.offsets[p] ELSE @[p]]]
             new == [i \in 1 .. n |-> IF es[i].symbol # e.symbol THEN es[i] ELSE Taken(es[i])]
  <2>1. Merge(es, e) = new
    BY <1>3, <1>7 DEF Merge
  <2>2. ASSUME NEW x \in CatalogEntry, KnownTo(x, C), SameKind(x, e)
        PROVE  Taken(x) \in CatalogEntry /\ KnownTo(Taken(x), C) /\ SameKind(Taken(x), x)
    <3> HIDE DEF e
    <3> DEFINE o == [p \in Pairs |->
                       IF e.offsets[p].registered THEN e.offsets[p] ELSE x.offsets[p]]
    <3>1. /\ x.symbol \in Symbols /\ x.signature \in Signatures /\ x.offsets \in [Pairs -> Offset]
          /\ e.offsets \in [Pairs -> Offset]
      BY <1>2, EntryParts
    <3>2. o \in [Pairs -> Offset] /\ \A p \in Pairs : o[p] = e.offsets[p] \/ o[p] = x.offsets[p]
      BY <3>1
    <3> HIDE DEF o
    <3>3. Taken(x) = [x EXCEPT !.offsets = o]
      BY DEF o
    <3>4. [x EXCEPT !.offsets = o] = [symbol |-> x.symbol, signature |-> x.signature, offsets |-> o]
      BY DEF CatalogEntry
    <3> HIDE DEF Taken
    <3>5. KnownTo(Taken(x), C)
      BY <1>2, <2>2, <3>2, <3>3, <3>4 DEF KnownTo, SameKind
    <3> QED
      BY <3>1, <3>2, <3>3, <3>4, <3>5 DEF CatalogEntry, SameKind
  <2> HIDE DEF Taken
  <2>3. ASSUME NEW i \in 1 .. n
        PROVE  /\ new[i] \in CatalogEntry /\ KnownTo(new[i], C)
               /\ \E j \in 1 .. k : SameKind(new[i], fs[j].entry)
    <3>1. PICK j \in 1 .. k - 1 : SameKind(es[i], fs[j].entry)
      BY <1>4
    <3>2. es[i] \in CatalogEntry /\ KnownTo(es[i], C)
      BY <1>3
    <3>3. CASE es[i].symbol # e.symbol
      BY <1>5, <3>1, <3>2, <3>3
    <3>4. CASE es[i].symbol = e.symbol
      <4>1. ~Conflict(fs[j].entry, f)
        BY <1>5, <1>6, <3>1 DEF Loadable
      <4>2. SameKind(es[i], e)
        BY <1>2, <3>1, <3>4, <4>1 DEF Conflict, SameKind
      <4>3. new[i] = Taken(es[i])
        BY <3>4
      <4>4. Taken(es[i]) \in CatalogEntry /\ KnownTo(Taken(es[i]), C) /\ SameKind(Taken(es[i]), es[i])
        BY <2>2, <3>2, <4>2
      <4>5. SameKind(new[i], fs[j].entry)
        BY <3>1, <4>3, <4>4 DEF SameKind
      <4> HIDE DEF new
      <4> QED
        BY <1>5, <3>1, <4>3, <4>4, <4>5
    <3> QED
      BY <3>3, <3>4
  <2>4. DOMAIN new = 1 .. n
    OBVIOUS
  <2>5. new \in Seq(CatalogEntry)
    BY <1>3, <2>3
  <2> HIDE DEF new
  <2>6. Loading(fs, C, k, new)
    BY <2>3, <2>4, <2>5 DEF Loading
  <2> QED
    BY <2>1, <2>6
<1>8. CASE ~ \E i \in 1 .. n : es[i].symbol = e.symbol
  <2>1. Merge(es, e) = Append(es, e)
    BY <1>3, <1>8 DEF Merge
  <2> HIDE DEF e
  <2> DEFINE new == Append(es, e)
  <2>2. /\ new \in Seq(CatalogEntry) /\ DOMAIN new = 1 .. n + 1 /\ new[n + 1] = e
        /\ \A i \in 1 .. n : new[i] = es[i]
    BY <1>2, <1>3, AppendPlaces DEF n
  <2> HIDE DEF new
  <2>3. ASSUME NEW i \in 1 .. n + 1
        PROVE  KnownTo(new[i], C) /\ \E j \in 1 .. k : SameKind(new[i], fs[j].entry)
    <3>1. CASE i \in 1 .. n
      BY <1>3, <1>4, <1>5, <2>2, <3>1
    <3>2. CASE i = n + 1
      BY <1>2, <1>6, <2>2, <3>2
    <3> QED
      BY <1>3, <3>1, <3>2
  <2>4. Loading(fs, C, k, new)
    BY <2>2, <2>3 DEF Loading
  <2> QED
    BY <2>1, <2>4 DEF new, e
<1> QED
  BY <1>7, <1>8

LEMMA MergedIsLoaded ==
  ASSUME NEW fs, NEW C, Loadable(fs, C)
  PROVE  Loading(fs, C, Len(fs), MergedEntries(fs))
<1> DEFINE N == Len(fs)
           X == Seq(CatalogEntry)
           Step(k, es) == Merge(es, EntryFromRaw(fs[k].entry))
           Good(k, es) == Loading(fs, C, k, es)
           g == [q \in (1 .. N) \X X |-> IF Good(q[1] - 1, q[2]) THEN Step(q[1], q[2]) ELSE q[2]]
           Steps(f) == [k \in 0 .. N |-> IF k = 0 THEN <<>> ELSE Step(k, f[k - 1])]
<1>1. N \in Nat
  BY DEF Loadable
<1>2. MergedEntries(fs) = (CHOOSE f : f = Steps(f))[N]
  BY DEF MergedEntries
<1>3. <<>> \in X /\ Good(0, <<>>)
  BY DEF Loading
<1>4. \A k \in 1 .. N : \A es : Good(k - 1, es) => Good(k, Step(k, es))
  BY MergeKeepsLoading
<1>5. \A k, es : Good(k, es) => es \in X
  BY DEF Loading
<1>6. g \in [(1 .. N) \X X -> X]
  <2> HIDE DEF Good, N, X, Step
  <2>1. ASSUME NEW k \in 1 .. N, NEW es \in X, Good(k - 1, es) PROVE Step(k, es) \in X
    BY <1>4, <1>5, <2>1
  <2> QED
    BY <2>1
<1>7. \A k \in 1 .. N : \A es \in X :
        g[<<k, es>>] = IF Good(k - 1, es) THEN Step(k, es) ELSE es
  <2> HIDE DEF Good, N, X, Step
  <2> QED
    OBVIOUS
<1> HIDE DEF N, X, Step, Good, g, Steps
<1>8. PICK f : IsIteration(f, <<>>, g, X, N)
  BY <1>1, <1>3, <1>6, IterationExists
<1>9. f[0] = <<>> /\ f \in [0 .. N -> X] /\ \A k \in 1 .. N : f[k] = g[<<k, f[k - 1]>>]
  BY <1>8 DEF IsIteration
<1>10. ASSUME NEW k \in 0 .. N - 1, Good(k, f[k])
       PROVE  f[k + 1] = Step(k + 1, f[k]) /\ Good(k + 1, f[k + 1])
  <2>1. k + 1 \in 1 .. N /\ (k + 1) - 1 = k /\ k \in 0 .. N
    BY <1>1
  <2>2. f[k] \in X /\ f[k + 1] = g[<<k + 1, f[k]>>]
    BY <1>9, <2>1
  <2>3. f[k + 1] = Step(k + 1, f[k])
    BY <1>7, <1>10, <2>1, <2>2
  <2> QED
    BY <1>4, <1>10, <2>1, <2>3
<1>11. \A k \in 0 .. N : Good(k, f[k])
  <2> DEFINE G == {k \in 0 .. N : Good(k, f[k])}
  <2>1. 0 \in G
    BY <1>1, <1>3, <1>9
  <2>2. ASSUME NEW k \in 0 .. N - 1, k \in G PROVE k + 1 \in G
    <3>1. k + 1 \in 0 .. N
      BY <1>1
    <3> QED
      BY <1>10, <2>2, <3>1
  <2>3. 0 .. N \subseteq G
    <3> HIDE DEF G
    <3> QED
      BY <1>1, <2>1, <2>2, InductionUpTo
  <2> QED
    BY <2>3
<1>12. f = Steps(f)
  <2>1. ASSUME NEW k \in 0 .. N PROVE f[k] = IF k = 0 THEN <<>> ELSE Step(k, f[k - 1])
    <3>1. CASE k = 0
      BY <1>9, <3>1
    <3>2. CASE k # 0
      <4>1. k - 1 \in 0 .. N - 1 /\ (k - 1) + 1 = k /\ k - 1 \in 0 .. N
        BY <1>1, <3>2
      <4>2. f[(k - 1) + 1] = Step((k - 1) + 1, f[k - 1])
        BY <1>10, <1>11, <4>1
      <4> QED
        BY <3>2, <4>1, <4>2
    <3> QED
      BY <3>1, <3>2
  <2> QED
    BY <1>9, <2>1 DEF Steps
<1> DEFINE h == CHOOSE k : k = Steps(k)
<1>13. h = Steps(h)
  BY <1>12
<1> HIDE DEF h
<1>14. h[0] = <<>> /\ \A k \in 0 .. N - 1 : h[k + 1] = Step(k + 1, h[k])
  <2>1. h = [k \in 0 .. N |-> IF k = 0 THEN <<>> ELSE Step(k, h[k - 1])]
    BY <1>13 DEF Steps
  <2>2. 0 \in 0 .. N
    BY <1>1
  <2>3. ASSUME NEW k \in 0 .. N - 1 PROVE h[k + 1] = Step(k + 1, h[k])
    <3>1. k + 1 \in 0 .. N /\ k + 1 # 0 /\ (k + 1) - 1 = k
      BY <1>1
    <3> QED
      BY <2>1, <3>1
  <2> QED
    BY <2>1, <2>2, <2>3
<1>15. h[N] = f[N]
  <2> DEFINE G == {k \in 0 .. N : h[k] = f[k]}
  <2>1. 0 \in G
    BY <1>1, <1>9, <1>14
  <2>2. ASSUME NEW k \in 0 .. N - 1, k \in G PROVE k + 1 \in G
    <3>1. k + 1 \in 0 .. N /\ k \in 0 .. N
      BY <1>1
    <3>2. h[k] = f[k] /\ Good(k, f[k])
      BY <1>11, <2>2, <3>1
    <3> QED
      BY <1>10, <1>14, <3>1, <3>2
  <2>3. 0 .. N \subseteq G
    <3> HIDE DEF G
    <3> QED
      BY <1>1, <2>1, <2>2, InductionUpTo
  <2>4. N \in G
    BY <1>1, <2>3
  <2> QED
    BY <2>4
<1>16. Good(N, f[N]) /\ MergedEntries(fs) = f[N]
  <2>1. N \in 0 .. N
    BY <1>1
  <2> QED
    BY <1>2, <1>11, <1>15, <2>1 DEF h
<1> QED
  BY <1>16 DEF Good, N

(* The catalog that the generator loads is known, as its files are. *)
LEMMA CatalogIsKnown ==
  ASSUME BindingTypeOK, \A s \in Stems : files[s].entry \in Known, LoadCatalog(CatalogFiles).ok
  PROVE  LoadCatalog(CatalogFiles).entries \in Seq(Known)
<1> DEFINE S == {s \in Stems : files[s].state # "absent"}
           n == Cardinality(S)
           stems == SetToSeq(S)
           fs == CatalogFiles
<1>1. IsFiniteSet(S) /\ n \in Nat
  BY BindingCatalogAssumption, FS_Subset, FS_CardinalityType
<1>2. PICK h : h \in Bijection(1 .. n, S)
  BY <1>1, FS_CardinalityType DEF ExistsBijection
<1>3. stems \in [1 .. n -> S]
  <2>1. h \in [1 .. n -> S] /\ IsInjective(h)
    BY <1>2 DEF Bijection, Injection, IsInjective
  <2> HIDE DEF S, n
  <2>2. (CHOOSE f \in [1 .. n -> S] : IsInjective(f)) \in [1 .. n -> S]
    BY <2>1
  <2> QED
    BY <2>2 DEF SetToSeq, n
<1>4. Len(stems) = n
  <2> HIDE DEF stems, n, S
  <2> QED
    BY <1>1, <1>3
<1>5. fs = [i \in 1 .. n |-> files[stems[i]]]
  BY <1>4 DEF CatalogFiles
<1>6. \A i \in 1 .. n : fs[i].entry \in CatalogEntry /\ KnownTo(fs[i].entry, SeenOrCrossed)
  BY <1>3, <1>5 DEF Known
<1> HIDE DEF n, stems, S, fs
<1>7. DOMAIN fs = 1 .. n /\ Len(fs) = n
  BY <1>1, <1>5
<1>8. \A i, j \in 1 .. n : i # j => ~Conflict(fs[i].entry, fs[j].entry)
  BY <1>7 DEF LoadCatalog, NoCatalog, fs
<1>9. Loadable(fs, SeenOrCrossed)
  BY <1>1, <1>6, <1>7, <1>8 DEF Loadable
<1>10. Loading(fs, SeenOrCrossed, n, MergedEntries(fs))
  BY <1>7, <1>9, MergedIsLoaded
<1>11. LoadCatalog(fs).entries = MergedEntries(fs)
  BY DEF LoadCatalog, NoCatalog, fs
<1> DEFINE es == MergedEntries(fs)
<1>12. es \in Seq(CatalogEntry) /\ \A i \in DOMAIN es : KnownTo(es[i], SeenOrCrossed)
  BY <1>10 DEF Loading
<1> HIDE DEF es
<1>13. es \in Seq(Known)
  <2>1. \A i \in DOMAIN es : es[i] \in CatalogEntry
    BY <1>12
  <2>2. \A i \in DOMAIN es : es[i] \in Known
    BY <1>12, <2>1 DEF Known
  <2> HIDE DEF Known
  <2> QED
    BY <1>12, <2>2
<1> QED
  BY <1>11, <1>13 DEF es, fs
------------------------------------------------------------------------------
(* The invariant *)

WorkType == [stage : {"idle", "ready", "writing"}, stem : Stems, file : Files]

ExtractionRuns ==
  [stage : {"idle", "reading", "renaming"}, symbol : Symbols, signature : Signatures,
   pair : Pairs, offset : Offset, text : Files]

LEMMA CatalogTypes ==
  ASSUME Catalog
  PROVE  /\ files \in [Stems -> Files]
         /\ work \in [Contributors -> WorkType]
         /\ generator \in [todo : SUBSET Pairs, entries : Seq(CatalogEntry)]
         /\ pbinds \in [Pairs -> SUBSET Function]
         /\ extraction \in ExtractionRuns
         /\ checks \cup crossed \subseteq Checks
         /\ changes \in 0 .. MaxChanges
BY DEF Catalog, BindingTypeOK, WorkType, ExtractionRuns

LEMMA CatalogParts ==
  ASSUME Catalog
  PROVE  /\ \A s \in Stems : files[s].entry \in Known
         /\ \A c \in Contributors : work[c].file.entry \in Known
         /\ generator.entries \in Seq(Known)
         /\ extraction.text.entry \in Known /\ ExtractionWasSeen
         /\ PbindsHoldWhatWasChecked /\ CrossedWasSeen
BY DEF Catalog, ChecksAreKept

(* The types of the next state, from those of its parts. *)
LEMMA TypesOfNext ==
  ASSUME files' \in [Stems -> Files], work' \in [Contributors -> WorkType],
         generator' \in [todo : SUBSET Pairs, entries : Seq(CatalogEntry)],
         pbinds' \in [Pairs -> SUBSET Function], extraction' \in ExtractionRuns,
         checks' \cup crossed' \subseteq Checks, changes' \in 0 .. MaxChanges
  PROVE  BindingTypeOK'
BY DEF BindingTypeOK, WorkType, ExtractionRuns

(* What is known stays so when there are more checks. *)
LEMMA KnownGrows ==
  ASSUME SeenOrCrossed \subseteq SeenOrCrossed'
  PROVE  Known \subseteq Known'
BY DEF Known, KnownTo

LEMMA SequenceOfMore ==
  ASSUME NEW X, NEW Y, X \subseteq Y, NEW s \in Seq(X)
  PROVE  s \in Seq(Y)
OBVIOUS

(* More checks take nothing from the .pbind files. *)
LEMMA PbindsStay ==
  ASSUME PbindsHoldWhatWasChecked, pbinds' = pbinds,
         SeenOrCrossed \subseteq SeenOrCrossed'
  PROVE  PbindsHoldWhatWasChecked'
BY DEF PbindsHoldWhatWasChecked, FunctionClaim

LEMMA CrossedStay ==
  ASSUME CrossedWasSeen, crossed' = crossed, checks \subseteq checks'
  PROVE  CrossedWasSeen'
BY DEF CrossedWasSeen

LEMMA InitialIsKnown ==
  /\ SomeEntry \in Known /\ SomeEntry \in CatalogEntry
  /\ NoFile \in Files /\ NoFile.entry \in Known /\ TornFile \in Files /\ TornFile.entry \in Known
  /\ Idle \in WorkType /\ Idle.file.entry \in Known
  /\ NoExtraction \in ExtractionRuns /\ NoExtraction.text.entry \in Known
  /\ ~NoExtraction.offset.verified
<1>1. SomeEntry \in CatalogEntry /\ SomeEntry \in Known
  BY SomeEntryIsKnown DEF Known
<1>2. (CHOOSE s \in Stems : TRUE) \in Stems
  <2>1. PICK s \in Symbols : StemOf(s) \in Stems
    BY BindingCatalogAssumption
  <2> QED
    BY <2>1
<1>3. NoFile \in Files /\ NoFile.entry = SomeEntry /\ TornFile \in Files /\ TornFile.entry = SomeEntry
  BY <1>1 DEF NoFile, TornFile, Files
<1>4. Idle \in WorkType /\ Idle.file = NoFile
  BY <1>2, <1>3 DEF Idle, WorkType
<1>5. /\ (CHOOSE s \in Symbols : TRUE) \in Symbols /\ (CHOOSE g \in Signatures : TRUE) \in Signatures
      /\ (CHOOSE p \in Pairs : TRUE) \in Pairs
  BY BindingCatalogAssumption
<1>6. NoExtraction \in ExtractionRuns /\ NoExtraction.text = NoFile /\ NoExtraction.offset = NoOffset
  BY <1>3, <1>5, NobodyKnows DEF NoExtraction, ExtractionRuns
<1>7. ~NoOffset.verified
  BY DEF NoOffset
<1> QED
  BY <1>1, <1>3, <1>4, <1>6, <1>7

LEMMA InitIsKnown == Init => Catalog
<1> SUFFICES ASSUME Init
             PROVE  Catalog
  OBVIOUS
<1>1. <<>> \in Seq(CatalogEntry) /\ <<>> \in Seq(Known) /\ 0 \in 0 .. MaxChanges
  BY BindingCatalogAssumption
<1>2. BindingTypeOK
  BY <1>1, InitialIsKnown DEF Init, BindingTypeOK, WorkType, ExtractionRuns
<1>3. ChecksAreKept
  BY <1>1, InitialIsKnown DEF Init, ChecksAreKept, ExtractionWasSeen
<1>4. PbindsHoldWhatWasChecked /\ CrossedWasSeen
  BY DEF Init, PbindsHoldWhatWasChecked, CrossedWasSeen
<1> QED
  BY <1>2, <1>3, <1>4 DEF Catalog

LEMMA BeginKeeps ==
  ASSUME Catalog, NEW c \in Contributors, NEW s \in Symbols, NEW f \in Files, f.entry \in Known,
         Begin(c, s, f)
  PROVE  Catalog'
<1> DEFINE w == [stage |-> "ready", stem |-> StemOf(s), file |-> f]
<1>1. /\ UNCHANGED <<files, generator, pbinds, extraction, checks, crossed>>
      /\ changes' \in 0 .. MaxChanges /\ work' = [work EXCEPT ![c] = w]
  BY CatalogTypes, BindingCatalogAssumption DEF Begin
<1>2. w \in WorkType /\ w.file.entry \in Known
  BY BindingCatalogAssumption DEF WorkType
<1> HIDE DEF w
<1>3. /\ work' \in [Contributors -> WorkType]
      /\ \A d \in Contributors : work'[d] = work[d] \/ work'[d] = w
  BY <1>1, <1>2, CatalogTypes
<1>4. Known' = Known
  BY <1>1 DEF Known, SeenOrCrossed
<1>5. BindingTypeOK'
  BY <1>1, <1>3, CatalogTypes, TypesOfNext
<1>6. ChecksAreKept'
  BY <1>1, <1>2, <1>3, <1>4, CatalogParts DEF ChecksAreKept, ExtractionWasSeen
<1>7. PbindsHoldWhatWasChecked' /\ CrossedWasSeen'
  BY <1>1, CatalogParts, PbindsStay, CrossedStay DEF SeenOrCrossed
<1> QED
  BY <1>5, <1>6, <1>7 DEF Catalog

LEMMA ContributeKeeps ==
  ASSUME Catalog, NEW c \in Contributors, Contribute(c)
  PROVE  Catalog'
<1>1. ASSUME NEW s \in Symbols
      PROVE  StemOf(s) \in Stems /\ Loaded(s) \in Known /\ files[StemOf(s)] \in Files
  <2>1. StemOf(s) \in Stems
    BY BindingCatalogAssumption
  <2>2. files[StemOf(s)].entry \in Known /\ files[StemOf(s)] \in Files
    BY <2>1, CatalogParts, CatalogTypes
  <2> QED
    BY <2>1, <2>2, RawIsKnown DEF Loaded, Known
<1>2. ASSUME NEW s \in Symbols, NEW e \in Known
      PROVE  Changed(s, e) \in Files /\ Changed(s, e).entry \in Known
  <2>1. e \in CatalogEntry
    BY DEF Known
  <2>2. files[StemOf(s)] \in Files
    BY <1>1
  <2> QED
    BY <2>1, <2>2 DEF Changed, Files
<1>3. ASSUME NEW s \in Symbols, NEW g \in Signatures, NEW ps \in SUBSET Pairs, Add(c, s, g, ps)
      PROVE  Catalog'
  <2> DEFINE e == BuildSentinelEntry(s, g, ps)
  <2>1. e \in Known /\ e \in CatalogEntry
    BY SentinelsAreKnown DEF Known
  <2> HIDE DEF e
  <2>2. File(e) \in Files /\ File(e).entry \in Known
    BY <2>1 DEF File, Files
  <2> QED
    BY <1>3, <2>2, BeginKeeps DEF Add, e
<1>4. ASSUME NEW s \in Symbols, NEW p \in Pairs, NEW a \in Rvas \ {NoRva}, SetOffset(c, s, p, a)
      PROVE  Catalog'
  <2>1. WithOffset(Loaded(s), p, a, c) \in Known
    BY <1>1, WithOffsetIsKnown DEF Known
  <2> QED
    BY <1>2, <1>4, <2>1, BeginKeeps DEF SetOffset
<1>5. ASSUME NEW s \in Symbols, NEW g \in Signatures, SetSignature(c, s, g) PROVE Catalog'
  <2>1. WithSignature(Loaded(s), g) \in Known
    BY <1>1, WithSignatureIsKnown DEF Known
  <2> QED
    BY <1>2, <1>5, <2>1, BeginKeeps DEF SetSignature
<1>6. CASE Truncate(c) \/ Write(c) \/ Die(c)
  <2>1. work[c] \in WorkType /\ work[c].file.entry \in Known
    BY CatalogTypes, CatalogParts
  <2>2. work[c].file \in Files /\ work[c].stem \in Stems
    BY <2>1 DEF WorkType
  <2>3. /\ UNCHANGED <<generator, pbinds, extraction, checks, crossed, changes>>
        /\ Known' = Known
    BY <1>6 DEF Truncate, Write, Die, Known, SeenOrCrossed
  <2>4. files' \in [Stems -> Files] /\ \A s \in Stems : files'[s].entry \in Known
    <3>1. /\ files \in [Stems -> Files] /\ \A s \in Stems : files[s].entry \in Known
      BY CatalogTypes, CatalogParts
    <3>2. \/ files' = files
          \/ files' = [files EXCEPT ![work[c].stem] = TornFile]
          \/ files' = [files EXCEPT ![work[c].stem] = work[c].file]
      BY <1>6 DEF Truncate, Write, Die
    <3> QED
      BY <2>1, <2>2, <3>1, <3>2, InitialIsKnown
  <2>5. work' \in [Contributors -> WorkType] /\ \A d \in Contributors : work'[d].file.entry \in Known
    <3>1. work \in [Contributors -> WorkType] /\ \A d \in Contributors : work[d].file.entry \in Known
      BY CatalogTypes, CatalogParts
    <3> DEFINE x == [work[c] EXCEPT !.stage = "writing"]
    <3>2. x \in WorkType /\ x.file = work[c].file
      BY <2>1 DEF WorkType
    <3>3. work' = [work EXCEPT ![c] = x] \/ work' = [work EXCEPT ![c] = Idle]
      BY <1>6 DEF Truncate, Write, Die
    <3> HIDE DEF x
    <3> QED
      BY <2>1, <3>1, <3>2, <3>3, InitialIsKnown
  <2>6. BindingTypeOK'
    BY <2>3, <2>4, <2>5, CatalogTypes, TypesOfNext
  <2>7. ChecksAreKept'
    BY <2>3, <2>4, <2>5, CatalogParts DEF ChecksAreKept, ExtractionWasSeen
  <2>8. PbindsHoldWhatWasChecked' /\ CrossedWasSeen'
    BY <2>3, CatalogParts, PbindsStay, CrossedStay DEF SeenOrCrossed
  <2> QED
    BY <2>6, <2>7, <2>8 DEF Catalog
<1> QED
  BY <1>3, <1>4, <1>5, <1>6 DEF Contribute

LEMMA ReviewKeeps ==
  ASSUME Catalog, NEW s \in Stems, NEW p \in Pairs, NEW x \in BOOLEAN, Review(s, p, x)
  PROVE  Catalog'
<1> DEFINE e == files[s].entry
           o == e.offsets[p]
           r == Reviewed(o, x)
           seen == [pair |-> p, symbol |-> e.symbol, signature |-> e.signature, rva |-> o.rva]
           new == [e EXCEPT !.offsets[p] = r]
<1>1. /\ files' = [files EXCEPT ![s].entry.offsets[p] = r]
      /\ checks' = checks \cup {seen} /\ changes' \in 0 .. MaxChanges
      /\ UNCHANGED <<work, generator, pbinds, extraction, crossed>>
  BY CatalogTypes, BindingCatalogAssumption DEF Review
<1>2. /\ files \in [Stems -> Files] /\ files[s] \in Files /\ e \in CatalogEntry
      /\ KnownTo(e, SeenOrCrossed) /\ o \in Offset
  BY CatalogTypes, CatalogParts, EntryParts DEF Known
<1>3. seen \in Checks
  <2>1. e.symbol \in Symbols /\ e.signature \in Signatures /\ o.rva \in Rvas
    BY <1>2, EntryParts DEF Offset
  <2> HIDE DEF e, o
  <2> QED
    BY <2>1 DEF Checks
<1> HIDE DEF e
<1>4. r \in Offset /\ r.rva = o.rva
  <2> HIDE DEF o
  <2> DEFINE y == [o EXCEPT !.verified = TRUE]
             z == [y EXCEPT !.provenance.prologue = TRUE]
  <2>1. y \in Offset /\ y.rva = o.rva
    BY <1>2 DEF Offset
  <2>2. r = [z EXCEPT !.provenance.crossCheck = x]
    BY <1>2 DEF Reviewed, Offset, Provenance
  <2> HIDE DEF y
  <2>3. z \in Offset /\ z.rva = o.rva
    BY <2>1 DEF Offset, Provenance
  <2> HIDE DEF z
  <2>4. /\ [z EXCEPT !.provenance.crossCheck = x] \in Offset
        /\ [z EXCEPT !.provenance.crossCheck = x].rva = o.rva
    BY <2>3 DEF Offset, Provenance
  <2> QED
    BY <2>2, <2>4
<1> HIDE DEF r
<1>5. KnownTo(e, SeenOrCrossed')
  BY <1>1, <1>2 DEF KnownTo, SeenOrCrossed
<1>6. new \in CatalogEntry /\ KnownTo(new, SeenOrCrossed')
  BY <1>1, <1>2, <1>4, <1>5, WithOffsetPut DEF SeenOrCrossed
<1>7. files' = [files EXCEPT ![s].entry = new]
  BY <1>1, <1>2 DEF e
<1> HIDE DEF new
<1>8. /\ files' \in [Stems -> Files] /\ files'[s].entry = new
      /\ \A t \in Stems : t # s => files'[t] = files[t]
  BY <1>2, <1>6, <1>7 DEF Files
<1>9. Known \subseteq Known' /\ new \in Known'
  <2>1. SeenOrCrossed \subseteq SeenOrCrossed'
    BY <1>1 DEF SeenOrCrossed
  <2> QED
    BY <1>6, <2>1, KnownGrows DEF Known
<1>10. checks' \cup crossed' \subseteq Checks
  BY <1>1, <1>3, CatalogTypes
<1>11. BindingTypeOK'
  BY <1>1, <1>8, <1>10, CatalogTypes, TypesOfNext
<1>12. ChecksAreKept'
  <2>1. generator.entries \in Seq(Known')
    BY <1>9, CatalogParts, SequenceOfMore
  <2>2. ExtractionWasSeen'
    BY <1>1, CatalogParts DEF ExtractionWasSeen
  <2> QED
    BY <1>1, <1>8, <1>9, <2>1, <2>2, CatalogParts DEF ChecksAreKept
<1>13. PbindsHoldWhatWasChecked' /\ CrossedWasSeen'
  BY <1>1, CatalogParts, PbindsStay, CrossedStay DEF SeenOrCrossed
<1> QED
  BY <1>11, <1>12, <1>13 DEF Catalog

(* What the extraction derives is seen; what it plans is known. *)
LEMMA StartExtractionKeeps ==
  ASSUME Catalog, NEW s \in Symbols, NEW g \in Signatures, NEW p \in Pairs, NEW o \in Offset,
         StartExtraction(s, g, p, o)
  PROVE  Catalog'
<1> DEFINE seen == [pair |-> p, symbol |-> s, signature |-> g, rva |-> o.rva]
           began(stage, text) == [stage |-> stage, symbol |-> s, signature |-> g,
                                pair |-> p, offset |-> o, text |-> text]
           b == BuildSentinelEntry(s, g, {})
           e == [b EXCEPT !.offsets[p] = o]
<1>1. /\ UNCHANGED <<files, work, generator, pbinds, crossed>>
      /\ checks' = checks \cup (IF o.verified THEN {seen} ELSE {})
      /\ changes' \in 0 .. MaxChanges
      /\ \/ extraction' = began("renaming", NewFile(s, g, p, o))
         \/ extraction' = began("reading", NoFile)
  BY CatalogTypes, BindingCatalogAssumption DEF StartExtraction
<1>2. seen \in Checks
  BY DEF Checks, Offset
<1> HIDE DEF seen
<1>3. SeenOrCrossed \subseteq SeenOrCrossed' /\ checks' \cup crossed' \subseteq Checks
  BY <1>1, <1>2, CatalogTypes DEF SeenOrCrossed
<1>4. o.verified => seen \in SeenOrCrossed'
  BY <1>1 DEF SeenOrCrossed
<1>5. e \in CatalogEntry /\ KnownTo(e, SeenOrCrossed')
  <2>1. b \in CatalogEntry /\ KnownTo(b, SeenOrCrossed')
    BY SentinelsAreKnown
  <2>2. b.symbol = s /\ b.signature = g
    BY DEF BuildSentinelEntry
  <2> HIDE DEF b
  <2>3. o.verified => [pair |-> p, symbol |-> b.symbol, signature |-> b.signature,
                       rva |-> o.rva] \in SeenOrCrossed'
    BY <1>4, <2>2 DEF seen
  <2> QED
    BY <2>1, <2>3, WithOffsetPut
<1>6. NewFile(s, g, p, o) \in Files /\ NewFile(s, g, p, o).entry \in Known'
  <2>1. NewFile(s, g, p, o) = File(e)
    BY DEF NewFile
  <2> HIDE DEF e
  <2> QED
    BY <1>5, <2>1 DEF File, Files, Known
<1>7. Known \subseteq Known'
  BY <1>3, KnownGrows
<1>8. PICK stage \in {"reading", "renaming"}, text \in Files :
        extraction' = began(stage, text) /\ text.entry \in Known'
  BY <1>1, <1>6, <1>7, InitialIsKnown
<1>9. extraction' \in ExtractionRuns /\ extraction'.text.entry \in Known'
  BY <1>8 DEF ExtractionRuns
<1>10. ExtractionWasSeen'
  BY <1>1, <1>8 DEF ExtractionWasSeen, seen
<1>11. BindingTypeOK'
  BY <1>1, <1>3, <1>9, CatalogTypes, TypesOfNext
<1>12. ChecksAreKept'
  <2>1. generator.entries \in Seq(Known')
    BY <1>7, CatalogParts, SequenceOfMore
  <2> QED
    BY <1>1, <1>7, <1>9, <1>10, <2>1, CatalogParts DEF ChecksAreKept
<1>13. PbindsHoldWhatWasChecked' /\ CrossedWasSeen'
  BY <1>1, <1>3, CatalogParts, PbindsStay, CrossedStay DEF SeenOrCrossed
<1> QED
  BY <1>11, <1>12, <1>13 DEF Catalog

(* A block that is put behind another signature was seen, and crossed. *)
LEMMA ReadAgainKeeps ==
  ASSUME Catalog, ReadAgain
  PROVE  Catalog'
<1> DEFINE x == extraction
           f == files[StemOf(x.symbol)]
           e == f.entry
           o == x.offset
           text == Appended(f, x.pair, o)
           claim == [pair |-> x.pair, symbol |-> e.symbol, signature |-> e.signature, rva |-> o.rva]
<1>1. x \in ExtractionRuns /\ x.pair \in Pairs /\ o \in Offset /\ x.symbol \in Symbols
  BY CatalogTypes DEF ExtractionRuns
<1>2. StemOf(x.symbol) \in Stems
  BY <1>1, BindingCatalogAssumption
<1>3. f \in Files /\ e \in Known /\ e \in CatalogEntry /\ KnownTo(e, SeenOrCrossed)
  BY <1>2, CatalogTypes, CatalogParts DEF Known
<1>4. /\ UNCHANGED <<files, work, generator, pbinds, checks, changes>>
      /\ \/ extraction' = NoExtraction /\ crossed' = crossed
         \/ /\ extraction' = [extraction EXCEPT !.stage = "renaming", !.text = text]
            /\ crossed' = crossed \cup
                 IF o.verified /\ (e.signature # x.signature \/ e.symbol # x.symbol)
                 THEN {claim} ELSE {}
  BY DEF ReadAgain
<1>5. claim \in Checks
  <2>1. e.symbol \in Symbols /\ e.signature \in Signatures /\ o.rva \in Rvas
    BY <1>1, <1>3, EntryParts DEF Offset
  <2> HIDE DEF e, o, x
  <2> QED
    BY <1>1, <2>1 DEF Checks
<1>6. /\ o.verified => [pair |-> x.pair, symbol |-> x.symbol,
                        signature |-> x.signature, rva |-> o.rva] \in checks
  BY CatalogParts DEF ExtractionWasSeen
<1> HIDE DEF x, f, e, o, text
<1>7. SeenOrCrossed \subseteq SeenOrCrossed' /\ checks' \cup crossed' \subseteq Checks
  BY <1>4, <1>5, CatalogTypes DEF SeenOrCrossed
<1>8. Known \subseteq Known'
  BY <1>7, KnownGrows
<1>9. CASE extraction' = NoExtraction /\ crossed' = crossed
  <2>1. BindingTypeOK'
    BY <1>4, <1>7, <1>9, CatalogTypes, TypesOfNext, InitialIsKnown
  <2>2. Known' = Known
    BY <1>4, <1>9 DEF Known, SeenOrCrossed
  <2>3. ChecksAreKept'
    BY <1>4, <1>9, <2>2, CatalogParts, InitialIsKnown DEF ChecksAreKept, ExtractionWasSeen
  <2>4. PbindsHoldWhatWasChecked' /\ CrossedWasSeen'
    BY <1>4, <1>7, <1>9, CatalogParts, PbindsStay, CrossedStay DEF SeenOrCrossed
  <2> QED
    BY <2>1, <2>3, <2>4 DEF Catalog
<1>10. CASE /\ extraction' = [extraction EXCEPT !.stage = "renaming", !.text = text]
            /\ crossed' = crossed \cup
                 IF o.verified /\ (e.signature # x.signature \/ e.symbol # x.symbol)
                 THEN {claim} ELSE {}
  <2>1. o.verified => claim \in SeenOrCrossed'
    BY <1>4, <1>6, <1>10 DEF SeenOrCrossed
  <2>2. KnownTo(e, SeenOrCrossed')
    BY <1>3, <1>7 DEF KnownTo
  <2>3. text \in Files /\ text.entry \in Known'
    <3>1. CASE text = f
      BY <1>3, <1>8, <3>1 DEF e
    <3>2. CASE text = [f EXCEPT !.state = "doubled"]
      BY <1>3, <1>8, <3>2 DEF e, Files
    <3>3. CASE text = [f EXCEPT !.entry.offsets[x.pair] = o]
      <4> DEFINE n == [e EXCEPT !.offsets[x.pair] = o]
      <4>1. n \in CatalogEntry /\ KnownTo(n, SeenOrCrossed')
        BY <1>1, <1>3, <2>1, <2>2, WithOffsetPut DEF x, o
      <4>2. text = [f EXCEPT !.entry = n]
        BY <1>3, <3>3 DEF Files, e
      <4> HIDE DEF n
      <4> QED
        BY <1>3, <4>1, <4>2 DEF Files, Known
    <3> QED
      BY <3>1, <3>2, <3>3 DEF text, Appended
  <2>4. extraction' \in ExtractionRuns /\ extraction'.text = text
    BY <1>1, <1>10, <2>3 DEF ExtractionRuns, x
  <2>5. ExtractionWasSeen'
    BY <1>1, <1>4, <1>6, <1>10 DEF ExtractionWasSeen, ExtractionRuns, x, o
  <2>6. BindingTypeOK'
    BY <1>4, <1>7, <2>4, CatalogTypes, TypesOfNext
  <2>7. ChecksAreKept'
    <3>1. generator.entries \in Seq(Known')
      BY <1>8, CatalogParts, SequenceOfMore
    <3> QED
      BY <1>4, <1>8, <2>3, <2>4, <2>5, <3>1, CatalogParts DEF ChecksAreKept
  <2>8. CrossedWasSeen'
    <3>1. CrossedWasSeen
      BY CatalogParts
    <3>2. ASSUME NEW y \in crossed' PROVE \E z \in checks : z.pair = y.pair /\ z.rva = y.rva
      <4>1. CASE y \in crossed
        BY <3>1, <4>1 DEF CrossedWasSeen
      <4>2. CASE o.verified /\ y = claim
        BY <1>6, <4>2
      <4> QED
        BY <1>10, <4>1, <4>2
    <3> QED
      BY <1>4, <3>2 DEF CrossedWasSeen
  <2>9. PbindsHoldWhatWasChecked'
    BY <1>4, <1>7, CatalogParts, PbindsStay
  <2> QED
    BY <2>6, <2>7, <2>8, <2>9 DEF Catalog
<1> QED
  BY <1>4, <1>9, <1>10

LEMMA EndOfExtractionKeeps ==
  ASSUME Catalog, RenameExtracted \/ DieExtracting
  PROVE  Catalog'
<1> DEFINE t == extraction.text
           m == StemOf(extraction.symbol)
<1>1. t \in Files /\ m \in Stems /\ t.entry \in Known
  BY CatalogTypes, CatalogParts, BindingCatalogAssumption DEF ExtractionRuns
<1>2. /\ UNCHANGED <<work, generator, pbinds, checks, crossed, changes>>
      /\ extraction' = NoExtraction
      /\ files' = files \/ files' = [files EXCEPT ![m] = t]
  BY DEF RenameExtracted, DieExtracting
<1> HIDE DEF t, m
<1>3. Known' = Known
  BY <1>2 DEF Known, SeenOrCrossed
<1>4. files' \in [Stems -> Files] /\ \A s \in Stems : files'[s].entry \in Known
  BY <1>1, <1>2, CatalogTypes, CatalogParts
<1>5. BindingTypeOK'
  BY <1>2, <1>4, CatalogTypes, TypesOfNext, InitialIsKnown
<1>6. ChecksAreKept'
  BY <1>2, <1>3, <1>4, CatalogParts, InitialIsKnown DEF ChecksAreKept, ExtractionWasSeen
<1>7. PbindsHoldWhatWasChecked' /\ CrossedWasSeen'
  BY <1>2, CatalogParts, PbindsStay, CrossedStay DEF SeenOrCrossed
<1> QED
  BY <1>5, <1>6, <1>7 DEF Catalog

LEMMA ExtractionKeeps ==
  ASSUME Catalog, Extraction
  PROVE  Catalog'
<1>1. ASSUME NEW s \in Symbols, NEW g \in Signatures, NEW p \in Pairs, NEW a \in Rvas \ {NoRva},
             NEW ok \in BOOLEAN, NEW x \in BOOLEAN,
             StartExtraction(s, g, p, DerivedOffset(a, ok, x))
      PROVE  Catalog'
  BY <1>1, DerivedIsOffset, StartExtractionKeeps
<1> QED
  BY <1>1, ReadAgainKeeps, EndOfExtractionKeeps DEF Extraction

LEMMA GenerateKeeps ==
  ASSUME Catalog, Generate
  PROVE  Catalog'
<1> DEFINE catalog == LoadCatalog(CatalogFiles)
           es == catalog.entries
           ps == UNION {RegisteredPairs(e) : e \in ToSet(es)}
<1>1. /\ catalog.ok /\ generator' = [entries |-> es, todo |-> ps]
      /\ UNCHANGED <<files, work, pbinds, extraction, checks, crossed, changes>>
  BY DEF Generate
<1>2. es \in Seq(Known)
  BY <1>1, CatalogIsKnown, CatalogParts DEF Catalog
<1>3. ps \subseteq Pairs
  BY DEF RegisteredPairs
<1> HIDE DEF catalog, es, ps
<1>4. Known' = Known /\ Known \subseteq CatalogEntry
  BY <1>1 DEF Known, SeenOrCrossed
<1>5. es \in Seq(CatalogEntry)
  BY <1>2, <1>4, SequenceOfMore
<1>6. generator' \in [todo : SUBSET Pairs, entries : Seq(CatalogEntry)]
      /\ generator'.entries \in Seq(Known)
  BY <1>1, <1>2, <1>3, <1>5
<1>7. BindingTypeOK'
  BY <1>1, <1>6, CatalogTypes, TypesOfNext
<1>8. ChecksAreKept'
  BY <1>1, <1>4, <1>6, CatalogParts DEF ChecksAreKept, ExtractionWasSeen
<1>9. PbindsHoldWhatWasChecked' /\ CrossedWasSeen'
  BY <1>1, CatalogParts, PbindsStay, CrossedStay DEF SeenOrCrossed
<1> QED
  BY <1>7, <1>8, <1>9 DEF Catalog

LEMMA WritePbindKeeps ==
  ASSUME Catalog, WritePbind
  PROVE  Catalog'
<1> DEFINE todo == generator.todo
           p == CHOOSE x \in todo : \A y \in todo : x <= y
           es == generator.entries
           fs == VerifiedFunctions(es, p)
<1>1. todo \subseteq Pairs /\ todo # {} /\ es \in Seq(CatalogEntry) /\ es \in Seq(Known)
  BY CatalogTypes, CatalogParts DEF WritePbind
<1>2. p \in Pairs
  <2>1. todo \subseteq Nat
    BY <1>1, BindingRecordsAssumption
  <2> HIDE DEF todo
  <2>2. \E x \in todo : \A y \in todo : x <= y
    BY <1>1, <2>1, LeastNatural
  <2> QED
    BY <1>1, <2>2
<1>3. /\ UNCHANGED <<files, work, extraction, checks, crossed, changes>>
      /\ pbinds' = [pbinds EXCEPT ![p] = fs] \/ pbinds' = pbinds
      /\ \/ generator' = [todo |-> {}, entries |-> <<>>]
         \/ generator' = [generator EXCEPT !.todo = todo \ {p}]
  BY DEF WritePbind
<1> HIDE DEF p
<1>4. ASSUME NEW f \in fs
      PROVE  /\ f \in Function /\ f.rva \in Addresses
             /\ FunctionClaim(f, p) \in SeenOrCrossed
  <2>1. PICK e \in ToSet(es) : /\ EmitVerified(e.offsets[p])
                                /\ f = [symbol |-> e.symbol, signature |-> e.signature,
                                        rva |-> e.offsets[p].rva]
    BY DEF VerifiedFunctions
  <2> HIDE DEF es, fs
  <2>2. e \in Known
    BY <1>1, <2>1 DEF ToSet
  <2>3. e \in CatalogEntry /\ KnownTo(e, SeenOrCrossed)
    BY <2>2 DEF Known
  <2>4. /\ e.symbol \in Symbols /\ e.signature \in Signatures
        /\ e.offsets[p].verified /\ e.offsets[p].rva \in Addresses
    BY <2>1, <2>3, EntryParts DEF EmitVerified
  <2>5. e.offsets[p].rva \in Rvas
    BY <2>4, RvaSets
  <2> QED
    BY <1>2, <2>1, <2>3, <2>4, <2>5 DEF KnownTo, Function, FunctionClaim
<1> HIDE DEF fs, es, todo
<1>5. Known' = Known
  BY <1>3 DEF Known, SeenOrCrossed
<1>6. generator' \in [todo : SUBSET Pairs, entries : Seq(CatalogEntry)]
      /\ generator'.entries \in Seq(Known)
  <2>1. CASE generator' = [todo |-> {}, entries |-> <<>>]
    BY <2>1
  <2>2. CASE generator' = [generator EXCEPT !.todo = todo \ {p}]
    <3>1. generator \in [todo : SUBSET Pairs, entries : Seq(CatalogEntry)]
      BY CatalogTypes
    <3>2. todo \ {p} \in SUBSET Pairs
      BY <1>1
    <3> QED
      BY <1>1, <2>2, <3>1, <3>2 DEF es
  <2> QED
    BY <1>3, <2>1, <2>2
<1>7. /\ pbinds' \in [Pairs -> SUBSET Function]
      /\ \A q \in Pairs : pbinds'[q] = pbinds[q] \/ (q = p /\ pbinds'[q] = fs)
  <2>1. fs \in SUBSET Function /\ pbinds \in [Pairs -> SUBSET Function]
    BY <1>4, CatalogTypes
  <2> QED
    BY <1>2, <1>3, <2>1
<1>8. BindingTypeOK'
  BY <1>3, <1>6, <1>7, CatalogTypes, TypesOfNext
<1>9. ChecksAreKept'
  BY <1>3, <1>5, <1>6, CatalogParts DEF ChecksAreKept, ExtractionWasSeen
<1>10. PbindsHoldWhatWasChecked'
  <2>1. ASSUME NEW q \in Pairs, NEW f \in pbinds'[q]
        PROVE  f.rva \in Addresses /\ FunctionClaim(f, q) \in SeenOrCrossed
    <3>1. CASE f \in pbinds[q]
      BY <3>1, CatalogParts DEF PbindsHoldWhatWasChecked
    <3>2. CASE q = p /\ f \in fs
      BY <1>4, <3>2
    <3> QED
      BY <1>7, <2>1, <3>1, <3>2
  <2>2. SeenOrCrossed' = SeenOrCrossed
    BY <1>3 DEF SeenOrCrossed
  <2> QED
    BY <2>1, <2>2 DEF PbindsHoldWhatWasChecked, FunctionClaim
<1>11. CrossedWasSeen'
  BY <1>3, CatalogParts, CrossedStay
<1> QED
  BY <1>8, <1>9, <1>10, <1>11 DEF Catalog

LEMMA CatalogIsInvariant == Spec => []Catalog
<1>1. Catalog /\ [Next]_vars => Catalog'
  <2> SUFFICES ASSUME Catalog, [Next]_vars
               PROVE  Catalog'
    OBVIOUS
  <2>1. CASE UNCHANGED vars
    <3>1. Known' = Known
      BY <2>1 DEF vars, Known, SeenOrCrossed
    <3>2. BindingTypeOK'
      BY <2>1, CatalogTypes, TypesOfNext DEF vars
    <3>3. ChecksAreKept'
      BY <2>1, <3>1, CatalogParts DEF vars, ChecksAreKept, ExtractionWasSeen
    <3>4. PbindsHoldWhatWasChecked' /\ CrossedWasSeen'
      BY <2>1, CatalogParts, PbindsStay, CrossedStay DEF vars, SeenOrCrossed
    <3> QED
      BY <3>2, <3>3, <3>4 DEF Catalog
  <2> QED
    BY <2>1, ContributeKeeps, ReviewKeeps, ExtractionKeeps, GenerateKeeps, WritePbindKeeps DEF Next
<1> QED
  BY <1>1, InitIsKnown, PTL DEF Spec

(* Whoever writes to the catalog at the same time, and wherever a command  *)
(* or an extraction dies: an offset that the catalog or a .pbind file      *)
(* calls verified was seen to agree with the binary, by a reviewer or by   *)
(* the extraction that derived it, for that very pair, signature and       *)
(* address; or it was seen at its address for its pair, and an extraction  *)
(* put it behind a signature that was changed under it.                    *)
THEOREM VerifiedIsChecked == Spec => []VerifiedMeansChecked
<1>1. Catalog => VerifiedMeansChecked
  <2> SUFFICES ASSUME Catalog
               PROVE  VerifiedMeansChecked
    OBVIOUS
  <2>1. VerifiedWasChecked
    BY DEF Catalog, ChecksAreKept, Known, KnownTo, VerifiedWasChecked, Claim
  <2>2. PbindsHoldWhatWasChecked /\ CrossedWasSeen
    BY DEF Catalog
  <2> QED
    BY <2>1, <2>2 DEF VerifiedMeansChecked
<1> QED
  BY <1>1, CatalogIsInvariant, PTL

(* The commands keep the catalog a catalog: whole entries, of every pair.  *)
THEOREM CatalogIsTyped == Spec => []BindingTypeOK
<1>1. Catalog => BindingTypeOK
  BY DEF Catalog
<1> QED
  BY <1>1, CatalogIsInvariant, PTL
------------------------------------------------------------------------------
(* Extraction into the catalog *)

(* A text that has what its file had when the run started, and more. *)
Grown(f, t) ==
  /\ IsPrefix(loaded[f].offsets, t.offsets)
  /\ loaded[f].state # "absent" => t.signature = loaded[f].signature
  /\ loaded[f].state = "absent" \/ Parses(loaded[f]) => t.state = "absent" \/ Parses(t)
  /\ HoldsPairsOnce(loaded[f]) => HoldsPairsOnce(t)

EditsAreKnown ==
  /\ edit # NoEdit => edit.at \in touched /\ edit.text.state # "absent"
  /\ \A f \in SymbolFiles : texts[f].state = "absent" => texts[f].offsets = <<>>

QuietIsLoaded ==
  /\ \A f \in SymbolFiles \ touched : f \notin done => texts[f] = loaded[f]
  /\ \A f \in done \ touched : Grown(f, texts[f])

PlansGrow ==
  /\ \A i \in DOMAIN run.plans :
       /\ run.plans[i].at \notin touched => Grown(run.plans[i].at, run.plans[i].text)
       /\ run.plans[i].text.state # "absent"
  /\ run.stage = "reading" =>
       /\ run.todo # {} /\ ~Collides(NextSymbol)
       /\ \/ FileOf(NextSymbol) \in touched
          \/ /\ Parses(loaded[FileOf(NextSymbol)])
             /\ run.pair \notin PairsOf(loaded[FileOf(NextSymbol)])

Planned == {run.plans[i].at : i \in DOMAIN run.plans}

PlansAreCounted ==
  /\ run.resolved \subseteq run.todo \cup run.seen
  /\ Planned \subseteq {FileOf(s) : s \in run.seen}
  /\ Len(run.plans) <= Cardinality(run.seen)
  /\ run.counted = Cardinality({s \in run.resolved \cap run.seen : FileOf(s) \in Planned})

PlansAreCommitted ==
  /\ done = {run.plans[i].at : i \in 1 .. run.committed}
  /\ run.stage \in {"planning", "reading", "refused"} => run.committed = 0
  /\ run.stage \in {"committing", "renaming", "done"} => run.todo = {}
  /\ run.stage = "renaming" => run.committed < Len(run.plans)
  /\ run.stage = "done" => run.committed = Len(run.plans)

Extracting ==
  /\ ExtractionTypeOK /\ EditsAreKnown /\ QuietIsLoaded /\ PlansGrow /\ PlansAreCounted
  /\ PlansAreCommitted
------------------------------------------------------------------------------
(* Texts that grow *)

LEMMA PrefixFacts ==
  ASSUME NEW X, NEW s \in Seq(X), NEW e \in X
  PROVE  IsPrefix(s, s) /\ IsPrefix(s, Append(s, e)) /\ IsPrefix(<<>>, Append(s, e))
<1>1. IsPrefix(s, s)
  BY DEF IsPrefix
<1>2. /\ Append(s, e) \in Seq(X) /\ Len(s) \in Nat /\ Len(Append(s, e)) = Len(s) + 1
      /\ \A i \in 1 .. Len(s) : Append(s, e)[i] = s[i]
  BY AppendPlaces
<1> DEFINE t == Append(s, e)
           n == Len(s)
<1> HIDE DEF t
<1>3. SubSeq(t, 1, n) = SubSeq(s, 1, n)
  BY <1>2 DEF t
<1>4. SubSeq(t, 1, 0) = SubSeq(<<>>, 1, 0) /\ Len(<<>>) = 0
  BY <1>2 DEF t
<1> QED
  BY <1>1, <1>2, <1>3, <1>4 DEF IsPrefix, t, n

LEMMA GrownByBlock ==
  ASSUME NEW t \in Texts, NEW b \in Blocks, b.pair \notin PairsOf(t)
  PROVE  LET new == [t EXCEPT !.offsets = Append(@, b)]
         IN  /\ new \in Texts /\ new.state = t.state /\ new.signature = t.signature
             /\ IsPrefix(t.offsets, new.offsets)
             /\ HoldsPairsOnce(t) => HoldsPairsOnce(new)
<1> DEFINE o == t.offsets
           p == Append(o, b)
           n == Len(o)
           new == [t EXCEPT !.offsets = p]
<1>1. o \in Seq(Blocks) /\ n \in Nat /\ DOMAIN o = 1 .. n
  BY DEF Texts
<1>2. /\ p \in Seq(Blocks) /\ DOMAIN p = 1 .. n + 1 /\ p[n + 1] = b
      /\ \A i \in 1 .. n : p[i] = o[i]
  BY <1>1, AppendPlaces
<1>3. IsPrefix(o, p)
  BY <1>1, PrefixFacts
<1> HIDE DEF p
<1>4. /\ new \in Texts /\ new.state = t.state /\ new.signature = t.signature /\ new.offsets = p
  BY <1>2 DEF Texts
<1> HIDE DEF o, n, new
<1>5. ASSUME HoldsPairsOnce(t) PROVE HoldsPairsOnce(new)
  <2>1. /\ \A i, j \in 1 .. n : o[i].pair = o[j].pair => i = j
        /\ \A i \in 1 .. n : o[i].pair # b.pair
    BY <1>1, <1>5 DEF HoldsPairsOnce, PairsOf, o
  <2>2. \A i, j \in 1 .. n + 1 : p[i].pair = p[j].pair => i = j
    <3>1. \A i \in 1 .. n + 1 : i \in 1 .. n \/ i = n + 1
      BY <1>1
    <3> QED
      BY <1>2, <2>1, <3>1
  <2> QED
    BY <1>2, <1>4, <2>2 DEF HoldsPairsOnce
<1> QED
  BY <1>3, <1>4, <1>5 DEF new, p, o

LEMMA GrownItself ==
  ASSUME NEW f, loaded[f] \in Texts
  PROVE  Grown(f, loaded[f])
<1>1. loaded[f].offsets \in Seq(Blocks)
  BY DEF Texts
<1>2. IsPrefix(loaded[f].offsets, loaded[f].offsets)
  BY <1>1 DEF IsPrefix
<1> QED
  BY <1>2 DEF Grown

LEMMA StartTexts ==
  /\ NoText \in Texts /\ TornText \in Texts /\ TornText.state = "torn" /\ TornText.offsets = <<>>
  /\ NoText.state = "absent" /\ NoText.offsets = <<>>
  /\ NoEdit \in [at : SymbolFiles \cup {"none"}, text : Texts] /\ NoEdit.at = "none"
<1>1. <<>> \in Seq(Blocks)
  OBVIOUS
<1>2. NoText \in Texts /\ NoText.state = "absent" /\ NoText.offsets = <<>>
  BY <1>1 DEF NoText, Texts
<1>3. TornText \in Texts /\ TornText.state = "torn" /\ TornText.offsets = <<>>
  BY <1>1 DEF TornText, NoText, Texts
<1> QED
  BY <1>2, <1>3 DEF NoEdit
------------------------------------------------------------------------------
(* What contributors do *)

LEMMA EditedTexts ==
  ASSUME NEW t \in Texts, t.state # "torn", NEW p \in TargetPairs, NEW u \in Edited(t, p)
  PROVE  u \in Texts /\ u.state # "absent"
<1>1. CASE t.state = "absent"
  <2>1. u = [state |-> "whole", signature |-> "declared", offsets |-> <<>>]
    BY <1>1 DEF Edited
  <2>2. <<>> \in Seq(Blocks)
    OBVIOUS
  <2> QED
    BY <2>1, <2>2 DEF Texts
<1>2. CASE t.state # "absent"
  <2> DEFINE b == [pair |-> p, resolved |-> TRUE]
             o == Append(t.offsets, b)
  <2>1. u = [t EXCEPT !.signature = "changed"] \/ u = [t EXCEPT !.offsets = o]
    BY <1>2 DEF Edited
  <2>2. b \in Blocks /\ t.offsets \in Seq(Blocks)
    BY DEF Blocks, Texts
  <2> HIDE DEF b
  <2>3. o \in Seq(Blocks)
    BY <2>2, AppendPlaces
  <2> HIDE DEF o
  <2> QED
    BY <1>2, <2>1, <2>3 DEF Texts
<1> QED
  BY <1>1, <1>2

(* A file that is edited is touched, and then nothing is asked of it. *)
LEMMA EditKeeps ==
  ASSUME Extracting, NEW f \in SymbolFiles, NEW t \in Texts, t.offsets = <<>> \/ t.state # "absent",
         texts' = [texts EXCEPT ![f] = t], touched' = touched \cup {f},
         edit' \in [at : SymbolFiles \cup {"none"}, text : Texts],
         edit' # NoEdit => edit'.at \in touched' /\ edit'.text.state # "absent",
         editions' \in 0 .. MaxEditions, UNCHANGED <<run, loaded, done, extractions>>
  PROVE  Extracting'
<1>1. /\ texts' \in [SymbolFiles -> Texts] /\ texts'[f] = t
      /\ \A g \in SymbolFiles : g # f => texts'[g] = texts[g]
  BY DEF Extracting, ExtractionTypeOK
<1>2. ExtractionTypeOK'
  BY <1>1 DEF Extracting, ExtractionTypeOK
<1>3. EditsAreKnown'
  BY <1>1 DEF Extracting, EditsAreKnown, NoEdit, NoText
<1>4. QuietIsLoaded'
  <2>1. \A g \in done : g \in SymbolFiles
    BY DEF Extracting, ExtractionTypeOK
  <2> QED
    BY <1>1, <2>1 DEF Extracting, QuietIsLoaded, Grown
<1>5. PlansGrow'
  BY DEF Extracting, PlansGrow, Grown, Collides, NextSymbol
<1>6. PlansAreCounted' /\ PlansAreCommitted'
  BY DEF Extracting, PlansAreCounted, PlansAreCommitted, Planned
<1> QED
  BY <1>2, <1>3, <1>4, <1>5, <1>6 DEF Extracting

LEMMA ContributorKeeps ==
  ASSUME Extracting, NEW f \in SymbolFiles, NEW p \in TargetPairs, StartEdit(f, p) \/ EndEdit
  PROVE  Extracting'
<1>1. /\ texts \in [SymbolFiles -> Texts] /\ edit \in [at : SymbolFiles \cup {"none"}, text : Texts]
      /\ editions \in 0 .. MaxEditions /\ MaxEditions \in Nat
      /\ edit # NoEdit => edit.at \in touched /\ edit.text.state # "absent"
      /\ touched \subseteq SymbolFiles
  BY CatalogExtractionAssumption DEF Extracting, ExtractionTypeOK, EditsAreKnown
<1>2. CASE StartEdit(f, p)
  <2>1. PICK t \in Edited(texts[f], p) : edit' = [at |-> f, text |-> t]
    BY <1>2 DEF StartEdit
  <2>2. t \in Texts /\ t.state # "absent"
    BY <1>1, <1>2, <2>1, EditedTexts DEF StartEdit
  <2>3. /\ texts' = [texts EXCEPT ![f] = TornText] /\ touched' = touched \cup {f}
        /\ UNCHANGED <<run, loaded, done, extractions>>
        /\ editions < MaxEditions /\ editions' = editions + 1
    BY <1>2 DEF StartEdit
  <2>4. editions' \in 0 .. MaxEditions
    BY <1>1, <2>3
  <2>5. TornText \in Texts /\ TornText.offsets = <<>>
    BY StartTexts
  <2>6. /\ edit' \in [at : SymbolFiles \cup {"none"}, text : Texts]
        /\ edit'.at \in touched' /\ edit'.text.state # "absent"
    BY <2>1, <2>2, <2>3
  <2> QED
    BY <2>3, <2>4, <2>5, <2>6, EditKeeps
<1>3. CASE EndEdit
  <2>1. /\ texts' = [texts EXCEPT ![edit.at] = edit.text] /\ touched' = touched \cup {edit.at}
        /\ edit' = NoEdit /\ UNCHANGED <<run, loaded, done, editions, extractions>>
        /\ edit # NoEdit
    BY <1>3 DEF EndEdit
  <2>2. edit.at \in SymbolFiles /\ edit.text \in Texts /\ edit.text.state # "absent"
    BY <1>1, <2>1
  <2>3. edit' \in [at : SymbolFiles \cup {"none"}, text : Texts] /\ editions' \in 0 .. MaxEditions
    BY <1>1, <2>1, StartTexts
  <2> QED
    BY <2>1, <2>2, <2>3, EditKeeps
<1> QED
  BY <1>2, <1>3
------------------------------------------------------------------------------
(* What an extraction does *)

Stages == {"idle", "planning", "reading", "committing", "renaming", "done", "refused"}

LEMMA RunParts ==
  ASSUME run \in Runs
  PROVE  /\ run.stage \in Stages /\ run.pair \in TargetPairs /\ run.resolved \subseteq SymbolIds
         /\ run.todo \subseteq SymbolIds /\ run.seen \subseteq SymbolIds
         /\ run.plans \in Seq([at : SymbolFiles, text : Texts])
         /\ run.committed \in Nat /\ run.counted \in Nat
         /\ Len(run.plans) \in Nat /\ DOMAIN run.plans = 1 .. Len(run.plans)
         /\ \A i \in DOMAIN run.plans :
              run.plans[i].at \in SymbolFiles /\ run.plans[i].text \in Texts
<1>1. /\ run.stage \in Stages /\ run.pair \in TargetPairs /\ run.resolved \subseteq SymbolIds
      /\ run.todo \subseteq SymbolIds /\ run.seen \subseteq SymbolIds
      /\ run.plans \in Seq([at : SymbolFiles, text : Texts])
      /\ run.committed \in Nat /\ run.counted \in Nat
  BY DEF Runs, Stages
<1> DEFINE ps == run.plans
           X == [at : SymbolFiles, text : Texts]
<1>2. \A p \in X : p.at \in SymbolFiles /\ p.text \in Texts
  OBVIOUS
<1> HIDE DEF X
<1>3. ps \in Seq(X)
  BY <1>1 DEF X
<1> HIDE DEF ps
<1>4. Len(ps) \in Nat /\ DOMAIN ps = 1 .. Len(ps) /\ \A i \in DOMAIN ps : ps[i] \in X
  BY <1>3
<1> QED
  BY <1>1, <1>2, <1>4 DEF ps

LEMMA StageParts ==
  ASSUME run \in Runs, NEW st \in Stages
  PROVE  LET r == [run EXCEPT !.stage = st]
         IN  /\ r \in Runs /\ r.stage = st /\ r.pair = run.pair /\ r.resolved = run.resolved
             /\ r.todo = run.todo /\ r.seen = run.seen /\ r.plans = run.plans
             /\ r.committed = run.committed /\ r.counted = run.counted
BY DEF Runs, Stages

LEMMA SeenParts ==
  ASSUME run \in Runs, NEW s \in SymbolIds
  PROVE  LET r == Seen(s)
         IN  /\ r \in Runs /\ r.stage = "planning" /\ r.pair = run.pair
             /\ r.resolved = run.resolved
             /\ r.todo = run.todo \ {s} /\ r.seen = run.seen \cup {s} /\ r.plans = run.plans
             /\ r.committed = run.committed /\ r.counted = run.counted
<1> DEFINE td == run.todo \ {s}
           sn == run.seen \cup {s}
<1>1. td \in SUBSET SymbolIds /\ sn \in SUBSET SymbolIds
  BY RunParts
<1>2. Seen(s) = [[[run EXCEPT !.todo = td] EXCEPT !.seen = sn] EXCEPT !.stage = "planning"]
  BY DEF Seen, Runs
<1> HIDE DEF td, sn
<1> QED
  BY <1>1, <1>2 DEF Runs, td, sn

LEMMA PlanParts ==
  ASSUME run \in Runs, NEW s \in SymbolIds, NEW f \in SymbolFiles, NEW t \in Texts
  PROVE  LET r == Plan(f, t, s)
         IN  /\ r \in Runs /\ r.stage = "planning" /\ r.pair = run.pair
             /\ r.resolved = run.resolved
             /\ r.todo = run.todo \ {s} /\ r.seen = run.seen \cup {s}
             /\ r.plans = Append(run.plans, [at |-> f, text |-> t])
             /\ r.committed = run.committed
             /\ r.counted = run.counted + RecordOffset(s)
<1> DEFINE q == Seen(s)
           ps == Append(run.plans, [at |-> f, text |-> t])
           n == run.counted + RecordOffset(s)
<1>1. /\ q \in Runs /\ q.stage = "planning" /\ q.pair = run.pair /\ q.resolved = run.resolved
      /\ q.todo = run.todo \ {s} /\ q.seen = run.seen \cup {s} /\ q.plans = run.plans
      /\ q.committed = run.committed /\ q.counted = run.counted
  BY SeenParts
<1>2. [at |-> f, text |-> t] \in [at : SymbolFiles, text : Texts]
  OBVIOUS
<1>3. ps \in Seq([at : SymbolFiles, text : Texts]) /\ n \in Nat
  <2>1. RecordOffset(s) \in Nat
    BY DEF RecordOffset
  <2> QED
    BY <1>2, <2>1, RunParts, AppendPlaces
<1> HIDE DEF q
<1>4. Plan(f, t, s) = [[q EXCEPT !.plans = ps] EXCEPT !.counted = n]
  BY <1>1 DEF Plan, q, Runs
<1> HIDE DEF ps, n
<1> QED
  BY <1>1, <1>3, <1>4 DEF Runs, ps, n

LEMMA NextIsOneOfThem ==
  ASSUME run \in Runs, run.todo # {}
  PROVE  NextSymbol \in run.todo /\ NextSymbol \in SymbolIds /\ FileOf(NextSymbol) \in SymbolFiles
<1>1. run.todo \subseteq SymbolIds /\ SymbolIds \subseteq Nat
  BY RunParts, CatalogExtractionAssumption DEF SymbolIds
<1>2. \E x \in run.todo : \A y \in run.todo : x <= y
  BY <1>1, LeastNatural
<1>3. NextSymbol \in run.todo
  BY <1>2 DEF NextSymbol
<1> QED
  BY <1>1, <1>3 DEF SymbolFiles

(* A step that only changes the stage. *)
LEMMA StageKeeps ==
  ASSUME Extracting, NEW st \in Stages, run' = [run EXCEPT !.stage = st],
         UNCHANGED <<texts, edit, loaded, touched, done, editions, extractions>>,
         st = "reading" =>
           /\ run.todo # {} /\ ~Collides(NextSymbol)
           /\ \/ FileOf(NextSymbol) \in touched
              \/ /\ Parses(loaded[FileOf(NextSymbol)])
                 /\ run.pair \notin PairsOf(loaded[FileOf(NextSymbol)]),
         st \in {"planning", "reading", "refused"} => run.committed = 0,
         st \in {"committing", "renaming", "done"} => run.todo = {},
         st = "renaming" => run.committed < Len(run.plans),
         st = "done" => run.committed = Len(run.plans)
  PROVE  Extracting'
<1>1. /\ run' \in Runs /\ run'.stage = st /\ run'.pair = run.pair
      /\ run'.resolved = run.resolved /\ run'.todo = run.todo /\ run'.seen = run.seen
      /\ run'.plans = run.plans /\ run'.committed = run.committed
      /\ run'.counted = run.counted
  <2>1. run \in Runs
    BY DEF Extracting, ExtractionTypeOK
  <2> QED
    BY <2>1, StageParts
<1>2. ExtractionTypeOK'
  BY <1>1 DEF Extracting, ExtractionTypeOK
<1>3. EditsAreKnown' /\ QuietIsLoaded'
  BY DEF Extracting, EditsAreKnown, QuietIsLoaded, Grown
<1>4. PlansGrow'
  <2>1. NextSymbol' = NextSymbol /\ \A s : Collides(s)' = Collides(s)
    BY <1>1 DEF NextSymbol, Collides
  <2>2. \A g, t : Grown(g, t)' = Grown(g, t)
    BY DEF Grown
  <2> QED
    BY <1>1, <2>1, <2>2 DEF Extracting, PlansGrow
<1>5. PlansAreCounted'
  <2>1. Planned' = Planned
    BY <1>1 DEF Planned
  <2> QED
    BY <1>1, <2>1 DEF Extracting, PlansAreCounted
<1>6. PlansAreCommitted'
  BY <1>1 DEF Extracting, PlansAreCommitted
<1> QED
  BY <1>2, <1>3, <1>4, <1>5, <1>6 DEF Extracting

LEMMA ReadLater ==
  ASSUME Extracting, run.stage = "planning", run.todo # {}, ~Collides(NextSymbol),
         Parses(texts[FileOf(NextSymbol)]), ~AlreadyListed(texts[FileOf(NextSymbol)]),
         run' = [run EXCEPT !.stage = "reading"],
         UNCHANGED <<texts, edit, loaded, touched, done, editions, extractions>>
  PROVE  Extracting'
<1> DEFINE f == FileOf(NextSymbol)
<1>1. run \in Runs /\ run.committed = 0 /\ done = {}
  BY DEF Extracting, ExtractionTypeOK, PlansAreCommitted
<1>2. f \in SymbolFiles
  BY <1>1, NextIsOneOfThem
<1>3. f \notin touched => texts[f] = loaded[f]
  BY <1>1, <1>2 DEF Extracting, QuietIsLoaded
<1>4. f \notin touched => Parses(loaded[f]) /\ run.pair \notin PairsOf(loaded[f])
  BY <1>3 DEF AlreadyListed
<1> HIDE DEF f
<1>5. /\ run.todo # {} /\ ~Collides(NextSymbol)
      /\ \/ FileOf(NextSymbol) \in touched
         \/ /\ Parses(loaded[FileOf(NextSymbol)])
            /\ run.pair \notin PairsOf(loaded[FileOf(NextSymbol)])
  BY <1>4 DEF f
<1> QED
  BY <1>1, <1>5, StageKeeps DEF Stages

(* Of the symbols that are seen one by one, one more. *)
LEMMA OneMoreIsSeen ==
  ASSUME run \in Runs, NEW s \in SymbolIds, s \notin run.seen
  PROVE  /\ IsFiniteSet(run.seen) /\ Cardinality(run.seen \cup {s}) = Cardinality(run.seen) + 1
         /\ Cardinality(run.seen) \in Nat
         /\ Cardinality(run.seen \cup {s}) <= LastSymbol
<1>1. IsFiniteSet(SymbolIds) /\ Cardinality(SymbolIds) = LastSymbol
  BY FS_Interval, CatalogExtractionAssumption DEF SymbolIds
<1>2. run.seen \subseteq SymbolIds /\ run.seen \cup {s} \subseteq SymbolIds
  BY RunParts
<1>3. IsFiniteSet(run.seen) /\ Cardinality(run.seen) \in Nat
  BY <1>1, <1>2, FS_Subset, FS_CardinalityType
<1>4. Cardinality(run.seen \cup {s}) <= LastSymbol
  BY <1>1, <1>2, FS_Subset
<1>5. Cardinality(run.seen \cup {s}) = Cardinality(run.seen) + 1
  BY <1>3, FS_AddElement
<1> QED
  BY <1>3, <1>4, <1>5

LEMMA SeenKeeps ==
  ASSUME Extracting, run.stage = "planning", run.todo # {}, ~Collides(NextSymbol),
         run' = Seen(NextSymbol),
         UNCHANGED <<texts, edit, loaded, touched, done, editions, extractions>>
  PROVE  Extracting'
<1> DEFINE s == NextSymbol
<1>1. run \in Runs /\ run.committed = 0
  BY DEF Extracting, ExtractionTypeOK, PlansAreCommitted
<1>2. s \in run.todo /\ s \in SymbolIds
  BY <1>1, NextIsOneOfThem
<1>3. /\ run' \in Runs /\ run'.stage = "planning" /\ run'.pair = run.pair
      /\ run'.resolved = run.resolved /\ run'.todo = run.todo \ {s}
      /\ run'.seen = run.seen \cup {s} /\ run'.plans = run.plans
      /\ run'.committed = run.committed /\ run'.counted = run.counted
  BY <1>1, <1>2, SeenParts
<1>4. ExtractionTypeOK'
  BY <1>3 DEF Extracting, ExtractionTypeOK
<1>5. EditsAreKnown' /\ QuietIsLoaded'
  BY DEF Extracting, EditsAreKnown, QuietIsLoaded, Grown
<1>6. PlansGrow'
  <2>1. \A g, t : Grown(g, t)' = Grown(g, t)
    BY DEF Grown
  <2> HIDE DEF s
  <2> QED
    BY <1>3, <2>1 DEF Extracting, PlansGrow
<1>7. \A r \in run.seen : FileOf(r) # FileOf(s)
  BY DEF Collides
<1> HIDE DEF s
<1>8. PlansAreCounted'
  <2>1. s \notin run.seen
    BY <1>7
  <2>a. Planned' = Planned
    BY <1>3 DEF Planned
  <2>b. Planned \subseteq {FileOf(r) : r \in run.seen}
    BY DEF Extracting, PlansAreCounted
  <2>2. Planned' = Planned /\ FileOf(s) \notin Planned
    BY <1>7, <2>a, <2>b
  <2> DEFINE c == {r \in run.resolved \cap run.seen : FileOf(r) \in Planned}
  <2>3. {r \in run'.resolved \cap run'.seen : FileOf(r) \in Planned'} = c
    BY <1>3, <2>2
  <2>4. run'.counted = Cardinality(c)
    BY <1>3 DEF Extracting, PlansAreCounted
  <2>5. Len(run'.plans) <= Cardinality(run'.seen)
    <3>1. Len(run.plans) <= Cardinality(run.seen) /\ Len(run.plans) \in Nat
      BY <1>1, RunParts DEF Extracting, PlansAreCounted
    <3>2. Cardinality(run.seen \cup {s}) = Cardinality(run.seen) + 1 /\ Cardinality(run.seen) \in Nat
      BY <1>1, <1>2, <2>1, OneMoreIsSeen
    <3> QED
      BY <1>3, <3>1, <3>2
  <2>6. run'.resolved \subseteq run'.todo \cup run'.seen
    BY <1>3 DEF Extracting, PlansAreCounted
  <2>7. Planned' \subseteq {FileOf(r) : r \in run'.seen}
    BY <1>3, <2>2 DEF Extracting, PlansAreCounted
  <2> HIDE DEF c
  <2> QED
    BY <2>3, <2>4, <2>5, <2>6, <2>7 DEF PlansAreCounted
<1>9. PlansAreCommitted'
  BY <1>1, <1>3 DEF Extracting, PlansAreCommitted
<1> QED
  BY <1>4, <1>5, <1>6, <1>8, <1>9 DEF Extracting

(* A text that is planned for a file no other symbol of the run has. *)
LEMMA PlanKeeps ==
  ASSUME Extracting, run.stage \in {"planning", "reading"}, run.todo # {},
         ~Collides(NextSymbol), NEW t \in Texts, t.state # "absent",
         FileOf(NextSymbol) \notin touched => Grown(FileOf(NextSymbol), t),
         run' = Plan(FileOf(NextSymbol), t, NextSymbol),
         UNCHANGED <<texts, edit, loaded, touched, done, editions, extractions>>
  PROVE  Extracting'
<1> DEFINE s == NextSymbol
           f == FileOf(s)
           p == [at |-> f, text |-> t]
           n == Len(run.plans)
<1>1. run \in Runs /\ run.committed = 0 /\ done = {}
  BY DEF Extracting, ExtractionTypeOK, PlansAreCommitted
<1>2. s \in run.todo /\ s \in SymbolIds /\ f \in SymbolFiles
  BY <1>1, NextIsOneOfThem
<1>3. \A r \in run.seen : FileOf(r) # f
  BY DEF Collides
<1>4. f \notin touched => Grown(f, t)
  OBVIOUS
<1>5. /\ run' \in Runs /\ run'.stage = "planning" /\ run'.pair = run.pair
      /\ run'.resolved = run.resolved
      /\ run'.todo = run.todo \ {s} /\ run'.seen = run.seen \cup {s}
      /\ run'.plans = Append(run.plans, p)
      /\ run'.committed = run.committed /\ run'.counted = run.counted + RecordOffset(s)
  BY <1>1, <1>2, PlanParts
<1> HIDE DEF s
<1>6. /\ p.at = f /\ p.text = t /\ p \in [at : SymbolFiles, text : Texts]
  BY <1>2
<1> HIDE DEF f, p
<1>7. /\ n \in Nat /\ DOMAIN run.plans = 1 .. n
      /\ DOMAIN run'.plans = 1 .. n + 1 /\ Len(run'.plans) = n + 1
      /\ run'.plans[n + 1] = p /\ \A i \in 1 .. n : run'.plans[i] = run.plans[i]
  BY <1>1, <1>5, <1>6, RunParts, AppendPlaces
<1>8. DOMAIN run'.plans = DOMAIN run.plans \cup {n + 1}
  <2> HIDE DEF n
  <2> QED
    BY <1>7
<1>9. s \notin run.seen
  BY <1>3 DEF f
<1>10. /\ IsFiniteSet(run.seen) /\ Cardinality(run'.seen) = Cardinality(run.seen) + 1
       /\ Cardinality(run.seen) \in Nat /\ Cardinality(run'.seen) <= LastSymbol
  BY <1>1, <1>2, <1>5, <1>9, OneMoreIsSeen
<1>11. Len(run'.plans) <= Cardinality(run'.seen) /\ Len(run'.plans) <= LastSymbol
  <2>1. n <= Cardinality(run.seen)
    BY DEF Extracting, PlansAreCounted
  <2> HIDE DEF n
  <2> QED
    BY <1>7, <1>10, <2>1, CatalogExtractionAssumption
<1>12. ExtractionTypeOK'
  <2>1. run'.committed <= Len(run'.plans)
    <3> HIDE DEF n
    <3> QED
      BY <1>1, <1>5, <1>7
  <2> QED
    BY <1>5, <1>11, <2>1 DEF Extracting, ExtractionTypeOK
<1>13. EditsAreKnown' /\ QuietIsLoaded'
  BY DEF Extracting, EditsAreKnown, QuietIsLoaded, Grown
<1> HIDE DEF n
<1>14. PlansGrow'
  <2>1. ASSUME NEW i \in DOMAIN run'.plans
        PROVE  /\ run'.plans[i].at \notin touched => Grown(run'.plans[i].at, run'.plans[i].text)
               /\ run'.plans[i].text.state # "absent"
    <3>1. CASE i \in DOMAIN run.plans
      <4>1. run'.plans[i] = run.plans[i]
        BY <1>7, <3>1
      <4> QED
        BY <3>1, <4>1 DEF Extracting, PlansGrow
    <3>2. CASE i = n + 1
      <4>1. run'.plans[i] = p
        BY <1>7, <3>2
      <4> QED
        BY <1>4, <1>6, <4>1
    <3> QED
      BY <1>8, <2>1, <3>1, <3>2
  <2> QED
    BY <1>5, <2>1 DEF PlansGrow, Grown
<1>15. Planned' = Planned \cup {f}
  BY <1>6, <1>7, <1>8 DEF Planned
<1>16. PlansAreCounted'
  <2> DEFINE c == {r \in run.resolved \cap run.seen : FileOf(r) \in Planned}
             d == {r \in run'.resolved \cap run'.seen : FileOf(r) \in Planned'}
  <2>1. d = IF s \in run.resolved THEN c \cup {s} ELSE c
    BY <1>3, <1>5, <1>15 DEF f
  <2>2. s \notin c /\ c \subseteq run.seen
    BY <1>9
  <2>3. run.counted = Cardinality(c)
    BY DEF Extracting, PlansAreCounted
  <2> HIDE DEF c, d
  <2>4. IsFiniteSet(c) /\ Cardinality(c) \in Nat
    BY <1>10, <2>2, FS_Subset, FS_CardinalityType
  <2>5. Cardinality(c \cup {s}) = Cardinality(c) + 1
    BY <2>2, <2>4, FS_AddElement
  <2>6. run'.counted = Cardinality(d)
    BY <1>5, <2>1, <2>3, <2>4, <2>5 DEF RecordOffset
  <2>7. run'.resolved \subseteq run'.todo \cup run'.seen
    BY <1>5 DEF Extracting, PlansAreCounted
  <2>8. Planned' \subseteq {FileOf(r) : r \in run'.seen}
    BY <1>5, <1>15 DEF Extracting, PlansAreCounted, f
  <2> QED
    BY <1>11, <2>6, <2>7, <2>8 DEF PlansAreCounted, d
<1>17. PlansAreCommitted'
  <2>1. {run'.plans[i].at : i \in 1 .. run'.committed} = {}
    BY <1>1, <1>5
  <2> QED
    BY <1>1, <1>5, <2>1 DEF PlansAreCommitted
<1> QED
  BY <1>12, <1>13, <1>14, <1>16, <1>17 DEF Extracting

LEMMA PlanEntryKeeps ==
  ASSUME Extracting, PlanEntry
  PROVE  Extracting'
<1> DEFINE f == FileOf(NextSymbol)
           new == [state |-> "whole", signature |-> "declared", offsets |-> <<Block(NextSymbol)>>]
<1>1. /\ run.stage = "planning" /\ run.todo # {}
      /\ UNCHANGED <<texts, edit, loaded, touched, done, editions, extractions>>
  BY DEF PlanEntry
<1>2. run \in Runs /\ run.committed = 0 /\ done = {}
  BY <1>1 DEF Extracting, ExtractionTypeOK, PlansAreCommitted
<1>3. f \in SymbolFiles
  BY <1>1, <1>2, NextIsOneOfThem
<1>4. CASE Refuse
  <2>1. run' = [run EXCEPT !.stage = "refused"]
    BY <1>4 DEF Refuse
  <2> QED
    BY <1>1, <1>2, <2>1, StageKeeps DEF Stages
<1>5. CASE ~Collides(NextSymbol) /\ texts[f].state = "absent" /\ run' = Plan(f, new, NextSymbol)
  <2>1. Block(NextSymbol) \in Blocks
    BY <1>2, RunParts DEF Block, Blocks
  <2> DEFINE b == Block(NextSymbol)
  <2>2. /\ new.state = "whole" /\ new.signature = "declared" /\ new.offsets = <<b>>
        /\ new \in Texts
    <3> HIDE DEF b
    <3>1. <<b>> \in Seq(Blocks)
      BY <2>1 DEF b
    <3> QED
      BY <3>1 DEF Texts, b
  <2>3. Parses(new) /\ HoldsPairsOnce(new)
    <3> HIDE DEF b
    <3> DEFINE o == <<b>>
    <3>1. \A i, j \in DOMAIN o : i = j
      OBVIOUS
    <3> QED
      BY <2>2, <3>1 DEF Parses, HoldsPairsOnce
  <2>4. f \notin touched => loaded[f] = texts[f]
    BY <1>2, <1>3 DEF Extracting, QuietIsLoaded
  <2>5. f \notin touched => Grown(f, new)
    <3>1. IsPrefix(<<>>, <<b>>)
      <4> HIDE DEF b
      <4>1. <<>> \in Seq(Blocks) /\ <<b>> = Append(<<>>, b)
        OBVIOUS
      <4> QED
        BY <2>1, <4>1, PrefixFacts DEF b
    <3> QED
      BY <1>3, <1>5, <2>2, <2>3, <2>4, <3>1 DEF Extracting, EditsAreKnown, Grown
  <2> HIDE DEF new
  <2> QED
    BY <1>1, <1>5, <2>2, <2>5, PlanKeeps
<1>6. CASE ~Collides(NextSymbol) /\ AlreadyListed(texts[f]) /\ run' = Seen(NextSymbol)
  BY <1>1, <1>6, SeenKeeps
<1>7. CASE /\ ~Collides(NextSymbol) /\ Parses(texts[f]) /\ ~AlreadyListed(texts[f])
           /\ run' = [run EXCEPT !.stage = "reading"]
  BY <1>1, <1>7, ReadLater
<1> QED
  BY <1>4, <1>5, <1>6, <1>7 DEF PlanEntry

LEMMA ReadTextKeeps ==
  ASSUME Extracting, ReadText
  PROVE  Extracting'
<1> DEFINE f == FileOf(NextSymbol)
           t == texts[f]
           b == Block(NextSymbol)
           new == [t EXCEPT !.offsets = Append(@, b)]
<1>1. /\ run.stage = "reading"
      /\ UNCHANGED <<texts, edit, loaded, touched, done, editions, extractions>>
      /\ IF t.state = "absent" THEN Refuse ELSE run' = Plan(f, new, NextSymbol)
  BY DEF ReadText
<1>2. /\ run \in Runs /\ run.committed = 0 /\ done = {}
      /\ run.todo # {} /\ ~Collides(NextSymbol)
      /\ f \notin touched => Parses(loaded[f]) /\ run.pair \notin PairsOf(loaded[f])
  BY <1>1 DEF Extracting, ExtractionTypeOK, PlansAreCommitted, PlansGrow
<1>3. f \in SymbolFiles /\ t \in Texts
  BY <1>2, NextIsOneOfThem DEF Extracting, ExtractionTypeOK
<1>4. b \in Blocks /\ b.pair = run.pair
  BY <1>2, RunParts DEF Block, Blocks
<1>5. CASE t.state = "absent"
  <2>1. run' = [run EXCEPT !.stage = "refused"]
    BY <1>1, <1>5 DEF Refuse
  <2> QED
    BY <1>1, <1>2, <2>1, StageKeeps DEF Stages
<1>6. CASE t.state # "absent"
  <2>1. f \notin touched => t = loaded[f]
    BY <1>2, <1>3 DEF Extracting, QuietIsLoaded
  <2> HIDE DEF b
  <2> DEFINE o == Append(t.offsets, b)
  <2>2. t.offsets \in Seq(Blocks)
    BY <1>3 DEF Texts
  <2>3. o \in Seq(Blocks)
    BY <1>4, <2>2, AppendPlaces
  <2>4. new = [t EXCEPT !.offsets = o]
    OBVIOUS
  <2> HIDE DEF o
  <2>5. new \in Texts /\ new.state # "absent"
    BY <1>3, <1>6, <2>3, <2>4 DEF Texts
  <2> HIDE DEF new, t
  <2>6. f \notin touched => Grown(f, new)
    <3>1. SUFFICES ASSUME f \notin touched PROVE Grown(f, new)
      OBVIOUS
    <3>2. Parses(t) /\ b.pair \notin PairsOf(t) /\ t = loaded[f]
      BY <1>2, <1>4, <2>1, <3>1
    <3>3. /\ new.state = t.state /\ new.signature = t.signature /\ IsPrefix(t.offsets, new.offsets)
          /\ HoldsPairsOnce(t) => HoldsPairsOnce(new)
      BY <1>3, <1>4, <3>2, GrownByBlock DEF new
    <3> QED
      BY <3>2, <3>3 DEF Grown, Parses
  <2> QED
    BY <1>1, <1>2, <1>6, <2>5, <2>6, PlanKeeps
<1> QED
  BY <1>5, <1>6

LEMMA WriteTemporaryFileKeeps ==
  ASSUME Extracting, WriteTemporaryFile
  PROVE  Extracting'
<1> DEFINE st == IF run.committed = Len(run.plans) THEN "done" ELSE "renaming"
<1>1. /\ UNCHANGED <<texts, edit, loaded, touched, done, editions, extractions>>
      /\ run.todo = {} /\ run' = [run EXCEPT !.stage = st]
  BY DEF WriteTemporaryFile
<1>2. run \in Runs /\ run.committed <= Len(run.plans)
  BY DEF Extracting, ExtractionTypeOK
<1>3. run.committed \in Nat /\ Len(run.plans) \in Nat
  BY <1>2, RunParts
<1>4. st = "renaming" => run.committed < Len(run.plans)
  BY <1>2, <1>3
<1>5. st \in {"done", "renaming"} /\ (st = "done" => run.committed = Len(run.plans))
  OBVIOUS
<1> HIDE DEF st
<1> QED
  BY <1>1, <1>4, <1>5, StageKeeps DEF Stages

LEMMA RenameFileKeeps ==
  ASSUME Extracting, RenameFile
  PROVE  Extracting'
<1> DEFINE k == run.committed + 1
           p == run.plans[k]
           q == [run EXCEPT !.stage = "committing"]
<1>1. /\ run.stage = "renaming" /\ texts' = [texts EXCEPT ![p.at] = p.text]
      /\ done' = done \cup {p.at}
      /\ run' = [run EXCEPT !.stage = "committing", !.committed = @ + 1]
      /\ UNCHANGED <<edit, loaded, touched, editions, extractions>>
  BY DEF RenameFile
<1>2. /\ run \in Runs /\ run.committed < Len(run.plans) /\ run.todo = {}
      /\ done = {run.plans[i].at : i \in 1 .. run.committed}
  BY <1>1 DEF Extracting, ExtractionTypeOK, PlansAreCommitted
<1>3. /\ run.committed \in Nat /\ Len(run.plans) \in Nat
      /\ DOMAIN run.plans = 1 .. Len(run.plans)
  BY <1>2, RunParts
<1>4. /\ k \in Nat /\ k \in DOMAIN run.plans /\ k <= Len(run.plans)
      /\ 1 .. k = (1 .. run.committed) \cup {k}
  BY <1>2, <1>3
<1>5. p.at \in SymbolFiles /\ p.text \in Texts
  BY <1>2, <1>4, RunParts
<1>6. p.text.state # "absent" /\ (p.at \notin touched => Grown(p.at, p.text))
  BY <1>4 DEF Extracting, PlansGrow
<1>7. done' = {run.plans[i].at : i \in 1 .. k}
  BY <1>1, <1>2, <1>4
<1>8. /\ q \in Runs /\ q.stage = "committing" /\ q.resolved = run.resolved
      /\ q.todo = run.todo /\ q.seen = run.seen /\ q.plans = run.plans
      /\ q.committed = run.committed /\ q.counted = run.counted
  BY <1>2, StageParts DEF Stages
<1>9. run' = [q EXCEPT !.committed = k]
  BY <1>1, <1>2 DEF Runs
<1> HIDE DEF k, q
<1>10. /\ run' \in Runs /\ run'.stage = "committing" /\ run'.resolved = run.resolved
       /\ run'.todo = run.todo /\ run'.seen = run.seen /\ run'.plans = run.plans
       /\ run'.committed = k /\ run'.counted = run.counted
  BY <1>4, <1>8, <1>9 DEF Runs
<1> DEFINE g == p.at
           t == p.text
<1> HIDE DEF p
<1>11. /\ texts' \in [SymbolFiles -> Texts] /\ texts'[g] = t
       /\ \A f \in SymbolFiles : f # g => texts'[f] = texts[f]
  BY <1>1, <1>5 DEF Extracting, ExtractionTypeOK
<1> HIDE DEF g, t
<1>12. ExtractionTypeOK'
  BY <1>1, <1>4, <1>5, <1>10, <1>11 DEF Extracting, ExtractionTypeOK, g
<1>13. EditsAreKnown'
  <2>1. ASSUME NEW f \in SymbolFiles, texts'[f].state = "absent"
        PROVE  texts'[f].offsets = <<>>
    BY <1>6, <1>11, <2>1 DEF Extracting, EditsAreKnown, t
  <2> QED
    BY <1>1, <2>1 DEF Extracting, EditsAreKnown
<1>14. QuietIsLoaded'
  <2>1. \A f \in SymbolFiles \ touched : f \notin done' => texts'[f] = loaded[f]
    BY <1>1, <1>11 DEF Extracting, QuietIsLoaded, g
  <2>2. \A f \in done' \ touched : Grown(f, texts'[f])
    <3>1. \A f \in done : f \in SymbolFiles
      BY DEF Extracting, ExtractionTypeOK
    <3> QED
      BY <1>1, <1>6, <1>11, <3>1 DEF Extracting, QuietIsLoaded, g, t
  <2> QED
    BY <1>1, <2>1, <2>2 DEF QuietIsLoaded, Grown
<1>15. PlansGrow'
  BY <1>1, <1>10 DEF Extracting, PlansGrow, Grown
<1>16. PlansAreCounted'
  BY <1>10 DEF Extracting, PlansAreCounted, Planned
<1>17. PlansAreCommitted'
  BY <1>2, <1>7, <1>10 DEF PlansAreCommitted
<1> QED
  BY <1>12, <1>13, <1>14, <1>15, <1>16, <1>17 DEF Extracting

LEMMA StopKeeps ==
  ASSUME Extracting, Stop
  PROVE  Extracting'
<1>1. /\ run' = [run EXCEPT !.stage = "idle"]
      /\ UNCHANGED <<texts, edit, loaded, touched, done, editions, extractions>>
  BY DEF Stop
<1> QED
  BY <1>1, StageKeeps DEF Stages

(* A run that starts, or none. *)
Fresh(st, p, sy, rs) ==
  [stage |-> st, pair |-> p, resolved |-> rs, todo |-> sy, seen |-> {}, plans |-> <<>>,
   committed |-> 0, counted |-> 0]

LEMMA FreshRun ==
  ASSUME NEW st, NEW p, NEW sy, NEW rs, st \in {"idle", "planning"}, p \in TargetPairs,
         sy \subseteq SymbolIds, rs \subseteq sy
  PROVE  LET r == Fresh(st, p, sy, rs)
         IN  /\ r \in Runs /\ r.stage = st /\ r.resolved = rs /\ r.todo = sy /\ r.seen = {}
             /\ r.plans = <<>> /\ r.committed = 0 /\ r.counted = 0
             /\ Len(r.plans) = 0 /\ DOMAIN r.plans = {} /\ Cardinality({}) = 0
<1> DEFINE r == Fresh(st, p, sy, rs)
<1>1. <<>> \in Seq([at : SymbolFiles, text : Texts]) /\ rs \in SUBSET SymbolIds
  OBVIOUS
<1>2. r \in Runs
  BY <1>1 DEF Runs, Fresh
<1>3. Cardinality({}) = 0
  BY FS_EmptySet
<1>4. /\ r.stage = st /\ r.resolved = rs /\ r.todo = sy /\ r.seen = {}
      /\ r.plans = <<>> /\ r.committed = 0 /\ r.counted = 0
  BY DEF Fresh
<1>5. Len(r.plans) = 0 /\ DOMAIN r.plans = {}
  BY <1>4
<1> QED
  BY <1>2, <1>3, <1>4, <1>5

LEMMA ExtractKeeps ==
  ASSUME Extracting, NEW p \in TargetPairs, NEW sy \in SUBSET SymbolIds, NEW rs \in SUBSET sy,
         Extract(p, sy, rs)
  PROVE  Extracting'
<1>1. /\ run' = Fresh("planning", p, sy, rs)
      /\ loaded' = texts /\ touched' = {edit.at} \ {"none"} /\ done' = {}
      /\ extractions < MaxExtractions /\ extractions' = extractions + 1
      /\ UNCHANGED <<texts, edit, editions>>
  BY DEF Extract, NoRun, Fresh
<1>2. /\ run' \in Runs /\ run'.stage = "planning" /\ run'.resolved = rs /\ run'.todo = sy
      /\ run'.seen = {} /\ run'.plans = <<>> /\ run'.committed = 0 /\ run'.counted = 0
      /\ Len(run'.plans) = 0 /\ DOMAIN run'.plans = {} /\ Cardinality({}) = 0
  <2>1. sy \subseteq SymbolIds /\ rs \subseteq sy
    OBVIOUS
  <2> QED
    BY <1>1, <2>1, FreshRun
<1>3. /\ edit.at \in SymbolFiles \cup {"none"} /\ texts \in [SymbolFiles -> Texts]
      /\ extractions \in 0 .. MaxExtractions
      /\ edit # NoEdit => edit.at \in SymbolFiles
  BY DEF Extracting, ExtractionTypeOK, EditsAreKnown
<1>4. extractions' \in 0 .. MaxExtractions
  BY <1>1, <1>3, CatalogExtractionAssumption
<1>5. ExtractionTypeOK'
  BY <1>1, <1>2, <1>3, <1>4, CatalogExtractionAssumption DEF Extracting, ExtractionTypeOK
<1>6. EditsAreKnown'
  BY <1>1, <1>3, CatalogExtractionAssumption DEF Extracting, EditsAreKnown, NoEdit, NoText
<1>7. QuietIsLoaded' /\ PlansGrow'
  BY <1>1, <1>2 DEF QuietIsLoaded, PlansGrow
<1>8. PlansAreCounted'
  <2>1. Planned' = {}
    BY <1>2 DEF Planned
  <2>2. {s \in run'.resolved \cap run'.seen : FileOf(s) \in Planned'} = {}
    BY <1>2
  <2> QED
    BY <1>2, <2>1, <2>2 DEF PlansAreCounted
<1>9. PlansAreCommitted'
  BY <1>1, <1>2 DEF PlansAreCommitted
<1> QED
  BY <1>5, <1>6, <1>7, <1>8, <1>9 DEF Extracting

LEMMA ExtractionStarts == ExtractionInit => Extracting
<1>1. SUFFICES ASSUME ExtractionInit PROVE Extracting
  OBVIOUS
<1> DEFINE p == CHOOSE q \in TargetPairs : TRUE
<1>2. p \in TargetPairs
  BY CatalogExtractionAssumption
<1>3. run = Fresh("idle", p, {}, {})
  BY <1>1 DEF ExtractionInit, NoRun, Fresh
<1> HIDE DEF p
<1>4. /\ run \in Runs /\ run.stage = "idle" /\ run.resolved = {} /\ run.todo = {}
      /\ run.seen = {} /\ run.plans = <<>> /\ run.committed = 0 /\ run.counted = 0
      /\ Len(run.plans) = 0 /\ DOMAIN run.plans = {} /\ Cardinality({}) = 0
  BY <1>2, <1>3, FreshRun
<1>5. /\ texts = [f \in SymbolFiles |-> NoText] /\ edit = NoEdit /\ loaded = texts
      /\ touched = {} /\ done = {} /\ editions = 0 /\ extractions = 0
  BY <1>1 DEF ExtractionInit
<1>6. ExtractionTypeOK
  BY <1>4, <1>5, StartTexts, CatalogExtractionAssumption DEF ExtractionTypeOK
<1>7. EditsAreKnown
  BY <1>5, StartTexts DEF EditsAreKnown
<1>8. QuietIsLoaded /\ PlansGrow /\ PlansAreCommitted
  BY <1>4, <1>5 DEF QuietIsLoaded, PlansGrow, PlansAreCommitted
<1>9. PlansAreCounted
  <2>1. {s \in run.resolved \cap run.seen : FileOf(s) \in Planned} = {}
    BY <1>4
  <2>2. Planned = {}
    BY <1>4 DEF Planned
  <2> QED
    BY <1>4, <2>1, <2>2 DEF PlansAreCounted
<1> QED
  BY <1>6, <1>7, <1>8, <1>9 DEF Extracting

LEMMA ExtractionGoesOn == Extracting /\ [ExtractionNext]_extractionVars => Extracting'
<1>1. SUFFICES ASSUME Extracting, [ExtractionNext]_extractionVars PROVE Extracting'
  OBVIOUS
<1>2. ASSUME NEW f \in SymbolFiles, NEW p \in TargetPairs, StartEdit(f, p) PROVE Extracting'
  BY <1>1, <1>2, ContributorKeeps
<1>3. CASE EndEdit
  <2>1. edit.at \in SymbolFiles
    BY <1>1, <1>3 DEF EndEdit, Extracting, EditsAreKnown, ExtractionTypeOK
  <2>2. \E p : p \in TargetPairs
    BY CatalogExtractionAssumption
  <2> QED
    BY <1>1, <1>3, <2>1, <2>2, ContributorKeeps
<1>4. ASSUME NEW p \in TargetPairs, NEW sy \in SUBSET SymbolIds, NEW rs \in SUBSET sy,
             Extract(p, sy, rs)
      PROVE  Extracting'
  BY <1>1, <1>4, ExtractKeeps
<1>5. CASE PlanEntry
  BY <1>1, <1>5, PlanEntryKeeps
<1>6. CASE ReadText
  BY <1>1, <1>6, ReadTextKeeps
<1>7. CASE WriteTemporaryFile
  BY <1>1, <1>7, WriteTemporaryFileKeeps
<1>8. CASE RenameFile
  BY <1>1, <1>8, RenameFileKeeps
<1>9. CASE Stop
  BY <1>1, <1>9, StopKeeps
<1>10. CASE UNCHANGED extractionVars
  <2>1. UNCHANGED <<texts, edit, run, loaded, touched, done, editions, extractions>>
    BY <1>10 DEF extractionVars
  <2>2. ExtractionTypeOK' /\ EditsAreKnown'
    BY <1>1, <2>1 DEF Extracting, ExtractionTypeOK, EditsAreKnown
  <2>3. QuietIsLoaded'
    BY <1>1, <2>1 DEF Extracting, QuietIsLoaded, Grown
  <2>4. PlansGrow'
    <3>1. NextSymbol' = NextSymbol
      BY <2>1 DEF NextSymbol
    <3> QED
      BY <1>1, <2>1, <3>1 DEF Extracting, PlansGrow, Grown, Collides
  <2>5. PlansAreCounted' /\ PlansAreCommitted'
    BY <1>1, <2>1 DEF Extracting, PlansAreCounted, PlansAreCommitted, Planned
  <2> QED
    BY <2>2, <2>3, <2>4, <2>5 DEF Extracting
<1> QED
  BY <1>1, <1>2, <1>3, <1>4, <1>5, <1>6, <1>7, <1>8, <1>9, <1>10 DEF ExtractionNext

LEMMA ExtractingIsFaithful == Extracting => ExtractionIsFaithful
<1>1. SUFFICES ASSUME Extracting PROVE ExtractionIsFaithful
  OBVIOUS
<1>2. QuietFilesOnlyGrow
  <2>1. ASSUME NEW f \in SymbolFiles \ touched PROVE Grown(f, texts[f])
    <3>1. CASE f \in done
      BY <1>1, <3>1 DEF Extracting, QuietIsLoaded
    <3>2. CASE f \notin done
      <4>1. texts[f] = loaded[f] /\ loaded[f] \in Texts
        BY <1>1, <3>2 DEF Extracting, QuietIsLoaded, ExtractionTypeOK
      <4> QED
        BY <4>1, GrownItself
    <3> QED
      BY <3>1, <3>2
  <2> QED
    BY <2>1 DEF QuietFilesOnlyGrow, Grown
<1>3. run.stage = "refused" => done = {}
  BY <1>1 DEF Extracting, PlansAreCommitted
<1>4. ASSUME run.stage = "done"
      PROVE  run.counted = Cardinality({s \in run.resolved : FileOf(s) \in done})
  <2>1. run.todo = {} /\ run.committed = Len(run.plans) /\ run \in Runs
    BY <1>1, <1>4 DEF Extracting, PlansAreCommitted, ExtractionTypeOK
  <2>2. done = Planned
    BY <1>1, <2>1, RunParts DEF Extracting, PlansAreCommitted, Planned
  <2>3. run.resolved \subseteq run.seen
    BY <1>1, <2>1 DEF Extracting, PlansAreCounted
  <2>4. {s \in run.resolved : FileOf(s) \in done}
          = {s \in run.resolved \cap run.seen : FileOf(s) \in Planned}
    BY <2>2, <2>3
  <2> QED
    BY <1>1, <2>4 DEF Extracting, PlansAreCounted
<1> QED
  BY <1>2, <1>3, <1>4 DEF ExtractionIsFaithful, ReportsWhatItWrote

(* Contributors edit the catalog and runs are killed at any moment: a file *)
(* that nobody edits during a run only grows by what the run found, a run  *)
(* that is refused has written nothing, and the report counts what was     *)
(* written.                                                                *)
THEOREM ExtractionStaysFaithful == ExtractionSpec => []ExtractionIsFaithful
BY ExtractionStarts, ExtractionGoesOn, ExtractingIsFaithful, PTL DEF ExtractionSpec

(* Whatever the interleaving, files, plans and report keep their types, and *)
(* a run has no more plans than symbols.                                    *)
THEOREM ExtractionIsTyped == ExtractionSpec => []ExtractionTypeOK
<1>1. Extracting => ExtractionTypeOK
  BY DEF Extracting
<1> QED
  BY <1>1, ExtractionStarts, ExtractionGoesOn, PTL DEF ExtractionSpec
------------------------------------------------------------------------------
(* The headers of the SDK *)

(* What a command holds is what compiling its inputs gives. *)
Compiled(r) ==
  /\ r.catalog \in SurfaceCatalogs /\ ParsesManifest(r.manifest)
  /\ CompileSurface(r.manifest, r.catalog).ok
  /\ r.elements = CompileSurface(r.manifest, r.catalog).elements

(* The first n files hold what the elements give. *)
Written(n, elements) ==
  \A i \in 1 .. n : headers[SurfaceFiles[i]].content = Artifact(SurfaceFiles[i], elements)

SurfaceShape ==
  /\ surface = [stage |-> surface.stage, manifest |-> surface.manifest, catalog |-> surface.catalog,
                elements |-> surface.elements, next |-> surface.next, last |-> surface.last]
  /\ outcome = [said |-> outcome.said, last |-> outcome.last, elements |-> outcome.elements,
                manifest |-> outcome.manifest, catalog |-> outcome.catalog]
  /\ headers = [f \in ToSet(SurfaceFiles) |-> headers[f]]

SurfaceIsWritten ==
  /\ inputs \in [manifest : SurfaceManifests, catalog : SurfaceCatalogs]
  /\ surface.last \in {0, 1, 4} /\ surface.next \in 1 .. surface.last + 1
  /\ surface.stage = "compiling" => surface.next = 1
  /\ surface.stage = "writing" =>
       Compiled(surface) /\ Written(surface.next - 1, surface.elements)
  /\ surface.stage = "idle" /\ outcome.said = "done" =>
       Compiled(outcome) /\ Written(outcome.last, outcome.elements)

Surfacing == SurfaceShape /\ SurfaceIsWritten

LEMMA FilesOfTheSurface ==
  /\ DOMAIN SurfaceFiles = 1 .. 4
  /\ \A i \in 1 .. 4 : SurfaceFiles[i] \in ToSet(SurfaceFiles)
  /\ \A i, j \in 1 .. 4 : SurfaceFiles[i] = SurfaceFiles[j] => i = j
  /\ SurfaceFiles[2] = "types.gen.hpp" /\ SurfaceFiles[3] = "bindings.gen.hpp"
  /\ SurfaceFiles[4] = "hooks.gen.hpp"
<1>1. DOMAIN SurfaceFiles = 1 .. 4 /\ 1 .. 4 = {1, 2, 3, 4}
  BY DEF SurfaceFiles
<1>2. /\ SurfaceFiles[1] = "surface.ir.json" /\ SurfaceFiles[2] = "types.gen.hpp"
      /\ SurfaceFiles[3] = "bindings.gen.hpp" /\ SurfaceFiles[4] = "hooks.gen.hpp"
  BY DEF SurfaceFiles
<1>3. \A i \in 1 .. 4 : SurfaceFiles[i] \in ToSet(SurfaceFiles)
  BY <1>1 DEF ToSet
<1>4. \A i, j \in 1 .. 4 : SurfaceFiles[i] = SurfaceFiles[j] => i = j
  BY <1>1, <1>2
<1> QED
  BY <1>1, <1>2, <1>3, <1>4

(* One element for every method that is selected and known. *)
LEMMA ElementsAreTheKnown ==
  ASSUME NEW m, NEW c \in SurfaceCatalogs, NEW es, es = CompileSurface(m, c).elements
  PROVE  LET known == Names(m.methods) \cap DOMAIN c
         IN  /\ {e.token : e \in es} = {CppTokenOf(s) : s \in known}
             /\ \A e \in es : e.symbol \in known /\ e.token = CppTokenOf(e.symbol)
                                /\ Len(e.types) = Len(c[e.symbol])
<1> DEFINE known == Names(m.methods) \cap DOMAIN c
           sel == Selected(m, c)
<1>1. es = {Element(m, x, c) : x \in sel}
  BY DEF CompileSurface
<1>2. known = {x.symbol : x \in sel}
  BY DEF Selected, Names, ToSet
<1>3. ASSUME NEW x \in sel
      PROVE  LET e == Element(m, x, c)
             IN  e.symbol = x.symbol /\ e.token = CppTokenOf(x.symbol) /\ Len(e.types) = Len(c[x.symbol])
  <2> DEFINE q == c[x.symbol]
             ts == [i \in DOMAIN q |-> MapType(q[i], m.typeMap)]
             n == Len(q)
  <2>1. q \in Seq(CppTypes)
    <3>1. x.symbol \in DOMAIN c
      BY DEF Selected
    <3> QED
      BY <3>1, SurfaceAssumption
  <2> HIDE DEF q
  <2>2. n \in Nat /\ DOMAIN q = 1 .. n
    BY <2>1
  <2>3. DOMAIN ts = 1 .. n /\ ts = [i \in 1 .. n |-> ts[i]]
    BY <2>2
  <2>4. Element(m, x, c) = [symbol |-> x.symbol, token |-> CppTokenOf(x.symbol), types |-> ts,
                           hook |-> x.hook]
    BY DEF Element, q
  <2> HIDE DEF ts, n
  <2>5. Len(ts) = n
    BY <2>2, <2>3
  <2> QED
    BY <2>4, <2>5 DEF n, q
<1> HIDE DEF sel, known
<1>4. {e.token : e \in es} = {CppTokenOf(s) : s \in known}
  BY <1>1, <1>2, <1>3
<1>5. \A e \in es : e.symbol \in known /\ e.token = CppTokenOf(e.symbol)
                      /\ Len(e.types) = Len(c[e.symbol])
  BY <1>1, <1>2, <1>3
<1> QED
  BY <1>4, <1>5 DEF known

LEMMA HeadersFit ==
  ASSUME Surfacing
  PROVE  HeadersFitTogether
<1>1. SUFFICES ASSUME outcome.said = "done", outcome.last = 4, surface.stage = "idle"
      PROVE  LET known == Names(outcome.manifest.methods) \cap DOMAIN outcome.catalog
                 bindings == headers["bindings.gen.hpp"].content
             IN  /\ {b.token : b \in bindings} = {CppTokenOf(s) : s \in known}
                 /\ \A b \in bindings : \E s \in known :
                      CppTokenOf(s) = b.token /\ Len(b.fn) = Len(outcome.catalog[s])
                 /\ \A b \in bindings : \A i \in DOMAIN b.fn :
                      b.fn[i].opaque => b.fn[i].pointee \in headers["types.gen.hpp"].content
                 /\ \A h \in headers["hooks.gen.hpp"].content :
                      [token |-> CppTokenOf(h.symbol), fn |-> h.fn] \in bindings
                 /\ LintSurface(outcome.manifest, outcome.catalog) \subseteq {"missing"}
  BY DEF HeadersFitTogether
<1> DEFINE m == outcome.manifest
           c == outcome.catalog
           es == outcome.elements
           known == Names(m.methods) \cap DOMAIN c
           types == headers["types.gen.hpp"].content
           bindings == headers["bindings.gen.hpp"].content
           hooks == headers["hooks.gen.hpp"].content
<1>2. Compiled(outcome) /\ Written(4, es)
  BY <1>1 DEF Surfacing, SurfaceIsWritten
<1>3. /\ types = RenderTypesHeader(es) /\ bindings = RenderBindingsHeader(es)
      /\ hooks = RenderHooksHeader(es)
  <2>1. \A i \in {2, 3, 4} : headers[SurfaceFiles[i]].content = Artifact(SurfaceFiles[i], es)
    BY <1>2 DEF Written
  <2>2. /\ types = Artifact("types.gen.hpp", es) /\ bindings = Artifact("bindings.gen.hpp", es)
        /\ hooks = Artifact("hooks.gen.hpp", es)
    BY <2>1, FilesOfTheSurface
  <2> QED
    BY <2>2 DEF Artifact
<1>4. /\ {e.token : e \in es} = {CppTokenOf(s) : s \in known}
      /\ \A e \in es : e.symbol \in known /\ e.token = CppTokenOf(e.symbol)
                         /\ Len(e.types) = Len(c[e.symbol])
  BY <1>2, ElementsAreTheKnown DEF Compiled
<1>5. LintSurface(m, c) \subseteq {"missing"}
  BY <1>2 DEF Compiled, LintSurface
<1> HIDE DEF m, c, es, known, types, bindings, hooks
<1>6. bindings = {[token |-> e.token, fn |-> e.types] : e \in es}
  BY <1>3 DEF RenderBindingsHeader
<1>7. {b.token : b \in bindings} = {CppTokenOf(s) : s \in known}
  <2>1. \A b \in bindings : \E e \in es : b.token = e.token
    BY <1>6
  <2>2. ASSUME NEW e \in es PROVE \E b \in bindings : b.token = e.token
    <3>1. [token |-> e.token, fn |-> e.types] \in bindings
      BY <1>6
    <3> QED
      BY <3>1
  <2>3. {b.token : b \in bindings} = {e.token : e \in es}
    BY <2>1, <2>2
  <2> QED
    BY <1>4, <2>3
<1>8. \A b \in bindings : \E s \in known : CppTokenOf(s) = b.token /\ Len(b.fn) = Len(c[s])
  BY <1>4, <1>6
<1>9. \A b \in bindings : \A i \in DOMAIN b.fn : b.fn[i].opaque => b.fn[i].pointee \in types
  BY <1>3, <1>6 DEF RenderTypesHeader, CollectOpaquePointees
<1>10. \A h \in hooks : [token |-> CppTokenOf(h.symbol), fn |-> h.fn] \in bindings
  <2>1. ASSUME NEW h \in hooks PROVE [token |-> CppTokenOf(h.symbol), fn |-> h.fn] \in bindings
    <3>1. PICK e \in es : h = [symbol |-> e.symbol, fn |-> e.types]
      BY <1>3 DEF RenderHooksHeader
    <3>2. e.token = CppTokenOf(h.symbol) /\ h.fn = e.types
      BY <1>4, <3>1
    <3> QED
      BY <1>6, <3>2
  <2> QED
    BY <2>1
<1> QED
  BY <1>5, <1>7, <1>8, <1>9, <1>10 DEF m, c, known, types, bindings, hooks

LEMMA EndKeeps ==
  ASSUME Surfacing, NEW said, EndSurface(said), UNCHANGED <<inputs, headers>>,
         said = "done" => surface.stage = "writing" /\ surface.next > surface.last
  PROVE  Surfacing'
<1>1. /\ surface' = [stage |-> "idle", manifest |-> surface.manifest, catalog |-> surface.catalog,
                     elements |-> surface.elements, next |-> surface.next, last |-> surface.last]
      /\ outcome' = [said |-> said, last |-> surface.last, elements |-> surface.elements,
                     manifest |-> surface.manifest, catalog |-> surface.catalog]
  BY DEF EndSurface, Surfacing, SurfaceShape
<1>2. SurfaceShape'
  BY <1>1 DEF Surfacing, SurfaceShape
<1>3. surface.last \in {0, 1, 4} /\ surface.next \in 1 .. surface.last + 1
  BY DEF Surfacing, SurfaceIsWritten
<1>4. ASSUME said = "done"
      PROVE  Compiled(outcome') /\ Written(outcome'.last, outcome'.elements)
  <2>1. surface.next - 1 = surface.last
    BY <1>3, <1>4
  <2>2. Compiled(surface) /\ Written(surface.last, surface.elements)
    BY <1>4, <2>1 DEF Surfacing, SurfaceIsWritten
  <2> QED
    BY <1>1, <2>2 DEF Compiled
<1>5. SurfaceIsWritten'
  BY <1>1, <1>3, <1>4 DEF Surfacing, SurfaceIsWritten, Written, Compiled
<1> QED
  BY <1>2, <1>5 DEF Surfacing

LEMMA SurfaceStarts == SurfaceInit => Surfacing
<1>1. SUFFICES ASSUME SurfaceInit PROVE Surfacing
  OBVIOUS
<1>2. /\ surface = [stage |-> "idle", manifest |-> inputs.manifest, catalog |-> inputs.catalog,
                    elements |-> {}, next |-> 1, last |-> 0]
      /\ outcome = [said |-> "nothing", last |-> 0, elements |-> {}, manifest |-> inputs.manifest,
                    catalog |-> inputs.catalog]
      /\ headers = [f \in ToSet(SurfaceFiles) |-> [there |-> FALSE, content |-> {}]]
      /\ inputs \in [manifest : SurfaceManifests, catalog : SurfaceCatalogs]
  BY <1>1 DEF SurfaceInit, NoSurface
<1>3. SurfaceShape
  BY <1>2 DEF SurfaceShape
<1>4. SurfaceIsWritten
  BY <1>2 DEF SurfaceIsWritten
<1> QED
  BY <1>3, <1>4 DEF Surfacing

LEMMA CompileKeeps ==
  ASSUME Surfacing, NEW strict \in BOOLEAN, Compile(strict)
  PROVE  Surfacing'
<1> DEFINE c == CompileSurface(surface.manifest, inputs.catalog)
           read == [surface EXCEPT !.catalog = inputs.catalog, !.elements = c.elements,
                                   !.stage = "writing"]
<1>1. surface.stage = "compiling" /\ UNCHANGED <<inputs, headers, surfaceChanges>>
  BY DEF Compile
<1>2. CASE EndSurface("failed")
  BY <1>1, <1>2, EndKeeps
<1>3. CASE EndSurface("strict")
  BY <1>1, <1>3, EndKeeps
<1>4. CASE ParsesManifest(surface.manifest) /\ c.ok /\ surface' = read /\ UNCHANGED outcome
  <2> DEFINE es == c.elements
  <2>1. read = [stage |-> "writing", manifest |-> surface.manifest, catalog |-> inputs.catalog,
                elements |-> es, next |-> surface.next, last |-> surface.last]
    <3> DEFINE k == inputs.catalog
               one == [surface EXCEPT !.catalog = k]
               two == [one EXCEPT !.elements = es]
    <3>1. read = [two EXCEPT !.stage = "writing"]
      OBVIOUS
    <3> HIDE DEF c, es, k
    <3>2. one = [stage |-> surface.stage, manifest |-> surface.manifest, catalog |-> k,
                 elements |-> surface.elements, next |-> surface.next, last |-> surface.last]
      BY DEF Surfacing, SurfaceShape
    <3> HIDE DEF one
    <3>3. two = [stage |-> surface.stage, manifest |-> surface.manifest, catalog |-> k,
                 elements |-> es, next |-> surface.next, last |-> surface.last]
      BY <3>2
    <3> HIDE DEF two, read
    <3> QED
      BY <3>1, <3>3 DEF k
  <2>2. surface.next = 1 /\ inputs.catalog \in SurfaceCatalogs
    BY <1>1 DEF Surfacing, SurfaceIsWritten
  <2> HIDE DEF read, es
  <2>3. /\ surface'.stage = "writing" /\ surface'.manifest = surface.manifest
        /\ surface'.catalog = inputs.catalog /\ surface'.elements = es
        /\ surface'.next = 1 /\ surface'.last = surface.last
    BY <1>4, <2>1, <2>2
  <2>4. SurfaceShape'
    BY <1>1, <1>4, <2>1 DEF Surfacing, SurfaceShape
  <2>5. Compiled(surface)'
    BY <1>4, <2>2, <2>3 DEF Compiled, es
  <2>6. Written(surface.next - 1, surface.elements)'
    BY <2>3 DEF Written
  <2>7. SurfaceIsWritten'
    BY <1>1, <2>3, <2>5, <2>6 DEF Surfacing, SurfaceIsWritten
  <2> QED
    BY <2>4, <2>7 DEF Surfacing
<1> QED
  BY <1>2, <1>3, <1>4 DEF Compile

LEMMA WriteArtifactKeeps ==
  ASSUME Surfacing, WriteArtifact
  PROVE  Surfacing'
<1> DEFINE n == surface.next
           f == SurfaceFiles[n]
           a == Artifact(f, surface.elements)
           h == [there |-> TRUE, content |-> a]
<1>1. /\ surface.stage = "writing" /\ n <= surface.last
      /\ headers' = [headers EXCEPT ![f] = h]
      /\ surface' = [surface EXCEPT !.next = n + 1]
      /\ UNCHANGED <<inputs, outcome, surfaceChanges>>
  BY DEF WriteArtifact
<1>2. /\ surface.last \in {0, 1, 4} /\ n \in 1 .. surface.last + 1
      /\ Compiled(surface) /\ Written(n - 1, surface.elements)
  BY <1>1 DEF Surfacing, SurfaceIsWritten
<1>3. n \in 1 .. 4 /\ n + 1 \in 1 .. surface.last + 1 /\ 1 .. n \subseteq 1 .. 4
  BY <1>1, <1>2
<1>4. f \in ToSet(SurfaceFiles) /\ \A i \in 1 .. n - 1 : SurfaceFiles[i] # f
  BY <1>2, <1>3, FilesOfTheSurface
<1>5. surface' = [stage |-> "writing", manifest |-> surface.manifest, catalog |-> surface.catalog,
                  elements |-> surface.elements, next |-> n + 1, last |-> surface.last]
  BY <1>1 DEF Surfacing, SurfaceShape
<1>6. h.content = a
  OBVIOUS
<1> HIDE DEF a, h, f
<1>7. /\ headers'[f] = h
      /\ \A g \in ToSet(SurfaceFiles) : g # f => headers'[g] = headers[g]
      /\ headers' = [g \in ToSet(SurfaceFiles) |-> headers'[g]]
  BY <1>1, <1>4 DEF Surfacing, SurfaceShape
<1>8. SurfaceShape'
  BY <1>1, <1>5, <1>7 DEF Surfacing, SurfaceShape
<1>9. ASSUME NEW i \in 1 .. n
      PROVE  headers'[SurfaceFiles[i]].content = Artifact(SurfaceFiles[i], surface.elements)
  <2>1. CASE i = n
    BY <1>6, <1>7, <2>1 DEF a, f
  <2>2. CASE i # n
    <3>1. i \in 1 .. n - 1 /\ SurfaceFiles[i] \in ToSet(SurfaceFiles)
      BY <1>3, <2>2, FilesOfTheSurface
    <3> QED
      BY <1>2, <1>4, <1>7, <3>1 DEF Written
  <2> QED
    BY <2>1, <2>2
<1>10. Written(surface.next - 1, surface.elements)'
  BY <1>3, <1>5, <1>9 DEF Written
<1>11. Compiled(surface)'
  BY <1>2, <1>5 DEF Compiled
<1>12. SurfaceIsWritten'
  BY <1>1, <1>3, <1>5, <1>10, <1>11 DEF Surfacing, SurfaceIsWritten
<1> QED
  BY <1>8, <1>12 DEF Surfacing

LEMMA SurfaceGoesOn == Surfacing /\ [SurfaceNext]_surfaceVars => Surfacing'
<1>1. SUFFICES ASSUME Surfacing, [SurfaceNext]_surfaceVars PROVE Surfacing'
  OBVIOUS
<1>2. CASE ChangeInputs
  <2>1. inputs' \in [manifest : SurfaceManifests, catalog : SurfaceCatalogs]
    BY <1>1, <1>2 DEF ChangeInputs, Surfacing, SurfaceIsWritten
  <2> QED
    BY <1>1, <1>2, <2>1
       DEF ChangeInputs, Surfacing, SurfaceShape, SurfaceIsWritten, Compiled, Written
<1>3. ASSUME NEW last \in {1, 4}, StartSurface(last) PROVE Surfacing'
  <2>1. /\ surface' = [stage |-> "compiling", manifest |-> inputs.manifest,
                       catalog |-> inputs.catalog, elements |-> {}, next |-> 1, last |-> last]
        /\ UNCHANGED <<inputs, headers>>
    BY <1>3 DEF StartSurface, NoSurface
  <2>2. outcome' = [said |-> "nothing", last |-> outcome.last, elements |-> outcome.elements,
                    manifest |-> outcome.manifest, catalog |-> outcome.catalog]
    BY <1>1, <1>3 DEF StartSurface, Surfacing, SurfaceShape
  <2>3. SurfaceShape'
    BY <1>1, <2>1, <2>2 DEF Surfacing, SurfaceShape
  <2>4. SurfaceIsWritten'
    BY <1>1, <2>1, <2>2 DEF Surfacing, SurfaceIsWritten
  <2> QED
    BY <2>3, <2>4 DEF Surfacing
<1>4. ASSUME NEW strict \in BOOLEAN, Compile(strict) PROVE Surfacing'
  BY <1>1, <1>4, CompileKeeps
<1>5. CASE WriteArtifact
  BY <1>1, <1>5, WriteArtifactKeeps
<1>6. CASE ReportSurface
  BY <1>1, <1>6, EndKeeps DEF ReportSurface
<1>7. CASE StopSurface
  BY <1>1, <1>7, EndKeeps DEF StopSurface
<1>8. CASE UNCHANGED surfaceVars
  BY <1>1, <1>8 DEF surfaceVars, Surfacing, SurfaceShape, SurfaceIsWritten, Compiled, Written
<1> QED
  BY <1>1, <1>2, <1>3, <1>4, <1>5, <1>6, <1>7, <1>8 DEF SurfaceNext

(* Whatever is generated, refused, cut off or changed before: after a      *)
(* generation that ends well the headers fit together, and the catalog and *)
(* the manifest that it read.                                              *)
THEOREM HeadersStayTogether == SurfaceSpec => []HeadersFitTogether
BY SurfaceStarts, SurfaceGoesOn, HeadersFit, PTL DEF SurfaceSpec

(* The files, the stages and the reports keep their types. *)
LEMMA SurfaceKeepsTypes ==
  ASSUME Surfacing, SurfaceTypeOK, [SurfaceNext]_surfaceVars
  PROVE  SurfaceTypeOK'
<1>1. Surfacing'
  BY SurfaceGoesOn
<1>2. /\ inputs'.manifest \in SurfaceManifests /\ inputs'.catalog \in SurfaceCatalogs
      /\ surface'.next \in 1 .. surface'.last + 1 /\ surface'.last \in {0, 1, 4}
      /\ DOMAIN headers' = ToSet(SurfaceFiles)
  BY <1>1 DEF Surfacing, SurfaceIsWritten, SurfaceShape
<1> DEFINE Typed == /\ \A f \in DOMAIN headers' : DOMAIN headers'[f] = {"there", "content"}
                    /\ surface'.stage \in {"idle", "compiling", "writing"}
                    /\ outcome'.said \in {"nothing", "failed", "strict", "done"}
<1> SUFFICES Typed
  BY <1>2 DEF SurfaceTypeOK
<1>3. /\ headers = [f \in ToSet(SurfaceFiles) |-> headers[f]]
      /\ surface = [stage |-> surface.stage, manifest |-> surface.manifest,
                    catalog |-> surface.catalog, elements |-> surface.elements,
                    next |-> surface.next, last |-> surface.last]
      /\ outcome = [said |-> outcome.said, last |-> outcome.last, elements |-> outcome.elements,
                    manifest |-> outcome.manifest, catalog |-> outcome.catalog]
  BY DEF Surfacing, SurfaceShape
<1>4. ASSUME NEW said \in {"failed", "strict", "done"}, EndSurface(said), UNCHANGED headers
      PROVE  Typed
  BY <1>3, <1>4 DEF EndSurface, SurfaceTypeOK
<1>5. CASE ChangeInputs
  BY <1>5 DEF ChangeInputs, SurfaceTypeOK
<1>6. ASSUME NEW last, StartSurface(last) PROVE Typed
  <2>1. surface'.stage = "compiling"
    BY <1>6 DEF StartSurface, NoSurface
  <2>2. outcome'.said = "nothing" /\ UNCHANGED headers
    BY <1>3, <1>6 DEF StartSurface
  <2> QED
    BY <2>1, <2>2 DEF SurfaceTypeOK
<1>7. ASSUME NEW strict, Compile(strict) PROVE Typed
  <2>1. UNCHANGED headers
    BY <1>7 DEF Compile
  <2>2. CASE EndSurface("failed") \/ EndSurface("strict")
    BY <1>4, <2>1, <2>2
  <2>3. CASE surface'.stage = "writing" /\ UNCHANGED outcome
    BY <2>1, <2>3 DEF SurfaceTypeOK
  <2>4. EndSurface("failed") \/ EndSurface("strict") \/ (surface'.stage = "writing" /\ UNCHANGED outcome)
    <3> DEFINE c == inputs.catalog
               es == CompileSurface(surface.manifest, c).elements
               one == [surface EXCEPT !.catalog = c]
               two == [one EXCEPT !.elements = es]
               read == [two EXCEPT !.stage = "writing"]
    <3>1. EndSurface("failed") \/ EndSurface("strict") \/ (surface' = read /\ UNCHANGED outcome)
      BY <1>7 DEF Compile
    <3> HIDE DEF c, es
    <3>2. one = [stage |-> surface.stage, manifest |-> surface.manifest, catalog |-> c,
                 elements |-> surface.elements, next |-> surface.next, last |-> surface.last]
      BY <1>3
    <3> HIDE DEF one
    <3>3. read.stage = "writing"
      BY <3>2
    <3> HIDE DEF read
    <3> QED
      BY <3>1, <3>3
  <2> QED
    BY <2>2, <2>3, <2>4
<1>8. CASE WriteArtifact
  <2> DEFINE f == SurfaceFiles[surface.next]
             h == [there |-> TRUE, content |-> Artifact(f, surface.elements)]
  <2>1. headers' = [headers EXCEPT ![f] = h] /\ DOMAIN h = {"there", "content"}
    BY <1>8 DEF WriteArtifact
  <2> HIDE DEF f, h
  <2>2. \A g \in DOMAIN headers' : DOMAIN headers'[g] = {"there", "content"}
    BY <2>1 DEF SurfaceTypeOK
  <2>3. surface'.stage = surface.stage /\ UNCHANGED outcome
    BY <1>3, <1>8 DEF WriteArtifact
  <2> QED
    BY <2>2, <2>3 DEF SurfaceTypeOK
<1>9. CASE ReportSurface
  BY <1>4, <1>9 DEF ReportSurface
<1>10. CASE StopSurface
  BY <1>4, <1>10 DEF StopSurface
<1>11. CASE UNCHANGED surfaceVars
  BY <1>11 DEF surfaceVars, SurfaceTypeOK
<1> HIDE DEF Typed
<1> QED
  BY <1>5, <1>6, <1>7, <1>8, <1>9, <1>10, <1>11 DEF SurfaceNext

(* Commands, changes and kills leave whole headers, if any. *)
THEOREM SurfaceIsTyped == SurfaceSpec => []SurfaceTypeOK
<1>1. SurfaceInit => SurfaceTypeOK
  BY DEF SurfaceInit, SurfaceTypeOK, NoSurface
<1> QED
  BY <1>1, SurfaceStarts, SurfaceGoesOn, SurfaceKeepsTypes, PTL DEF SurfaceSpec
------------------------------------------------------------------------------
(* The reference behind the firewall *)

Text == INSTANCE PbindFormat

(* Whoever wrote the file of reference addresses, and whatever it holds: a *)
(* line of source anywhere in it confirms no address, and what it confirms *)
(* is what it says, of that pair or of none.                               *)
THEOREM ReferencesConfirmOnlyTheirs ==
  \A lines, of, pair, symbol, candidate :
    Text!ReferencesConfirmWhatTheySay(lines, of, pair, symbol, candidate)
<1>1. SUFFICES ASSUME NEW lines, NEW of, NEW pair, NEW symbol, NEW candidate
      PROVE  Text!ReferencesConfirmWhatTheySay(lines, of, pair, symbol, candidate)
  OBVIOUS
<1> DEFINE ref == Text!ParseGeodeReference(lines, of)
           answer == Text!CrossCheck(candidate, ref, pair, symbol)
           clean == /\ Text!ScanForSourceTokens(lines)
                    /\ \A i \in DOMAIN lines : lines[i].key # "" /\ lines[i].numeric
                    /\ \A i, j \in DOMAIN lines : i # j => lines[i].key # lines[j].key
           entries == {<<lines[i].key, lines[i].number>> : i \in DOMAIN lines}
<1>2. CASE ~clean
  <2>1. ~ref.ok
    BY <1>2 DEF Text!ParseGeodeReference, Text!RejectedReference
  <2>2. answer = "Rejected"
    BY <2>1 DEF Text!CrossCheck
  <2> QED
    BY <2>2 DEF Text!ReferencesConfirmWhatTheySay, Text!ForcesVerifiedFalse
<1>3. CASE clean
  <2>1. ref = [ok |-> TRUE, pair |-> of, entries |-> entries]
    BY <1>3 DEF Text!ParseGeodeReference
  <2>2. ~\E i \in DOMAIN lines : lines[i].source
    BY <1>3 DEF Text!ScanForSourceTokens
  <2> HIDE DEF ref
  <2>3. answer # "Discordant" => of \in {Text!NoPair, pair} /\ <<symbol, candidate>> \in entries
    BY <2>1 DEF Text!CrossCheck
  <2>4. ASSUME ~Text!ForcesVerifiedFalse(answer)
        PROVE  /\ of \in {Text!NoPair, pair}
               /\ \A i \in DOMAIN lines : lines[i].key = symbol => lines[i].number = candidate
               /\ \E i \in DOMAIN lines : lines[i].key = symbol
    <3>1. of \in {Text!NoPair, pair} /\ <<symbol, candidate>> \in entries
      BY <2>3, <2>4 DEF Text!ForcesVerifiedFalse
    <3>2. PICK k \in DOMAIN lines : <<symbol, candidate>> = <<lines[k].key, lines[k].number>>
      BY <3>1
    <3>3. lines[k].key = symbol /\ lines[k].number = candidate
      BY <3>2
    <3>4. \A i \in DOMAIN lines : lines[i].key = symbol => i = k
      BY <1>3, <3>3
    <3> QED
      BY <3>1, <3>3, <3>4
  <2> QED
    BY <2>2, <2>4 DEF Text!ReferencesConfirmWhatTheySay, ref
<1> QED
  BY <1>2, <1>3

------------------------------------------------------------------------------
(* The code of a game *)

Arches == {"arm64", "x86-64"}

Width(a, i) == IF a = "arm64" \/ i.kind \in Linked THEN 2 ELSE 1

LEMMA EncodeParts ==
  ASSUME NEW a \in Arches, NEW i \in Instruction
  PROVE  /\ Encode(a, i) \in Seq(Nat) /\ Len(Encode(a, i)) = Width(a, i)
         /\ Width(a, i) \in {1, 2} /\ DOMAIN Encode(a, i) = 1 .. Width(a, i)
         /\ a = "arm64" => Encode(a, i)[1] = i.field /\ Encode(a, i)[2] = 2 * Opcode(i.kind) + i.top
         /\ a # "arm64" => /\ Encode(a, i)[1] = 10 + Opcode(i.kind)
                           /\ i.kind \in Linked => Encode(a, i)[2] = i.field
<1> DEFINE f == i.field
           t == i.top
           o == Opcode(i.kind)
           u == 2 * o + t
           v == 10 + o
<1>1. f \in Nat /\ t \in Nat /\ i.kind \in Kinds
  BY ByteSignaturesAssumption DEF Instruction, Fields
<1>2. o \in 0 .. 4
  BY <1>1 DEF Opcode, Kinds
<1>3. u \in Nat /\ v \in Nat
  <2> HIDE DEF o, t
  <2> QED
    BY <1>1, <1>2
<1>4. CASE a = "arm64"
  <2>1. Encode(a, i) = <<f, u>>
    BY <1>4 DEF Encode
  <2>2. Width(a, i) = 2
    BY <1>4 DEF Width
  <2> HIDE DEF f, u
  <2>3. /\ <<f, u>> \in Seq(Nat) /\ Len(<<f, u>>) = 2 /\ DOMAIN <<f, u>> = 1 .. 2
        /\ <<f, u>>[1] = f /\ <<f, u>>[2] = u
    BY <1>1, <1>3
  <2>4. /\ Encode(a, i) \in Seq(Nat) /\ Len(Encode(a, i)) = 2 /\ DOMAIN Encode(a, i) = 1 .. 2
        /\ Encode(a, i)[1] = f /\ Encode(a, i)[2] = u
    BY <2>1, <2>3
  <2> QED
    BY <1>4, <2>2, <2>4 DEF f, u, o, t
<1>5. CASE a # "arm64" /\ i.kind \in Linked
  <2>1. Encode(a, i) = <<v, f>> /\ Width(a, i) = 2
    BY <1>5 DEF Encode, Width
  <2> HIDE DEF f, v
  <2> QED
    BY <1>1, <1>3, <1>5, <2>1 DEF f, v
<1>6. CASE a # "arm64" /\ i.kind \notin Linked
  <2>1. Encode(a, i) = <<v>> /\ Width(a, i) = 1
    BY <1>6 DEF Encode, Width
  <2> HIDE DEF f, v
  <2> QED
    BY <1>1, <1>3, <1>6, <2>1 DEF f, v
<1> QED
  BY <1>4, <1>5, <1>6

LEMMA CodeGrows ==
  ASSUME NEW a \in Arches, NEW p \in Seq(Instruction)
  PROVE  /\ CodeUpTo(a, p) \in [0 .. Len(p) -> Seq(Nat)] /\ CodeUpTo(a, p)[0] = <<>>
         /\ \A k \in 1 .. Len(p) : CodeUpTo(a, p)[k] = CodeUpTo(a, p)[k - 1] \o Encode(a, p[k])
<1> DEFINE N == Len(p)
           X == Seq(Nat)
           Step(k, c) == c \o Encode(a, p[k])
           g == [q \in (1 .. N) \X X |-> Step(q[1], q[2])]
           Steps(f) == [k \in 0 .. N |-> IF k = 0 THEN <<>> ELSE Step(k, f[k - 1])]
<1>1. N \in Nat /\ <<>> \in X
  OBVIOUS
<1>2. CodeUpTo(a, p) = CHOOSE f : f = Steps(f)
  BY DEF CodeUpTo
<1>3. ASSUME NEW k \in 1 .. N, NEW c \in X PROVE Step(k, c) \in X
  <2>1. p[k] \in Instruction
    OBVIOUS
  <2>2. Encode(a, p[k]) \in Seq(Nat)
    BY <2>1, EncodeParts
  <2> QED
    BY <2>2
<1>4. g \in [(1 .. N) \X X -> X] /\ \A k \in 1 .. N : \A c \in X : g[<<k, c>>] = Step(k, c)
  <2> HIDE DEF N, X, Step
  <2> QED
    BY <1>3
<1> HIDE DEF N, X, Step, g, Steps
<1>5. PICK f : IsIteration(f, <<>>, g, X, N)
  BY <1>1, <1>4, IterationExists
<1>6. f \in [0 .. N -> X] /\ f[0] = <<>> /\ \A k \in 1 .. N : f[k] = g[<<k, f[k - 1]>>]
  BY <1>5 DEF IsIteration
<1>7. ASSUME NEW k \in 1 .. N PROVE f[k] = Step(k, f[k - 1])
  <2>1. k - 1 \in 0 .. N
    BY <1>1
  <2>2. f[k - 1] \in X
    BY <1>6, <2>1
  <2> QED
    BY <1>4, <1>6, <2>2
<1>8. f = Steps(f)
  <2>1. \A k \in 0 .. N : k = 0 \/ k \in 1 .. N
    BY <1>1
  <2> QED
    BY <1>6, <1>7, <2>1 DEF Steps
<1> DEFINE c == CodeUpTo(a, p)
<1>9. c = Steps(c)
  BY <1>2, <1>8
<1> HIDE DEF c
<1>10. \A k \in 1 .. N : c[k] = Step(k, c[k - 1])
  <2>1. \A k \in 1 .. N : k \in 0 .. N /\ k # 0
    BY <1>1
  <2> QED
    BY <1>9, <2>1 DEF Steps
<1>11. \A k \in 0 .. N : c[k] = f[k]
  <2> DEFINE S == {k \in 0 .. N : c[k] = f[k]}
  <2>1. 0 \in S
    BY <1>1, <1>6, <1>9 DEF Steps
  <2>2. ASSUME NEW k \in 0 .. N - 1, k \in S PROVE k + 1 \in S
    <3>1. k + 1 \in 1 .. N /\ (k + 1) - 1 = k /\ k + 1 # 0 /\ k + 1 \in 0 .. N
      BY <1>1
    <3>2. c[k + 1] = Step(k + 1, c[k])
      BY <1>10, <3>1
    <3>3. f[k + 1] = Step(k + 1, f[k])
      BY <1>7, <3>1
    <3> QED
      BY <2>2, <3>1, <3>2, <3>3
  <2>3. 0 .. N \subseteq S
    <3> HIDE DEF S
    <3> QED
      BY <1>1, <2>1, <2>2, InductionUpTo
  <2> QED
    BY <2>3
<1>12. c = f
  BY <1>6, <1>9, <1>11 DEF Steps
<1> QED
  BY <1>6, <1>7, <1>12 DEF N, X, Step, c

(* Every unit of the first k instructions is one of one of them. *)
Placed(a, p, c, k) ==
  /\ \A j \in 1 .. k : \A i \in 1 .. Width(a, p[j]) :
       Len(c[j - 1]) + i \in 1 .. Len(c[k]) /\ c[k][Len(c[j - 1]) + i] = Encode(a, p[j])[i]
  /\ \A u \in 1 .. Len(c[k]) : \E j \in 1 .. k : \E i \in 1 .. Width(a, p[j]) :
       u = Len(c[j - 1]) + i

(* What the units are, and where those of an instruction begin. *)
IsCode(a, p, c) ==
  /\ a \in Arches /\ p \in Seq(Instruction)
  /\ \A k \in 0 .. Len(p) : c[k] \in Seq(Nat) /\ Len(c[k]) \in Nat
  /\ Len(c[0]) = 0 /\ Len(p) \in Nat
  /\ \A k \in 1 .. Len(p) :
       /\ p[k] \in Instruction /\ Width(a, p[k]) \in {1, 2}
       /\ Len(c[k]) = Len(c[k - 1]) + Width(a, p[k])
       /\ \A u \in 1 .. Len(c[k - 1]) : c[k][u] = c[k - 1][u]
       /\ \A i \in 1 .. Width(a, p[k]) : c[k][Len(c[k - 1]) + i] = Encode(a, p[k])[i]

LEMMA CodeLengths ==
  ASSUME NEW a \in Arches, NEW p \in Seq(Instruction)
  PROVE  IsCode(a, p, CodeUpTo(a, p))
<1> DEFINE c == CodeUpTo(a, p)
<1>1. /\ c \in [0 .. Len(p) -> Seq(Nat)] /\ c[0] = <<>>
      /\ \A k \in 1 .. Len(p) : c[k] = c[k - 1] \o Encode(a, p[k])
  BY CodeGrows
<1> HIDE DEF c
<1>2. \A k \in 0 .. Len(p) : c[k] \in Seq(Nat) /\ Len(c[k]) \in Nat
  BY <1>1
<1>3. ASSUME NEW k \in 1 .. Len(p)
      PROVE  /\ p[k] \in Instruction /\ Width(a, p[k]) \in {1, 2}
             /\ Len(c[k]) = Len(c[k - 1]) + Width(a, p[k])
             /\ \A u \in 1 .. Len(c[k - 1]) : c[k][u] = c[k - 1][u]
             /\ \A i \in 1 .. Width(a, p[k]) : c[k][Len(c[k - 1]) + i] = Encode(a, p[k])[i]
  <2>1. p[k] \in Instruction
    OBVIOUS
  <2>2. k - 1 \in 0 .. Len(p)
    OBVIOUS
  <2> DEFINE b == c[k - 1]
             e == Encode(a, p[k])
  <2>3. b \in Seq(Nat)
    BY <1>2, <2>2
  <2>4. e \in Seq(Nat) /\ Len(e) = Width(a, p[k]) /\ Width(a, p[k]) \in {1, 2}
    BY <2>1, EncodeParts
  <2>5. c[k] = b \o e
    BY <1>1
  <2> HIDE DEF b, e
  <2>6. /\ Len(c[k]) = Len(b) + Len(e)
        /\ \A u \in 1 .. Len(b) : c[k][u] = b[u]
        /\ \A i \in 1 .. Len(e) : c[k][Len(b) + i] = e[i]
    BY <2>3, <2>4, <2>5, ConcatPlaces
  <2> QED
    BY <2>1, <2>4, <2>6 DEF b, e
<1>4. Len(c[0]) = 0 /\ Len(p) \in Nat
  BY <1>1
<1> QED
  BY <1>2, <1>3, <1>4 DEF IsCode, c

LEMMA CodePlaces ==
  ASSUME NEW a, NEW p, NEW c, IsCode(a, p, c)
  PROVE  \A k \in 0 .. Len(p) : Placed(a, p, c, k)
<1> DEFINE N == Len(p)
           S == {k \in 0 .. N : Placed(a, p, c, k)}
<1>1. /\ \A k \in 0 .. N : Len(c[k]) \in Nat
      /\ Len(c[0]) = 0 /\ N \in Nat
      /\ \A k \in 1 .. N :
           /\ Width(a, p[k]) \in {1, 2}
           /\ Len(c[k]) = Len(c[k - 1]) + Width(a, p[k])
           /\ \A u \in 1 .. Len(c[k - 1]) : c[k][u] = c[k - 1][u]
           /\ \A i \in 1 .. Width(a, p[k]) : c[k][Len(c[k - 1]) + i] = Encode(a, p[k])[i]
  BY DEF IsCode
<1> HIDE DEF N
<1>2. 0 \in S
  BY <1>1 DEF Placed
<1>3. ASSUME NEW k \in 0 .. N - 1, k \in S PROVE k + 1 \in S
  <2> DEFINE m == k + 1
             n == Len(c[k])
             w == Width(a, p[m])
  <2>1. m \in 1 .. N /\ m - 1 = k /\ m \in 0 .. N /\ k \in 0 .. N
    BY <1>1
  <2>2. Placed(a, p, c, k)
    BY <1>3
  <2>3. \A j \in 1 .. m : j = m \/ j \in 1 .. k
    BY <2>1
  <2>4. \A j \in 1 .. k : j \in 1 .. m /\ j \in 1 .. N /\ j - 1 \in 0 .. N
    BY <1>1, <2>1
  <2> HIDE DEF m
  <2>5. /\ w \in {1, 2} /\ Len(c[m]) = n + w /\ n \in Nat
        /\ \A u \in 1 .. n : c[m][u] = c[k][u]
        /\ \A i \in 1 .. w : c[m][n + i] = Encode(a, p[m])[i]
    BY <1>1, <2>1
  <2> HIDE DEF n, w
  <2>6. 1 .. n \subseteq 1 .. Len(c[m]) /\ \A i \in 1 .. w : n + i \in 1 .. Len(c[m])
    BY <2>5
  <2>7. ASSUME NEW j \in 1 .. m, NEW i \in 1 .. Width(a, p[j])
        PROVE  /\ Len(c[j - 1]) + i \in 1 .. Len(c[m])
               /\ c[m][Len(c[j - 1]) + i] = Encode(a, p[j])[i]
    <3>1. CASE j = m
      BY <2>1, <2>5, <2>6, <3>1 DEF n, w
    <3>2. CASE j \in 1 .. k
      <4> DEFINE u == Len(c[j - 1]) + i
      <4>1. u \in 1 .. n /\ c[k][u] = Encode(a, p[j])[i]
        BY <2>2, <3>2 DEF Placed, n
      <4> HIDE DEF u
      <4>2. u \in 1 .. Len(c[m]) /\ c[m][u] = Encode(a, p[j])[i]
        BY <2>5, <2>6, <4>1
      <4> QED
        BY <4>2 DEF u
    <3> QED
      BY <2>3, <3>1, <3>2
  <2>8. ASSUME NEW u \in 1 .. Len(c[m])
        PROVE  \E j \in 1 .. m : \E i \in 1 .. Width(a, p[j]) : u = Len(c[j - 1]) + i
    <3>1. CASE u \in 1 .. n
      BY <2>2, <2>4, <3>1 DEF Placed, n
    <3>2. CASE u \notin 1 .. n
      <4>1. u - n \in 1 .. w /\ u = n + (u - n)
        BY <2>5, <3>2
      <4>2. m \in 1 .. m
        BY <2>1
      <4> QED
        BY <2>1, <4>1, <4>2 DEF n, w
    <3> QED
      BY <3>1, <3>2
  <2>9. Placed(a, p, c, m)
    BY <2>7, <2>8 DEF Placed
  <2> QED
    BY <2>1, <2>9 DEF m
<1>4. 0 .. N \subseteq S
  <2> HIDE DEF S
  <2> QED
    BY <1>1, <1>2, <1>3, InductionUpTo
<1> QED
  BY <1>4 DEF N

(* No unit is one of two instructions. *)
LEMMA OnePlace ==
  ASSUME NEW a, NEW p, NEW c, IsCode(a, p, c),
         NEW j \in 1 .. Len(p), NEW i \in 1 .. Width(a, p[j]),
         NEW k \in 1 .. Len(p), NEW l \in 1 .. Width(a, p[k]),
         Len(c[j - 1]) + i = Len(c[k - 1]) + l
  PROVE  j = k /\ i = l
<1>1. /\ Len(p) \in Nat /\ j - 1 \in 0 .. Len(p) /\ k - 1 \in 0 .. Len(p)
  BY DEF IsCode
<1>2. /\ Len(c[j - 1]) \in Nat /\ Len(c[k - 1]) \in Nat
      /\ Placed(a, p, c, j - 1) /\ Placed(a, p, c, k - 1)
      /\ Width(a, p[j]) \in {1, 2} /\ Width(a, p[k]) \in {1, 2}
  BY <1>1, CodePlaces DEF IsCode
<1>3. i \in Nat /\ l \in Nat /\ i > 0 /\ l > 0
  BY <1>2
<1>4. CASE j < k
  <2>1. j \in 1 .. k - 1
    BY <1>1, <1>4
  <2>2. Len(c[j - 1]) + i \in 1 .. Len(c[k - 1])
    BY <1>2, <2>1 DEF Placed
  <2> QED
    BY <1>2, <1>3, <2>2
<1>5. CASE k < j
  <2>1. k \in 1 .. j - 1
    BY <1>1, <1>5
  <2>2. Len(c[k - 1]) + l \in 1 .. Len(c[j - 1])
    BY <1>2, <2>1 DEF Placed
  <2> QED
    BY <1>2, <1>3, <2>2
<1>6. CASE j = k
  BY <1>2, <1>3, <1>6
<1>7. j < k \/ k < j \/ j = k
  BY <1>1
<1> QED
  BY <1>4, <1>5, <1>6, <1>7

(* A build with the code of another, d instructions further on, linked     *)
(* anew.                                                                   *)
SameCode(p, q, d) ==
  d \in Nat /\ Len(q) = Len(p) + d /\ \A k \in 1 .. Len(p) : q[k + d].kind = p[k].kind

Relocated(a, p, q, c, e, d) == IsCode(a, p, c) /\ IsCode(a, q, e) /\ SameCode(p, q, d)

OffsetsMoved(p, c, e, d) == \A k \in 0 .. Len(p) : Len(e[k + d]) = Len(c[k]) + Len(e[d])

LEMMA OffsetsMove ==
  ASSUME NEW a, NEW p, NEW q, NEW c, NEW e, NEW d, Relocated(a, p, q, c, e, d)
  PROVE  OffsetsMoved(p, c, e, d)
<1>0. IsCode(a, p, c) /\ IsCode(a, q, e) /\ SameCode(p, q, d)
  BY DEF Relocated
<1> DEFINE N == Len(p)
           S == {k \in 0 .. N : Len(e[k + d]) = Len(c[k]) + Len(e[d])}
<1>1. N \in Nat /\ d \in Nat /\ Len(q) = N + d
  BY <1>0 DEF IsCode, SameCode
<1> HIDE DEF N
<1>2. 0 \in S
  <2>1. d \in 0 .. N + d /\ 0 + d = d
    BY <1>1
  <2>2. Len(e[d]) \in Nat /\ Len(c[0]) = 0
    BY <1>0, <1>1, <2>1 DEF IsCode
  <2>3. Len(e[0 + d]) = Len(c[0]) + Len(e[d])
    BY <2>1, <2>2
  <2>4. 0 \in 0 .. N
    BY <1>1
  <2> QED
    BY <2>3, <2>4, Zenon
<1>3. ASSUME NEW k \in 0 .. N - 1, k \in S PROVE k + 1 \in S
  <2> DEFINE m == k + 1
             r == m + d
             x == Len(c[k])
             y == Len(e[k + d])
             z == Len(e[d])
             w == Width(a, p[m])
  <2>1. /\ m \in 1 .. N /\ m - 1 = k /\ m \in 0 .. N /\ k \in 0 .. N
        /\ r \in 1 .. N + d /\ r - 1 = k + d /\ k + d \in 0 .. N + d /\ d \in 0 .. N + d
    BY <1>1
  <2>2. q[r].kind = p[m].kind
    BY <1>0, <2>1 DEF SameCode, N
  <2>3. Width(a, q[r]) = w
    BY <2>2 DEF Width
  <2> HIDE DEF m, r
  <2>4. /\ Len(c[m]) = x + w /\ w \in {1, 2} /\ x \in Nat
    BY <1>0, <2>1 DEF IsCode, N
  <2>5. /\ Len(e[r]) = y + w /\ y \in Nat /\ z \in Nat
    BY <1>0, <1>1, <2>1, <2>3 DEF IsCode
  <2>6. y = x + z
    BY <1>3
  <2> HIDE DEF x, y, z, w
  <2>7. Len(e[r]) = Len(c[m]) + z
    BY <2>4, <2>5, <2>6
  <2> QED
    BY <2>1, <2>7 DEF m, r, z
<1>4. 0 .. N \subseteq S
  <2> HIDE DEF S
  <2> QED
    BY <1>1, <1>2, <1>3, InductionUpTo
<1> QED
  BY <1>4 DEF N, OffsetsMoved

LEMMA TailsStep ==
  ASSUME NEW w, Len(w) \in Nat
  PROVE  /\ \A k \in 0 .. Len(w) : Tails(w)[k] \in BOOLEAN
         /\ \A k \in 0 .. Len(w) : k <= 1 => ~Tails(w)[k]
         /\ \A k \in 1 .. Len(w) - 1 : Tails(w)[k + 1] <=> (w[k] \in 12 .. 14 /\ ~Tails(w)[k])
<1> DEFINE N == Len(w)
           X == BOOLEAN
           Step(k, b) == k > 1 /\ w[k - 1] \in 12 .. 14 /\ ~b
           g == [q \in (1 .. N) \X X |-> Step(q[1], q[2])]
           Steps(f) == [k \in 0 .. N |-> k > 1 /\ w[k - 1] \in 12 .. 14 /\ ~f[k - 1]]
<1>1. N \in Nat /\ FALSE \in X
  OBVIOUS
<1>2. Tails(w) = CHOOSE f : f = Steps(f)
  BY DEF Tails
<1>3. g \in [(1 .. N) \X X -> X] /\ \A k \in 1 .. N : \A b \in X : g[<<k, b>>] = Step(k, b)
  <2>1. \A k, b : Step(k, b) \in X
    OBVIOUS
  <2> HIDE DEF N, X, Step
  <2> QED
    BY <2>1
<1>4. \A k, b : Step(k, b) <=> (k > 1 /\ w[k - 1] \in 12 .. 14 /\ ~b)
  OBVIOUS
<1> HIDE DEF N, g, Step, Steps
<1>5. PICK f : IsIteration(f, FALSE, g, X, N)
  <2> HIDE DEF X
  <2> QED
    BY <1>1, <1>3, IterationExists
<1>6. f \in [0 .. N -> X] /\ f[0] = FALSE /\ \A k \in 1 .. N : f[k] = g[<<k, f[k - 1]>>]
  BY <1>5 DEF IsIteration
<1>7. ASSUME NEW k \in 1 .. N PROVE f[k] = Step(k, f[k - 1])
  <2>1. k - 1 \in 0 .. N
    BY <1>1
  <2>2. f[k - 1] \in X
    BY <1>6, <2>1
  <2> QED
    BY <1>3, <1>6, <2>2
<1>8. f = Steps(f)
  <2>1. \A k \in 0 .. N : k = 0 \/ k \in 1 .. N
    BY <1>1
  <2>2. ASSUME NEW k \in 0 .. N PROVE f[k] = (k > 1 /\ w[k - 1] \in 12 .. 14 /\ ~f[k - 1])
    <3>1. CASE k = 0
      BY <1>6, <3>1
    <3>2. CASE k \in 1 .. N
      BY <1>7, <3>2 DEF Step
    <3> QED
      BY <2>1, <3>1, <3>2
  <2> QED
    BY <1>6, <2>2 DEF Steps
<1> DEFINE t == Tails(w)
<1>9. t = Steps(t)
  BY <1>2, <1>8
<1> HIDE DEF t
<1>10. \A k \in 0 .. N : t[k] = (k > 1 /\ w[k - 1] \in 12 .. 14 /\ ~t[k - 1])
  BY <1>9 DEF Steps
<1>11. \A k \in 0 .. N : t[k] \in BOOLEAN
  BY <1>10
<1>12. ASSUME NEW k \in 0 .. N, k <= 1 PROVE ~t[k]
  <2>1. (k > 1) = FALSE
    BY <1>12
  <2> QED
    BY <1>10, <2>1, Zenon
<1>13. ASSUME NEW k \in 1 .. N - 1 PROVE t[k + 1] <=> (w[k] \in 12 .. 14 /\ ~t[k])
  <2>1. k + 1 \in 0 .. N /\ k + 1 > 1 /\ (k + 1) - 1 = k
    BY <1>1
  <2> QED
    BY <1>10, <2>1
<1> QED
  BY <1>11, <1>12, <1>13 DEF t, N

(* The units of a window are those of its code. *)
WindowOf(c, N, off, w) ==
  /\ Len(w) \in Nat /\ off \in Nat /\ off + Len(w) <= Len(c[N])
  /\ w \in [1 .. Len(w) -> Nat] /\ \A k \in 1 .. Len(w) : w[k] = c[N][off + k]

(* What MaskWindowX86 takes for a tail is the second unit of an instruction. *)
LEMMA TailsAreSeconds ==
  ASSUME NEW a, NEW p, NEW c, IsCode(a, p, c), a # "arm64",
         NEW f \in 1 .. Len(p), NEW w, WindowOf(c, Len(p), Len(c[f - 1]), w)
  PROVE  \A k \in 1 .. Len(w) : \A j \in 1 .. Len(p) :
           Len(c[f - 1]) + k = Len(c[j - 1]) + 2 /\ Width(a, p[j]) = 2 => Tails(w)[k]
<1> DEFINE N == Len(p)
           n == Len(w)
           off == Len(c[f - 1])
           t == Tails(w)
           Second(u) == \E j \in 1 .. N : u = Len(c[j - 1]) + 2 /\ Width(a, p[j]) = 2
           S == {k \in 0 .. n : k >= 1 => (t[k] <=> Second(off + k))}
<1>1. /\ N \in Nat /\ n \in Nat /\ off \in Nat /\ off + n <= Len(c[N])
      /\ \A k \in 1 .. n : w[k] = c[N][off + k]
  BY DEF WindowOf, IsCode
<1>2. /\ \A k \in 0 .. n : k <= 1 => ~t[k]
      /\ \A k \in 1 .. n - 1 : t[k + 1] <=> (w[k] \in 12 .. 14 /\ ~t[k])
  BY <1>1, TailsStep
<1>3. /\ \A j \in 1 .. N : Len(c[j - 1]) \in Nat /\ Width(a, p[j]) \in {1, 2}
      /\ Placed(a, p, c, N) /\ Len(c[N]) \in Nat
  <2>1. \A j \in 1 .. N : j - 1 \in 0 .. N
    BY <1>1
  <2>2. N \in 0 .. N
    BY <1>1
  <2> QED
    BY <2>1, <2>2, CodePlaces DEF IsCode
<1>4. \A j \in 1 .. N : p[j] \in Instruction
  BY DEF IsCode
<1>5. \A j, k \in 1 .. N : Width(a, p[j]) = 2 => Len(c[j - 1]) + 2 # Len(c[k - 1]) + 1
  <2>1. SUFFICES ASSUME NEW j \in 1 .. N, NEW k \in 1 .. N, Width(a, p[j]) = 2,
                        Len(c[j - 1]) + 2 = Len(c[k - 1]) + 1
        PROVE  FALSE
    OBVIOUS
  <2>2. 2 \in 1 .. 2 /\ \A x \in {1, 2} : 1 \in 1 .. x
    OBVIOUS
  <2>3. 2 \in 1 .. Width(a, p[j]) /\ 1 \in 1 .. Width(a, p[k])
    BY <1>3, <2>1, <2>2
  <2>4. 2 = 1
    BY <2>1, <2>3, OnePlace
  <2> QED
    BY <2>4
(* The first unit of an instruction tells whether there is a second. *)
<1>6. ASSUME NEW j \in 1 .. N
      PROVE  /\ c[N][Len(c[j - 1]) + 1] \in 12 .. 14 <=> Width(a, p[j]) = 2
             /\ ~Second(Len(c[j - 1]) + 1)
  <2>1. c[N][Len(c[j - 1]) + 1] = Encode(a, p[j])[1]
    <3>1. \A x \in {1, 2} : 1 \in 1 .. x
      OBVIOUS
    <3>2. 1 \in 1 .. Width(a, p[j])
      BY <1>3, <3>1
    <3> HIDE DEF N
    <3> QED
      BY <1>3, <3>2 DEF Placed
  <2>2. Encode(a, p[j])[1] = 10 + Opcode(p[j].kind)
    BY <1>4, EncodeParts DEF IsCode
  <2>3. p[j].kind \in Kinds
    BY <1>4 DEF Instruction
  <2>4. 10 + Opcode(p[j].kind) \in 12 .. 14 <=> p[j].kind \in Linked
    BY <2>3 DEF Opcode, Kinds, Linked
  <2>5. Width(a, p[j]) = 2 <=> p[j].kind \in Linked
    BY DEF Width
  <2> QED
    BY <1>5, <2>1, <2>2, <2>4, <2>5
<1> HIDE DEF N, n, off, t
<1>7. 0 \in S
  BY <1>1
<1>8. ASSUME NEW k \in 0 .. n - 1, k \in S PROVE k + 1 \in S
  <2> DEFINE u == off + k
  <2>1. k + 1 \in 0 .. n /\ k \in 0 .. n /\ u \in Nat /\ u + 1 = off + (k + 1)
    BY <1>1
  <2>2. CASE k = 0
    <3>1. ~t[k + 1]
      BY <1>2, <2>1, <2>2
    <3>2. f \in 1 .. N /\ u + 1 = Len(c[f - 1]) + 1
      BY <1>1, <2>2 DEF off, N
    <3>3. ~Second(u + 1)
      BY <1>6, <3>2
    <3> QED
      BY <2>1, <3>1, <3>3
  <2>3. CASE k # 0
    <3>1. k \in 1 .. n - 1 /\ k >= 1 /\ k \in 1 .. n
      BY <1>1, <2>3
    <3>a. t[k] <=> Second(u)
      BY <1>8, <3>1
    <3>b. t[k + 1] <=> (w[k] \in 12 .. 14 /\ ~t[k])
      BY <1>2, <3>1
    <3>c. w[k] = c[N][u]
      BY <1>1, <3>1
    <3>d. u \in 1 .. Len(c[N])
      <4>1. /\ n \in Nat /\ off \in Nat /\ Len(c[N]) \in Nat
            /\ off + n <= Len(c[N])
        BY <1>1, <1>3
      <4> QED
        BY <3>1, <4>1
    <3>2. /\ t[k] <=> Second(u)
          /\ t[k + 1] <=> (w[k] \in 12 .. 14 /\ ~t[k])
          /\ w[k] = c[N][u] /\ u \in 1 .. Len(c[N])
      BY <3>a, <3>b, <3>c, <3>d
    <3> HIDE DEF u
    <3>3. PICK j \in 1 .. N : \E i \in 1 .. Width(a, p[j]) : u = Len(c[j - 1]) + i
      BY <1>3, <3>2 DEF Placed
    <3>4. PICK i \in 1 .. Width(a, p[j]) : u = Len(c[j - 1]) + i
      BY <3>3
    <3>5. Len(c[j - 1]) \in Nat /\ Width(a, p[j]) \in {1, 2}
      BY <1>3
    <3>6. ASSUME Second(u + 1)
          PROVE  t[k + 1]
      <4>1. PICK l \in 1 .. N : u + 1 = Len(c[l - 1]) + 2 /\ Width(a, p[l]) = 2
        BY <3>6
      <4>2. u = Len(c[l - 1]) + 1
        <5>1. Len(c[l - 1]) \in Nat
          BY <1>3
        <5>2. u \in Nat
          BY <2>1
        <5>3. \A x, y \in Nat : x + 1 = y + 2 => x = y + 1
          OBVIOUS
        <5> QED
          BY <4>1, <5>1, <5>2, <5>3, Zenon
      <4>3. ~Second(u) /\ c[N][u] \in 12 .. 14
        BY <1>6, <4>1, <4>2
      <4> QED
        BY <3>2, <4>3
    <3>7. ASSUME t[k + 1]
          PROVE  Second(u + 1)
      <4>1. c[N][u] \in 12 .. 14 /\ ~Second(u)
        BY <3>2, <3>7
      <4>2. i = 1
        <5>1. CASE i = 2
          <6>1. Width(a, p[j]) = 2
            BY <3>5, <5>1
          <6> QED
            BY <3>4, <4>1, <5>1, <6>1
        <5> QED
          BY <3>5, <5>1
      <4>3. Width(a, p[j]) = 2
        BY <1>6, <3>4, <4>1, <4>2
      <4>4. u + 1 = Len(c[j - 1]) + 2
        BY <3>4, <3>5, <4>2
      <4> QED
        BY <4>3, <4>4
    <3> QED
      BY <2>1, <3>6, <3>7 DEF u
  <2> QED
    BY <2>2, <2>3
<1>9. 0 .. n \subseteq S
  <2> HIDE DEF S
  <2> QED
    BY <1>1, <1>7, <1>8, InductionUpTo
<1>10. ASSUME NEW k \in 1 .. n, Second(off + k) PROVE t[k]
  <2>1. k \in 0 .. n /\ k >= 1
    BY <1>1
  <2> QED
    BY <1>9, <1>10, <2>1
<1> QED
  BY <1>10 DEF N, n, off, t

LEMMA Arm64Offsets ==
  ASSUME NEW p, NEW c, IsCode("arm64", p, c)
  PROVE  \A k \in 0 .. Len(p) : Len(c[k]) = 2 * k
<1> DEFINE N == Len(p)
           S == {k \in 0 .. N : Len(c[k]) = 2 * k}
<1>1. /\ N \in Nat /\ Len(c[0]) = 0
      /\ \A k \in 1 .. N : Len(c[k]) = Len(c[k - 1]) + 2
  BY DEF IsCode, Width
<1> HIDE DEF N
<1>2. 0 \in S
  BY <1>1
<1>3. ASSUME NEW k \in 0 .. N - 1, k \in S PROVE k + 1 \in S
  <2>1. k + 1 \in 1 .. N /\ (k + 1) - 1 = k /\ k + 1 \in 0 .. N
    BY <1>1
  <2>2. Len(c[k + 1]) = Len(c[k]) + 2
    BY <1>1, <2>1
  <2> QED
    BY <1>3, <2>1, <2>2
<1>4. 0 .. N \subseteq S
  <2> HIDE DEF S
  <2> QED
    BY <1>1, <1>2, <1>3, InductionUpTo
<1> QED
  BY <1>4 DEF N

UnitsMoved(a, p, q, c, e, d) ==
  \A j \in 1 .. Len(p) :
    /\ q[j + d].kind = p[j].kind /\ q[j + d] \in Instruction /\ p[j] \in Instruction
    /\ Len(c[j - 1]) \in Nat /\ Len(e[d]) \in Nat /\ Width(a, p[j]) \in {1, 2}
    /\ \A i \in 1 .. Width(a, p[j]) :
         /\ c[Len(p)][Len(c[j - 1]) + i] = Encode(a, p[j])[i]
         /\ e[Len(q)][Len(e[d]) + Len(c[j - 1]) + i] = Encode(a, q[j + d])[i]

LEMMA UnitsMove ==
  ASSUME NEW a, NEW p, NEW q, NEW c, NEW e, NEW d, Relocated(a, p, q, c, e, d)
  PROVE  UnitsMoved(a, p, q, c, e, d)
<1>A. IsCode(a, p, c) /\ IsCode(a, q, e) /\ SameCode(p, q, d)
  BY DEF Relocated
<1>B. OffsetsMoved(p, c, e, d)
  BY OffsetsMove
<1>0. \A l \in 0 .. Len(p) : Len(e[l + d]) = Len(c[l]) + Len(e[d])
  BY <1>B DEF OffsetsMoved
<1>C. SUFFICES ASSUME NEW j \in 1 .. Len(p)
      PROVE  /\ q[j + d].kind = p[j].kind /\ q[j + d] \in Instruction /\ p[j] \in Instruction
             /\ Len(c[j - 1]) \in Nat /\ Len(e[d]) \in Nat /\ Width(a, p[j]) \in {1, 2}
             /\ \A i \in 1 .. Width(a, p[j]) :
                  /\ c[Len(p)][Len(c[j - 1]) + i] = Encode(a, p[j])[i]
                  /\ e[Len(q)][Len(e[d]) + Len(c[j - 1]) + i] = Encode(a, q[j + d])[i]
  BY DEF UnitsMoved
<1> DEFINE N == Len(p)
           M == Len(q)
           k == j + d
           x == Len(c[j - 1])
           z == Len(e[d])
           b == Len(e[k - 1])
<1>1. N \in Nat /\ M \in Nat /\ d \in Nat /\ M = N + d
  BY <1>A DEF IsCode, SameCode
<1>2. /\ j - 1 \in 0 .. N /\ N \in 0 .. N /\ M \in 0 .. M /\ d \in 0 .. M
      /\ k \in 1 .. M /\ k - 1 = (j - 1) + d
  <2> HIDE DEF N, M
  <2> QED
    BY <1>1 DEF N
<1>3. Placed(a, p, c, N) /\ Placed(a, q, e, M)
  BY <1>2, <1>A, CodePlaces
<1>4. q[k].kind = p[j].kind
  BY <1>A DEF SameCode
<1>5. p[j] \in Instruction /\ x \in Nat /\ Width(a, p[j]) \in {1, 2}
  BY <1>2, <1>A DEF IsCode
<1>6. q[k] \in Instruction /\ z \in Nat
  BY <1>2, <1>A DEF IsCode
<1>7. Width(a, q[k]) = Width(a, p[j])
  BY <1>4 DEF Width
<1>8. Len(e[(j - 1) + d]) = x + z
  BY <1>0, <1>2
<1>9. b = x + z
  BY <1>2, <1>8
<1>10. ASSUME NEW i \in 1 .. Width(a, p[j])
       PROVE  c[N][x + i] = Encode(a, p[j])[i] /\ e[M][z + x + i] = Encode(a, q[k])[i]
  <2>1. c[N][x + i] = Encode(a, p[j])[i]
    BY <1>3 DEF Placed
  <2>2. e[M][b + i] = Encode(a, q[k])[i]
    <3>1. i \in 1 .. Width(a, q[k])
      BY <1>7
    <3> HIDE DEF k
    <3> QED
      BY <1>2, <1>3, <3>1 DEF Placed
  <2>3. b + i = z + x + i
    <3>1. i \in Nat
      BY <1>5
    <3> HIDE DEF b, z, x
    <3> QED
      BY <1>5, <1>6, <1>9, <3>1
  <2> QED
    BY <2>1, <2>2, <2>3
<1> QED
  BY <1>4, <1>5, <1>6, <1>10

(* The instructions that begin in a window of n units are steady. *)
SteadyWindow(a, p, q, c, d, f, n) ==
  \A k \in 1 .. Len(p) :
    k >= f /\ Len(c[k - 1]) < Len(c[f - 1]) + n => Steady(a, p[k], q[k + d])

(* What is not wild in a pattern is found again in the other build. *)
LEMMA MaskedIsTheSame ==
  ASSUME NEW a, NEW p, NEW q, NEW c, NEW e, NEW d, Relocated(a, p, q, c, e, d),
         NEW f \in 1 .. Len(p), NEW w, WindowOf(c, Len(p), Len(c[f - 1]), w),
         SteadyWindow(a, p, q, c, d, f, Len(w)), MaskWindow(w, a) # <<>>, NEW k \in 1 .. Len(w)
  PROVE  MaskWindow(w, a)[k] \in {Wildcard, e[Len(q)][Len(e[(f - 1) + d]) + k]}
<1>A. IsCode(a, p, c)
  BY DEF Relocated
<1>B. OffsetsMoved(p, c, e, d)
  BY OffsetsMove
<1>C. UnitsMoved(a, p, q, c, e, d)
  BY UnitsMove
<1>0. \A l \in 0 .. Len(p) : Len(e[l + d]) = Len(c[l]) + Len(e[d])
  BY <1>B DEF OffsetsMoved
<1> DEFINE N == Len(p)
           M == Len(q)
           n == Len(w)
           off == Len(c[f - 1])
           z == Len(e[d])
           u == off + k
<1>1. /\ N \in Nat /\ n \in Nat /\ off \in Nat /\ off + n <= Len(c[N])
      /\ \A l \in 1 .. n : w[l] = c[N][off + l]
      /\ DOMAIN w = 1 .. n
  BY <1>A DEF WindowOf, IsCode
<1>2. Placed(a, p, c, N) /\ Len(c[N]) \in Nat
  <2>1. N \in 0 .. N
    BY <1>1
  <2> QED
    BY <1>A, <2>1, CodePlaces DEF IsCode
<1>3. u \in 1 .. Len(c[N])
  <2> HIDE DEF off, N
  <2> QED
    BY <1>1, <1>2
<1>4. PICK j \in 1 .. N : \E i \in 1 .. Width(a, p[j]) : u = Len(c[j - 1]) + i
  BY <1>2, <1>3 DEF Placed
<1>5. PICK i \in 1 .. Width(a, p[j]) : u = Len(c[j - 1]) + i
  BY <1>4
<1> DEFINE x == Len(c[j - 1])
           r == q[j + d]
<1>6. /\ r.kind = p[j].kind /\ r \in Instruction /\ p[j] \in Instruction
      /\ x \in Nat /\ z \in Nat /\ Width(a, p[j]) \in {1, 2}
      /\ \A l \in 1 .. Width(a, p[j]) : c[N][x + l] = Encode(a, p[j])[l]
      /\ e[M][z + x + i] = Encode(a, r)[i]
  BY <1>C, <1>5 DEF UnitsMoved
<1>7. Len(e[(f - 1) + d]) + k = z + x + i
  <2>1. f - 1 \in 0 .. N
    BY <1>1
  <2>3. Len(e[(f - 1) + d]) = off + z
    BY <1>0, <2>1
  <2>4. i \in Nat /\ k \in Nat
    BY <1>1, <1>6
  <2>5. off + k = x + i /\ off \in Nat /\ x \in Nat /\ z \in Nat
    BY <1>1, <1>5, <1>6
  <2> DEFINE y == Len(e[(f - 1) + d])
  <2>6. y = off + z
    BY <2>3
  <2> HIDE DEF off, z, x, y
  <2>7. y + k = z + x + i
    BY <2>4, <2>5, <2>6
  <2> QED
    BY <2>7 DEF y
<1>8. w[k] = Encode(a, p[j])[i]
  BY <1>1, <1>5, <1>6
<1>9. SUFFICES MaskWindow(w, a)[k] \in {Wildcard, Encode(a, r)[i]}
  BY <1>6, <1>7
<1>10. i \in {1, 2} /\ a \in Arches
  BY <1>6, <1>A DEF IsCode
<1>13. Steady(a, p[j], r)
  <2>1. x < off + n
    <3> HIDE DEF off, n, x
    <3>1. k \in 1 .. n
      BY DEF n
    <3>2. off + k = x + i
      BY <1>5 DEF x
    <3> QED
      BY <1>1, <1>6, <1>10, <3>1, <3>2
  <2>2. j >= f
    <3>1. SUFFICES ASSUME j < f PROVE FALSE
      BY <1>1
    <3>2. f - 1 \in 0 .. N /\ j \in 1 .. f - 1
      BY <1>1, <3>1
    <3>3. x + i \in 1 .. off
      BY <1>A, <3>2, CodePlaces DEF Placed
    <3>4. k >= 1
      OBVIOUS
    <3> HIDE DEF off, x
    <3> QED
      BY <1>1, <1>5, <3>3, <3>4 DEF x
  <2> QED
    BY <2>1, <2>2 DEF SteadyWindow
<1>14. /\ p[j].kind \notin {"branch", "address"} => r = p[j]
       /\ a = "arm64" => r.top = p[j].top
       /\ a # "arm64" => p[j].kind = "branch" \/ r.field = p[j].field
  <2>1. p[j].kind \in Kinds
    BY <1>6 DEF Instruction
  <2> QED
    BY <1>13, <2>1 DEF Steady, Kinds, Linked
<1>11. CASE a = "arm64"
  <2> DEFINE m == MaskWindowArm64(w)
  <2>1. MaskWindow(w, a) = m /\ m # Unmaskable
    BY <1>11 DEF MaskWindow, Unmaskable
  <2>2. n % 2 = 0 /\ m = [l \in DOMAIN w |-> IF l % 2 = 1 /\ w[l + 1] \div 2 \in {2, 3} THEN Wildcard ELSE w[l]]
    BY <2>1 DEF MaskWindowArm64
  <2>3. m[k] = IF k % 2 = 1 /\ w[k + 1] \div 2 \in {2, 3} THEN Wildcard ELSE w[k]
    BY <1>1, <2>2
  <2> HIDE DEF m
  <2>4. /\ Encode(a, p[j])[1] = p[j].field /\ Encode(a, p[j])[2] = 2 * Opcode(p[j].kind) + p[j].top
        /\ Encode(a, r)[1] = r.field /\ Encode(a, r)[2] = 2 * Opcode(r.kind) + r.top
    BY <1>6, <1>10, <1>11, EncodeParts
  <2>5. CASE i = 2
    <3>1. Encode(a, r)[2] = Encode(a, p[j])[2]
      BY <1>6, <1>11, <1>14, <2>4
    <3> QED
      BY <1>8, <2>1, <2>3, <2>5, <3>1
  <2>6. CASE i = 1 /\ p[j].kind \notin {"branch", "address"}
    <3>1. r = p[j]
      BY <1>14, <2>6
    <3>2. Encode(a, r)[1] = Encode(a, p[j])[1]
      BY <3>1
    <3> QED
      BY <1>8, <2>1, <2>3, <2>6, <3>2
  <2>7. CASE i = 1 /\ p[j].kind \in {"branch", "address"}
    <3>1. off = 2 * (f - 1) /\ x = 2 * (j - 1)
      <4>1. f - 1 \in 0 .. N /\ j - 1 \in 0 .. N
        BY <1>1
      <4> QED
        BY <1>11, <1>A, <4>1, Arm64Offsets
    <3>2. k = 2 * (j - f) + 1
      <4>1. off + k = x + 1 /\ k \in Nat /\ j \in Nat /\ f \in Nat
        BY <1>1, <1>5, <2>7
      <4> HIDE DEF off, x
      <4> QED
        BY <3>1, <4>1
    <3>3. k % 2 = 1 /\ k + 1 \in 1 .. n
      <4> HIDE DEF n
      <4>1. k \in 1 .. n
        BY DEF n
      <4>2. k % 2 = 1
        BY <3>2
      <4> QED
        BY <1>1, <2>2, <4>1, <4>2
    <3>4. w[k + 1] = Encode(a, p[j])[2]
      <4>1. 2 \in 1 .. Width(a, p[j])
        BY <1>11 DEF Width
      <4>2. off + (k + 1) = x + 2
        <5>1. off + k = x + 1 /\ k \in Nat
          BY <1>1, <1>5, <2>7
        <5> HIDE DEF off, x
        <5> QED
          BY <1>1, <1>6, <5>1
      <4>3. w[k + 1] = c[N][x + 2]
        BY <1>1, <3>3, <4>2
      <4> QED
        BY <1>6, <4>1, <4>3
    <3>5. Encode(a, p[j])[2] \div 2 \in {2, 3}
      <4>1. p[j].top \in 0 .. 1
        BY <1>6 DEF Instruction
      <4>2. Encode(a, p[j])[2] \in {4 + p[j].top, 6 + p[j].top}
        BY <2>4, <2>7, <4>1 DEF Opcode
      <4> QED
        BY <4>1, <4>2
    <3> QED
      BY <2>1, <2>3, <3>3, <3>4, <3>5
  <2> QED
    BY <1>10, <2>5, <2>6, <2>7
<1>12. CASE a # "arm64"
  <2> DEFINE m == MaskWindowX86(w)
  <2>1. MaskWindow(w, a) = m /\ m # Unmaskable
    BY <1>12 DEF MaskWindow, Unmaskable
  <2>2. m = [l \in DOMAIN w |-> IF Tails(w)[l] /\ w[l - 1] = 12 THEN Wildcard ELSE w[l]]
    BY <2>1 DEF MaskWindowX86
  <2>3. m[k] = IF Tails(w)[k] /\ w[k - 1] = 12 THEN Wildcard ELSE w[k]
    BY <1>1, <2>2
  <2> HIDE DEF m
  <2>4. CASE i = 1
    <3>1. /\ Encode(a, p[j])[1] = 10 + Opcode(p[j].kind)
          /\ Encode(a, r)[1] = 10 + Opcode(r.kind)
      BY <1>6, <1>10, <1>12, EncodeParts
    <3>2. Encode(a, r)[1] = Encode(a, p[j])[1]
      BY <1>6, <3>1
    <3> QED
      BY <1>8, <2>1, <2>3, <2>4, <3>2
  <2>5. CASE i = 2
    <3>1. Width(a, p[j]) = 2 /\ u = x + 2
      BY <1>5, <1>6, <2>5
    <3>2. p[j].kind \in Linked
      BY <1>12, <3>1 DEF Width
    <3>3. CASE p[j].kind # "branch"
      <4>1. r.kind \in Linked /\ r.field = p[j].field
        BY <1>6, <1>12, <1>14, <3>2, <3>3
      <4>2. Encode(a, r)[2] = Encode(a, p[j])[2]
        BY <1>6, <1>10, <1>12, <3>2, <4>1, EncodeParts
      <4> QED
        BY <1>8, <2>1, <2>3, <2>5, <4>2
    <3>4. CASE p[j].kind = "branch"
      <4>1. Tails(w)[k]
        BY <1>12, <1>A, <3>1, TailsAreSeconds
      <4>2. k - 1 \in 1 .. n
        <5>1. ~Tails(w)[1]
          <6>1. 1 \in 0 .. n /\ Len(w) \in Nat
            BY <1>1
          <6> QED
            BY <6>1, TailsStep
        <5>2. k \in 1 .. n /\ k # 1
          BY <4>1, <5>1
        <5> HIDE DEF n
        <5> QED
          BY <1>1, <5>2
      <4>3. off + (k - 1) = x + 1
        <5>1. off + k = x + 2
          BY <1>5, <2>5
        <5>2. k \in Nat
          BY <1>1
        <5> HIDE DEF off, x
        <5> QED
          BY <1>1, <1>6, <5>1, <5>2
      <4>4. w[k - 1] = c[N][x + 1]
        BY <1>1, <4>2, <4>3
      <4>5. c[N][x + 1] = Encode(a, p[j])[1]
        <5>1. 1 \in 1 .. Width(a, p[j])
          BY <3>1
        <5> QED
          BY <1>6, <5>1
      <4>6. Encode(a, p[j])[1] = 12
        <5>1. Encode(a, p[j])[1] = 10 + Opcode(p[j].kind)
          BY <1>6, <1>10, <1>12, EncodeParts
        <5>2. Opcode(p[j].kind) = 2
          BY <3>4 DEF Opcode
        <5> QED
          BY <5>1, <5>2
      <4> QED
        BY <2>1, <2>3, <4>1, <4>4, <4>5, <4>6
    <3> QED
      BY <3>3, <3>4
  <2> QED
    BY <1>10, <2>4, <2>5
<1> QED
  BY <1>11, <1>12

LEMMA MaskLength ==
  ASSUME NEW a, NEW w, Len(w) \in Nat, w \in [1 .. Len(w) -> Nat], MaskWindow(w, a) # <<>>
  PROVE  /\ MaskWindow(w, a) \in [1 .. Len(w) -> {Wildcard} \cup Nat]
         /\ Len(MaskWindow(w, a)) = Len(w) /\ DOMAIN MaskWindow(w, a) = 1 .. Len(w)
<1> DEFINE m == MaskWindow(w, a)
<1>1. m \in [1 .. Len(w) -> {Wildcard} \cup Nat]
  <2>1. CASE a = "arm64"
    <3>1. m = MaskWindowArm64(w)
      BY <2>1 DEF MaskWindow
    <3>2. m = [k \in DOMAIN w |-> IF k % 2 = 1 /\ w[k + 1] \div 2 \in {2, 3} THEN Wildcard ELSE w[k]]
      BY <3>1 DEF MaskWindowArm64, Unmaskable
    <3> HIDE DEF m
    <3> QED
      BY <3>2
  <2>2. CASE a # "arm64"
    <3>1. m = MaskWindowX86(w)
      BY <2>2 DEF MaskWindow
    <3>2. m = [k \in DOMAIN w |-> IF Tails(w)[k] /\ w[k - 1] = 12 THEN Wildcard ELSE w[k]]
      BY <3>1 DEF MaskWindowX86, Unmaskable
    <3> HIDE DEF m
    <3> QED
      BY <3>2
  <2> QED
    BY <2>1, <2>2
<1> HIDE DEF m
<1>2. DOMAIN m = 1 .. Len(w) /\ Len(m) = Len(w)
  <2>1. m \in Seq({Wildcard} \cup Nat)
    BY <1>1
  <2> QED
    BY <1>1, <2>1
<1> QED
  BY <1>1, <1>2 DEF m

(* The function of a signature is found in the other build. *)
LEMMA FoundAgain ==
  ASSUME NEW a, NEW p, NEW q, NEW c, NEW e, NEW d, Relocated(a, p, q, c, e, d),
         NEW f \in 1 .. Len(p), NEW w, WindowOf(c, Len(p), Len(c[f - 1]), w),
         SteadyWindow(a, p, q, c, d, f, Len(w)), MaskWindow(w, a) # <<>>
  PROVE  Len(e[(f - 1) + d]) \in ScanAll(e[Len(q)], MaskWindow(w, a))
<1> DEFINE m == MaskWindow(w, a)
           n == Len(w)
           b == e[Len(q)]
           o == Len(e[(f - 1) + d])
           off == Len(c[f - 1])
           z == Len(e[d])
<1>1. m # <<>> /\ Len(m) = n /\ DOMAIN m = 1 .. n
  BY MaskLength DEF WindowOf
<1>2. \A k \in 1 .. n : m[k] \in {Wildcard, b[o + k]}
  BY MaskedIsTheSame
<1>3. /\ IsCode(a, p, c) /\ IsCode(a, q, e) /\ SameCode(p, q, d) /\ OffsetsMoved(p, c, e, d)
  BY OffsetsMove DEF Relocated
<1>4. /\ Len(p) \in Nat /\ d \in Nat /\ Len(q) = Len(p) + d /\ Len(q) \in Nat
      /\ f - 1 \in 0 .. Len(p) /\ Len(p) \in 0 .. Len(p) /\ d \in 0 .. Len(q) /\ Len(q) \in 0 .. Len(q)
  BY <1>3 DEF IsCode, SameCode
<1>5. /\ o = off + z /\ Len(b) = Len(c[Len(p)]) + z
  BY <1>3, <1>4 DEF OffsetsMoved
<1>6. b \in Seq(Nat) /\ Len(b) \in Nat /\ z \in Nat /\ Len(c[Len(p)]) \in Nat
  BY <1>3, <1>4 DEF IsCode
<1>7. n \in Nat /\ off \in Nat /\ off + n <= Len(c[Len(p)])
  BY DEF WindowOf
<1> HIDE DEF m, n, b, o, off, z
<1>8. o \in 0 .. Len(b) - n /\ o + n <= Len(b) /\ o \in Nat
  BY <1>5, <1>6, <1>7
<1>9. \A k \in 1 .. n : SubSeq(b, o + 1, o + n)[k] = b[o + k]
  BY <1>6, <1>7, <1>8
<1>10. WindowMatches(SubSeq(b, o + 1, o + n), m)
  BY <1>1, <1>2, <1>9 DEF WindowMatches
<1>11. o \in ScanAll(b, m)
  BY <1>1, <1>8, <1>10 DEF ScanAll
<1> QED
  BY <1>11 DEF o, b, m

(* A signature that siggen prints is that of a window at the offset, and   *)
(* it is found there and nowhere else.                                     *)
SignatureAt(binary, a, offset, signature) ==
  /\ ScanAll(binary, signature) = {offset} /\ signature # NoSignature
  /\ \E n \in 1 .. Len(binary) - offset :
       signature = MaskWindow(SubSeq(binary, offset + 1, offset + n), a)

LEMMA GeneratedIsThere ==
  ASSUME NEW a, NEW binary \in Seq(Nat), NEW offset \in 0 .. Len(binary),
         GenerateSignature(binary, a, offset) # NoSignature
  PROVE  SignatureAt(binary, a, offset, GenerateSignature(binary, a, offset))
<1> DEFINE Pattern(n) == MaskWindow(SubSeq(binary, offset + 1, offset + n), a)
           left == Len(binary) - offset
           bound == Min({left, MaxWindowUnits})
           lengths == {n \in 1 .. bound : /\ a = "arm64" => n % 2 = 0
                                          /\ ScanAll(binary, Pattern(n)) = {offset}}
           s == GenerateSignature(binary, a, offset)
<1>1. left \in Nat /\ MaxWindowUnits \in Nat
  BY ByteSignaturesAssumption
<1>2. bound \in Nat /\ bound <= left
  <2> HIDE DEF left
  <2>1. {left, MaxWindowUnits} \subseteq Nat /\ {left, MaxWindowUnits} # {}
    BY <1>1
  <2>2. \E x \in {left, MaxWindowUnits} : \A y \in {left, MaxWindowUnits} : x <= y
    BY <2>1, LeastNatural
  <2>3. /\ bound \in {left, MaxWindowUnits}
        /\ \A y \in {left, MaxWindowUnits} : bound <= y
    BY <2>2 DEF Min
  <2> QED
    BY <2>1, <2>3
<1>3. s = IF lengths = {} THEN NoSignature ELSE Pattern(Min(lengths))
  BY DEF GenerateSignature
<1>4. lengths # {} /\ s = Pattern(Min(lengths))
  BY <1>3
<1>5. lengths \subseteq 1 .. left /\ lengths \subseteq Nat
  <2> HIDE DEF bound, left, Pattern
  <2> QED
    BY <1>1, <1>2
<1>6. Min(lengths) \in lengths
  <2> HIDE DEF lengths
  <2>1. \E x \in lengths : \A y \in lengths : x <= y
    BY <1>4, <1>5, LeastNatural
  <2> QED
    BY <2>1 DEF Min
<1> DEFINE n == Min(lengths)
<1>7. ScanAll(binary, Pattern(n)) = {offset} /\ n \in 1 .. left
  <2> HIDE DEF left, Pattern, n, bound
  <2>1. n \in lengths
    BY <1>6 DEF n
  <2> QED
    BY <1>5, <2>1
<1> HIDE DEF n, bound, lengths, s
<1>8. s = Pattern(n)
  BY <1>4 DEF n
<1> QED
  BY <1>7, <1>8 DEF SignatureAt, s

LEMMA FunctionIsInside ==
  ASSUME NEW a \in Arches, NEW p \in Seq(Instruction), NEW f \in 1 .. Len(p)
  PROVE  Units(a, p) \in Seq(Nat) /\ OffsetOf(a, p, f) \in 0 .. Len(Units(a, p))
<1> DEFINE c == CodeUpTo(a, p)
           N == Len(p)
<1>1. IsCode(a, p, c)
  BY CodeLengths
<1> HIDE DEF c
<1>2. N \in Nat /\ N \in 0 .. N /\ f - 1 \in 0 .. N
  BY <1>1 DEF IsCode
<1>3. Placed(a, p, c, N)
  BY <1>1, <1>2, CodePlaces
<1>4. c[N] \in Seq(Nat) /\ Len(c[f - 1]) \in Nat /\ Width(a, p[f]) \in {1, 2}
  BY <1>1, <1>2 DEF IsCode
<1>5. \A x \in {1, 2} : 1 \in 1 .. x
  OBVIOUS
<1>6. Len(c[f - 1]) + 1 \in 1 .. Len(c[N])
  BY <1>3, <1>4, <1>5 DEF Placed
<1>7. Len(c[f - 1]) \in 0 .. Len(c[N])
  <2> DEFINE x == Len(c[f - 1])
  <2> HIDE DEF x
  <2>1. x \in Nat /\ x + 1 \in 1 .. Len(c[N]) /\ Len(c[N]) \in Nat
    BY <1>4, <1>6 DEF x
  <2>2. x \in 0 .. Len(c[N])
    BY <2>1
  <2> QED
    BY <2>2 DEF x
<1> QED
  BY <1>4, <1>7 DEF Units, OffsetOf, c

LEMMA ScannedOffsets ==
  ASSUME NEW b \in Seq(Nat), NEW m, Len(m) \in Nat
  PROVE  IsFiniteSet(ScanAll(b, m))
<1>1. ScanAll(b, m) \subseteq 0 .. Len(b) - Len(m)
  BY DEF ScanAll
<1>2. Len(b) - Len(m) \in Int
  OBVIOUS
<1>3. IsFiniteSet(0 .. Len(b) - Len(m))
  BY <1>2, FS_Interval
<1> QED
  BY <1>1, <1>3, FS_Subset

------------------------------------------------------------------------------
(* What is kept of a signature from build to build *)

SignatureFits ==
  declared # NotDeclared =>
    /\ function - Shift \in 1 .. Len(built) /\ SameCode(built, program, Shift)
    /\ declared.offset = OffsetOf(arch, built, function - Shift)
    /\ SignatureAt(Units(arch, built), arch, declared.offset, declared.signature)

SiggenInvariant ==
  /\ arch \in Arches /\ program \in Seq(Instruction) /\ built \in Seq(Instruction)
  /\ function \in 1 .. Len(program)
  /\ declared # NotDeclared /\ verdict # Unchecked =>
       verdict = Classify(Units(arch, program), declared)
  /\ SignatureFits

LEMMA SiggenStarts == SiggenInit => SiggenInvariant
<1>1. SUFFICES ASSUME SiggenInit PROVE SiggenInvariant
  OBVIOUS
<1>2. program \in Seq(Instruction) /\ built = program
  BY <1>1, ByteSignaturesAssumption DEF SiggenInit
<1>3. function \in 1 .. Len(program)
  <2>1. DOMAIN program = 1 .. Len(program)
    BY <1>2
  <2> QED
    BY <1>1, <2>1 DEF SiggenInit
<1> QED
  BY <1>1, <1>2, <1>3 DEF SiggenInit, SiggenInvariant, SignatureFits, Arches

LEMMA RunSiggenKeeps ==
  ASSUME SiggenInvariant, RunSiggen
  PROVE  SiggenInvariant'
<1> DEFINE U == Units(arch, program)
           here == OffsetOf(arch, program, function)
           s == GenerateSignature(U, arch, here)
<1>1. /\ s # NoSignature /\ declared' = [offset |-> here, signature |-> s]
      /\ built' = program /\ verdict' = Unchecked
      /\ arch' = arch /\ program' = program /\ function' = function
  BY DEF RunSiggen
<1>2. arch \in Arches /\ program \in Seq(Instruction) /\ function \in 1 .. Len(program)
  BY DEF SiggenInvariant
<1>3. U \in Seq(Nat) /\ here \in 0 .. Len(U)
  BY <1>2, FunctionIsInside
<1>4. SignatureAt(U, arch, here, s)
  <2> HIDE DEF U, here
  <2> QED
    BY <1>1, <1>3, GeneratedIsThere
<1> HIDE DEF s
<1>5. declared'.signature = s /\ declared'.offset = here
  BY <1>1
<1>6. Len(program) \in Nat /\ function - 0 = function
  BY <1>2
<1>7. Shift' = 0 /\ function' - Shift' = function
  BY <1>1, <1>6 DEF Shift
<1>8. SameCode(program, program, 0)
  <2>1. \A k \in 1 .. Len(program) : k + 0 = k
    OBVIOUS
  <2> QED
    BY <1>6, <2>1 DEF SameCode
<1>9. SignatureFits'
  BY <1>1, <1>2, <1>4, <1>5, <1>7, <1>8 DEF SignatureFits
<1> QED
  BY <1>1, <1>2, <1>9 DEF SiggenInvariant

LEMMA CodeAfterCode ==
  \A a, b \in Seq(Instruction) :
    /\ a \o b \in Seq(Instruction) /\ Len(a \o b) = Len(a) + Len(b)
    /\ \A k \in 1 .. Len(b) : (a \o b)[Len(a) + k] = b[k]
BY ConcatPlaces

(* A build linked anew has the code of the old one after what was put      *)
(* before it.                                                              *)
LEMMA RelinkedCode ==
  ASSUME NEW p \in Seq(Instruction), NEW f \in 1 .. Len(p),
         NEW before \in Insertions \cup {<<>>}, NEW code \in [DOMAIN p -> Instruction],
         \A k \in DOMAIN p : code[k] \in LinkedAnew(p[k])
  PROVE  /\ before \o code \in Seq(Instruction) /\ Len(before) \in Nat
         /\ f + Len(before) \in 1 .. Len(before \o code)
         /\ SameCode(p, before \o code, Len(before))
<1> DEFINE N == Len(p)
           d == Len(before)
           q == before \o code
<1>1. DOMAIN p = 1 .. N /\ N \in Nat
  OBVIOUS
<1>2. before \in Seq(Instruction) /\ d \in Nat
  <2>1. before \in Seq(Instruction)
    <3>1. <<>> \in Seq(Instruction)
      OBVIOUS
    <3> QED
      BY <3>1, ByteSignaturesAssumption, Zenon
  <2> QED
    BY <2>1
<1>3. code \in [1 .. N -> Instruction] /\ code \in Seq(Instruction) /\ Len(code) = N
  BY <1>1
<1>4. ASSUME NEW k \in 1 .. N PROVE code[k].kind = p[k].kind
  BY <1>1 DEF LinkedAnew
<1> HIDE DEF N, d, q
<1>5. /\ q \in Seq(Instruction) /\ Len(q) = d + N
      /\ \A k \in 1 .. N : q[d + k] = code[k]
  <2>1. before \in Seq(Instruction) /\ code \in Seq(Instruction) /\ d \in Nat
    BY <1>2, <1>3
  <2>2. /\ q \in Seq(Instruction) /\ Len(q) = Len(before) + Len(code)
        /\ \A k \in 1 .. Len(code) : q[Len(before) + k] = code[k]
    BY <2>1, CodeAfterCode, Zenon DEF q
  <2> QED
    BY <1>3, <2>2 DEF d
<1>6. f + d \in 1 .. Len(q)
  <2>1. f \in 1 .. N
    BY DEF N
  <2> QED
    BY <1>1, <1>2, <1>5, <2>1
<1>7. SameCode(p, q, d)
  <2>1. ASSUME NEW k \in 1 .. N PROVE q[k + d].kind = p[k].kind
    <3>1. k + d = d + k
      BY <1>1, <1>2
    <3> QED
      BY <1>4, <1>5, <3>1
  <2>2. Len(q) = N + d
    BY <1>1, <1>2, <1>5
  <2> QED
    BY <1>2, <2>1, <2>2 DEF SameCode, N
<1> QED
  BY <1>2, <1>5, <1>6, <1>7 DEF q, d

LEMMA SameCodeAgain ==
  ASSUME NEW p, NEW q, NEW r, NEW d, NEW e, Len(p) \in Nat,
         SameCode(p, q, d), SameCode(q, r, e)
  PROVE  SameCode(p, r, d + e)
<1>1. /\ d \in Nat /\ Len(q) = Len(p) + d /\ \A k \in 1 .. Len(p) : q[k + d].kind = p[k].kind
      /\ e \in Nat /\ Len(r) = Len(q) + e /\ \A k \in 1 .. Len(q) : r[k + e].kind = q[k].kind
  BY DEF SameCode
<1>2. d + e \in Nat /\ Len(r) = Len(p) + (d + e)
  BY <1>1
<1>3. ASSUME NEW k \in 1 .. Len(p) PROVE r[k + (d + e)].kind = p[k].kind
  <2>1. k + d \in 1 .. Len(q) /\ (k + d) + e = k + (d + e)
    BY <1>1
  <2>2. r[(k + d) + e].kind = q[k + d].kind
    BY <1>1, <2>1
  <2> QED
    BY <1>1, <2>1, <2>2
<1> QED
  BY <1>2, <1>3 DEF SameCode

LEMMA RelinkKeeps ==
  ASSUME SiggenInvariant, Relink
  PROVE  SiggenInvariant'
<1>1. /\ declared # NotDeclared /\ verdict' = Unchecked
      /\ arch' = arch /\ declared' = declared /\ built' = built
  BY DEF Relink
<1>2. /\ arch \in Arches /\ program \in Seq(Instruction) /\ built \in Seq(Instruction)
      /\ function \in 1 .. Len(program)
  BY DEF SiggenInvariant
<1>3. PICK before \in Insertions \cup {<<>>}, code \in [DOMAIN program -> Instruction] :
        /\ \A k \in DOMAIN program : code[k] \in LinkedAnew(program[k])
        /\ program' = before \o code /\ function' = function + Len(before)
  BY DEF Relink
<1> DEFINE d == Len(before)
<1>4. /\ program' \in Seq(Instruction) /\ d \in Nat /\ function + d \in 1 .. Len(program')
      /\ SameCode(program, program', d)
  BY <1>2, <1>3, RelinkedCode
<1>5. /\ function - Shift \in 1 .. Len(built) /\ SameCode(built, program, Shift)
      /\ declared.offset = OffsetOf(arch, built, function - Shift)
      /\ SignatureAt(Units(arch, built), arch, declared.offset, declared.signature)
  BY <1>1 DEF SiggenInvariant, SignatureFits
<1>6. /\ Shift' = Shift + d /\ function' - Shift' = function - Shift
      /\ Len(built) \in Nat
  <2>1. Len(program) \in Nat /\ Len(built) \in Nat /\ function \in Nat
    BY <1>2
  <2>2. Len(program') = Len(program) + d /\ function' = function + d
    BY <1>3, <1>4 DEF SameCode
  <2>3. Shift = Len(program) - Len(built) /\ Shift' = Len(program') - Len(built)
    BY <1>1 DEF Shift
  <2> DEFINE l == Len(program)
             m == Len(program')
             n == Len(built)
  <2> HIDE DEF d, l, m, n
  <2>4. /\ l \in Nat /\ n \in Nat /\ m = l + d /\ Shift = l - n /\ Shift' = m - n
        /\ d \in Nat
    BY <1>4, <2>1, <2>2, <2>3 DEF l, m, n
  <2>5. Shift' = Shift + d
    BY <2>4
  <2>6. (function + d) - Shift' = function - Shift
    BY <2>1, <2>4
  <2> QED
    BY <2>1, <2>2, <2>5, <2>6
<1>7. SameCode(built, program', Shift + d)
  BY <1>4, <1>5, <1>6, SameCodeAgain
<1>8. SignatureFits'
  BY <1>1, <1>5, <1>6, <1>7 DEF SignatureFits
<1> QED
  BY <1>1, <1>2, <1>3, <1>4, <1>8 DEF SiggenInvariant

LEMMA CheckKeeps ==
  ASSUME SiggenInvariant, RunCheckOffsets
  PROVE  SiggenInvariant'
<1>1. /\ verdict' = Classify(Units(arch, program), declared)
      /\ arch' = arch /\ program' = program /\ function' = function
      /\ declared' = declared /\ built' = built
  BY DEF RunCheckOffsets
<1>2. SignatureFits'
  BY <1>1 DEF SiggenInvariant, SignatureFits, Shift
<1> QED
  BY <1>1, <1>2 DEF SiggenInvariant

LEMMA SiggenSteps ==
  ASSUME SiggenInvariant, [SiggenNext]_siggenVars
  PROVE  SiggenInvariant'
<1>1. CASE RunSiggen
  BY <1>1, RunSiggenKeeps
<1>2. CASE Relink
  BY <1>2, RelinkKeeps
<1>3. CASE RunCheckOffsets
  BY <1>3, CheckKeeps
<1>4. CASE UNCHANGED siggenVars
  BY <1>4 DEF SiggenInvariant, SignatureFits, Shift, siggenVars
<1> QED
  BY <1>1, <1>2, <1>3, <1>4 DEF SiggenNext

LEMMA WindowPlaces ==
  ASSUME NEW s \in Seq(Nat), NEW o \in 0 .. Len(s), NEW n \in 1 .. Len(s) - o
  PROVE  LET w == SubSeq(s, o + 1, o + n)
         IN  /\ Len(w) = n /\ n \in Nat /\ o \in Nat /\ o + n <= Len(s)
             /\ w \in [1 .. n -> Nat] /\ \A k \in 1 .. n : w[k] = s[o + k]
<1> DEFINE l == o + 1
           h == o + n
           w == SubSeq(s, l, h)
<1>1. /\ n \in Nat /\ o \in Nat /\ h <= Len(s) /\ l \in Int /\ h \in Int
      /\ l <= h /\ h - l + 1 = n
  OBVIOUS
<1>2. \A k \in l .. h : s[k] \in Nat
  BY <1>1
<1>3. \A k \in 1 .. n : l + k - 1 = o + k
  BY <1>1
<1> HIDE DEF l, h
<1>4. /\ w \in Seq(Nat) /\ Len(w) = IF l <= h THEN h - l + 1 ELSE 0
      /\ \A k \in 1 .. h - l + 1 : w[k] = s[l + k - 1]
  BY <1>1, <1>2, SubSeqProperties, SMTT(30)
<1> HIDE DEF w
<1>5. w \in Seq(Nat) /\ Len(w) = n /\ \A k \in 1 .. n : w[k] = s[o + k]
  BY <1>1, <1>3, <1>4
<1>6. w \in [1 .. Len(w) -> Nat]
  BY <1>5, LenProperties
<1> QED
  BY <1>1, <1>5, <1>6 DEF w, l, h

(* Where the signed code is steady, the signature is found at the function. *)
LEMMA SteadyIsFound ==
  ASSUME SiggenInvariant, declared # NotDeclared,
         \A k \in SignedCode : Steady(arch, built[k], program[k + Shift])
  PROVE  /\ OffsetOf(arch, program, function) \in
              ScanAll(Units(arch, program), declared.signature)
         /\ declared.signature # NoSignature /\ Len(declared.signature) \in Nat
<1> DEFINE p == built
           q == program
           d == Shift
           f == function - Shift
           c == CodeUpTo(arch, p)
           e == CodeUpTo(arch, q)
           s == declared.signature
           U == Units(arch, p)
           here == OffsetOf(arch, p, f)
<1>1. arch \in Arches /\ p \in Seq(Instruction) /\ q \in Seq(Instruction)
  BY DEF SiggenInvariant
<1>2. /\ f \in 1 .. Len(p) /\ SameCode(p, q, d)
      /\ SignatureAt(U, arch, here, s)
  BY DEF SiggenInvariant, SignatureFits
<1>3. PICK n \in 1 .. Len(U) - here : s = MaskWindow(SubSeq(U, here + 1, here + n), arch)
  BY <1>2 DEF SignatureAt
<1>4. s # <<>>
  BY <1>2 DEF SignatureAt, NoSignature
<1>5. U \in Seq(Nat) /\ here \in 0 .. Len(U)
  BY <1>1, <1>2, FunctionIsInside
<1> DEFINE w == SubSeq(U, here + 1, here + n)
<1>6. WindowOf(c, Len(p), here, w) /\ Len(w) = n
  <2>1. U = c[Len(p)]
    BY DEF Units
  <2> HIDE DEF U, here, c, p
  <2>2. /\ Len(w) = n /\ n \in Nat /\ here \in Nat /\ here + n <= Len(U)
        /\ w \in [1 .. n -> Nat] /\ \A k \in 1 .. n : w[k] = U[here + k]
    BY <1>5, WindowPlaces
  <2> HIDE DEF w
  <2> QED
    BY <2>1, <2>2 DEF WindowOf
<1>7. here = Len(c[f - 1])
  BY DEF OffsetOf
<1>8. Relocated(arch, p, q, c, e, d)
  <2>1. IsCode(arch, p, c)
    BY <1>1, CodeLengths
  <2>2. IsCode(arch, q, e)
    BY <1>1, CodeLengths
  <2> QED
    BY <1>2, <2>1, <2>2 DEF Relocated
<1>9. s = MaskWindow(w, arch) /\ MaskWindow(w, arch) # <<>>
  BY <1>3, <1>4
<1>10. Len(s) = n /\ Len(s) \in Nat
  <2>1. Len(w) \in Nat /\ w \in [1 .. Len(w) -> Nat]
    BY <1>6 DEF WindowOf
  <2> HIDE DEF w, s
  <2> QED
    BY <1>6, <1>9, <2>1, MaskLength
<1>11. SteadyWindow(arch, p, q, c, d, f, Len(w))
  <2>1. DOMAIN p = 1 .. Len(p)
    BY <1>1
  <2>2. SUFFICES ASSUME NEW k \in 1 .. Len(p), k >= f, Len(c[k - 1]) < Len(c[f - 1]) + Len(w)
                 PROVE  Steady(arch, p[k], q[k + d])
    BY DEF SteadyWindow
  <2>3. OffsetOf(arch, p, k) = Len(c[k - 1])
    BY DEF OffsetOf
  <2>4. OffsetOf(arch, p, k) < here + Len(s)
    BY <1>6, <1>7, <1>10, <2>2, <2>3
  <2>5. k \in SignedCode
    BY <2>1, <2>2, <2>4 DEF SignedCode
  <2> QED
    BY <2>5
<1>12. (f - 1) + d = function - 1
  <2>1. function \in Nat /\ Len(program) \in Nat /\ Len(built) \in Nat
    BY DEF SiggenInvariant
  <2>2. Shift \in Int
    BY <2>1 DEF Shift
  <2> QED
    BY <2>1, <2>2
<1>13. OffsetOf(arch, program, function) = Len(e[(f - 1) + d])
  BY <1>12 DEF OffsetOf
<1>14. Units(arch, program) = e[Len(q)]
  BY DEF Units
<1> HIDE DEF p, q, d, f, c, e, s, U, here, w
<1>15. Len(e[(f - 1) + d]) \in ScanAll(e[Len(q)], MaskWindow(w, arch))
  BY <1>2, <1>6, <1>7, <1>8, <1>9, <1>11, FoundAgain
<1> QED
  BY <1>4, <1>9, <1>10, <1>13, <1>14, <1>15 DEF s, NoSignature

LEMMA InvariantFindsCode == SiggenInvariant => SteadyCodeIsFound
<1> DEFINE U == Units(arch, program)
           here == OffsetOf(arch, program, function)
           s == declared.signature
           matches == ScanAll(U, s)
           steady == \A k \in SignedCode : Steady(arch, built[k], program[k + Shift])
<1>1. SUFFICES ASSUME SiggenInvariant, declared # NotDeclared, verdict # Unchecked
      PROVE  /\ program = built => verdict.is = "valid"
             /\ steady => verdict.is # "invalid" /\ (verdict.is = "shifted" => verdict.at = here)
  BY DEF SteadyCodeIsFound
<1>2. verdict = Classify(U, declared) /\ U \in Seq(Nat)
  BY <1>1, FunctionIsInside DEF SiggenInvariant
<1>3. ASSUME program = built PROVE verdict.is = "valid"
  <2>1. s # NoSignature /\ declared.offset \in matches
    BY <1>1, <1>3 DEF SiggenInvariant, SignatureFits, SignatureAt
  <2> HIDE DEF U, here, s, matches
  <2>2. Classify(U, declared) = [is |-> "valid", at |-> declared.offset]
    BY <2>1 DEF Classify, matches, s
  <2> QED
    BY <1>2, <2>2
<1>4. ASSUME steady
      PROVE  verdict.is # "invalid" /\ (verdict.is = "shifted" => verdict.at = here)
  <2>1. s # NoSignature /\ here \in matches /\ Len(s) \in Nat
    BY <1>1, <1>4, SteadyIsFound
  <2>2. CASE declared.offset \in matches
    <3> HIDE DEF U, here, s, matches
    <3>1. Classify(U, declared) = [is |-> "valid", at |-> declared.offset]
      BY <2>1, <2>2 DEF Classify, matches, s
    <3> QED
      BY <1>2, <3>1
  <2>3. CASE declared.offset \notin matches /\ Cardinality(matches) = 1
    <3> HIDE DEF U, here, s, matches
    <3>1. Classify(U, declared) = [is |-> "shifted", at |-> CHOOSE o \in matches : TRUE]
      BY <2>1, <2>3 DEF Classify, matches, s
    <3>2. \E x : matches = {x}
      <4>1. IsFiniteSet(matches)
        BY <1>2, <2>1, ScannedOffsets DEF matches
      <4> QED
        BY <2>3, <4>1, FS_Singleton
    <3>3. (CHOOSE o \in matches : TRUE) = here
      BY <2>1, <3>2
    <3> QED
      BY <1>2, <3>1, <3>3
  <2>4. CASE declared.offset \notin matches /\ Cardinality(matches) # 1
    <3> HIDE DEF U, here, s, matches
    <3>1. Classify(U, declared) = [is |-> "undeterminable", at |-> declared.offset]
      BY <2>1, <2>4 DEF Classify, matches, s
    <3> QED
      BY <1>2, <3>1
  <2> QED
    BY <2>2, <2>3, <2>4
<1> QED
  BY <1>3, <1>4

(* A signature that siggen printed is valid in the build it is from, and   *)
(* after any number of updates, which may link all of the code anew, it    *)
(* finds its function if the instructions it covers are steady: for        *)
(* programs, windows and fields of any size.                               *)
THEOREM CodeIsFoundAgain == SiggenSpec => []SteadyCodeIsFound
<1>1. SiggenInvariant /\ [SiggenNext]_siggenVars => SiggenInvariant'
  BY SiggenSteps
<1> QED
  BY <1>1, SiggenStarts, InvariantFindsCode, PTL DEF SiggenSpec
==============================================================================
