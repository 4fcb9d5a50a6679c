------------------------ MODULE LoaderImage_proofs ------------------------
(***************************************************************************)
(* The image on its way through memory, for every board: kernels and       *)
(* initial tasks of any number of segments, put and loaded anywhere.       *)
(*                                                                         *)
(* LoaderInv says what is in memory at each stage: the whole image until   *)
(* copy_data() begins, then the loader, and, as long as no region is       *)
(* loaded on the payload, that too and the regions unpacked so far; and    *)
(* what the tool has checked before.  The page tables are arithmetic: two  *)
(* addresses of the same gigabyte are as many entries apart as blocks      *)
(* (SameTable), so that the leaf for the one is as far from the leaf for   *)
(* the other as the addresses are (LeafOf).                                *)
(*                                                                         *)
(* Where the parts of the image are is a matter of sums and concatenations *)
(* of sequences of any length.  Both are recursive functions, and what     *)
(* they compute is proved by induction: from the well-foundedness of < on  *)
(* the natural numbers, as a fact about sets of them (Induction).          *)
(***************************************************************************)
EXTENDS LoaderImage, Lemmas, TLAPS

-----------------------------------------------------------------------------
(* What the tool makes of a board.                                         *)

PartOf(b) == {b.task[i] : i \in DOMAIN b.task}

\* The segments of the initial task begin above the lowest one.
LEMMA TaskFacts ==
  ASSUME NEW b \in Boards
  PROVE  /\ TaskSegments(b) \in Seq(PartOf(b))
         /\ \A s \in PartOf(b) :
              /\ s.vaddr \in Nat /\ s.size \in Nat
              /\ TaskVaddr(b) \in Nat /\ TaskVaddr(b) <= s.vaddr
<1>a. b.task \in Seq([vaddr : Nat, size : Nat])
  BY BoardsAssumption
<1>1. TaskSegments(b) \in Seq(PartOf(b))
  <2> DEFINE ss == [i \in DOMAIN b.task |-> IF b.task[i].size > 0 THEN <<b.task[i]>> ELSE <<>>]
             a == [k \in 1 .. Len(ss) |-> Len(ss[k])]
  <2>1. ss \in Seq(Seq(PartOf(b)))
    <3>1. \A i \in 1 .. Len(b.task) : <<b.task[i]>> \in Seq(PartOf(b)) /\ <<>> \in Seq(PartOf(b))
      BY <1>a DEF PartOf
    <3>2. ss = [i \in 1 .. Len(b.task) |-> IF b.task[i].size > 0 THEN <<b.task[i]>> ELSE <<>>]
      BY <1>a
    <3>3. \A i \in 1 .. Len(b.task) : (IF b.task[i].size > 0 THEN <<b.task[i]>> ELSE <<>>) \in Seq(PartOf(b))
      BY <3>1
    <3>4. Len(b.task) \in Nat
      BY <1>a
    <3>5. ss \in [1 .. Len(b.task) -> Seq(PartOf(b))]
      <4> HIDE DEF PartOf
      <4> QED
        BY <3>2, <3>3
    <3> HIDE DEF ss
    <3> QED
      BY <3>4, <3>5, Sequence
  <2>2. TaskSegments(b) = FlattenSeq(ss)
    BY DEF TaskSegments
  <2> HIDE DEF ss
  <2>3. Len(ss) \in Nat /\ a \in [1 .. Len(ss) -> Nat] /\ \A k \in 1 .. Len(ss) : a[k] = Len(ss[k])
    BY <2>1
  <2> HIDE DEF a
  <2>4. PICK f : SumsOf(f, a, Len(ss))
    BY <2>3, SumsExist
  <2> QED
    BY <2>1, <2>2, <2>3, <2>4, FlattenFacts
<1>2. ASSUME NEW s \in PartOf(b)
      PROVE  /\ s.vaddr \in Nat /\ s.size \in Nat
             /\ TaskVaddr(b) \in Nat /\ TaskVaddr(b) <= s.vaddr
  <2> DEFINE S == {b.task[i].vaddr : i \in DOMAIN b.task}
  <2>1. \A i \in DOMAIN b.task : b.task[i].vaddr \in Nat /\ b.task[i].size \in Nat
    <3>1. \A i \in DOMAIN b.task : b.task[i] \in [vaddr : Nat, size : Nat]
      BY <1>a, Elements
    <3> QED
      BY <3>1
  <2>2. S \subseteq Nat /\ s.vaddr \in S /\ s.size \in Nat
    BY <2>1 DEF PartOf
  <2>3. TaskVaddr(b) = Min(S)
    BY DEF TaskVaddr
  <2> HIDE DEF S
  <2>4. \E n \in S : \A m \in S : n <= m
    BY <2>2, Least
  <2>5. Min(S) \in S /\ \A m \in S : Min(S) <= m
    BY <2>4 DEF Min
  <2> QED
    BY <2>2, <2>3, <2>5
<1> QED
  BY <1>1, <1>2

\* The regions are the segments of the kernel and those of the initial task.
LEMMA RegionFacts ==
  ASSUME NEW b \in Boards
  PROVE  /\ Regions(b) \in Seq([load : Nat, size : Nat])
         /\ Len(Regions(b)) = Len(b.kernel) + Len(TaskSegments(b))
         /\ \A r \in 1 .. Len(b.kernel) :
              Regions(b)[r] = [load |-> b.kernel[r].paddr, size |-> b.kernel[r].size]
         /\ \A s \in 1 .. Len(TaskSegments(b)) :
              /\ TaskSegments(b)[s].vaddr \in Nat /\ TaskSegments(b)[s].size \in Nat
              /\ TaskVaddr(b) \in Nat
              /\ Regions(b)[Len(b.kernel) + s] =
                   [load |-> b.base + (TaskSegments(b)[s].vaddr - TaskVaddr(b)),
                    size |-> TaskSegments(b)[s].size]
<1> DEFINE S == [load : Nat, size : Nat]
           k == [i \in DOMAIN b.kernel |-> [load |-> b.kernel[i].paddr, size |-> b.kernel[i].size]]
           t == [i \in DOMAIN TaskSegments(b) |->
                   [load |-> b.base + (TaskSegments(b)[i].vaddr - TaskVaddr(b)), size |-> TaskSegments(b)[i].size]]
<1>1. Regions(b) = k \o t
  BY DEF Regions
<1>2. /\ k \in Seq(S) /\ Len(k) = Len(b.kernel)
      /\ \A r \in 1 .. Len(b.kernel) : k[r] = [load |-> b.kernel[r].paddr, size |-> b.kernel[r].size]
  <2>1. b.kernel \in Seq([vaddr : Nat, paddr : Nat, size : Nat])
    BY BoardsAssumption
  <2>2. /\ DOMAIN b.kernel = 1 .. Len(b.kernel) /\ Len(b.kernel) \in Nat
        /\ \A r \in 1 .. Len(b.kernel) : b.kernel[r] \in [vaddr : Nat, paddr : Nat, size : Nat]
    BY <2>1, Elements
  <2>3. \A r \in 1 .. Len(b.kernel) : [load |-> b.kernel[r].paddr, size |-> b.kernel[r].size] \in S
    BY <2>2
  <2>4. k = [r \in 1 .. Len(b.kernel) |-> [load |-> b.kernel[r].paddr, size |-> b.kernel[r].size]]
    BY <2>2
  <2> HIDE DEF k, S
  <2>5. k \in [1 .. Len(b.kernel) -> S]
    BY <2>3, <2>4
  <2>6. Len(b.kernel) \in Nat
    BY <2>2
  <2>7. k \in Seq(S) /\ Len(k) = Len(b.kernel)
    BY <2>5, <2>6, Sequence
  <2>8. \A r \in 1 .. Len(b.kernel) : k[r] = [load |-> b.kernel[r].paddr, size |-> b.kernel[r].size]
    BY <2>4
  <2> QED
    BY <2>7, <2>8
<1>3. /\ t \in Seq(S) /\ Len(t) = Len(TaskSegments(b))
      /\ \A s \in 1 .. Len(TaskSegments(b)) :
           /\ TaskSegments(b)[s].vaddr \in Nat /\ TaskSegments(b)[s].size \in Nat
           /\ TaskVaddr(b) \in Nat
           /\ t[s] = [load |-> b.base + (TaskSegments(b)[s].vaddr - TaskVaddr(b)),
                      size |-> TaskSegments(b)[s].size]
  <2> DEFINE u == TaskSegments(b)
  <2>1. u \in Seq(PartOf(b)) /\ b.base \in Nat
    BY TaskFacts, BoardsAssumption
  <2>2. DOMAIN u = 1 .. Len(u) /\ Len(u) \in Nat /\ \A i \in 1 .. Len(u) : u[i] \in PartOf(b)
    BY <2>1
  <2> HIDE DEF u
  <2>3. \A i \in 1 .. Len(u) :
          /\ u[i].vaddr \in Nat /\ u[i].size \in Nat /\ TaskVaddr(b) \in Nat /\ TaskVaddr(b) <= u[i].vaddr
    BY <2>2, TaskFacts
  <2>4. \A i \in 1 .. Len(u) : [load |-> b.base + (u[i].vaddr - TaskVaddr(b)), size |-> u[i].size] \in S
    BY <2>1, <2>3
  <2>5. t = [i \in 1 .. Len(u) |-> [load |-> b.base + (u[i].vaddr - TaskVaddr(b)), size |-> u[i].size]]
    BY <2>2 DEF u
  <2> HIDE DEF t, S
  <2>6. t \in Seq(S) /\ Len(t) = Len(u)
    <3>1. t \in [1 .. Len(u) -> S]
      BY <2>4, <2>5
    <3> QED
      BY <2>2, <3>1, Sequence
  <2>7. \A i \in 1 .. Len(u) : t[i] = [load |-> b.base + (u[i].vaddr - TaskVaddr(b)), size |-> u[i].size]
    BY <2>5
  <2> QED
    BY <2>3, <2>6, <2>7 DEF u
<1>4. /\ k \o t \in Seq(S) /\ Len(k \o t) = Len(k) + Len(t)
      /\ \A i \in 1 .. Len(k) : (k \o t)[i] = k[i]
      /\ \A i \in 1 .. Len(t) : (k \o t)[Len(k) + i] = t[i]
  <2>1. k \in Seq(S) /\ t \in Seq(S)
    BY <1>2, <1>3
  <2> HIDE DEF k, t, S
  <2> QED
    BY <2>1, Concatenated
<1> HIDE DEF k, t
<1> QED
  BY <1>1, <1>2, <1>3, <1>4

\* Offsets are sums of sizes.
LEMMA OffsetFacts ==
  ASSUME NEW b \in Boards
  PROVE  \E f :
           /\ SumsOf(f, [k \in 1 .. Len(Regions(b)) |-> Regions(b)[k].size], Len(Regions(b)))
           /\ \A i \in 1 .. Len(Regions(b)) + 1 : Offset(b, i) = f[i - 1]
<1> DEFINE n == Len(Regions(b))
           a == [k \in 1 .. n |-> Regions(b)[k].size]
           G(g) == g = [k \in 0 .. n |-> IF k = 0 THEN 0 ELSE g[k - 1] + Regions(b)[k].size]
           g == CHOOSE g : G(g)
<1>1. n \in Nat /\ a \in [1 .. n -> Nat] /\ \A k \in 1 .. n : a[k] = Regions(b)[k].size /\ a[k] \in Nat
  <2>1. Regions(b) \in Seq([load : Nat, size : Nat])
    BY RegionFacts
  <2>2. n \in Nat /\ \A k \in 1 .. n : Regions(b)[k] \in [load : Nat, size : Nat]
    BY <2>1, Elements
  <2>3. \A k \in 1 .. n : Regions(b)[k].size \in Nat
    BY <2>2
  <2> QED
    BY <2>2, <2>3
<1>2. \E h : G(h)
  <2>1. PICK h : SumsOf(h, a, n)
    <3> HIDE DEF a, n
    <3> QED
      BY <1>1, SumsExist
  <2>2. h = [k \in 0 .. n |-> h[k]]
    BY <2>1 DEF SumsOf
  <2>3. \A k \in 0 .. n : h[k] = IF k = 0 THEN 0 ELSE h[k - 1] + Regions(b)[k].size
    <3> HIDE DEF a, n
    <3> QED
      BY <1>1, <2>1 DEF SumsOf
  <2>4. G(h)
    BY <2>2, <2>3
  <2> QED
    BY <2>4
<1>3. G(g)
  <2> HIDE DEF G
  <2> QED
    BY <1>2
<1>4. \A i : Offset(b, i) = g[i - 1]
  BY DEF Offset
<1>5. DOMAIN g = 0 .. n /\ g = [k \in 0 .. n |-> g[k]] /\ g[0] = 0 /\ \A k \in 1 .. n : g[k] = g[k - 1] + a[k]
  <2> HIDE DEF g
  <2>1. \A k \in 0 .. n : g[k] = IF k = 0 THEN 0 ELSE g[k - 1] + Regions(b)[k].size
    BY <1>3
  <2>2. DOMAIN g = 0 .. n
    BY <1>3
  <2> HIDE DEF G
  <2>3. g = [k \in 0 .. n |-> g[k]]
    BY <1>3 DEF G
  <2>4. g[0] = 0
    BY <1>1, <2>1
  <2>5. \A k \in 1 .. n : g[k] = g[k - 1] + Regions(b)[k].size
    <3> HIDE DEF n
    <3> QED
      BY <1>1, <2>1
  <2>6. \A k \in 1 .. n : a[k] = Regions(b)[k].size
    BY <1>1
  <2> HIDE DEF n, a
  <2> QED
    BY <2>2, <2>3, <2>4, <2>5, <2>6
<1> HIDE DEF g, a, n, G
<1>6. \A k \in 0 .. n : g[k] \in Nat
  <2> DEFINE T == {m \in Nat : m <= n => g[m] \in Nat}
  <2>1. 0 \in T
    BY <1>5
  <2>2. ASSUME NEW m \in Nat, m \in T
        PROVE  m + 1 \in T
    <3> SUFFICES ASSUME m + 1 <= n
                 PROVE  g[m + 1] \in Nat
      OBVIOUS
    <3>1. m + 1 \in 1 .. n /\ (m + 1) - 1 = m /\ g[m] \in Nat
      BY <1>1, <2>2
    <3>2. g[m + 1] = g[(m + 1) - 1] + a[m + 1] /\ a[m + 1] \in Nat
      BY <1>1, <1>5, <3>1
    <3> QED
      BY <3>1, <3>2
  <2>3. Nat \subseteq T
    <3> HIDE DEF T
    <3> QED
      BY <2>1, <2>2, Induction
  <2> QED
    BY <1>1, <2>3
<1>7. SumsOf(g, a, n)
  BY <1>1, <1>5, <1>6 DEF SumsOf
<1> QED
  BY <1>4, <1>7 DEF a, n

PageValues ==
  {Header} \cup {LoaderPage(i) : i \in Nat} \cup {DataPage(r, i) : r \in Nat, i \in Nat}

\* All pages of an image are of that kind.
LEMMA PagesAreValues ==
  /\ Header \in PageValues
  /\ \A i \in Nat : LoaderPage(i) \in PageValues
  /\ \A r, i \in Nat : DataPage(r, i) \in PageValues
  BY DEF PageValues

\* Where the parts of the image are: the loader, the header, the data of the
\* regions.
LEMMA ImageFacts ==
  ASSUME NEW b \in Boards
  PROVE  /\ Len(Image(b)) = b.loader + PayloadSize(b)
         /\ PayloadSize(b) \in Nat \ {0}
         /\ \A i \in 1 .. b.loader : Image(b)[i] = LoaderPage(i)
         /\ Image(b)[b.loader + 1] = Header
         /\ \A r \in 1 .. Len(Regions(b)) :
              /\ Regions(b)[r].load \in Nat /\ Regions(b)[r].size \in Nat
              /\ Offset(b, r) \in Nat
              /\ 1 + Offset(b, r) + Regions(b)[r].size <= PayloadSize(b)
              /\ \A i \in 1 .. Regions(b)[r].size :
                   Image(b)[b.loader + 1 + (Offset(b, r) + i)] = DataPage(r, i)
<1> DEFINE n == Len(Regions(b))
           size(r) == Regions(b)[r].size
           a == [r \in 1 .. n |-> size(r)]
           data == [r \in DOMAIN Regions(b) |-> [i \in 1 .. size(r) |-> DataPage(r, i)]]
           own == [i \in 1 .. b.loader |-> LoaderPage(i)]
<1>1. /\ n \in Nat /\ DOMAIN Regions(b) = 1 .. n
      /\ \A r \in 1 .. n : Regions(b)[r] \in [load : Nat, size : Nat]
  <2>1. Regions(b) \in Seq([load : Nat, size : Nat])
    BY RegionFacts
  <2> QED
    BY <2>1, Elements
<1>2. \A r \in 1 .. n : size(r) \in Nat /\ Regions(b)[r].load \in Nat
  BY <1>1
<1>3. a \in [1 .. n -> Nat] /\ \A r \in 1 .. n : a[r] = size(r)
  BY <1>2
<1>4. /\ data \in Seq(Seq(PageValues)) /\ Len(data) = n
      /\ \A r \in 1 .. n :
           Len(data[r]) = size(r) /\ \A i \in 1 .. size(r) : data[r][i] = DataPage(r, i)
  <2>1. ASSUME NEW r \in 1 .. n
        PROVE  /\ data[r] \in Seq(PageValues) /\ Len(data[r]) = size(r)
               /\ \A i \in 1 .. size(r) : data[r][i] = DataPage(r, i)
    <3>1. data[r] = [i \in 1 .. size(r) |-> DataPage(r, i)]
      BY <1>1
    <3>2. \A i \in 1 .. size(r) : DataPage(r, i) \in PageValues
      <4>1. \A i \in 1 .. size(r) : i \in Nat /\ r \in Nat
        BY <1>1, <1>2
      <4> QED
        BY <4>1, PagesAreValues
    <3> HIDE DEF data, size
    <3>3. data[r] \in [1 .. size(r) -> PageValues]
      BY <3>1, <3>2
    <3> QED
      BY <1>2, <3>1, <3>3, Sequence
  <2>2. data = [r \in 1 .. n |-> data[r]]
    BY <1>1
  <2> HIDE DEF data, n, size
  <2>3. data \in [1 .. n -> Seq(PageValues)]
    BY <2>1, <2>2
  <2> QED
    BY <1>1, <2>1, <2>3, Sequence
<1>5. /\ own \in Seq(PageValues) /\ Len(own) = b.loader /\ b.loader \in Nat
      /\ \A i \in 1 .. b.loader : own[i] = LoaderPage(i)
  <2>1. b.loader \in Nat
    BY BoardsAssumption
  <2>2. \A i \in 1 .. b.loader : LoaderPage(i) \in PageValues
    BY <2>1, PagesAreValues
  <2>3. own \in [1 .. b.loader -> PageValues]
    BY <2>2
  <2>4. \A i \in 1 .. b.loader : own[i] = LoaderPage(i)
    OBVIOUS
  <2> HIDE DEF own
  <2> QED
    BY <2>1, <2>3, <2>4, Sequence
<1>6. PICK f : /\ SumsOf(f, a, n)
               /\ \A i \in 1 .. n + 1 : Offset(b, i) = f[i - 1]
  BY OffsetFacts
<1>7. Image(b) = (own \o <<Header>>) \o FlattenSeq(data)
  BY DEF Image
<1>8. <<Header>> \in Seq(PageValues) /\ Len(<<Header>>) = 1 /\ <<Header>>[1] = Header
  <2>1. Header \in PageValues
    BY PagesAreValues
  <2> HIDE DEF own, data, a, size, n
  <2> QED
    BY <2>1
<1>9. PayloadSize(b) = 1 + f[n] /\ f[n] \in Nat
  <2>1. n + 1 \in 1 .. n + 1 /\ (n + 1) - 1 = n /\ n \in 0 .. n
    BY <1>1
  <2> HIDE DEF n, a
  <2>2. Offset(b, n + 1) = f[n] /\ f[n] \in Nat
    BY <1>6, <2>1 DEF SumsOf
  <2> QED
    BY <2>2 DEF PayloadSize, n
<1> HIDE DEF own, data, size, n
<1>10. /\ FlattenSeq(data) \in Seq(PageValues) /\ Len(FlattenSeq(data)) = f[n]
       /\ \A r \in 1 .. n : \A i \in 1 .. size(r) : FlattenSeq(data)[f[r - 1] + i] = DataPage(r, i)
  <2>1. /\ a \in [1 .. Len(data) -> Nat] /\ SumsOf(f, a, Len(data)) /\ data \in Seq(Seq(PageValues))
        /\ \A r \in 1 .. Len(data) : a[r] = Len(data[r])
    BY <1>3, <1>4, <1>6
  <2> HIDE DEF a
  <2>2. /\ FlattenSeq(data) \in Seq(PageValues) /\ Len(FlattenSeq(data)) = f[Len(data)]
        /\ \A r \in 1 .. Len(data) : \A i \in 1 .. Len(data[r]) : FlattenSeq(data)[f[r - 1] + i] = data[r][i]
    BY <2>1, FlattenFacts, SMTT(40)
  <2>3. FlattenSeq(data) \in Seq(PageValues) /\ Len(FlattenSeq(data)) = f[n]
    BY <1>4, <2>2
  <2>4. ASSUME NEW r \in 1 .. n, NEW i \in 1 .. size(r)
        PROVE  FlattenSeq(data)[f[r - 1] + i] = DataPage(r, i)
    <3>1. r \in 1 .. Len(data) /\ i \in 1 .. Len(data[r]) /\ data[r][i] = DataPage(r, i)
      BY <1>4
    <3> HIDE DEF DataPage
    <3> QED
      BY <2>2, <3>1
  <2> QED
    BY <2>3, <2>4
<1> DEFINE front == own \o <<Header>>
           back == FlattenSeq(data)
<1>11. /\ front \in Seq(PageValues) /\ Len(front) = b.loader + 1
       /\ \A i \in 1 .. b.loader : front[i] = LoaderPage(i)
       /\ front[b.loader + 1] = Header
  <2>1. /\ front \in Seq(PageValues) /\ Len(front) = Len(own) + 1
        /\ \A i \in 1 .. Len(own) : front[i] = own[i]
        /\ \A i \in 1 .. 1 : front[Len(own) + i] = <<Header>>[i]
    <3> DEFINE one == <<Header>>
    <3>1. one \in Seq(PageValues) /\ Len(one) = 1 /\ front = own \o one
      BY <1>8
    <3> HIDE DEF one, front
    <3>2. /\ own \o one \in Seq(PageValues) /\ Len(own \o one) = Len(own) + Len(one)
          /\ \A i \in 1 .. Len(own) : (own \o one)[i] = own[i]
          /\ \A i \in 1 .. Len(one) : (own \o one)[Len(own) + i] = one[i]
      <4>1. own \in Seq(PageValues) /\ one \in Seq(PageValues)
        BY <1>5, <3>1
      <4> QED
        BY <4>1, Concatenated
    <3> QED
      BY <3>1, <3>2 DEF one
  <2>2. front[Len(own) + 1] = Header
    BY <1>8, <2>1
  <2> HIDE DEF front
  <2> QED
    BY <1>5, <2>1, <2>2
<1>12. /\ Len(Image(b)) = Len(front) + Len(back)
       /\ \A i \in 1 .. Len(front) : Image(b)[i] = front[i]
       /\ \A i \in 1 .. Len(back) : Image(b)[Len(front) + i] = back[i]
  <2>1. Image(b) = front \o back
    BY <1>7
  <2>2. front \in Seq(PageValues) /\ back \in Seq(PageValues)
    BY <1>10, <1>11
  <2> HIDE DEF front, back
  <2>3. /\ Len(front \o back) = Len(front) + Len(back)
        /\ \A i \in 1 .. Len(front) : (front \o back)[i] = front[i]
        /\ \A i \in 1 .. Len(back) : (front \o back)[Len(front) + i] = back[i]
    BY <2>2, Concatenated
  <2> QED
    BY <2>1, <2>3
<1> HIDE DEF front
<1>13. /\ Len(Image(b)) = b.loader + PayloadSize(b)
       /\ PayloadSize(b) \in Nat \ {0}
       /\ \A i \in 1 .. b.loader : Image(b)[i] = LoaderPage(i)
       /\ Image(b)[b.loader + 1] = Header
  <2>1. Len(back) = f[n] /\ b.loader + 1 = Len(front) /\ b.loader \in Nat
    BY <1>5, <1>10, <1>11
  <2>2. \A i \in 1 .. b.loader + 1 : Image(b)[i] = front[i]
    BY <1>12, <2>1
  <2> HIDE DEF back
  <2>3. Len(Image(b)) = b.loader + PayloadSize(b) /\ PayloadSize(b) \in Nat \ {0}
    <3>1. Len(Image(b)) = (b.loader + 1) + f[n]
      BY <1>12, <2>1
    <3> QED
      BY <1>9, <2>1, <3>1, SMTT(40)
  <2>4. \A i \in 1 .. b.loader : i \in 1 .. b.loader + 1
    BY <2>1
  <2>5. b.loader + 1 \in 1 .. b.loader + 1
    BY <2>1
  <2> QED
    BY <1>11, <2>2, <2>3, <2>4, <2>5
<1>14. ASSUME NEW r \in 1 .. n
       PROVE  /\ Regions(b)[r].load \in Nat /\ size(r) \in Nat
              /\ Offset(b, r) \in Nat
              /\ 1 + Offset(b, r) + size(r) <= PayloadSize(b)
              /\ \A i \in 1 .. size(r) :
                   Image(b)[b.loader + 1 + (Offset(b, r) + i)] = DataPage(r, i)
  <2>1. r \in 0 .. n /\ r - 1 \in 0 .. n /\ r \in 1 .. n + 1 /\ n \in r .. n
    BY <1>1
  <2>2. Offset(b, r) = f[r - 1] /\ f[r - 1] \in Nat /\ f[r] = f[r - 1] + size(r) /\ f[r] \in Nat
    <3> HIDE DEF a
    <3> QED
      BY <1>3, <1>6, <2>1 DEF SumsOf
  <2>3. f[r] <= f[n]
    <3> HIDE DEF a
    <3> QED
      BY <1>1, <1>3, <1>6, <2>1, SumsGrow
  <2>4. ASSUME NEW i \in 1 .. size(r)
        PROVE  Image(b)[b.loader + 1 + (Offset(b, r) + i)] = DataPage(r, i)
    <3>1. Offset(b, r) + i \in 1 .. Len(back)
      BY <1>2, <1>9, <1>10, <2>2, <2>3, SMTT(40)
    <3>2. back[Offset(b, r) + i] = DataPage(r, i)
      BY <1>10, <2>2
    <3>3. Image(b)[Len(front) + (Offset(b, r) + i)] = back[Offset(b, r) + i]
      <4> HIDE DEF back
      <4> QED
        BY <1>12, <3>1
    <3> QED
      BY <1>11, <3>2, <3>3
  <2> QED
    BY <1>2, <1>9, <2>2, <2>3, <2>4
<1> QED
  BY <1>13, <1>14 DEF n, size

\* What check_non_overlapping() has found out.
LEMMA NonOverlappingFacts ==
  ASSUME NEW b \in Boards, NonOverlapping(b)
  PROVE  \A r \in 1 .. Len(Regions(b)) :
           /\ \/ b.link + b.loader <= Regions(b)[r].load
              \/ Regions(b)[r].load + Regions(b)[r].size <= b.link
           /\ \A s \in 1 .. r - 1 :
                \/ Regions(b)[r].load + Regions(b)[r].size <= Regions(b)[s].load
                \/ Regions(b)[s].load + Regions(b)[s].size <= Regions(b)[r].load
<1> DEFINE n == Len(Regions(b))
           own == [load |-> b.link, size |-> b.loader]
           all == Append(Regions(b), own)
<1>1. Regions(b) \in Seq([load : Nat, size : Nat]) /\ own \in [load : Nat, size : Nat]
  BY RegionFacts, BoardsAssumption
<1>2. /\ n \in Nat /\ DOMAIN all = 1 .. n + 1
      /\ \A r \in 1 .. n : all[r] = Regions(b)[r] /\ Regions(b)[r] \in [load : Nat, size : Nat]
      /\ all[n + 1] = own
  <2> HIDE DEF own
  <2>1. n \in Nat /\ \A r \in 1 .. n : Regions(b)[r] \in [load : Nat, size : Nat]
    BY <1>1, Elements
  <2>2. DOMAIN all = 1 .. n + 1 /\ (\A r \in 1 .. n : all[r] = Regions(b)[r]) /\ all[n + 1] = own
    BY <1>1
  <2> QED
    BY <2>1, <2>2
<1>3. \A i, j \in DOMAIN all : i < j => Apart(all[j], all[i])
  BY DEF NonOverlapping
<1> HIDE DEF all, n
<1> SUFFICES ASSUME NEW r \in 1 .. n
             PROVE  /\ \/ b.link + b.loader <= Regions(b)[r].load
                       \/ Regions(b)[r].load + Regions(b)[r].size <= b.link
                    /\ \A s \in 1 .. r - 1 :
                         \/ Regions(b)[r].load + Regions(b)[r].size <= Regions(b)[s].load
                         \/ Regions(b)[s].load + Regions(b)[s].size <= Regions(b)[r].load
  BY DEF n
<1>4. Apart(own, Regions(b)[r])
  <2>1. r \in DOMAIN all /\ n + 1 \in DOMAIN all /\ r < n + 1
    BY <1>2
  <2> QED
    BY <1>2, <1>3, <2>1
<1>5. ASSUME NEW s \in 1 .. r - 1
      PROVE  Apart(Regions(b)[r], Regions(b)[s]) /\ Regions(b)[s] \in [load : Nat, size : Nat]
  <2>1. r \in DOMAIN all /\ s \in DOMAIN all /\ s < r /\ s \in 1 .. n
    BY <1>2
  <2> QED
    BY <1>2, <1>3, <2>1
<1>6. Regions(b)[r] \in [load : Nat, size : Nat] /\ b.link \in Nat /\ b.loader \in Nat
  BY <1>2, BoardsAssumption
<1> QED
  BY <1>4, <1>5, <1>6 DEF Apart

-----------------------------------------------------------------------------
(* Quotients.                                                              *)

\* Dividing twice: a block of a gigabyte of a top entry.
LEMMA QuotientTwice ==
  ASSUME NEW a \in Nat, NEW n \in Nat \ {0}, NEW m \in Nat \ {0}
  PROVE  (a \div n) \div m = a \div (n * m)
  OBVIOUS

\* Higher addresses are in higher blocks.
LEMMA QuotientMonotone ==
  ASSUME NEW a \in Nat, NEW v \in Nat, NEW n \in Nat \ {0}, a <= v
  PROVE  a \div n <= v \div n
  OBVIOUS

\* Rounding down what lies a number of blocks behind p.
LEMMA RoundedDown ==
  ASSUME NEW p \in Nat, NEW n \in Nat \ {0}, NEW k \in Nat
  PROVE  RoundDown(p + k * n, n) = k * n + n * (p \div n)
<1>1. p \div n \in Nat /\ p % n \in 0 .. n - 1 /\ p = n * (p \div n) + (p % n)
  BY Quotient
<1>2. p + k * n \in Nat /\ p \div n + k \in Nat /\ k * n \in Nat
  BY <1>1
<1>3. p + k * n = n * (p \div n + k) + (p % n)
  BY <1>1
<1>4. (p + k * n) % n = p % n
  BY <1>1, <1>2, <1>3, QuotientUnique
<1> QED
  BY <1>1, <1>2, <1>4 DEF RoundDown

\* The indices of two addresses in the same table.
LEMMA SameTable ==
  ASSUME NEW a \in Nat, NEW v \in Nat, NEW n \in Nat \ {0}, a <= v, E \in Nat \ {0},
         a \div (n * E) = v \div (n * E)
  PROVE  /\ Index(a, n) \in 0 .. E - 1 /\ Index(v, n) \in Index(a, n) .. E - 1
         /\ Index(v, n) - Index(a, n) = (v \div n) - (a \div n)
<1> DEFINE x == a \div n
           y == v \div n
<1>1. x \in Nat /\ y \in Nat /\ x <= y
  BY Quotient, QuotientMonotone
<1>2. x \div E = y \div E
  BY QuotientTwice
<1>3. Index(a, n) = x % E /\ Index(v, n) = y % E
  BY DEF Index
<1> HIDE DEF x, y
<1>4. x \div E \in Nat /\ x % E \in 0 .. E - 1 /\ x = E * (x \div E) + (x % E)
  BY <1>1, Quotient
<1>5. y \div E \in Nat /\ y % E \in 0 .. E - 1 /\ y = E * (y \div E) + (y % E)
  BY <1>1, Quotient
<1>6. (y % E) - (x % E) = y - x
  BY <1>1, <1>2, <1>4, <1>5
<1>7. (y % E) - (x % E) = y - x /\ x % E <= y % E
  BY <1>1, <1>4, <1>5, <1>6
<1>8. Index(v, n) - Index(a, n) = y - x
  BY <1>3, <1>6
<1> QED
  BY <1>1, <1>3, <1>4, <1>5, <1>7, <1>8 DEF x, y

-----------------------------------------------------------------------------
(* The page tables.                                                        *)

\* Index i of a table has that entry.
Entry(table, i, entry) == i \in DOMAIN table /\ table[i] = entry

\* Tables of one entry, and one table over another.
LEMMA OnlyEntry ==
  ASSUME NEW i, NEW e
  PROVE  Entry(Only(i, e), i, e) /\ \A j : j # i => j \notin DOMAIN Only(i, e)
  BY DEF Only, Entry

\* What was written last is there.
LEMMA LastEntry ==
  ASSUME NEW s, NEW t, NEW i, NEW e, Entry(s, i, e)
  PROVE  Entry(Over(s, t), i, e)
  BY DEF Over, Entry

\* What was written first is there unless it was written over.
LEMMA FirstEntry ==
  ASSUME NEW s, NEW t, NEW i, NEW e, Entry(t, i, e), i \notin DOMAIN s
  PROVE  Entry(Over(s, t), i, e)
  BY DEF Over, Entry

\* An empty table has no index.
LEMMA EmptyFacts == DOMAIN Empty = {}
  BY DEF Empty

\* One step of a walk from a table.
LEMMA BelowTable ==
  ASSUME NEW tables, NEW name, NEW index, NEW entry, Entry(tables[name], index, entry)
  PROVE  Below(tables, Table(name), index) = entry
  BY DEF Below, Table, Entry

\* A leaf ends it.
LEMMA BelowLeaf ==
  ASSUME NEW tables, NEW index, NEW entry, entry.kind = "leaf"
  PROVE  Below(tables, entry, index) = entry
  BY DEF Below

\* What a leaf says.
LEMMA LeafDef ==
  ASSUME NEW a, NEW n
  PROVE  Leaf(a, n).kind = "leaf" /\ Leaf(a, n).addr = RoundDown(a, n) /\ Leaf(a, n).size = n
  BY DEF Leaf

\* The sizes are multiples of each other.
LEMMA Sizes ==
  /\ E \in Nat \ {0} /\ Block \in Nat \ {0} /\ Gigabyte \in Nat \ {0} /\ Top \in Nat \ {0}
  /\ Gigabyte = Block * E /\ Top = Gigabyte * E /\ Block = 1 * E
<1>1. E \in Nat \ {0}
  BY BoardsAssumption
<1>2. E * E \in Nat \ {0}
  BY <1>1, Product
<1>3. (E * E) * E \in Nat \ {0}
  BY <1>1, <1>2, Product
<1> QED
  BY <1>1, <1>2, <1>3 DEF Block, Gigabyte, Top

\* The leaf that maps v, in a table that maps a to p and goes on from there.
LEMMA LeafOf ==
  ASSUME NEW a \in Nat, NEW v \in Nat, NEW p \in Nat, NEW n \in Nat \ {0}, a <= v,
         a % n = p % n, a \div (n * E) = v \div (n * E)
  PROVE  RoundDown(p + (Index(v, n) - Index(a, n)) * n, n) + (v % n) = p + (v - a)
<1> DEFINE k == (v \div n) - (a \div n)
<1>0. E \in Nat \ {0}
  BY Sizes
<1>1. Index(v, n) - Index(a, n) = k
  <2>1. Index(v, n) - Index(a, n) = (v \div n) - (a \div n)
    BY <1>0, SameTable, Zenon
  <2> QED
    BY <2>1
<1>2. k \in Nat
  <2>1. a \div n \in Nat /\ v \div n \in Nat /\ a \div n <= v \div n
    BY Quotient, QuotientMonotone, Zenon
  <2> QED
    BY <2>1
<1> HIDE DEF k
<1>3. RoundDown(p + k * n, n) = k * n + n * (p \div n)
  BY <1>2, RoundedDown
<1>4. /\ a \div n \in Nat /\ a % n \in Nat /\ a = n * (a \div n) + (a % n)
      /\ v \div n \in Nat /\ v % n \in Nat /\ v = n * (v \div n) + (v % n)
      /\ p \div n \in Nat /\ p % n \in Nat /\ p = n * (p \div n) + (p % n)
  <2>1. /\ a \div n \in Nat /\ a % n \in 0 .. n - 1 /\ a = n * (a \div n) + (a % n)
        /\ v \div n \in Nat /\ v % n \in 0 .. n - 1 /\ v = n * (v \div n) + (v % n)
        /\ p \div n \in Nat /\ p % n \in 0 .. n - 1 /\ p = n * (p \div n) + (p % n)
    BY Quotient, Zenon
  <2> QED
    BY <2>1
<1>5. k * n = n * (v \div n) - n * (a \div n)
  BY <1>4 DEF k
<1>6. n * (v \div n) \in Nat /\ n * (a \div n) \in Nat /\ n * (p \div n) \in Nat
  BY <1>4
<1>7. k * n + n * (p \div n) + (v % n) = p + (v - a)
  BY <1>4, <1>5, <1>6
<1> QED
  BY <1>1, <1>3, <1>7

\* The same for the tables whose leaves are blocks.
LEMMA SameGigabyte ==
  ASSUME NEW a \in Nat, NEW v \in Nat, a <= v, a \div Gigabyte = v \div Gigabyte
  PROVE  /\ Index(v, Gigabyte) = Index(a, Gigabyte)
         /\ Index(a, Block) \in 0 .. E - 1 /\ Index(v, Block) \in Index(a, Block) .. E - 1
         /\ Index(v, Block) - Index(a, Block) = (v \div Block) - (a \div Block)
         /\ \A p \in Nat : a % Block = p % Block =>
              RoundDown(p + (Index(v, Block) - Index(a, Block)) * Block, Block) + (v % Block) = p + (v - a)
<1>1. E \in Nat \ {0} /\ Block \in Nat \ {0}
  BY Sizes
<1>2. a \div (Block * E) = v \div (Block * E)
  BY Sizes, Zenon
<1>3. /\ Index(a, Block) \in 0 .. E - 1 /\ Index(v, Block) \in Index(a, Block) .. E - 1
      /\ Index(v, Block) - Index(a, Block) = (v \div Block) - (a \div Block)
  BY <1>1, <1>2, SameTable, Zenon
<1>4. ASSUME NEW p \in Nat, a % Block = p % Block
      PROVE  RoundDown(p + (Index(v, Block) - Index(a, Block)) * Block, Block) + (v % Block) = p + (v - a)
  BY <1>1, <1>2, <1>4, LeafOf, Zenon
<1> QED
  BY <1>3, <1>4 DEF Index

\* Every address is in a block, every block in a gigabyte.
LEMMA Quotients ==
  ASSUME NEW a \in Nat
  PROVE  /\ a \div Block \in Nat /\ a % Block \in 0 .. Block - 1 /\ a = Block * (a \div Block) + (a % Block)
         /\ a \div Gigabyte \in Nat /\ a % Gigabyte \in 0 .. Gigabyte - 1
  BY Sizes, Quotient, Zenon

\* An address between two of the same gigabyte.
LEMMA Between ==
  ASSUME NEW a \in Nat, NEW v \in Nat, NEW e \in Nat, a <= v, v <= e,
         a \div Gigabyte = e \div Gigabyte
  PROVE  a \div Gigabyte = v \div Gigabyte /\ v \div Gigabyte = e \div Gigabyte
<1>1. Gigabyte \in Nat \ {0}
  BY Sizes
<1>2. a \div Gigabyte <= v \div Gigabyte /\ v \div Gigabyte <= e \div Gigabyte
  BY <1>1, QuotientMonotone, Zenon
<1>3. a \div Gigabyte \in Nat /\ v \div Gigabyte \in Nat /\ e \div Gigabyte \in Nat
  BY Quotients
<1> QED
  BY <1>2, <1>3

\* Rounding up leaves the beginning of a block, and goes on to the next one.
LEMMA RoundedUp ==
  ASSUME NEW x \in Nat, NEW n \in Nat \ {0}
  PROVE  /\ x % n = 0 => RoundUp(x, n) = x
         /\ x % n # 0 => RoundUp(x, n) = x + (n - (x % n)) /\ RoundUp(x, n) % n = 0
                         /\ RoundUp(x, n) \div n = (x \div n) + 1
<1> DEFINE q == x \div n
           r == x % n
           y == x + n - 1
<1>1. q \in Nat /\ r \in 0 .. n - 1 /\ x = n * q + r
  BY Quotient
<1>2. RoundUp(x, n) = y - (y % n)
  BY DEF RoundUp, RoundDown
<1> HIDE DEF q, r
<1>3. CASE r = 0
  <2>1. y = n * q + (n - 1) /\ y \in Nat /\ n - 1 \in 0 .. n - 1
    BY <1>1, <1>3
  <2>2. y % n = n - 1
    <3> HIDE DEF y
    <3> QED
      BY <1>1, <2>1, QuotientUnique
  <2>3. RoundUp(x, n) = x
    BY <1>1, <1>2, <2>2
  <2> QED
    BY <1>3, <2>3 DEF r
<1>4. CASE r # 0
  <2>1. n * q \in Nat /\ n * (q + 1) = n * q + n
    BY <1>1
  <2>2. y = n * (q + 1) + (r - 1) /\ y \in Nat /\ r - 1 \in 0 .. n - 1 /\ q + 1 \in Nat
    BY <1>1, <1>4, <2>1
  <2>3. y % n = r - 1
    <3> HIDE DEF y
    <3> QED
      BY <2>2, QuotientUnique
  <2>4. RoundUp(x, n) = x + (n - r) /\ RoundUp(x, n) = n * (q + 1) + 0 /\ RoundUp(x, n) \in Nat
    BY <1>1, <1>2, <2>1, <2>3
  <2>5. RoundUp(x, n) \div n = q + 1 /\ RoundUp(x, n) % n = 0
    BY <2>2, <2>4, QuotientUnique
  <2> QED
    BY <1>4, <2>4, <2>5 DEF q, r
<1> QED
  BY <1>3, <1>4

\* An address that is not beyond what a table covers.
LEMMA Within ==
  ASSUME NEW a \in Nat, NEW n \in Nat \ {0}, NEW m \in Nat \ {0}, a < n * m
  PROVE  a \div n \in 0 .. m - 1 /\ (a \div n) % m = a \div n /\ a \div (n * m) = 0
<1>1. a \div (n * m) = 0
  <2>1. n * m \in Nat \ {0}
    BY Product
  <2>2. a = (n * m) * 0 + a /\ a \in 0 .. n * m - 1
    BY <2>1
  <2> QED
    BY <2>1, <2>2, QuotientUnique
<1>2. (a \div n) \div m = 0 /\ a \div n \in Nat
  BY <1>1, Quotient, QuotientTwice
<1> DEFINE q == a \div n
<1>5. q \in Nat /\ q \div m = 0
  BY <1>2
<1> HIDE DEF q
<1>4. q = q % m /\ q % m \in 0 .. m - 1
  BY <1>5, Quotient
<1> QED
  BY <1>1, <1>2, <1>4 DEF q

\* Segments of a kernel are linked and loaded at the same distance.
LEMMA KernelFacts ==
  ASSUME NEW b \in Boards, KernelConsistent(b)
  PROVE  /\ KernelVaddr(b) \in Nat /\ KernelPaddr(b) \in Nat
         /\ \A i \in DOMAIN b.kernel :
              /\ b.kernel[i].vaddr \in Nat /\ b.kernel[i].paddr \in Nat /\ b.kernel[i].size \in Nat
              /\ KernelVaddr(b) <= b.kernel[i].vaddr
              /\ b.kernel[i].vaddr - b.kernel[i].paddr = KernelVaddr(b) - KernelPaddr(b)
<1> DEFINE k == b.kernel
           V == {k[i].vaddr : i \in DOMAIN k}
           P == {k[i].paddr : i \in DOMAIN k}
<1>1. /\ k \in Seq([vaddr : Nat, paddr : Nat, size : Nat]) /\ k # <<>>
      /\ \A i, j \in DOMAIN k : k[i].vaddr - k[i].paddr = k[j].vaddr - k[j].paddr
  BY BoardsAssumption DEF KernelConsistent
<1>2. KernelVaddr(b) = Min(V) /\ KernelPaddr(b) = Min(P)
  BY DEF KernelVaddr, KernelPaddr
<1> HIDE DEF k
<1>3. /\ \A i \in DOMAIN k : k[i].vaddr \in Nat /\ k[i].paddr \in Nat /\ k[i].size \in Nat
      /\ 1 \in DOMAIN k
  <2>1. Len(k) \in Nat /\ DOMAIN k = 1 .. Len(k) /\ \A i \in 1 .. Len(k) : k[i] \in [vaddr : Nat, paddr : Nat, size : Nat]
    BY <1>1, Elements
  <2>2. Len(k) # 0
    BY <1>1, EmptySeq
  <2> QED
    BY <2>1, <2>2
<1>4. V \subseteq Nat /\ V # {} /\ P \subseteq Nat /\ P # {}
  BY <1>3
<1>5. Min(V) \in V /\ \A n \in V : Min(V) <= n
  <2> HIDE DEF V
  <2> QED
    BY <1>4, Least DEF Min
<1>6. Min(P) \in P /\ \A n \in P : Min(P) <= n
  <2> HIDE DEF P
  <2> QED
    BY <1>4, Least DEF Min
<1>7. PICK i \in DOMAIN k : Min(V) = k[i].vaddr
  BY <1>5
<1>8. PICK j \in DOMAIN k : Min(P) = k[j].paddr
  BY <1>6
<1>9. k[i].vaddr - k[i].paddr = Min(V) - Min(P) /\ Min(V) \in Nat /\ Min(P) \in Nat
  <2>1. /\ k[i].vaddr <= k[j].vaddr /\ k[j].paddr <= k[i].paddr
        /\ k[i].vaddr - k[i].paddr = k[j].vaddr - k[j].paddr
        /\ k[i].vaddr \in Nat /\ k[i].paddr \in Nat /\ k[j].vaddr \in Nat /\ k[j].paddr \in Nat
    BY <1>1, <1>3, <1>5, <1>6, <1>7, <1>8
  <2>2. k[i].paddr = k[j].paddr
    BY <2>1
  <2> QED
    BY <1>7, <1>8, <2>1, <2>2
<1>10. \A l \in DOMAIN k : Min(V) <= k[l].vaddr /\ k[l].vaddr - k[l].paddr = Min(V) - Min(P)
  BY <1>1, <1>5, <1>9
<1> QED
  BY <1>2, <1>3, <1>9, <1>10 DEF k

\* A page of the kernel, in the gigabyte where the kernel begins.
LEMMA KernelPage ==
  ASSUME NEW b \in Boards, KernelConsistent(b), Mappable(b),
         NEW r \in DOMAIN b.kernel, NEW i \in 0 .. b.kernel[r].size - 1
  PROVE  /\ b.kernel[r].vaddr + i \in Nat /\ KernelVaddr(b) \in Nat /\ KernelPaddr(b) \in Nat
         /\ KernelVaddr(b) <= b.kernel[r].vaddr + i
         /\ KernelVaddr(b) \div Gigabyte = (b.kernel[r].vaddr + i) \div Gigabyte
         /\ b.kernel[r].paddr + i = KernelPaddr(b) + ((b.kernel[r].vaddr + i) - KernelVaddr(b))
<1> DEFINE v == b.kernel[r].vaddr + i
           a == KernelVaddr(b)
           s == b.kernel[r].vaddr
           z == b.kernel[r].size
           p == b.kernel[r].paddr
           g == Gigabyte
<1>1. /\ a \in Nat /\ KernelPaddr(b) \in Nat /\ s \in Nat /\ z \in Nat /\ p \in Nat
      /\ a <= s /\ s - p = a - KernelPaddr(b)
  BY KernelFacts
<1>2. s + z <= (a \div g + 1) * g /\ g \in Nat \ {0}
  BY Sizes DEF Mappable
<1>3. v = s + i
  OBVIOUS
<1> HIDE DEF v, a, s, z, p, g
<1>4. v \in Nat /\ a <= v /\ v < s + z
  BY <1>1, <1>3 DEF z
<1>5. a \div g \in Nat /\ a % g \in 0 .. g - 1 /\ a = g * (a \div g) + (a % g)
  BY <1>1, <1>2, Quotient
<1> DEFINE q == a \div g
           m == a % g
           f == v - g * q
<1>6. f \in 0 .. g - 1 /\ v = g * q + f
  <2>1. q \in Nat /\ m \in 0 .. g - 1 /\ a = g * q + m /\ s + z <= (q + 1) * g
    BY <1>2, <1>5
  <2> HIDE DEF q, m
  <2>2. g * q \in Nat /\ (q + 1) * g = g * q + g
    BY <1>2, <2>1
  <2> QED
    BY <1>1, <1>2, <1>4, <2>1, <2>2
<1>7. v \div g = a \div g
  <2> HIDE DEF f
  <2> QED
    BY <1>2, <1>4, <1>5, <1>6, QuotientUnique
<1>8. p + i = KernelPaddr(b) + (v - a)
  BY <1>1, <1>3, <1>4
<1> QED
  BY <1>1, <1>4, <1>7, <1>8 DEF v, a, s, z, p, g

\* The upper half of the addresses, or the lower one of EL2: a page of the
\* kernel through the tables for ARM.
LEMMA AArch64Kernel ==
  ASSUME NEW b \in Boards, KernelConsistent(b), Mappable(b), b.arch = "aarch64",
         NEW r \in DOMAIN b.kernel, NEW i \in 0 .. b.kernel[r].size - 1
  PROVE  Translate(b, TRUE, b.kernel[r].vaddr + i) = b.kernel[r].paddr + i
<1> DEFINE v == b.kernel[r].vaddr + i
           a == KernelVaddr(b)
           p == KernelPaddr(b)
           tables == AArch64Tables(b)
           root == IF b.el = 1 THEN "lvl0_upper" ELSE "lvl0_lower"
           leaf == Leaf(p + (Index(v, Block) - Index(a, Block)) * Block, Block)
<1>1. /\ v \in Nat /\ a \in Nat /\ p \in Nat /\ a <= v /\ a \div Gigabyte = v \div Gigabyte
      /\ b.kernel[r].paddr + i = p + (v - a)
  BY KernelPage
<1>2. a % Block = p % Block
  BY DEF Mappable
<1>3. Translate(b, TRUE, v) = Walk(tables, root, <<Top, Gigabyte, Block>>, v)
  BY DEF Translate
<1>4. /\ tables["lvl0_lower"] = Over(Only(Index(a, Top), Table("lvl1_upper")), Only(0, Table("lvl1_lower")))
      /\ tables["lvl0_upper"] = Only(Index(a, Top), Table("lvl1_upper"))
      /\ tables["lvl1_upper"] = Only(Index(a, Gigabyte), Table("lvl2_upper"))
      /\ tables["lvl2_upper"] = [j \in Index(a, Block) .. E - 1 |->
                                   Leaf(p + (j - Index(a, Block)) * Block, Block)]
  BY DEF AArch64Tables, Lvl2Upper
<1> HIDE DEF v, a, p, tables
<1>5. Index(v, Gigabyte) = Index(a, Gigabyte)
  BY <1>1, SameGigabyte
<1>6. Index(v, Top) = Index(a, Top)
  <2>0. Gigabyte \in Nat \ {0} /\ E \in Nat \ {0} /\ a \in Nat /\ v \in Nat
    BY <1>1, Sizes
  <2>1. (a \div Gigabyte) \div E = a \div (Gigabyte * E) /\ (v \div Gigabyte) \div E = v \div (Gigabyte * E)
    BY <2>0, QuotientTwice
  <2>2. a \div (Gigabyte * E) = v \div (Gigabyte * E)
    BY <1>1, <2>1, Zenon
  <2> QED
    BY <2>2, Sizes, Zenon DEF Index
<1>7. Index(v, Block) \in Index(a, Block) .. E - 1
  BY <1>1, SameGigabyte
<1>8. Entry(tables[root], Index(v, Top), Table("lvl1_upper"))
  <2>1. CASE root = "lvl0_upper"
    BY <1>4, <1>6, <2>1, OnlyEntry
  <2>2. CASE root = "lvl0_lower"
    BY <1>4, <1>6, <2>2, OnlyEntry, LastEntry
  <2> QED
    BY <2>1, <2>2
<1>9. Entry(tables["lvl1_upper"], Index(v, Gigabyte), Table("lvl2_upper"))
  BY <1>4, <1>5, OnlyEntry
<1>10. Entry(tables["lvl2_upper"], Index(v, Block), leaf)
  BY <1>4, <1>7 DEF Entry
<1> HIDE DEF root
<1>11. leaf.kind = "leaf"
  BY LeafDef
<1>14. leaf.size = Block /\ leaf.addr = RoundDown(p + (Index(v, Block) - Index(a, Block)) * Block, Block)
  BY LeafDef
<1> HIDE DEF leaf
<1>12. Walk(tables, root, <<Top, Gigabyte, Block>>, v) = leaf.addr + (v % leaf.size)
  <2>1. /\ Below(tables, Table(root), Index(v, Top)) = Table("lvl1_upper")
        /\ Below(tables, Table("lvl1_upper"), Index(v, Gigabyte)) = Table("lvl2_upper")
        /\ Below(tables, Table("lvl2_upper"), Index(v, Block)) = leaf
    BY <1>8, <1>9, <1>10, <1>11, BelowTable
  <2> QED
    BY <2>1, <1>11 DEF Walk
<1>13. RoundDown(p + (Index(v, Block) - Index(a, Block)) * Block, Block) + (v % Block) = p + (v - a)
  BY <1>1, <1>2, SameGigabyte
<1> QED
  BY <1>1, <1>3, <1>12, <1>13, <1>14 DEF v

\* A page below the first entry of level 0 through the tables for ARM.
LEMMA AArch64Low ==
  ASSUME NEW b \in Boards, Mappable(b), b.arch = "aarch64", NEW v \in Nat, v < Top
  PROVE  /\ Translate(b, FALSE, v) = Walk(AArch64Tables(b), "lvl0_lower", <<Top, Gigabyte, Block>>, v)
         /\ Entry(AArch64Tables(b)["lvl0_lower"], Index(v, Top), Table("lvl1_lower"))
         /\ Index(v, Gigabyte) = v \div Gigabyte
<1> DEFINE tables == AArch64Tables(b)
           k == Index(KernelVaddr(b), Top)
<1>1. Translate(b, FALSE, v) = Walk(tables, "lvl0_lower", <<Top, Gigabyte, Block>>, v)
  BY DEF Translate
<1>2. tables["lvl0_lower"] = Over(Only(k, Table("lvl1_upper")), Only(0, Table("lvl1_lower")))
  BY DEF AArch64Tables
<1>3. k # 0
  BY DEF Mappable
<1>4. Index(v, Top) = 0 /\ Index(v, Gigabyte) = v \div Gigabyte
  <2>1. v \div Top = 0 /\ (v \div Gigabyte) % E = v \div Gigabyte
    <3>1. v < Gigabyte * E
      BY Sizes
    <3>3. Gigabyte \in Nat \ {0} /\ E \in Nat \ {0}
      BY Sizes
    <3>2. (v \div Gigabyte) % E = v \div Gigabyte /\ v \div (Gigabyte * E) = 0
      BY <3>1, <3>3, Within
    <3> QED
      BY <3>2, Sizes, Zenon
  <2>2. 0 % E = 0
    BY Sizes
  <2> QED
    BY <2>1, <2>2 DEF Index
<1> HIDE DEF tables, k
<1>5. Entry(tables["lvl0_lower"], 0, Table("lvl1_lower"))
  BY <1>2, <1>3, OnlyEntry, FirstEntry
<1> QED
  BY <1>1, <1>4, <1>5 DEF tables

\* The loader and the header behind it are mapped to themselves on ARM.
LEMMA AArch64Loader ==
  ASSUME NEW b \in Boards, AArch64Possible(b), Mappable(b), b.arch = "aarch64", NEW i \in 0 .. b.loader
  PROVE  Translate(b, FALSE, b.link + i) = b.link + i
<1> DEFINE v == b.link + i
           a == b.link
           e == LoaderEnd(b)
           tables == AArch64Tables(b)
           leaf == Leaf(a + (Index(v, Block) - Index(a, Block)) * Block, Block)
           first == Index(a, Block)
           spin == IF b.spin THEN Only(0, Leaf(0, Block)) ELSE Empty
           loader == [j \in first .. Index(e, Block) |-> Leaf(a + (j - first) * Block, Block)]
           uart == IF b.uart = -1 THEN Empty ELSE Only(Index(b.uart, Gigabyte), Leaf(b.uart, Gigabyte))
<1>1. /\ v \in Nat /\ a \in Nat /\ e \in Nat /\ a <= v /\ v <= e /\ e < Top /\ v < Top /\ a < Top
  <2>1. a \in Nat /\ b.loader \in Nat /\ e < Top /\ Top \in Nat /\ e = a + b.loader
    BY BoardsAssumption, Sizes DEF Mappable, LoaderEnd
  <2> QED
    BY <2>1
<1>2. Index(a, Gigabyte) = Index(e, Gigabyte) /\ (b.spin => first # 0)
  BY DEF AArch64Possible
<1>3. /\ tables["lvl1_lower"] = Over(Only(Index(a, Gigabyte), Table("lvl2_lower")), uart)
      /\ tables["lvl2_lower"] = Over(spin, loader)
  BY DEF AArch64Tables, Lvl1Lower, Lvl2Lower
<1> HIDE DEF v, a, e, tables, uart
<1>4. /\ Translate(b, FALSE, v) = Walk(tables, "lvl0_lower", <<Top, Gigabyte, Block>>, v)
      /\ Entry(tables["lvl0_lower"], Index(v, Top), Table("lvl1_lower"))
  BY <1>1, AArch64Low DEF tables
<1>5. a \div Gigabyte = v \div Gigabyte /\ v \div Gigabyte = e \div Gigabyte
  <2>1. a \div Gigabyte = e \div Gigabyte
    BY <1>1, <1>2, AArch64Low
  <2> QED
    BY <1>1, <2>1, Between
<1>6. /\ Index(v, Block) \in first .. Index(e, Block) /\ first \in Nat
      /\ Index(v, Block) \in Nat
  <2>1. Index(v, Block) \in first .. E - 1 /\ first \in 0 .. E - 1
    BY <1>1, <1>5, SameGigabyte
  <2>2. Index(e, Block) \in Index(v, Block) .. E - 1
    BY <1>1, <1>5, SameGigabyte
  <2> QED
    BY <2>1, <2>2, Sizes
<1>7. Entry(tables["lvl1_lower"], Index(v, Gigabyte), Table("lvl2_lower"))
  <2>1. Index(v, Gigabyte) = Index(a, Gigabyte)
    BY <1>5 DEF Index
  <2> QED
    BY <1>3, <2>1, OnlyEntry, LastEntry
<1>8. Entry(tables["lvl2_lower"], Index(v, Block), leaf)
  <2>1. Entry(loader, Index(v, Block), leaf)
    BY <1>6 DEF Entry
  <2>2. Index(v, Block) \notin DOMAIN spin
    <3> HIDE DEF leaf, loader
    <3>1. CASE b.spin
      <4>1. Index(v, Block) # 0
        <5> HIDE DEF first
        <5> QED
          BY <1>2, <1>6, <3>1
      <4> QED
        BY <3>1, <4>1, OnlyEntry
    <3>2. CASE ~b.spin
      BY <3>2, EmptyFacts
    <3> QED
      BY <3>1, <3>2
  <2> HIDE DEF leaf, loader, spin
  <2> QED
    BY <1>3, <2>1, <2>2, FirstEntry
<1>9. leaf.kind = "leaf"
  BY LeafDef
<1>10. leaf.size = Block /\ leaf.addr = RoundDown(a + (Index(v, Block) - Index(a, Block)) * Block, Block)
  BY LeafDef
<1> HIDE DEF leaf
<1>11. Walk(tables, "lvl0_lower", <<Top, Gigabyte, Block>>, v) = leaf.addr + (v % leaf.size)
  <2>1. /\ Below(tables, Table("lvl0_lower"), Index(v, Top)) = Table("lvl1_lower")
        /\ Below(tables, Table("lvl1_lower"), Index(v, Gigabyte)) = Table("lvl2_lower")
        /\ Below(tables, Table("lvl2_lower"), Index(v, Block)) = leaf
    BY <1>4, <1>7, <1>8, <1>9, BelowTable
  <2> QED
    BY <2>1, <1>9 DEF Walk
<1>12. RoundDown(a + (Index(v, Block) - Index(a, Block)) * Block, Block) + (v % Block) = a + (v - a)
  BY <1>1, <1>5, SameGigabyte
<1>13. a + (v - a) = v
  BY <1>1
<1>14. Translate(b, FALSE, v) = v
  BY <1>4, <1>10, <1>11, <1>12, <1>13
<1> QED
  BY <1>14 DEF v

\* Address 0 is the first of everything.
LEMMA Zero ==
  ASSUME NEW n \in Nat \ {0}
  PROVE  0 \div n = 0 /\ 0 % n = 0 /\ RoundDown(0, n) = 0 /\ 0 \in Nat
  BY DEF RoundDown

\* The release address of the spin table is mapped to itself on ARM.
LEMMA AArch64Spin ==
  ASSUME NEW b \in Boards, AArch64Possible(b), Mappable(b), b.arch = "aarch64", b.spin
  PROVE  Translate(b, FALSE, 0) = 0
<1> DEFINE tables == AArch64Tables(b)
           leaf == Leaf(0, Block)
           loader == [j \in Index(b.link, Block) .. Index(LoaderEnd(b), Block) |->
                        Leaf(b.link + (j - Index(b.link, Block)) * Block, Block)]
           uart == IF b.uart = -1 THEN Empty ELSE Only(Index(b.uart, Gigabyte), Leaf(b.uart, Gigabyte))
<1>1. 0 \in Nat /\ 0 < Top /\ Index(0, Gigabyte) = 0 /\ Index(0, Block) = 0
  BY Sizes, Zero DEF Index
<1>2. Index(b.link, Gigabyte) = 0
  BY DEF AArch64Possible
<1>3. /\ tables["lvl1_lower"] = Over(Only(Index(b.link, Gigabyte), Table("lvl2_lower")), uart)
      /\ tables["lvl2_lower"] = Over(Only(0, leaf), loader)
  BY DEF AArch64Tables, Lvl1Lower, Lvl2Lower
<1> HIDE DEF tables, uart, loader
<1>4. /\ Translate(b, FALSE, 0) = Walk(tables, "lvl0_lower", <<Top, Gigabyte, Block>>, 0)
      /\ Entry(tables["lvl0_lower"], Index(0, Top), Table("lvl1_lower"))
  BY <1>1, AArch64Low DEF tables
<1>5. Entry(tables["lvl1_lower"], Index(0, Gigabyte), Table("lvl2_lower"))
  BY <1>1, <1>2, <1>3, OnlyEntry, LastEntry
<1>6. leaf.kind = "leaf"
  BY LeafDef
<1>7. leaf.size = Block /\ leaf.addr = RoundDown(0, Block)
  BY LeafDef
<1> HIDE DEF leaf
<1>8. Entry(tables["lvl2_lower"], Index(0, Block), leaf)
  BY <1>1, <1>3, OnlyEntry, LastEntry
<1>9. Walk(tables, "lvl0_lower", <<Top, Gigabyte, Block>>, 0) = leaf.addr + (0 % leaf.size)
  <2>1. /\ Below(tables, Table("lvl0_lower"), Index(0, Top)) = Table("lvl1_lower")
        /\ Below(tables, Table("lvl1_lower"), Index(0, Gigabyte)) = Table("lvl2_lower")
        /\ Below(tables, Table("lvl2_lower"), Index(0, Block)) = leaf
    BY <1>4, <1>5, <1>6, <1>8, BelowTable
  <2> QED
    BY <2>1, <1>6 DEF Walk
<1>10. RoundDown(0, Block) + (0 % Block) = 0
  BY Sizes, Zero
<1> QED
  BY <1>4, <1>7, <1>9, <1>10

\* So is the UART.
LEMMA AArch64Uart ==
  ASSUME NEW b \in Boards, Mappable(b), b.arch = "aarch64", b.uart # -1
  PROVE  Translate(b, FALSE, b.uart) = b.uart
<1> DEFINE tables == AArch64Tables(b)
           v == b.uart
           leaf == Leaf(v, Gigabyte)
<1>1. v \in Nat /\ v < Top /\ Index(v, Gigabyte) # Index(b.link, Gigabyte)
  BY BoardsAssumption DEF Mappable
<1>2. tables["lvl1_lower"] = Over(Only(Index(b.link, Gigabyte), Table("lvl2_lower")),
                                  Only(Index(v, Gigabyte), leaf))
  BY DEF AArch64Tables, Lvl1Lower
<1>3. leaf.kind = "leaf"
  BY LeafDef
<1>4. leaf.size = Gigabyte /\ leaf.addr = RoundDown(v, Gigabyte)
  BY LeafDef
<1> HIDE DEF tables, v, leaf
<1>5. /\ Translate(b, FALSE, v) = Walk(tables, "lvl0_lower", <<Top, Gigabyte, Block>>, v)
      /\ Entry(tables["lvl0_lower"], Index(v, Top), Table("lvl1_lower"))
  BY <1>1, AArch64Low DEF tables
<1>6. Entry(tables["lvl1_lower"], Index(v, Gigabyte), leaf)
  BY <1>1, <1>2, OnlyEntry, FirstEntry
<1>7. Walk(tables, "lvl0_lower", <<Top, Gigabyte, Block>>, v) = leaf.addr + (v % leaf.size)
  <2>1. /\ Below(tables, Table("lvl0_lower"), Index(v, Top)) = Table("lvl1_lower")
        /\ Below(tables, Table("lvl1_lower"), Index(v, Gigabyte)) = leaf
        /\ Below(tables, leaf, Index(v, Block)) = leaf
    BY <1>3, <1>5, <1>6, BelowTable, BelowLeaf
  <2> QED
    BY <2>1, <1>3 DEF Walk
<1>8. RoundDown(v, Gigabyte) + (v % Gigabyte) = v
  <2>1. Gigabyte \in Nat \ {0} /\ v \in Nat
    BY <1>1, Sizes
  <2>2. v % Gigabyte \in Nat
    BY <2>1, Quotient
  <2> QED
    BY <2>1, <2>2 DEF RoundDown
<1> QED
  BY <1>4, <1>5, <1>7, <1>8 DEF v

\* The loader and the header behind it are mapped to themselves on RISC-V.
LEMMA RiscvLoader ==
  ASSUME NEW b \in Boards, Mappable(b), b.arch = "riscv64", NEW i \in 0 .. b.loader
  PROVE  Translate(b, FALSE, b.link + i) = b.link + i
<1> DEFINE v == b.link + i
           a == b.link
           e == LoaderEnd(b)
           k == Index(KernelVaddr(b), Gigabyte)
           tables == RiscvTables(b)
           leaf == Leaf(a + (Index(v, Block) - Index(a, Block)) * Block, Block)
<1>1. v \in Nat /\ a \in Nat /\ e \in Nat /\ a <= v /\ v <= e
  <2>1. a \in Nat /\ b.loader \in Nat /\ e = a + b.loader
    BY BoardsAssumption DEF LoaderEnd
  <2> QED
    BY <2>1
<1>2. a \div Gigabyte = e \div Gigabyte /\ k # Index(a, Gigabyte)
  BY DEF Mappable
<1>3. /\ tables["lvl1"] = Over(Only(k, Table("lvl2")), Only(Index(a, Gigabyte), Table("lvl2_loader")))
      /\ tables["lvl2_loader"] = [j \in Index(a, Block) .. E - 1 |->
                                    Leaf(a + (j - Index(a, Block)) * Block, Block)]
  BY DEF RiscvTables
<1>4. Translate(b, FALSE, v) = Walk(tables, "lvl1", <<Gigabyte, Block, 1>>, v)
  BY DEF Translate
<1> HIDE DEF v, a, e, k, tables
<1>5. a \div Gigabyte = v \div Gigabyte
  BY <1>1, <1>2, Between
<1>6. Index(v, Block) \in Index(a, Block) .. E - 1
  BY <1>1, <1>5, SameGigabyte
<1>7. Entry(tables["lvl1"], Index(v, Gigabyte), Table("lvl2_loader"))
  <2>1. Index(v, Gigabyte) = Index(a, Gigabyte)
    BY <1>5 DEF Index
  <2> QED
    BY <1>2, <1>3, <2>1, OnlyEntry, FirstEntry
<1>8. Entry(tables["lvl2_loader"], Index(v, Block), leaf)
  BY <1>3, <1>6 DEF Entry
<1>9. leaf.kind = "leaf"
  BY LeafDef
<1>10. leaf.size = Block /\ leaf.addr = RoundDown(a + (Index(v, Block) - Index(a, Block)) * Block, Block)
  BY LeafDef
<1> HIDE DEF leaf
<1>11. Walk(tables, "lvl1", <<Gigabyte, Block, 1>>, v) = leaf.addr + (v % leaf.size)
  <2>1. /\ Below(tables, Table("lvl1"), Index(v, Gigabyte)) = Table("lvl2_loader")
        /\ Below(tables, Table("lvl2_loader"), Index(v, Block)) = leaf
        /\ Below(tables, leaf, Index(v, 1)) = leaf
    BY <1>7, <1>8, <1>9, BelowTable, BelowLeaf, SMTT(40)
  <2> QED
    BY <2>1, <1>9 DEF Walk
<1>12. RoundDown(a + (Index(v, Block) - Index(a, Block)) * Block, Block) + (v % Block) = a + (v - a)
  BY <1>1, <1>5, SameGigabyte
<1>13. a + (v - a) = v
  BY <1>1
<1>14. Translate(b, FALSE, v) = v
  BY <1>4, <1>10, <1>11, <1>12, <1>13
<1> QED
  BY <1>14 DEF v

\* A page of the kernel through the tables for RISC-V: in the block where the
\* kernel begins, when it begins inside one, and behind that.
LEMMA RiscvKernel ==
  ASSUME NEW b \in Boards, KernelConsistent(b), Mappable(b), b.arch = "riscv64",
         NEW r \in DOMAIN b.kernel, NEW i \in 0 .. b.kernel[r].size - 1
  PROVE  Translate(b, TRUE, b.kernel[r].vaddr + i) = b.kernel[r].paddr + i
<1> DEFINE v == b.kernel[r].vaddr + i
           a == KernelVaddr(b)
           p == KernelPaddr(b)
           index == Index(a, Block)
           tables == RiscvTables(b)
           Rest(from) == [j \in from .. E - 1 |-> Leaf(RoundUp(p, Block) + (j - from) * Block, Block)]
<1>1. /\ v \in Nat /\ a \in Nat /\ p \in Nat /\ a <= v /\ a \div Gigabyte = v \div Gigabyte
      /\ b.kernel[r].paddr + i = p + (v - a)
  BY KernelPage
<1>2. a % Block = p % Block
  BY DEF Mappable
<1>3. Translate(b, TRUE, v) = Walk(tables, "lvl1", <<Gigabyte, Block, 1>>, v)
  BY DEF Translate
<1>4. tables["lvl1"] = Over(Only(Index(a, Gigabyte), Table("lvl2")),
                            Only(Index(b.link, Gigabyte), Table("lvl2_loader")))
  BY DEF RiscvTables
<1>5. a % Block = 0 => tables["lvl2"] = Over(Empty, Rest(index))
  BY DEF RiscvTables, RiscvLvl2
<1>6. a % Block # 0 => /\ tables["lvl2"] = Over(Only(index, Table("lvl3")), Rest(index + 1))
                       /\ tables["lvl3"] = [j \in Index(a, 1) .. E - 1 |-> Leaf(p + (j - Index(a, 1)), 1)]
  BY DEF RiscvTables, RiscvLvl2, RiscvLvl3
<1> HIDE DEF v, a, p, tables
<1>7. /\ Index(v, Block) \in index .. E - 1 /\ index \in 0 .. E - 1
      /\ Index(v, Block) - index = (v \div Block) - (a \div Block)
  BY <1>1, SameGigabyte
<1>8. Entry(tables["lvl1"], Index(v, Gigabyte), Table("lvl2"))
  <2>1. Index(v, Gigabyte) = Index(a, Gigabyte)
    BY <1>1, SameGigabyte
  <2> QED
    BY <1>4, <2>1, OnlyEntry, LastEntry
<1>9. CASE a % Block = 0
  <2> DEFINE leaf == Leaf(p + (Index(v, Block) - index) * Block, Block)
  <2>1. RoundUp(p, Block) = p
    BY <1>1, <1>2, <1>9, Sizes, RoundedUp
  <2>2. Entry(Rest(index), Index(v, Block), leaf)
    BY <1>7, <2>1 DEF Entry
  <2>3. Entry(tables["lvl2"], Index(v, Block), leaf)
    <3> HIDE DEF Rest, leaf, index
    <3> QED
      BY <1>5, <1>9, <2>2, EmptyFacts, FirstEntry
  <2>4. leaf.kind = "leaf"
    BY LeafDef
  <2>5. leaf.size = Block /\ leaf.addr = RoundDown(p + (Index(v, Block) - index) * Block, Block)
    BY LeafDef
  <2> HIDE DEF leaf
  <2>6. Walk(tables, "lvl1", <<Gigabyte, Block, 1>>, v) = leaf.addr + (v % leaf.size)
    <3>1. Below(tables, Table("lvl1"), Index(v, Gigabyte)) = Table("lvl2")
      BY <1>8, BelowTable
    <3>2. Below(tables, Table("lvl2"), Index(v, Block)) = leaf
      BY <2>3, BelowTable
    <3>3. Below(tables, leaf, Index(v, 1)) = leaf
      BY <2>4, BelowLeaf
    <3> QED
      BY <3>1, <3>2, <3>3, <2>4 DEF Walk
  <2>7. RoundDown(p + (Index(v, Block) - index) * Block, Block) + (v % Block) = p + (v - a)
    BY <1>1, <1>2, SameGigabyte
  <2> QED
    BY <1>1, <1>3, <2>5, <2>6, <2>7 DEF v
<1>10. CASE a % Block # 0 /\ a \div Block = v \div Block
  <2> DEFINE leaf == Leaf(p + (Index(v, 1) - Index(a, 1)), 1)
  <2>1. Index(v, Block) = index
    BY <1>10 DEF Index
  <2>2. Entry(tables["lvl2"], Index(v, Block), Table("lvl3"))
    <3> HIDE DEF Rest, index
    <3> QED
      BY <1>6, <1>10, <2>1, OnlyEntry, LastEntry
  <2>3. a \div (1 * E) = v \div (1 * E) /\ 1 \in Nat \ {0}
    BY <1>10, Sizes
  <2>4. Index(v, 1) \in Index(a, 1) .. E - 1 /\ Index(a, 1) \in 0 .. E - 1
    BY <1>1, <2>3, Sizes, SameTable
  <2>5. Entry(tables["lvl3"], Index(v, 1), leaf)
    BY <1>6, <1>10, <2>4 DEF Entry
  <2>6. leaf.kind = "leaf"
    BY LeafDef
  <2>7. leaf.size = 1 /\ leaf.addr = RoundDown(p + (Index(v, 1) - Index(a, 1)), 1)
    BY LeafDef
  <2> HIDE DEF leaf
  <2>8. Walk(tables, "lvl1", <<Gigabyte, Block, 1>>, v) = leaf.addr + (v % leaf.size)
    <3>1. /\ Below(tables, Table("lvl1"), Index(v, Gigabyte)) = Table("lvl2")
          /\ Below(tables, Table("lvl2"), Index(v, Block)) = Table("lvl3")
          /\ Below(tables, Table("lvl3"), Index(v, 1)) = leaf
      BY <1>8, <2>2, <2>5, <2>6, BelowTable
    <3> QED
      BY <3>1, <2>6 DEF Walk
  <2>9. RoundDown(p + (Index(v, 1) - Index(a, 1)) * 1, 1) + (v % 1) = p + (v - a)
    <3>1. a % 1 = p % 1
      BY <1>1
    <3> QED
      BY <1>1, <2>3, <3>1, LeafOf
  <2>10. (Index(v, 1) - Index(a, 1)) * 1 = Index(v, 1) - Index(a, 1)
    BY <2>4, Sizes
  <2> QED
    BY <1>1, <1>3, <2>7, <2>8, <2>9, <2>10 DEF v
<1>11. CASE a % Block # 0 /\ a \div Block # v \div Block
  <2> DEFINE a2 == RoundUp(a, Block)
             p2 == RoundUp(p, Block)
             leaf == Leaf(p2 + (Index(v, Block) - (index + 1)) * Block, Block)
  <2>1. /\ a2 = a + (Block - (a % Block)) /\ a2 % Block = 0 /\ a2 \div Block = (a \div Block) + 1
        /\ p2 = p + (Block - (p % Block)) /\ p2 % Block = 0
    BY <1>1, <1>2, <1>11, Sizes, RoundedUp
  <2>2. a2 \in Nat /\ p2 \in Nat /\ p2 + (v - a2) = p + (v - a) /\ a <= a2
    <3>1. a % Block \in 0 .. Block - 1 /\ Block \in Nat
      BY <1>1, Quotients, Sizes
    <3> QED
      BY <1>1, <1>2, <2>1, <3>1
  <2> HIDE DEF a2, p2
  <2>3. a2 <= v
    <3>1. a \div Block \in Nat /\ v \div Block \in Nat /\ a \div Block <= v \div Block
      <4>1. Block \in Nat \ {0}
        BY Sizes
      <4>2. a \div Block <= v \div Block
        BY <1>1, <4>1, QuotientMonotone, Zenon
      <4> QED
        BY <1>1, <4>2, Quotients
    <3>2. (a \div Block) + 1 <= v \div Block
      BY <1>11, <3>1
    <3>3. a2 = Block * ((a \div Block) + 1)
      <4>1. a2 = Block * (a2 \div Block) + (a2 % Block)
        BY <2>2, Quotients, Zenon
      <4>2. a2 = Block * ((a \div Block) + 1) + 0
        BY <2>1, <4>1, Zenon
      <4>3. Block * ((a \div Block) + 1) \in Nat
        BY <3>1, Sizes
      <4> QED
        BY <4>2, <4>3
    <3>4. v = Block * (v \div Block) + (v % Block) /\ v % Block \in Nat
      <4>1. v = Block * (v \div Block) + (v % Block) /\ v % Block \in 0 .. Block - 1
        BY <1>1, Quotients, Zenon
      <4> QED
        BY <4>1, Sizes
    <3> DEFINE x == (a \div Block) + 1
               y == v \div Block
               z == v % Block
    <3>5. x \in Nat /\ y \in Nat /\ x <= y /\ a2 = Block * x /\ v = Block * y + z /\ z \in Nat /\ Block \in Nat
      BY <3>1, <3>2, <3>3, <3>4, Sizes
    <3> HIDE DEF x, y, z
    <3> QED
      BY <3>5
  <2>4. a \div Gigabyte = a2 \div Gigabyte /\ a2 \div Gigabyte = v \div Gigabyte
    BY <1>1, <2>2, <2>3, Between
  <2>5. Index(a2, Block) = index + 1 /\ Index(v, Block) \in index + 1 .. E - 1
    <3>1. Index(a2, Block) \in index .. E - 1 /\ Index(a2, Block) - index = (a2 \div Block) - (a \div Block)
      BY <1>1, <2>2, <2>4, SameGigabyte, Zenon
    <3>2. Index(v, Block) \in Index(a2, Block) .. E - 1
      BY <1>1, <2>2, <2>3, <2>4, SameGigabyte, Zenon
    <3>3. a \div Block \in Nat
      BY <1>1, Quotients
    <3>4. index \in Nat /\ E \in Nat
      BY <1>7, Sizes
    <3> HIDE DEF index
    <3> QED
      BY <2>1, <3>1, <3>2, <3>3, <3>4
  <2>6. Entry(Rest(index + 1), Index(v, Block), leaf)
    BY <2>5 DEF Entry, p2
  <2>7. Index(v, Block) # index
    BY <1>7, <2>5, Sizes
  <2>8. Entry(tables["lvl2"], Index(v, Block), leaf)
    <3> HIDE DEF Rest, leaf, index
    <3> QED
      BY <1>6, <1>11, <2>6, <2>7, OnlyEntry, FirstEntry
  <2>9. leaf.kind = "leaf"
    BY LeafDef
  <2>10. leaf.size = Block /\ leaf.addr = RoundDown(p2 + (Index(v, Block) - Index(a2, Block)) * Block, Block)
    BY <2>5, LeafDef
  <2> HIDE DEF leaf
  <2>11. Walk(tables, "lvl1", <<Gigabyte, Block, 1>>, v) = leaf.addr + (v % leaf.size)
    <3>1. Below(tables, Table("lvl1"), Index(v, Gigabyte)) = Table("lvl2")
      BY <1>8, BelowTable
    <3>2. Below(tables, Table("lvl2"), Index(v, Block)) = leaf
      BY <2>8, BelowTable
    <3>3. Below(tables, leaf, Index(v, 1)) = leaf
      BY <2>9, BelowLeaf
    <3> QED
      BY <3>1, <3>2, <3>3, <2>9 DEF Walk
  <2>12. RoundDown(p2 + (Index(v, Block) - Index(a2, Block)) * Block, Block) + (v % Block) = p2 + (v - a2)
    BY <1>1, <2>1, <2>2, <2>3, <2>4, SameGigabyte
  <2> QED
    BY <1>1, <1>3, <2>2, <2>10, <2>11, <2>12 DEF v
<1> QED
  BY <1>9, <1>10, <1>11

-----------------------------------------------------------------------------
(* The inductive invariant.                                                *)

\* The pages from a on hold the image.
ImageAt(a) == \A i \in 1 .. Len(Image(board)) : mem[a + i - 1] = Image(board)[i]

\* Region r is where it is loaded.
RegionThere(r) ==
  \A i \in 1 .. Regions(board)[r].size : mem[Regions(board)[r].load + i - 1] = DataPage(r, i)

Shape ==
  /\ board \in Boards
  /\ stage \in {"tool", "panic", "image", "start", "moved", "refused", "main", "copy", "mmu", "kernel",
                "fault", "wild"}
  /\ mem = [p \in 0 .. Pages - 1 |-> mem[p]]
  /\ copied \in 0 .. Len(Regions(board))

\* Where the loader runs at each stage, and what was checked before it.
Progress ==
  /\ stage \notin {"tool", "panic"} =>
       /\ KernelConsistent(board) /\ NonOverlapping(board)
       /\ board.arch = "aarch64" => AArch64Possible(board)
  /\ stage = "start" => at \in {board.at, board.link}
  /\ stage = "moved" => at = board.at /\ at # board.link /\ MayRelocate
  /\ stage \in {"main", "copy", "mmu", "kernel"} => at = board.link
  /\ stage \in {"tool", "image", "start", "moved", "main"} => copied = 0
  /\ stage \in {"mmu", "kernel"} => copied = Len(Regions(board))

\* The image is intact until the regions are unpacked.  After that the loader
\* is, and its payload as long as no region is loaded on it.
Contents ==
  EnoughMemory(board) =>
    /\ stage = "start" => ImageAt(at)
    /\ stage = "moved" => ImageAt(board.link) /\ (Far(board) => LoaderIntact)
    /\ stage = "main" => ImageAt(board.link)
    /\ stage \in {"copy", "mmu", "kernel"} =>
         /\ LoaderIntact
         /\ PayloadClear => ImageAt(board.link) /\ \A r \in 1 .. copied : RegionThere(r)

LoaderInv == Shape /\ Progress /\ Contents

\* The types of what the steps compute with.
LEMMA BoardFacts ==
  ASSUME Shape
  PROVE  /\ board.link \in Nat /\ board.loader \in Nat /\ board.at \in Nat
         /\ PayloadSize(board) \in Nat \ {0}
         /\ Len(Image(board)) = board.loader + PayloadSize(board)
         /\ DOMAIN mem = 0 .. Pages - 1 /\ Pages \in Nat
  BY BoardsAssumption, ImageFacts DEF Shape

\* A page of a part of memory, and of one beside the part that is written.
LEMMA PageInside ==
  ASSUME NEW pages \in Nat, NEW a \in Nat, NEW n \in Nat, a + n <= pages, NEW i \in 1 .. n
  PROVE  a + i - 1 \in 0 .. pages - 1 /\ a + i - 1 \in a .. a + n - 1 /\ (a + i - 1) - a = i - 1
  OBVIOUS

LEMMA PageBeside ==
  ASSUME NEW pages \in Nat, NEW a \in Nat, NEW n \in Nat, a + n <= pages, NEW i \in 1 .. n,
         NEW l \in Nat, NEW z \in Nat, l + z <= a \/ a + n <= l \/ z = 0
  PROVE  a + i - 1 \in 0 .. pages - 1 /\ a + i - 1 \notin l .. l + z - 1
  OBVIOUS

\* The data of a region are in the payload, where no region is loaded.
LEMMA SourceInImage ==
  ASSUME NEW link \in Nat, NEW loader \in Nat, NEW payload \in Nat, NEW o \in Nat, NEW z \in Nat,
         1 + o + z <= payload, NEW i \in 1 .. z
  PROVE  /\ loader + 1 + (o + i) \in 1 .. loader + payload
         /\ link + (loader + 1 + (o + i)) - 1 = (link + loader + 1 + o) + (i - 1)
  OBVIOUS

LEMMA SourceBehind ==
  ASSUME NEW link \in Nat, NEW loader \in Nat, NEW payload \in Nat, NEW o \in Nat, NEW z \in Nat,
         1 + o + z <= payload, NEW l \in Nat,
         l + z <= link + loader \/ l >= link + loader + payload
  PROVE  ~(link + loader + 1 + o < l /\ l < (link + loader + 1 + o) + z)
  OBVIOUS

\* A loader whose image is in place is intact.
LEMMA ImageHasLoader ==
  ASSUME Shape, ImageAt(at)
  PROVE  LoaderIntact /\ (at \in Nat => HeaderIntact)
<1>1. \A i \in 1 .. board.loader : i \in 1 .. Len(Image(board)) /\ Image(board)[i] = LoaderPage(i)
  BY BoardFacts, ImageFacts DEF Shape
<1>2. board.loader + 1 \in 1 .. Len(Image(board)) /\ Image(board)[board.loader + 1] = Header
  BY BoardFacts, ImageFacts DEF Shape
<1>3. at \in Nat => (at + (board.loader + 1)) - 1 = at + board.loader
  BY BoardFacts
<1> QED
  BY <1>1, <1>2, <1>3 DEF ImageAt, LoaderIntact, HeaderIntact, HeaderPage

\* Nothing has happened yet.
LEMMA InitInv == Init => LoaderInv
<1> SUFFICES ASSUME Init PROVE LoaderInv
  OBVIOUS
<1> USE DEF Init
<1>1. Shape
  <2>1. Len(Regions(board)) \in Nat
    BY RegionFacts, Elements
  <2> QED
    BY <2>1 DEF Shape
<1>2. Progress
  BY DEF Progress
<1>3. Contents
  BY DEF Contents
<1> QED
  BY <1>1, <1>2, <1>3 DEF LoaderInv

\* The tool checks the regions before it writes the image.
LEMMA WriteImageInv == ASSUME LoaderInv, WriteImage PROVE LoaderInv'
<1> USE DEF LoaderInv, WriteImage
<1>1. Shape'
  BY DEF Shape
<1>2. Progress'
  BY DEF Progress
<1>3. Contents'
  BY DEF Contents
<1> QED
  BY <1>1, <1>2, <1>3

\* The image is loaded as a whole.
LEMMA LoadInv == ASSUME LoaderInv, Load PROVE LoaderInv'
<1> USE DEF LoaderInv
<1>a. Shape /\ Progress /\ stage = "image" /\ stage' = "start" /\ at' = board.at /\ UNCHANGED <<board, copied>>
  BY DEF Load
<1> DEFINE image == Image(board)
<1>b. mem' = [p \in DOMAIN mem |-> IF p \in at' .. at' + Len(image) - 1 THEN image[p - at' + 1] ELSE mem[p]]
  BY DEF Load
<1>1. Shape'
  BY <1>a, <1>b DEF Shape
<1>2. Progress'
  BY <1>a DEF Progress
<1>3. ASSUME EnoughMemory(board)
      PROVE  ImageAt(at)'
  <2>1. at' + Len(image) <= Pages /\ at' \in Nat /\ Len(image) \in Nat
    BY <1>3, <1>a, BoardFacts DEF EnoughMemory
  <2>2. ASSUME NEW i \in 1 .. Len(image)
        PROVE  mem'[at' + i - 1] = image[i]
    <3>1. /\ at' + i - 1 \in DOMAIN mem /\ at' + i - 1 \in at' .. at' + Len(image) - 1
          /\ (at' + i - 1) - at' + 1 = i
      BY <1>a, <2>1, BoardFacts
    <3> HIDE DEF image
    <3> QED
      BY <1>b, <3>1
  <2> QED
    BY <1>a, <2>2 DEF ImageAt
<1>4. Contents'
  BY <1>a, <1>3 DEF Contents
<1> QED
  BY <1>1, <1>2, <1>4

\* A move to the link address leaves the loader alone that moves, unless what
\* is behind it falls there.
LEMMA RelocateInv == ASSUME LoaderInv, Relocate PROVE LoaderInv'
<1> USE DEF LoaderInv
<1> DEFINE size == board.loader + PayloadSize(board)
<1>a. /\ Shape /\ Progress /\ stage = "start" /\ stage' = "moved" /\ UNCHANGED <<board, at, copied>>
      /\ LoaderIntact /\ at # board.link /\ MayRelocate
  BY DEF Relocate, Running
<1>b. mem' = [p \in DOMAIN mem |-> IF p \in board.link .. board.link + size - 1
                                   THEN mem[at + (p - board.link)] ELSE mem[p]]
  BY DEF Relocate
<1>c. at = board.at /\ at \in Nat /\ size = Len(Image(board)) /\ size \in Nat /\ board.link \in Nat
  BY <1>a, BoardFacts DEF Progress
<1>1. Shape'
  BY <1>a, <1>b DEF Shape
<1>2. Progress'
  BY <1>a, <1>c DEF Progress, MayRelocate
<1>3. ASSUME EnoughMemory(board)
      PROVE  ImageAt(board.link)'
  <2>1. board.link + size <= Pages
    BY <1>3, <1>c DEF EnoughMemory
  <2>2. \A i \in 1 .. size : mem[at + i - 1] = Image(board)[i]
    BY <1>3, <1>a, <1>c DEF Contents, ImageAt
  <2> HIDE DEF size
  <2>3. ASSUME NEW i \in 1 .. size
        PROVE  mem'[board.link + i - 1] = Image(board)[i]
    <3>1. /\ board.link + i - 1 \in DOMAIN mem /\ board.link + i - 1 \in board.link .. board.link + size - 1
          /\ at + ((board.link + i - 1) - board.link) = at + i - 1
      BY <1>a, <1>c, <2>1, BoardFacts, SMTT(40)
    <3>2. mem'[board.link + i - 1] = mem[at + i - 1]
      BY <1>b, <3>1
    <3> QED
      BY <2>2, <3>2
  <2> QED
    BY <1>a, <1>c, <2>3 DEF ImageAt
<1>4. ASSUME EnoughMemory(board), Far(board)
      PROVE  LoaderIntact'
  <2>1. board.at + size <= Pages
    BY <1>4, <1>c DEF EnoughMemory
  <2>2. \/ board.link + size <= at
        \/ at + board.loader <= board.link
    BY <1>a, <1>c, <1>4, BoardFacts, SMTT(40) DEF Far, LoaderEnd, MayRelocate
  <2>3. ASSUME NEW i \in 1 .. board.loader
        PROVE  mem'[at + i - 1] = LoaderPage(i)
    <3>1. at + i - 1 \in DOMAIN mem /\ at + i - 1 \notin board.link .. board.link + size - 1
      <4>1. /\ DOMAIN mem = 0 .. Pages - 1 /\ Pages \in Nat
            /\ board.loader \in Nat /\ at + board.loader <= Pages
        BY <1>a, <1>c, <2>1, BoardFacts, SMTT(40)
      <4> HIDE DEF size
      <4>2. at + i - 1 \in 0 .. Pages - 1 /\ at + i - 1 \notin board.link .. board.link + size - 1
        BY <1>c, <2>2, <4>1, PageBeside
      <4> QED
        BY <4>1, <4>2
    <3>2. mem'[at + i - 1] = mem[at + i - 1]
      <4> HIDE DEF size
      <4> QED
        BY <1>b, <3>1
    <3> QED
      BY <1>a, <3>2 DEF LoaderIntact
  <2> QED
    BY <1>a, <2>3 DEF LoaderIntact
<1>5. Contents'
  BY <1>a, <1>3, <1>4 DEF Contents, EnoughMemory, Far, ImageAt
<1> QED
  BY <1>1, <1>2, <1>5

\* The moved loader begins again, in its place.
LEMMA RestartInv == ASSUME LoaderInv, Restart PROVE LoaderInv'
<1> USE DEF LoaderInv
<1>a. /\ Shape /\ Progress /\ Contents /\ stage = "moved" /\ stage' = "start" /\ at' = board.link
      /\ UNCHANGED <<board, mem, copied>>
  BY DEF Restart, Running
<1>1. Shape'
  BY <1>a DEF Shape
<1>2. Progress'
  BY <1>a DEF Progress
<1>3. Contents'
  BY <1>a DEF Contents, EnoughMemory, ImageAt
<1> QED
  BY <1>1, <1>2, <1>3

\* The loader finds its header.
LEMMA CheckMagicInv == ASSUME LoaderInv, CheckMagic PROVE LoaderInv'
<1> USE DEF LoaderInv
<1>a. /\ Shape /\ Progress /\ Contents /\ stage = "main" /\ stage' \in {"copy", "refused"} /\ LoaderIntact
      /\ UNCHANGED <<board, mem, at, copied>>
  BY DEF CheckMagic, Running
<1>1. Shape'
  BY <1>a DEF Shape
<1>2. Progress'
  BY <1>a DEF Progress
<1>3. Contents'
  <2>1. copied = 0
    BY <1>a DEF Progress
  <2>2. EnoughMemory(board) => ImageAt(board.link)
    BY <1>a DEF Contents
  <2> QED
    BY <1>a, <2>1, <2>2 DEF Contents, EnoughMemory, ImageAt, LoaderIntact
<1> QED
  BY <1>1, <1>2, <1>3

\* The other steps of the loader move nothing.
LEMMA QuietInv ==
  ASSUME LoaderInv, AtLinkAddress \/ RelocationFailed \/ EnableMmu \/ JumpToKernel \/ GoWild
  PROVE  LoaderInv'
<1> USE DEF LoaderInv
<1>a. /\ Shape /\ Progress /\ Contents /\ UNCHANGED <<board, mem, at, copied>>
      /\ \/ stage = "start" /\ stage' = "main" /\ at = board.link
         \/ stage' \in {"refused", "fault", "wild"} /\ stage \notin {"tool", "panic"}
         \/ stage = "copy" /\ stage' = "mmu" /\ copied = Len(Regions(board))
         \/ stage = "mmu" /\ stage' = "kernel"
  BY DEF AtLinkAddress, RelocationFailed, EnableMmu, JumpToKernel, GoWild, Running
<1>1. Shape'
  BY <1>a DEF Shape
<1>2. Progress'
  BY <1>a DEF Progress
<1>3. Contents'
  <2>1. CASE stage = "start" /\ stage' = "main" /\ at = board.link
    BY <1>a, <2>1 DEF Contents, EnoughMemory, ImageAt
  <2>2. CASE stage' \in {"refused", "fault", "wild"}
    BY <1>a, <2>2 DEF Contents
  <2>3. CASE stage \in {"copy", "mmu"} /\ stage' \in {"mmu", "kernel"}
    BY <1>a, <2>3 DEF Contents, EnoughMemory, ImageAt, LoaderIntact, PayloadClear, RegionThere
  <2> QED
    BY <1>a, <2>1, <2>2, <2>3
<1> QED
  BY <1>1, <1>2, <1>3

\* A region is unpacked onto memory that holds neither the loader nor a region
\* unpacked before it, and, where the payload is clear, nothing of that.
LEMMA CopyRegionInv == ASSUME LoaderInv, CopyRegion PROVE LoaderInv'
<1> USE DEF LoaderInv
<1> DEFINE next == copied + 1
           r == Regions(board)[next]
           from == HeaderPage + 1 + Offset(board, next)
           Source(k) == IF from < r.load /\ r.load < from + r.size
                        THEN from + (k % (r.load - from)) ELSE from + k
<1>a. /\ Shape /\ Progress /\ Contents /\ stage = "copy" /\ LoaderIntact /\ copied < Len(Regions(board))
      /\ stage' = "copy" /\ board' = board /\ at' = at /\ copied' = next
  BY DEF CopyRegion, Running
<1>b. mem' = [p \in DOMAIN mem |-> IF p \in r.load .. r.load + r.size - 1
                                   THEN mem[Source(p - r.load)] ELSE mem[p]]
  BY DEF CopyRegion
<1>c. /\ at = board.link /\ board.link \in Nat /\ board.loader \in Nat
      /\ PayloadSize(board) \in Nat \ {0}
      /\ Len(Image(board)) = board.loader + PayloadSize(board)
      /\ DOMAIN mem = 0 .. Pages - 1 /\ Pages \in Nat
  BY <1>a, BoardFacts DEF Progress
<1>d. /\ Len(Regions(board)) \in Nat /\ copied \in Nat /\ next \in 1 .. Len(Regions(board))
      /\ Regions(board) \in Seq([load : Nat, size : Nat])
  <2>1. Regions(board) \in Seq([load : Nat, size : Nat])
    BY <1>a, RegionFacts DEF Shape
  <2> QED
    BY <1>a, <2>1, Elements DEF Shape
<1>e. /\ r.load \in Nat /\ r.size \in Nat /\ Offset(board, next) \in Nat
      /\ 1 + Offset(board, next) + r.size <= PayloadSize(board)
      /\ \A i \in 1 .. r.size :
           Image(board)[board.loader + 1 + (Offset(board, next) + i)] = DataPage(next, i)
  BY <1>a, <1>d, ImageFacts DEF Shape
<1>f. /\ \/ board.link + board.loader <= r.load
         \/ r.load + r.size <= board.link
      /\ \A s \in 1 .. copied :
           \/ r.load + r.size <= Regions(board)[s].load
           \/ Regions(board)[s].load + Regions(board)[s].size <= r.load
  <2>1. NonOverlapping(board) /\ next - 1 = copied
    BY <1>a, <1>d DEF Progress
  <2> QED
    BY <1>a, <1>d, <2>1, NonOverlappingFacts DEF Shape
<1> HIDE DEF r, from, next
<1>h. /\ r.load \in Nat /\ r.size \in Nat /\ Offset(board, next) \in Nat
      /\ 1 + Offset(board, next) + r.size <= PayloadSize(board)
  BY <1>e
<1>g. \A p \in DOMAIN mem : p \notin r.load .. r.load + r.size - 1 => mem'[p] = mem[p]
  BY <1>b
<1>1. Shape'
  <2>1. copied' \in 0 .. Len(Regions(board))
    BY <1>a, <1>d
  <2>2. mem' = [p \in 0 .. Pages - 1 |-> mem'[p]]
    BY <1>b, <1>c
  <2> QED
    BY <1>a, <2>1, <2>2 DEF Shape
<1>2. Progress'
  BY <1>a DEF Progress
<1>3. ASSUME EnoughMemory(board)
      PROVE  LoaderIntact'
  <2>1. ASSUME NEW i \in 1 .. board.loader
        PROVE  mem'[at + i - 1] = LoaderPage(i)
    <3>1. board.link + Len(Image(board)) <= Pages
      BY <1>3 DEF EnoughMemory
    <3>2. at + i - 1 \in DOMAIN mem /\ at + i - 1 \notin r.load .. r.load + r.size - 1
      <4>1. at + board.loader <= Pages
        BY <1>c, <3>1
      <4>2. at + i - 1 \in 0 .. Pages - 1 /\ at + i - 1 \notin r.load .. r.load + r.size - 1
        BY <1>c, <1>h, <1>f, <4>1, PageBeside
      <4> QED
        BY <1>c, <4>2
    <3>3. mem'[at + i - 1] = mem[at + i - 1]
      BY <1>g, <3>2
    <3> QED
      BY <1>a, <3>3 DEF LoaderIntact
  <2> QED
    BY <1>a, <2>1 DEF LoaderIntact
<1>4. ASSUME EnoughMemory(board), PayloadClear
      PROVE  ImageAt(board.link)' /\ \A s \in 1 .. copied' : RegionThere(s)'
  <2>1. /\ ImageAt(board.link) /\ \A s \in 1 .. copied : RegionThere(s)
    BY <1>a, <1>4 DEF Contents
  <2>2. \/ r.load + r.size <= board.link + board.loader
        \/ r.load >= board.link + board.loader + PayloadSize(board)
    <3>1. next \in DOMAIN Regions(board)
      BY <1>d
    <3>2. Apart(r, [load |-> LoaderEnd(board), size |-> PayloadSize(board)])
      BY <1>4, <3>1 DEF PayloadClear, r
    <3> QED
      BY <3>2 DEF Apart, LoaderEnd
  <2>3. /\ board.link + Len(Image(board)) <= Pages
        /\ \A s \in 1 .. Len(Regions(board)) : Regions(board)[s].load + Regions(board)[s].size <= Pages
    <3>1. DOMAIN Regions(board) = 1 .. Len(Regions(board))
      BY <1>d, Elements
    <3> QED
      BY <1>4, <3>1 DEF EnoughMemory, ToSet
  <2>4. ImageAt(board.link)'
    <3>1. ASSUME NEW i \in 1 .. Len(Image(board))
          PROVE  mem'[board.link + i - 1] = Image(board)[i]
      <4>1. board.link + i - 1 \in 0 .. Pages - 1 /\ board.link + i - 1 \notin r.load .. r.load + r.size - 1
        <5>1. Len(Image(board)) \in Nat
          BY <1>c
        <5>2. r.load + r.size <= board.link \/ board.link + Len(Image(board)) <= r.load \/ r.size = 0
          BY <1>c, <1>h, <1>f, <2>2, SMTT(40)
        <5> QED
          BY <1>c, <1>h, <2>3, <5>1, <5>2, PageBeside
      <4>2. mem'[board.link + i - 1] = mem[board.link + i - 1]
        BY <1>c, <1>g, <4>1
      <4> QED
        BY <2>1, <4>2 DEF ImageAt
    <3> QED
      BY <1>a, <3>1 DEF ImageAt
  <2>5. ASSUME NEW s, s = next
        PROVE  RegionThere(s)'
    <3>1. ASSUME NEW i \in 1 .. r.size
          PROVE  mem'[r.load + i - 1] = DataPage(next, i)
      <4>1. r.load + r.size <= Pages
        BY <1>d, <2>3 DEF r
      <4>2. /\ r.load + i - 1 \in 0 .. Pages - 1 /\ r.load + i - 1 \in r.load .. r.load + r.size - 1
            /\ (r.load + i - 1) - r.load = i - 1
        <5>1. Pages \in Nat /\ r.load \in Nat /\ r.size \in Nat
          BY <1>c, <1>h
        <5> QED
          BY <4>1, <5>1, PageInside
      <4>3. mem'[r.load + i - 1] = mem[Source(i - 1)]
        BY <1>b, <1>c, <4>2
      <4>4. from = board.link + board.loader + 1 + Offset(board, next)
        BY <1>c DEF from, HeaderPage
      <4>5. ~(from < r.load /\ r.load < from + r.size)
        BY <1>c, <1>h, <2>2, <4>4, SourceBehind
      <4>6. Source(i - 1) = from + (i - 1)
        BY <4>5
      <4> DEFINE x == board.loader + 1 + (Offset(board, next) + i)
      <4>7. x \in 1 .. Len(Image(board)) /\ board.link + x - 1 = from + (i - 1)
        <5>1. /\ x \in 1 .. board.loader + PayloadSize(board)
              /\ board.link + x - 1 = (board.link + board.loader + 1 + Offset(board, next)) + (i - 1)
          <6> DEFINE o == Offset(board, next)
                     z == r.size
                     payload == PayloadSize(board)
          <6>1. payload \in Nat /\ o \in Nat /\ z \in Nat /\ 1 + o + z <= payload /\ i \in 1 .. z
            BY <1>c, <1>h
          <6>2. board.link \in Nat /\ board.loader \in Nat
            BY <1>c
          <6> HIDE DEF o, z, payload
          <6>3. /\ board.loader + 1 + (o + i) \in 1 .. board.loader + payload
                /\ board.link + (board.loader + 1 + (o + i)) - 1 = (board.link + board.loader + 1 + o) + (i - 1)
            BY <6>1, <6>2, SourceInImage
          <6> QED
            BY <6>3 DEF o, payload
        <5> HIDE DEF x
        <5> QED
          BY <1>c, <4>4, <5>1
      <4>8. Image(board)[x] = DataPage(next, i)
        BY <1>e
      <4> HIDE DEF x, Source
      <4>9. mem[board.link + x - 1] = Image(board)[x]
        BY <2>1, <4>7 DEF ImageAt
      <4> QED
        BY <4>3, <4>6, <4>7, <4>8, <4>9
    <3> QED
      BY <1>a, <2>5, <3>1 DEF RegionThere, r
  <2>6. ASSUME NEW s \in 1 .. copied
        PROVE  RegionThere(s)'
    <3> DEFINE q == Regions(board)[s]
    <3>1. q.load \in Nat /\ q.size \in Nat /\ s \in 1 .. Len(Regions(board))
      BY <1>a, <1>d, ImageFacts, SMTT(40) DEF Shape, next
    <3>2. q.load + q.size <= Pages /\ (r.load + r.size <= q.load \/ q.load + q.size <= r.load)
      BY <1>f, <2>3, <3>1
    <3> HIDE DEF q
    <3>3. ASSUME NEW i \in 1 .. q.size
          PROVE  mem'[q.load + i - 1] = DataPage(s, i)
      <4>1. q.load + i - 1 \in 0 .. Pages - 1 /\ q.load + i - 1 \notin r.load .. r.load + r.size - 1
        BY <1>c, <1>h, <3>1, <3>2, PageBeside
      <4>2. mem'[q.load + i - 1] = mem[q.load + i - 1]
        BY <1>c, <1>g, <4>1
      <4> QED
        BY <2>1, <4>2 DEF RegionThere, q
    <3> QED
      BY <1>a, <3>3 DEF RegionThere, q
  <2>7. \A s \in 1 .. copied' : s \in 1 .. copied \/ s = next
    BY <1>a, <1>d DEF next
  <2> QED
    BY <2>4, <2>5, <2>6, <2>7
<1>5. Contents'
  <2>1. EnoughMemory(board)' <=> EnoughMemory(board)
    BY <1>a DEF EnoughMemory
  <2>2. PayloadClear' <=> PayloadClear
    BY <1>a DEF PayloadClear
  <2>3. ImageAt(board.link)' <=> \A i \in 1 .. Len(Image(board)) : mem'[board.link + i - 1] = Image(board)[i]
    BY <1>a DEF ImageAt
  <2> QED
    BY <1>a, <1>3, <1>4, <2>1, <2>2 DEF Contents
<1> QED
  BY <1>1, <1>2, <1>5

\* Every step preserves the invariant.
LEMMA NextInv == ASSUME LoaderInv, [Next]_vars PROVE LoaderInv'
<1>1. CASE WriteImage
  BY <1>1, WriteImageInv
<1>2. CASE Load
  BY <1>2, LoadInv
<1>3. CASE Relocate
  BY <1>3, RelocateInv
<1>4. CASE Restart
  BY <1>4, RestartInv
<1>5. CASE CheckMagic
  BY <1>5, CheckMagicInv
<1>6. CASE CopyRegion
  BY <1>6, CopyRegionInv
<1>7. CASE AtLinkAddress \/ RelocationFailed \/ EnableMmu \/ JumpToKernel \/ GoWild
  BY <1>7, QuietInv
<1>8. CASE UNCHANGED vars
  <2> USE <1>8 DEF vars, LoaderInv
  <2>1. Shape'
    BY DEF Shape
  <2>2. Progress'
    BY DEF Progress, MayRelocate
  <2>3. Contents'
    BY DEF Contents, EnoughMemory, Far, ImageAt, LoaderIntact, PayloadClear, RegionThere
  <2> QED
    BY <2>1, <2>2, <2>3
<1> QED
  BY <1>1, <1>2, <1>3, <1>4, <1>5, <1>6, <1>7, <1>8 DEF Next

\* The loader runs where the tool and crt0.S have put it, and what it still
\* needs is where it was put.
THEOREM LoaderInvariant == Spec => []LoaderInv
<1>1. Init => LoaderInv
  BY InitInv
<1>2. LoaderInv /\ [Next]_vars => LoaderInv'
  BY NextInv
<1> QED
  BY <1>1, <1>2, PTL DEF Spec

-----------------------------------------------------------------------------
(* What follows from it.                                                   *)

\* The loader does not write over itself, neither when crt0.S moves it nor when
\* copy_data() unpacks the regions, where there is memory for all of that and
\* the image was not put so close above its place that its payload falls on it.
THEOREM LoaderStaysIntact ==
  Spec => [](EnoughMemory(board) /\ Far(board) => NotOverItself)
<1>1. LoaderInv => (EnoughMemory(board) /\ Far(board) => NotOverItself)
  <2> SUFFICES ASSUME LoaderInv, EnoughMemory(board), Far(board),
                      stage \in {"start", "moved", "main", "copy", "mmu", "kernel"}
               PROVE  LoaderIntact
    BY DEF NotOverItself
  <2>1. CASE stage \in {"start", "main"}
    <3>1. Shape /\ ImageAt(at)
      BY <2>1 DEF LoaderInv, Progress, Contents, ImageAt
    <3> QED
      BY <3>1, ImageHasLoader
  <2>2. CASE stage \in {"moved", "copy", "mmu", "kernel"}
    BY <2>2 DEF LoaderInv, Contents
  <2> QED
    BY <2>1, <2>2
<1> QED
  BY <1>1, LoaderInvariant, PTL

\* The kernel is entered with every page of itself and of the initial task in
\* its place, wherever the image was put.
THEOREM EverythingUnpacked ==
  Spec => [](EnoughMemory(board) => Unpacked)
<1>1. LoaderInv => (EnoughMemory(board) => Unpacked)
  <2> SUFFICES ASSUME LoaderInv, EnoughMemory(board), stage = "kernel", PayloadClear
               PROVE  /\ \A r \in DOMAIN board.kernel : \A i \in 1 .. board.kernel[r].size :
                           mem[board.kernel[r].paddr + i - 1] = DataPage(r, i)
                      /\ \A s \in DOMAIN TaskSegments(board) :
                           \A i \in 1 .. TaskSegments(board)[s].size :
                             mem[TaskSegments(board)[s].vaddr + PvOffset(board) + i - 1]
                               = DataPage(Len(board.kernel) + s, i)
    BY DEF Unpacked
  <2>1. /\ board \in Boards
        /\ \A r \in 1 .. Len(Regions(board)) : RegionThere(r)
    BY DEF LoaderInv, Shape, Progress, Contents
  <2>2. /\ Len(board.kernel) \in Nat /\ DOMAIN board.kernel = 1 .. Len(board.kernel)
    BY <2>1, BoardsAssumption, Elements
  <2>3. /\ Len(TaskSegments(board)) \in Nat
        /\ DOMAIN TaskSegments(board) = 1 .. Len(TaskSegments(board))
    BY <2>1, TaskFacts, Elements
  <2>4. Len(Regions(board)) = Len(board.kernel) + Len(TaskSegments(board))
    BY <2>1, RegionFacts
  <2>5. ASSUME NEW r \in DOMAIN board.kernel, NEW i \in 1 .. board.kernel[r].size
        PROVE  mem[board.kernel[r].paddr + i - 1] = DataPage(r, i)
    <3>1. r \in 1 .. Len(Regions(board)) /\ r \in 1 .. Len(board.kernel)
      BY <2>2, <2>3, <2>4
    <3>2. Regions(board)[r].load = board.kernel[r].paddr /\ Regions(board)[r].size = board.kernel[r].size
      <4>1. Regions(board)[r] = [load |-> board.kernel[r].paddr, size |-> board.kernel[r].size]
        BY <2>1, <3>1, RegionFacts
      <4> QED
        BY <4>1
    <3> QED
      BY <2>1, <3>1, <3>2 DEF RegionThere
  <2>6. ASSUME NEW s \in DOMAIN TaskSegments(board), NEW i \in 1 .. TaskSegments(board)[s].size
        PROVE  mem[TaskSegments(board)[s].vaddr + PvOffset(board) + i - 1]
                 = DataPage(Len(board.kernel) + s, i)
    <3> DEFINE t == TaskSegments(board)[s]
               r == Len(board.kernel) + s
    <3>1. r \in 1 .. Len(Regions(board)) /\ s \in 1 .. Len(TaskSegments(board))
      BY <2>2, <2>3, <2>4
    <3>2. /\ t.vaddr \in Nat /\ t.size \in Nat /\ TaskVaddr(board) \in Nat
          /\ Regions(board)[r] = [load |-> board.base + (t.vaddr - TaskVaddr(board)), size |-> t.size]
      BY <2>1, <3>1, RegionFacts
    <3>3. board.base \in Nat
      BY <2>1, BoardsAssumption
    <3> HIDE DEF t, r
    <3>4. /\ Regions(board)[r].load = t.vaddr + PvOffset(board) /\ Regions(board)[r].size = t.size
      BY <3>2, <3>3 DEF PvOffset
    <3>5. mem[t.vaddr + PvOffset(board) + i - 1] = DataPage(r, i)
      BY <2>1, <3>1, <3>4 DEF RegionThere, t
    <3> QED
      BY <3>5 DEF t, r
  <2> QED
    BY <2>5, <2>6
<1> QED
  BY <1>1, LoaderInvariant, PTL

\* With the MMU on, the loader, its header, the spin table, the UART and every
\* page of the kernel are where they should be, for tables of any size and
\* kernels of any number of segments that begin anywhere in a block.
THEOREM TablesAreRight ==
  Spec => [](Mappable(board) => Translated)
<1>1. LoaderInv => (Mappable(board) => Translated)
  <2> SUFFICES ASSUME LoaderInv, Mappable(board), stage = "mmu"
               PROVE  /\ \A i \in 0 .. board.loader : Translate(board, FALSE, at + i) = at + i
                      /\ board.spin => Translate(board, FALSE, 0) = 0
                      /\ board.uart # -1 => Translate(board, FALSE, board.uart) = board.uart
                      /\ \A r \in DOMAIN board.kernel : \A i \in 0 .. board.kernel[r].size - 1 :
                           Translate(board, TRUE, board.kernel[r].vaddr + i) = board.kernel[r].paddr + i
    BY DEF Translated
  <2>1. /\ board \in Boards /\ at = board.link /\ KernelConsistent(board)
        /\ board.arch = "aarch64" => AArch64Possible(board)
    BY DEF LoaderInv, Shape, Progress
  <2>2. /\ board.arch \in {"aarch64", "riscv64"}
        /\ board.arch = "riscv64" => board.uart = -1 /\ ~board.spin
    BY <2>1, BoardsAssumption
  <2>3. CASE board.arch = "aarch64"
    BY <2>1, <2>3, AArch64Loader, AArch64Spin, AArch64Uart, AArch64Kernel
  <2>4. CASE board.arch = "riscv64"
    BY <2>1, <2>2, <2>4, RiscvLoader, RiscvKernel
  <2> QED
    BY <2>2, <2>3, <2>4
<1> QED
  BY <1>1, LoaderInvariant, PTL

=============================================================================
