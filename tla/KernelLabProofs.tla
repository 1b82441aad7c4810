-------------------------- MODULE KernelLabProofs --------------------------
(***************************************************************************)
(* The inductive invariant of the kernel modules while no two calls        *)
(* overlap, and the theorem that such a call answers for its own process.  *)
(***************************************************************************)
EXTENDS KernelLab, SetInduction, SequenceTheorems

-----------------------------------------------------------------------------
(* The inductive invariant.                                                *)

\* The parent of a process outlives it.
Family == /\ alive \subseteq Tasks /\ parent = FirstParent
          /\ \A t \in alive : parent[t] \in alive \union {swapper}

Nodes == [task : alive, size : Nat, of : Writers]
tasks(list) == [i \in DOMAIN list |-> list[i].task]
first(list) == IF list = <<>> THEN NoNode ELSE Head(list)

\* How far a writer is in its walk, what it has listed, and what of the
\* path to its process there is in its buffer.
Written(s) ==
  \/ s = idle
  \/ /\ s = [pc |-> "start"] /\ ptree_list = <<>>
     /\ curr = NULL \/ (curr \in alive /\ path = path_to(curr))
  \/ \E t, n : /\ s = [pc |-> "add", task |-> t, total_size |-> n]
               /\ \/ t = NULL
                  \/ /\ t \in alive \union {swapper}
                     /\ path = path_to(t) \o tasks(ptree_list) /\ n = bytes(tasks(ptree_list))
  \/ \E text \in Seq(Tasks) :
       /\ s = [pc |-> "print", total_size |-> bytes(path), text |-> text, node |-> first(ptree_list)]
       /\ path = text \o tasks(ptree_list)
  \/ \E pc \in {"size", "data"} :
       /\ s = [pc |-> pc, total_size |-> bytes(path), text |-> path] /\ ptree_list = <<>>

WalkExact ==
  /\ w = [p \in Writers |-> w[p]] /\ path \in Seq(Tasks) /\ ptree_list \in Seq(Nodes)
  /\ \A p, o \in Writers : w[p] # idle /\ w[o] # idle => p = o
  /\ \A p \in Writers : Written(w[p])
  /\ (\A p \in Writers : w[p] = idle) => ptree_list = <<>> /\ blob.data = path

\* The size and the data of the blob are of one write, but between the two
\* assignments, and a reader is never there then.
BlobExact ==
  /\ r = [p \in BlobReaders |-> r[p]]
  /\ \E n, d : blob = [size |-> n, data |-> d]
  /\ blob.data \in Seq(Tasks)
  /\ blob.size = IF \E p \in Writers : w[p].pc = "data" THEN bytes(path) ELSE bytes(blob.data)
  /\ \A p \in BlobReaders :
       \/ r[p] = idle
       \/ /\ r[p] = [pc |-> "data", size |-> bytes(blob.data), due |-> blob.data]
          /\ \A o \in Writers : w[o].pc # "data"

answer(pid, va) == physical(Frames[pid][va \div PAGE_SIZE], va)

Answered(s) ==
  \/ s = idle
  \/ \E pid \in Tasks, va \in Addresses :
       \/ /\ s = [pc |-> "mm", pid |-> pid, va |-> va]
          /\ task = NULL \/ (task = pid /\ pid \in alive)
       \/ s = [pc |-> "copy", pid |-> pid, va |-> va, pa |-> answer(pid, va)]

AnswersExact ==
  /\ q = [p \in PaddrReaders |-> q[p]]
  /\ \A p, o \in PaddrReaders : q[p].pc = "mm" /\ q[o].pc = "mm" => p = o
  /\ \A p \in PaddrReaders : Answered(q[p])

Failures == oops \in {"no", "read of no process", "walk of an unmapped page"}

Serial == WalkExact /\ BlobExact /\ AnswersExact /\ Failures
Inv == Family /\ (~raced => Serial)

-----------------------------------------------------------------------------
(* The bytes of a path.                                                    *)

LEMMA TasksAre == Tasks \subseteq Nat /\ NULL \notin Tasks /\ swapper \notin Tasks /\ NULL # swapper
<1>1. Tasks \subseteq Nat \ {0}
  BY KernelLabAssumption DEF swapper
<1> QED
  BY <1>1 DEF NULL, swapper

lengths(ts) == [k \in 1 .. Len(ts) |-> length(ts[k])]

LEMMA LengthsNat ==
  ASSUME NEW ts \in Seq(Tasks)
  PROVE  Len(ts) \in Nat /\ lengths(ts) \in [1 .. Len(ts) -> Nat]
<1>1. \A k \in 1 .. Len(ts) : ts[k] \in Tasks
  OBVIOUS
<1>2. \A k \in 1 .. Len(ts) : ts[k] \in Nat
  BY <1>1, TasksAre
<1> QED
  BY <1>2 DEF lengths, length

LEMMA BytesAre ==
  ASSUME NEW ts \in Seq(Tasks), NEW f, PartialSums(f, lengths(ts), Len(ts))
  PROVE  bytes(ts) = f[Len(ts)]
<1> DEFINE IsSum(g) == g = [k \in 0 .. Len(ts) |-> IF k = 0 THEN 0 ELSE g[k - 1] + length(ts[k])]
<1>1. ASSUME NEW g PROVE IsSum(g) <=> PartialSums(g, lengths(ts), Len(ts))
  <2>1. \A k \in 0 .. Len(ts) : k # 0 => lengths(ts)[k] = length(ts[k])
    BY LengthsNat DEF lengths
  <2>2. [k \in 0 .. Len(ts) |-> IF k = 0 THEN 0 ELSE g[k - 1] + length(ts[k])]
          = [k \in 0 .. Len(ts) |-> IF k = 0 THEN 0 ELSE g[k - 1] + lengths(ts)[k]]
    BY <2>1
  <2> QED
    BY <2>2 DEF PartialSums
<1>2. bytes(ts) = (CHOOSE g : IsSum(g))[Len(ts)]
  BY DEF bytes
<1>3. IsSum(f)
  BY <1>1
<1>4. IsSum(CHOOSE g : IsSum(g))
  <2> HIDE DEF IsSum
  <2> QED
    BY <1>3
<1>5. (CHOOSE g : IsSum(g)) = f
  <2> HIDE DEF IsSum
  <2> QED
    BY <1>1, <1>4, LengthsNat, PartialSumsUnique
<1> QED
  BY <1>2, <1>5

LEMMA BytesSums ==
  ASSUME NEW ts \in Seq(Tasks)
  PROVE  \E f \in [0 .. Len(ts) -> Nat] :
            PartialSums(f, lengths(ts), Len(ts)) /\ bytes(ts) = f[Len(ts)]
  BY LengthsNat, PartialSumsExist, BytesAre

LEMMA BytesNat ==
  ASSUME NEW ts \in Seq(Tasks)
  PROVE  bytes(ts) \in Nat
<1>1. PICK f \in [0 .. Len(ts) -> Nat] : bytes(ts) = f[Len(ts)]
  BY BytesSums
<1> QED
  BY <1>1, LengthsNat

LEMMA BytesEmpty == bytes(<<>>) = 0
<1>1. <<>> \in Seq(Tasks) /\ Len(<<>>) = 0
  OBVIOUS
<1>2. PICK f \in [0 .. 0 -> Nat] : PartialSums(f, lengths(<<>>), 0) /\ bytes(<<>>) = f[0]
  BY <1>1, BytesSums
<1> QED
  BY <1>2 DEF PartialSums

LEMMA BytesOne ==
  ASSUME NEW t \in Tasks
  PROVE  bytes(<<t>>) = length(t)
<1>1. <<t>> \in Seq(Tasks) /\ Len(<<t>>) = 1 /\ <<t>>[1] = t
  OBVIOUS
<1>2. PICK f \in [0 .. 1 -> Nat] : PartialSums(f, lengths(<<t>>), 1) /\ bytes(<<t>>) = f[1]
  BY <1>1, BytesSums
<1>3. f[0] = 0 /\ f[1] = f[0] + lengths(<<t>>)[1]
  BY <1>2 DEF PartialSums
<1>4. lengths(<<t>>)[1] = length(t)
  BY <1>1 DEF lengths
<1>5. length(t) \in Nat
  BY TasksAre DEF length
<1> QED
  BY <1>2, <1>3, <1>4, <1>5

LEMMA BytesConcat ==
  ASSUME NEW ts \in Seq(Tasks), NEW us \in Seq(Tasks)
  PROVE  bytes(ts \o us) = bytes(ts) + bytes(us)
<1> DEFINE m == Len(ts)
           n == Len(us)
<1>1. /\ m \in Nat /\ n \in Nat /\ m = Len(ts) /\ n = Len(us)
      /\ ts \o us \in Seq(Tasks) /\ Len(ts \o us) = m + n
  OBVIOUS
<1> HIDE DEF m, n
<1>2. PICK f \in [0 .. m -> Nat] : PartialSums(f, lengths(ts), m) /\ bytes(ts) = f[m]
  BY <1>1, BytesSums
<1>3. PICK g \in [0 .. n -> Nat] : PartialSums(g, lengths(us), n) /\ bytes(us) = g[n]
  BY <1>1, BytesSums
<1> DEFINE h == [k \in 0 .. m + n |-> IF k <= m THEN f[k] ELSE f[m] + g[k - m]]
<1>4. ASSUME NEW k \in 1 .. m + n
      PROVE  lengths(ts \o us)[k] = IF k <= m THEN lengths(ts)[k] ELSE lengths(us)[k - m]
  <2>1. (ts \o us)[k] = IF k <= m THEN ts[k] ELSE us[k - m]
    BY <1>1
  <2> QED
    BY <1>1, <2>1 DEF lengths
<1>5. g[0] = 0 /\ f[m] \in Nat
  BY <1>1, <1>3 DEF PartialSums
<1>6. ASSUME NEW k \in 0 .. m + n
      PROVE  h[k] = IF k = 0 THEN 0 ELSE h[k - 1] + lengths(ts \o us)[k]
  <2>1. CASE k <= m
    <3>1. k \in 0 .. m /\ (k # 0 => k - 1 \in 0 .. m /\ k - 1 <= m)
      BY <1>1, <2>1
    <3>2. f[k] = IF k = 0 THEN 0 ELSE f[k - 1] + lengths(ts)[k]
      BY <1>2, <3>1 DEF PartialSums
    <3> QED
      BY <1>1, <1>4, <2>1, <3>1, <3>2
  <2>2. CASE ~(k <= m)
    <3> DEFINE j == k - m
    <3>1. j \in 1 .. n /\ j \in 0 .. n /\ j # 0 /\ j - 1 \in 0 .. n
      BY <1>1, <2>2
    <3>2. g[j] = g[j - 1] + lengths(us)[j]
      <4> HIDE DEF j
      <4> QED
        BY <1>3, <3>1 DEF PartialSums
    <3>3. h[k] = f[m] + g[j] /\ h[k - 1] = f[m] + g[j - 1]
      BY <1>1, <1>5, <2>2, <3>1
    <3>4. lengths(ts \o us)[k] = lengths(us)[j] /\ lengths(us)[j] \in Nat
      <4>1. lengths(us) \in [1 .. n -> Nat]
        BY <1>1, LengthsNat
      <4>2. k \in 1 .. m + n /\ ~(k <= m)
        BY <1>1, <2>2
      <4> QED
        BY <1>4, <3>1, <4>1, <4>2
    <3>5. g[j - 1] \in Nat /\ g[j] \in Nat
      BY <3>1
    <3> HIDE DEF h, j
    <3> QED
      BY <1>1, <1>5, <2>2, <3>2, <3>3, <3>4, <3>5
  <2> QED
    BY <2>1, <2>2
<1>7. PartialSums(h, lengths(ts \o us), m + n)
  <2> DEFINE H == [k \in 0 .. m + n |-> IF k = 0 THEN 0 ELSE h[k - 1] + lengths(ts \o us)[k]]
  <2>1. h = [k \in 0 .. m + n |-> h[k]]
    OBVIOUS
  <2>2. \A k \in 0 .. m + n : h[k] = H[k]
    BY <1>6
  <2>3. H = [k \in 0 .. m + n |-> H[k]]
    OBVIOUS
  <2>4. h = H
    <3> HIDE DEF h, H
    <3> QED
      BY <2>1, <2>2, <2>3
  <2> QED
    BY <2>4 DEF PartialSums
<1>8. h[m + n] = f[m] + g[n]
  BY <1>1, <1>5
<1> HIDE DEF h
<1> QED
  BY <1>1, <1>2, <1>3, <1>7, <1>8, BytesAre

-----------------------------------------------------------------------------
(* The path to a process.                                                  *)

IsPath(c, t) ==
  /\ c \in Seq(Tasks)
  /\ t = IF c = <<>> THEN swapper ELSE c[Len(c)]
  /\ \A i \in 1 .. Len(c) : FirstParent[c[i]] = IF i = 1 THEN swapper ELSE c[i - 1]

LEMMA PathAppend ==
  ASSUME NEW t \in Tasks, NEW c, IsPath(c, FirstParent[t])
  PROVE  IsPath(Append(c, t), t)
<1>1. c \in Seq(Tasks) /\ Len(c) \in Nat
  BY DEF IsPath
<1> DEFINE d == Append(c, t)
<1>2. d \in Seq(Tasks) /\ Len(d) = Len(c) + 1 /\ d # <<>> /\ d[Len(d)] = t
  BY <1>1
<1>3. ASSUME NEW i \in 1 .. Len(d)
      PROVE  FirstParent[d[i]] = IF i = 1 THEN swapper ELSE d[i - 1]
  <2>1. CASE i <= Len(c)
    <3>1. i \in 1 .. Len(c) /\ d[i] = c[i] /\ (i # 1 => d[i - 1] = c[i - 1])
      BY <1>1, <1>2, <2>1
    <3> QED
      BY <3>1 DEF IsPath
  <2>2. CASE i = Len(c) + 1
    <3>1. d[i] = t /\ (i # 1 => d[i - 1] = c[Len(c)] /\ c # <<>>) /\ (i = 1 => c = <<>>)
      BY <1>1, <1>2, <2>2
    <3> QED
      BY <3>1 DEF IsPath
  <2> QED
    BY <1>1, <1>2, <2>1, <2>2
<1> QED
  BY <1>2, <1>3 DEF IsPath

LEMMA PathFront ==
  ASSUME NEW t \in Tasks, NEW c, IsPath(c, t)
  PROVE  \E d : IsPath(d, FirstParent[t]) /\ c = Append(d, t)
<1>1. c \in Seq(Tasks) /\ c[Len(c)] = t /\ c # <<>>
  BY TasksAre DEF IsPath
<1>2. PICK d \in Seq(Tasks), e \in Tasks : c = Append(d, e)
  BY <1>1, SequenceEmptyOrAppend
<1>3. /\ Len(d) \in Nat /\ Len(c) = Len(d) + 1 /\ e = t
      /\ \A i \in 1 .. Len(d) : c[i] = d[i]
  BY <1>1, <1>2
<1>4. FirstParent[t] = IF d = <<>> THEN swapper ELSE d[Len(d)]
  <2>1. Len(c) \in 1 .. Len(c) /\ (Len(c) = 1 <=> d = <<>>)
    BY <1>3
  <2>2. FirstParent[c[Len(c)]] = IF Len(c) = 1 THEN swapper ELSE c[Len(c) - 1]
    BY <2>1 DEF IsPath
  <2>3. Len(c) # 1 => c[Len(c) - 1] = d[Len(d)]
    BY <1>3
  <2> QED
    BY <1>1, <2>1, <2>2, <2>3
<1>5. ASSUME NEW i \in 1 .. Len(d)
      PROVE  FirstParent[d[i]] = IF i = 1 THEN swapper ELSE d[i - 1]
  <2>1. i \in 1 .. Len(c) /\ d[i] = c[i] /\ (i # 1 => d[i - 1] = c[i - 1])
    BY <1>3
  <2> QED
    BY <2>1 DEF IsPath
<1>6. IsPath(d, FirstParent[t])
  BY <1>4, <1>5 DEF IsPath
<1> QED
  BY <1>2, <1>3, <1>6

LEMMA PathEmpty ==
  /\ IsPath(<<>>, swapper)
  /\ \A c : IsPath(c, swapper) => c = <<>>
<1>1. IsPath(<<>>, swapper)
  BY DEF IsPath
<1>2. ASSUME NEW c, IsPath(c, swapper), c # <<>> PROVE FALSE
  <2>1. c \in Seq(Tasks) /\ c[Len(c)] = swapper
    BY <1>2 DEF IsPath
  <2>2. Len(c) \in 1 .. Len(c)
    BY <1>2, <2>1
  <2> QED
    BY <2>1, <2>2, TasksAre
<1> QED
  BY <1>1, <1>2

(* What holds of init, and of a process when of its parent, holds of all.  *)
LEMMA Ancestry ==
  ASSUME NEW Good, swapper \in Good,
         \A t \in Tasks : FirstParent[t] \in Good => t \in Good
  PROVE  Tasks \subseteq Good
<1> DEFINE S == Tasks \ Good
<1>1. SUFFICES ASSUME S # {} PROVE FALSE
  OBVIOUS
<1>2. PICK t \in S : FirstParent[t] \notin S
  BY <1>1, KernelLabAssumption
<1>3. FirstParent[t] \in Tasks \union {swapper}
  BY KernelLabAssumption
<1> QED
  BY <1>2, <1>3

LEMMA PathUnique ==
  ASSUME NEW t \in Tasks
  PROVE  \A c, d : IsPath(c, t) /\ IsPath(d, t) => c = d
<1> DEFINE Good == {u \in Tasks \union {swapper} : \A c, d : IsPath(c, u) /\ IsPath(d, u) => c = d}
<1>1. swapper \in Good
  BY PathEmpty
<1>2. ASSUME NEW u \in Tasks, FirstParent[u] \in Good PROVE u \in Good
  <2>1. SUFFICES ASSUME NEW c, NEW d, IsPath(c, u), IsPath(d, u) PROVE c = d
    OBVIOUS
  <2>2. PICK c1 : IsPath(c1, FirstParent[u]) /\ c = Append(c1, u)
    BY <2>1, PathFront
  <2>3. PICK d1 : IsPath(d1, FirstParent[u]) /\ d = Append(d1, u)
    BY <2>1, PathFront
  <2>4. c1 = d1
    BY <1>2, <2>2, <2>3
  <2> QED
    BY <2>2, <2>3, <2>4
<1>3. Tasks \subseteq Good
  <2> HIDE DEF Good
  <2> QED
    BY <1>1, <1>2, Ancestry
<1> QED
  BY <1>3

LEMMA PathExists ==
  ASSUME NEW t \in Tasks
  PROVE  \E c : IsPath(c, t)
<1> DEFINE Good == {u \in Tasks \union {swapper} : \E c : IsPath(c, u)}
<1>1. swapper \in Good
  BY PathEmpty
<1>2. ASSUME NEW u \in Tasks, FirstParent[u] \in Good PROVE u \in Good
  BY <1>2, PathAppend
<1>3. Tasks \subseteq Good
  <2> HIDE DEF Good
  <2> QED
    BY <1>1, <1>2, Ancestry
<1> QED
  BY <1>3

(* path_to is the function its definition describes, and gives the path.   *)
LEMMA PathTo ==
  ASSUME parent = FirstParent
  PROVE  /\ path_to(swapper) = <<>>
         /\ \A t \in Tasks : path_to(t) \in Seq(Tasks)
         /\ \A t \in Tasks : path_to(t) = Append(path_to(parent[t]), t)
<1> DEFINE D == Tasks \union {swapper}
           IsUp(f) == f = [n \in D |-> IF n = swapper THEN <<>> ELSE Append(f[parent[n]], n)]
           F == [n \in D |-> CHOOSE c : IsPath(c, n)]
           U == CHOOSE f : IsUp(f)
<1>1. \A t \in Tasks : t # swapper /\ FirstParent[t] \in D
  BY TasksAre, KernelLabAssumption
<1>2. \A n \in D : IsPath(F[n], n)
  BY PathExists, PathEmpty
<1>3. IsUp(F)
  <2>1. ASSUME NEW n \in D
        PROVE  F[n] = IF n = swapper THEN <<>> ELSE Append(F[FirstParent[n]], n)
    <3>1. CASE n = swapper
      BY <1>2, <3>1, PathEmpty
    <3>2. CASE n \in Tasks
      <4> HIDE DEF F
      <4>1. IsPath(F[FirstParent[n]], FirstParent[n]) /\ IsPath(F[n], n)
        BY <1>1, <1>2, <3>2
      <4>2. IsPath(Append(F[FirstParent[n]], n), n)
        BY <3>2, <4>1, PathAppend
      <4> QED
        BY <1>1, <3>2, <4>1, <4>2, PathUnique
    <3> QED
      BY <3>1, <3>2
  <2>2. F = [n \in D |-> F[n]]
    OBVIOUS
  <2>3. F = [n \in D |-> IF n = swapper THEN <<>> ELSE Append(F[FirstParent[n]], n)]
    <3> HIDE DEF F
    <3> QED
      BY <2>1, <2>2
  <2> HIDE DEF F
  <2> QED
    BY <2>3
<1>4. IsUp(U)
  <2> HIDE DEF IsUp, F
  <2> QED
    BY <1>3
<1>5. \A t : path_to(t) = U[t]
  BY DEF path_to
<1>6. U[swapper] = <<>> /\ \A t \in Tasks : U[t] = Append(U[FirstParent[t]], t)
  <2> HIDE DEF U
  <2> QED
    BY <1>1, <1>4
<1>7. \A t \in Tasks : IsPath(U[t], t)
  <2> HIDE DEF U
  <2> DEFINE Good == {u \in D : IsPath(U[u], u)}
  <2>1. swapper \in Good
    BY <1>6, PathEmpty
  <2>2. ASSUME NEW u \in Tasks, FirstParent[u] \in Good PROVE u \in Good
    BY <1>6, <2>2, PathAppend
  <2>3. Tasks \subseteq Good
    <3> HIDE DEF Good
    <3> QED
      BY <2>1, <2>2, Ancestry
  <2> QED
    BY <2>3
<1>8. \A t \in Tasks : U[t] \in Seq(Tasks)
  <2> HIDE DEF U
  <2> QED
    BY <1>7 DEF IsPath
<1> QED
  <2> HIDE DEF U
  <2> QED
    BY <1>5, <1>6, <1>8

-----------------------------------------------------------------------------
(* The list, and the paths in it.                                          *)

ListOf(A) == Seq([task : A, size : Nat, of : Writers])

LEMMA TasksAreSeq ==
  ASSUME NEW A, NEW list \in ListOf(A)
  PROVE  tasks(list) \in Seq(A) /\ Len(tasks(list)) = Len(list)
<1>1. Len(list) \in Nat /\ DOMAIN list = 1 .. Len(list)
  BY DEF ListOf
<1>2. \A i \in 1 .. Len(list) : list[i].task \in A
  <2>1. \A i \in 1 .. Len(list) : list[i] \in [task : A, size : Nat, of : Writers]
    BY ElementOfSeq DEF ListOf
  <2> QED
    BY <2>1
<1> QED
  BY <1>1, <1>2 DEF tasks

LEMMA TasksEmpty == tasks(<<>>) = <<>>
  BY DEF tasks

LEMMA TasksCons ==
  ASSUME NEW A, NEW list \in ListOf(A), NEW node \in [task : A, size : Nat, of : Writers]
  PROVE  /\ <<node>> \o list \in ListOf(A)
         /\ tasks(<<node>> \o list) = <<node.task>> \o tasks(list)
<1> DEFINE all == <<node>> \o list
           s == tasks(all)
           t == <<node.task>> \o tasks(list)
<1>1. all \in ListOf(A) /\ Len(list) \in Nat /\ Len(all) = Len(list) + 1
  BY DEF ListOf
<1>2. s \in Seq(A) /\ Len(s) = Len(list) + 1
  <2> HIDE DEF all
  <2> QED
    BY <1>1, TasksAreSeq
<1>3. tasks(list) \in Seq(A) /\ Len(tasks(list)) = Len(list) /\ node.task \in A
  BY TasksAreSeq
<1>4. t \in Seq(A) /\ Len(t) = Len(list) + 1
  BY <1>1, <1>3
<1>5. ASSUME NEW i \in 1 .. Len(list) + 1 PROVE s[i] = t[i]
  <2>1. all[i] = IF i = 1 THEN node ELSE list[i - 1]
    BY <1>1 DEF ListOf
  <2>2. s[i] = all[i].task
    <3> HIDE DEF all
    <3>1. i \in DOMAIN all
      BY <1>1 DEF ListOf
    <3> QED
      BY <3>1 DEF tasks
  <2>3. t[i] = IF i = 1 THEN node.task ELSE tasks(list)[i - 1]
    BY <1>1, <1>3
  <2>4. i # 1 => tasks(list)[i - 1] = list[i - 1].task
    BY <1>1 DEF tasks, ListOf
  <2> QED
    BY <2>1, <2>2, <2>3, <2>4
<1> HIDE DEF s, t
<1>6. s = t
  BY <1>2, <1>4, <1>5, SeqEqual
<1> QED
  BY <1>1, <1>6 DEF s, t

LEMMA HeadTail ==
  ASSUME NEW S, NEW list \in Seq(S), list # <<>>
  PROVE  /\ Head(list) \in S /\ Tail(list) \in Seq(S)
         /\ list = <<Head(list)>> \o Tail(list)
<1>1. Head(list) \in S /\ Tail(list) \in Seq(S)
  BY HeadTailProperties
<1> DEFINE l == <<Head(list)>> \o Tail(list)
<1>2. l \in Seq(S) /\ Len(l) = Len(list)
  BY <1>1, HeadTailProperties
<1>3. \A i \in 1 .. Len(list) : l[i] = list[i]
  BY <1>1, HeadTailProperties
<1>4. l = list
  <2> HIDE DEF l
  <2> QED
    BY <1>2, <1>3, SeqEqual
<1> QED
  BY <1>1, <1>4

\* list_del of the first node, and the node after it.
LEMMA DeleteFirst ==
  ASSUME NEW S, NEW list \in Seq(S), list # <<>>
  PROVE  /\ place(list, Head(list)) = 1
         /\ list_del(list, 1) = Tail(list)
         /\ (IF 1 = Len(list) THEN NoNode ELSE list[2]) = first(Tail(list))
<1>1. Len(list) \in Nat \ {0} /\ Head(list) = list[1]
  OBVIOUS
<1>2. place(list, Head(list)) = 1
  <2> DEFINE I == {i \in 1 .. Len(list) : list[i] = Head(list)}
  <2>1. 1 \in I /\ \A i \in I : i \in Int /\ 1 <= i
    BY <1>1
  <2>2. place(list, Head(list)) = IF I # {} THEN Min(I) ELSE 0
    BY DEF place, SelectInSeq
  <2> HIDE DEF I
  <2>3. Min(I) = 1
    BY <2>1 DEF Min
  <2> QED
    BY <2>1, <2>2, <2>3
<1>3. list_del(list, 1) = Tail(list)
  <2> DEFINE a == SubSeq(list, 1, 1 - 1)
             b == SubSeq(list, 1 + 1, Len(list))
  <2>1. a = <<>>
    OBVIOUS
  <2>2. b \in Seq(S) /\ b = Tail(list)
    BY <1>1, HeadTailProperties
  <2>3. list_del(list, 1) = a \o b
    BY DEF list_del, RemoveAt
  <2> HIDE DEF a, b
  <2> QED
    BY <2>1, <2>2, <2>3
<1>4. (IF 1 = Len(list) THEN NoNode ELSE list[2]) = first(Tail(list))
  <2>1. Tail(list) \in Seq(S) /\ Len(Tail(list)) = Len(list) - 1
    BY <1>1
  <2>2. CASE Len(list) = 1
    <3>1. Tail(list) = <<>>
      BY <2>1, <2>2
    <3> QED
      BY <2>2, <3>1 DEF first
  <2>3. CASE Len(list) # 1
    <3> DEFINE tail == Tail(list)
    <3>1. tail \in Seq(S) /\ Len(tail) = Len(list) - 1 /\ tail[1] = list[2]
      BY <1>1, <2>1, <2>3
    <3> HIDE DEF tail
    <3>2. tail # <<>> /\ Head(tail) = tail[1]
      BY <1>1, <2>3, <3>1
    <3>3. Tail(list) # <<>> /\ Head(Tail(list)) = list[2]
      BY <3>1, <3>2 DEF tail
    <3> QED
      BY <2>3, <3>3 DEF first
  <2> QED
    BY <2>2, <2>3
<1> QED
  BY <1>2, <1>3, <1>4

-----------------------------------------------------------------------------
(* Steps that leave a part alone.                                          *)

LEMMA PathKept == UNCHANGED parent => \A t : path_to(t)' = path_to(t)
  BY DEF path_to

LEMMA WalkKept ==
  ASSUME WalkExact, UNCHANGED <<alive, parent, curr, ptree_list, blob, w, path>>
  PROVE  WalkExact'
<1>1. \A t : path_to(t)' = path_to(t)
  BY PathKept
<1>2. \A p \in Writers : Written(w[p])' <=> Written(w[p])
  BY <1>1 DEF Written, first, tasks
<1> QED
  BY <1>2 DEF WalkExact, Nodes

(* A writer moves while the others are idle.                               *)
LEMMA WalkStep ==
  ASSUME WalkExact, NEW p \in Writers, w' = [w EXCEPT ![p] = w'[p]],
         \A o \in Writers : o # p => w[o] = idle,
         UNCHANGED alive, path' \in Seq(Tasks), ptree_list' \in Seq(Nodes),
         Written(w[p])',
         w'[p] = idle => ptree_list' = <<>> /\ blob'.data = path'
  PROVE  WalkExact'
<1>1. \A o \in Writers : o # p => w'[o] = idle
  BY DEF WalkExact
<1>2. w' = [o \in Writers |-> w'[o]]
  BY DEF WalkExact
<1>3. \A o \in Writers : Written(w[o])'
  <2>1. ASSUME NEW o \in Writers, o # p PROVE Written(w[o])'
    BY <1>1, <2>1 DEF Written
  <2> QED
    BY <2>1
<1>4. \A o, u \in Writers : w'[o] # idle /\ w'[u] # idle => o = u
  BY <1>1
<1>5. Nodes' = Nodes
  BY DEF Nodes
<1> QED
  BY <1>2, <1>3, <1>4, <1>5 DEF WalkExact

LEMMA BlobKept ==
  ASSUME BlobExact, UNCHANGED <<blob, r>>,
         \A o \in Writers : w'[o].pc = "data" <=> w[o].pc = "data",
         (\E o \in Writers : w[o].pc = "data") => path' = path
  PROVE  BlobExact'
<1>1. bytes(path') = bytes(path) \/ ~\E o \in Writers : w[o].pc = "data"
  OBVIOUS
<1> QED
  BY <1>1 DEF BlobExact

LEMMA AnswersKept ==
  ASSUME AnswersExact, UNCHANGED <<alive, task, q>>
  PROVE  AnswersExact'
  BY DEF AnswersExact, Answered

(* What has begun to write is the only writer there.                       *)
LEMMA OnlyWriter ==
  ASSUME WalkExact, NEW p \in Writers, w[p].pc # "idle"
  PROVE  \A o \in Writers : o # p => w[o] = idle
  BY DEF WalkExact, idle

LEMMA WriterIdle ==
  ASSUME NEW s, Written(s), s.pc \notin inWalk
  PROVE  s = idle
  BY DEF Written, inWalk

(* Where the walk is when the writer is at a place.                        *)
LEMMA Places ==
  ASSUME NEW s, Written(s)
  PROVE  /\ s.pc = "start" => /\ s = [pc |-> "start"] /\ ptree_list = <<>>
                              /\ curr = NULL \/ (curr \in alive /\ path = path_to(curr))
         /\ s.pc = "add" =>
              \E t, n : /\ s = [pc |-> "add", task |-> t, total_size |-> n]
                        /\ \/ t = NULL
                           \/ /\ t \in alive \union {swapper}
                              /\ path = path_to(t) \o tasks(ptree_list) /\ n = bytes(tasks(ptree_list))
         /\ s.pc = "print" =>
              \E text \in Seq(Tasks) :
                /\ s = [pc |-> "print", total_size |-> bytes(path), text |-> text, node |-> first(ptree_list)]
                /\ path = text \o tasks(ptree_list)
         /\ s.pc \in {"size", "data"} =>
              s = [pc |-> s.pc, total_size |-> bytes(path), text |-> path] /\ ptree_list = <<>>
<1>1. CASE s = idle
  BY <1>1 DEF idle
<1>2. CASE /\ s = [pc |-> "start"] /\ ptree_list = <<>>
           /\ curr = NULL \/ (curr \in alive /\ path = path_to(curr))
  BY <1>2
<1>3. CASE \E t, n : /\ s = [pc |-> "add", task |-> t, total_size |-> n]
                     /\ \/ t = NULL
                        \/ /\ t \in alive \union {swapper}
                           /\ path = path_to(t) \o tasks(ptree_list) /\ n = bytes(tasks(ptree_list))
  <2>1. s.pc = "add"
    BY <1>3
  <2> QED
    BY <1>3, <2>1
<1>4. CASE \E text \in Seq(Tasks) :
              /\ s = [pc |-> "print", total_size |-> bytes(path), text |-> text, node |-> first(ptree_list)]
              /\ path = text \o tasks(ptree_list)
  <2>1. s.pc = "print"
    BY <1>4
  <2> QED
    BY <1>4, <2>1
<1>5. CASE \E pc \in {"size", "data"} :
              /\ s = [pc |-> pc, total_size |-> bytes(path), text |-> path] /\ ptree_list = <<>>
  BY <1>5
<1> QED
  BY <1>1, <1>2, <1>3, <1>4, <1>5 DEF Written

-----------------------------------------------------------------------------
(* The steps of a writer.                                                  *)

LEMMA SerialInit == Init => Serial
<1>1. SUFFICES ASSUME Init PROVE Serial
  OBVIOUS
<1>2. WalkExact
  <2>1. <<>> \in Seq(Tasks) /\ <<>> \in Seq(Nodes)
    OBVIOUS
  <2> QED
    BY <1>1, <2>1 DEF Init, WalkExact, Written
<1>3. BlobExact
  <2>1. /\ blob = [size |-> 0, data |-> <<>>] /\ path = <<>>
        /\ w = [p \in Writers |-> idle] /\ r = [p \in BlobReaders |-> idle]
    BY <1>1 DEF Init
  <2>2. blob.size = 0 /\ blob.data = <<>> /\ <<>> \in Seq(Tasks)
    BY <2>1
  <2>3. \E n, d : blob = [size |-> n, data |-> d]
    BY <2>1
  <2> QED
    BY <2>1, <2>2, <2>3, BytesEmpty DEF BlobExact
<1>4. AnswersExact
  BY <1>1 DEF Init, AnswersExact, Answered, idle
<1> QED
  BY <1>1, <1>2, <1>3, <1>4 DEF Init, Serial, Failures

LEMMA LookupSerial ==
  ASSUME Family, Serial, NEW p \in Writers, Lookup(p), ~raced'
  PROVE  Serial'
<1>1. PICK pid \in Tasks :
         /\ curr' = pid_task(pid)
         /\ path' = IF pid \in alive THEN path_to(pid) ELSE path
         /\ w' = [w EXCEPT ![p] = [pc |-> "start"]]
  BY DEF Lookup
<1>2. UNCHANGED <<alive, parent, ptree_list, blob, task, q, r, oops>> /\ ~within(w, inWalk)
  BY DEF Lookup, kernel, paddr
<1>3. \A o \in Writers : w[o] = idle
  <2>1. \A o \in Writers : w[o].pc \notin inWalk
    BY <1>2 DEF within, Serial, WalkExact
  <2> QED
    BY <2>1, WriterIdle DEF Serial, WalkExact
<1>4. w'[p] = [pc |-> "start"] /\ \A o \in Writers : o # p => w'[o] = w[o]
  BY <1>1 DEF Serial, WalkExact
<1>5. \A t : path_to(t)' = path_to(t)
  BY <1>2, PathKept
<1>6. Written(w[p])'
  BY <1>1, <1>2, <1>3, <1>4, <1>5 DEF Written, pid_task, Serial, WalkExact
<1>7. path' \in Seq(Tasks)
  BY <1>1, PathTo DEF Family, Serial, WalkExact
<1>8. WalkExact'
  BY <1>1, <1>2, <1>3, <1>4, <1>6, <1>7, WalkStep DEF Serial, WalkExact, idle
<1>9. BlobExact'
  <2>1. \A o \in Writers : w'[o].pc # "data" /\ w[o].pc # "data"
    BY <1>3, <1>4 DEF idle
  <2> QED
    BY <1>2, <2>1, BlobKept DEF Serial
<1>10. AnswersExact'
  BY <1>2, AnswersKept DEF Serial
<1> QED
  BY <1>2, <1>8, <1>9, <1>10 DEF Serial, Failures

LEMMA StartSerial ==
  ASSUME Family, Serial, NEW p \in Writers, Start(p), ~raced'
  PROVE  Serial'
<1>1. /\ w[p].pc = "start"
      /\ w' = [w EXCEPT ![p] = [pc |-> "add", task |-> curr, total_size |-> 0]]
      /\ UNCHANGED <<alive, parent, ptree_list, blob, path, task, q, r, oops>>
  BY DEF Start, At, kernel, paddr
<1>2. \A o \in Writers : o # p => w[o] = idle
  BY <1>1, OnlyWriter DEF Serial
<1>3. /\ w'[p] = [pc |-> "add", task |-> curr, total_size |-> 0]
      /\ \A o \in Writers : o # p => w'[o] = w[o]
  BY <1>1 DEF Serial, WalkExact
<1>4. ptree_list = <<>> /\ (curr = NULL \/ (curr \in alive /\ path = path_to(curr)))
  BY <1>1, Places DEF Serial, WalkExact
<1>5. path_to(curr)' = path_to(curr)' /\ \A t : path_to(t)' = path_to(t)
  BY <1>1, PathKept
<1>6. Written(w[p])'
  <2>1. CASE curr = NULL
    BY <1>1, <1>3, <2>1 DEF Written
  <2>2. CASE curr \in alive /\ path = path_to(curr)
    <3>1. path \in Seq(Tasks) /\ path \o <<>> = path
      BY DEF Serial, WalkExact
    <3>2. path' = path_to(curr) \o tasks(ptree_list') /\ 0 = bytes(tasks(ptree_list'))
      BY <1>1, <1>4, <2>2, <3>1, TasksEmpty, BytesEmpty
    <3>3. \E t, n : /\ w'[p] = [pc |-> "add", task |-> t, total_size |-> n]
                    /\ t \in alive' \union {swapper}
                    /\ path' = path_to(t)' \o tasks(ptree_list') /\ n = bytes(tasks(ptree_list'))
      BY <1>1, <1>3, <1>5, <2>2, <3>2
    <3> QED
      BY <3>3 DEF Written
  <2> QED
    BY <1>4, <2>1, <2>2
<1>7. WalkExact'
  BY <1>1, <1>2, <1>3, <1>6, WalkStep DEF Serial, WalkExact, idle
<1>8. BlobExact'
  <2>1. \A o \in Writers : w'[o].pc # "data" /\ w[o].pc # "data"
    BY <1>1, <1>2, <1>3 DEF idle
  <2> QED
    BY <1>1, <2>1, BlobKept DEF Serial
<1>9. AnswersExact'
  BY <1>1, AnswersKept DEF Serial
<1> QED
  BY <1>1, <1>7, <1>8, <1>9 DEF Serial, Failures

LEMMA Advanced ==
  ASSUME NEW t, NEW n, NEW up, NEW l
  PROVE  [[pc |-> "add", task |-> t, total_size |-> n] EXCEPT !.task = up, !.total_size = @ + l]
           = [pc |-> "add", task |-> up, total_size |-> n + l]
<1> DEFINE s == [pc |-> "add", task |-> t, total_size |-> n]
           e == [s EXCEPT !.task = up]
<1>1. e = [pc |-> "add", task |-> up, total_size |-> n]
  OBVIOUS
<1>2. [e EXCEPT !.total_size = @ + l] = [pc |-> "add", task |-> up, total_size |-> n + l]
  <2> HIDE DEF e
  <2>1. e.total_size = n
    BY <1>1
  <2> QED
    BY <1>1, <2>1
<1> QED
  BY <1>2

LEMMA AddSerial ==
  ASSUME Family, Serial, NEW p \in Writers, Add(p), ~raced'
  PROVE  Serial'
<1>1. /\ w[p].pc = "add" /\ oops = "no"
      /\ UNCHANGED <<alive, parent, curr, blob, path, task, q, r>>
  BY DEF Add, At, kernel, paddr
<1>2. \A o \in Writers : o # p => w[o] = idle
  BY <1>1, OnlyWriter DEF Serial
<1>3. PICK t, n : /\ w[p] = [pc |-> "add", task |-> t, total_size |-> n]
                  /\ \/ t = NULL
                     \/ /\ t \in alive \union {swapper}
                        /\ path = path_to(t) \o tasks(ptree_list) /\ n = bytes(tasks(ptree_list))
  BY <1>1, Places DEF Serial, WalkExact
<1>4. /\ alive \subseteq Tasks /\ NULL \notin alive /\ swapper \notin alive /\ NULL # swapper
      /\ ptree_list \in ListOf(alive)
  BY TasksAre DEF Family, Serial, WalkExact, Nodes, ListOf
<1>5. \A s : path_to(s)' = path_to(s)
  BY <1>1, PathKept
<1>6. w[p].task = t /\ w[p].total_size = n
  BY <1>3
<1>7. tasks(ptree_list) \in Seq(Tasks)
  <2>1. tasks(ptree_list) \in Seq(alive)
    BY <1>4, TasksAreSeq
  <2> QED
    BY <1>4, <2>1, SeqMonotonic
<1>8. CASE ~Readable(t)
  <2>1. oops' = "read of no process" /\ UNCHANGED <<ptree_list, w>>
    BY <1>6, <1>8 DEF Add, Fail
  <2>2. WalkExact'
    BY <1>1, <2>1, WalkKept DEF Serial
  <2>3. BlobExact'
    BY <1>1, <2>1, BlobKept DEF Serial
  <2>4. AnswersExact'
    BY <1>1, AnswersKept DEF Serial
  <2>5. Failures'
    BY <2>1 DEF Failures
  <2> QED
    BY <2>2, <2>3, <2>4, <2>5 DEF Serial
<1>9. CASE t \in alive
  <2> DEFINE node == [task |-> t, size |-> length(t), of |-> p]
  <2>0. PICK up : up = parent[t]
    OBVIOUS
  <2>1. /\ ptree_list' = list_add(node)
        /\ w' = [w EXCEPT ![p].task = up, ![p].total_size = @ + length(t)]
        /\ oops' = oops
    BY <1>4, <1>6, <1>9, <2>0 DEF Add, Readable
  <2>2. w'[p] = [pc |-> "add", task |-> up, total_size |-> n + length(t)]
        /\ \A o \in Writers : o # p => w'[o] = w[o]
    <3>1. w'[p] = [w[p] EXCEPT !.task = up, !.total_size = @ + length(t)]
      BY <2>1 DEF Serial, WalkExact
    <3>2. w'[p] = [pc |-> "add", task |-> up, total_size |-> n + length(t)]
      <4>1. PICK l : l = length(t)
        OBVIOUS
      <4>2. PICK s : s = w[p]
        OBVIOUS
      <4>3. s = [pc |-> "add", task |-> t, total_size |-> n]
        BY <1>3, <4>2
      <4>4. w'[p] = [s EXCEPT !.task = up, !.total_size = @ + l]
        BY <3>1, <4>1, <4>2
      <4>5. w'[p] = [pc |-> "add", task |-> up, total_size |-> n + l]
        BY <4>3, <4>4, Advanced
      <4> QED
        BY <4>1, <4>5
    <3>3. \A o \in Writers : o # p => w'[o] = w[o]
      BY <2>1 DEF Serial, WalkExact
    <3> QED
      BY <3>2, <3>3
  <2>3. w' = [w EXCEPT ![p] = w'[p]]
    <3> QED
      BY <1>3, <2>1 DEF Serial, WalkExact
  <2>4. length(t) \in Nat /\ t \in Tasks /\ up \in alive \union {swapper}
    BY <1>4, <1>9, <2>0, TasksAre DEF length, Family
  <2>5. node \in [task : alive, size : Nat, of : Writers] /\ node.task = t
    BY <1>9, <2>4
  <2>6. /\ ptree_list' \in ListOf(alive)
        /\ tasks(ptree_list') = <<t>> \o tasks(ptree_list)
    <3> HIDE DEF node
    <3> QED
      BY <1>4, <2>1, <2>5, TasksCons DEF list_add
  <2>7. path = path_to(up) \o (<<t>> \o tasks(ptree_list))
    <3>1. path = path_to(t) \o tasks(ptree_list)
      BY <1>3, <1>4, <1>9
    <3>2. /\ path_to(t) = Append(path_to(up), t)
          /\ path_to(up) \in Seq(Tasks)
      BY <2>0, <2>4, <1>4, PathTo, EmptySeq DEF Family
    <3>3. path_to(t) = path_to(up) \o <<t>> /\ <<t>> \in Seq(Tasks)
      BY <2>4, <3>2, AppendIsConcat
    <3> QED
      BY <1>7, <3>1, <3>2, <3>3, ConcatAssociative
  <2>8. n + length(t) = bytes(<<t>> \o tasks(ptree_list))
    <3>1. <<t>> \in Seq(Tasks) /\ bytes(<<t>>) = length(t)
      BY <2>4, BytesOne
    <3>2. n = bytes(tasks(ptree_list)) /\ n \in Nat
      BY <1>3, <1>4, <1>7, <1>9, BytesNat
    <3>3. bytes(<<t>> \o tasks(ptree_list)) = bytes(<<t>>) + bytes(tasks(ptree_list))
      BY <1>7, <3>1, BytesConcat
    <3> QED
      BY <2>4, <3>1, <3>2, <3>3
  <2>9. Written(w[p])'
    <3>1. /\ w'[p] = [pc |-> "add", task |-> up, total_size |-> n + length(t)]
          /\ up \in alive' \union {swapper}
          /\ path' = path_to(up)' \o tasks(ptree_list') /\ n + length(t) = bytes(tasks(ptree_list'))
      BY <1>1, <1>5, <2>2, <2>4, <2>6, <2>7, <2>8
    <3> QED
      BY <3>1 DEF Written
  <2>10. WalkExact'
    <3>1. w'[p] # idle
      BY <2>2 DEF idle
    <3>2. ptree_list' \in Seq(Nodes) /\ path' \in Seq(Tasks)
      BY <1>1, <2>6 DEF Nodes, ListOf, Serial, WalkExact
    <3> QED
      BY <1>1, <1>2, <2>3, <2>9, <3>1, <3>2, WalkStep DEF Serial
  <2>11. BlobExact'
    <3>1. \A o \in Writers : w'[o].pc # "data" /\ w[o].pc # "data"
      BY <1>1, <1>2, <2>2 DEF idle
    <3> QED
      BY <1>1, <3>1, BlobKept DEF Serial
  <2>12. AnswersExact'
    BY <1>1, AnswersKept DEF Serial
  <2> QED
    BY <2>1, <2>10, <2>11, <2>12 DEF Serial, Failures
<1>10. CASE t = swapper
  <2> DEFINE s == [pc |-> "print", total_size |-> n, text |-> <<>>, node |-> first(ptree_list)]
  <2>1. w' = [w EXCEPT ![p] = s] /\ UNCHANGED <<ptree_list, oops>>
    BY <1>3, <1>6, <1>10 DEF Add, Readable, first
  <2>2. w'[p] = s /\ (\A o \in Writers : o # p => w'[o] = w[o]) /\ w' = [w EXCEPT ![p] = w'[p]]
    BY <2>1 DEF Serial, WalkExact
  <2>3. path = <<>> \o tasks(ptree_list) /\ n = bytes(tasks(ptree_list))
    BY <1>3, <1>4, <1>10, PathTo DEF Family
  <2>4. path = tasks(ptree_list) /\ n = bytes(path)
    BY <1>7, <2>3, ConcatEmptySeq
  <2>5. Written(w[p])'
    <3>1. /\ w'[p] = [pc |-> "print", total_size |-> bytes(path'), text |-> <<>>, node |-> first(ptree_list')]
          /\ path' = <<>> \o tasks(ptree_list') /\ <<>> \in Seq(Tasks)
      BY <1>1, <2>1, <2>2, <2>3, <2>4
    <3> QED
      BY <3>1 DEF Written
  <2>6. WalkExact'
    <3>1. w'[p] # idle
      BY <2>2 DEF idle
    <3> HIDE DEF s
    <3> QED
      BY <1>1, <1>2, <2>1, <2>2, <2>5, <3>1, WalkStep DEF Serial, WalkExact
  <2>7. BlobExact'
    <3>1. \A o \in Writers : w'[o].pc # "data" /\ w[o].pc # "data"
      BY <1>1, <1>2, <2>2 DEF idle
    <3> QED
      BY <1>1, <3>1, BlobKept DEF Serial
  <2>8. AnswersExact'
    BY <1>1, AnswersKept DEF Serial
  <2> QED
    BY <2>1, <2>6, <2>7, <2>8 DEF Serial, Failures
<1> QED
  BY <1>3, <1>4, <1>8, <1>9, <1>10 DEF Readable

LEMMA Wrote ==
  ASSUME NEW t, NEW n, NEW m, NEW u, NEW k
  PROVE  [[pc |-> "print", total_size |-> n, text |-> t, node |-> m] EXCEPT !.text = u, !.node = k]
           = [pc |-> "print", total_size |-> n, text |-> u, node |-> k]
<1> DEFINE s == [pc |-> "print", total_size |-> n, text |-> t, node |-> m]
           e == [s EXCEPT !.text = u]
<1>1. e = [pc |-> "print", total_size |-> n, text |-> u, node |-> m]
  OBVIOUS
<1>2. [e EXCEPT !.node = k] = [pc |-> "print", total_size |-> n, text |-> u, node |-> k]
  <2> HIDE DEF e
  <2> QED
    BY <1>1
<1> QED
  BY <1>2

LEMMA LineSerial ==
  ASSUME Family, Serial, NEW p \in Writers, Line(p), ~raced'
  PROVE  Serial'
<1>1. /\ w[p].pc = "print" /\ oops = "no"
      /\ UNCHANGED <<alive, parent, curr, blob, path, task, q, r>>
  BY DEF Line, At, kernel, paddr
<1>2. \A o \in Writers : o # p => w[o] = idle
  BY <1>1, OnlyWriter DEF Serial
<1>3. PICK text \in Seq(Tasks) :
         /\ w[p] = [pc |-> "print", total_size |-> bytes(path), text |-> text, node |-> first(ptree_list)]
         /\ path = text \o tasks(ptree_list)
  BY <1>1, Places DEF Serial, WalkExact
<1>4. /\ alive \subseteq Tasks /\ NULL \notin alive
      /\ ptree_list \in Seq(Nodes) /\ ptree_list \in ListOf(alive) /\ path \in Seq(Tasks)
  BY TasksAre DEF Family, Serial, WalkExact, Nodes, ListOf
<1>5. w[p].node = first(ptree_list) /\ w[p].text = text /\ w[p].total_size = bytes(path)
  BY <1>3
<1>6. CASE ptree_list = <<>>
  <2> DEFINE s == [pc |-> "size", total_size |-> bytes(path), text |-> text]
  <2>1. first(ptree_list) = NoNode /\ path = text
    BY <1>3, <1>6, TasksEmpty, ConcatEmptySeq DEF first
  <2>2. w' = [w EXCEPT ![p] = s] /\ UNCHANGED <<ptree_list, oops>>
    BY <1>5, <2>1 DEF Line
  <2>3. w'[p] = s /\ (\A o \in Writers : o # p => w'[o] = w[o]) /\ w' = [w EXCEPT ![p] = w'[p]]
    BY <2>2 DEF Serial, WalkExact
  <2>4. Written(w[p])'
    <3>1. /\ w'[p] = [pc |-> "size", total_size |-> bytes(path'), text |-> path']
          /\ ptree_list' = <<>>
      BY <1>1, <1>6, <2>1, <2>2, <2>3
    <3> QED
      BY <3>1 DEF Written
  <2>5. WalkExact'
    <3>1. w'[p] # idle
      BY <2>3 DEF idle
    <3> HIDE DEF s
    <3> QED
      BY <1>1, <1>2, <1>4, <2>2, <2>3, <2>4, <3>1, WalkStep DEF Serial
  <2>6. BlobExact'
    <3>1. \A o \in Writers : w'[o].pc # "data" /\ w[o].pc # "data"
      BY <1>1, <1>2, <2>3 DEF idle
    <3> QED
      BY <1>1, <3>1, BlobKept DEF Serial
  <2>7. AnswersExact'
    BY <1>1, AnswersKept DEF Serial
  <2> QED
    BY <2>2, <2>5, <2>6, <2>7 DEF Serial, Failures
<1>7. CASE ptree_list # <<>>
  <2>1. PICK node, rest : node = Head(ptree_list) /\ rest = Tail(ptree_list)
    OBVIOUS
  <2>2. /\ node \in Nodes /\ rest \in Seq(Nodes) /\ rest \in ListOf(alive)
        /\ ptree_list = <<node>> \o rest
    BY <1>4, <1>7, <2>1, HeadTail DEF ListOf, Nodes
  <2>3. first(ptree_list) = node /\ node.task \in alive /\ node # NoNode
    BY <1>4, <1>7, <2>1, <2>2 DEF first, Nodes, NoNode
  <2>4. node.task \in Tasks /\ <<node.task>> \in Seq(Tasks) /\ tasks(rest) \in Seq(Tasks)
    <3>1. tasks(rest) \in Seq(alive)
      BY <2>2, TasksAreSeq
    <3> QED
      BY <1>4, <2>3, <3>1, SeqMonotonic
  <2>5. PICK text1 : text1 = Append(text, node.task)
    OBVIOUS
  <2>6. text1 \in Seq(Tasks) /\ path = text1 \o tasks(rest)
    <3>1. tasks(ptree_list) = <<node.task>> \o tasks(rest)
      BY <2>2, TasksCons DEF Nodes
    <3>2. text1 = text \o <<node.task>> /\ text1 \in Seq(Tasks)
      BY <2>4, <2>5, AppendIsConcat
    <3> QED
      BY <1>3, <2>4, <3>1, <3>2, ConcatAssociative
  <2>7. bytes(text1) <= bytes(path) + 1
    <3>1. bytes(path) = bytes(text1) + bytes(tasks(rest))
      BY <2>4, <2>6, BytesConcat
    <3>2. bytes(text1) \in Nat /\ bytes(tasks(rest)) \in Nat
      BY <2>4, <2>6, BytesNat
    <3> QED
      BY <3>1, <3>2
  <2>8. ~(bytes(text1) > bytes(path) + 1)
    <3>1. bytes(text1) \in Nat /\ bytes(path) \in Nat
      BY <1>4, <2>6, BytesNat
    <3> QED
      BY <2>7, <3>1
  <2>9. /\ place(ptree_list, node) = 1
        /\ list_del(ptree_list, 1) = rest
        /\ (IF 1 = Len(ptree_list) THEN NoNode ELSE ptree_list[2]) = first(rest)
    BY <1>4, <1>7, <2>1, DeleteFirst
  <2>10. /\ ptree_list' = rest /\ oops' = oops
         /\ w' = [w EXCEPT ![p].text = text1, ![p].node = first(rest)]
    <3>1. w[p].node = node /\ 1 # 0 /\ 1 + 1 = 2
      BY <1>5, <2>3
    <3>2. LET n == 1
          IN /\ ptree_list' = list_del(ptree_list, n)
             /\ w' = [w EXCEPT ![p].text = text1,
                               ![p].node = IF n = Len(ptree_list) THEN NoNode ELSE ptree_list[n + 1]]
             /\ oops' = oops
      BY <1>5, <2>3, <2>5, <2>8, <2>9, <3>1 DEF Line, Readable
    <3> QED
      BY <2>9, <3>1, <3>2
  <2>11. w'[p] = [pc |-> "print", total_size |-> bytes(path), text |-> text1, node |-> first(rest)]
    <3>1. w'[p] = [w[p] EXCEPT !.text = text1, !.node = first(rest)]
      BY <2>10 DEF Serial, WalkExact
    <3>2. PICK s, k, n, m : s = w[p] /\ k = first(rest) /\ n = bytes(path) /\ m = first(ptree_list)
      OBVIOUS
    <3>3. s = [pc |-> "print", total_size |-> n, text |-> text, node |-> m]
      BY <1>3, <3>2
    <3>4. w'[p] = [s EXCEPT !.text = text1, !.node = k]
      BY <3>1, <3>2
    <3>5. w'[p] = [pc |-> "print", total_size |-> n, text |-> text1, node |-> k]
      BY <3>3, <3>4, Wrote
    <3> QED
      BY <3>2, <3>5
  <2>12. (\A o \in Writers : o # p => w'[o] = w[o]) /\ w' = [w EXCEPT ![p] = w'[p]]
    BY <2>10 DEF Serial, WalkExact
  <2>13. Written(w[p])'
    <3>1. /\ w'[p] = [pc |-> "print", total_size |-> bytes(path'), text |-> text1,
                      node |-> first(ptree_list')]
          /\ path' = text1 \o tasks(ptree_list') /\ text1 \in Seq(Tasks)
      BY <1>1, <2>6, <2>10, <2>11
    <3> QED
      BY <3>1 DEF Written
  <2>14. WalkExact'
    <3>1. w'[p] # idle
      BY <2>11 DEF idle
    <3> QED
      BY <1>1, <1>2, <1>4, <2>2, <2>10, <2>12, <2>13, <3>1, WalkStep DEF Serial
  <2>15. BlobExact'
    <3>1. \A o \in Writers : w'[o].pc # "data" /\ w[o].pc # "data"
      BY <1>1, <1>2, <2>11, <2>12 DEF idle
    <3> QED
      BY <1>1, <3>1, BlobKept DEF Serial
  <2>16. AnswersExact'
    BY <1>1, AnswersKept DEF Serial
  <2> QED
    BY <2>10, <2>14, <2>15, <2>16 DEF Serial, Failures
<1> QED
  BY <1>6, <1>7

LEMMA PublishSizeSerial ==
  ASSUME Family, Serial, NEW p \in Writers, PublishSize(p), ~raced'
  PROVE  Serial'
<1>1. /\ w[p].pc = "size"
      /\ blob' = [blob EXCEPT !.size = w[p].total_size]
      /\ w' = [w EXCEPT ![p].pc = "data"]
      /\ ~within(r, {"data"})
      /\ UNCHANGED <<alive, parent, curr, ptree_list, path, task, q, r, oops>>
  BY DEF PublishSize, At, kernel, paddr
<1>2. \A o \in Writers : o # p => w[o] = idle
  BY <1>1, OnlyWriter DEF Serial
<1>3. w[p] = [pc |-> "size", total_size |-> bytes(path), text |-> path] /\ ptree_list = <<>>
  BY <1>1, Places DEF Serial, WalkExact
<1>4. /\ w'[p] = [pc |-> "data", total_size |-> bytes(path), text |-> path]
      /\ \A o \in Writers : o # p => w'[o] = w[o]
      /\ w' = [w EXCEPT ![p] = w'[p]]
  <2>1. PICK s, n : s = w[p] /\ n = bytes(path)
    OBVIOUS
  <2>2. PICK d : d = path
    OBVIOUS
  <2>3. s = [pc |-> "size", total_size |-> n, text |-> d]
    BY <1>3, <2>1, <2>2
  <2>4. w'[p] = [s EXCEPT !.pc = "data"] /\ \A o \in Writers : o # p => w'[o] = w[o]
    BY <1>1, <2>1 DEF Serial, WalkExact
  <2>5. w'[p] = [pc |-> "data", total_size |-> n, text |-> d]
    BY <2>3, <2>4
  <2>6. w' = [w EXCEPT ![p] = w'[p]]
    BY <1>1 DEF Serial, WalkExact
  <2> QED
    BY <2>1, <2>2, <2>4, <2>5, <2>6
<1>5. \A o \in BlobReaders : r[o] = idle
  <2>1. \A o \in BlobReaders : r[o].pc # "data"
    BY <1>1 DEF within, Serial, BlobExact
  <2> QED
    BY <2>1 DEF Serial, BlobExact
<1>6. blob'.size = bytes(path) /\ blob'.data = blob.data /\ \E n, d : blob' = [size |-> n, data |-> d]
  <2>1. PICK n, d : blob = [size |-> n, data |-> d]
    BY DEF Serial, BlobExact
  <2>2. w[p].total_size = bytes(path)
    BY <1>3
  <2>3. blob' = [size |-> bytes(path), data |-> d]
    BY <1>1, <2>1, <2>2
  <2> QED
    BY <2>1, <2>3
<1>7. Written(w[p])'
  <2>1. w'[p] = [pc |-> "data", total_size |-> bytes(path'), text |-> path'] /\ ptree_list' = <<>>
    BY <1>1, <1>3, <1>4
  <2> QED
    BY <2>1 DEF Written
<1>8. WalkExact'
  <2>1. w'[p] # idle
    BY <1>4 DEF idle
  <2>2. path' \in Seq(Tasks) /\ ptree_list' \in Seq(Nodes)
    BY <1>1 DEF Serial, WalkExact
  <2> QED
    BY <1>1, <1>2, <1>4, <1>7, <2>1, <2>2, WalkStep DEF Serial
<1>9. BlobExact'
  <2>1. r' = [o \in BlobReaders |-> r'[o]] /\ blob'.data \in Seq(Tasks)
    BY <1>1, <1>6 DEF Serial, BlobExact
  <2>2. \E o \in Writers : w'[o].pc = "data"
    BY <1>4
  <2>3. blob'.size = bytes(path')
    BY <1>1, <1>6
  <2> QED
    BY <1>1, <1>5, <1>6, <2>1, <2>2, <2>3 DEF BlobExact
<1>10. AnswersExact'
  BY <1>1, AnswersKept DEF Serial
<1> QED
  BY <1>1, <1>8, <1>9, <1>10 DEF Serial, Failures

LEMMA PublishDataSerial ==
  ASSUME Family, Serial, NEW p \in Writers, PublishData(p), ~raced'
  PROVE  Serial'
<1>1. /\ w[p].pc = "data"
      /\ blob' = [blob EXCEPT !.data = w[p].text]
      /\ w' = [w EXCEPT ![p] = idle]
      /\ UNCHANGED <<alive, parent, curr, ptree_list, path, task, q, r, oops>>
  BY DEF PublishData, At, kernel, paddr
<1>2. \A o \in Writers : o # p => w[o] = idle
  BY <1>1, OnlyWriter DEF Serial
<1>3. w[p] = [pc |-> "data", total_size |-> bytes(path), text |-> path] /\ ptree_list = <<>>
  BY <1>1, Places DEF Serial, WalkExact
<1>4. w'[p] = idle /\ (\A o \in Writers : o # p => w'[o] = w[o]) /\ w' = [w EXCEPT ![p] = w'[p]]
  BY <1>1 DEF Serial, WalkExact
<1>5. \A o \in BlobReaders : r[o] = idle
  BY <1>1 DEF Serial, BlobExact
<1>6. blob' = [size |-> bytes(path), data |-> path]
  <2>1. PICK n, d : blob = [size |-> n, data |-> d]
    BY DEF Serial, BlobExact
  <2>2. blob.size = bytes(path) /\ w[p].text = path
    BY <1>1, <1>3 DEF Serial, BlobExact
  <2> QED
    BY <1>1, <2>1, <2>2
<1>7. path' \in Seq(Tasks) /\ ptree_list' \in Seq(Nodes) /\ blob'.data = path' /\ ptree_list' = <<>>
  BY <1>1, <1>3, <1>6 DEF Serial, WalkExact
<1>8. WalkExact'
  <2>1. Written(w[p])'
    BY <1>4 DEF Written
  <2> QED
    BY <1>1, <1>2, <1>4, <1>7, <2>1, WalkStep DEF Serial
<1>9. BlobExact'
  <2>1. \A o \in Writers : w'[o].pc # "data"
    BY <1>2, <1>4 DEF idle
  <2>2. blob'.size = bytes(blob'.data) /\ \E n, d : blob' = [size |-> n, data |-> d]
    BY <1>6
  <2>3. r' = [o \in BlobReaders |-> r'[o]] /\ blob'.data \in Seq(Tasks)
    BY <1>1, <1>7 DEF Serial, BlobExact
  <2> QED
    BY <1>1, <1>5, <2>1, <2>2, <2>3 DEF BlobExact
<1>10. AnswersExact'
  BY <1>1, AnswersKept DEF Serial
<1> QED
  BY <1>1, <1>8, <1>9, <1>10 DEF Serial, Failures

-----------------------------------------------------------------------------
(* The steps of the readers, and of the kernel.                            *)

LEMMA ReadSizeSerial ==
  ASSUME Family, Serial, NEW p \in BlobReaders, ReadSize(p), ~raced'
  PROVE  Serial'
<1>1. /\ r' = [r EXCEPT ![p] = [pc |-> "data", size |-> blob.size, due |-> blob.data]]
      /\ ~within(w, {"data"})
      /\ UNCHANGED <<alive, parent, curr, ptree_list, blob, w, path, task, q, oops>>
  BY DEF ReadSize, kernel, ptree, paddr
<1>2. \A o \in Writers : w[o].pc # "data"
  BY <1>1 DEF within, Serial, WalkExact
<1>3. WalkExact'
  BY <1>1, WalkKept DEF Serial
<1>4. BlobExact'
  <2>1. blob.size = bytes(blob.data)
    BY <1>2 DEF Serial, BlobExact
  <2>2. /\ r'[p] = [pc |-> "data", size |-> bytes(blob.data), due |-> blob.data]
        /\ \A o \in BlobReaders : o # p => r'[o] = r[o]
        /\ r' = [o \in BlobReaders |-> r'[o]]
    BY <1>1, <2>1 DEF Serial, BlobExact
  <2> QED
    BY <1>1, <1>2, <2>1, <2>2 DEF Serial, BlobExact
<1>5. AnswersExact'
  BY <1>1, AnswersKept DEF Serial
<1> QED
  BY <1>1, <1>3, <1>4, <1>5 DEF Serial, Failures

LEMMA ReadDataSerial ==
  ASSUME Family, Serial, NEW p \in BlobReaders, ReadData(p), ~raced'
  PROVE  Serial'
<1>1. /\ r[p].pc = "data" /\ r' = [r EXCEPT ![p] = idle]
      /\ UNCHANGED <<alive, parent, curr, ptree_list, blob, w, path, task, q>>
  BY DEF ReadData, At, kernel, ptree, paddr
<1>2. oops' = oops
  <2>1. r[p].size = bytes(blob.data)
    BY <1>1 DEF Serial, BlobExact, idle
  <2>2. bytes(blob.data) \in Nat
    BY BytesNat DEF Serial, BlobExact
  <2>3. ~(r[p].size > bytes(blob.data))
    BY <2>1, <2>2
  <2> QED
    BY <2>3 DEF ReadData
<1>3. WalkExact'
  BY <1>1, WalkKept DEF Serial
<1>4. BlobExact'
  <2>1. /\ r'[p] = idle
        /\ \A o \in BlobReaders : o # p => r'[o] = r[o]
        /\ r' = [o \in BlobReaders |-> r'[o]]
    BY <1>1 DEF Serial, BlobExact
  <2> QED
    BY <1>1, <2>1 DEF Serial, BlobExact
<1>5. AnswersExact'
  BY <1>1, AnswersKept DEF Serial
<1> QED
  BY <1>2, <1>3, <1>4, <1>5 DEF Serial, Failures

LEMMA FindTaskSerial ==
  ASSUME Family, Serial, NEW p \in PaddrReaders, FindTask(p), ~raced'
  PROVE  Serial'
<1>1. PICK pid \in Tasks, va \in Addresses :
         /\ task' = pid_task(pid)
         /\ q' = [q EXCEPT ![p] = [pc |-> "mm", pid |-> pid, va |-> va]]
  BY DEF FindTask
<1>2. /\ ~within(q, {"mm"})
      /\ UNCHANGED <<alive, parent, curr, ptree_list, blob, w, path, r, oops>>
  BY DEF FindTask, kernel, ptree
<1>3. \A o \in PaddrReaders : q[o].pc # "mm"
  BY <1>2 DEF within, Serial, AnswersExact
<1>4. /\ q'[p] = [pc |-> "mm", pid |-> pid, va |-> va]
      /\ \A o \in PaddrReaders : o # p => q'[o] = q[o]
      /\ q' = [o \in PaddrReaders |-> q'[o]]
  BY <1>1 DEF Serial, AnswersExact
<1>5. AnswersExact'
  <2>1. Answered(q[p])'
    BY <1>1, <1>2, <1>4 DEF Answered, pid_task
  <2>2. ASSUME NEW o \in PaddrReaders, o # p PROVE Answered(q[o])'
    <3>1. Answered(q[o]) /\ q[o].pc # "mm" /\ q'[o] = q[o]
      BY <1>3, <1>4, <2>2 DEF Serial, AnswersExact
    <3> QED
      BY <3>1 DEF Answered
  <2>3. \A o, u \in PaddrReaders : q'[o].pc = "mm" /\ q'[u].pc = "mm" => o = u
    BY <1>3, <1>4
  <2>4. \A o \in PaddrReaders : Answered(q[o])'
    BY <2>1, <2>2
  <2> QED
    BY <1>4, <2>3, <2>4 DEF AnswersExact
<1>6. WalkExact'
  BY <1>2, WalkKept DEF Serial
<1>7. BlobExact'
  BY <1>2, BlobKept DEF Serial
<1> QED
  BY <1>2, <1>5, <1>6, <1>7 DEF Serial, Failures

LEMMA TranslateSerial ==
  ASSUME Family, Serial, NEW p \in PaddrReaders, Translate(p), ~raced'
  PROVE  Serial'
<1>1. /\ q[p].pc = "mm" /\ oops = "no"
      /\ UNCHANGED <<alive, parent, curr, ptree_list, blob, w, path, r, task>>
  BY DEF Translate, At, kernel, ptree
<1>2. PICK pid \in Tasks, va \in Addresses :
         /\ q[p] = [pc |-> "mm", pid |-> pid, va |-> va]
         /\ task = NULL \/ (task = pid /\ pid \in alive)
  <2>1. Answered(q[p])
    BY DEF Serial, AnswersExact
  <2>2. q[p] # idle /\ \A pid, va : q[p] # [pc |-> "copy", pid |-> pid, va |-> va, pa |-> answer(pid, va)]
    BY <1>1 DEF idle
  <2> QED
    BY <2>1, <2>2 DEF Answered
<1>3. WalkExact'
  BY <1>1, WalkKept DEF Serial
<1>4. BlobExact'
  BY <1>1, BlobKept DEF Serial
<1>5. CASE UNCHANGED q /\ oops' \in {"read of no process", "walk of an unmapped page"}
  <2>1. AnswersExact'
    BY <1>1, <1>5, AnswersKept DEF Serial
  <2>2. Failures'
    BY <1>5 DEF Failures
  <2> QED
    BY <1>3, <1>4, <2>1, <2>2 DEF Serial
<1>6. CASE ~(UNCHANGED q /\ oops' \in {"read of no process", "walk of an unmapped page"})
  <2> DEFINE page == va \div PAGE_SIZE
  <2>1. q[p].va = va /\ q[p].pid = pid
    BY <1>2
  <2>2. /\ Readable(task) /\ page \in DOMAIN Frames[task] /\ oops' = oops
        /\ q' = [q EXCEPT ![p] = [pc |-> "copy", pid |-> q[p].pid, va |-> q[p].va,
                                  pa |-> physical(Frames[task][page], q[p].va)]]
    BY <1>6, <2>1 DEF Translate, Fail
  <2>3. task = pid /\ pid \in alive
    <3>1. ~Readable(NULL)
      BY TasksAre DEF Readable, Family
    <3> QED
      BY <1>2, <2>2, <3>1
  <2>4. q'[p] = [pc |-> "copy", pid |-> pid, va |-> va, pa |-> answer(pid, va)]
    BY <2>1, <2>2, <2>3 DEF Serial, AnswersExact, answer
  <2>5. (\A o \in PaddrReaders : o # p => q'[o] = q[o]) /\ q' = [o \in PaddrReaders |-> q'[o]]
    BY <2>2 DEF Serial, AnswersExact
  <2>6. \A o \in PaddrReaders : Answered(q[o])'
    <3>1. Answered(q[p])'
      BY <2>2, <2>3, <2>4 DEF Answered
    <3>2. ASSUME NEW o \in PaddrReaders, o # p PROVE Answered(q[o])'
      <4>1. Answered(q[o]) /\ q'[o] = q[o]
        BY <2>5, <3>2 DEF Serial, AnswersExact
      <4> QED
        BY <1>1, <4>1 DEF Answered
    <3> QED
      BY <3>1, <3>2
  <2>7. \A o, u \in PaddrReaders : q'[o].pc = "mm" /\ q'[u].pc = "mm" => o = u
    BY <2>4, <2>5 DEF Serial, AnswersExact
  <2>8. AnswersExact'
    BY <2>5, <2>6, <2>7 DEF AnswersExact
  <2> QED
    BY <1>3, <1>4, <2>2, <2>8 DEF Serial, Failures
<1> QED
  BY <1>5, <1>6

LEMMA CopyOutSerial ==
  ASSUME Family, Serial, NEW p \in PaddrReaders, CopyOut(p), ~raced'
  PROVE  Serial'
<1>1. /\ q' = [q EXCEPT ![p] = idle]
      /\ UNCHANGED <<alive, parent, curr, ptree_list, blob, w, path, r, task, oops>>
  BY DEF CopyOut, kernel, ptree
<1>2. /\ q'[p] = idle
      /\ \A o \in PaddrReaders : o # p => q'[o] = q[o]
      /\ q' = [o \in PaddrReaders |-> q'[o]]
  BY <1>1 DEF Serial, AnswersExact
<1>3. \A o \in PaddrReaders : Answered(q[o])'
  <2>1. ASSUME NEW o \in PaddrReaders, o # p PROVE Answered(q[o])'
    <3>1. Answered(q[o]) /\ q'[o] = q[o]
      BY <1>2, <2>1 DEF Serial, AnswersExact
    <3> QED
      BY <1>1, <3>1 DEF Answered
  <2>2. Answered(q[p])'
    BY <1>2 DEF Answered
  <2> QED
    BY <2>1, <2>2
<1>4. AnswersExact'
  BY <1>2, <1>3 DEF Serial, AnswersExact, idle
<1>5. WalkExact'
  BY <1>1, WalkKept DEF Serial
<1>6. BlobExact'
  BY <1>1, BlobKept DEF Serial
<1> QED
  BY <1>1, <1>4, <1>5, <1>6 DEF Serial, Failures

\* Who exits while nobody walks is in no list.
LEMMA ExitTaskSerial ==
  ASSUME Family, Serial, NEW t \in Tasks, ExitTask(t), ~raced'
  PROVE  Serial'
<1>1. /\ ~within(w, inWalk) /\ ~within(q, {"mm"})
      /\ UNCHANGED <<parent, curr, ptree_list, blob, w, path, r, q, task, oops>>
  BY DEF ExitTask, ptree, paddr
<1>2. \A p \in Writers : w[p] = idle
  <2>1. \A p \in Writers : w[p].pc \notin inWalk
    BY <1>1 DEF within, Serial, WalkExact
  <2> QED
    BY <2>1, WriterIdle DEF Serial, WalkExact
<1>3. ptree_list = <<>> /\ blob.data = path
  BY <1>2 DEF Serial, WalkExact
<1>4. WalkExact'
  <2>1. ptree_list' \in Seq(Nodes')
    BY <1>1, <1>3
  <2>2. \A p \in Writers : Written(w[p])'
    BY <1>1, <1>2 DEF Written
  <2> QED
    BY <1>1, <1>2, <1>3, <2>1, <2>2 DEF Serial, WalkExact
<1>5. BlobExact'
  BY <1>1, BlobKept DEF Serial
<1>6. AnswersExact'
  <2>1. \A p \in PaddrReaders : q[p].pc # "mm"
    BY <1>1 DEF within, Serial, AnswersExact
  <2>2. ASSUME NEW p \in PaddrReaders PROVE Answered(q[p])'
    <3>1. Answered(q[p]) /\ q'[p] = q[p] /\ q[p].pc # "mm"
      BY <1>1, <2>1 DEF Serial, AnswersExact
    <3> QED
      BY <3>1 DEF Answered
  <2> QED
    BY <1>1, <2>1, <2>2 DEF Serial, AnswersExact
<1> QED
  BY <1>1, <1>4, <1>5, <1>6 DEF Serial, Failures

LEMMA FamilyKept ==
  ASSUME Family, NEW t \in Tasks, ExitTask(t)
  PROVE  Family'
<1>1. /\ alive' = alive \ {t} /\ parent' = parent
      /\ \A u \in alive : parent[u] # t
  BY DEF ExitTask
<1> QED
  BY <1>1 DEF Family

-----------------------------------------------------------------------------
(* The theorems.                                                           *)

(* The inductive invariant holds.                                          *)
THEOREM KernelLabInvariant == Spec => []Inv
<1>1. Init => Inv
  <2>1. Init => Family
    BY KernelLabAssumption DEF Init, Family
  <2> QED
    BY <2>1, SerialInit DEF Inv
<1>2. Inv /\ [Next]_vars => Inv'
  <2>1. SUFFICES ASSUME Inv, [Next]_vars PROVE Inv'
    OBVIOUS
  <2>2. CASE UNCHANGED vars
    <3>1. UNCHANGED <<alive, parent, curr, ptree_list, blob, w, path, task, q, r, oops, raced>>
      BY <2>2 DEF vars, kernel, ptree, paddr
    <3>2. Family'
      BY <2>1, <3>1 DEF Inv, Family
    <3>3. ASSUME ~raced' PROVE Serial'
      <4>1. Serial
        BY <2>1, <3>1, <3>3 DEF Inv
      <4> QED
        BY <3>1, <4>1, WalkKept, BlobKept, AnswersKept DEF Serial, Failures
    <3> QED
      BY <3>2, <3>3 DEF Inv
  <2>3. CASE Next
    <3>1. Family'
      <4>1. CASE \E t \in Tasks : ExitTask(t)
        BY <2>1, <4>1, FamilyKept DEF Inv
      <4>2. CASE ~\E t \in Tasks : ExitTask(t)
        <5>1. UNCHANGED <<alive, parent>>
          BY <2>3, <4>2 DEF Next, WriteStep, Lookup, Start, Add, Line, PublishSize, PublishData,
             ReadSize, ReadData, FindTask, Translate, CopyOut, kernel
        <5> QED
          BY <2>1, <5>1 DEF Inv, Family
      <4> QED
        BY <4>1, <4>2
    <3>2. ASSUME ~raced' PROVE Serial'
      <4>1. ~raced
        BY <2>3, <3>2 DEF Next, WriteStep, Lookup, Start, Add, Line, PublishSize, PublishData,
           ReadSize, ReadData, FindTask, Translate, CopyOut, ExitTask
      <4>2. Family /\ Serial
        BY <2>1, <4>1 DEF Inv
      <4>3. ASSUME NEW p \in Writers, WriteStep(p) PROVE Serial'
        BY <3>2, <4>2, <4>3, LookupSerial, StartSerial, AddSerial, LineSerial,
           PublishSizeSerial, PublishDataSerial DEF WriteStep
      <4>4. ASSUME NEW p \in BlobReaders, ReadSize(p) \/ ReadData(p) PROVE Serial'
        BY <3>2, <4>2, <4>4, ReadSizeSerial, ReadDataSerial
      <4>5. ASSUME NEW p \in PaddrReaders, FindTask(p) \/ Translate(p) \/ CopyOut(p) PROVE Serial'
        BY <3>2, <4>2, <4>5, FindTaskSerial, TranslateSerial, CopyOutSerial
      <4>6. ASSUME NEW t \in Tasks, ExitTask(t) PROVE Serial'
        BY <3>2, <4>2, <4>6, ExitTaskSerial
      <4> QED
        BY <2>3, <4>3, <4>4, <4>5, <4>6 DEF Next
    <3> QED
      BY <3>1, <3>2 DEF Inv
  <2> QED
    BY <2>1, <2>2, <2>3
<1> QED
  BY <1>1, <1>2, PTL DEF Spec

(* A call that overlaps no other answers for its own process: the blob is  *)
(* the path to the process last written, the list is empty between calls,  *)
(* and the kernel fails for no other reason than a pid that is no process  *)
(* or a page that is not mapped.                                           *)
THEOREM KernelLabSerialCallsExact == Spec => []SerialCallsExact
<1>1. Inv => SerialCallsExact
  <2>1. SUFFICES ASSUME Serial
                 PROVE  /\ answersOwnProcess
                        /\ oops \in {"no", "read of no process", "walk of an unmapped page"}
                        /\ oops = "no" /\ (\A p \in Writers : w[p] = idle) =>
                             /\ blob = [size |-> bytes(path), data |-> path]
                             /\ ptree_list = <<>>
                             /\ \A p \in BlobReaders : r[p].pc = "data" =>
                                  r[p].size = bytes(blob.data) /\ r[p].due = blob.data
    BY DEF Inv, SerialCallsExact
  <2>2. answersOwnProcess
    <3>1. SUFFICES ASSUME NEW p \in PaddrReaders, q[p].pc = "copy"
                   PROVE  q[p].pa = physical(Frames[q[p].pid][q[p].va \div PAGE_SIZE], q[p].va)
      BY DEF answersOwnProcess, physical
    <3>2. Answered(q[p])
      BY <2>1 DEF Serial, AnswersExact
    <3>3. q[p] # idle /\ \A pid, va : q[p] # [pc |-> "mm", pid |-> pid, va |-> va]
      BY <3>1 DEF idle
    <3>4. PICK pid, va : q[p] = [pc |-> "copy", pid |-> pid, va |-> va, pa |-> answer(pid, va)]
      BY <3>2, <3>3 DEF Answered
    <3>5. q[p].pa = answer(q[p].pid, q[p].va)
      BY <3>4
    <3> QED
      BY <3>5 DEF answer
  <2>3. ASSUME \A p \in Writers : w[p] = idle
        PROVE  blob = [size |-> bytes(path), data |-> path] /\ ptree_list = <<>>
    <3>1. ptree_list = <<>> /\ blob.data = path
      BY <2>1, <2>3 DEF Serial, WalkExact
    <3>2. \A p \in Writers : w[p].pc # "data"
      BY <2>3 DEF idle
    <3>3. blob.size = bytes(path)
      BY <2>1, <3>1, <3>2 DEF Serial, BlobExact
    <3>4. PICK n, d : blob = [size |-> n, data |-> d]
      BY <2>1 DEF Serial, BlobExact
    <3> QED
      BY <3>1, <3>3, <3>4
  <2>4. \A p \in BlobReaders : r[p].pc = "data" =>
           r[p].size = bytes(blob.data) /\ r[p].due = blob.data
    BY <2>1 DEF Serial, BlobExact, idle
  <2>5. oops \in {"no", "read of no process", "walk of an unmapped page"}
    BY <2>1 DEF Serial, Failures
  <2> QED
    BY <2>2, <2>3, <2>4, <2>5
<1> QED
  BY <1>1, KernelLabInvariant, PTL
=============================================================================
