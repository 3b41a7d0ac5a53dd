--------------------------- MODULE Control_proofs ---------------------------
(***************************************************************************)
(* Theorems about ControlFile: although the monitor guesses which lines of *)
(* the control file are new, and applies some of them again, the pool is   *)
(* what the lines ask for once the file has been gone through, as long as  *)
(* the guess is not too high.                                              *)
(***************************************************************************)
EXTENDS ControlFile, FiniteSetTheorems, SequenceTheorems, TLAPS

-----------------------------------------------------------------------------
(***************************************************************************)
(* What the lines of a file say of a UPF.  The last one that names it      *)
(* counts.                                                                 *)
(***************************************************************************)
\* The pool is never full: there are no more UPFs than max_backends.
RoomForAll == IsFiniteSet(Upfs) /\ Cardinality(Upfs) <= MaxBackends

Names(l, u) == Parse[l.text] = u

Adds(l, u) == l.action = "add" /\ Names(l, u)

Silent(f, u, lo, hi) == \A i \in lo .. hi : ~ Names(f[i], u)

Added(f, u, lo, hi) ==
    \E i \in lo .. hi : Adds(f[i], u) /\ Silent(f, u, i + 1, hi)

\* u is wanted after the first n lines of f.
Wanted(f, u, n) == Added(f, u, 1, n) \/ (Contains(InitialPool, u) /\ Silent(f, u, 1, n))

\* Lines k + 1 .. j of f were applied to a pool that had followed f up to p.
Replayed(f, u, k, j, p) ==
    Added(f, u, k + 1, j) \/ (Wanted(f, u, p) /\ Silent(f, u, k + 1, j))

-----------------------------------------------------------------------------
(***************************************************************************)
(* The inductive invariant                                                 *)
(***************************************************************************)
Distinct(s) == \A i, j \in 1 .. Len(s) : s[i] = s[j] => i = j

\* The size of the first n lines of a file.
SizeOf(f, n) == IF n = 0 THEN 0 ELSE f[n].end

\* No line is empty.
FileInv == \A i, j \in 0 .. Len(file) : i < j => SizeOf(file, i) < SizeOf(file, j)

\* A size the file had when it had n lines, or fewer.
Measured(size, n) ==
    n \in 0 .. Len(file) /\ \E m \in 0 .. n : size = SizeOf(file, m)

\* The pool names no UPF twice.
PoolInv == Distinct(backends)

Skipped == last_size \div 20

\* The pool has followed the first p lines.
Followed(p) ==
    Measured(last_size, p) /\ \A u \in Upfs : IsBackend(u) <=> Wanted(file, u, p)

\* The monitor read r lines and has applied those up to j again, or for the
\* first time.
Applying(p, j, r) ==
    /\ Measured(last_size, p) /\ Measured(current_size, r)
    /\ Skipped <= j /\ j <= r /\ p <= r
    /\ Len(lines) = r - j /\ \A i \in 1 .. r - j : lines[i] = file[j + i]
    /\ \A u \in Upfs : IsBackend(u) <=> Replayed(file, u, Skipped, j, p)

\* It is about a monitor that missed nothing, and whose guess is not too high.
MonitorFollows ==
    /\ step \in {"tick", "read"} => \E p \in 0 .. Len(file) : Followed(p)
    /\ step = "read" => Measured(current_size, Len(file))
    /\ step = "apply" => \E p, j, r \in 0 .. Len(file) : Applying(p, j, r)

MonitorInv == ~ missed /\ GuessFits => MonitorFollows

-----------------------------------------------------------------------------
(***************************************************************************)
(* Lemmas about the lines                                                  *)
(***************************************************************************)
LEMMA SilentNext ==
    ASSUME NEW f, NEW u, NEW lo \in Int, NEW hi \in Int, lo <= hi + 1
    PROVE  Silent(f, u, lo, hi + 1) <=> Silent(f, u, lo, hi) /\ ~ Names(f[hi + 1], u)
<1>1. \A i \in lo .. hi + 1 : i \in lo .. hi \/ i = hi + 1
  OBVIOUS
<1>2. hi + 1 \in lo .. hi + 1 /\ \A i \in lo .. hi : i \in lo .. hi + 1
  OBVIOUS
<1> QED BY <1>1, <1>2 DEF Silent

LEMMA AddedNext ==
    ASSUME NEW f, NEW u, NEW lo \in Int, NEW hi \in Int, lo <= hi + 1
    PROVE  Added(f, u, lo, hi + 1) <=>
              Adds(f[hi + 1], u) \/ (Added(f, u, lo, hi) /\ ~ Names(f[hi + 1], u))
<1>1. ASSUME Added(f, u, lo, hi + 1)
      PROVE  Adds(f[hi + 1], u) \/ (Added(f, u, lo, hi) /\ ~ Names(f[hi + 1], u))
  <2> PICK i \in lo .. hi + 1 : Adds(f[i], u) /\ Silent(f, u, i + 1, hi + 1)
    BY <1>1 DEF Added
  <2>1. CASE i = hi + 1
    BY <2>1
  <2>2. CASE i # hi + 1
    <3>1. i \in lo .. hi /\ i + 1 \in Int /\ i + 1 <= hi + 1
      BY <2>2
    <3>2. Silent(f, u, i + 1, hi) /\ ~ Names(f[hi + 1], u)
      BY <3>1, SilentNext
    <3> QED BY <3>1, <3>2 DEF Added
  <2> QED BY <2>1, <2>2
<1>2. ASSUME Adds(f[hi + 1], u) PROVE Added(f, u, lo, hi + 1)
  <2>1. Silent(f, u, hi + 1 + 1, hi + 1) /\ hi + 1 \in lo .. hi + 1
    BY DEF Silent
  <2> QED BY <1>2, <2>1 DEF Added
<1>3. ASSUME Added(f, u, lo, hi), ~ Names(f[hi + 1], u) PROVE Added(f, u, lo, hi + 1)
  <2> PICK i \in lo .. hi : Adds(f[i], u) /\ Silent(f, u, i + 1, hi)
    BY <1>3 DEF Added
  <2>1. i \in lo .. hi + 1 /\ i + 1 \in Int /\ i + 1 <= hi + 1
    OBVIOUS
  <2>2. Silent(f, u, i + 1, hi + 1)
    BY <1>3, <2>1, SilentNext
  <2> QED BY <2>1, <2>2 DEF Added
<1> QED BY <1>1, <1>2, <1>3

\* What n lines say is what the last of them say, and where these are silent
\* what the first k say.
LEMMA WantedSplit ==
    ASSUME NEW f, NEW u, NEW k \in Nat, NEW n \in Nat, k <= n
    PROVE  Wanted(f, u, n) <=>
              Added(f, u, k + 1, n) \/ (Wanted(f, u, k) /\ Silent(f, u, k + 1, n))
<1>1. Silent(f, u, 1, n) <=> Silent(f, u, 1, k) /\ Silent(f, u, k + 1, n)
  <2>1. \A i \in 1 .. n : i \in 1 .. k \/ i \in k + 1 .. n
    OBVIOUS
  <2>2. (\A i \in 1 .. k : i \in 1 .. n) /\ \A i \in k + 1 .. n : i \in 1 .. n
    OBVIOUS
  <2> QED BY <2>1, <2>2 DEF Silent
<1>2. Added(f, u, k + 1, n) => Added(f, u, 1, n)
  BY DEF Added
<1>3. ASSUME Added(f, u, 1, k), Silent(f, u, k + 1, n) PROVE Added(f, u, 1, n)
  <2> PICK i \in 1 .. k : Adds(f[i], u) /\ Silent(f, u, i + 1, k)
    BY <1>3 DEF Added
  <2>1. i \in 1 .. n /\ \A j \in i + 1 .. n : j \in i + 1 .. k \/ j \in k + 1 .. n
    OBVIOUS
  <2>2. Silent(f, u, i + 1, n)
    BY <1>3, <2>1 DEF Silent
  <2> QED BY <2>1, <2>2 DEF Added
<1>4. ASSUME Added(f, u, 1, n)
      PROVE  Added(f, u, k + 1, n) \/ (Added(f, u, 1, k) /\ Silent(f, u, k + 1, n))
  <2> PICK i \in 1 .. n : Adds(f[i], u) /\ Silent(f, u, i + 1, n)
    BY <1>4 DEF Added
  <2>1. CASE i \in k + 1 .. n
    BY <2>1 DEF Added
  <2>2. CASE i \in 1 .. k
    <3>1. /\ \A j \in i + 1 .. k : j \in i + 1 .. n
          /\ \A j \in k + 1 .. n : j \in i + 1 .. n
      BY <2>2
    <3>2. Silent(f, u, i + 1, k) /\ Silent(f, u, k + 1, n)
      BY <3>1 DEF Silent
    <3> QED BY <2>2, <3>2 DEF Added
  <2> QED BY <2>1, <2>2
<1> QED BY <1>1, <1>2, <1>3, <1>4 DEF Wanted

\* Lines that are applied again end where they ended the first time.
LEMMA ReplayDone ==
    ASSUME NEW f, NEW u, NEW k \in Nat, NEW p \in Nat, NEW r \in Nat, k <= p, p <= r
    PROVE  Replayed(f, u, k, r, p) <=> Wanted(f, u, r)
<1>1. Wanted(f, u, r) <=>
          Added(f, u, k + 1, r) \/ (Wanted(f, u, k) /\ Silent(f, u, k + 1, r))
  BY WantedSplit
<1>2. Wanted(f, u, p) <=>
          Added(f, u, k + 1, p) \/ (Wanted(f, u, k) /\ Silent(f, u, k + 1, p))
  BY WantedSplit
<1>3. ASSUME Silent(f, u, k + 1, r)
      PROVE  Silent(f, u, k + 1, p) /\ ~ Added(f, u, k + 1, p)
  <2>1. \A i \in k + 1 .. p : i \in k + 1 .. r
    OBVIOUS
  <2>2. \A i \in k + 1 .. p : ~ Adds(f[i], u)
    BY <1>3, <2>1 DEF Silent, Adds
  <2> QED BY <1>3, <2>1, <2>2 DEF Silent, Added
<1> QED BY <1>1, <1>2, <1>3 DEF Replayed

\* A line more leaves what the others say as it is.
LEMMA LineMore ==
    ASSUME NEW f \in Seq(Line), NEW c \in Line, NEW g, g = Append(f, c)
    PROVE  /\ g \in Seq(Line) /\ Len(g) = Len(f) + 1 /\ g[Len(f) + 1] = c
           /\ \A i \in 1 .. Len(f) : g[i] = f[i]
BY AppendProperties

\* What lines lo to hi say depends on no others.
LEMMA SameLines ==
    ASSUME NEW f, NEW g, NEW u, NEW n \in Nat, \A i \in 1 .. n : g[i] = f[i],
           NEW lo \in Nat \ {0}, NEW hi \in 0 .. n
    PROVE  /\ Silent(g, u, lo, hi) <=> Silent(f, u, lo, hi)
           /\ Added(g, u, lo, hi) <=> Added(f, u, lo, hi)
<1>1. \A i \in lo .. hi : g[i] = f[i]
  OBVIOUS
<1>2. \A i \in lo .. hi : Silent(g, u, i + 1, hi) <=> Silent(f, u, i + 1, hi)
  <2> TAKE i \in lo .. hi
  <2>1. \A j \in i + 1 .. hi : g[j] = f[j]
    OBVIOUS
  <2> QED BY <2>1 DEF Silent
<1> QED BY <1>1, <1>2 DEF Silent, Added

LEMMA SameWanted ==
    ASSUME NEW f, NEW g, NEW u, NEW n \in Nat, \A i \in 1 .. n : g[i] = f[i],
           NEW m \in 0 .. n
    PROVE  Wanted(g, u, m) <=> Wanted(f, u, m)
<1>1. 1 \in Nat \ {0}
  OBVIOUS
<1>2. /\ Silent(g, u, 1, m) <=> Silent(f, u, 1, m)
      /\ Added(g, u, 1, m) <=> Added(f, u, 1, m)
  BY <1>1, SameLines, Zenon
<1> QED BY <1>2 DEF Wanted

LEMMA SameReplayed ==
    ASSUME NEW f, NEW g, NEW u, NEW n \in Nat, \A i \in 1 .. n : g[i] = f[i],
           NEW k \in Nat, NEW j \in 0 .. n, NEW p \in 0 .. n
    PROVE  Replayed(g, u, k, j, p) <=> Replayed(f, u, k, j, p)
<1>1. PICK l \in Nat \ {0} : l = k + 1
  OBVIOUS
<1>2. /\ Silent(g, u, l, j) <=> Silent(f, u, l, j)
      /\ Added(g, u, l, j) <=> Added(f, u, l, j)
  BY SameLines, Zenon
<1>3. Wanted(g, u, p) <=> Wanted(f, u, p)
  BY SameWanted
<1> QED BY <1>1, <1>2, <1>3 DEF Replayed

\* What a UPF's last line says, the lines up to it being the first n + 1.
LEMMA WantedNext ==
    ASSUME NEW f, NEW u, NEW n \in Nat
    PROVE  Wanted(f, u, n + 1) <=>
              Adds(f[n + 1], u) \/ (Wanted(f, u, n) /\ ~ Names(f[n + 1], u))
<1>1. 1 \in Int /\ n \in Int /\ 1 <= n + 1
  OBVIOUS
<1>2. Silent(f, u, 1, n + 1) <=> Silent(f, u, 1, n) /\ ~ Names(f[n + 1], u)
  BY <1>1, SilentNext, Zenon
<1>3. Added(f, u, 1, n + 1) <=>
         Adds(f[n + 1], u) \/ (Added(f, u, 1, n) /\ ~ Names(f[n + 1], u))
  BY <1>1, AddedNext, Zenon
<1> QED BY <1>2, <1>3 DEF Wanted

LEMMA ReplayedNext ==
    ASSUME NEW f, NEW u, NEW k \in Nat, NEW j \in Nat, NEW p, k <= j
    PROVE  Replayed(f, u, k, j + 1, p) <=>
              Adds(f[j + 1], u) \/ (Replayed(f, u, k, j, p) /\ ~ Names(f[j + 1], u))
<1>1. PICK l \in Int : l = k + 1 /\ l <= j + 1 /\ j \in Int
  OBVIOUS
<1>2. Silent(f, u, l, j + 1) <=> Silent(f, u, l, j) /\ ~ Names(f[j + 1], u)
  BY <1>1, SilentNext, Zenon
<1>3. Added(f, u, l, j + 1) <=>
         Adds(f[j + 1], u) \/ (Added(f, u, l, j) /\ ~ Names(f[j + 1], u))
  BY <1>1, AddedNext, Zenon
<1> QED BY <1>1, <1>2, <1>3 DEF Replayed

LEMMA NothingReplayed ==
    ASSUME NEW f, NEW u, NEW k \in Nat, NEW p
    PROVE  Replayed(f, u, k, k, p) <=> Wanted(f, u, p)
BY DEF Replayed, Added, Silent

LEMMA NothingWanted ==
    ASSUME NEW f, NEW u
    PROVE  Wanted(f, u, 0) <=> Contains(InitialPool, u)
BY DEF Wanted, Added, Silent

-----------------------------------------------------------------------------
(***************************************************************************)
(* Lemmas about lists without duplicates                                   *)
(***************************************************************************)
LEMMA DistinctAppend ==
    ASSUME NEW S, NEW s \in Seq(S), NEW x \in S, Distinct(s), ~ Contains(s, x)
    PROVE  /\ Append(s, x) \in Seq(S) /\ Distinct(Append(s, x))
           /\ \A y : Contains(Append(s, x), y) <=> Contains(s, y) \/ y = x
<1> DEFINE r == Append(s, x)
<1>1. /\ r \in Seq(S) /\ Len(r) = Len(s) + 1 /\ r[Len(s) + 1] = x
      /\ \A i \in 1 .. Len(s) : r[i] = s[i]
  BY AppendProperties
<1>2. Len(s) \in Nat
  OBVIOUS
<1> HIDE DEF r
<1>3. \A i \in 1 .. Len(r) : i \in 1 .. Len(s) \/ i = Len(s) + 1
  BY <1>1, <1>2
<1>4. (\A i \in 1 .. Len(s) : i \in 1 .. Len(r)) /\ Len(s) + 1 \in 1 .. Len(r)
  BY <1>1, <1>2
<1>5. \A i \in 1 .. Len(s) : s[i] # x
  BY DEF Contains
<1>6. Distinct(r)
  <2> SUFFICES ASSUME NEW i \in 1 .. Len(r), NEW j \in 1 .. Len(r), r[i] = r[j]
               PROVE  i = j
    BY DEF Distinct
  <2>1. CASE i \in 1 .. Len(s) /\ j \in 1 .. Len(s)
    BY <1>1, <2>1 DEF Distinct
  <2>2. CASE i = Len(s) + 1 \/ j = Len(s) + 1
    BY <1>1, <1>3, <1>5, <2>2
  <2> QED BY <1>3, <2>1, <2>2
<1>7. \A y : Contains(r, y) <=> Contains(s, y) \/ y = x
  BY <1>1, <1>3, <1>4 DEF Contains
<1> QED BY <1>1, <1>6, <1>7 DEF r

LEMMA DistinctRemove ==
    ASSUME NEW S, NEW s \in Seq(S), NEW n \in 1 .. Len(s), Distinct(s)
    PROVE  /\ RemoveAt(s, n) \in Seq(S) /\ Distinct(RemoveAt(s, n))
           /\ \A y : Contains(RemoveAt(s, n), y) <=> Contains(s, y) /\ y # s[n]
<1> DEFINE a == SubSeq(s, 1, n - 1)
           b == SubSeq(s, n + 1, Len(s))
           r == RemoveAt(s, n)
<1>0. Len(s) \in Nat /\ n \in Nat /\ 1 <= n /\ n <= Len(s)
  OBVIOUS
<1>1. a \in Seq(S) /\ Len(a) = n - 1 /\ \A i \in 1 .. n - 1 : a[i] = s[i]
  <2>1. \A i \in 1 .. n - 1 : s[i] \in S
    OBVIOUS
  <2>2. /\ SubSeq(s, 1, n - 1) \in Seq(S)
        /\ Len(SubSeq(s, 1, n - 1)) = IF 1 <= n - 1 THEN n - 1 - 1 + 1 ELSE 0
        /\ \A i \in 1 .. n - 1 - 1 + 1 : SubSeq(s, 1, n - 1)[i] = s[1 + i - 1]
    BY <1>0, <2>1, SubSeqProperties
  <2> QED BY <1>0, <2>2
<1>2. /\ b \in Seq(S) /\ Len(b) = Len(s) - n
      /\ \A i \in 1 .. Len(s) - n : b[i] = s[n + i]
  <2>1. \A i \in n + 1 .. Len(s) : s[i] \in S
    OBVIOUS
  <2>2. /\ SubSeq(s, n + 1, Len(s)) \in Seq(S)
        /\ Len(SubSeq(s, n + 1, Len(s))) =
              IF n + 1 <= Len(s) THEN Len(s) - (n + 1) + 1 ELSE 0
        /\ \A i \in 1 .. Len(s) - (n + 1) + 1 :
              SubSeq(s, n + 1, Len(s))[i] = s[n + 1 + i - 1]
    BY <1>0, <2>1, SubSeqProperties
  <2> QED BY <1>0, <2>2
<1> HIDE DEF a, b
<1>3. r = a \o b
  BY DEF RemoveAt, a, b
<1>4. /\ a \o b \in Seq(S) /\ Len(a \o b) = Len(a) + Len(b)
      /\ \A i \in 1 .. Len(a) + Len(b) :
            (a \o b)[i] = IF i <= Len(a) THEN a[i] ELSE b[i - Len(a)]
  BY <1>1, <1>2, ConcatProperties
<1> HIDE DEF r
<1>5. r \in Seq(S) /\ Len(r) = Len(s) - 1
  BY <1>0, <1>1, <1>2, <1>3, <1>4
<1>6. \A i \in 1 .. Len(s) - 1 : r[i] = IF i < n THEN s[i] ELSE s[i + 1]
  <2> TAKE i \in 1 .. Len(s) - 1
  <2>1. r[i] = IF i <= n - 1 THEN a[i] ELSE b[i - (n - 1)]
    BY <1>0, <1>1, <1>2, <1>3, <1>4
  <2>2. CASE i < n
    <3>1. i \in 1 .. n - 1
      BY <1>0, <2>2
    <3> QED BY <1>1, <2>1, <2>2, <3>1
  <2>3. CASE ~ (i < n)
    <3>1. i - (n - 1) \in 1 .. Len(s) - n /\ n + (i - (n - 1)) = i + 1
      BY <1>0, <2>3
    <3>2. b[i - (n - 1)] = s[n + (i - (n - 1))]
      BY <1>2, <3>1
    <3> QED BY <1>0, <2>1, <2>3, <3>1, <3>2
  <2> QED BY <2>2, <2>3
<1>7. Distinct(r)
  <2> SUFFICES ASSUME NEW i \in 1 .. Len(s) - 1, NEW j \in 1 .. Len(s) - 1, r[i] = r[j]
               PROVE  i = j
    BY <1>5 DEF Distinct
  <2>1. PICK v \in 1 .. Len(s) : v = IF i < n THEN i ELSE i + 1
    BY <1>0
  <2>2. PICK w \in 1 .. Len(s) : w = IF j < n THEN j ELSE j + 1
    BY <1>0
  <2>3. s[v] = s[w]
    BY <1>6, <2>1, <2>2
  <2>4. v = w
    BY <2>3 DEF Distinct
  <2> QED BY <1>0, <2>1, <2>2, <2>4
<1>8. ASSUME NEW y, Contains(r, y) PROVE Contains(s, y) /\ y # s[n]
  <2> PICK i \in 1 .. Len(s) - 1 : r[i] = y
    BY <1>5, <1>8 DEF Contains
  <2>1. PICK v \in 1 .. Len(s) : v = IF i < n THEN i ELSE i + 1
    BY <1>0
  <2>2. s[v] = y /\ v # n
    BY <1>0, <1>6, <2>1
  <2> QED BY <2>2 DEF Contains, Distinct
<1>9. ASSUME NEW y, Contains(s, y), y # s[n] PROVE Contains(r, y)
  <2> PICK v \in 1 .. Len(s) : s[v] = y
    BY <1>9 DEF Contains
  <2>1. v # n
    BY <1>9
  <2>2. PICK i \in 1 .. Len(s) - 1 : i = IF v < n THEN v ELSE v - 1
    BY <1>0, <2>1
  <2>3. r[i] = y
    BY <1>0, <1>6, <2>1, <2>2
  <2> QED BY <1>5, <2>3 DEF Contains
<1> QED BY <1>5, <1>7, <1>8, <1>9 DEF r

\* A pool of Upfs that does not hold u has room for it.
LEMMA Room ==
    ASSUME RoomForAll, NEW s \in Seq(Upfs), Distinct(s), NEW u \in Upfs, ~ Contains(s, u)
    PROVE  Len(s) < MaxBackends
<1>1. PICK r : r = Append(s, u)
  OBVIOUS
<1>2. r \in Seq(Upfs) /\ Distinct(r) /\ Len(r) = Len(s) + 1
  BY <1>1, DistinctAppend, AppendProperties
<1>3. PICK n \in Nat : n = Len(r)
  BY <1>2
<1>4. r \in [1 .. n -> Upfs]
  BY <1>2, <1>3, LenProperties
<1>5. r \in Injection(1 .. n, Upfs)
  BY <1>2, <1>3, <1>4 DEF Distinct, Injection, IsInjective
<1>6. Cardinality(1 .. n) <= Cardinality(Upfs)
  BY ONLY <1>5, FS_Injection, RoomForAll DEF RoomForAll
<1>7. Cardinality(1 .. n) = n
  BY FS_Interval
<1>8. PICK c \in Nat : c = Cardinality(Upfs)
  BY FS_CardinalityType DEF RoomForAll
<1>9. MaxBackends \in Nat /\ Len(s) \in Nat
  BY PoolAssumption
<1> QED BY <1>2, <1>3, <1>6, <1>7, <1>8, <1>9 DEF RoomForAll

-----------------------------------------------------------------------------
(***************************************************************************)
(* Types                                                                   *)
(***************************************************************************)
LEMMA RemovedType ==
    ASSUME NEW S, NEW s \in Seq(S), NEW n \in 1 .. Len(s)
    PROVE  RemoveAt(s, n) \in Seq(S)
<1>1. SubSeq(s, 1, n - 1) \in Seq(S) /\ SubSeq(s, n + 1, Len(s)) \in Seq(S)
  OBVIOUS
<1> QED BY <1>1 DEF RemoveAt

LEMMA SubSeqType ==
    ASSUME NEW S, NEW s \in Seq(S), NEW m \in Nat \ {0}
    PROVE  SubSeq(s, m, Len(s)) \in Seq(S)
OBVIOUS

LEMMA EndType ==
    ASSUME NEW f \in Seq(Line)
    PROVE  End(f) \in Nat /\ End(f) = SizeOf(f, Len(f))
<1>1. CASE f = << >>
  BY <1>1 DEF End, SizeOf
<1>2. CASE f # << >>
  <2>1. Len(f) \in 1 .. Len(f) /\ f[Len(f)] \in Line
    BY <1>2
  <2> QED BY <1>2, <2>1 DEF End, SizeOf, Line
<1> QED BY <1>1, <1>2

LEMMA ProxyFileType ==
    ASSUME ControlTypeOK
    PROVE  ProxyFile \in Seq(Line) /\ End(ProxyFile) \in Nat
<1>1. ProxyFile \in Seq(Line)
  BY DEF ControlTypeOK, ProxyFile
<1> QED BY <1>1, EndType

\* A new line takes the file a little further.
LEMMA NewLine ==
    ASSUME ControlTypeOK, NEW a \in {"add", "remove"}, NEW t \in Texts,
           SendUpfCommand(a, t)
    PROVE  \E c \in Line : file' = Append(file, c) /\ c.end > End(file)
<1>1. TextLength[t] \in Nat /\ End(file) \in Nat
  BY ControlAssumption, EndType DEF ControlTypeOK
<1>2. PICK n \in Nat : n = End(file) + Bytes(a, t) /\ n > End(file)
  BY <1>1 DEF Bytes
<1>3. PICK c : c = [action |-> a, text |-> t, end |-> n]
  OBVIOUS
<1>4. c \in Line /\ c.end = n
  BY <1>3 DEF Line
<1> QED BY <1>2, <1>3, <1>4 DEF SendUpfCommand

\* The steps of the user of the TUI.
LEMMA TuiSteps ==
    ASSUME ControlTypeOK,
           \/ \E text \in Texts : AddUpf(text)
           \/ \E i \in 1 .. Len(upf_list) : RemoveUpf(i)
    PROVE  /\ \E c \in Line : file' = Append(file, c) /\ c.end > End(file)
           /\ upf_list' \in Seq(Texts)
           /\ UNCHANGED <<monitorVars, up, starts, poolVars>>
<1>1. CASE \E text \in Texts : AddUpf(text)
  <2> PICK x \in Texts : AddUpf(x)
    BY <1>1
  <2>1. SendUpfCommand("add", x) /\ upf_list' = Append(upf_list, x)
    BY DEF AddUpf
  <2>2. UNCHANGED <<monitorVars, up, starts, poolVars>>
    BY DEF AddUpf
  <2> QED BY <2>1, <2>2, NewLine DEF ControlTypeOK
<1>2. CASE \E i \in 1 .. Len(upf_list) : RemoveUpf(i)
  <2> PICK i \in 1 .. Len(upf_list) : RemoveUpf(i)
    BY <1>2
  <2>1. PICK x \in Texts : x = upf_list[i]
    BY DEF ControlTypeOK
  <2>2. SendUpfCommand("remove", x) /\ upf_list' = RemoveAt(upf_list, i)
    BY <2>1 DEF RemoveUpf
  <2>3. upf_list' \in Seq(Texts)
    BY <2>2, RemovedType DEF ControlTypeOK
  <2>4. UNCHANGED <<monitorVars, up, starts, poolVars>>
    BY DEF RemoveUpf
  <2> QED BY <2>2, <2>3, <2>4, NewLine
<1> QED BY <1>1, <1>2

LEMMA ControlTypeNext ==
    ASSUME ControlTypeOK, [ControlNext]_controlVars
    PROVE  ControlTypeOK'
<1> USE DEF ControlTypeOK
<1>1. CASE \/ \E text \in Texts : AddUpf(text)
           \/ \E i \in 1 .. Len(upf_list) : RemoveUpf(i)
  <2>1. PICK c \in Line : file' = Append(file, c)
    BY <1>1, TuiSteps
  <2>2. upf_list' \in Seq(Texts) /\ UNCHANGED <<monitorVars, up, starts, poolVars>>
    BY <1>1, TuiSteps
  <2>3. file' \in Seq(Line)
    BY <2>1
  <2> QED BY <2>2, <2>3 DEF monitorVars, poolVars, UpfPoolTypeOK
<1>2. CASE RestartTui
  BY <1>2, ControlAssumption DEF RestartTui, monitorVars, poolVars, UpfPoolTypeOK
<1>3. CASE Tick \/ ReadFails \/ EndPass
  BY <1>3, ProxyFileType DEF Tick, ReadFails, EndPass, tuiVars, poolVars, UpfPoolTypeOK
<1>4. CASE ReadFile
  <2>1. PICK m \in Nat \ {0} : m = (last_size \div 20) + 1
    OBVIOUS
  <2>2. NewLines \in Seq(Line)
    BY <2>1, SubSeqType, ProxyFileType DEF NewLines
  <2> QED BY <1>4, <2>2 DEF ReadFile, tuiVars, poolVars, UpfPoolTypeOK
<1>5. CASE ApplyLine
  <2>1. Tail(lines) \in Seq(Line) /\ Head(lines) \in Line
    BY <1>5 DEF ApplyLine
  <2>2. UpfPoolTypeOK'
    <3>1. CASE UNCHANGED poolVars
      BY <3>1 DEF poolVars, UpfPoolTypeOK
    <3>2. CASE \E u \in Upfs : AddBackend(u)
      BY <3>2 DEF AddBackend, UpfPoolTypeOK, HealthStatus
    <3>3. CASE \E u \in Upfs : RemoveBackend(u)
      <4> PICK i \in 1 .. Len(backends) : backends' = RemoveAt(backends, i)
        BY <3>3 DEF RemoveBackend
      <4>1. backends' \in Seq(Upfs)
        BY RemovedType DEF UpfPoolTypeOK
      <4> QED BY <3>3, <4>1 DEF RemoveBackend, UpfPoolTypeOK
    <3>4. PICK x : x = Parse[Head(lines).text] /\ x \in Upfs \cup {None}
      BY <2>1, ControlAssumption DEF Line
    <3>5. \/ x # None /\ AddBackend(x)
          \/ x # None /\ RemoveBackend(x)
          \/ UNCHANGED poolVars
      BY <1>5, <3>4, Zenon DEF ApplyLine
    <3> QED BY <3>1, <3>2, <3>3, <3>4, <3>5
  <2> QED BY <1>5, <2>1, <2>2 DEF ApplyLine, tuiVars
<1>6. CASE StartProxy
  <2>1. starts + 1 \in 0 .. MaxStarts
    BY <1>6, ControlAssumption DEF StartProxy
  <2>2. UpfPoolTypeOK'
    BY <1>6, PoolAssumption DEF StartProxy, UpfPoolTypeOK, HealthStatus
  <2>3. /\ last_size' = 0 /\ current_size' = 0 /\ step' = "tick" /\ lines' = << >>
        /\ missed' = FALSE /\ up' = TRUE /\ starts' = starts + 1 /\ UNCHANGED tuiVars
    BY <1>6, Zenon DEF StartProxy
  <2>4. lines' \in Seq(Line)
    BY <2>3
  <2> QED BY <2>1, <2>2, <2>3, <2>4 DEF tuiVars
<1>7. CASE StopProxy
  BY <1>7 DEF StopProxy, tuiVars, monitorVars, poolVars, UpfPoolTypeOK
<1>8. CASE UNCHANGED controlVars
  BY <1>8 DEF controlVars, tuiVars, monitorVars, poolVars, UpfPoolTypeOK
<1> QED BY <1>1, <1>2, <1>3, <1>4, <1>5, <1>6, <1>7, <1>8 DEF ControlNext, Monitor

LEMMA ControlTypeInit == ControlInit => ControlTypeOK
<1> SUFFICES ASSUME ControlInit PROVE ControlTypeOK
  OBVIOUS
<1>1. UpfPoolTypeOK
  BY PoolAssumption DEF ControlInit, UpfPoolInit, UpfPoolTypeOK, HealthStatus
<1>2. upf_list \in Seq(Texts)
  BY ControlAssumption DEF ControlInit
<1>3. file \in Seq(Line) /\ lines \in Seq(Line)
  BY DEF ControlInit
<1>4. 0 \in 0 .. MaxStarts
  BY ControlAssumption
<1> QED BY <1>1, <1>2, <1>3, <1>4 DEF ControlInit, ControlTypeOK

\* The monitor, the pool and the TUI hold what the code's types allow.
THEOREM ControlTypesCorrect == ControlSpec => []ControlTypeOK
<1>1. ControlInit => ControlTypeOK
  BY ControlTypeInit
<1>2. ControlTypeOK /\ [ControlNext]_controlVars => ControlTypeOK'
  BY ControlTypeNext
<1> QED BY <1>1, <1>2, PTL DEF ControlSpec

-----------------------------------------------------------------------------
(***************************************************************************)
(* The file grows                                                          *)
(***************************************************************************)
LEMMA GrowsKeeps ==
    ASSUME ControlTypeOK, FileInv, NEW c \in Line, file' = Append(file, c),
           c.end > End(file)
    PROVE  /\ Len(file') = Len(file) + 1 /\ file'[Len(file) + 1] = c
           /\ \A i \in 1 .. Len(file) : file'[i] = file[i]
           /\ \A size, n : Measured(size, n) => Measured(size, n)'
           /\ GuessFits' => GuessFits
           /\ FileInv'
<1>1. /\ Len(file') = Len(file) + 1 /\ file'[Len(file) + 1] = c
      /\ \A i \in 1 .. Len(file) : file'[i] = file[i]
  BY LineMore DEF ControlTypeOK
<1>2. PICK n \in Nat : n = Len(file)
  BY DEF ControlTypeOK
<1>3. \A i \in 0 .. n : SizeOf(file', i) = SizeOf(file, i)
  <2> TAKE i \in 0 .. n
  <2>1. i = 0 \/ i \in 1 .. n
    OBVIOUS
  <2> QED BY <1>1, <1>2, <2>1 DEF SizeOf
<1>4. ASSUME NEW size, NEW k, Measured(size, k) PROVE Measured(size, k)'
  <2> PICK m \in 0 .. k : size = SizeOf(file, m)
    BY <1>4 DEF Measured
  <2>1. k \in 0 .. n /\ m \in 0 .. n /\ k \in 0 .. Len(file')
    BY <1>1, <1>2, <1>4 DEF Measured
  <2>2. size = SizeOf(file', m)
    BY <1>3, <2>1
  <2> QED BY <2>1, <2>2 DEF Measured
<1>5. GuessFits' => GuessFits
  BY <1>1, <1>2 DEF GuessFits
<1>6. FileInv'
  <2>1. SizeOf(file', n + 1) = c.end /\ End(file) = SizeOf(file, n)
    BY <1>1, <1>2, EndType DEF SizeOf, ControlTypeOK
  <2>2. \A i \in 0 .. n : SizeOf(file, i) \in Nat
    <3> TAKE i \in 0 .. n
    <3>1. i = 0 \/ file[i] \in Line
      BY <1>2 DEF ControlTypeOK
    <3> QED BY <3>1 DEF SizeOf, Line
  <2>3. c.end \in Nat
    BY DEF Line
  <2> SUFFICES ASSUME NEW i \in 0 .. n + 1, NEW j \in 0 .. n + 1, i < j
               PROVE  SizeOf(file', i) < SizeOf(file', j)
    BY <1>1, <1>2 DEF FileInv
  <2>4. CASE j \in 0 .. n
    BY <1>2, <1>3, <2>4 DEF FileInv
  <2>5. CASE j = n + 1
    <3>1. i \in 0 .. n /\ n \in 0 .. n
      BY <2>5
    <3>2. i = n \/ SizeOf(file, i) < SizeOf(file, n)
      BY <1>2, <3>1 DEF FileInv
    <3>3. SizeOf(file, i) < c.end
      BY <2>1, <2>2, <2>3, <3>1, <3>2
    <3> QED BY <1>3, <2>1, <2>5, <3>1, <3>3
  <2> QED BY <2>4, <2>5
<1> QED BY <1>1, <1>4, <1>5, <1>6

\* The monitor and the pool know nothing of the new line.
LEMMA GrowsMonitor ==
    ASSUME ControlTypeOK, FileInv, MonitorInv, NEW c \in Line,
           file' = Append(file, c), c.end > End(file), UNCHANGED <<monitorVars, poolVars>>
    PROVE  MonitorInv'
<1>0. PICK n \in Nat : n = Len(file)
  BY DEF ControlTypeOK
<1>1. /\ Len(file') = n + 1 /\ \A i \in 1 .. n : file'[i] = file[i]
      /\ \A size, m : Measured(size, m) => Measured(size, m)'
  BY <1>0, GrowsKeeps
<1>2. /\ UNCHANGED <<last_size, current_size, step, lines, missed>>
      /\ UNCHANGED backends
  BY DEF monitorVars, poolVars
<1>3. last_size \in Nat /\ current_size \in Nat
  BY DEF ControlTypeOK
<1>4. \A m \in 0 .. n : m \in 0 .. Len(file')
  BY <1>1
<1>5. \A u : IsBackend(u)' <=> IsBackend(u)
  BY <1>2 DEF IsBackend
<1>6. ASSUME NEW p \in 0 .. n, Followed(p) PROVE Followed(p)'
  <2>1. Measured(last_size, p)'
    BY <1>1, <1>2, <1>6 DEF Followed
  <2>2. ASSUME NEW u \in Upfs PROVE IsBackend(u)' <=> Wanted(file', u, p)
    <3>1. PICK f, g : f = file /\ g = file'
      OBVIOUS
    <3>2. Wanted(g, u, p) <=> Wanted(f, u, p)
      BY <1>1, <3>1, SameWanted
    <3> QED BY <1>5, <1>6, <3>1, <3>2 DEF Followed
  <2> QED BY <2>1, <2>2 DEF Followed
<1>7. ASSUME NEW p \in 0 .. n, NEW j \in 0 .. n, NEW r \in 0 .. n, Applying(p, j, r)
      PROVE  Applying(p, j, r)'
  <2>1. Measured(last_size, p)' /\ Measured(current_size, r)'
    BY <1>1, <1>2, <1>7 DEF Applying
  <2>2. PICK k \in Nat : k = Skipped /\ Skipped' = k /\ k <= j
    BY <1>2, <1>3, <1>7 DEF Skipped, Applying
  <2>3. Len(lines') = r - j /\ \A i \in 1 .. r - j : lines'[i] = file'[j + i]
    <3>1. ASSUME NEW i \in 1 .. r - j PROVE lines'[i] = file'[j + i]
      <4>1. j + i \in 1 .. n /\ lines[i] = file[j + i]
        BY <1>7, <3>1 DEF Applying
      <4> QED BY <1>1, <1>2, <4>1
    <3> QED BY <1>2, <1>7, <3>1 DEF Applying
  <2>4. ASSUME NEW u \in Upfs PROVE IsBackend(u)' <=> Replayed(file', u, k, j, p)
    <3>1. PICK f, g : f = file /\ g = file'
      OBVIOUS
    <3>2. Replayed(g, u, k, j, p) <=> Replayed(f, u, k, j, p)
      BY <1>1, <3>1, SameReplayed
    <3> QED BY <1>5, <1>7, <2>2, <3>1, <3>2 DEF Applying
  <2>5. j <= r /\ p <= r
    BY <1>7 DEF Applying
  <2> QED BY <2>1, <2>2, <2>3, <2>4, <2>5 DEF Applying
<1>8. SUFFICES ASSUME ~ missed', GuessFits' PROVE MonitorFollows'
  BY DEF MonitorInv
<1>9. MonitorFollows
  BY <1>2, <1>8, GrowsKeeps DEF MonitorInv
<1>10. step \in {"tick", "read"} => \E p \in 0 .. n : Followed(p)'
  BY <1>0, <1>6, <1>9 DEF MonitorFollows
<1>11. step = "read" => Measured(current_size, Len(file))'
  <2> SUFFICES ASSUME step = "read" PROVE Measured(current_size, Len(file))'
    OBVIOUS
  <2>1. Measured(current_size, n)
    BY <1>0, <1>9 DEF MonitorFollows
  <2>2. PICK m \in 0 .. n : current_size' = SizeOf(file', m)
    BY <1>1, <1>2, <2>1 DEF Measured
  <2>3. m \in 0 .. Len(file') /\ Len(file') \in 0 .. Len(file')
    BY <1>1
  <2> QED BY <2>2, <2>3 DEF Measured
<1>12. step = "apply" => \E p, j, r \in 0 .. n : Applying(p, j, r)'
  BY <1>0, <1>7, <1>9 DEF MonitorFollows
<1> QED BY <1>2, <1>4, <1>10, <1>11, <1>12 DEF MonitorFollows

-----------------------------------------------------------------------------
(***************************************************************************)
(* What a line does to the pool                                            *)
(***************************************************************************)
\* The lines are the only thing that changes the pool of a running proxy.
LEMMA LineApplied ==
    ASSUME ControlTypeOK, Distinct(backends), RoomForAll, ApplyLine,
           NEW c \in Line, c = Head(lines)
    PROVE  /\ Distinct(backends)'
           /\ \A u \in Upfs : IsBackend(u)' <=>
                                 Adds(c, u) \/ (IsBackend(u) /\ ~ Names(c, u))
<1>0. backends \in Seq(Upfs)
  BY DEF ControlTypeOK, UpfPoolTypeOK
<1>1. \A u : IsBackend(u) <=> Contains(backends, u)
  BY DEF IsBackend, Contains
<1>2. \A u : IsBackend(u)' <=> Contains(backends', u)
  BY DEF IsBackend, Contains
<1>3. PICK a, x : a = c.action /\ x = Parse[c.text]
  OBVIOUS
<1>4. /\ a \in {"add", "remove"} /\ (x # None => x \in Upfs)
      /\ \A u : (Names(c, u) <=> x = u) /\ (Adds(c, u) <=> a = "add" /\ x = u)
  BY <1>3, ControlAssumption DEF Line, Names, Adds
<1>5. \/ x \in Upfs /\ a = "add" /\ AddBackend(x)
      \/ x \in Upfs /\ a = "add" /\ ~ MayAdd(x) /\ UNCHANGED poolVars
      \/ x \in Upfs /\ a = "remove" /\ RemoveBackend(x)
      \/ x \in Upfs /\ a = "remove" /\ ~ IsBackend(x) /\ UNCHANGED poolVars
      \/ x = None /\ UNCHANGED poolVars
  <2>1. \/ x # None /\ a = "add" /\ AddBackend(x)
        \/ x # None /\ a = "add" /\ ~ MayAdd(x) /\ UNCHANGED poolVars
        \/ x # None /\ a = "remove" /\ RemoveBackend(x)
        \/ x # None /\ a = "remove" /\ ~ IsBackend(x) /\ UNCHANGED poolVars
        \/ x = None /\ UNCHANGED poolVars
    BY <1>3, Zenon DEF ApplyLine
  <2> QED BY <1>4, <2>1, Zenon
<1>6. CASE x \in Upfs /\ a = "add" /\ AddBackend(x)
  <2>1. ~ Contains(backends, x) /\ backends' = Append(backends, x)
    BY <1>1, <1>6 DEF AddBackend, MayAdd
  <2>2. /\ Distinct(Append(backends, x))
        /\ \A y : Contains(Append(backends, x), y) <=> Contains(backends, y) \/ y = x
    BY <1>0, <1>6, <2>1, DistinctAppend
  <2>3. Distinct(backends)'
    BY <2>1, <2>2 DEF Distinct
  <2>4. \A u : IsBackend(u)' <=> IsBackend(u) \/ u = x
    BY <1>1, <1>2, <2>1, <2>2
  <2> QED BY <1>3, <1>4, <1>6, <2>3, <2>4
<1>7. CASE x \in Upfs /\ a = "add" /\ ~ MayAdd(x) /\ UNCHANGED poolVars
  <2>1. IsBackend(x)
    BY <1>0, <1>1, <1>7, Room DEF MayAdd
  <2>2. Distinct(backends)' /\ \A u : IsBackend(u)' <=> IsBackend(u)
    BY <1>7 DEF poolVars, Distinct, IsBackend
  <2> QED BY <1>3, <1>4, <1>7, <2>1, <2>2
<1>8. CASE x \in Upfs /\ a = "remove" /\ RemoveBackend(x)
  <2> PICK i \in 1 .. Len(backends) :
             backends[i] = x /\ backends' = RemoveAt(backends, i)
    BY <1>8 DEF RemoveBackend
  <2>1. /\ Distinct(RemoveAt(backends, i))
        /\ \A y : Contains(RemoveAt(backends, i), y) <=> Contains(backends, y) /\ y # x
    BY <1>0, DistinctRemove
  <2>2. Distinct(backends)'
    BY <2>1 DEF Distinct
  <2>3. \A u : IsBackend(u)' <=> IsBackend(u) /\ u # x
    BY <1>1, <1>2, <2>1
  <2> QED BY <1>3, <1>4, <1>8, <2>2, <2>3
<1>9. CASE x \in Upfs /\ a = "remove" /\ ~ IsBackend(x) /\ UNCHANGED poolVars
  <2>1. Distinct(backends)' /\ \A u : IsBackend(u)' <=> IsBackend(u)
    BY <1>9 DEF poolVars, Distinct, IsBackend
  <2> QED BY <1>3, <1>4, <1>9, <2>1
<1>10. CASE x = None /\ UNCHANGED poolVars
  <2>1. Distinct(backends)' /\ \A u : IsBackend(u)' <=> IsBackend(u)
    BY <1>10 DEF poolVars, Distinct, IsBackend
  <2>2. \A u \in Upfs : u # x
    BY <1>10, AddressAssumption DEF Addr
  <2> QED BY <1>3, <1>4, <2>1, <2>2
<1> QED BY <1>5, <1>6, <1>7, <1>8, <1>9, <1>10

-----------------------------------------------------------------------------
(***************************************************************************)
(* The pool and the file                                                   *)
(***************************************************************************)
LEMMA PoolInvNext ==
    ASSUME ControlTypeOK, PoolInv, RoomForAll, [ControlNext]_controlVars
    PROVE  PoolInv'
<1>1. ASSUME UNCHANGED backends PROVE PoolInv'
  BY <1>1 DEF PoolInv, Distinct
<1>2. CASE ApplyLine
  <2>1. lines # << >> /\ lines \in Seq(Line)
    BY <1>2 DEF ApplyLine, ControlTypeOK
  <2>2. PICK c \in Line : c = Head(lines)
    BY <2>1
  <2>3. Distinct(backends)'
    BY <1>2, <2>2, LineApplied DEF PoolInv
  <2> QED BY <2>3 DEF PoolInv
<1>3. CASE StartProxy
  BY <1>3, PoolAssumption DEF StartProxy, PoolInv, Distinct
<1>4. CASE \/ \E text \in Texts : AddUpf(text)
           \/ \E i \in 1 .. Len(upf_list) : RemoveUpf(i)
  <2>1. UNCHANGED poolVars
    BY <1>4, TuiSteps
  <2> QED BY <1>1, <2>1 DEF poolVars
<1>5. CASE \/ RestartTui \/ Tick \/ ReadFile \/ ReadFails \/ EndPass \/ StopProxy
           \/ UNCHANGED controlVars
  <2>1. UNCHANGED poolVars
    BY <1>5 DEF RestartTui, Tick, ReadFile, ReadFails, EndPass, StopProxy, controlVars
  <2> QED BY <1>1, <2>1 DEF poolVars
<1> QED BY <1>2, <1>3, <1>4, <1>5 DEF ControlNext, Monitor

LEMMA FileInvNext ==
    ASSUME ControlTypeOK, FileInv, [ControlNext]_controlVars
    PROVE  FileInv'
<1>1. CASE \/ \E text \in Texts : AddUpf(text)
           \/ \E i \in 1 .. Len(upf_list) : RemoveUpf(i)
  BY <1>1, TuiSteps, GrowsKeeps
<1>2. CASE UNCHANGED file
  BY <1>2 DEF FileInv, SizeOf
<1>3. CASE \/ RestartTui \/ Monitor \/ StartProxy \/ StopProxy \/ UNCHANGED controlVars
  <2>1. UNCHANGED file
    BY <1>3 DEF RestartTui, Monitor, Tick, ReadFile, ReadFails, ApplyLine, EndPass,
       StartProxy, StopProxy, controlVars, tuiVars
  <2> QED BY <1>2, <2>1
<1> QED BY <1>1, <1>3 DEF ControlNext

-----------------------------------------------------------------------------
(***************************************************************************)
(* The monitor                                                             *)
(***************************************************************************)
LEMMA SkippedFits ==
    ASSUME ControlTypeOK, GuessFits, NEW p, Measured(last_size, p)
    PROVE  Skipped \in Nat /\ p \in Nat /\ Skipped <= p /\ p <= Len(file)
<1>1. last_size \in Nat /\ Len(file) \in Nat
  BY DEF ControlTypeOK
<1>2. p \in 0 .. Len(file)
  BY DEF Measured
<1>3. PICK m \in 0 .. p : last_size = SizeOf(file, m)
  BY DEF Measured
<1>4. m = 0 \/ m \in 1 .. Len(file)
  BY <1>1, <1>2
<1>5. last_size < 20 * (m + 1)
  BY <1>3, <1>4 DEF SizeOf, GuessFits
<1>6. m \in Nat /\ p \in Nat /\ m <= p
  BY <1>1, <1>2
<1>7. Skipped \in Nat /\ Skipped <= m
  BY <1>1, <1>5, <1>6 DEF Skipped
<1> QED BY <1>1, <1>2, <1>6, <1>7

LEMMA MonitorKept ==
    ASSUME MonitorInv, UNCHANGED <<file, monitorVars, backends>>
    PROVE  MonitorInv'
<1>0. UNCHANGED <<file, last_size, current_size, step, lines, missed, backends>>
  BY DEF monitorVars
<1>1. (\A size, n : Measured(size, n) => Measured(size, n)') /\ (GuessFits' <=> GuessFits)
  BY <1>0 DEF Measured, SizeOf, GuessFits
<1>2. (\A u : IsBackend(u)' <=> IsBackend(u)) /\ Skipped' = Skipped
  BY <1>0 DEF IsBackend, Skipped
<1>3. ASSUME NEW p, Followed(p) PROVE Followed(p)'
  BY <1>0, <1>1, <1>2, <1>3 DEF Followed
<1>4. ASSUME NEW p, NEW j, NEW r, Applying(p, j, r) PROVE Applying(p, j, r)'
  BY <1>0, <1>1, <1>2, <1>4 DEF Applying
<1>5. SUFFICES ASSUME ~ missed', GuessFits' PROVE MonitorFollows'
  BY DEF MonitorInv
<1>6. MonitorFollows
  BY <1>0, <1>1, <1>5 DEF MonitorInv
<1>7. step \in {"tick", "read"} => \E p \in 0 .. Len(file) : Followed(p)'
  BY <1>3, <1>6 DEF MonitorFollows
<1>8. step = "read" => Measured(current_size, Len(file))'
  BY <1>0, <1>1, <1>6 DEF MonitorFollows
<1>9. step = "apply" => \E p, j, r \in 0 .. Len(file) : Applying(p, j, r)'
  BY <1>4, <1>6 DEF MonitorFollows
<1> QED BY <1>0, <1>7, <1>8, <1>9 DEF MonitorFollows

LEMMA TickMonitor ==
    ASSUME ControlTypeOK, MonitorInv, ProxyDir = "target", Tick
    PROVE  MonitorInv'
<1>1. /\ step = "tick" /\ step' = "read" /\ current_size' = End(file)
      /\ UNCHANGED <<file, last_size, missed, backends>>
  BY DEF Tick, ProxyFile, tuiVars, poolVars
<1>2. SUFFICES ASSUME ~ missed', GuessFits' PROVE MonitorFollows'
  BY DEF MonitorInv
<1>3. MonitorFollows
  BY <1>1, <1>2 DEF MonitorInv, GuessFits
<1>4. PICK p \in 0 .. Len(file) : Followed(p)
  BY <1>1, <1>3 DEF MonitorFollows
<1>5. Followed(p)'
  <2>1. Measured(last_size, p)'
    BY <1>1, <1>4 DEF Followed, Measured, SizeOf
  <2>2. \A u : IsBackend(u)' <=> IsBackend(u)
    BY <1>1 DEF IsBackend
  <2> QED BY <1>1, <1>4, <2>1, <2>2 DEF Followed
<1>6. Measured(current_size, Len(file))'
  <2>1. Len(file) \in 0 .. Len(file) /\ End(file) = SizeOf(file, Len(file))
    BY EndType DEF ControlTypeOK
  <2> QED BY <1>1, <2>1 DEF Measured
<1> QED BY <1>1, <1>5, <1>6 DEF MonitorFollows

LEMMA ReadMonitor ==
    ASSUME ControlTypeOK, MonitorInv, ProxyDir = "target", ReadFile
    PROVE  MonitorInv'
<1>1. /\ step = "read" /\ step' = "apply"
      /\ lines' = SubSeq(file, Skipped + 1, Len(file))
      /\ UNCHANGED <<file, last_size, current_size, missed, backends>>
  BY DEF ReadFile, NewLines, ProxyFile, Skipped, tuiVars, poolVars
<1>2. SUFFICES ASSUME ~ missed', GuessFits' PROVE MonitorFollows'
  BY DEF MonitorInv
<1>3. GuessFits /\ MonitorFollows
  BY <1>1, <1>2 DEF MonitorInv, GuessFits
<1>4. PICK p \in 0 .. Len(file) : Followed(p)
  BY <1>1, <1>3 DEF MonitorFollows
<1>5. Measured(current_size, Len(file))
  BY <1>1, <1>3 DEF MonitorFollows
<1>6. PICK r \in Nat : r = Len(file) /\ r \in 0 .. Len(file)
  BY DEF ControlTypeOK
<1>7. Skipped \in Nat /\ Skipped <= p /\ p <= r
  BY <1>3, <1>4, <1>6, SkippedFits DEF Followed
<1>8. PICK k \in 0 .. Len(file) : k = Skipped /\ k <= r
  BY <1>6, <1>7
<1>9. Len(lines') = r - k /\ \A i \in 1 .. r - k : lines'[i] = file[k + i]
  <2>1. k + 1 \in Int /\ r \in Int /\ \A i \in k + 1 .. r : file[i] \in Line
    BY <1>6, <1>8 DEF ControlTypeOK
  <2>2. PICK f : f = file
    OBVIOUS
  <2>3. /\ Len(SubSeq(f, k + 1, r)) = IF k + 1 <= r THEN r - (k + 1) + 1 ELSE 0
        /\ \A i \in 1 .. r - (k + 1) + 1 : SubSeq(f, k + 1, r)[i] = f[k + 1 + i - 1]
    BY <2>1, <2>2, SubSeqProperties
  <2>4. lines' = SubSeq(f, k + 1, r)
    BY <1>1, <1>6, <1>8, <2>2
  <2>5. r - (k + 1) + 1 = r - k /\ \A i \in 1 .. r - k : k + 1 + i - 1 = k + i
    BY <1>6, <1>8
  <2>6. Len(lines') = r - k
    BY <1>6, <1>8, <2>3, <2>4
  <2>7. ASSUME NEW i \in 1 .. r - k PROVE lines'[i] = file[k + i]
    <3>1. i \in 1 .. r - (k + 1) + 1
      BY <2>5
    <3>2. lines'[i] = f[k + 1 + i - 1]
      BY <2>3, <2>4, <3>1
    <3> QED BY <2>2, <2>5, <3>2
  <2> QED BY <2>6, <2>7
<1>10. ASSUME NEW u \in Upfs PROVE IsBackend(u)' <=> Replayed(file', u, k, k, p)
  <2>1. PICK f : f = file
    OBVIOUS
  <2>2. Replayed(f, u, k, k, p) <=> Wanted(f, u, p)
    BY NothingReplayed
  <2>3. IsBackend(u)' <=> IsBackend(u)
    BY <1>1 DEF IsBackend
  <2> QED BY <1>1, <1>4, <2>1, <2>2, <2>3 DEF Followed
<1>11. Skipped' = k /\ Measured(last_size, p)' /\ Measured(current_size, r)'
  BY <1>1, <1>4, <1>5, <1>6, <1>8 DEF Skipped, Followed, Measured, SizeOf
<1>12. Applying(p, k, r)'
  BY <1>1, <1>6, <1>7, <1>8, <1>9, <1>10, <1>11 DEF Applying
<1>13. \E q, j, s \in 0 .. Len(file') : Applying(q, j, s)'
  BY <1>1, <1>6, <1>12
<1> QED BY <1>1, <1>13 DEF MonitorFollows

LEMMA ApplyMonitor ==
    ASSUME ControlTypeOK, PoolInv, MonitorInv, RoomForAll, ApplyLine
    PROVE  MonitorInv'
<1>1. /\ step = "apply" /\ step' = "apply" /\ lines # << >> /\ lines' = Tail(lines)
      /\ UNCHANGED <<file, last_size, current_size, missed>>
  BY DEF ApplyLine, tuiVars
<1>2. SUFFICES ASSUME ~ missed', GuessFits' PROVE MonitorFollows'
  BY DEF MonitorInv
<1>3. MonitorFollows
  BY <1>1, <1>2 DEF MonitorInv, GuessFits
<1>4. PICK p \in 0 .. Len(file), j \in 0 .. Len(file), r \in 0 .. Len(file) :
              Applying(p, j, r)
  BY <1>1, <1>3 DEF MonitorFollows
<1>5. /\ lines \in Seq(Line) /\ Len(file) \in Nat /\ p \in Nat /\ j \in Nat
      /\ r \in Nat /\ last_size \in Nat
  BY DEF ControlTypeOK
<1>6. Len(lines) = r - j /\ \A i \in 1 .. r - j : lines[i] = file[j + i]
  BY <1>4 DEF Applying
<1>7. PICK k \in Nat : k = Skipped /\ k <= j
  BY <1>4, <1>5 DEF Applying, Skipped
<1>8. j + 1 <= r
  BY <1>1, <1>5, <1>6
<1>9. PICK c \in Line : c = Head(lines)
  BY <1>1, <1>5
<1>10. c = file[j + 1]
  BY <1>1, <1>5, <1>6, <1>8, <1>9
<1>11. Len(lines') = r - (j + 1) /\ \A i \in 1 .. r - (j + 1) : lines'[i] = file[j + 1 + i]
  <2>1. /\ Len(Tail(lines)) = Len(lines) - 1
        /\ \A i \in 1 .. Len(Tail(lines)) : Tail(lines)[i] = lines[i + 1]
    BY <1>1, <1>5, HeadTailProperties
  <2>2. Len(lines') = r - (j + 1)
    BY <1>1, <1>5, <1>6, <2>1
  <2>3. ASSUME NEW i \in 1 .. r - (j + 1) PROVE lines'[i] = file[j + 1 + i]
    <3>1. i + 1 \in 1 .. r - j /\ j + (i + 1) = j + 1 + i
      BY <1>5
    <3>2. lines'[i] = lines[i + 1]
      BY <1>1, <2>1, <2>2
    <3> QED BY <1>6, <3>1, <3>2
  <2> QED BY <2>2, <2>3
<1>12. ASSUME NEW u \in Upfs PROVE IsBackend(u)' <=> Replayed(file', u, k, j + 1, p)
  <2>1. IsBackend(u)' <=> Adds(c, u) \/ (IsBackend(u) /\ ~ Names(c, u))
    BY <1>9, LineApplied DEF PoolInv
  <2>2. IsBackend(u) <=> Replayed(file, u, k, j, p)
    BY <1>4, <1>7 DEF Applying
  <2>3. PICK f : f = file
    OBVIOUS
  <2>4. Replayed(f, u, k, j + 1, p) <=>
           Adds(f[j + 1], u) \/ (Replayed(f, u, k, j, p) /\ ~ Names(f[j + 1], u))
    BY <1>5, <1>7, ReplayedNext
  <2> QED BY <1>1, <1>10, <2>1, <2>2, <2>3, <2>4
<1>13. Skipped' = k /\ Measured(last_size, p)'
  BY <1>1, <1>4, <1>7 DEF Skipped, Applying, Measured, SizeOf
<1>14. Measured(current_size, r)'
  BY <1>1, <1>4 DEF Applying, Measured, SizeOf
<1>15. p <= r /\ j + 1 \in 0 .. Len(file') /\ k <= j + 1
  BY <1>1, <1>5, <1>7, <1>8, <1>4 DEF Applying
<1>16. Applying(p, j + 1, r)'
  <2> PICK l : l = j + 1
    OBVIOUS
  <2>1. /\ Measured(last_size, p)' /\ Skipped' <= l /\ l <= r /\ p <= r
    BY <1>8, <1>13, <1>15
  <2>2. Len(lines') = r - l /\ \A i \in 1 .. r - l : lines'[i] = file'[l + i]
    BY <1>1, <1>11
  <2>3. \A u \in Upfs : IsBackend(u)' <=> Replayed(file', u, Skipped', l, p)
    BY <1>12, <1>13
  <2>4. Applying(p, l, r)'
    BY <1>14, <2>1, <2>2, <2>3 DEF Applying
  <2> QED BY <2>4
<1>17. \E q, i, s \in 0 .. Len(file') : Applying(q, i, s)'
  BY <1>1, <1>15, <1>16
<1> QED BY <1>1, <1>17 DEF MonitorFollows

\* Whatever was applied again, the pool has now followed all that was read.
LEMMA EndMonitor ==
    ASSUME ControlTypeOK, MonitorInv, EndPass
    PROVE  MonitorInv'
<1>1. /\ step = "apply" /\ step' = "tick" /\ lines = << >> /\ last_size' = current_size
      /\ UNCHANGED <<file, missed, backends>>
  BY DEF EndPass, tuiVars, poolVars
<1>2. SUFFICES ASSUME ~ missed', GuessFits' PROVE MonitorFollows'
  BY DEF MonitorInv
<1>3. GuessFits /\ MonitorFollows
  BY <1>1, <1>2 DEF MonitorInv, GuessFits
<1>4. PICK p \in 0 .. Len(file), j \in 0 .. Len(file), r \in 0 .. Len(file) :
              Applying(p, j, r)
  BY <1>1, <1>3 DEF MonitorFollows
<1>5. j = r
  BY <1>1, <1>4 DEF Applying
<1>6. PICK k \in Nat : k = Skipped /\ k <= p /\ p <= r
  BY <1>3, <1>4, SkippedFits DEF Applying
<1>7. Measured(last_size, r)'
  BY <1>1, <1>4 DEF Applying, Measured, SizeOf
<1>8. ASSUME NEW u \in Upfs PROVE IsBackend(u)' <=> Wanted(file', u, r)
  <2>1. PICK f : f = file
    OBVIOUS
  <2>2. Replayed(f, u, k, r, p) <=> Wanted(f, u, r)
    BY <1>6, ReplayDone
  <2>3. IsBackend(u)' <=> IsBackend(u)
    BY <1>1 DEF IsBackend
  <2> QED BY <1>1, <1>4, <1>5, <1>6, <2>1, <2>2, <2>3 DEF Applying
<1>9. Followed(r)'
  BY <1>7, <1>8 DEF Followed
<1> QED BY <1>1, <1>9 DEF MonitorFollows

\* A new proxy starts with what the file, at its beginning, says.
LEMMA StartMonitor ==
    ASSUME ControlTypeOK, StartProxy
    PROVE  MonitorInv'
<1>1. /\ backends' = InitialPool /\ last_size' = 0 /\ step' = "tick"
      /\ Len(file') \in Nat
  BY DEF StartProxy, tuiVars, ControlTypeOK
<1>2. Measured(last_size, 0)'
  BY <1>1 DEF Measured, SizeOf
<1>3. ASSUME NEW u \in Upfs PROVE IsBackend(u)' <=> Wanted(file', u, 0)
  <2>1. PICK g : g = file'
    OBVIOUS
  <2>2. Wanted(g, u, 0) <=> Contains(InitialPool, u)
    BY NothingWanted
  <2> QED BY <1>1, <2>1, <2>2 DEF IsBackend, Contains
<1>4. Followed(0)' /\ 0 \in 0 .. Len(file')
  BY <1>1, <1>2, <1>3 DEF Followed
<1> QED BY <1>1, <1>4 DEF MonitorInv, MonitorFollows

LEMMA MonitorInvNext ==
    ASSUME ControlTypeOK, FileInv, PoolInv, MonitorInv, ProxyDir = "target", RoomForAll,
           [ControlNext]_controlVars
    PROVE  MonitorInv'
<1>1. CASE \/ \E text \in Texts : AddUpf(text)
           \/ \E i \in 1 .. Len(upf_list) : RemoveUpf(i)
  <2>1. PICK c \in Line : file' = Append(file, c) /\ c.end > End(file)
    BY <1>1, TuiSteps
  <2>2. UNCHANGED <<monitorVars, poolVars>>
    BY <1>1, TuiSteps
  <2> QED BY <2>1, <2>2, GrowsMonitor
<1>2. CASE ReadFails
  BY <1>2 DEF ReadFails, MonitorInv
<1>3. CASE RestartTui \/ StopProxy \/ UNCHANGED controlVars
  <2>1. UNCHANGED <<file, monitorVars, backends>>
    BY <1>3 DEF RestartTui, StopProxy, controlVars, tuiVars, poolVars
  <2> QED BY <2>1, MonitorKept
<1> QED BY <1>1, <1>2, <1>3, TickMonitor, ReadMonitor, ApplyMonitor, EndMonitor,
       StartMonitor DEF ControlNext, Monitor

-----------------------------------------------------------------------------
(***************************************************************************)
(* The pool follows the lines                                              *)
(***************************************************************************)
ControlInv == ControlTypeOK /\ FileInv /\ PoolInv /\ MonitorInv

LEMMA ControlInvInit == ControlInit => ControlInv
<1> SUFFICES ASSUME ControlInit PROVE ControlInv
  OBVIOUS
<1>1. /\ file = << >> /\ Len(file) = 0 /\ last_size = 0 /\ step = "tick"
      /\ backends = InitialPool
  BY DEF ControlInit, UpfPoolInit
<1>2. FileInv
  BY <1>1 DEF FileInv
<1>3. PoolInv
  BY <1>1, PoolAssumption DEF PoolInv, Distinct
<1>4. Followed(0)
  BY <1>1, NothingWanted DEF Followed, Measured, SizeOf, IsBackend, Contains
<1>5. MonitorInv
  BY <1>1, <1>4 DEF MonitorInv, MonitorFollows
<1> QED BY <1>2, <1>3, <1>5, ControlTypeInit DEF ControlInv

\* Of the lines about a UPF the last one counts.
LEMMA CommandedIsWanted ==
    ASSUME ControlTypeOK, NEW u \in Upfs
    PROVE  u \in Commanded(file) <=> Wanted(file, u, Len(file))
<1>1. PICK n \in Nat : n = Len(file)
  BY DEF ControlTypeOK
<1>2. \A i : i \in Naming(file, u) <=> i \in 1 .. n /\ Names(file[i], u)
  BY <1>1 DEF Naming, Names
<1>3. Naming(file, u) = {} <=> Silent(file, u, 1, n)
  BY <1>2 DEF Silent
<1>4. ASSUME NEW i \in Naming(file, u), file[i].action = "add", \A j \in Naming(file, u) : j <= i
      PROVE  Added(file, u, 1, n)
  <2>1. i \in 1 .. n /\ Adds(file[i], u)
    BY <1>2, <1>4 DEF Adds
  <2>2. \A j \in i + 1 .. n : j \in 1 .. n /\ ~ (j <= i)
    BY <2>1
  <2>3. Silent(file, u, i + 1, n)
    BY <1>2, <1>4, <2>2 DEF Silent
  <2> QED BY <2>1, <2>3 DEF Added
<1>5. ASSUME Added(file, u, 1, n)
      PROVE  \E i \in Naming(file, u) : file[i].action = "add" /\ \A j \in Naming(file, u) : j <= i
  <2> PICK i \in 1 .. n : Adds(file[i], u) /\ Silent(file, u, i + 1, n)
    BY <1>5 DEF Added
  <2>1. i \in Naming(file, u) /\ file[i].action = "add"
    BY <1>2 DEF Adds
  <2>2. ASSUME NEW j \in Naming(file, u) PROVE j <= i
    <3>1. j \in 1 .. n /\ Names(file[j], u)
      BY <1>2
    <3>2. j \notin i + 1 .. n
      BY <3>1 DEF Silent
    <3> QED BY <3>1, <3>2
  <2> QED BY <2>1, <2>2
<1> QED BY <1>1, <1>3, <1>4, <1>5 DEF Commanded, Wanted

LEMMA PoolFollows == ASSUME ControlInv, ProxyDir = "target" PROVE PoolFollowsShortLines
<1> SUFFICES ASSUME GuessFits, CaughtUp, ~ missed PROVE ToSet(backends) = Commanded(file)
  BY DEF PoolFollowsShortLines, PoolFollowsCommands, ProxyFile
<1>1. step = "tick" /\ last_size = End(file)
  BY DEF CaughtUp, ProxyFile
<1>2. PICK p \in 0 .. Len(file) : Followed(p)
  BY <1>1 DEF ControlInv, MonitorInv, MonitorFollows
<1>3. PICK n \in Nat : n = Len(file) /\ last_size = SizeOf(file, n)
  BY <1>1, EndType DEF ControlInv, ControlTypeOK
<1>4. PICK m \in 0 .. p : last_size = SizeOf(file, m)
  BY <1>2 DEF Followed, Measured
<1>5. ~ (m < n)
  <2>1. m \in 0 .. n /\ n \in 0 .. n
    BY <1>2, <1>3
  <2>2. m < n => SizeOf(file, m) < SizeOf(file, n)
    BY <1>3, <2>1 DEF ControlInv, FileInv
  <2>3. last_size \in Nat
    BY DEF ControlInv, ControlTypeOK
  <2> QED BY <1>3, <1>4, <2>2, <2>3
<1>6. p = n
  BY <1>2, <1>3, <1>4, <1>5
<1>7. \A u \in Upfs : IsBackend(u) <=> u \in Commanded(file)
  BY <1>2, <1>3, <1>6, CommandedIsWanted DEF ControlInv, Followed
<1>8. backends \in Seq(Upfs)
  BY DEF ControlInv, ControlTypeOK, UpfPoolTypeOK
<1>9. \A x : x \in ToSet(backends) <=> x \in Upfs /\ IsBackend(x)
  BY <1>8 DEF ToSet, IsBackend
<1>10. \A x \in Commanded(file) : x \in Upfs
  BY DEF Commanded
<1> QED BY <1>7, <1>9, <1>10

\* A proxy in the TUI's directory finds no file there.
NoFile ==
    /\ ControlTypeOK
    /\ last_size = 0 /\ step = "tick" /\ backends = InitialPool

LEMMA NoFileNext ==
    ASSUME NoFile, ProxyDir = "base", [ControlNext]_controlVars
    PROVE  NoFile'
<1>1. ControlTypeOK'
  BY ControlTypeNext DEF NoFile
<1>2. ~ Tick
  BY DEF Tick, ProxyFile, End, NoFile
<1>3. ~ ReadFile /\ ~ ReadFails /\ ~ ApplyLine /\ ~ EndPass
  BY DEF ReadFile, ReadFails, ApplyLine, EndPass, NoFile
<1>4. CASE \/ \E text \in Texts : AddUpf(text)
           \/ \E i \in 1 .. Len(upf_list) : RemoveUpf(i)
  <2>1. UNCHANGED <<monitorVars, poolVars>>
    BY <1>4, TuiSteps DEF NoFile
  <2> QED BY <1>1, <2>1 DEF NoFile, monitorVars, poolVars
<1>5. CASE StartProxy
  BY <1>1, <1>5 DEF StartProxy, NoFile
<1>6. CASE RestartTui \/ StopProxy \/ UNCHANGED controlVars
  <2>1. UNCHANGED <<monitorVars, poolVars>>
    BY <1>6 DEF RestartTui, StopProxy, controlVars
  <2> QED BY <1>1, <2>1 DEF NoFile, monitorVars, poolVars
<1> QED BY <1>2, <1>3, <1>4, <1>5, <1>6 DEF ControlNext, Monitor

LEMMA NothingCommanded ==
    ASSUME NoFile, ProxyDir = "base"
    PROVE  PoolFollowsShortLines
<1>1. ProxyFile = << >>
  BY DEF ProxyFile
<1>2. \A u : Naming(<< >>, u) = {}
  BY DEF Naming
<1>3. \A u : u \in Commanded(<< >>) <=> u \in Upfs /\ Contains(InitialPool, u)
  BY <1>2 DEF Commanded
<1>4. \A u : u \in ToSet(backends) <=> u \in Upfs /\ Contains(InitialPool, u)
  BY PoolAssumption DEF NoFile, ToSet, Contains
<1>5. ToSet(backends) = Commanded(<< >>)
  BY <1>3, <1>4
<1> QED BY <1>1, <1>5 DEF PoolFollowsShortLines, PoolFollowsCommands

\* Once the monitor has gone through its file, and no read failed, the pool is
\* what the lines there ask for: whatever the interleaving of the TUI and the
\* monitor, however often either program was started, whatever spelling the
\* lines use, and although the monitor applies lines again.  Conditions: the
\* monitor's guess of 20 bytes for a line is at no line a whole line too low
\* (GuessFits, in the property), and there is room in the pool.
THEOREM PoolFollowsCorrect ==
    ASSUME RoomForAll
    PROVE  ControlSpec => []PoolFollowsShortLines
<1>1. CASE ProxyDir = "target"
  <2>1. ControlInit => ControlInv
    BY ControlInvInit
  <2>2. ControlInv /\ [ControlNext]_controlVars => ControlInv'
    <3> SUFFICES ASSUME ControlInv, [ControlNext]_controlVars PROVE ControlInv'
      OBVIOUS
    <3>1. ControlTypeOK /\ FileInv /\ PoolInv /\ MonitorInv
      BY DEF ControlInv
    <3>2. ControlTypeOK'
      BY <3>1, ControlTypeNext
    <3>3. FileInv'
      BY <3>1, FileInvNext
    <3>4. PoolInv'
      BY <3>1, PoolInvNext
    <3>5. MonitorInv'
      BY <1>1, <3>1, MonitorInvNext
    <3> QED BY <3>2, <3>3, <3>4, <3>5 DEF ControlInv
  <2>3. ControlInv => PoolFollowsShortLines
    BY <1>1, PoolFollows
  <2> QED BY <2>1, <2>2, <2>3, PTL DEF ControlSpec
<1>2. CASE ProxyDir = "base"
  <2>1. ControlInit => NoFile
    BY ControlTypeInit DEF ControlInit, UpfPoolInit, NoFile
  <2>2. NoFile /\ [ControlNext]_controlVars => NoFile'
    BY <1>2, NoFileNext
  <2>3. NoFile => PoolFollowsShortLines
    BY <1>2, NothingCommanded
  <2> QED BY <2>1, <2>2, <2>3, PTL DEF ControlSpec
<1> QED BY <1>1, <1>2, ControlAssumption

=============================================================================
