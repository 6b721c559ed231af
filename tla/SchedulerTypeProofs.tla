----------------------- MODULE SchedulerTypeProofs -----------------------
(* Proofs about Scheduler: every variable keeps its type, from what the    *)
(* lists of operations may hold: each stream is made ready once, and each  *)
(* encoder is opened once; and what the list of a demuxer holds that is    *)
(* copied to one muxer only.                                               *)
EXTENDS SchedulerProofs

(* Where the elements of FlattenSeq(ss) come from: element x from element  *)
(* b[x] of sequence a[x].                                                  *)
At(ss, n, F, a, b) ==
    /\ \A x \in DOMAIN F : a[x] \in 1 .. n /\ b[x] \in DOMAIN ss[a[x]] /\ F[x] = ss[a[x]][b[x]]
    /\ \A x, y \in DOMAIN F : a[x] = a[y] /\ b[x] = b[y] => x = y
    /\ \A o \in 1 .. n : \A i \in DOMAIN ss[o] : \E x \in DOMAIN F : a[x] = o /\ b[x] = i

LEMMA ConcatAt ==
    ASSUME NEW A, NEW B, NEW s \in Seq(A), NEW r \in Seq(B)
    PROVE  /\ DOMAIN (s \o r) = 1 .. Len(s) + Len(r)
           /\ \A x \in 1 .. Len(s) : (s \o r)[x] = s[x]
           /\ \A x \in 1 .. Len(r) : (s \o r)[Len(s) + x] = r[x]
OBVIOUS

LEMMA AtMore ==
    ASSUME NEW A, NEW ss, NEW n \in Nat \ {0}, NEW F \in Seq(A), NEW a, NEW b,
           At(ss, n - 1, F, a, b), ss[n] \in Seq(A)
    PROVE  \E c, d : At(ss, n, F \o ss[n], c, d)
<1>1. PICK r \in Seq(A) : r = ss[n] OBVIOUS
<1>2. PICK l \in Nat, p \in Nat : l = Len(F) /\ p = Len(r) /\ DOMAIN F = 1 .. l /\ DOMAIN r = 1 .. p
  OBVIOUS
<1>3. PICK G : G = F \o r OBVIOUS
<1>4. /\ DOMAIN G = 1 .. l + p
      /\ \A x \in 1 .. l : G[x] = F[x]
      /\ \A x \in 1 .. p : G[l + x] = r[x]
  BY <1>2, <1>3, ConcatAt
<1> DEFINE c == [x \in 1 .. l + p |-> IF x <= l THEN a[x] ELSE n]
           d == [x \in 1 .. l + p |-> IF x <= l THEN b[x] ELSE x - l]
<1>5. \A x \in 1 .. l : x \in 1 .. l + p /\ c[x] = a[x] /\ d[x] = b[x] BY <1>2
<1>6. \A x \in 1 .. l + p : x \notin 1 .. l => x - l \in 1 .. p /\ c[x] = n /\ d[x] = x - l BY <1>2
<1>7. \A x \in 1 .. p : l + x \in 1 .. l + p /\ c[l + x] = n /\ d[l + x] = x BY <1>2
<1> HIDE DEF c, d
<1>8. ASSUME NEW x \in 1 .. l + p PROVE c[x] \in 1 .. n /\ d[x] \in DOMAIN ss[c[x]] /\ G[x] = ss[c[x]][d[x]]
  <2>1. CASE x \in 1 .. l
    <3>1. a[x] \in 1 .. n - 1 /\ b[x] \in DOMAIN ss[a[x]] /\ F[x] = ss[a[x]][b[x]]
      BY <1>2, <2>1 DEF At
    <3>2. a[x] \in 1 .. n BY <3>1
    <3> QED BY <1>4, <1>5, <2>1, <3>1, <3>2
  <2>2. CASE x \notin 1 .. l
    <3>1. x - l \in 1 .. p /\ c[x] = n /\ d[x] = x - l BY <1>6, <2>2
    <3>2. l + (x - l) = x OBVIOUS
    <3>3. G[x] = r[x - l] BY <1>4, <3>1, <3>2
    <3> QED BY <1>1, <1>2, <3>1, <3>3
  <2> QED BY <2>1, <2>2
<1>9. ASSUME NEW x \in 1 .. l + p, NEW y \in 1 .. l + p, c[x] = c[y], d[x] = d[y] PROVE x = y
  <2>1. \A z \in 1 .. l : c[z] # n
    <3> SUFFICES ASSUME NEW z \in 1 .. l PROVE c[z] # n OBVIOUS
    <3>1. a[z] \in 1 .. n - 1 BY <1>2 DEF At
    <3> QED BY <1>5, <3>1
  <2>2. CASE x \in 1 .. l
    <3>1. y \in 1 .. l BY <1>6, <1>9, <2>1, <2>2
    <3>2. \A u, v \in 1 .. l : a[u] = a[v] /\ b[u] = b[v] => u = v BY <1>2 DEF At
    <3>3. a[x] = a[y] /\ b[x] = b[y] BY <1>5, <1>9, <2>2, <3>1
    <3> QED BY <2>2, <3>1, <3>2, <3>3
  <2>3. CASE x \notin 1 .. l
    <3>1. y \notin 1 .. l BY <1>6, <1>9, <2>1, <2>3
    <3>2. x - l = y - l BY <1>6, <1>9, <2>3, <3>1
    <3> QED BY <3>2
  <2> QED BY <2>2, <2>3
<1>10. ASSUME NEW o \in 1 .. n, NEW i \in DOMAIN ss[o] PROVE \E x \in 1 .. l + p : c[x] = o /\ d[x] = i
  <2>1. CASE o = n BY <1>1, <1>2, <1>7, <2>1
  <2>2. CASE o # n
    <3>1. o \in 1 .. n - 1 BY <2>2
    <3>2. PICK x \in 1 .. l : a[x] = o /\ b[x] = i BY <1>2, <3>1 DEF At
    <3> QED BY <1>5, <3>2
  <2> QED BY <2>1, <2>2
<1>11. At(ss, n, G, c, d)
  <2>1. DOMAIN G = 1 .. l + p BY <1>4
  <2> HIDE DEF At
  <2>2. \A x \in DOMAIN G : c[x] \in 1 .. n /\ d[x] \in DOMAIN ss[c[x]] /\ G[x] = ss[c[x]][d[x]]
    BY <1>8, <2>1, Zenon
  <2>3. \A x, y \in DOMAIN G : c[x] = c[y] /\ d[x] = d[y] => x = y BY <1>9, <2>1, Zenon
  <2>4. \A o \in 1 .. n : \A i \in DOMAIN ss[o] : \E x \in DOMAIN G : c[x] = o /\ d[x] = i
    <3> SUFFICES ASSUME NEW o \in 1 .. n, NEW i \in DOMAIN ss[o]
                 PROVE  \E x \in DOMAIN G : c[x] = o /\ d[x] = i
      OBVIOUS
    <3>1. PICK x \in 1 .. l + p : c[x] = o /\ d[x] = i BY <1>10
    <3>2. x \in DOMAIN G BY <2>1, <3>1
    <3> QED BY <3>1, <3>2
  <2> QED BY <2>2, <2>3, <2>4, Zenon DEF At
<1> QED BY <1>1, <1>3, <1>11

LEMMA FlattenAt ==
    ASSUME NEW A, NEW ss \in Seq(Seq(A)), NEW m \in Nat, m = Len(ss)
    PROVE  \E a, b : At(ss, m, FlattenSeq(ss), a, b)
<1>0. \A i \in 1 .. m : ss[i] \in Seq(A) OBVIOUS
<1>1. \E a, b : At(ss, 0, <<>>, a, b)
  <2>1. DOMAIN <<>> = {} /\ 1 .. 0 = {} OBVIOUS
  <2> QED BY <2>1, Zenon DEF At
<1>2. CASE m = 0
  <2>1. ss = <<>>
    <3>1. PICK B : B = Seq(A) OBVIOUS
    <3>2. ss \in Seq(B) /\ Len(ss) = 0 BY <3>1, <1>2
    <3> QED BY <3>2, NoLength
  <2>2. FlattenSeq(ss) = ss BY <1>2, Zenon DEF FlattenSeq
  <2> QED BY <1>1, <1>2, <2>1, <2>2
<1>3. CASE m # 0
  <2>1. PICK K : Flat(ss, K, m) /\ FlattenSeq(ss) = K[m] BY <1>3, FlattenIsFlat
  <2> DEFINE T == {n \in 0 .. m : n # 0 => K[n] \in Seq(A) /\ \E a, b : At(ss, n, K[n], a, b)}
  <2>2. 0 \in T OBVIOUS
  <2>3. ASSUME NEW n \in 1 .. m, n - 1 \in T PROVE n \in T
    <3>1. n \in Nat \ {0} /\ n \in 0 .. m OBVIOUS
    <3>2. PICK F \in Seq(A) : (\E a, b : At(ss, n - 1, F, a, b)) /\ K[n] = F \o ss[n]
      <4>1. CASE n = 1
        <5>1. <<>> \in Seq(A) /\ n - 1 = 0 BY <4>1
        <5>2. K[n] = ss[n] BY <2>1, <4>1 DEF Flat
        <5>3. PICK r \in Seq(A) : r = ss[n] BY <1>0
        <5>4. <<>> \o r = r OBVIOUS
        <5> QED BY <1>1, <5>1, <5>2, <5>3, <5>4
      <4>2. CASE n # 1
        <5>1. K[n] = K[n - 1] \o ss[n] BY <2>1, <4>2 DEF Flat
        <5>2. n - 1 # 0 BY <4>2
        <5> QED BY <2>3, <5>1, <5>2
      <4> QED BY <4>1, <4>2
    <3>3. ss[n] \in Seq(A) BY <1>0
    <3>4. \E a, b : At(ss, n, F \o ss[n], a, b) BY <3>1, <3>2, <3>3, AtMore
    <3>5. F \o ss[n] \in Seq(A) BY <3>3
    <3> QED BY <3>1, <3>2, <3>4, <3>5
  <2>4. 0 .. m \subseteq T
    <3> HIDE DEF T
    <3> QED BY <2>2, <2>3, UpTo
  <2>5. m \in T BY <2>4
  <2> QED BY <1>3, <2>1, <2>5
<1> QED BY <1>2, <1>3

(* A sequence without repetitions.                                         *)
Once(s) == \A i, j \in DOMAIN s : s[i] = s[j] => i = j

LEMMA KeepAt ==
    ASSUME NEW A, NEW S, NEW s \in Seq(A), NEW m \in Nat, m = Len(s)
    PROVE  \E h : /\ Keep(s, S) \in Seq(A)
                  /\ \A x \in DOMAIN Keep(s, S) : h[x] \in 1 .. m /\ Keep(s, S)[x] = s[h[x]]
                  /\ \A x, y \in DOMAIN Keep(s, S) : h[x] = h[y] => x = y
<1> DEFINE From(k, n, h) == /\ k \in Seq(A)
                            /\ \A x \in DOMAIN k : h[x] \in 1 .. n /\ k[x] = s[h[x]]
                            /\ \A x, y \in DOMAIN k : h[x] = h[y] => x = y
<1>1. PICK K : Kept(s, S, K, m) /\ Keep(s, S) = K[m] BY KeepIsKept
<1>2. \A j \in 1 .. m : s[j] \in A OBVIOUS
<1> DEFINE T == {n \in 0 .. m : \E h : From(K[n], n, h)}
<1>3. 0 \in T
  <2>1. K[0] = <<>> /\ <<>> \in Seq(A) /\ DOMAIN <<>> = {} BY <1>1 DEF Kept
  <2>2. \E h : From(K[0], 0, h) BY <2>1, Zenon
  <2>3. 0 \in 0 .. m OBVIOUS
  <2> QED BY <2>2, <2>3
<1>4. ASSUME NEW n \in 1 .. m, n - 1 \in T PROVE n \in T
  <2>1. PICK h : From(K[n - 1], n - 1, h) BY <1>4
  <2>2. PICK k \in Seq(A) : k = K[n - 1] BY <2>1
  <2>3. K[n] = IF s[n] \in S THEN Append(k, s[n]) ELSE k BY <1>1, <2>2 DEF Kept
  <2>4. PICK l \in Nat : l = Len(k) /\ DOMAIN k = 1 .. l OBVIOUS
  <2>5. \A x \in 1 .. l : h[x] \in 1 .. n - 1 /\ h[x] \in 1 .. n /\ k[x] = s[h[x]]
    <3>1. \A x \in 1 .. l : h[x] \in 1 .. n - 1 /\ k[x] = s[h[x]] BY <2>1, <2>2, <2>4
    <3> QED BY <3>1
  <2>6. \A x, y \in 1 .. l : h[x] = h[y] => x = y BY <2>1, <2>2, <2>4
  <2>7. \E g : From(K[n], n, g)
    <3>1. CASE s[n] \notin S
      <4>1. From(k, n, h) BY <2>4, <2>5, <2>6
      <4>2. K[n] = k BY <2>3, <3>1
      <4> HIDE DEF From
      <4> QED BY <4>1, <4>2
    <3>2. CASE s[n] \in S
      <4>1. PICK G : G = Append(k, s[n]) OBVIOUS
      <4>2. /\ G \in Seq(A) /\ DOMAIN G = 1 .. l + 1 /\ G[l + 1] = s[n]
            /\ \A x \in 1 .. l : G[x] = k[x]
        BY <1>2, <2>4, <4>1
      <4> DEFINE g == [x \in 1 .. l + 1 |-> IF x <= l THEN h[x] ELSE n]
      <4>3. \A x \in 1 .. l : g[x] = h[x] OBVIOUS
      <4>4. g[l + 1] = n OBVIOUS
      <4>5. \A x \in 1 .. l + 1 : x \in 1 .. l \/ x = l + 1 OBVIOUS
      <4> HIDE DEF g
      <4>6. \A x \in 1 .. l + 1 : g[x] \in 1 .. n /\ G[x] = s[g[x]]
        BY <2>5, <4>2, <4>3, <4>4, <4>5
      <4>7. \A x \in 1 .. l : g[x] # n BY <2>5, <4>3
      <4>8. \A x, y \in 1 .. l + 1 : g[x] = g[y] => x = y
        BY <2>6, <4>3, <4>4, <4>5, <4>7
      <4>9. From(G, n, g) BY <4>2, <4>6, <4>8
      <4>10. K[n] = G BY <2>3, <3>2, <4>1
      <4> HIDE DEF From
      <4> QED BY <4>9, <4>10
    <3> QED BY <3>1, <3>2
  <2> HIDE DEF From
  <2> QED BY <2>7
<1>5. 0 .. m \subseteq T
  <2> HIDE DEF T
  <2> QED BY <1>3, <1>4, UpTo
<1>6. m \in T BY <1>5
<1> QED BY <1>1, <1>6

LEMMA KeepOnce ==
    ASSUME NEW A, NEW S, NEW s \in Seq(A), Once(s)
    PROVE  Once(Keep(s, S))
<1>1. PICK m \in Nat : m = Len(s) /\ DOMAIN s = 1 .. m OBVIOUS
<1>2. PICK h : /\ \A x \in DOMAIN Keep(s, S) : h[x] \in 1 .. m /\ Keep(s, S)[x] = s[h[x]]
               /\ \A x, y \in DOMAIN Keep(s, S) : h[x] = h[y] => x = y
  BY <1>1, KeepAt
<1> QED BY <1>1, <1>2 DEF Once

(* No port comes twice among the destinations of a task.                   *)
LEMMA DstsOnce ==
    ASSUME NEW t \in Producers
    PROVE  /\ Once(AllDsts(t)) /\ \A k \in Dsts(t) : \E i \in DOMAIN AllDsts(t) : AllDsts(t)[i] = k
           /\ \A o \in DOMAIN Outs[t] : Once(Outs[t][o])
           /\ \A o, p \in DOMAIN Outs[t] : \A k \in Range(Outs[t][o]) : k \in Range(Outs[t][p]) => o = p
<1>1. PICK ss : ss = Outs[t] OBVIOUS
<1>2. PICK B : B = Ports(Consumers) OBVIOUS
<1>3. ss \in Seq(Seq(B) \ {<<>>}) BY <1>1, <1>2, GraphAssumption
<1>4. PICK m \in Nat : m = Len(ss) /\ DOMAIN ss = 1 .. m BY <1>3
<1>5. ss \in Seq(Seq(B))
  <2>1. PICK C : C = Seq(B) OBVIOUS
  <2>2. ss \in Seq(C \ {<<>>}) BY <1>3, <2>1
  <2>3. ss \in Seq(C) BY <2>2
  <2> QED BY <2>1, <2>3
<1>6. PICK a, b : At(ss, m, FlattenSeq(ss), a, b) BY <1>4, <1>5, FlattenAt
<1>7. \A o, p \in DOMAIN ss : \A i \in DOMAIN ss[o], j \in DOMAIN ss[p] :
          ss[o][i] = ss[p][j] => o = p /\ i = j
  BY <1>1, GraphAssumption
<1>8. Once(FlattenSeq(ss)) BY <1>4, <1>6, <1>7 DEF At, Once
<1>9. ASSUME NEW k \in Dsts(t) PROVE \E i \in DOMAIN FlattenSeq(ss) : FlattenSeq(ss)[i] = k
  <2>1. PICK o \in DOMAIN ss : k \in Range(ss[o]) BY <1>1 DEF Dsts
  <2>2. PICK i \in DOMAIN ss[o] : k = ss[o][i] BY <2>1 DEF Range
  <2>3. PICK x \in DOMAIN FlattenSeq(ss) : a[x] = o /\ b[x] = i BY <1>4, <1>6 DEF At
  <2> QED BY <1>6, <2>2, <2>3 DEF At
<1>10. \A o \in DOMAIN ss : Once(ss[o]) BY <1>7 DEF Once
<1>11. \A o, p \in DOMAIN ss : \A k \in Range(ss[o]) : k \in Range(ss[p]) => o = p
  BY <1>7 DEF Range
<1> QED BY <1>1, <1>8, <1>9, <1>10, <1>11 DEF AllDsts

-----------------------------------------------------------------------------
(* Operations that are not both in the list of a thread, or not in that    *)
(* order of o and p: a stream becomes ready once, an encoder is opened     *)
(* once and a port is sent one packet, and who ends sends nothing more.    *)
Clash(o, p) ==
    \/ o.op = "ready" /\ p.op = "ready" /\ o.k = p.k
    \/ o.op = "open" /\ p.op \in {"open", "send"} /\ o.k = p.k
    \/ o.op = "send" /\ p.op = "send" /\ o.ts # NOPTS /\ p.ts # NOPTS /\ o.k = p.k
    \/ o.op \in {"exit", "emit", "receive"} /\ p.op = "send" /\ p.ts # NOPTS
    \/ o.op = "exit" /\ p.op \in {"waiting", "emit", "receive"}
Apart(s) == \A i, j \in DOMAIN s : i # j => ~ Clash(s[i], s[j])

(* The operations that clash with none.                                    *)
Loud == {"ready", "open", "send", "exit", "emit", "receive", "waiting"}
Mute(s) == \A o \in Range(s) : o.op \notin Loud

LEMMA MuteApart ==
    ASSUME NEW s, \A o \in Range(s) : o.op \notin Loud \/ o.op = "exit"
    PROVE  Apart(s)
BY DEF Range, Loud, Apart, Clash

LEMMA RangeConcat ==
    ASSUME NEW A, NEW s \in Seq(A), NEW r \in Seq(A)
    PROVE  \A o : o \in Range(s \o r) <=> o \in Range(s) \/ o \in Range(r)
<1>1. PICK l \in Nat, p \in Nat : l = Len(s) /\ p = Len(r) /\ DOMAIN s = 1 .. l /\ DOMAIN r = 1 .. p
  OBVIOUS
<1>2. PICK c : c = s \o r OBVIOUS
<1>3. /\ DOMAIN c = 1 .. l + p
      /\ \A x \in 1 .. l : c[x] = s[x]
      /\ \A x \in 1 .. p : c[l + x] = r[x]
  BY <1>1, <1>2, ConcatAt
<1>4. \A x \in 1 .. l + p : x \in 1 .. l \/ (x - l \in 1 .. p /\ l + (x - l) = x) OBVIOUS
<1>5. \A x \in 1 .. l : x \in 1 .. l + p OBVIOUS
<1>6. \A x \in 1 .. p : l + x \in 1 .. l + p OBVIOUS
<1>7. ASSUME NEW x \in 1 .. l + p PROVE c[x] \in Range(s) \/ c[x] \in Range(r)
  <2>1. CASE x \in 1 .. l BY <1>1, <1>3, <2>1 DEF Range
  <2>2. CASE x - l \in 1 .. p /\ l + (x - l) = x
    <3>1. c[x] = r[x - l] BY <1>3, <2>2
    <3> QED BY <1>1, <2>2, <3>1 DEF Range
  <2> QED BY <1>4, <2>1, <2>2
<1>8. ASSUME NEW x \in 1 .. l PROVE s[x] \in Range(c) BY <1>3, <1>5 DEF Range
<1>9. ASSUME NEW x \in 1 .. p PROVE r[x] \in Range(c)
  <2>1. c[l + x] = r[x] /\ l + x \in DOMAIN c BY <1>3, <1>6
  <2> QED BY <2>1 DEF Range
<1>10. ASSUME NEW o PROVE o \in Range(c) <=> o \in Range(s) \/ o \in Range(r)
  <2>1. ASSUME o \in Range(c) PROVE o \in Range(s) \/ o \in Range(r)
    <3>1. PICK x \in 1 .. l + p : o = c[x] BY <1>3, <2>1 DEF Range
    <3> QED BY <1>7, <3>1
  <2>2. ASSUME o \in Range(s) PROVE o \in Range(c)
    <3>1. PICK x \in 1 .. l : o = s[x] BY <1>1, <2>2 DEF Range
    <3> QED BY <1>8, <3>1
  <2>3. ASSUME o \in Range(r) PROVE o \in Range(c)
    <3>1. PICK x \in 1 .. p : o = r[x] BY <1>1, <2>3 DEF Range
    <3> QED BY <1>9, <3>1
  <2> QED BY <2>1, <2>2, <2>3
<1> QED BY <1>2, <1>10

LEMMA ApartConcat ==
    ASSUME NEW A, NEW s \in Seq(A), NEW r \in Seq(A), Apart(s), Apart(r),
           \A o \in Range(s), p \in Range(r) : ~ Clash(o, p) /\ ~ Clash(p, o)
    PROVE  Apart(s \o r)
<1>1. PICK l \in Nat, p \in Nat : l = Len(s) /\ p = Len(r) /\ DOMAIN s = 1 .. l /\ DOMAIN r = 1 .. p
  OBVIOUS
<1>2. PICK c : c = s \o r OBVIOUS
<1>3. /\ DOMAIN c = 1 .. l + p
      /\ \A x \in 1 .. l : c[x] = s[x]
      /\ \A x \in 1 .. p : c[l + x] = r[x]
  BY <1>1, <1>2, ConcatAt
<1>4. \A x \in 1 .. l + p : x \in 1 .. l \/ (x - l \in 1 .. p /\ l + (x - l) = x) OBVIOUS
<1>5. ASSUME NEW i \in 1 .. l + p, NEW j \in 1 .. l + p, i # j PROVE ~ Clash(c[i], c[j])
  <2>1. CASE i \in 1 .. l /\ j \in 1 .. l BY <1>1, <1>3, <1>5, <2>1 DEF Apart
  <2>2. CASE i \in 1 .. l /\ j \notin 1 .. l
    <3>1. c[j] = r[j - l] /\ j - l \in DOMAIN r /\ c[i] = s[i] /\ i \in DOMAIN s
      BY <1>1, <1>3, <1>4, <2>2
    <3>2. c[i] \in Range(s) /\ c[j] \in Range(r) BY <3>1 DEF Range
    <3> QED BY <3>2
  <2>3. CASE i \notin 1 .. l /\ j \in 1 .. l
    <3>1. c[i] = r[i - l] /\ i - l \in DOMAIN r /\ c[j] = s[j] /\ j \in DOMAIN s
      BY <1>1, <1>3, <1>4, <2>3
    <3>2. c[j] \in Range(s) /\ c[i] \in Range(r) BY <3>1 DEF Range
    <3> QED BY <3>2
  <2>4. CASE i \notin 1 .. l /\ j \notin 1 .. l
    <3>1. /\ c[i] = r[i - l] /\ i - l \in DOMAIN r /\ c[j] = r[j - l] /\ j - l \in DOMAIN r
      BY <1>1, <1>3, <1>4, <2>4
    <3>2. i - l # j - l BY <1>5
    <3> QED BY <3>1, <3>2 DEF Apart
  <2> QED BY <2>1, <2>2, <2>3, <2>4
<1> QED BY <1>2, <1>3, <1>5 DEF Apart

LEMMA TailParts ==
    ASSUME NEW A, NEW s \in Seq(A), s # <<>>
    PROVE  /\ \A o : o \in Range(s) <=> o = Head(s) \/ o \in Range(Tail(s))
           /\ Apart(s) => /\ Apart(Tail(s))
                          /\ \A o \in Range(Tail(s)) : ~ Clash(Head(s), o) /\ ~ Clash(o, Head(s))
<1>1. PICK l \in Nat : l + 1 = Len(s) /\ DOMAIN s = 1 .. l + 1
  <2>1. PICK m \in Nat : m = Len(s) /\ DOMAIN s = 1 .. m OBVIOUS
  <2>2. m # 0 BY <2>1, NoLength
  <2>3. m - 1 \in Nat /\ (m - 1) + 1 = m BY <2>1, <2>2
  <2> QED BY <2>1, <2>3
<1>2. PICK r : r = Tail(s) OBVIOUS
<1>3. DOMAIN r = 1 .. l /\ \A x \in 1 .. l : r[x] = s[x + 1] BY <1>1, <1>2
<1>4. Head(s) = s[1] OBVIOUS
<1>5. 1 \in 1 .. l + 1 /\ \A x \in 1 .. l : x + 1 \in 1 .. l + 1 /\ x + 1 # 1 OBVIOUS
<1>6. \A x \in 1 .. l + 1 : x = 1 \/ (x - 1 \in 1 .. l /\ (x - 1) + 1 = x) OBVIOUS
<1>7. ASSUME NEW x \in 1 .. l + 1 PROVE s[x] = Head(s) \/ s[x] \in Range(r)
  <2>1. CASE x = 1 BY <1>4, <2>1
  <2>2. CASE x # 1
    <3>1. x - 1 \in DOMAIN r /\ r[x - 1] = s[x] BY <1>3, <1>6, <2>2
    <3> QED BY <3>1 DEF Range
  <2> QED BY <2>1, <2>2
<1>8. ASSUME NEW x \in 1 .. l PROVE r[x] \in Range(s) BY <1>1, <1>3, <1>5 DEF Range
<1>9. Head(s) \in Range(s) BY <1>1, <1>4, <1>5 DEF Range
<1>10. \A o : o \in Range(s) <=> o = Head(s) \/ o \in Range(r)
  BY <1>1, <1>3, <1>7, <1>8, <1>9 DEF Range
<1>11. ASSUME Apart(s) PROVE Apart(r) /\ \A o \in Range(r) : ~ Clash(Head(s), o) /\ ~ Clash(o, Head(s))
  <2>1. \A i, j \in 1 .. l + 1 : i # j => ~ Clash(s[i], s[j]) BY <1>1, <1>11 DEF Apart
  <2>2. ASSUME NEW i \in 1 .. l, NEW j \in 1 .. l, i # j PROVE ~ Clash(r[i], r[j])
    <3>1. i + 1 # j + 1 BY <2>2
    <3> QED BY <1>3, <1>5, <2>1, <3>1
  <2>3. ASSUME NEW i \in 1 .. l PROVE ~ Clash(Head(s), r[i]) /\ ~ Clash(r[i], Head(s))
    BY <1>3, <1>4, <1>5, <2>1
  <2>4. Apart(r) BY <1>3, <2>2 DEF Apart
  <2>5. \A o \in Range(r) : \E i \in 1 .. l : o = r[i] BY <1>3 DEF Range
  <2> QED BY <2>3, <2>4, <2>5
<1> QED BY <1>2, <1>10, <1>11

LEMMA RangeSmall == Range(<<>>) = {} /\ \A o : Range(<<o>>) = {o}
<1>1. DOMAIN <<>> = {} OBVIOUS
<1>2. \A o : DOMAIN <<o>> = {1} /\ <<o>>[1] = o OBVIOUS
<1> QED BY <1>1, <1>2 DEF Range

LEMMA OneApart == ASSUME NEW o PROVE Apart(<<o>>)
<1>1. DOMAIN <<o>> = {1} OBVIOUS
<1> QED BY <1>1 DEF Apart

(* Operations with which a thread ends.                                    *)
Calm(o) == o.op \notin Loud \cup {"last_dts"} \/ o.op = "exit"
Late(o) == Calm(o) \/ (o.op = "send" /\ o.ts = NOPTS)
Exits(s) == \E o \in Range(s) : o.op = "exit"

LEMMA LateApart ==
    ASSUME NEW s, \A o \in Range(s) : Late(o)
    PROVE  Apart(s)
BY DEF Range, Loud, Late, Calm, Apart, Clash

LEMMA LatePairs == \A o, p : Late(o) /\ Late(p) => ~ Clash(o, p)
BY DEF Loud, Late, Calm, Clash

(* The list of t holds no "ready" for a stream whose encoder is not open   *)
(* or that another thread opened, and no "open" for an open encoder; a     *)
(* muxer is sent no item without timestamp.                                *)
OpenOK(t, o) ==
    /\ o.op = "ready" => Src(o.k) \in Encoders \cap opened /\ t = Opener(Src(o.k))
    /\ o.op = "open" => o.k[1] \notin opened
    /\ o.op = "send" /\ o.k \in MuxStreams => o.ts # NOPTS

(* A list with which a thread begins anew.                                 *)
Fresh(t, s) ==
    /\ s \in Seq(Ops(t))
    /\ Apart(s)
    /\ \A o \in Range(s) : OpenOK(t, o) /\ o.op \notin {"ready", "last_dts"}

LEMMA MapRange ==
    ASSUME NEW P, NEW ports \in Seq(P), NEW name, NEW ts
    PROVE  /\ DOMAIN OpsFor(name, ports, ts) = DOMAIN ports
           /\ \A i \in DOMAIN ports : OpsFor(name, ports, ts)[i] = Op(name, ports[i], ts)
           /\ \A o \in Range(OpsFor(name, ports, ts)) :
                 /\ o.op = name /\ o.ts = ts
                 /\ \E i \in DOMAIN ports : o = Op(name, ports[i], ts)
<1>1. /\ DOMAIN OpsFor(name, ports, ts) = DOMAIN ports
      /\ \A i \in DOMAIN ports : OpsFor(name, ports, ts)[i] = Op(name, ports[i], ts)
  BY DEF OpsFor
<1>2. ASSUME NEW o \in Range(OpsFor(name, ports, ts))
      PROVE  o.op = name /\ o.ts = ts /\ \E i \in DOMAIN ports : o = Op(name, ports[i], ts)
  <2>1. PICK i \in DOMAIN ports : o = Op(name, ports[i], ts) BY <1>1 DEF Range
  <2>2. o.op = name /\ o.ts = ts BY <2>1 DEF Op
  <2> QED BY <2>1, <2>2
<1> QED BY <1>1, <1>2

LEMMA CleanupCalm ==
    ASSUME NEW t \in Tasks, NEW err, NEW dsts, t \notin Muxers => dsts \in Seq(Feeds(t))
    PROVE  (\A o \in Range(CleanupOps(t, err, dsts)) : Calm(o)) /\ Exits(CleanupOps(t, err, dsts))
<1>1. t \in Threads BY DEF Threads
<1>2. \A n \in Plain : <<Op(n, On(t), NOPTS)>> \in Seq(Ops(t)) BY <1>1, MakesOp, OneOp
<1>3. \A n \in Plain : n \notin Loud \/ n = "exit" =>
          <<Op(n, On(t), NOPTS)>> \in Seq(Ops(t)) /\ \A o \in Range(<<Op(n, On(t), NOPTS)>>) : Calm(o)
  <2> SUFFICES ASSUME NEW n \in Plain, n \notin Loud \/ n = "exit"
               PROVE  \A o \in Range(<<Op(n, On(t), NOPTS)>>) : Calm(o)
    BY <1>2
  <2>0. n # "last_dts" BY DEF Plain
  <2>1. PICK x : x = Op(n, On(t), NOPTS) OBVIOUS
  <2>2. x.op = n BY <2>1 DEF Op
  <2>3. Range(<<x>>) = {x} BY RangeSmall
  <2> QED BY <2>0, <2>1, <2>2, <2>3 DEF Calm
<1> DEFINE Fine(s) == s \in Seq(Ops(t)) /\ \A o \in Range(s) : Calm(o)
<1>4. /\ Fine(<<Op("receive_close", On(t), NOPTS)>>) /\ Fine(<<Op("task_exited", On(t), NOPTS)>>)
      /\ Fine(<<Op("task_failed", On(t), NOPTS)>>) /\ Fine(<<Op("exit", On(t), NOPTS)>>)
  <2>1. \A n \in {"receive_close", "task_exited", "task_failed", "exit"} : n \in Plain /\ (n \notin Loud \/ n = "exit")
    BY DEF Plain, Loud
  <2> QED BY <1>3, <2>1
<1>5. Fine(<<>>) BY NoOps, RangeSmall
<1>6. \A r, s : Fine(r) /\ Fine(s) => Fine(r \o s)
  <2> SUFFICES ASSUME NEW r \in Seq(Ops(t)), NEW s \in Seq(Ops(t)), Fine(r), Fine(s) PROVE Fine(r \o s)
    OBVIOUS
  <2>1. \A o : o \in Range(r \o s) <=> o \in Range(r) \/ o \in Range(s) BY RangeConcat
  <2>2. r \o s \in Seq(Ops(t)) BY MoreOps
  <2> QED BY <2>1, <2>2
<1>7. t \in Muxers => Fine(<<Op("mux_done", On(t), NOPTS), Op("mux_count", On(t), NOPTS)>>)
  <2> SUFFICES ASSUME t \in Muxers
               PROVE  Fine(<<Op("mux_done", On(t), NOPTS), Op("mux_count", On(t), NOPTS)>>)
    OBVIOUS
  <2>1. PICK a \in Ops(t) : a = Op("mux_done", On(t), NOPTS) BY MakesOp
  <2>2. PICK b \in Ops(t) : b = Op("mux_count", On(t), NOPTS) BY MakesOp
  <2>3. <<a, b>> \in Seq(Ops(t)) OBVIOUS
  <2>4. Range(<<a, b>>) = {a, b} BY DEF Range
  <2>5. Calm(a) /\ Calm(b) BY <2>1, <2>2 DEF Calm, Loud, Op
  <2> QED BY <2>1, <2>2, <2>3, <2>4, <2>5
<1>8. t \notin Muxers => Fine(OpsFor("finish", dsts, NOPTS))
  <2> SUFFICES ASSUME t \notin Muxers PROVE Fine(OpsFor("finish", dsts, NOPTS)) OBVIOUS
  <2>1. \A k \in Feeds(t) : Op("finish", k, NOPTS) \in Ops(t) BY MakesOp DEF NOPTS
  <2>2. OpsFor("finish", dsts, NOPTS) \in Seq(Ops(t)) BY <2>1, MakesOps
  <2>3. \A o \in Range(OpsFor("finish", dsts, NOPTS)) : o.op = "finish" BY MapRange
  <2> QED BY <2>2, <2>3 DEF Calm, Loud
<1> DEFINE a == IF t \in Muxers
                  THEN <<Op("mux_done", On(t), NOPTS), Op("mux_count", On(t), NOPTS)>>
                  ELSE (IF Closed(t) THEN <<>> ELSE <<Op("receive_close", On(t), NOPTS)>>)
                       \o OpsFor("finish", dsts, NOPTS)
           b == IF t \in Waiters THEN <<Op("task_exited", On(t), NOPTS)>> ELSE <<>>
           c == IF err THEN <<Op("task_failed", On(t), NOPTS)>> ELSE <<>>
           e == <<Op("exit", On(t), NOPTS)>>
<1>9. Fine(a)
  <2> DEFINE x == IF Closed(t) THEN <<>> ELSE <<Op("receive_close", On(t), NOPTS)>>
             y == OpsFor("finish", dsts, NOPTS)
  <2>1. Fine(x)
    <3> HIDE DEF Fine
    <3> QED BY <1>4, <1>5
  <2>2. t \notin Muxers => Fine(x \o y)
    <3> HIDE DEF x, y, Fine
    <3> QED BY <2>1, <1>6, <1>8 DEF y
  <2> HIDE DEF Fine
  <2> QED BY <1>7, <2>2
<1>10. Fine(b) /\ Fine(c) /\ Fine(e)
  <2> HIDE DEF Fine
  <2> QED BY <1>4, <1>5
<1>11. CleanupOps(t, err, dsts) = a \o b \o c \o e BY DEF CleanupOps
<1>12. Fine(a \o b \o c) /\ Fine(a \o b \o c \o e)
  <2> HIDE DEF a, b, c, e, Fine
  <2>1. Fine(a \o b) BY <1>6, <1>9, <1>10
  <2>2. Fine(a \o b \o c) BY <1>6, <1>10, <2>1
  <2> QED BY <1>6, <1>10, <2>2
<1>13. Exits(a \o b \o c \o e)
  <2>1. PICK s \in Seq(Ops(t)), r \in Seq(Ops(t)) : s = a \o b \o c /\ r = e
    BY <1>10, <1>12
  <2>2. \A o : o \in Range(s \o r) <=> o \in Range(s) \/ o \in Range(r) BY RangeConcat
  <2>3. Op("exit", On(t), NOPTS) \in Range(r) BY <2>1, RangeSmall
  <2>4. Op("exit", On(t), NOPTS).op = "exit" BY DEF Op
  <2>5. Exits(s \o r) BY <2>2, <2>3, <2>4 DEF Exits
  <2> QED BY <2>1, <2>5
<1> QED BY <1>11, <1>12, <1>13

LEMMA CalmFresh ==
    ASSUME NEW t, NEW s \in Seq(Ops(t)), \A o \in Range(s) : Calm(o)
    PROVE  Fresh(t, s)
<1>1. Apart(s) BY LateApart DEF Late
<1>2. \A o \in Range(s) : OpenOK(t, o) /\ o.op \notin {"ready", "last_dts"} BY DEF Calm, Loud, OpenOK
<1> QED BY <1>1, <1>2 DEF Fresh

LEMMA FailFresh ==
    ASSUME NEW t \in Tasks
    PROVE  Fresh(t, FailOps(t)) /\ Exits(FailOps(t)) /\ \A o \in Range(FailOps(t)) : Calm(o)
<1>1. t \notin Muxers => AllDsts(t) \in Seq(Feeds(t)) BY FeedsAll DEF Tasks
<1>2. (\A o \in Range(FailOps(t)) : Calm(o)) /\ Exits(FailOps(t)) BY <1>1, CleanupCalm DEF FailOps
<1>3. FailOps(t) \in Seq(Ops(t)) BY FailType
<1> QED BY <1>2, <1>3, CalmFresh

(* Only demuxers and encoders feed muxers.                                 *)
LEMMA MuxSources ==
    ASSUME NEW t \in Decoders \cup Filter, NEW k \in Feeds(t)
    PROVE  k \notin MuxStreams
<1>1. k \in Dsts(t) BY DEF Feeds
<1>2. k \in Ports(Filter \cup Encoders) BY <1>1, GraphAssumption
<1>3. k[1] \in Filter \cup Encoders BY <1>2, PortIs
<1>4. k \in MuxStreams => k[1] \in Muxers BY PortIs DEF MuxStreams
<1> QED BY <1>3, <1>4, Kinds

LEMMA TwoOps == ASSUME NEW A, NEW a \in A, NEW b \in A PROVE <<a, b>> \in Seq(A)
OBVIOUS

LEMMA Pair == \A d, e : <<d>> \o <<e>> = <<d, e>>
<1> SUFFICES ASSUME NEW d, NEW e PROVE <<d>> \o <<e>> = <<d, e>> OBVIOUS
<1>1. PICK A : d \in A /\ e \in A
  <2>1. d \in {d, e} /\ e \in {d, e} OBVIOUS
  <2> QED BY <2>1
<1>2. PICK s \in Seq(A) : s = <<d>> BY <1>1, OneOp
<1>3. PICK r \in Seq(A) : r = <<e>> BY <1>1, OneOp
<1>4. DOMAIN (s \o r) = 1 .. 2 /\ (s \o r)[1] = d /\ (s \o r)[2] = e
  <2>1. Len(s) = 1 /\ Len(r) = 1 /\ s[1] = d /\ r[1] = e BY <1>2, <1>3
  <2>2. DOMAIN (s \o r) = 1 .. 1 + 1 /\ (s \o r)[1] = s[1] /\ (s \o r)[1 + 1] = r[1]
    BY <2>1, ConcatAt
  <2> QED BY <2>1, <2>2
<1>5. PICK u \in Seq(A) : u = s \o r BY MoreOps
<1>6. PICK v \in Seq(A) : v = <<d, e>> BY <1>1, TwoOps
<1>7. DOMAIN u = 1 .. 2 /\ u[1] = d /\ u[2] = e BY <1>4, <1>5
<1>8. DOMAIN v = 1 .. 2 /\ v[1] = d /\ v[2] = e BY <1>6
<1>9. u = v
  <2>1. \A x \in 1 .. 2 : x = 1 \/ x = 2 OBVIOUS
  <2>2. \A x \in 1 .. 2 : u[x] = v[x] BY <1>7, <1>8, <2>1
  <2> QED BY <1>7, <1>8, <2>2
<1> QED BY <1>2, <1>3, <1>5, <1>6, <1>9

(* The loud operations of close_output(): at most one per output.          *)
LEMMA CloseOutputLate ==
    ASSUME NEW f \in Filter, NEW open \in Seq(Feeds(f)), Once(open)
    PROVE  /\ Apart(CloseOutputOps(f, open))
           /\ \A o \in Range(CloseOutputOps(f, open)) :
                 \/ Late(o) /\ (o.op = "send" => o.k \notin MuxStreams)
                 \/ o.op = "open" /\ o.k[1] \notin opened
<1> DEFINE Dummy(k) == CASE nout[f] > 0                -> <<>>
                      [] k[1] \in Filter            -> <<Op("send", k, NOPTS)>>
                      [] k[1] \in Encoders \ opened -> <<Op("open", k, NOPTS)>>
                      [] OTHER                      -> <<>>
           pair(k) == Dummy(k) \o <<Op("finish", k, NOPTS)>>
           both == [i \in DOMAIN open |-> pair(open[i])]
<1>1. CloseOutputOps(f, open) = FlattenSeq(both) BY DEF CloseOutputOps
<1>2. ASSUME NEW k \in Feeds(f)
      PROVE  \E d \in {Op("send", k, NOPTS), Op("open", k, NOPTS)} :
               /\ d.op = "open" => k[1] \in Encoders /\ k[1] \notin opened
               /\ pair(k) \in {<<Op("finish", k, NOPTS)>>, <<d, Op("finish", k, NOPTS)>>}
  <2>1. PICK e : e = Op("finish", k, NOPTS) OBVIOUS
  <2>2. \A d : <<d>> \o <<e>> = <<d, e>> BY Pair
  <2>3. <<>> \o <<e>> = <<e>> OBVIOUS
  <2>4. \/ Dummy(k) = <<>> \/ Dummy(k) = <<Op("send", k, NOPTS)>>
        \/ k[1] \in Encoders \ opened /\ Dummy(k) = <<Op("open", k, NOPTS)>>
    OBVIOUS
  <2>5. Op("send", k, NOPTS).op = "send" BY DEF Op
  <2>6. pair(k) = Dummy(k) \o <<e>> BY <2>1
  <2> HIDE DEF Dummy, pair
  <2>7. CASE Dummy(k) = <<>> BY <2>1, <2>3, <2>5, <2>6, <2>7
  <2>8. CASE Dummy(k) = <<Op("send", k, NOPTS)>> BY <2>1, <2>2, <2>5, <2>6, <2>8
  <2>9. CASE k[1] \in Encoders \ opened /\ Dummy(k) = <<Op("open", k, NOPTS)>>
    BY <2>1, <2>2, <2>6, <2>9
  <2> QED BY <2>4, <2>7, <2>8, <2>9
<1>3. ASSUME NEW k \in Feeds(f), NEW i \in DOMAIN pair(k), NEW o, o = pair(k)[i]
      PROVE  /\ o.op \notin Loud \/ (i = 1 /\ o.k = k)
             /\ \/ Late(o) /\ (o.op = "send" => o.k \notin MuxStreams)
                \/ o.op = "open" /\ o.k[1] \notin opened
             /\ o.op \in Loud => o.op = "open" \/ (o.op = "send" /\ o.ts = NOPTS)
  <2>1. PICK e : e = Op("finish", k, NOPTS) OBVIOUS
  <2>2. PICK d \in {Op("send", k, NOPTS), Op("open", k, NOPTS)} :
               /\ d.op = "open" => k[1] \in Encoders /\ k[1] \notin opened
               /\ pair(k) \in {<<e>>, <<d, e>>}
    BY <1>2, <2>1
  <2>3. k \notin MuxStreams BY MuxSources
  <2>4. DOMAIN <<e>> = {1} /\ <<e>>[1] = e OBVIOUS
  <2>5. DOMAIN <<d, e>> = {1, 2} /\ <<d, e>>[1] = d /\ <<d, e>>[2] = e OBVIOUS
  <2>6. o = e \/ (i = 1 /\ o = d) 
    <3> HIDE DEF pair
    <3> QED BY <1>3, <2>2, <2>4, <2>5
  <2>7. e.op = "finish" BY <2>1 DEF Op
  <2>8. d.k = k /\ d.ts = NOPTS /\ d.op \in {"send", "open"} BY <2>2 DEF Op
  <2> HIDE DEF pair
  <2> QED BY <2>2, <2>3, <2>6, <2>7, <2>8 DEF Loud, Late, Calm
<1>4. PICK n \in Nat : n = Len(open) /\ DOMAIN open = 1 .. n OBVIOUS
<1>5. \A i \in 1 .. n : open[i] \in Feeds(f) BY <1>4
<1>6. both \in Seq(Seq(Ops(f) \cup [op : {"open"}, k : Feeds(f), ts : Nat]))
  <2>1. PICK A : A = Ops(f) \cup [op : {"open"}, k : Feeds(f), ts : Nat] OBVIOUS
  <2>2. PICK B : B = Seq(A) OBVIOUS
  <2>3. ASSUME NEW i \in 1 .. n PROVE pair(open[i]) \in B
    <3>1. PICK k \in Feeds(f) : k = open[i] BY <1>5
    <3>2. PICK e \in A : e = Op("finish", k, NOPTS) BY <2>1, MakesOp DEF NOPTS
    <3>3. Op("send", k, NOPTS) \in A BY <2>1, MakesOp DEF NOPTS
    <3>4. Op("open", k, NOPTS) \in A BY <2>1 DEF Op, NOPTS
    <3>5. PICK d \in A : pair(k) \in {<<e>>, <<d, e>>} BY <1>2, <3>2, <3>3, <3>4
    <3>6. <<e>> \in Seq(A) /\ <<d, e>> \in Seq(A) OBVIOUS
    <3> HIDE DEF pair
    <3> QED BY <2>2, <3>1, <3>5, <3>6
  <2>4. both \in Seq(B)
    <3> HIDE DEF pair
    <3>1. [i \in 1 .. n |-> pair(open[i])] \in Seq(B) BY <2>3
    <3> QED BY <1>4, <3>1
  <2> HIDE DEF both
  <2> QED BY <2>1, <2>2, <2>4
<1>7. n = Len(both) /\ \A i \in 1 .. n : both[i] = pair(open[i])
  <2> HIDE DEF pair
  <2>1. DOMAIN both = 1 .. n BY <1>4
  <2>2. \A i \in 1 .. n : both[i] = pair(open[i]) BY <1>4
  <2>3. Len(both) \in Nat /\ DOMAIN both = 1 .. Len(both)
    <3> HIDE DEF both
    <3> QED BY <1>6
  <2> HIDE DEF both
  <2>4. n = Len(both) BY <2>1, <2>3
  <2> QED BY <2>2, <2>4
<1> HIDE DEF both, pair
<1>8. PICK F : F = FlattenSeq(both) OBVIOUS
<1>9. PICK a, b : At(both, n, F, a, b) BY <1>6, <1>7, <1>8, FlattenAt
<1>10. ASSUME NEW x \in DOMAIN F
       PROVE  /\ a[x] \in 1 .. n
              /\ F[x].op \notin Loud \/ (b[x] = 1 /\ F[x].k = open[a[x]])
              /\ \/ Late(F[x]) /\ (F[x].op = "send" => F[x].k \notin MuxStreams)
                 \/ F[x].op = "open" /\ F[x].k[1] \notin opened
              /\ F[x].op \in Loud => F[x].op = "open" \/ (F[x].op = "send" /\ F[x].ts = NOPTS)
  <2>1. a[x] \in 1 .. n /\ b[x] \in DOMAIN both[a[x]] /\ F[x] = both[a[x]][b[x]] BY <1>9 DEF At
  <2>2. both[a[x]] = pair(open[a[x]]) BY <1>7, <2>1
  <2>3. PICK k \in Feeds(f) : k = open[a[x]] BY <1>5, <2>1
  <2>4. b[x] \in DOMAIN pair(k) /\ F[x] = pair(k)[b[x]] BY <2>1, <2>2, <2>3
  <2> QED BY <1>3, <2>1, <2>3, <2>4
<1>11. ASSUME NEW x \in DOMAIN F, NEW y \in DOMAIN F, Clash(F[x], F[y]) PROVE x = y
  <2>1. F[x].op \in Loud /\ F[y].op \in Loud BY <1>11 DEF Clash, Loud
  <2>2. F[x].k = F[y].k BY <1>10, <1>11, <2>1 DEF Clash
  <2>3. /\ a[x] \in 1 .. n /\ b[x] = 1 /\ F[x].k = open[a[x]]
        /\ a[y] \in 1 .. n /\ b[y] = 1 /\ F[y].k = open[a[y]]
    BY <1>10, <2>1
  <2>4. a[x] = a[y] BY <1>4, <2>2, <2>3 DEF Once
  <2> QED BY <1>9, <2>3, <2>4 DEF At
<1>12. Apart(F) BY <1>11 DEF Apart
<1> QED BY <1>1, <1>8, <1>10, <1>12 DEF Range

(* What a thread does at its end, or when the main thread stops it.        *)
LEMMA EndFresh ==
    ASSUME NEW t \in Tasks
    PROVE  /\ Fresh(t, EndOps(t)) /\ Exits(EndOps(t))
           /\ \A o \in Range(EndOps(t)) : Late(o) \/ o.op = "open"
           /\ t \notin Filter => \A o \in Range(EndOps(t)) : Calm(o)
<1> DEFINE open == Keep(AllDsts(t), Dsts(t) \ dst_finished)
<1>1. t \notin Muxers => open \in Seq(Feeds(t)) /\ Once(open)
  <2> SUFFICES ASSUME t \notin Muxers PROVE open \in Seq(Feeds(t)) /\ Once(open) OBVIOUS
  <2>1. AllDsts(t) \in Seq(Feeds(t)) /\ Once(AllDsts(t)) BY FeedsAll, DstsOnce DEF Tasks
  <2> QED BY <2>1, KeepStays, KeepOnce
<1> HIDE DEF open
<1>2. (\A o \in Range(CleanupOps(t, FALSE, open)) : Calm(o)) /\ Exits(CleanupOps(t, FALSE, open))
  BY <1>1, CleanupCalm
<1>3. <<>> \in Seq(Feeds(t)) OBVIOUS
<1>4. (\A o \in Range(CleanupOps(t, FALSE, <<>>)) : Calm(o)) /\ Exits(CleanupOps(t, FALSE, <<>>))
  BY <1>3, CleanupCalm
<1>5. EndOps(t) \in Seq(Ops(t)) BY EndType
<1>6. EndOps(t) = IF t \in Filter /\ Configured(t)
                    THEN CloseOutputOps(t, open) \o CleanupOps(t, FALSE, <<>>)
                    ELSE CleanupOps(t, FALSE, open)
  BY DEF EndOps, open
<1>7. CASE t \in Filter /\ Configured(t)
  <2>1. PICK c \in Seq(Ops(t)) : c = CloseOutputOps(t, open) BY <1>1, <1>7, CloseOutputType, Kinds
  <2>2. PICK d \in Seq(Ops(t)) : d = CleanupOps(t, FALSE, <<>>) BY <1>3, CleanupType
  <2>3. /\ Apart(c)
        /\ \A o \in Range(c) : \/ Late(o) /\ (o.op = "send" => o.k \notin MuxStreams)
                               \/ o.op = "open" /\ o.k[1] \notin opened
    BY <1>1, <1>7, <2>1, CloseOutputLate, Kinds
  <2>4. (\A o \in Range(d) : Calm(o)) /\ Exits(d) BY <1>4, <2>2
  <2>5. Apart(d) BY <2>4, LateApart DEF Late
  <2>6. \A o \in Range(c), p \in Range(d) : ~ Clash(o, p) /\ ~ Clash(p, o)
    BY <2>3, <2>4 DEF Clash, Late, Calm, Loud
  <2>7. Apart(c \o d) BY <2>3, <2>5, <2>6, ApartConcat
  <2>8. \A o : o \in Range(c \o d) <=> o \in Range(c) \/ o \in Range(d) BY RangeConcat
  <2>9. \A o \in Range(c \o d) : \/ Late(o) /\ (o.op = "send" => o.k \notin MuxStreams)
                                 \/ o.op = "open" /\ o.k[1] \notin opened
    BY <2>3, <2>4, <2>8 DEF Late, Calm, Loud
  <2>10. \A o \in Range(c \o d) : OpenOK(t, o) /\ o.op \notin {"ready", "last_dts"} /\ (Late(o) \/ o.op = "open")
    BY <2>9 DEF OpenOK, Late, Calm, Loud
  <2>11. Exits(c \o d) BY <2>4, <2>8 DEF Exits
  <2>12. EndOps(t) = c \o d BY <1>6, <1>7, <2>1, <2>2
  <2> QED BY <1>5, <1>7, <2>7, <2>10, <2>11, <2>12 DEF Fresh
<1>8. CASE ~(t \in Filter /\ Configured(t))
  <2>1. (\A o \in Range(EndOps(t)) : Calm(o)) /\ Exits(EndOps(t)) BY <1>2, <1>6, <1>8
  <2> QED BY <1>5, <2>1, CalmFresh DEF Late
<1> QED BY <1>7, <1>8

LEMMA StopFresh == Fresh(Main, StopOps) /\ Exits(StopOps) /\ \A o \in Range(StopOps) : Calm(o)
<1>1. PICK s \in Seq(Stops) : s = StopOps BY StopType
<1>2. \A i \in DOMAIN s : s[i] \in Stops OBVIOUS
<1>3. \A o \in Range(s) : Calm(o) BY <1>2 DEF Range, Stops, Calm, Loud
<1>4. Exits(StopOps)
  <2> DEFINE a == [i \in DOMAIN Filters |-> Op("stop_waiter", On(Filters[i]), NOPTS)]
             b == FlattenSeq([i \in DOMAIN Demuxers |->
                     <<Op("stop_waiter", On(Demuxers[i]), NOPTS), Op("unfreeze", On(Demuxers[i]), NOPTS)>>])
             c == OpsFor("join_mux", SetToSeq({On(m) : m \in Muxers}), NOPTS)
             p == <<Op("terminate", On(Main), NOPTS)>>
             q == <<Op("join", On(Main), NOPTS)>>
             r == <<Op("exit", On(Main), NOPTS)>>
  <2>1. StopOps = p \o a \o b \o q \o c \o r BY DEF StopOps
  <2>2. a \in Seq(Stops) /\ b \in Seq(Stops) /\ c \in Seq(Stops) BY StopParts
  <2>3. p \in Seq(Stops) /\ q \in Seq(Stops) /\ r \in Seq(Stops) BY MakesStop, OneOp
  <2>4. PICK x : x = Op("exit", On(Main), NOPTS) OBVIOUS
  <2>5. x.op = "exit" BY <2>4 DEF Op
  <2>6. x \in Range(r) BY <2>4, RangeSmall
  <2> HIDE DEF a, b, c, p, q, r
  <2>7. PICK u \in Seq(Stops) : u = p \o a \o b \o q \o c BY <2>2, <2>3, MoreOps
  <2>8. StopOps = u \o r BY <2>1, <2>7
  <2>9. x \in Range(u \o r) BY <2>3, <2>6, RangeConcat
  <2> QED BY <2>5, <2>8, <2>9 DEF Exits
<1>5. \A o \in Range(StopOps) : Calm(o) BY <1>1, <1>3
<1>6. Fresh(Main, StopOps) BY <1>5, StopType, CalmFresh
<1> QED BY <1>4, <1>5, <1>6

(* One packet or frame for each consumer.                                  *)
LEMMA SendsFresh ==
    ASSUME NEW t \in Producers, NEW ports \in Seq(Feeds(t)), Once(ports), NEW ts \in Nat,
           ts = NOPTS => t \in Decoders \cup Filter
    PROVE  Fresh(t, OpsFor("send", ports, ts))
<1>1. PICK s \in Seq(Ops(t)) : s = OpsFor("send", ports, ts) BY SendsType
<1>2. DOMAIN s = DOMAIN ports /\ \A i \in DOMAIN ports : s[i] = Op("send", ports[i], ts)
  BY <1>1, MapRange
<1>3. \A i \in DOMAIN ports : s[i].op = "send" /\ s[i].k = ports[i] /\ s[i].ts = ts BY <1>2 DEF Op
<1>4. Apart(s) BY <1>2, <1>3 DEF Apart, Clash, Once
<1>5. \A i \in DOMAIN ports : ports[i] \in Feeds(t) OBVIOUS
<1>6. \A i \in DOMAIN ports : ts = NOPTS => ports[i] \notin MuxStreams BY <1>5, MuxSources
<1>7. \A o \in Range(s) : OpenOK(t, o) /\ o.op \notin {"ready", "last_dts"} BY <1>2, <1>3, <1>6 DEF Range, OpenOK
<1> QED BY <1>1, <1>4, <1>7 DEF Fresh

(* What precedes a packet or frame.                                        *)
Mild(o) == o.op \notin Loud \cup {"last_dts"} \/ o.op \in {"emit", "receive", "waiting"}

LEMMA MildFresh ==
    ASSUME NEW t, NEW s \in Seq(Ops(t)), \A o \in Range(s) : Mild(o)
    PROVE  Fresh(t, s)
<1>1. Apart(s) BY DEF Range, Loud, Mild, Apart, Clash
<1>2. \A o \in Range(s) : OpenOK(t, o) /\ o.op \notin {"ready", "last_dts"} BY DEF Mild, Loud, OpenOK
<1> QED BY <1>1, <1>2 DEF Fresh

LEMMA WaitMild ==
    ASSUME NEW t \in Threads
    PROVE  \A o \in Range(WaitOps(t)) : o.op = "waiting"
<1>1. \A o \in Range(<<Op("waiting", On(t), NOPTS)>>) : o.op = "waiting"
  <2>1. PICK x : x = Op("waiting", On(t), NOPTS) OBVIOUS
  <2>2. x.op = "waiting" BY <2>1 DEF Op
  <2>3. Range(<<x>>) = {x} BY RangeSmall
  <2> QED BY <2>1, <2>2, <2>3
<1> QED BY <1>1, RangeSmall DEF WaitOps

LEMMA FreshConcat ==
    ASSUME NEW t, NEW s, NEW r, Fresh(t, s), Fresh(t, r),
           \A o \in Range(s), p \in Range(r) : ~ Clash(o, p) /\ ~ Clash(p, o)
    PROVE  Fresh(t, s \o r)
<1>1. s \in Seq(Ops(t)) /\ r \in Seq(Ops(t)) /\ Apart(s) /\ Apart(r) BY DEF Fresh
<1>2. Apart(s \o r) BY <1>1, ApartConcat
<1>3. \A o : o \in Range(s \o r) <=> o \in Range(s) \/ o \in Range(r) BY <1>1, RangeConcat
<1>4. s \o r \in Seq(Ops(t)) BY <1>1, MoreOps
<1> QED BY <1>2, <1>3, <1>4 DEF Fresh

-----------------------------------------------------------------------------
(* How the lists change.                                                   *)
ListInv == \A t \in Threads : Apart(todo[t]) /\ \A o \in Range(todo[t]) : OpenOK(t, o)

Ended(t) == Exits(todo[t])
Items(s) == {o \in Range(s) : o.op = "send" /\ o.ts # NOPTS}

(* A thread goes on with its list, comes to its end, or begins a new turn  *)
(* of its loop when it has nothing left to send.                           *)
Dated(q, o) == \A p \in Range(q) : p.op = "last_dts" => o.op = "send" /\ p.k = o.k /\ p.ts = o.ts
GoesOn(u) ==
    /\ todo[u] # <<>> /\ Head(todo[u]).op # "exit"
    /\ Head(todo[u]).op = "send" => Send(u) \/ SendToPreMux(u)
    /\ \E q \in Seq(Ops(u)) : Mute(q) /\ Dated(q, Head(todo[u])) /\ todo'[u] = q \o Tail(todo[u])
Ends(u) == Fresh(u, todo'[u]) /\ Exits(todo'[u]) /\ Items(todo'[u]) = {}
Begins(u) == Fresh(u, todo'[u]) /\ ~ Ended(u) /\ Items(todo[u]) = {}
Rests(u) == Begins(u) /\ Items(todo'[u]) = {}
Quiet(u) == todo'[u] = todo[u] \/ GoesOn(u) \/ Ends(u) \/ Rests(u)
Moves(u) == Quiet(u) \/ Begins(u)

LEMMA QuietMoves == (\A u \in Threads : Quiet(u)) => \A u \in Threads : Moves(u)
BY DEF Moves

LEMMA MoveGoesOn ==
    ASSUME TodoOK, NEW t \in Threads, NEW n, Next1(t, n), n # "exit",
           n = "send" => Send(t) \/ SendToPreMux(t),
           NEW q \in Seq(Ops(t)), Mute(q), Dated(q, Head(todo[t])), Replace(t, q)
    PROVE  GoesOn(t) /\ \A u \in Threads : Quiet(u)
<1>1. \A u \in Threads \ {t} : todo'[u] = todo[u] BY OwnRestart
<1>2. todo[t] # <<>> /\ Head(todo[t]).op = n BY HeadType
<1>3. todo'[t] = q \o Tail(todo[t]) BY DEF Replace, TodoOK
<1>4. GoesOn(t) BY <1>2, <1>3 DEF GoesOn
<1> QED BY <1>1, <1>4 DEF Quiet

LEMMA MovePop ==
    ASSUME TodoOK, NEW t \in Threads, NEW n, Next1(t, n), n # "exit",
           n = "send" => Send(t) \/ SendToPreMux(t), Pop(t)
    PROVE  GoesOn(t) /\ \A u \in Threads : Quiet(u)
<1>1. <<>> \in Seq(Ops(t)) /\ Mute(<<>>) /\ \A o : Dated(<<>>, o) BY NoOps, RangeSmall DEF Mute, Dated
<1> QED BY <1>1, MoveGoesOn DEF Pop

LEMMA MoveEnds ==
    ASSUME TodoOK, NEW t \in Threads, NEW s, Fresh(t, s), Exits(s),
           \A o \in Range(s) : Late(o) \/ o.op = "open", Restart(t, s)
    PROVE  \A u \in Threads : Quiet(u)
<1>1. \A u \in Threads \ {t} : todo'[u] = todo[u] BY OwnRestart
<1>2. todo'[t] = s BY DEF Restart, TodoOK
<1>3. Items(s) = {} BY DEF Items, Late, Calm, Loud
<1> QED BY <1>1, <1>2, <1>3 DEF Quiet, Ends

LEMMA MoveRests ==
    ASSUME TodoOK, NEW t \in Threads, NEW s, Fresh(t, s), ~ Ended(t), Items(todo[t]) = {}, Items(s) = {},
           Restart(t, s)
    PROVE  \A u \in Threads : Quiet(u)
<1>1. \A u \in Threads \ {t} : todo'[u] = todo[u] BY OwnRestart
<1>2. todo'[t] = s BY DEF Restart, TodoOK
<1> QED BY <1>1, <1>2 DEF Quiet, Rests, Begins

LEMMA MoveEnd ==
    ASSUME TodoOK, NEW t \in Tasks, Restart(t, EndOps(t)) \/ Restart(t, FailOps(t))
    PROVE  \A u \in Threads : Quiet(u)
<1>1. t \in Threads BY DEF Threads
<1>2. Fresh(t, FailOps(t)) /\ Exits(FailOps(t)) /\ \A o \in Range(FailOps(t)) : Late(o)
  BY FailFresh DEF Late
<1>3. Fresh(t, EndOps(t)) /\ Exits(EndOps(t)) /\ \A o \in Range(EndOps(t)) : Late(o) \/ o.op = "open"
  BY EndFresh
<1> QED BY <1>1, <1>2, <1>3, MoveEnds

LEMMA MoveNone == ASSUME todo' = todo PROVE \A u \in Threads : Quiet(u)
BY DEF Quiet

(* The timestamps that a list has in store for port k.                     *)
Due(s, k) == {o.ts : o \in {p \in Items(s) : p.k = k}}

(* A thread begins to send the packet or frame n to the ports in P: a      *)
(* demuxer one it has read, a filtergraph the next one, a codec what it    *)
(* has made of the item that it received.                                  *)
Emits(t, P, n) ==
    /\ Begins(t) /\ \A u \in Threads \ {t} : todo'[u] = todo[u]
    /\ n \in Nat \ {NOPTS}
    /\ \A k : Due(todo'[t], k) = IF k \in P THEN {n} ELSE {}
DemuxEmits(t) ==
    /\ t \in Demux /\ UNCHANGED <<queue, nout, taken>>
    /\ \E o \in DOMAIN Outs[t] : /\ nread' = [nread EXCEPT ![t][o] = @ + 1]
                               /\ Emits(t, Range(Outs[t][o]), nread[t][o] + 1)
FilterEmits(t) ==
    /\ t \in Filter /\ UNCHANGED <<queue, nread, taken>>
    /\ nout' = [nout EXCEPT ![t] = @ + 1]
    /\ Emits(t, Range(AllDsts(t)), nout[t] + 1)

(* It takes an item; it finds that nothing it wants is left.               *)
Reads(t) == t \in Consumers /\ TqHasItem(t) /\ queue' = TqAfterItem(t)
Drains(t) ==
    /\ t \in Consumers /\ TqDrained(t)
    /\ TqDiscard(t) \/ (TqEofPending(t) # {} /\ queue' = TqAfterEOF(t))
CodecEmits(t) ==
    /\ t \in Decoders \cup Encoders /\ Reads(t) /\ UNCHANGED <<nread, nout>> /\ UsesItem(t)
    /\ Emits(t, Range(AllDsts(t)), TqItem(t)[2])
MuxTakes(t) ==
    /\ t \in Muxers /\ Reads(t) /\ UNCHANGED <<todo, nread, nout>> /\ ~ Ended(t)
    /\ UsesItem(t)

(* A turn of the loop in which nothing is sent on.                         *)
Turns(t) ==
    /\ UNCHANGED <<nread, nout, taken>>
    /\ \/ queue' = queue
       \/ Drains(t)
       \/ Reads(t) /\ (t \in Filter \/ TqItem(t)[2] = NOPTS \/ Exits(todo'[t]))

LEMMA SendsDue ==
    ASSUME NEW P, NEW ports \in Seq(P), NEW n, n # NOPTS, NEW k
    PROVE  Due(OpsFor("send", ports, n), k) = IF k \in Range(ports) THEN {n} ELSE {}
<1>1. PICK s : s = OpsFor("send", ports, n) OBVIOUS
<1>2. DOMAIN s = DOMAIN ports /\ \A i \in DOMAIN ports : s[i] = Op("send", ports[i], n) BY <1>1, MapRange
<1>3. \A i \in DOMAIN ports : s[i].op = "send" /\ s[i].k = ports[i] /\ s[i].ts = n BY <1>2 DEF Op
<1>4. Range(s) = {s[i] : i \in DOMAIN ports} /\ Range(ports) = {ports[i] : i \in DOMAIN ports}
  BY <1>2 DEF Range
<1>5. Items(s) = Range(s) BY <1>3, <1>4 DEF Items
<1>6. \A o \in Items(s) : o.ts = n BY <1>3, <1>4, <1>5
<1>7. (\E o \in Items(s) : o.k = k) <=> k \in Range(ports) BY <1>3, <1>4, <1>5
<1> QED BY <1>1, <1>6, <1>7 DEF Due

LEMMA MoveEmits ==
    ASSUME TodoOK, NEW t \in Threads, NEW s, Fresh(t, s), ~ Ended(t), Items(todo[t]) = {}, Restart(t, s),
           NEW P, NEW ports \in Seq(P), NEW n \in Nat \ {NOPTS}, Items(s) = Items(OpsFor("send", ports, n))
    PROVE  Emits(t, Range(ports), n)
<1>1. \A u \in Threads \ {t} : todo'[u] = todo[u] BY OwnRestart
<1>2. todo'[t] = s BY DEF Restart, TodoOK
<1>3. Begins(t) BY <1>2 DEF Begins
<1>4. \A k : Due(OpsFor("send", ports, n), k) = IF k \in Range(ports) THEN {n} ELSE {} BY SendsDue
<1>5. \A k : Due(s, k) = Due(OpsFor("send", ports, n), k) BY DEF Due
<1> QED BY <1>1, <1>2, <1>3, <1>4, <1>5 DEF Emits

LEMMA EmitsMoves == \A t, P, n : Emits(t, P, n) => \A u \in Threads : Moves(u)
BY DEF Emits, Moves, Quiet

(* A thread at the top of its loop, or at what it waits for in the loop,   *)
(* has nothing left to send.                                               *)
LEMMA AtTop ==
    ASSUME TodoOK, ListInv, NEW t \in Threads,
           Idle(t) \/ \E n \in {"emit", "receive", "waiting"} : Next1(t, n)
    PROVE  /\ ~ Ended(t)
           /\ Idle(t) \/ Next1(t, "emit") \/ Next1(t, "receive") => Items(todo[t]) = {}
<1>1. CASE Idle(t)
  <2>1. Range(todo[t]) = {} BY <1>1, RangeSmall DEF Idle
  <2> QED BY <2>1 DEF Ended, Exits, Items
<1>2. CASE \E n \in {"emit", "receive", "waiting"} : Next1(t, n)
  <2>1. PICK n \in {"emit", "receive", "waiting"} : Next1(t, n) BY <1>2
  <2>2. PICK s \in Seq(Ops(t)) : s = todo[t] BY DEF TodoOK
  <2>3. s # <<>> /\ Head(s).op = n BY <2>1, <2>2 DEF Next1
  <2>4. Apart(s) BY <2>2 DEF ListInv
  <2>5. /\ \A o : o \in Range(s) <=> o = Head(s) \/ o \in Range(Tail(s))
        /\ \A o \in Range(Tail(s)) : ~ Clash(Head(s), o) /\ ~ Clash(o, Head(s))
    BY <2>3, <2>4, TailParts
  <2>6. \A o \in Range(s) : o.op # "exit" BY <2>3, <2>5 DEF Clash
  <2>7. n # "waiting" => Items(s) = {} BY <2>3, <2>5 DEF Clash, Items
  <2>8. Next1(t, "emit") \/ Next1(t, "receive") => n # "waiting" BY <2>1 DEF Next1
  <2>9. ~ Idle(t) BY <2>1 DEF Idle, Next1
  <2> QED BY <2>2, <2>6, <2>7, <2>8, <2>9 DEF Ended, Exits
<1> QED BY <1>1, <1>2

LEMMA LockMoves ==
    ASSUME IInv, TypeInv, NEW t \in Threads, LockStep(t)
    PROVE  (\A u \in Threads : Quiet(u)) /\ opened' = opened
<1>1. AtLock(t) /\ (Pop(t) \/ todo' = todo) BY LockHeld
<1>2. TodoOK BY DEF TypeInv, Typed
<1>3. PICK n : Next1(t, n) /\ n # "exit" /\ n # "send" BY <1>1 DEF AtLock, Locks, Next1
<1>4. \A u \in Threads : Quiet(u) BY <1>1, <1>2, <1>3, MovePop, MoveNone
<1>5. opened' = opened
  BY DEF LockStep, ScheduleFirst, SetLastDts, SourceFinished, MuxDone, FilterSendFinished,
         FilterReceiveFinish, SetBestInput, TaskExited, ScheduleApply, SchedUnchanged
<1> QED BY <1>4, <1>5

LEMMA OneMute ==
    ASSUME NEW o, NEW k, NEW ts
    PROVE  /\ \A n \in {"finish", "source_finished", "flush"} :
                  Mute(<<Op(n, k, ts)>>) /\ Dated(<<Op(n, k, ts)>>, o)
           /\ Mute(<<Op("last_dts", k, ts)>>)
           /\ o.op = "send" /\ o.k = k /\ o.ts = ts => Dated(<<Op("last_dts", k, ts)>>, o)
           /\ Mute(<<>>) /\ Dated(<<>>, o)
<1>1. \A n : Op(n, k, ts).op = n /\ Op(n, k, ts).k = k /\ Op(n, k, ts).ts = ts BY DEF Op
<1> HIDE DEF Op
<1>2. \A x : Range(<<x>>) = {x} BY RangeSmall
<1>3. \A n \in {"finish", "source_finished", "flush", "last_dts"} : n \notin Loud BY DEF Loud
<1> QED BY <1>1, <1>2, <1>3, RangeSmall DEF Mute, Dated

LEMMA ReadyMoves ==
    ASSUME TypeInv, NEW t \in Threads, MuxStreamReady(t)
    PROVE  GoesOn(t) /\ (\A u \in Threads : Quiet(u)) /\ opened' = opened
<1> USE DEF TypeInv, Typed
<1>1. Next1(t, "ready") BY DEF MuxStreamReady
<1>2. Arg(t) \in MuxStreams BY <1>1, HeadArg
<1>3. PICK m \in Muxers : m = Arg(t)[1] BY <1>2, PortIs DEF MuxStreams
<1>4. opened' = opened BY DEF MuxStreamReady
<1>5. CASE Pop(t)
  <2>1. <<>> \in Seq(Ops(t)) /\ Mute(<<>>) /\ Dated(<<>>, Head(todo[t])) BY NoOps, OneMute
  <2>2. todo'[t] = <<>> \o Tail(todo[t]) BY <1>5 DEF Pop, Replace, TodoOK
  <2>3. GoesOn(t) BY <1>1, <2>1, <2>2 DEF GoesOn, Next1
  <2> QED BY <1>1, <1>4, <1>5, <2>3, MovePop
<1>6. CASE /\ nb_streams_ready'[m] = NbIn[m]
           /\ \E first \in MuxThreadInit(m) :
                todo' = [todo EXCEPT ![t] = <<Op("flush", On(m), NOPTS)>> \o Tail(@), ![m] = first]
  <2>1. PICK first \in MuxThreadInit(m) :
                todo' = [todo EXCEPT ![t] = <<Op("flush", On(m), NOPTS)>> \o Tail(@), ![m] = first]
    BY <1>6
  <2>2. m \in Threads /\ m \in Tasks BY DEF Threads, Tasks
  <2>3. todo[m] = <<>>
    <3>1. PICK r \in Nat : r = nb_streams_ready[m] BY DEF FlagsOK
    <3>2. nb_streams_ready'[m] = r + 1 BY <1>3, <3>1 DEF MuxStreamReady, FlagsOK
    <3>3. r < NbIn[m] BY <1>6, <3>2
    <3> QED BY <3>1, <3>3 DEF MuxIdle
  <2>4. t # m BY <1>1, <2>3 DEF Next1
  <2>5. todo'[t] = <<Op("flush", On(m), NOPTS)>> \o Tail(todo[t]) BY <2>1, <2>4 DEF TodoOK
  <2>6. todo'[m] = first BY <2>1, <2>2 DEF TodoOK
  <2>7. \A u \in Threads \ {t, m} : todo'[u] = todo[u] BY <2>1 DEF TodoOK
  <2>8. PICK o : o = Op("flush", On(m), NOPTS) OBVIOUS
  <2>9. o \in Ops(t) BY <2>8, MakesOp
  <2>10. Mute(<<o>>) /\ Dated(<<o>>, Head(todo[t])) BY <2>8, OneMute
  <2>11. <<o>> \in Seq(Ops(t)) BY <2>9, OneOp
  <2>12. GoesOn(t) BY <1>1, <2>5, <2>8, <2>10, <2>11 DEF GoesOn, Next1
  <2>13. todo'[m] = todo[m] \/ Ends(m)
    <3>1. first = <<>> \/ first = FailOps(m) BY DEF MuxThreadInit
    <3>2. Fresh(m, FailOps(m)) /\ Exits(FailOps(m)) /\ \A x \in Range(FailOps(m)) : Calm(x)
      BY <2>2, FailFresh
    <3>3. Items(FailOps(m)) = {} BY <3>2 DEF Items, Calm, Loud
    <3> QED BY <2>3, <2>6, <3>1, <3>2, <3>3 DEF Ends
  <2> QED BY <1>4, <2>7, <2>12, <2>13 DEF Quiet
<1> QED BY <1>3, <1>5, <1>6 DEF MuxStreamReady

LEMMA SendGoesOn ==
    ASSUME TypeInv, NEW t \in Threads, Send(t) \/ SendToPreMux(t)
    PROVE  GoesOn(t) /\ (\A u \in Threads : Quiet(u)) /\ opened' = opened
<1> USE DEF TypeInv, Typed
<1>a. MuxStreams \subseteq Ports(Consumers)
  BY PortsIn DEF MuxStreams, Consumers
<1>c. <<>> \in Seq(Ops(t)) /\ Mute(<<>>) /\ Dated(<<>>, Head(todo[t])) BY NoOps, OneMute
<1>d. \A k \in Feeds(t) \cap MuxStreams :
          <<Op("last_dts", k, Head(todo[t]).ts)>> \in Seq(Ops(t)) \/ Head(todo[t]).ts \notin Nat
  BY MakesOp, OneOp
<1>e. \A k \in Feeds(t) : k[1] \in Muxers => k \in MuxStreams
  <2> SUFFICES ASSUME NEW k \in Feeds(t), k[1] \in Muxers PROVE k \in MuxStreams OBVIOUS
  <2>1. k \in Ports(Consumers) BY DEF Feeds
  <2>2. k = <<k[1], k[2]>> /\ k[2] \in Inputs(k[1]) BY <2>1, PortIs
  <2> QED BY <2>2, IsPort DEF MuxStreams
<1>1. CASE SendToPreMux(t)
  <2>1. Next1(t, "send") BY <1>1 DEF SendToPreMux
  <2>2. Arg(t) \in Feeds(t) /\ Head(todo[t]).ts \in Nat BY <2>1, HeadArg
  <2>3. Arg(t) \in MuxStreams BY <1>1, <1>e, <2>2 DEF SendToPreMux, QueuesForMux, MuxHeld
  <2>4. Replace(t, <<Op("last_dts", Arg(t), Head(todo[t]).ts)>>) BY <1>1 DEF SendToPreMux
  <2>5. opened' = opened BY <1>1 DEF SendToPreMux, SendUnchanged
  <2>6. PICK q : q = <<Op("last_dts", Arg(t), Head(todo[t]).ts)>> OBVIOUS
  <2>7. q \in Seq(Ops(t)) /\ Mute(q) BY <1>d, <2>2, <2>3, <2>6, OneMute
  <2>8. Dated(q, Head(todo[t])) BY <2>1, <2>6, OneMute DEF Next1, Arg
  <2> QED BY <1>1, <2>1, <2>4, <2>5, <2>6, <2>7, <2>8, MoveGoesOn
<1>2. CASE Send(t)
  <2>1. Next1(t, "send") BY <1>2 DEF Send
  <2>2. Arg(t) \in Feeds(t) /\ Head(todo[t]).ts \in Nat BY <2>1, HeadArg
  <2>3. \E q \in Seq(Ops(t)) : Mute(q) /\ Dated(q, Head(todo[t])) /\ Replace(t, q)
    <3>1. \/ Pop(t) \/ Replace(t, Finish(Arg(t)))
          \/ Replace(t, IF Arg(t)[1] \in Muxers THEN <<Op("last_dts", Arg(t), Head(todo[t]).ts)>> ELSE <<>>)
      BY <1>2 DEF Send
    <3>2. Finish(Arg(t)) \in Seq(Ops(t)) BY <2>2, MakesOp, OneOp DEF Finish, NOPTS
    <3>3. Mute(Finish(Arg(t))) /\ Dated(Finish(Arg(t)), Head(todo[t])) BY OneMute DEF Finish
    <3>8. /\ Mute(<<Op("last_dts", Arg(t), Head(todo[t]).ts)>>)
          /\ Dated(<<Op("last_dts", Arg(t), Head(todo[t]).ts)>>, Head(todo[t]))
      BY <2>1, OneMute DEF Next1, Arg
    <3>4. Arg(t)[1] \in Muxers => <<Op("last_dts", Arg(t), Head(todo[t]).ts)>> \in Seq(Ops(t))
      BY <1>d, <1>e, <2>2
    <3>5. CASE Pop(t) BY <1>c, <3>5 DEF Pop
    <3>6. CASE Replace(t, Finish(Arg(t))) BY <3>2, <3>3, <3>6
    <3>7. CASE Replace(t, IF Arg(t)[1] \in Muxers THEN <<Op("last_dts", Arg(t), Head(todo[t]).ts)>> ELSE <<>>)
      BY <1>c, <3>4, <3>7, <3>8
    <3> QED BY <3>1, <3>5, <3>6, <3>7
  <2>4. opened' = opened BY <1>2 DEF Send, SendUnchanged
  <2> QED BY <1>2, <2>1, <2>3, <2>4, MoveGoesOn
<1> QED BY <1>1, <1>2

LEMMA SendMoves ==
    ASSUME TypeInv, NEW t \in Threads, SendStep(t), ~ EncOpen(t)
    PROVE  (\A u \in Threads : Quiet(u)) /\ opened' = opened
<1> USE DEF TypeInv, Typed
<1>a. MuxStreams \subseteq Ports(Consumers)
  BY PortsIn DEF MuxStreams, Consumers
<1>c. <<>> \in Seq(Ops(t)) /\ Mute(<<>>) /\ Dated(<<>>, Head(todo[t])) BY NoOps, OneMute
<1>d. \A k \in MuxStreams : <<Op("source_finished", k, NOPTS)>> \in Seq(Ops(t))
  BY MakesOp, OneOp DEF NOPTS
<1>e. \A k \in Feeds(t) : k[1] \in Muxers => k \in MuxStreams
  <2> SUFFICES ASSUME NEW k \in Feeds(t), k[1] \in Muxers PROVE k \in MuxStreams OBVIOUS
  <2>1. k \in Ports(Consumers) BY DEF Feeds
  <2>2. k = <<k[1], k[2]>> /\ k[2] \in Inputs(k[1]) BY <2>1, PortIs
  <2> QED BY <2>2, IsPort DEF MuxStreams
<1>1. CASE Send(t) \/ SendToPreMux(t) BY <1>1, SendGoesOn
<1>3. CASE SendFinish(t)
  <2>1. Next1(t, "finish") BY <1>3 DEF SendFinish
  <2>2. Arg(t) \in Feeds(t) BY <2>1, HeadArg
  <2>3. \E q \in Seq(Ops(t)) : Mute(q) /\ Dated(q, Head(todo[t])) /\ Replace(t, q)
    <3>1. \/ Pop(t)
          \/ Replace(t, IF Arg(t)[1] \in Muxers THEN <<Op("source_finished", Arg(t), NOPTS)>> ELSE <<>>)
      BY <1>3 DEF SendFinish
    <3>2. Arg(t)[1] \in Muxers => <<Op("source_finished", Arg(t), NOPTS)>> \in Seq(Ops(t))
      BY <1>d, <1>e, <2>2
    <3>3. CASE Pop(t) BY <1>c, <3>3 DEF Pop
    <3>4. CASE Replace(t, IF Arg(t)[1] \in Muxers THEN <<Op("source_finished", Arg(t), NOPTS)>> ELSE <<>>)
      BY <1>c, <3>2, <3>4, OneMute
    <3> QED BY <3>1, <3>3, <3>4
  <2>4. opened' = opened BY <1>3 DEF SendFinish, SendUnchanged
  <2> QED BY <2>1, <2>3, <2>4, MoveGoesOn
<1>4. CASE EncOpenFails(t)
  <2>1. Restart(t, FailOps(t)) /\ opened' = opened BY <1>4 DEF EncOpenFails
  <2>2. t \in Tasks
    <3>1. Next1(t, "send") \/ Next1(t, "open") BY <1>4 DEF EncOpenFails, OpensBySending
    <3>2. Arg(t) \in Feeds(t) \/ Arg(t) \in Opens(t) BY <3>1, HeadArg
    <3> QED BY <3>2, OpensIs DEF Feeds, Tasks
  <2> QED BY <2>1, <2>2, MoveEnd
<1>5. CASE MuxStreamReady(t) BY <1>5, ReadyMoves
<1>6. CASE MuxTaskStart(t)
  <2>1. Next1(t, "flush") /\ (Pop(t) \/ todo' = todo) /\ opened' = opened BY <1>6 DEF MuxTaskStart
  <2> QED BY <2>1, MovePop, MoveNone
<1> QED BY <1>1, <1>3, <1>4, <1>5, <1>6 DEF SendStep

LEMMA AskFresh ==
    ASSUME NEW f \in Filter, NEW i \in Inputs(f), NEW b, NEW c,
           b = (IF Configured(f) THEN OpsFor("receive_finished", ToClose(f), NOPTS) ELSE <<>>),
           c = (IF i # best_input[f] THEN <<Op("best_input", <<f, i>>, NOPTS)>> ELSE <<>>)
    PROVE  /\ Fresh(f, b \o c \o <<Op("receive", On(f), NOPTS)>>)
           /\ \A o \in Range(b \o c \o <<Op("receive", On(f), NOPTS)>>) : Mild(o)
<1>1. b \o c \o <<Op("receive", On(f), NOPTS)>> \in Seq(Ops(f)) BY AskType
<1>2. b \in Seq(Ops(f)) /\ c \in Seq(Ops(f)) /\ <<Op("receive", On(f), NOPTS)>> \in Seq(Ops(f)) BY AskType
<1>3. \A o \in Range(b) : Mild(o)
  <2>1. ToClose(f) \in Seq(Ports(Filter \cap {f})) BY AskType
  <2>2. \A o \in Range(OpsFor("receive_finished", ToClose(f), NOPTS)) : o.op = "receive_finished"
    BY <2>1, MapRange
  <2> QED BY <2>2, RangeSmall DEF Mild, Loud
<1>4. \A n, k : Op(n, k, NOPTS).op = n BY DEF Op
<1>5. \A o \in Range(c) : Mild(o)
  <2> HIDE DEF Op
  <2> QED BY <1>4, RangeSmall DEF Mild, Loud
<1>6. \A o \in Range(<<Op("receive", On(f), NOPTS)>>) : Mild(o)
  <2> HIDE DEF Op
  <2> QED BY <1>4, RangeSmall DEF Mild, Loud
<1>7. PICK d \in Seq(Ops(f)) : d = <<Op("receive", On(f), NOPTS)>> BY <1>2
<1>8. \A o : o \in Range(b \o c) <=> o \in Range(b) \/ o \in Range(c)
  <2>1. PICK r \in Seq(Ops(f)), s \in Seq(Ops(f)) : r = b /\ s = c BY <1>2
  <2>2. \A o : o \in Range(r \o s) <=> o \in Range(r) \/ o \in Range(s) BY RangeConcat
  <2> QED BY <2>1, <2>2, Zenon
<1>9. PICK e \in Seq(Ops(f)) : e = b \o c BY <1>2, MoreOps
<1>10. \A o : o \in Range(e \o d) <=> o \in Range(e) \/ o \in Range(d) BY RangeConcat
<1>11. \A o \in Range(e \o d) : Mild(o) BY <1>3, <1>5, <1>6, <1>7, <1>8, <1>9, <1>10
<1>12. e \o d \in Seq(Ops(f)) BY MoreOps
<1>13. Fresh(f, e \o d) BY <1>11, <1>12, MildFresh
<1> QED BY <1>7, <1>9, <1>11, <1>13

LEMMA NoneFresh == ASSUME NEW t PROVE Fresh(t, <<>>) /\ Items(<<>>) = {}
BY NoOps, RangeSmall, MildFresh DEF Items

LEMMA MildOneFresh ==
    ASSUME NEW t, NEW o \in Ops(t), Mild(o)
    PROVE  Fresh(t, <<o>>)
BY OneOp, RangeSmall, MildFresh

LEMMA MildItems == ASSUME NEW s, \A o \in Range(s) : Mild(o) PROVE Items(s) = {}
BY DEF Items, Mild, Loud

LEMMA FilterMoves ==
    ASSUME TypeInv, ListInv, NEW f \in Filter, FilterStep(f)
    PROVE  (Turns(f) /\ \A u \in Threads : Quiet(u)) \/ FilterEmits(f)
<1> USE DEF TypeInv, Typed
<1>a. f \in Consumers /\ f \in Producers /\ f \in Threads /\ f \in Tasks
  BY DEF Consumers, Threads, Tasks, Producers
<1>1. CASE FilterEmit(f)
  <2>1. /\ Idle(f) \/ Next1(f, "emit")
        /\ nout' = [nout EXCEPT ![f] = @ + 1] /\ Restart(f, OpsFor("send", AllDsts(f), nout'[f]))
    BY <1>1 DEF FilterEmit
  <2>2. nout'[f] \in Nat
    <3>1. nout[f] \in Nat /\ nout'[f] = nout[f] + 1 BY <2>1 DEF DataOK
    <3> QED BY <3>1
  <2>3. Fresh(f, OpsFor("send", AllDsts(f), nout'[f])) BY <1>a, <2>2, FeedsAll, DstsOnce, SendsFresh
  <2>4. ~ Ended(f) /\ Items(todo[f]) = {} BY <1>a, <2>1, AtTop
  <2>5. nout'[f] = nout[f] + 1 /\ nout[f] \in Nat /\ nout'[f] # NOPTS
    <3>1. nout[f] \in Nat /\ nout'[f] = nout[f] + 1 BY <2>1 DEF DataOK
    <3> QED BY <3>1 DEF NOPTS
  <2>6. AllDsts(f) \in Seq(Feeds(f)) BY <1>a, FeedsAll
  <2>7. Emits(f, Range(AllDsts(f)), nout'[f]) BY <1>a, <2>1, <2>2, <2>3, <2>4, <2>5, <2>6, MoveEmits
  <2>8. UNCHANGED <<queue, nread, taken>> BY <1>1 DEF FilterEmit
  <2> QED BY <2>1, <2>5, <2>7, <2>8 DEF FilterEmits
<1>b. FilterEnd(f) \/ FilterAsk(f) \/ FilterWait(f) => Turns(f)
  BY DEF FilterEnd, FilterAsk, FilterWait, Turns, codecVars
<1>c. FilterReceive(f) => Turns(f)
  BY <1>a DEF FilterReceive, Turns, Reads, Drains
<1>2. CASE FilterEnd(f) BY <1>a, <1>b, <1>2, MoveEnd DEF FilterEnd
<1>3. CASE FilterAsk(f)
  <2>1. PICK i \in Inputs(f) :
          Restart(f, (IF Configured(f) THEN OpsFor("receive_finished", ToClose(f), NOPTS) ELSE <<>>)
                     \o (IF i # best_input[f] THEN <<Op("best_input", <<f, i>>, NOPTS)>> ELSE <<>>)
                     \o <<Op("receive", On(f), NOPTS)>>)
    BY <1>3 DEF FilterAsk
  <2>2. Idle(f) BY <1>3 DEF FilterAsk
  <2>3. ~ Ended(f) /\ Items(todo[f]) = {} BY <1>a, <2>2, AtTop
  <2>4. PICK b, c : /\ b = (IF Configured(f) THEN OpsFor("receive_finished", ToClose(f), NOPTS) ELSE <<>>)
                    /\ c = (IF i # best_input[f] THEN <<Op("best_input", <<f, i>>, NOPTS)>> ELSE <<>>)
    OBVIOUS
  <2>5. PICK s : s = b \o c \o <<Op("receive", On(f), NOPTS)>> OBVIOUS
  <2>6. Fresh(f, s) /\ \A o \in Range(s) : Mild(o) BY <2>4, <2>5, AskFresh
  <2>7. Items(s) = {} BY <2>6, MildItems
  <2>8. Restart(f, s) BY <2>1, <2>4, <2>5
  <2> QED BY <1>3, <1>a, <1>b, <2>3, <2>6, <2>7, <2>8, MoveRests
<1>4. CASE FilterWait(f)
  <2>1. Idle(f) /\ Restart(f, WaitOps(f) \o <<Op("emit", On(f), NOPTS)>>) BY <1>4 DEF FilterWait
  <2>2. ~ Ended(f) /\ Items(todo[f]) = {} BY <1>a, <2>1, AtTop
  <2>3. PICK x : x = Op("emit", On(f), NOPTS) OBVIOUS
  <2>4. x \in Ops(f) BY <1>a, <2>3, MakesOp DEF Plain
  <2>5. x.op = "emit" BY <2>3 DEF Op
  <2>6. <<x>> \in Seq(Ops(f)) /\ WaitOps(f) \in Seq(Ops(f)) BY <1>a, <2>4, OneOp, WaitType
  <2>7. \A o : o \in Range(WaitOps(f) \o <<x>>) <=> o \in Range(WaitOps(f)) \/ o \in Range(<<x>>)
    BY <2>6, RangeConcat
  <2>8. \A o \in Range(WaitOps(f) \o <<x>>) : Mild(o) BY <1>a, <2>5, <2>7, RangeSmall, WaitMild DEF Mild
  <2>9. WaitOps(f) \o <<x>> \in Seq(Ops(f)) BY <2>6, MoreOps
  <2>10. Fresh(f, WaitOps(f) \o <<x>>) BY <2>8, <2>9, MildFresh
  <2>11. Items(WaitOps(f) \o <<x>>) = {} BY <2>8, MildItems
  <2> QED BY <1>4, <1>a, <1>b, <2>1, <2>2, <2>3, <2>10, <2>11, MoveRests
<1>5. CASE FilterReceive(f)
  <2>1. Next1(f, "receive") BY <1>5 DEF FilterReceive
  <2>2. ~ Ended(f) /\ Items(todo[f]) = {} BY <1>a, <2>1, AtTop
  <2>3. \/ Restart(f, <<Op("best_input", <<f, NbIn[f]>>, NOPTS)>>)
        \/ Restart(f, <<>>) \/ todo' = todo \/ Restart(f, EndOps(f))
    BY <1>5 DEF FilterReceive
  <2>4. Fresh(f, <<Op("best_input", <<f, NbIn[f]>>, NOPTS)>>) /\ Items(<<Op("best_input", <<f, NbIn[f]>>, NOPTS)>>) = {}
    <3>1. <<f, NbIn[f]>> \in (Filter \cap {f}) \X (0 .. NbIn[f]) BY <1>a, Streams
    <3>2. PICK x : x = Op("best_input", <<f, NbIn[f]>>, NOPTS) OBVIOUS
    <3>3. x \in Ops(f) BY <3>1, <3>2, MakesOp
    <3>4. x.op = "best_input" BY <3>2 DEF Op
    <3>5. Mild(x) BY <3>4 DEF Mild, Loud
    <3> QED BY <3>2, <3>3, <3>5, MildOneFresh, RangeSmall, MildItems
  <2>5. \A u \in Threads : Quiet(u) BY <1>a, <2>2, <2>3, <2>4, NoneFresh, MoveRests, MoveEnd, MoveNone
  <2> QED BY <1>5, <1>c, <2>5
<1> QED BY <1>1, <1>2, <1>3, <1>4, <1>5 DEF FilterStep

LEMMA LoopMoves ==
    ASSUME TypeInv, ListInv, NEW t \in Tasks, LoopStep(t)
    PROVE  /\ \/ Turns(t) /\ \A u \in Threads : Quiet(u)
              \/ DemuxEmits(t) \/ FilterEmits(t) \/ CodecEmits(t) \/ MuxTakes(t)
           /\ opened' = opened
<1> USE DEF TypeInv, Typed
<1>a. t \in Threads BY DEF Threads
<1>b. Idle(t) => ~ Ended(t) /\ Items(todo[t]) = {} BY <1>a, AtTop
<1>c. opened' = opened
  BY DEF LoopStep, WaiterWoken, DemuxRead, DecReceive, FilterStep, FilterEmit, FilterEnd, FilterAsk,
         FilterWait, FilterReceive, EncReceive, MuxReceive, TaskFails, Discard, LoopUnchanged
<1>1. CASE WaiterWoken(t)
  <2>1. Next1(t, "waiting") /\ (Restart(t, EndOps(t)) \/ Pop(t)) BY <1>1 DEF WaiterWoken
  <2>2. Turns(t) BY <1>1 DEF WaiterWoken, Turns, codecVars
  <2> QED BY <1>a, <1>c, <2>1, <2>2, MoveEnd, MovePop
<1>2. CASE t \in Demux /\ DemuxRead(t)
  <2>1. t \in Producers /\ Idle(t) BY <1>2 DEF Producers, DemuxRead
  <2>2. CASE Restart(t, EndOps(t)) /\ nread' = nread
    <3>1. Turns(t) BY <1>2, <2>2 DEF DemuxRead, Turns
    <3> QED BY <1>c, <2>2, <3>1, MoveEnd
  <2>3. CASE \E o \in DOMAIN Outs[t] :
                /\ nread' = [nread EXCEPT ![t][o] = @ + 1]
                /\ Restart(t, WaitOps(t) \o PacketOps(t, o, nread'[t][o]))
    <3>1. PICK o \in DOMAIN Outs[t] :
                /\ nread' = [nread EXCEPT ![t][o] = @ + 1]
                /\ Restart(t, WaitOps(t) \o PacketOps(t, o, nread'[t][o]))
      BY <2>3
    <3>2. nread[t] \in [DOMAIN Outs[t] -> Nat] BY <1>2 DEF DataOK
    <3>3. PICK n \in Nat : n = nread[t][o] + 1 /\ n # NOPTS BY <3>2 DEF NOPTS
    <3>4. nread'[t][o] = n BY <1>2, <3>1, <3>2, <3>3 DEF DataOK
    <3>5. Outs[t][o] \in Seq(Feeds(t)) /\ Once(Outs[t][o]) BY <2>1, FeedsAll, DstsOnce
    <3>6. Fresh(t, PacketOps(t, o, n)) BY <2>1, <3>3, <3>5, SendsFresh DEF PacketOps
    <3>7. \A x \in Range(WaitOps(t)) : x.op = "waiting" BY <1>a, WaitMild
    <3>8. WaitOps(t) \in Seq(Ops(t)) BY <1>a, WaitType
    <3>9. Fresh(t, WaitOps(t)) BY <3>7, <3>8, MildFresh DEF Mild
    <3>10. \A x \in Range(PacketOps(t, o, n)) : x.op = "send" BY <3>5, MapRange DEF PacketOps
    <3>11. \A x \in Range(WaitOps(t)), y \in Range(PacketOps(t, o, n)) : ~ Clash(x, y) /\ ~ Clash(y, x)
      BY <3>7, <3>10 DEF Clash
    <3>12. Fresh(t, WaitOps(t) \o PacketOps(t, o, n)) BY <3>6, <3>9, <3>11, FreshConcat
    <3>13. PICK s : s = WaitOps(t) \o PacketOps(t, o, n) OBVIOUS
    <3>14. PacketOps(t, o, n) \in Seq(Ops(t)) BY <3>6 DEF Fresh
    <3>15. \A x : x \in Range(s) <=> x \in Range(WaitOps(t)) \/ x \in Range(PacketOps(t, o, n))
      BY <3>8, <3>13, <3>14, RangeConcat
    <3>16. Items(s) = Items(PacketOps(t, o, n)) BY <3>7, <3>15 DEF Items
    <3>17. Restart(t, s) BY <3>1, <3>4, <3>13
    <3>18. Emits(t, Range(Outs[t][o]), n)
      BY <1>a, <1>b, <2>1, <3>3, <3>5, <3>12, <3>13, <3>16, <3>17, MoveEmits DEF PacketOps
    <3>19. UNCHANGED <<queue, nout, taken>> BY <1>2 DEF DemuxRead
    <3> QED BY <1>2, <1>c, <3>1, <3>3, <3>18, <3>19 DEF DemuxEmits
  <2> QED BY <1>2, <2>2, <2>3 DEF DemuxRead
<1>3. CASE t \in Decoders /\ DecReceive(t)
  <2>1. t \in Consumers /\ t \in Producers /\ Idle(t) BY <1>3 DEF Consumers, Producers, DecReceive
  <2>2. AllDsts(t) \in Seq(Feeds(t)) /\ Once(AllDsts(t)) BY <2>1, FeedsAll, DstsOnce
  <2>a. UNCHANGED <<nread, nout>> BY <1>3 DEF DecReceive
  <2>3. CASE queue' = queue /\ taken' = taken /\ Restart(t, EndOps(t)) BY <1>c, <2>a, <2>3, MoveEnd DEF Turns
  <2>4. CASE /\ TqHasItem(t) /\ queue' = TqAfterItem(t) /\ UsesItem(t)
             /\ Restart(t, OpsFor("send", AllDsts(t), TqItem(t)[2]))
    <3>1. TqWanted(t) # {} BY <2>4 DEF TqHasItem
    <3>2. TqItem(t)[2] \in Nat BY <2>1, <3>1, QueueItem
    <3>3. Fresh(t, OpsFor("send", AllDsts(t), TqItem(t)[2])) BY <1>3, <2>1, <2>2, <3>2, SendsFresh
    <3>4. CASE TqItem(t)[2] = NOPTS
      <4>1. PICK s : s = OpsFor("send", AllDsts(t), TqItem(t)[2]) OBVIOUS
      <4>2. \A o \in Range(s) : o.ts = NOPTS BY <2>2, <3>4, <4>1, MapRange
      <4>3. Items(s) = {} BY <4>2 DEF Items
      <4>4. Turns(t) BY <2>1, <2>a, <2>4, <3>4 DEF Turns, Reads, UsesItem
      <4> QED BY <1>a, <1>b, <1>c, <2>1, <2>4, <3>3, <4>1, <4>3, <4>4, MoveRests
    <3>5. CASE TqItem(t)[2] # NOPTS
      <4>1. Emits(t, Range(AllDsts(t)), TqItem(t)[2])
        BY <1>a, <1>b, <2>1, <2>2, <2>4, <3>2, <3>3, <3>5, MoveEmits
      <4> QED BY <1>3, <1>c, <2>1, <2>a, <2>4, <4>1 DEF CodecEmits, Reads
    <3> QED BY <3>4, <3>5
  <2>5. CASE /\ TqDrained(t) /\ TqEofPending(t) # {} /\ queue' = TqAfterEOF(t) /\ taken' = taken
             /\ Restart(t, OpsFor("send", AllDsts(t), NOPTS) \o EndOps(t))
    <3>1. NOPTS \in Nat BY DEF NOPTS
    <3>2. PICK s : s = OpsFor("send", AllDsts(t), NOPTS) OBVIOUS
    <3>3. Fresh(t, s) BY <1>3, <2>1, <2>2, <3>1, <3>2, SendsFresh
    <3>4. \A o \in Range(s) : o.op = "send" /\ o.ts = NOPTS BY <2>2, <3>2, MapRange
    <3>5. t \notin Filter BY <1>3, Kinds
    <3>6. Fresh(t, EndOps(t)) /\ Exits(EndOps(t)) /\ \A o \in Range(EndOps(t)) : Calm(o)
      BY <3>5, EndFresh
    <3>7. \A o \in Range(s), p \in Range(EndOps(t)) : ~ Clash(o, p) /\ ~ Clash(p, o)
      BY <3>4, <3>6, LatePairs DEF Late
    <3>8. Fresh(t, s \o EndOps(t)) BY <3>3, <3>6, <3>7, FreshConcat
    <3>9. s \in Seq(Ops(t)) /\ EndOps(t) \in Seq(Ops(t)) BY <3>3, <3>6 DEF Fresh
    <3>10. \A o : o \in Range(s \o EndOps(t)) <=> o \in Range(s) \/ o \in Range(EndOps(t))
      BY <3>9, RangeConcat
    <3>11. Exits(s \o EndOps(t)) BY <3>6, <3>10 DEF Exits
    <3>12. \A o \in Range(s \o EndOps(t)) : Late(o) BY <3>4, <3>6, <3>10 DEF Late
    <3>13. Turns(t) BY <2>1, <2>a, <2>5 DEF Turns, Drains
    <3> QED BY <1>a, <1>c, <2>5, <3>2, <3>8, <3>11, <3>12, <3>13, MoveEnds
  <2> QED BY <1>3, <2>3, <2>4, <2>5 DEF DecReceive
<1>4. CASE t \in Filter /\ FilterStep(t) BY <1>4, <1>c, FilterMoves
<1>5. CASE t \in Encoders /\ EncReceive(t)
  <2>1. t \in Consumers /\ t \in Producers /\ Idle(t) BY <1>5 DEF Consumers, Producers, EncReceive
  <2>a. UNCHANGED <<nread, nout>> BY <1>5 DEF EncReceive
  <2>2. CASE /\ TqDrained(t) /\ TqEofPending(t) # {} /\ queue' = TqAfterEOF(t) /\ taken' = taken
             /\ Restart(t, EndOps(t)) \/ Restart(t, FailOps(t))
    <3>1. Turns(t) BY <2>1, <2>a, <2>2 DEF Turns, Drains
    <3> QED BY <1>c, <2>2, <3>1, MoveEnd
  <2>3. CASE /\ TqHasItem(t) /\ queue' = TqAfterItem(t) /\ TqItem(t)[2] # NOPTS /\ UsesItem(t)
             /\ Restart(t, OpsFor("send", AllDsts(t), TqItem(t)[2]))
    <3>1. TqWanted(t) # {} BY <2>3 DEF TqHasItem
    <3>2. TqItem(t)[2] \in Nat BY <2>1, <3>1, QueueItem
    <3>3. AllDsts(t) \in Seq(Feeds(t)) /\ Once(AllDsts(t)) BY <2>1, FeedsAll, DstsOnce
    <3>4. Fresh(t, OpsFor("send", AllDsts(t), TqItem(t)[2])) BY <2>1, <2>3, <3>2, <3>3, SendsFresh
    <3>5. Emits(t, Range(AllDsts(t)), TqItem(t)[2])
      BY <1>a, <1>b, <2>1, <2>3, <3>2, <3>3, <3>4, MoveEmits
    <3> QED BY <1>5, <1>c, <2>1, <2>a, <2>3, <3>5 DEF CodecEmits, Reads
  <2>4. CASE /\ TqHasItem(t) /\ queue' = TqAfterItem(t) /\ TqItem(t)[2] = NOPTS /\ UsesItem(t)
             /\ Restart(t, <<>>)
    <3>1. Turns(t) BY <2>1, <2>a, <2>4 DEF Turns, Reads, UsesItem
    <3> QED BY <1>a, <1>b, <1>c, <2>1, <2>4, <3>1, NoneFresh, MoveRests
  <2> QED BY <1>5, <2>2, <2>3, <2>4 DEF EncReceive
<1>6. CASE t \in Muxers /\ MuxReceive(t)
  <2>1. t \in Consumers /\ Idle(t) BY <1>6 DEF Consumers, MuxReceive
  <2>a. nread' = nread /\ nout' = nout BY <1>6 DEF MuxReceive
  <2>2. CASE TqHasItem(t) /\ queue' = TqAfterItem(t) /\ todo' = todo /\ UsesItem(t)
    BY <1>6, <1>b, <1>c, <2>1, <2>a, <2>2 DEF MuxTakes, Reads
  <2>3. CASE /\ TqDrained(t) /\ TqEofPending(t) # {} /\ queue' = TqAfterEOF(t) /\ taken' = taken
             /\ Restart(t, MuxEofOps(t))
    <3>1. Min(TqEofPending(t)) \in TqEofPending(t) /\ TqEofPending(t) \subseteq TqStreams(t)
      BY <2>1, <2>3, QueueEOF
    <3>2. TqStreams(t) = Inputs(t) BY <1>6, Kinds DEF TqStreams
    <3>3. <<t, Min(TqEofPending(t))>> \in MuxStreams BY <1>6, <3>1, <3>2, IsPort DEF MuxStreams
    <3>4. PICK x : x = Op("source_finished", <<t, Min(TqEofPending(t))>>, NOPTS) OBVIOUS
    <3>5. x \in Ops(t) BY <3>3, <3>4, MakesOp DEF NOPTS
    <3>6. x.op = "source_finished" BY <3>4 DEF Op
    <3>7. Fresh(t, <<x>>) BY <3>5, <3>6, MildOneFresh DEF Mild, Loud
    <3>8. MuxEofOps(t) = <<x>> BY <3>4 DEF MuxEofOps
    <3>9. Items(<<x>>) = {} BY <3>6, RangeSmall DEF Items
    <3>10. Turns(t) BY <2>1, <2>a, <2>3 DEF Turns, Drains
    <3> QED BY <1>a, <1>b, <1>c, <2>1, <2>3, <3>7, <3>8, <3>9, <3>10, MoveRests
  <2>4. CASE Restart(t, EndOps(t)) /\ queue' = queue /\ taken' = taken
    BY <1>c, <2>a, <2>4, MoveEnd DEF Turns
  <2> QED BY <1>6, <2>2, <2>3, <2>4 DEF MuxReceive
<1>7. CASE TaskFails(t)
  <2>1. Restart(t, FailOps(t)) BY <1>7 DEF TaskFails
  <2>2. Exits(todo'[t])
    <3>1. todo'[t] = FailOps(t) BY <1>a, <2>1 DEF Restart, TodoOK
    <3> QED BY <3>1, FailFresh
  <2>3. t \in Consumers
    <3>1. t \in MayFail BY <1>7 DEF TaskFails
    <3> QED BY <3>1, SchedulerAssumption DEF Consumers
  <2>4. Turns(t) BY <1>7, <2>2, <2>3 DEF TaskFails, Turns, Reads, codecVars
  <2> QED BY <1>c, <2>1, <2>4, MoveEnd
<1>8. CASE Discard(t)
  <2>1. todo' = todo BY <1>8 DEF Discard
  <2>2. t \in Consumers /\ TqDiscard(t) /\ UNCHANGED codecVars BY <1>8 DEF Discard
  <2>3. Turns(t) BY <2>2 DEF Turns, Drains, TqDiscard, codecVars
  <2> QED BY <1>c, <2>1, <2>3, MoveNone
<1> QED BY <1>1, <1>2, <1>3, <1>4, <1>5, <1>6, <1>7, <1>8 DEF LoopStep

LEMMA LoopGoesOn ==
    ASSUME TypeInv, ListInv, NEW t \in Tasks, LoopStep(t)
    PROVE  (\A u \in Threads : Moves(u)) /\ opened' = opened
<1>1. CASE DemuxEmits(t) \/ FilterEmits(t) \/ CodecEmits(t)
  BY <1>1, LoopMoves, EmitsMoves DEF DemuxEmits, FilterEmits, CodecEmits
<1>2. CASE MuxTakes(t)
  <2>1. todo' = todo BY <1>2 DEF MuxTakes
  <2> QED BY <2>1, LoopMoves, MoveNone, QuietMoves
<1> QED BY <1>1, <1>2, LoopMoves, QuietMoves

LEMMA OtherMoves ==
    ASSUME TypeInv, NEW t \in Threads, EndStep(t) \/ (t = Main /\ (MainStep \/ UserStops))
    PROVE  (\A u \in Threads : Quiet(u)) /\ opened' = opened
<1> USE DEF TypeInv, Typed
<1>1. CASE EndStep(t)
  <2>1. \E n \in {"receive_close", "mux_count", "task_failed"} : Next1(t, n) /\ Pop(t)
    BY <1>1 DEF EndStep, ReceiveClose, MuxCount, TaskFailed
  <2>2. opened' = opened BY <1>1 DEF EndStep, ReceiveClose, MuxCount, TaskFailed, LoopUnchanged
  <2> QED BY <2>1, <2>2, MovePop
<1>2. CASE t = Main /\ (SchWaitDone \/ UserStops)
  <2>1. Restart(Main, StopOps) /\ opened' = opened BY <1>2 DEF SchWaitDone, UserStops, MainUnchanged
  <2> QED BY <1>2, <2>1, StopFresh, MoveEnds DEF Late
<1>3. CASE t = Main /\ SchStop
  <2>1. /\ Pop(Main) /\ opened' = opened
        /\ \E n \in {"terminate", "stop_waiter", "unfreeze"} : Next1(Main, n)
    BY <1>3 DEF SchStop, MainUnchanged
  <2> QED BY <1>3, <2>1, MovePop
<1>4. CASE t = Main /\ TaskStop
  <2>1. opened' = opened BY <1>4 DEF TaskStop
  <2>2. CASE Next1(Main, "join") /\ Pop(Main) BY <1>4, <2>1, <2>2, MovePop
  <2>3. CASE Next1(Main, "join_mux") /\ Pop(Main) BY <1>4, <2>1, <2>3, MovePop
  <2>4. CASE /\ Next1(Main, "join_mux")
             /\ LET m == Arg(Main)[1]
                IN  Replace(Main, <<Op("mux_done", On(m), NOPTS), Op("mux_count", On(m), NOPTS)>>)
    <3>1. PICK m \in Muxers : Arg(Main) = On(m) BY <1>4, <2>4, HeadArg
    <3>2. Arg(Main)[1] = m BY <3>1 DEF On
    <3>3. PICK a \in Ops(Main) : a = Op("mux_done", On(m), NOPTS) BY MakesOp
    <3>4. PICK b \in Ops(Main) : b = Op("mux_count", On(m), NOPTS) BY MakesOp
    <3>5. <<a, b>> \in Seq(Ops(Main)) BY TwoOps
    <3>6. a.op = "mux_done" /\ b.op = "mux_count" BY <3>3, <3>4 DEF Op
    <3>7. Range(<<a, b>>) = {a, b} BY DEF Range
    <3>8. Mute(<<a, b>>) /\ Dated(<<a, b>>, Head(todo[Main])) BY <3>6, <3>7 DEF Mute, Loud, Dated
    <3>9. Replace(Main, <<a, b>>) BY <2>4, <3>2, <3>3, <3>4
    <3> QED BY <1>4, <2>1, <2>4, <3>5, <3>8, <3>9, MoveGoesOn
  <2> QED BY <1>4, <2>2, <2>3, <2>4 DEF TaskStop
<1> QED BY <1>1, <1>2, <1>3, <1>4 DEF MainStep

LEMMA SameOpenOK ==
    ASSUME opened' = opened, NEW t, NEW o, OpenOK(t, o)
    PROVE  OpenOK(t, o)'
<1>1. (Src(o.k) \in Encoders)' <=> Src(o.k) \in Encoders BY DEF Src, SrcOf, Dsts
<1> QED BY DEF OpenOK

LEMMA TailType ==
    ASSUME NEW A, NEW s \in Seq(A), s # <<>>
    PROVE  Tail(s) \in Seq(A)
OBVIOUS

LEMMA ListInvMoves ==
    ASSUME TodoOK, ListInv, opened' = opened, \A u \in Threads : Moves(u)
    PROVE  ListInv'
<1> SUFFICES ASSUME NEW u \in Threads
             PROVE  Apart(todo'[u]) /\ \A o \in Range(todo'[u]) : OpenOK(u, o)
  BY SameOpenOK DEF ListInv
<1>1. CASE todo'[u] = todo[u] BY <1>1 DEF ListInv
<1>2. CASE GoesOn(u)
  <2>1. PICK q \in Seq(Ops(u)) : Mute(q) /\ todo'[u] = q \o Tail(todo[u]) BY <1>2 DEF GoesOn
  <2>2. PICK s \in Seq(Ops(u)) : s = todo[u] BY DEF TodoOK
  <2>3. s # <<>> /\ Apart(s) /\ \A o \in Range(s) : OpenOK(u, o) BY <1>2, <2>2 DEF GoesOn, ListInv
  <2>4. PICK r \in Seq(Ops(u)) : r = Tail(s) BY <2>3, TailType
  <2>5. (\A o \in Range(r) : o \in Range(s)) /\ Apart(r) BY <2>3, <2>4, TailParts
  <2>6. Apart(q) BY <2>1, MuteApart DEF Mute
  <2>7. \A o \in Range(q), p \in Range(r) : ~ Clash(o, p) /\ ~ Clash(p, o)
    BY <2>1 DEF Mute, Loud, Clash
  <2>8. Apart(q \o r) BY <2>5, <2>6, <2>7, ApartConcat
  <2>9. \A o : o \in Range(q \o r) <=> o \in Range(q) \/ o \in Range(r) BY RangeConcat
  <2>10. \A o \in Range(q) : OpenOK(u, o) BY <2>1 DEF Mute, Loud, OpenOK
  <2> QED BY <2>1, <2>2, <2>3, <2>4, <2>5, <2>8, <2>9, <2>10
<1>3. CASE Ends(u) \/ Begins(u) BY <1>3 DEF Ends, Begins, Fresh
<1> QED BY <1>1, <1>2, <1>3 DEF Moves, Quiet, Rests

(* A stream that is being made ready.                                      *)
Pending(k) == \E t \in Threads : \E o \in Range(todo[t]) : o.op = "ready" /\ o.k = k

LEMMA PendingMoves ==
    ASSUME TodoOK, \A u \in Threads : Moves(u), NEW k, Pending(k)'
    PROVE  Pending(k)
<1>1. PICK u \in Threads : \E o \in Range(todo'[u]) : o.op = "ready" /\ o.k = k BY DEF Pending
<1>2. PICK o \in Range(todo'[u]) : o.op = "ready" /\ o.k = k BY <1>1
<1>3. CASE todo'[u] = todo[u] BY <1>2, <1>3 DEF Pending
<1>4. CASE GoesOn(u)
  <2>1. PICK q \in Seq(Ops(u)) : Mute(q) /\ todo'[u] = q \o Tail(todo[u]) BY <1>4 DEF GoesOn
  <2>2. PICK s \in Seq(Ops(u)) : s = todo[u] BY DEF TodoOK
  <2>3. s # <<>> BY <1>4, <2>2 DEF GoesOn
  <2>4. PICK r \in Seq(Ops(u)) : r = Tail(s) BY <2>3, TailType
  <2>5. \A p \in Range(r) : p \in Range(s) BY <2>3, <2>4, TailParts
  <2>6. o \in Range(q) \/ o \in Range(r) BY <2>1, <2>2, <2>4, RangeConcat
  <2>7. o \notin Range(q) BY <1>2, <2>1 DEF Mute, Loud
  <2> QED BY <1>2, <2>2, <2>5, <2>6, <2>7 DEF Pending
<1>5. CASE Ends(u) \/ Begins(u) BY <1>2, <1>5 DEF Ends, Begins, Fresh
<1> QED BY <1>3, <1>4, <1>5, <1>1 DEF Moves, Quiet, Rests

-----------------------------------------------------------------------------
(* The encoder is opened.                                                  *)
LEMMA OpenIs ==
    ASSUME TodoOK, NEW t \in Threads, EncOpen(t)
    PROVE  \E e \in Encoders, n \in {"open", "send"} :
             /\ Arg(t) = On(e) /\ t = Opener(e) /\ opened' = opened \cup {e} /\ Next1(t, n)
             /\ n = "send" => e \notin opened
             /\ Replace(t, ReadyOps(e) \o (IF n = "send" THEN <<Head(todo[t])>> ELSE <<>>))
<1>1. opened' = opened \cup {Arg(t)[1]} BY DEF EncOpen
<1>2. CASE /\ OpensBySending(t)
           /\ Replace(t, ReadyOps(Arg(t)[1]) \o AfterOpening(t))
  <2>1. Next1(t, "send") /\ Arg(t)[1] \in Encoders \ opened /\ ~ OpensItself(Arg(t)[1])
    BY <1>2 DEF OpensBySending, OpensEncoder
  <2>2. Arg(t) \in Feeds(t) BY <2>1, HeadArg
  <2>3. PICK e \in Encoders : e = Arg(t)[1] BY <2>1
  <2>4. Arg(t) \in Ports(Consumers) /\ t \in Producers /\ Arg(t) \in Dsts(t) BY <2>2 DEF Feeds
  <2>5. Arg(t) = <<e, Arg(t)[2]>> /\ Arg(t)[2] \in Inputs(e) BY <2>3, <2>4, PortIs
  <2>6. NbIn[e] = 1 BY GraphAssumption
  <2>7. Arg(t) = On(e) BY <2>5, <2>6 DEF On, Inputs
  <2>8. Src(On(e)) = t BY <2>4, <2>7, SrcFeeds
  <2>9. t = Opener(e) BY <2>1, <2>3, <2>8 DEF Opener
  <2>10. Replace(t, ReadyOps(e) \o <<Head(todo[t])>>) BY <1>2, <2>3 DEF AfterOpening
  <2> QED BY <1>1, <2>1, <2>3, <2>7, <2>9, <2>10
<1>3. CASE Next1(t, "open") /\ Replace(t, ReadyOps(Arg(t)[1]))
  <2>1. Arg(t) \in Opens(t) BY <1>3, HeadArg
  <2>2. PICK e \in Encoders : e = Arg(t)[1] /\ Arg(t) = On(e) /\ t = Opener(e) BY <2>1, OpensIs
  <2>3. PICK r \in Seq(Ops(t)) : r = ReadyOps(e) BY ReadyType
  <2>4. r \o <<>> = r OBVIOUS
  <2>5. Replace(t, ReadyOps(e) \o <<>>) BY <1>3, <2>2, <2>3, <2>4
  <2> QED BY <1>1, <1>3, <2>2, <2>5
<1> QED BY <1>2, <1>3 DEF EncOpen

LEMMA ReadyIs ==
    ASSUME NEW t, NEW e \in Encoders
    PROVE  /\ Apart(ReadyOps(e))
           /\ \A o \in Range(ReadyOps(e)) : o.op = "ready" /\ o.k \in MuxStreams /\ Src(o.k) = e
<1>1. e \in Producers BY DEF Producers
<1>2. AllDsts(e) \in Seq(Feeds(e)) /\ Once(AllDsts(e)) BY <1>1, FeedsAll, DstsOnce
<1>3. PICK ports : ports = Keep(AllDsts(e), MuxStreams) OBVIOUS
<1>4. ports \in Seq(Feeds(e) \cap MuxStreams) BY <1>2, <1>3, KeepType
<1>5. Once(ports) BY <1>2, <1>3, KeepOnce
<1>6. PICK s : s = OpsFor("ready", ports, NOPTS) OBVIOUS
<1>7. DOMAIN s = DOMAIN ports /\ \A i \in DOMAIN ports : s[i] = Op("ready", ports[i], NOPTS)
  BY <1>4, <1>6, MapRange
<1>8. \A i \in DOMAIN ports : s[i].op = "ready" /\ s[i].k = ports[i] BY <1>7 DEF Op
<1>9. Apart(s) BY <1>5, <1>7, <1>8 DEF Apart, Clash, Once
<1>10. \A i \in DOMAIN ports : ports[i] \in Feeds(e) /\ ports[i] \in MuxStreams BY <1>4
<1>11. \A k \in Feeds(e) : Src(k) = e BY <1>1, SrcFeeds DEF Feeds
<1>12. \A o \in Range(s) : o.op = "ready" /\ o.k \in MuxStreams /\ Src(o.k) = e
  BY <1>7, <1>8, <1>10, <1>11 DEF Range
<1>13. ReadyOps(e) = s BY <1>3, <1>6 DEF ReadyOps
<1> QED BY <1>9, <1>12, <1>13

LEMMA HeadAndTail ==
    ASSUME NEW A, NEW s \in Seq(A), s # <<>>, NEW q \in Seq(A)
    PROVE  q \o <<Head(s)>> \o Tail(s) = q \o s /\ q \o <<>> = q
OBVIOUS

LEMMA OpenList ==
    ASSUME TypeInv, ListInv, NEW t \in Threads, EncOpen(t)
    PROVE  /\ ListInv'
           /\ \E e \in Encoders : /\ opened' = opened \cup {e} /\ e \notin opened
                                  /\ \A k : Pending(k)' => Pending(k) \/ (k \in MuxStreams /\ Src(k) = e)
<1>1. TodoOK BY DEF TypeInv, Typed
<1>2. PICK e \in Encoders, n \in {"open", "send"} :
             /\ Arg(t) = On(e) /\ t = Opener(e) /\ opened' = opened \cup {e} /\ Next1(t, n)
             /\ n = "send" => e \notin opened
             /\ Replace(t, ReadyOps(e) \o (IF n = "send" THEN <<Head(todo[t])>> ELSE <<>>))
  BY <1>1, OpenIs
<1>3. PICK s \in Seq(Ops(t)) : s = todo[t] BY <1>1 DEF TodoOK
<1>4. s # <<>> /\ Head(s).op = n /\ Head(s).k = On(e) /\ Head(s) \in Ops(t)
  BY <1>1, <1>2, <1>3, HeadType DEF Arg
<1>5. Apart(s) /\ \A o \in Range(s) : OpenOK(t, o) BY <1>3 DEF ListInv
<1>6. PICK r \in Seq(Ops(t)) : r = Tail(s) BY <1>4, TailType
<1>7. /\ \A o : o \in Range(s) <=> o = Head(s) \/ o \in Range(r)
      /\ Apart(r) /\ \A o \in Range(r) : ~ Clash(Head(s), o) /\ ~ Clash(o, Head(s))
  BY <1>4, <1>5, <1>6, TailParts
<1>8. e \notin opened
  <2>1. n = "open" => OpenOK(t, Head(s)) BY <1>5, <1>7
  <2>2. On(e)[1] = e BY DEF On
  <2> QED BY <1>2, <1>4, <2>1, <2>2 DEF OpenOK
<1>9. PICK q \in Seq(Ops(t)) : q = ReadyOps(e) BY ReadyType
<1>10. Apart(q) /\ \A o \in Range(q) : o.op = "ready" /\ o.k \in MuxStreams /\ Src(o.k) = e
  BY <1>9, ReadyIs
<1>11. \A u \in Threads \ {t} : todo'[u] = todo[u] BY <1>1, <1>2, OwnRestart
(* What stays in the list of t.                                            *)
<1>12. PICK p \in Seq(Ops(t)) :
          /\ todo'[t] = q \o p
          /\ Apart(p) /\ \A o \in Range(p) : o \in Range(s) /\ ~ (o.op = "open" /\ o.k = On(e))
  <2>1. CASE n = "send"
    <3>1. todo'[t] = q \o <<Head(s)>> \o r BY <1>1, <1>2, <1>3, <1>6, <1>9, <2>1 DEF Replace, TodoOK
    <3>2. todo'[t] = q \o s BY <1>4, <1>6, <3>1, HeadAndTail
    <3>3. \A o \in Range(s) : ~ (o.op = "open" /\ o.k = On(e)) BY <1>4, <1>7, <2>1 DEF Clash
    <3> QED BY <1>5, <3>2, <3>3
  <2>2. CASE n = "open"
    <3>1. todo'[t] = (q \o <<>>) \o r BY <1>1, <1>2, <1>3, <1>6, <1>9, <2>2 DEF Replace, TodoOK
    <3>2. todo'[t] = q \o r BY <1>4, <3>1, HeadAndTail
    <3>3. \A o \in Range(r) : ~ (o.op = "open" /\ o.k = On(e)) BY <1>4, <1>7, <2>2 DEF Clash
    <3> QED BY <1>7, <3>2, <3>3
  <2> QED BY <2>1, <2>2
<1>13. \A o \in Range(q), x \in Range(p) : ~ Clash(o, x) /\ ~ Clash(x, o)
  <2> SUFFICES ASSUME NEW o \in Range(q), NEW x \in Range(p) PROVE ~ Clash(o, x) /\ ~ Clash(x, o)
    OBVIOUS
  <2>1. o.op = "ready" /\ Src(o.k) = e BY <1>10
  <2>2. x.op = "ready" => Src(x.k) \in opened BY <1>5, <1>12 DEF OpenOK
  <2> QED BY <1>8, <2>1, <2>2 DEF Clash
<1>14. Apart(q \o p) BY <1>10, <1>12, <1>13, ApartConcat
<1>15. \A o : o \in Range(q \o p) <=> o \in Range(q) \/ o \in Range(p) BY RangeConcat
<1>16. ASSUME NEW u \in Threads, NEW o \in Ops(u), OpenOK(u, o), ~ (u = t /\ o.op = "open" /\ o.k = On(e))
       PROVE  OpenOK(u, o)'
  <2>1. o.op = "open" => o.k[1] # e
    <3> SUFFICES ASSUME o.op = "open", o.k[1] = e PROVE FALSE OBVIOUS
    <3>1. o.k \in Opens(u) BY OpIs
    <3>2. o.k = On(e) /\ u = Opener(e) BY <3>1, OpensIs
    <3> QED BY <1>2, <1>16, <3>2
  <2> QED BY <1>2, <1>16, <2>1 DEF OpenOK
<1>17. ASSUME NEW o \in Range(q) PROVE OpenOK(t, o)'
  <2>1. o.op = "ready" /\ Src(o.k) = e /\ e \in Encoders BY <1>10
  <2>2. e \in opened' BY <1>2
  <2> QED BY <1>2, <2>1, <2>2 DEF OpenOK
<1>18. ListInv'
  <2> SUFFICES ASSUME NEW u \in Threads
               PROVE  Apart(todo'[u]) /\ \A o \in Range(todo'[u]) : OpenOK(u, o)'
    BY DEF ListInv
  <2>1. CASE u # t
    <3>1. todo'[u] = todo[u] BY <1>11, <2>1
    <3>2. PICK v \in Seq(Ops(u)) : v = todo[u] BY <1>1 DEF TodoOK
    <3>3. \A o \in Range(v) : o \in Ops(u) BY DEF Range
    <3>4. Apart(v) /\ \A o \in Range(v) : OpenOK(u, o) BY <3>2 DEF ListInv
    <3> QED BY <1>16, <2>1, <3>1, <3>2, <3>3, <3>4
  <2>2. CASE u = t
    <3>1. \A o \in Range(s) : o \in Ops(t) BY DEF Range
    <3>2. \A o \in Range(p) : OpenOK(t, o)' BY <1>5, <1>12, <1>16, <3>1
    <3>3. \A o \in Range(q \o p) : OpenOK(t, o)' BY <1>15, <1>17, <3>2
    <3> QED BY <1>12, <1>14, <2>2, <3>3
  <2> QED BY <2>1, <2>2
<1>19. ASSUME NEW k, Pending(k)' PROVE Pending(k) \/ (k \in MuxStreams /\ Src(k) = e)
  <2>1. PICK u \in Threads : \E o \in Range(todo'[u]) : o.op = "ready" /\ o.k = k BY <1>19 DEF Pending
  <2>2. PICK o \in Range(todo'[u]) : o.op = "ready" /\ o.k = k BY <2>1
  <2>3. CASE u # t BY <1>11, <2>2, <2>3 DEF Pending
  <2>4. CASE u = t
    <3>1. o \in Range(q) \/ o \in Range(p) BY <1>12, <1>15, <2>2, <2>4
    <3>2. CASE o \in Range(q) BY <1>10, <2>2, <3>2
    <3>3. CASE o \in Range(p) BY <1>3, <1>12, <2>2, <3>3 DEF Pending
    <3> QED BY <3>1, <3>2, <3>3
  <2> QED BY <2>3, <2>4
<1> QED BY <1>2, <1>8, <1>18, <1>19

(***************************************************************************)
(* A muxer counts its ready streams: the copied ones, and those of open    *)
(* encoders that have been made ready.                                     *)
(***************************************************************************)
Counted(m) == {i \in Inputs(m) :
                 Copied(<<m, i>>) \/ (Src(<<m, i>>) \in opened /\ ~ Pending(<<m, i>>))}
CountInv == \A m \in Muxers : nb_streams_ready[m] <= Cardinality(Counted(m))

LEMMA CountedSize ==
    ASSUME NEW m \in Muxers, NEW S \in SUBSET Inputs(m)
    PROVE  IsFiniteSet(S) /\ Cardinality(S) \in Nat /\ Cardinality(S) <= NbIn[m]
<1>1. IsFiniteSet(Inputs(m)) /\ Cardinality(Inputs(m)) = NbIn[m] BY InputsCounted DEF Consumers
<1>2. IsFiniteSet(S) /\ Cardinality(S) <= Cardinality(Inputs(m)) BY <1>1, FS_Subset
<1> QED BY <1>1, <1>2, FS_CardinalityType

LEMMA SameSource == \A k : (Src(k)' = Src(k)) /\ (Copied(k)' <=> Copied(k))
BY DEF Src, SrcOf, Dsts, Copied

LEMMA CountedGrows ==
    ASSUME NEW m \in Muxers, opened \subseteq opened',
           \A k : Pending(k)' => Pending(k) \/ Src(k) \notin opened
    PROVE  Counted(m) \subseteq Counted(m)'
<1> SUFFICES ASSUME NEW i \in Counted(m) PROVE i \in Counted(m)' OBVIOUS
<1>1. PICK k : k = <<m, i>> OBVIOUS
<1>2. i \in Inputs(m) /\ (Copied(k) \/ (Src(k) \in opened /\ ~ Pending(k))) BY <1>1 DEF Counted
<1>3. Copied(k)' \/ (Src(k)' \in opened' /\ ~ Pending(k)') BY <1>2, SameSource
<1> QED BY <1>1, <1>2, <1>3 DEF Counted

LEMMA CountStays ==
    ASSUME TypeInv, CountInv, nb_streams_ready' = nb_streams_ready, opened \subseteq opened',
           \A k : Pending(k)' => Pending(k) \/ Src(k) \notin opened
    PROVE  CountInv'
<1> SUFFICES ASSUME NEW m \in Muxers PROVE nb_streams_ready'[m] <= Cardinality(Counted(m)')
  BY DEF CountInv
<1>1. PICK S, T : S = Counted(m) /\ T = Counted(m)' OBVIOUS
<1>2. S \subseteq T BY <1>1, CountedGrows
<1>3. T \subseteq Inputs(m) BY <1>1 DEF Counted
<1>4. IsFiniteSet(T) /\ Cardinality(T) \in Nat /\ Cardinality(S) \in Nat BY <1>2, <1>3, CountedSize
<1>5. Cardinality(S) <= Cardinality(T) BY <1>2, <1>4, FS_Subset
<1>6. nb_streams_ready[m] <= Cardinality(S) /\ nb_streams_ready[m] \in Nat
  BY <1>1 DEF CountInv, TypeInv, Typed, FlagsOK
<1> QED BY <1>1, <1>4, <1>5, <1>6

(* sch_mux_stream_ready() is called once for a stream.                     *)
LEMMA ReadyOnce ==
    ASSUME TypeInv, ListInv, ListInv', NEW t \in Threads, MuxStreamReady(t), NEW k, k = Arg(t)
    PROVE  Pending(k) /\ ~ Pending(k)' /\ ~ Copied(k) /\ Src(k) \in opened
<1>1. TodoOK /\ Next1(t, "ready") BY DEF TypeInv, Typed, MuxStreamReady
<1>2. PICK s \in Seq(Ops(t)) : s = todo[t] BY <1>1 DEF TodoOK
<1>3. s # <<>> /\ Head(s).op = "ready" /\ Head(s).k = k BY <1>1, <1>2 DEF Next1, Arg
<1>4. Apart(s) /\ \A o \in Range(s) : OpenOK(t, o) BY <1>2 DEF ListInv
<1>5. PICK r \in Seq(Ops(t)) : r = Tail(s) BY <1>3, TailType
<1>6. /\ \A o : o \in Range(s) <=> o = Head(s) \/ o \in Range(r)
      /\ \A o \in Range(r) : ~ Clash(Head(s), o)
  BY <1>3, <1>4, <1>5, TailParts
<1>7. Src(k) \in Encoders \cap opened /\ t = Opener(Src(k)) BY <1>3, <1>4, <1>6 DEF OpenOK
<1>8. Pending(k) BY <1>2, <1>3, <1>6 DEF Pending
<1>9. ~ Copied(k) BY <1>7, Kinds DEF Copied
<1>10. PICK q \in Seq(Ops(t)) : Mute(q) /\ todo'[t] = q \o r
  BY <1>2, <1>5, ReadyMoves, QuietMoves DEF GoesOn
<1>11. ASSUME NEW u \in Threads, NEW o \in Range(todo'[u]), o.op = "ready", o.k = k PROVE FALSE
  <2>1. OpenOK(u, o)' BY <1>11 DEF ListInv
  <2>2. u = Opener(Src(k))' BY <1>11, <2>1 DEF OpenOK
  <2>3. Opener(Src(k))' = Opener(Src(k)) BY DEF Opener, OpensItself, Src, SrcOf, Dsts, On
  <2>4. u = t BY <1>7, <2>2, <2>3
  <2>5. o \in Range(q) \/ o \in Range(r) BY <1>10, <1>11, <2>4, RangeConcat
  <2>6. o \notin Range(q) BY <1>10, <1>11 DEF Mute, Loud
  <2>7. o \notin Range(r) BY <1>3, <1>6, <1>11 DEF Clash
  <2> QED BY <2>5, <2>6, <2>7
<1>12. ~ Pending(k)' BY <1>11 DEF Pending
<1> QED BY <1>7, <1>8, <1>9, <1>12

LEMMA CountReady ==
    ASSUME TypeInv, ListInv, ListInv', CountInv, NEW t \in Threads, MuxStreamReady(t)
    PROVE  CountInv'
<1> SUFFICES ASSUME NEW m \in Muxers PROVE nb_streams_ready'[m] <= Cardinality(Counted(m)')
  BY DEF CountInv
<1>1. TodoOK /\ Next1(t, "ready") /\ opened' = opened BY ReadyMoves, QuietMoves DEF TypeInv, Typed, MuxStreamReady
<1>2. \A j : Pending(j)' => Pending(j) BY <1>1, ReadyMoves, QuietMoves, PendingMoves
<1>3. PICK S, T : S = Counted(m) /\ T = Counted(m)' OBVIOUS
<1>4. S \subseteq T BY <1>1, <1>2, <1>3, CountedGrows
<1>5. T \subseteq Inputs(m) BY <1>3 DEF Counted
<1>6. IsFiniteSet(T) /\ IsFiniteSet(S) /\ Cardinality(T) \in Nat /\ Cardinality(S) \in Nat
  BY <1>4, <1>5, CountedSize
<1>7. PICK n \in Nat : n = nb_streams_ready[m] /\ n <= Cardinality(S)
  BY <1>3 DEF CountInv, TypeInv, Typed, FlagsOK
<1>8. PICK k \in MuxStreams : k = Arg(t) BY <1>1, HeadArg
<1>9. k = <<k[1], k[2]>> /\ k[2] \in Inputs(k[1]) BY <1>8, PortIs DEF MuxStreams
<1>10. CASE m # k[1]
  <2>1. nb_streams_ready'[m] = n BY <1>7, <1>8, <1>10 DEF MuxStreamReady, TypeInv, Typed, FlagsOK
  <2>2. Cardinality(S) <= Cardinality(T) BY <1>4, <1>6, FS_Subset
  <2> QED BY <1>3, <1>6, <1>7, <2>1, <2>2
<1>11. CASE m = k[1]
  <2>1. nb_streams_ready'[m] = n + 1 BY <1>7, <1>8, <1>11 DEF MuxStreamReady, TypeInv, Typed, FlagsOK
  <2>2. k = <<m, k[2]>> /\ k[2] \in Inputs(m) BY <1>9, <1>11
  <2>3. Pending(k) /\ ~ Pending(k)' /\ ~ Copied(k) /\ Src(k) \in opened BY <1>8, ReadyOnce
  <2>4. k[2] \notin S BY <1>3, <2>2, <2>3 DEF Counted
  <2>5. Src(k)' \in opened' BY <1>1, <2>3, SameSource
  <2>6. k[2] \in T BY <1>3, <2>2, <2>3, <2>5 DEF Counted
  <2>7. Cardinality(S \cup {k[2]}) = Cardinality(S) + 1 BY <1>6, <2>4, FS_AddElement
  <2>8. S \cup {k[2]} \subseteq T BY <1>4, <2>6
  <2>9. Cardinality(S \cup {k[2]}) <= Cardinality(T) BY <1>6, <2>8, FS_Subset
  <2> QED BY <1>3, <1>6, <1>7, <2>1, <2>7, <2>9
<1> QED BY <1>10, <1>11

LEMMA ListInvStep ==
    ASSUME IInv, TypeInv, ListInv, [Next]_vars
    PROVE  ListInv'
<1>1. TodoOK BY DEF TypeInv, Typed
<1>2. ASSUME NEW t \in Threads, ThreadStep(t) PROVE ListInv'
  <2>1. CASE LockStep(t) BY <1>1, <2>1, LockMoves, QuietMoves, ListInvMoves
  <2>2. CASE SendStep(t) /\ ~ EncOpen(t) BY <1>1, <2>2, SendMoves, QuietMoves, ListInvMoves
  <2>3. CASE EncOpen(t) BY <2>3, OpenList
  <2>4. CASE EndStep(t) BY <1>1, <2>4, OtherMoves, QuietMoves, ListInvMoves
  <2>5. CASE t # Main /\ LoopStep(t)
    <3>1. t \in Tasks BY <2>5 DEF Threads
    <3> QED BY <1>1, <2>5, <3>1, LoopGoesOn, ListInvMoves
  <2>6. CASE t = Main /\ MainStep BY <1>1, <2>6, OtherMoves, QuietMoves, ListInvMoves
  <2> QED BY <1>2, <2>1, <2>2, <2>3, <2>4, <2>5, <2>6 DEF ThreadStep
<1>3. CASE UserStops
  <2>1. Main \in Threads BY DEF Threads
  <2> QED BY <1>1, <1>3, <2>1, OtherMoves, QuietMoves, ListInvMoves
<1>4. CASE UNCHANGED vars
  <2>1. todo' = todo /\ opened' = opened BY <1>4 DEF vars
  <2> QED BY <1>1, <2>1, MoveNone, QuietMoves, ListInvMoves
<1> QED BY <1>2, <1>3, <1>4 DEF Next

LEMMA CountInvStep ==
    ASSUME IInv, TypeInv, ListInv, CountInv, [Next]_vars
    PROVE  CountInv'
<1>1. TodoOK BY DEF TypeInv, Typed
<1>2. ASSUME \A u \in Threads : Moves(u), opened' = opened, nb_streams_ready' = nb_streams_ready
      PROVE  CountInv'
  BY <1>1, <1>2, PendingMoves, CountStays
<1>3. ASSUME NEW t \in Threads, ThreadStep(t) PROVE CountInv'
  <2>1. CASE LockStep(t)
    <3>1. nb_streams_ready' = nb_streams_ready
      BY <2>1 DEF LockStep, ScheduleFirst, SetLastDts, SourceFinished, MuxDone, FilterSendFinished,
                  FilterReceiveFinish, SetBestInput, TaskExited, ScheduleApply, SchedUnchanged, muxVars
    <3> QED BY <1>2, <2>1, <3>1, LockMoves, QuietMoves
  <2>2. CASE SendStep(t) /\ ~ EncOpen(t) /\ ~ MuxStreamReady(t)
    <3>1. nb_streams_ready' = nb_streams_ready
      BY <2>2 DEF SendStep, SendToPreMux, Send, SendFinish, EncOpenFails, MuxTaskStart, muxVars
    <3> QED BY <1>2, <2>2, <3>1, SendMoves, QuietMoves
  <2>3. CASE EncOpen(t)
    <3>1. PICK e \in Encoders : /\ opened' = opened \cup {e} /\ e \notin opened
                                /\ \A k : Pending(k)' => Pending(k) \/ (k \in MuxStreams /\ Src(k) = e)
      BY <2>3, OpenList
    <3>2. nb_streams_ready' = nb_streams_ready BY <2>3 DEF EncOpen, muxVars
    <3> QED BY <3>1, <3>2, CountStays
  <2>4. CASE MuxStreamReady(t)
    <3>1. ListInv' BY <1>1, <2>4, ReadyMoves, QuietMoves, ListInvMoves
    <3> QED BY <2>4, <3>1, CountReady
  <2>5. CASE EndStep(t)
    <3>1. nb_streams_ready' = nb_streams_ready
      BY <2>5 DEF EndStep, ReceiveClose, MuxCount, TaskFailed, LoopUnchanged, muxVars
    <3> QED BY <1>2, <2>5, <3>1, OtherMoves, QuietMoves
  <2>6. CASE t # Main /\ LoopStep(t)
    <3>1. t \in Tasks BY <2>6 DEF Threads
    <3>2. nb_streams_ready' = nb_streams_ready
      BY <2>6 DEF LoopStep, WaiterWoken, DemuxRead, DecReceive, FilterStep, FilterEmit, FilterEnd,
                  FilterAsk, FilterWait, FilterReceive, EncReceive, MuxReceive, TaskFails, Discard,
                  LoopUnchanged, muxVars
    <3> QED BY <1>2, <2>6, <3>1, <3>2, LoopGoesOn
  <2>7. CASE t = Main /\ MainStep
    <3>1. nb_streams_ready' = nb_streams_ready
      BY <2>7 DEF MainStep, SchWaitDone, SchStop, TaskStop, MainUnchanged, muxVars
    <3> QED BY <1>2, <2>7, <3>1, OtherMoves, QuietMoves
  <2> QED BY <1>3, <2>1, <2>2, <2>3, <2>4, <2>5, <2>6, <2>7 DEF ThreadStep
<1>4. CASE UserStops
  <2>1. Main \in Threads BY DEF Threads
  <2>2. nb_streams_ready' = nb_streams_ready BY <1>4 DEF UserStops, MainUnchanged, muxVars
  <2> QED BY <1>2, <1>4, <2>1, <2>2, OtherMoves, QuietMoves
<1>5. CASE UNCHANGED vars
  <2>1. todo' = todo /\ opened' = opened /\ nb_streams_ready' = nb_streams_ready
    BY <1>5 DEF vars, muxVars
  <2> QED BY <1>2, <2>1, MoveNone, QuietMoves
<1> QED BY <1>3, <1>4, <1>5 DEF Next

LEMMA InitList == Init => ListInv /\ CountInv
<1> SUFFICES ASSUME Init PROVE ListInv /\ CountInv OBVIOUS
<1>1. opened = {} BY DEF Init
<1>2. ASSUME NEW t \in Threads
      PROVE  Apart(todo[t]) /\ \A o \in Range(todo[t]) : o.op \in {"schedule", "open"}
  <2>1. todo[t] \in {<<>>, <<Op("schedule", On(t), NOPTS)>>, <<Op("open", On(t), NOPTS)>>} BY <1>2 DEF Init
  <2>2. Apart(<<>>) BY RangeSmall, MuteApart
  <2>3. \A n : Op(n, On(t), NOPTS).op = n BY DEF Op
  <2> HIDE DEF Op
  <2> QED BY <2>1, <2>2, <2>3, OneApart, RangeSmall
<1>3. ListInv BY <1>1, <1>2 DEF ListInv, OpenOK
<1>4. ASSUME NEW m \in Muxers PROVE nb_streams_ready[m] <= Cardinality(Counted(m))
  <2>1. PICK S : S = Counted(m) OBVIOUS
  <2>2. S = {i \in Inputs(m) : Copied(<<m, i>>)} BY <1>1, <2>1 DEF Counted
  <2>3. nb_streams_ready[m] = Cardinality(S) BY <2>2 DEF Init
  <2>4. Cardinality(S) \in Nat BY <2>2, CountedSize
  <2> QED BY <2>1, <2>3, <2>4
<1> QED BY <1>3, <1>4 DEF CountInv

(* Every variable of the scheduler keeps its type; in particular no more   *)
(* streams of a muxer are counted ready than it has, and no ThreadQueue    *)
(* gets longer than its size, although senders, mux_task_start() and       *)
(* sch_mux_stream_ready() meet from different threads.                     *)
THEOREM TypesHold == Spec => []TypeOK
<1> DEFINE J == IInv /\ TypeInv /\ ListInv /\ CountInv
<1>1. Init => J BY InitIInv, InitTypeInv, InitList
<1>2. J /\ [Next]_vars => J' BY IInvStep, TypeInvStep, ListInvStep, CountInvStep
<1>3. J => TypeOK
  <2> SUFFICES ASSUME J PROVE TypeOK OBVIOUS
  <2>1. \A t \in Threads : \A i \in DOMAIN todo[t] : DOMAIN todo[t][i] = {"op", "k", "ts"}
    <3> SUFFICES ASSUME NEW t \in Threads, NEW i \in DOMAIN todo[t]
                 PROVE  DOMAIN todo[t][i] = {"op", "k", "ts"}
      OBVIOUS
    <3>1. PICK s \in Seq(Ops(t)) : s = todo[t] BY DEF TypeInv, Typed, TodoOK
    <3>2. s[i] \in Ops(t) BY <3>1
    <3>3. s[i] = Op(s[i].op, s[i].k, s[i].ts) BY <3>2, OpIs
    <3> QED BY <3>1, <3>3 DEF Op
  <2>2. \A m \in Muxers : nb_streams_ready[m] \in 0 .. NbIn[m]
    <3> SUFFICES ASSUME NEW m \in Muxers PROVE nb_streams_ready[m] \in 0 .. NbIn[m] OBVIOUS
    <3>1. PICK S : S = Counted(m) OBVIOUS
    <3>2. S \subseteq Inputs(m) BY <3>1 DEF Counted
    <3>3. Cardinality(S) \in Nat /\ Cardinality(S) <= NbIn[m] BY <3>2, CountedSize
    <3>4. NbIn[m] \in Nat BY Streams DEF Consumers
    <3>5. nb_streams_ready[m] \in Nat /\ nb_streams_ready[m] <= Cardinality(S)
      BY <3>1 DEF CountInv, TypeInv, Typed, FlagsOK
    <3> QED BY <3>3, <3>4, <3>5
  <2>3. choked \in [Waiters -> BOOLEAN] BY DEF IInv
  <2>4. ASSUME NEW t \in Consumers
        PROVE  /\ Len(queue[t].fifo) <= QueueSize
               /\ queue[t].choked \in BOOLEAN
               /\ queue[t].send \cup queue[t].recv \subseteq TqStreams(t)
    BY DEF TypeInv, Typed, QueueOK, Queues
  <2> QED BY <2>1, <2>2, <2>3, <2>4 DEF TypeInv, Typed, FlagsOK, TypeOK
<1> HIDE DEF J
<1> QED BY <1>1, <1>2, <1>3, PTL DEF Spec

-----------------------------------------------------------------------------
(* The ports whose reader takes what it gets one item after the other.     *)
Readers == Decoders \cup Encoders \cup Muxers
Lined == Ports(Readers)

LEMMA LinedIs ==
    /\ Lined \subseteq Ports(Consumers) /\ MuxStreams \subseteq Lined
    /\ \A k \in Lined : k[1] \in Readers /\ k[1] \in Consumers /\ k[1] \in Threads /\ k[1] \notin Filter
                        /\ k = <<k[1], k[2]>> /\ k[2] \in Inputs(k[1])
    /\ \A k \in Lined : Src(k) \in Producers /\ Src(k) \in Threads /\ Src(k) \in Tasks /\ k \in Feeds(Src(k))
    /\ \A t \in Decoders \cup Encoders : On(t) \in Lined /\ (\A k \in Lined : k[1] = t => k = On(t))
                                         /\ On(t) \notin MuxStreams
<1>1. Readers \subseteq Consumers BY DEF Readers, Consumers
<1>2. Lined \subseteq Ports(Consumers) /\ MuxStreams \subseteq Lined
  BY <1>1, PortsIn DEF Lined, MuxStreams, Readers
<1>3. \A k \in Lined : k = <<k[1], k[2]>> /\ k[1] \in Readers /\ k[2] \in Inputs(k[1])
  BY PortIs DEF Lined
<1>4. \A t \in Readers : t \notin Filter BY Kinds DEF Readers
<1>5. \A k \in Lined : k[1] \in Consumers /\ k[1] \in Threads /\ k[1] \notin Filter
  BY <1>1, <1>3, <1>4 DEF Threads, Tasks, Consumers, Producers
<1>6. \A k \in Lined : Src(k) \in Producers /\ k \in Feeds(Src(k))
  BY <1>2, SrcFeeds DEF Feeds
<1>7. \A t \in Producers : t \in Tasks /\ t \in Threads BY DEF Tasks, Threads
<1>8. ASSUME NEW t \in Decoders \cup Encoders
      PROVE  On(t) \in Lined /\ (\A k \in Lined : k[1] = t => k = On(t)) /\ On(t) \notin MuxStreams
  <2>1. NbIn[t] = 1 BY GraphAssumption
  <2>2. Inputs(t) = {0} BY <2>1 DEF Inputs
  <2>3. On(t) \in Lined
    <3>1. t \in Readers BY DEF Readers
    <3> QED BY <2>2, <3>1, IsPort DEF Lined, On
  <2>4. \A k \in Lined : k[1] = t => k = On(t) BY <1>3, <2>2 DEF On
  <2>5. On(t) \notin MuxStreams
    <3> SUFFICES ASSUME On(t) \in MuxStreams PROVE FALSE OBVIOUS
    <3>1. t \in Muxers BY PortIs DEF MuxStreams, On
    <3> QED BY <3>1, Kinds DEF Producers
  <2> QED BY <2>3, <2>4, <2>5
<1> QED BY <1>2, <1>3, <1>5, <1>6, <1>7, <1>8

-----------------------------------------------------------------------------
(* What a step leaves alone.                                               *)

(* Sending: only the sender moves, or the muxer that it starts.            *)
LEMMA SendAlone ==
    ASSUME TypeInv, NEW t \in Threads, SendStep(t)
    PROVE  \A u \in Producers \ {t} : todo'[u] = todo[u]
<1>1. TodoOK BY DEF TypeInv, Typed
<1>2. Producers \subseteq Threads BY DEF Threads, Tasks
<1>3. ASSUME NEW ops, Restart(t, ops) \/ Replace(t, ops) \/ Pop(t) \/ todo' = todo
      PROVE  \A u \in Producers \ {t} : todo'[u] = todo[u]
  <2>1. \A u \in Threads \ {t} : todo'[u] = todo[u] BY <1>1, <1>3, OwnRestart
  <2> QED BY <1>2, <2>1
<1>4. CASE MuxStreamReady(t)
  <2>1. Next1(t, "ready") BY <1>4 DEF MuxStreamReady
  <2>2. Arg(t) \in MuxStreams BY <1>1, <2>1, HeadArg
  <2>3. PICK m \in Muxers : m = Arg(t)[1] BY <2>2, PortIs DEF MuxStreams
  <2>4. m \notin Producers BY Kinds
  <2>5. CASE Pop(t) BY <1>3, <2>5
  <2>6. CASE \E first \in MuxThreadInit(m) :
                todo' = [todo EXCEPT ![t] = <<Op("flush", On(m), NOPTS)>> \o Tail(@), ![m] = first]
    BY <1>1, <1>2, <2>4, <2>6 DEF TodoOK
  <2> QED BY <1>4, <2>3, <2>5, <2>6 DEF MuxStreamReady
<1>5. CASE SendToPreMux(t) \/ Send(t) BY <1>3, <1>5 DEF SendToPreMux, Send
<1>6. CASE SendFinish(t) BY <1>3, <1>6 DEF SendFinish
<1>7. CASE EncOpen(t) \/ EncOpenFails(t) BY <1>3, <1>7 DEF EncOpen, EncOpenFails
<1>8. CASE MuxTaskStart(t) BY <1>3, <1>8 DEF MuxTaskStart
<1> QED BY <1>4, <1>5, <1>6, <1>7, <1>8 DEF SendStep

LEMMA LoopKeeps ==
    ASSUME NEW t \in Tasks, LoopStep(t)
    PROVE  UNCHANGED <<running, dst_finished, opened, schedVars, muxVars, endVars>>
BY DEF LoopStep, WaiterWoken, DemuxRead, DecReceive, FilterStep, FilterEmit, FilterEnd, FilterAsk,
       FilterWait, FilterReceive, EncReceive, MuxReceive, TaskFails, Discard, LoopUnchanged

LEMMA OtherKeeps ==
    ASSUME NEW t \in Threads, EndStep(t) \/ (t = Main /\ (MainStep \/ UserStops))
    PROVE  /\ UNCHANGED <<running, dst_finished, opened, muxVars, codecVars, last_dts, source_finished,
                          schedule_lock>>
           /\ ~ SchStop => UNCHANGED <<choked, terminate>>
BY DEF EndStep, ReceiveClose, MuxCount, TaskFailed, MainStep, SchWaitDone, SchStop, TaskStop, UserStops,
       LoopUnchanged, MainUnchanged, schedVars, endVars

LEMMA LockKeeps ==
    ASSUME NEW t \in Threads, LockStep(t)
    PROVE  /\ UNCHANGED <<running, opened, muxVars, endVars, codecVars>>
           /\ dst_finished \subseteq dst_finished' /\ source_finished \subseteq source_finished'
           /\ ~ SetLastDts(t) => last_dts' = last_dts
<1>1. CASE FilterSendFinished(t)
  BY <1>1 DEF FilterSendFinished, schedVars
<1>2. CASE ~ FilterSendFinished(t)
  BY <1>2 DEF LockStep, ScheduleFirst, SetLastDts, SourceFinished, MuxDone, FilterReceiveFinish,
              SetBestInput, TaskExited, ScheduleApply, SchedUnchanged
<1> QED BY <1>1, <1>2

LEMMA SendKeeps ==
    ASSUME NEW t \in Threads, SendStep(t)
    PROVE  /\ UNCHANGED <<schedVars, endVars, codecVars>>
           /\ dst_finished \subseteq dst_finished'
BY DEF SendStep, SendToPreMux, Send, SendFinish, EncOpen, EncOpenFails, MuxStreamReady, MuxTaskStart,
       SendUnchanged

(* Operations with the timestamp of a packet for port k.                   *)
Dates(o, k) == o.op \in {"send", "last_dts"} /\ o.k = k

LEMMA SetIs ==
    ASSUME TypeInv, NEW t \in Threads, SetLastDts(t), NEW k, k = Arg(t)
    PROVE  /\ k \in MuxStreams /\ t = Src(k) /\ Head(todo[t]).ts \in Nat
           /\ Head(todo[t]) \in Range(todo[t]) /\ Dates(Head(todo[t]), k)
           /\ last_dts'[k] = Head(todo[t]).ts
           /\ \A j \in MuxStreams \ {k} : last_dts'[j] = last_dts[j]
<1>1. TodoOK /\ last_dts \in [MuxStreams -> Nat] BY DEF TypeInv, Typed, FlagsOK
<1>2. Next1(t, "last_dts") BY DEF SetLastDts, Locking
<1>3. k \in MuxStreams /\ k \in Feeds(t) /\ Head(todo[t]).ts \in Nat BY <1>1, <1>2, HeadArg
<1>4. t = Src(k) BY <1>3, SrcFeeds DEF Feeds
<1>5. todo[t] \in Seq(Ops(t)) /\ todo[t] # <<>> /\ Head(todo[t]).op = "last_dts"
  BY <1>1, <1>2 DEF TodoOK, Next1
<1>6. Head(todo[t]) \in Range(todo[t]) BY <1>5, TailParts
<1>7. Dates(Head(todo[t]), k) BY <1>5 DEF Dates, Arg
<1>8. last_dts' = [last_dts EXCEPT ![k] = Head(todo[t]).ts] BY DEF SetLastDts
<1> QED BY <1>1, <1>3, <1>4, <1>6, <1>7, <1>8

-----------------------------------------------------------------------------
(* A copied stream that is all that its demuxer feeds, and how             *)
(* schedule_update_locked() decides about it.                              *)

(* k is the only port that its demuxer feeds.                              *)
Alone(k) == k \in MuxStreams /\ Copied(k) /\ Dsts(Src(k)) = {k}
Live == MuxStreams \ source_finished

LEMMA AloneIs ==
    ASSUME NEW k, Alone(k), NEW d, d = Src(k)
    PROVE  /\ d \in Demux /\ d \in Producers /\ d \in Tasks /\ d \in Threads /\ d \in Waiters
           /\ d # Main /\ d # None
           /\ d \notin Consumers /\ d \notin Filter /\ d \notin MayFail
           /\ k[1] \in Muxers /\ k \in Ports(Consumers) /\ k \in Lined
           /\ DOMAIN Outs[d] = {1} /\ Outs[d][1] = <<k>>
           /\ Feeds(d) = {k}
<1>1. k \in Ports(Consumers) /\ k \in Lined /\ k \in MuxStreams BY LinedIs DEF Alone
<1>2. d \in Demux /\ Dsts(d) = {k} BY DEF Alone, Copied
<1>3. d \in Producers /\ d \in Tasks /\ d \in Threads /\ d \in Waiters
  BY <1>2 DEF Producers, Tasks, Threads, Waiters
<1>4. d \notin Decoders /\ d \notin Filter /\ d \notin Encoders /\ d \notin Muxers /\ d # Main
  BY <1>2, <1>3, Kinds
<1>5. d \notin Consumers /\ d \notin MayFail BY <1>4, SchedulerAssumption DEF Consumers
<1>6. d # None BY <1>3, SchedulerAssumption
<1>7. k[1] \in Muxers BY <1>1, PortIs DEF MuxStreams
<1>8. Feeds(d) = {k} BY <1>2, <1>3, FeedsAll
<1>9. Outs[d] \in Seq(Seq(Ports(Consumers)) \ {<<>>}) BY <1>3, GraphAssumption
<1>10. PICK l \in Nat : l = Len(Outs[d]) /\ DOMAIN Outs[d] = 1 .. l BY <1>9
<1>11. ASSUME NEW o \in DOMAIN Outs[d]
       PROVE  Outs[d][o] \in Seq({k}) /\ Outs[d][o] # <<>>
  BY <1>3, <1>8, <1>11, FeedsAll
<1>12. \A o \in DOMAIN Outs[d] : 1 \in DOMAIN Outs[d][o] /\ Outs[d][o][1] = k
  BY <1>11
<1>13. \A o, p \in DOMAIN Outs[d] : \A i \in DOMAIN Outs[d][o], j \in DOMAIN Outs[d][p] :
           Outs[d][o][i] = Outs[d][p][j] => o = p /\ i = j
  BY <1>3, GraphAssumption
<1>14. \A o, p \in DOMAIN Outs[d] : o = p BY <1>12, <1>13
<1>15. l # 0
  <2>1. k \in Dsts(d) BY <1>2
  <2>2. DOMAIN Outs[d] # {} BY <2>1 DEF Dsts
  <2> QED BY <1>10, <2>2
<1>16. DOMAIN Outs[d] = {1}
  <2>1. 1 \in DOMAIN Outs[d] BY <1>10, <1>15
  <2> QED BY <1>14, <2>1
<1>17. Outs[d][1] = <<k>>
  <2>1. 1 \in DOMAIN Outs[d] BY <1>16
  <2>2. PICK s \in Seq({k}) : s = Outs[d][1] /\ s # <<>> BY <1>11, <2>1
  <2>3. \A i, j \in DOMAIN s : i = j
    <3>1. \A i \in DOMAIN s : s[i] = k BY <2>2
    <3> QED BY <1>13, <2>1, <2>2, <3>1
  <2>4. Len(s) = 1
    <3>1. PICK n \in Nat : n = Len(s) /\ DOMAIN s = 1 .. n BY <2>2
    <3>2. n # 0 BY <2>2, <3>1, NoLength
    <3>3. 1 \in 1 .. n /\ n \in 1 .. n BY <3>2
    <3> QED BY <2>3, <3>1, <3>3
  <2> QED BY <2>2, <2>4
<1> QED BY <1>1, <1>2, <1>3, <1>4, <1>5, <1>6, <1>7, <1>8, <1>16, <1>17

(* Stream k is not too far ahead of stream j.                              *)
Room(dts, j, k) == dts[k] = NOPTS \/ (dts[j] # NOPTS /\ dts[k] < dts[j] + SCHEDULE_TOLERANCE)

(* Behind(): the streams that are not too far ahead of any; some stream is *)
(* behind while one is not finished.                                       *)
LEMMA BehindIs ==
    ASSUME NEW live \in SUBSET MuxStreams, NEW dts \in [MuxStreams -> Nat]
    PROVE  /\ \A k \in live : k \in Behind(live, dts) <=> \A j \in live : Room(dts, j, k)
           /\ Behind(live, dts) \subseteq live
           /\ live # {} => Behind(live, dts) # {}
<1>1. SCHEDULE_TOLERANCE \in Nat \ {0} BY GraphAssumption
<1>2. PICK m : m = trailing_dts(live, dts) OBVIOUS
<1>3. Behind(live, dts) = {k \in live : IF m = NOPTS THEN dts[k] = NOPTS
                                        ELSE dts[k] - m < SCHEDULE_TOLERANCE}
  BY <1>2 DEF Behind
<1>4. \A j \in live : dts[j] \in Nat OBVIOUS
<1>5. CASE \E j \in live : dts[j] = NOPTS
  <2>1. m = NOPTS BY <1>2, <1>5 DEF trailing_dts
  <2>2. \A k \in live : k \in Behind(live, dts) <=> dts[k] = NOPTS BY <1>3, <2>1
  <2> QED BY <1>3, <1>5, <2>2 DEF Room
<1>6. CASE live = {} BY <1>3, <1>6
<1>7. CASE live # {} /\ \A j \in live : dts[j] # NOPTS
  <2>1. m = Min({dts[k] : k \in live}) BY <1>2, <1>7 DEF trailing_dts
  <2>2. PICK T : T = {dts[k] : k \in live} OBVIOUS
  <2>3. T \subseteq Nat /\ T # {} BY <1>4, <1>7, <2>2
  <2>4. m \in T /\ \A y \in T : m <= y BY <2>1, <2>2, <2>3, Least
  <2>5. PICK i \in live : m = dts[i] BY <2>2, <2>4
  <2>6. m \in Nat /\ m # NOPTS /\ \A j \in live : m <= dts[j] BY <1>4, <1>7, <2>2, <2>4, <2>5
  <2>7. \A k \in live : k \in Behind(live, dts) <=> dts[k] - m < SCHEDULE_TOLERANCE
    BY <1>3, <2>6
  <2>8. i \in Behind(live, dts) BY <1>1, <2>5, <2>6, <2>7
  <2>9. ASSUME NEW k \in live
        PROVE  dts[k] - m < SCHEDULE_TOLERANCE <=> \A j \in live : Room(dts, j, k)
    <3>1. ASSUME dts[k] - m < SCHEDULE_TOLERANCE, NEW j \in live PROVE Room(dts, j, k)
      <4>1. dts[j] \in Nat /\ dts[k] \in Nat /\ m <= dts[j] /\ dts[j] # NOPTS
        BY <1>4, <1>7, <2>6
      <4>2. dts[k] < dts[j] + SCHEDULE_TOLERANCE BY <1>1, <2>6, <3>1, <4>1
      <4> QED BY <4>1, <4>2 DEF Room
    <3>2. ASSUME \A j \in live : Room(dts, j, k) PROVE dts[k] - m < SCHEDULE_TOLERANCE
      <4>1. dts[k] < m + SCHEDULE_TOLERANCE BY <1>7, <2>5, <3>2 DEF Room
      <4>2. dts[k] \in Nat BY <1>4
      <4> QED BY <1>1, <2>6, <4>1, <4>2
    <3> QED BY <3>1, <3>2
  <2> QED BY <1>3, <2>7, <2>8, <2>9
<1> QED BY <1>5, <1>6, <1>7

(* No task leads unchoke_for_stream() to a demuxer that feeds muxers only, *)
(* and it stays among the producers.                                       *)
LEMMA UpFromMuxed ==
    ASSUME NEW k, Alone(k), NEW best, DOMAIN best = Filter, \A f \in Filter : best[f] \in 0 .. NbIn[f],
           NEW t \in Producers
    PROVE  UpStep(t, best) \subseteq Producers /\ Src(k) \notin UpStep(t, best)
<1>1. PICK d : d = Src(k) OBVIOUS
<1>2. d \in Demux /\ Feeds(d) = {k} /\ k[1] \in Muxers /\ d \notin Filter BY <1>1, AloneIs
<1>3. CASE t \in Demux
  <2>1. UpStep(t, best) = DownstreamOf[t] BY <1>3, Kinds DEF UpStep
  <2>2. DownstreamOf[t] \subseteq Filter BY <1>3 DEF DownstreamOf
  <2> QED BY <1>1, <1>2, <2>1, <2>2 DEF Producers
<1>4. ASSUME NEW i \in Inputs(t), t \in Consumers, t \notin Muxers
      PROVE  {Src(<<t, i>>)} \subseteq Producers /\ Src(k) \notin {Src(<<t, i>>)}
  <2>1. <<t, i>> \in Ports(Consumers) BY <1>4, IsPort
  <2>2. Src(<<t, i>>) \in Producers /\ <<t, i>> \in Dsts(Src(<<t, i>>)) BY <2>1, SrcFeeds
  <2>3. <<t, i>> \in Feeds(Src(<<t, i>>)) BY <2>1, <2>2 DEF Feeds
  <2>4. <<t, i>> # k BY <1>2, <1>4
  <2> QED BY <1>1, <1>2, <2>2, <2>3, <2>4
<1>5. CASE t \in Filter
  <2>1. t \notin Demux /\ t \notin Muxers /\ t \in Consumers BY <1>5, Kinds DEF Consumers, Producers
  <2>2. CASE best[t] = NbIn[t]
    <3>1. UpStep(t, best) = {} BY <1>5, <2>1, <2>2 DEF UpStep
    <3> QED BY <3>1
  <2>3. CASE best[t] # NbIn[t]
    <3>1. UpStep(t, best) = {Src(<<t, best[t]>>)} BY <1>5, <2>1, <2>3 DEF UpStep
    <3>2. NbIn[t] \in Nat /\ best[t] \in 0 .. NbIn[t] BY <1>5, <2>1, Streams
    <3>3. best[t] \in Inputs(t) BY <2>3, <3>2 DEF Inputs
    <3> QED BY <1>4, <2>1, <3>1, <3>3
  <2> QED BY <2>2, <2>3
<1>6. CASE t \in Decoders \cup Encoders
  <2>1. t \notin Demux /\ t \notin Filter /\ t \in Consumers BY <1>6, Kinds DEF Consumers
  <2>2. t \notin Muxers BY Kinds
  <2>3. UpStep(t, best) = {Src(<<t, 0>>)} BY <2>1 DEF UpStep
  <2>4. 0 \in Inputs(t) BY <1>6, GraphAssumption DEF Inputs
  <2> QED BY <1>4, <2>1, <2>2, <2>3, <2>4
<1> QED BY <1>3, <1>5, <1>6 DEF Producers

(* schedule_update_locked() lets that demuxer run if and only if its       *)
(* stream is not too far ahead.                                            *)
LEMMA Decision ==
    ASSUME NEW live \in SUBSET MuxStreams, NEW dts \in [MuxStreams -> Nat],
           NEW closed \in SUBSET Ports(Filter), NEW exited, NEW best,
           DOMAIN best = Filter, \A f \in Filter : best[f] \in 0 .. NbIn[f],
           NEW k \in live, Alone(k)
    PROVE  Src(k) \in Unchoked(live, dts, closed, exited, best) <=> \A j \in live : Room(dts, j, k)
<1>1. PICK behind : behind = Behind(live, dts) OBVIOUS
<1>2. /\ k \in behind <=> \A j \in live : Room(dts, j, k)
      /\ behind # {} /\ behind \subseteq live
  BY <1>1, BehindIs
<1>3. PICK S : S = {Src(x) : x \in ToFeed(behind, closed)} OBVIOUS
<1>4. Unchoked(live, dts, closed, exited, best) = UnchokedFor(S, best)
  BY <1>1, <1>2, <1>3 DEF Unchoked
<1>5. PICK d : d = Src(k) OBVIOUS
<1>6. d \in Demux /\ d \notin Filter /\ Feeds(d) = {k} /\ k[1] \in Muxers BY <1>5, AloneIs
<1>7. d \in S <=> k \in behind
  <2>1. ASSUME NEW x \in ToFeed(behind, closed), d = Src(x) PROVE x \in behind /\ x = k
    <3>1. x \in Ports(Consumers)
      <4>1. MuxStreams \subseteq Ports(Consumers) BY LinedIs
      <4>2. Ports(Filter) \subseteq Ports(Consumers) BY PortsIn DEF Consumers
      <4> QED BY <1>2, <2>1, <4>1, <4>2 DEF ToFeed
    <3>2. x \in Feeds(d) BY <2>1, <3>1, SrcFeeds DEF Feeds
    <3>3. x = k BY <1>6, <3>2
    <3>4. x \notin closed
      <4>1. x \in closed => x[1] \in Filter BY PortIs
      <4> QED BY <1>6, <3>3, <4>1, Kinds
    <3> QED BY <2>1, <3>3, <3>4 DEF ToFeed
  <2> QED BY <1>3, <1>5, <2>1 DEF ToFeed
<1>8. S \subseteq Producers
  <2>1. MuxStreams \subseteq Ports(Consumers) BY LinedIs
  <2>2. Ports(Filter) \subseteq Ports(Consumers) BY PortsIn DEF Consumers
  <2>3. ToFeed(behind, closed) \subseteq Ports(Consumers) BY <1>2, <2>1, <2>2 DEF ToFeed
  <2> QED BY <1>3, <2>3, SrcFeeds
<1>9. PICK N, R :
         /\ N \in Nat /\ Reached(S, best, N, R)
         /\ UnchokedFor(S, best) = (R[N] \cap Demux) \cup {f \in R[N] \cap Filter : best[f] = NbIn[f]}
  BY UnchokedIs
<1> DEFINE T == {n \in 0 .. N : R[n] \subseteq Producers /\ (d \in R[n] <=> d \in S)}
<1>10. R[0] = S BY <1>9 DEF Reached
<1>11. 0 \in T BY <1>8, <1>9, <1>10
<1>12. ASSUME NEW n \in 1 .. N, n - 1 \in T PROVE n \in T
  <2>1. R[n] = R[n - 1] \cup UNION {UpStep(t, best) : t \in R[n - 1]} BY <1>9 DEF Reached
  <2>2. R[n - 1] \subseteq Producers /\ (d \in R[n - 1] <=> d \in S) BY <1>12
  <2>3. \A t \in R[n - 1] : UpStep(t, best) \subseteq Producers /\ d \notin UpStep(t, best)
    BY <1>5, <2>2, UpFromMuxed
  <2>4. R[n] \subseteq Producers /\ (d \in R[n] <=> d \in S) BY <2>1, <2>2, <2>3
  <2> QED BY <2>4
<1>13. N \in T
  <2> HIDE DEF T
  <2>1. 0 .. N \subseteq T BY <1>9, <1>11, <1>12, UpTo
  <2> QED BY <1>9, <2>1
<1>14. d \in UnchokedFor(S, best) <=> d \in S BY <1>6, <1>9, <1>13
<1> QED BY <1>2, <1>4, <1>5, <1>7, <1>14

-----------------------------------------------------------------------------
(* What such a demuxer has still to do: one packet at a time; the packet   *)
(* that it holds is the next one after that of which the muxer's stream    *)
(* got the timestamp.                                                      *)
Shaped(d, k, l, n, fin, x, own) ==
    \/ l = <<>> /\ (fin \/ n = x)
    \/ l \in {<<Op("waiting", On(d), NOPTS), Op("send", k, n)>>, <<Op("send", k, n)>>} /\ n = x + 1
    \/ l = <<Op("last_dts", k, n)>> /\ n = IF own THEN x ELSE x + 1
    \/ l = <<Op("finish", k, NOPTS)>>
    \/ l = <<Op("source_finished", k, NOPTS)>> /\ fin
    \/ Exits(l) /\ \A o \in Range(l) : Calm(o)

Shape(k) ==
    Shaped(Src(k), k, todo[Src(k)], nread[Src(k)][1], k \in dst_finished, last_dts[k],
           schedule_lock.owner = Src(k))
ShapeInv == \A k \in MuxStreams : Alone(k) => Shape(k)

(* The demuxer of k has passed its waiter and not set the timestamp yet.   *)
Sends(k) ==
    LET d == Src(k)
    IN  /\ todo[d] # <<>>
        /\ \/ Head(todo[d]).op = "send"
           \/ Head(todo[d]).op = "last_dts" /\ schedule_lock.owner # d

LEMMA SmallLists ==
    ASSUME NEW x, NEW y
    PROVE  /\ <<x>> # <<>> /\ Head(<<x>>) = x /\ Tail(<<x>>) = <<>> /\ <<>> \o <<>> = <<>>
           /\ <<x>> \o <<>> = <<x>> /\ <<>> \o <<x>> = <<x>>
           /\ \A s : s = <<x, y>> => s # <<>> /\ Head(s) = x /\ Tail(s) = <<y>>
           /\ <<x>> \o <<y>> = <<x, y>>
<1>1. <<x>> # <<>> /\ Head(<<x>>) = x /\ Tail(<<x>>) = <<>> OBVIOUS
<1>2. <<>> \o <<>> = <<>> OBVIOUS
<1>3. <<x>> \o <<>> = <<x>> OBVIOUS
<1>4. <<>> \o <<x>> = <<x>> OBVIOUS
<1>5. <<x, y>> # <<>> /\ Head(<<x, y>>) = x OBVIOUS
<1>6. \A s : s = <<x, y>> => Tail(s) = <<y>> OBVIOUS
<1>7. <<x>> \o <<y>> = <<x, y>> BY Pair
<1> QED BY <1>1, <1>2, <1>3, <1>4, <1>5, <1>6, <1>7

LEMMA LockOwn ==
    ASSUME IInv, TypeInv, NEW t \in Threads, LockStep(t)
    PROVE  /\ t # None
           /\ IF ScheduleApply(t) THEN schedule_lock.owner = t ELSE schedule_lock.owner = None
           /\ \/ Pop(t) /\ schedule_lock'.owner = None
              \/ todo' = todo /\ schedule_lock'.owner = t
<1> USE DEF Locking
<1>1. t # None BY SchedulerAssumption DEF Threads, Main, None
<1>2. CASE ScheduleApply(t)
  <2>1. schedule_lock = [owner |-> t, sets |-> schedule_lock.sets] /\ schedule_lock.owner = t
    BY <1>2 DEF ScheduleApply, IInv, LockOK
  <2>2. \/ Pop(t) /\ schedule_lock' = Unlocked
        \/ todo' = todo /\ \E rest : schedule_lock' = [schedule_lock EXCEPT !.sets = rest]
    BY <1>2 DEF ScheduleApply
  <2> QED BY <1>1, <1>2, <2>1, <2>2 DEF Unlocked
<1>3. CASE ~ ScheduleApply(t)
  <2>1. schedule_lock.owner = None
        /\ \/ Pop(t) /\ schedule_lock' = schedule_lock
           \/ ScheduleUpdate(t)
    BY <1>3 DEF LockStep, ScheduleFirst, SetLastDts, SourceFinished, MuxDone, FilterSendFinished,
                FilterReceiveFinish, SetBestInput, TaskExited, schedVars
  <2>2. ScheduleUpdate(t) => \/ Pop(t) /\ schedule_lock' = schedule_lock
                             \/ todo' = todo /\ schedule_lock'.owner = t
    BY DEF ScheduleUpdate
  <2> QED BY <1>1, <1>3, <2>1, <2>2
<1> QED BY <1>2, <1>3

LEMMA DemuxerSteps ==
    ASSUME IInv, TypeInv, NEW k, Alone(k), NEW d, d = Src(k), ThreadStep(d)
    PROVE  \/ LockStep(d) /\ AtLock(d)
           \/ SendStep(d) /\ \E n \in {"send", "open", "ready", "flush", "finish"} : Next1(d, n)
           \/ EndStep(d) /\ \E n \in {"receive_close", "mux_count", "task_failed"} : Next1(d, n)
           \/ WaiterWoken(d) /\ Next1(d, "waiting")
           \/ DemuxRead(d) /\ todo[d] = <<>>
<1>1. d \in Threads /\ d # Main /\ d \in Demux /\ d \notin MayFail /\ d \notin Consumers BY AloneIs
<1>2. d \notin Decoders /\ d \notin Filter /\ d \notin Encoders /\ d \notin Muxers BY <1>1 DEF Consumers
<1>3. CASE LockStep(d) BY <1>1, <1>3, LockHeld
<1>4. CASE SendStep(d) BY <1>1, <1>4, SendHead
<1>5. CASE EndStep(d) BY <1>5 DEF EndStep, ReceiveClose, MuxCount, TaskFailed
<1>6. CASE LoopStep(d)
  <2>1. WaiterWoken(d) \/ DemuxRead(d) BY <1>1, <1>2, <1>6 DEF LoopStep, TaskFails, Discard
  <2> QED BY <2>1 DEF WaiterWoken, DemuxRead, Idle
<1> QED BY <1>1, <1>3, <1>4, <1>5, <1>6 DEF ThreadStep

LEMMA ShapeNext ==
    ASSUME NEW k, NEW d, d = Src(k)
    PROVE  /\ Shape(k)' <=> Shaped(d, k, todo'[d], nread'[d][1], k \in dst_finished', last_dts'[k],
                                   schedule_lock'.owner = d)
           /\ Sends(k)' <=> /\ todo'[d] # <<>>
                            /\ \/ Head(todo'[d]).op = "send"
                               \/ Head(todo'[d]).op = "last_dts" /\ schedule_lock'.owner # d
BY SameSource DEF Shape, Shaped, Sends, Op, On, NOPTS, Exits, Calm, Loud

LEMMA AloneTypes ==
    ASSUME TypeInv, NEW k, Alone(k), NEW d, d = Src(k)
    PROVE  /\ nread[d][1] \in Nat /\ last_dts[k] \in Nat /\ d \in DOMAIN todo
           /\ \A o \in DOMAIN Outs[d] : nread' = [nread EXCEPT ![d][o] = @ + 1] => nread'[d][1] = nread[d][1] + 1
<1>1. d \in Demux /\ DOMAIN Outs[d] = {1} /\ d \in Threads /\ k \in MuxStreams BY AloneIs DEF Alone
<1>2. DOMAIN nread = Demux /\ nread[d] \in [{1} -> Nat] BY <1>1 DEF TypeInv, Typed, DataOK
<1>3. last_dts[k] \in Nat /\ d \in DOMAIN todo BY <1>1 DEF TypeInv, Typed, FlagsOK, TodoOK
<1> QED BY <1>1, <1>2, <1>3

LEMMA OnePacket ==
    ASSUME NEW d, NEW k, NEW n, Outs[d][1] = <<k>>
    PROVE  PacketOps(d, 1, n) = <<Op("send", k, n)>>
<1>1. PacketOps(d, 1, n) = [i \in DOMAIN <<k>> |-> Op("send", <<k>>[i], n)] BY DEF PacketOps, OpsFor
<1>2. DOMAIN <<k>> = {1} /\ <<k>>[1] = k OBVIOUS
<1> QED BY <1>1, <1>2

LEMMA ShapeCalm ==
    ASSUME NEW k, Alone(k), NEW d, d = Src(k), todo'[d] \in Seq(Ops(d)), Exits(todo'[d]),
           \A o \in Range(todo'[d]) : Calm(o)
    PROVE  Shape(k)' /\ ~ Sends(k)'
<1>1. Shape(k)' BY ShapeNext DEF Shaped
<1>2. ASSUME Sends(k)' PROVE FALSE
  <2>1. todo'[d] # <<>> /\ Head(todo'[d]).op \in {"send", "last_dts"} BY <1>2, ShapeNext
  <2>2. Calm(Head(todo'[d])) BY <2>1, TailParts
  <2> QED BY <2>1, <2>2 DEF Calm, Loud
<1> QED BY <1>1, <1>2

LEMMA ShapeEnds ==
    ASSUME NEW k, Alone(k), NEW d, d = Src(k), todo'[d] = EndOps(d)
    PROVE  Shape(k)' /\ ~ Sends(k)'
<1>1. d \in Tasks /\ d \notin Filter BY AloneIs
<1>2. Exits(EndOps(d)) /\ \A o \in Range(EndOps(d)) : Calm(o) BY <1>1, EndFresh
<1>3. EndOps(d) \in Seq(Ops(d)) BY <1>1, EndType
<1> QED BY <1>2, <1>3, ShapeCalm

LEMMA ShapeRead ==
    ASSUME TypeInv, NEW k, Alone(k), NEW d, d = Src(k), Shape(k), DemuxRead(d), todo[d] = <<>>
    PROVE  Shape(k)' /\ (Sends(k)' => ~ choked[d] /\ ~ AtLock(d))
<1> DEFINE n == nread[d][1]
<1>1. d \in Tasks /\ d \notin Filter /\ DOMAIN Outs[d] = {1} /\ Outs[d][1] = <<k>> BY AloneIs
<1>2. n \in Nat /\ last_dts[k] \in Nat /\ d \in DOMAIN todo BY AloneTypes
<1>3. dst_finished' = dst_finished /\ last_dts' = last_dts BY DEF DemuxRead, LoopUnchanged, schedVars
<1>4. ~ AtLock(d) BY DEF AtLock
<1>5. k \in dst_finished \/ n = last_dts[k]
  <2>1. \A o \in Range(todo[d]) : FALSE BY RangeSmall
  <2> QED BY <2>1 DEF Shape, Shaped, Exits
<1>6. CASE Restart(d, EndOps(d))
  <2>1. todo'[d] = EndOps(d) BY <1>2, <1>6 DEF Restart
  <2> QED BY <2>1, ShapeEnds
<1>7. CASE \E o \in DOMAIN Outs[d] : /\ ~ StreamFinished(d, o)
                                     /\ nread' = [nread EXCEPT ![d][o] = @ + 1]
                                     /\ Restart(d, WaitOps(d) \o PacketOps(d, o, nread'[d][o]))
  <2>1. /\ ~ StreamFinished(d, 1)
        /\ nread'[d][1] = n + 1
        /\ todo'[d] = WaitOps(d) \o PacketOps(d, 1, nread'[d][1])
    BY <1>1, <1>2, <1>7, AloneTypes DEF Restart
  <2>2. k \notin dst_finished
    <3>1. Range(<<k>>) = {k} BY RangeSmall
    <3> QED BY <1>1, <2>1, <3>1 DEF StreamFinished
  <2>3. nread'[d][1] = last_dts[k] + 1 BY <1>5, <2>1, <2>2
  <2> DEFINE s == Op("send", k, nread'[d][1])
             w == Op("waiting", On(d), NOPTS)
  <2>4. PacketOps(d, 1, nread'[d][1]) = <<s>> BY <1>1, OnePacket
  <2>5. s.op = "send" /\ w.op = "waiting" BY DEF Op
  <2> HIDE DEF s, w
  <2>6. CASE choked[d]
    <3>1. WaitOps(d) = <<w>> BY <2>6 DEF WaitOps, w
    <3>2. todo'[d] = <<w, s>> BY <2>1, <2>4, <3>1, SmallLists
    <3>3. Shape(k)' BY <1>3, <2>3, <3>2, ShapeNext DEF Shaped, s, w
    <3>4. Head(todo'[d]) = w BY <3>2, SmallLists
    <3> QED BY <2>5, <3>3, <3>4, ShapeNext
  <2>7. CASE ~ choked[d]
    <3>1. WaitOps(d) = <<>> BY <2>7 DEF WaitOps
    <3>2. todo'[d] = <<s>> BY <2>1, <2>4, <3>1, SmallLists
    <3>3. Shape(k)' BY <1>3, <2>3, <3>2, ShapeNext DEF Shaped, s
    <3> QED BY <1>4, <2>7, <3>3
  <2> QED BY <2>6, <2>7
<1> QED BY <1>6, <1>7 DEF DemuxRead

LEMMA ShapeHead ==
    ASSUME TypeInv, NEW k, Alone(k), NEW d, d = Src(k), Shape(k), todo[d] # <<>>,
           NEW h, h = Head(todo[d]), NEW n, n = nread[d][1]
    PROVE  \/ h.op = "waiting" /\ Tail(todo[d]) = <<Op("send", k, n)>> /\ n = last_dts[k] + 1
           \/ h = Op("send", k, n) /\ h.op = "send" /\ Tail(todo[d]) = <<>> /\ n = last_dts[k] + 1
           \/ /\ h = Op("last_dts", k, n) /\ h.op = "last_dts" /\ Tail(todo[d]) = <<>>
              /\ todo[d] = <<Op("last_dts", k, n)>>
              /\ n = IF schedule_lock.owner = d THEN last_dts[k] ELSE last_dts[k] + 1
           \/ h = Op("finish", k, NOPTS) /\ h.op = "finish" /\ Tail(todo[d]) = <<>>
           \/ /\ h = Op("source_finished", k, NOPTS) /\ h.op = "source_finished" /\ Tail(todo[d]) = <<>>
              /\ todo[d] = <<Op("source_finished", k, NOPTS)>> /\ k \in dst_finished
           \/ Calm(h) /\ Exits(todo[d]) /\ \A o \in Range(todo[d]) : Calm(o)
<1>1. \A m, c, x : Op(m, c, x).op = m BY DEF Op
<1>2. CASE todo[d] = <<Op("waiting", On(d), NOPTS), Op("send", k, n)>> /\ n = last_dts[k] + 1
  BY <1>1, <1>2, SmallLists
<1>3. CASE todo[d] = <<Op("send", k, n)>> /\ n = last_dts[k] + 1 BY <1>1, <1>3, SmallLists
<1>4. CASE todo[d] = <<Op("last_dts", k, n)>>
           /\ n = IF schedule_lock.owner = d THEN last_dts[k] ELSE last_dts[k] + 1
  BY <1>1, <1>4, SmallLists
<1>5. CASE todo[d] = <<Op("finish", k, NOPTS)>> BY <1>1, <1>5, SmallLists
<1>6. CASE todo[d] = <<Op("source_finished", k, NOPTS)>> /\ k \in dst_finished
  BY <1>1, <1>6, SmallLists
<1>7. CASE Exits(todo[d]) /\ \A o \in Range(todo[d]) : Calm(o)
  <2>1. todo[d] \in Seq(Ops(d)) BY AloneIs DEF TypeInv, Typed, TodoOK
  <2> QED BY <1>7, <2>1, TailParts
<1> QED BY <1>2, <1>3, <1>4, <1>5, <1>6, <1>7 DEF Shape, Shaped

LEMMA ShapeWoken ==
    ASSUME TypeInv, NEW k, Alone(k), NEW d, d = Src(k), Shape(k), WaiterWoken(d), Next1(d, "waiting")
    PROVE  Shape(k)' /\ (Sends(k)' => ~ choked[d] /\ ~ AtLock(d))
<1>1. d \in DOMAIN todo BY AloneTypes
<1>2. Head(todo[d]).op = "waiting" /\ todo[d] # <<>> BY DEF Next1
<1>3. Tail(todo[d]) = <<Op("send", k, nread[d][1])>> /\ nread[d][1] = last_dts[k] + 1
  BY <1>2, ShapeHead DEF Calm, Loud, Op
<1>4. UNCHANGED <<nread, last_dts>> BY DEF WaiterWoken, codecVars, schedVars
<1>5. CASE terminate
  <2>1. todo'[d] = EndOps(d) BY <1>1, <1>5 DEF WaiterWoken, WaitTerminates, Restart
  <2> QED BY <2>1, ShapeEnds
<1>6. CASE ~ terminate
  <2>1. todo'[d] = <<>> \o Tail(todo[d]) /\ ~ choked[d]
    BY <1>1, <1>6 DEF WaiterWoken, WaitTerminates, WaitIsOver, Pop, Replace
  <2>2. todo'[d] = <<Op("send", k, nread[d][1])>> BY <1>3, <2>1, SmallLists
  <2>3. Shape(k)' BY <1>3, <1>4, <2>2, ShapeNext DEF Shaped
  <2>4. ~ AtLock(d) BY <1>2 DEF AtLock, Locks
  <2> QED BY <2>1, <2>3, <2>4
<1> QED BY <1>5, <1>6

LEMMA CalmOn ==
    ASSUME TypeInv, NEW k, Alone(k), NEW d, d = Src(k), todo[d] # <<>>, Head(todo[d]).op # "exit",
           Exits(todo[d]), \A o \in Range(todo[d]) : Calm(o),
           \/ todo'[d] = todo[d]
           \/ todo'[d] = <<>> \o Tail(todo[d])
           \/ todo'[d] = <<Op("source_finished", k, NOPTS)>> \o Tail(todo[d])
    PROVE  Shape(k)' /\ ~ Sends(k)'
<1>1. todo[d] \in Seq(Ops(d)) /\ k \in MuxStreams BY AloneIs DEF TypeInv, Typed, TodoOK, Alone
<1>2. CASE todo'[d] = todo[d] BY <1>1, <1>2, ShapeCalm
<1>3. CASE \E q \in Seq(Ops(d)) : /\ todo'[d] = q \o Tail(todo[d])
                                  /\ \A o \in Range(q) : Calm(o)
  <2>1. PICK q \in Seq(Ops(d)) : /\ todo'[d] = q \o Tail(todo[d])
                                 /\ \A o \in Range(q) : Calm(o)
    BY <1>3
  <2>2. Tail(todo[d]) \in Seq(Ops(d)) BY <1>1, TailType
  <2>3. todo'[d] \in Seq(Ops(d)) BY <2>1, <2>2, MoreOps
  <2>4. \A o : o \in Range(todo'[d]) <=> o \in Range(q) \/ o \in Range(Tail(todo[d]))
    <3>1. \A o : o \in Range(q \o Tail(todo[d])) <=> o \in Range(q) \/ o \in Range(Tail(todo[d]))
      BY <2>2, RangeConcat
    <3> QED BY <2>1, <3>1
  <2>5. \A o : o \in Range(todo[d]) <=> o = Head(todo[d]) \/ o \in Range(Tail(todo[d]))
    BY <1>1, TailParts
  <2>6. \A o \in Range(todo'[d]) : Calm(o) BY <2>1, <2>4, <2>5
  <2>7. Exits(todo'[d]) BY <2>4, <2>5 DEF Exits
  <2> QED BY <2>3, <2>6, <2>7, ShapeCalm
<1>4. <<>> \in Seq(Ops(d)) /\ \A o \in Range(<<>>) : Calm(o) BY RangeSmall, NoOps
<1>5. /\ <<Op("source_finished", k, NOPTS)>> \in Seq(Ops(d))
      /\ \A o \in Range(<<Op("source_finished", k, NOPTS)>>) : Calm(o)
  <2>1. Op("source_finished", k, NOPTS) \in Ops(d) BY <1>1, MakesOp DEF NOPTS
  <2>2. Calm(Op("source_finished", k, NOPTS)) BY DEF Calm, Loud, Op
  <2> QED BY <2>1, <2>2, OneOp, RangeSmall
<1> QED BY <1>2, <1>3, <1>4, <1>5

LEMMA SendIs ==
    ASSUME NEW t, SendStep(t), NEW m, Next1(t, m)
    PROVE  /\ m = "send" => OpensBySending(t) \/ SendToPreMux(t) \/ Send(t)
           /\ m = "finish" => SendFinish(t)
           /\ m = "flush" => MuxTaskStart(t)
<1>1. Head(todo[t]).op = m BY DEF Next1
<1>2. SendToPreMux(t) \/ Send(t) => m = "send" BY <1>1 DEF SendToPreMux, Send, Next1
<1>3. SendFinish(t) => m = "finish" BY <1>1 DEF SendFinish, Next1
<1>4. OpensBySending(t) => m = "send" BY <1>1 DEF OpensBySending, Next1
<1>5. EncOpen(t) \/ EncOpenFails(t) => m = "open" \/ OpensBySending(t)
  BY <1>1 DEF EncOpen, EncOpenFails, Next1
<1>6. MuxStreamReady(t) => m = "ready" BY <1>1 DEF MuxStreamReady, Next1
<1>7. MuxTaskStart(t) => m = "flush" BY <1>1 DEF MuxTaskStart, Next1
<1> QED BY <1>2, <1>3, <1>4, <1>5, <1>6, <1>7 DEF SendStep

LEMMA ShapeSend ==
    ASSUME TypeInv, NEW k, Alone(k), NEW d, d = Src(k), Shape(k), SendStep(d)
    PROVE  Shape(k)' /\ (Sends(k)' => Sends(k))
<1>a. d \in Threads /\ d \in DOMAIN todo /\ k[1] \in Muxers /\ k[1] \notin Encoders /\ k[1] \notin Filter
      /\ d \notin Encoders
  BY AloneIs, AloneTypes, Kinds DEF Consumers
<1>b. TodoOK /\ d # None BY AloneIs DEF TypeInv, Typed
<1>1. PICK m \in {"send", "open", "ready", "flush", "finish"} : Next1(d, m) BY <1>a, SendHead
<1>2. todo[d] # <<>> /\ Head(todo[d]).op = m /\ Arg(d) = Head(todo[d]).k BY <1>1 DEF Next1, Arg
<1>3. UNCHANGED <<nread, last_dts, schedule_lock>> /\ dst_finished \subseteq dst_finished'
  BY <1>a, SendKeeps DEF codecVars, schedVars
<1>4. Tail(todo[d]) \in Seq(Ops(d)) BY <1>a, <1>b, <1>1, HeadType
<1>5. CASE m = "send"
  <2>1. Head(todo[d]) = Op("send", k, nread[d][1]) /\ Tail(todo[d]) = <<>> /\ nread[d][1] = last_dts[k] + 1
    <3>1. ~ Calm(Head(todo[d])) BY <1>2, <1>5 DEF Calm, Loud
    <3>2. Head(todo[d]).op = "send" BY <1>2, <1>5
    <3> QED BY <1>2, <3>1, <3>2, ShapeHead
  <2>2. Arg(d) = k /\ Head(todo[d]).ts = nread[d][1] BY <1>2, <2>1 DEF Op
  <2>3. ~ OpensBySending(d) BY <1>a, <2>2 DEF OpensBySending, OpensEncoder
  <2>4. SendToPreMux(d) \/ Send(d) BY <1>1, <1>5, <2>3, SendIs
  <2>5. \/ k \in dst_finished /\ todo'[d] = <<>>
        \/ todo'[d] = <<Op("finish", k, NOPTS)>>
        \/ todo'[d] = <<Op("last_dts", k, nread[d][1])>>
    <3>1. \/ k \in dst_finished /\ Pop(d)
          \/ Replace(d, Finish(k))
          \/ Replace(d, <<Op("last_dts", k, nread[d][1])>>)
      BY <1>a, <2>2, <2>4 DEF Send, SendToPreMux
    <3>2. \A q : Replace(d, q) => todo'[d] = q \o <<>> BY <1>a, <2>1 DEF Replace
    <3> QED BY <3>1, <3>2, SmallLists DEF Pop, Finish
  <2>6. schedule_lock.owner # d
    <3>1. ~ AtLock(d) BY <1>2, <1>5 DEF AtLock, Locks
    <3> QED BY <1>b, <3>1 DEF TypeInv, LockHead
  <2>7. Shape(k)' BY <1>3, <2>1, <2>5, <2>6, ShapeNext DEF Shaped
  <2>8. Sends(k) BY <1>2, <1>5 DEF Sends
  <2> QED BY <2>7, <2>8
<1>6. CASE m = "finish"
  <2>1. SendFinish(d) BY <1>1, <1>6, SendIs
  <2>2. Arg(d) = k
    <3>1. Arg(d) \in Feeds(d) BY <1>a, <1>b, <1>1, <1>6, HeadArg
    <3> QED BY <3>1, AloneIs
  <2>3. \/ k \in dst_finished' /\ Replace(d, <<>>)
        \/ k \in dst_finished' /\ Replace(d, <<Op("source_finished", k, NOPTS)>>)
    BY <1>a, <1>3, <2>1, <2>2 DEF SendFinish, Pop
  <2>4. \/ k \in dst_finished' /\ todo'[d] = <<>> \o Tail(todo[d])
        \/ k \in dst_finished' /\ todo'[d] = <<Op("source_finished", k, NOPTS)>> \o Tail(todo[d])
    BY <1>a, <2>3 DEF Replace
  <2>5. CASE Tail(todo[d]) = <<>>
    <3>1. \/ k \in dst_finished' /\ todo'[d] = <<>>
          \/ k \in dst_finished' /\ todo'[d] = <<Op("source_finished", k, NOPTS)>>
      BY <2>4, <2>5, SmallLists
    <3>2. Shape(k)' BY <3>1, ShapeNext DEF Shaped
    <3>3. ~ Sends(k)' BY <3>1, SmallLists, ShapeNext DEF Op
    <3> QED BY <3>2, <3>3
  <2>6. CASE Exits(todo[d]) /\ \A o \in Range(todo[d]) : Calm(o)
    BY <1>2, <1>6, <2>4, <2>6, CalmOn
  <2> QED BY <1>2, <1>6, <2>5, <2>6, ShapeHead
<1>7. CASE m \in {"open", "ready", "flush"}
  <2>1. Calm(Head(todo[d])) /\ Exits(todo[d]) /\ \A o \in Range(todo[d]) : Calm(o)
    BY <1>2, <1>7, ShapeHead DEF Op
  <2>2. m = "flush" BY <1>2, <1>7, <2>1 DEF Calm, Loud
  <2>3. MuxTaskStart(d) BY <1>1, <2>2, SendIs
  <2>4. todo'[d] = todo[d] \/ todo'[d] = <<>> \o Tail(todo[d])
    BY <1>a, <2>3 DEF MuxTaskStart, Pop, Replace
  <2> QED BY <1>2, <2>1, <2>2, <2>4, CalmOn
<1> QED BY <1>1, <1>5, <1>6, <1>7

LEMMA ShapeLock ==
    ASSUME IInv, TypeInv, NEW k, Alone(k), NEW d, d = Src(k), Shape(k), LockStep(d)
    PROVE  /\ Shape(k)' /\ ~ Sends(k)'
           /\ SetLastDts(d) => Sends(k) /\ last_dts'[k] = last_dts[k] + 1
<1>a. d \in Threads /\ d \in DOMAIN todo /\ k[1] \in Muxers /\ k[1] \notin Filter
      /\ nread[d][1] \in Nat /\ last_dts[k] \in Nat
  BY AloneIs, AloneTypes, Kinds DEF Consumers
<1>b. TodoOK /\ d # None BY AloneIs DEF TypeInv, Typed
<1>1. AtLock(d) /\ todo[d] # <<>> BY <1>a, LockHeld DEF AtLock
<1>2. /\ IF ScheduleApply(d) THEN schedule_lock.owner = d ELSE schedule_lock.owner = None
      /\ \/ Pop(d) /\ schedule_lock'.owner = None
         \/ todo' = todo /\ schedule_lock'.owner = d
  BY <1>a, LockOwn
<1>3. nread' = nread /\ dst_finished \subseteq dst_finished' /\ (~ SetLastDts(d) => last_dts' = last_dts)
  BY <1>a, LockKeeps DEF codecVars
<1>4. \/ todo'[d] = <<>> \o Tail(todo[d]) /\ schedule_lock'.owner = None
      \/ todo'[d] = todo[d] /\ schedule_lock'.owner = d
  BY <1>a, <1>2 DEF Pop, Replace
<1>5. SetLastDts(d) => /\ Head(todo[d]).op = "last_dts" /\ ~ ScheduleApply(d)
                       /\ last_dts'[k] = Head(todo[d]).ts
  <2>1. ASSUME SetLastDts(d)
        PROVE  Next1(d, "last_dts") /\ schedule_lock.owner = None
               /\ last_dts' = [last_dts EXCEPT ![Arg(d)] = Head(todo[d]).ts]
    BY <2>1 DEF SetLastDts, Locking
  <2>2. ASSUME SetLastDts(d) PROVE Arg(d) = k
    <3>1. Arg(d) \in Feeds(d) BY <1>a, <1>b, <2>1, <2>2, HeadArg
    <3> QED BY <3>1, AloneIs
  <2>3. last_dts \in [MuxStreams -> Nat] /\ k \in MuxStreams BY DEF TypeInv, Typed, FlagsOK, Alone
  <2> QED BY <1>b, <1>2, <2>1, <2>2, <2>3 DEF Next1
<1>6. CASE Head(todo[d]).op \in {"waiting", "send"}
  BY <1>1, <1>6 DEF AtLock, Locks
<1>7. CASE Head(todo[d]) = Op("finish", k, NOPTS)
  BY <1>a, <1>1, <1>7 DEF AtLock, Locks, Op
<1>8. CASE /\ Head(todo[d]) = Op("last_dts", k, nread[d][1]) /\ Head(todo[d]).op = "last_dts"
           /\ Tail(todo[d]) = <<>>
           /\ todo[d] = <<Op("last_dts", k, nread[d][1])>>
           /\ nread[d][1] = IF schedule_lock.owner = d THEN last_dts[k] ELSE last_dts[k] + 1
  <2>1. ScheduleApply(d) \/ SetLastDts(d)
    BY <1>8 DEF LockStep, ScheduleFirst, SourceFinished, MuxDone, FilterSendFinished,
                FilterReceiveFinish, SetBestInput, TaskExited, Locking, Next1
  <2>2. Head(todo[d]).ts = nread[d][1] BY <1>8 DEF Op
  <2>3. nread[d][1] = last_dts'[k]
    <3>1. CASE SetLastDts(d) BY <1>5, <2>2, <3>1
    <3>2. CASE ScheduleApply(d)
      <4>1. ~ SetLastDts(d) BY <1>5, <3>2
      <4> QED BY <1>2, <1>3, <1>8, <3>2, <4>1
    <3> QED BY <2>1, <3>1, <3>2
  <2>4. SetLastDts(d) => Sends(k) /\ last_dts'[k] = last_dts[k] + 1
    <3>1. ASSUME SetLastDts(d) PROVE schedule_lock.owner # d BY <1>b, <1>2, <1>5, <3>1
    <3> QED BY <1>1, <1>8, <2>3, <3>1 DEF Sends
  <2>5. CASE todo'[d] = <<>> \o Tail(todo[d]) /\ schedule_lock'.owner = None
    <3>1. todo'[d] = <<>> BY <1>8, <2>5, SmallLists
    <3> QED BY <1>3, <2>3, <2>4, <3>1, ShapeNext DEF Shaped
  <2>6. CASE todo'[d] = todo[d] /\ schedule_lock'.owner = d
    <3>1. Shape(k)' BY <1>3, <1>8, <2>3, <2>6, ShapeNext DEF Shaped
    <3>2. ~ Sends(k)' BY <1>8, <2>6, ShapeNext
    <3> QED BY <2>4, <3>1, <3>2
  <2> QED BY <1>4, <2>5, <2>6
<1>9. CASE /\ Head(todo[d]) = Op("source_finished", k, NOPTS) /\ Head(todo[d]).op = "source_finished"
           /\ Tail(todo[d]) = <<>>
           /\ todo[d] = <<Op("source_finished", k, NOPTS)>> /\ k \in dst_finished
  <2>1. todo'[d] = <<>> \/ todo'[d] = <<Op("source_finished", k, NOPTS)>> BY <1>4, <1>9, SmallLists
  <2>2. k \in dst_finished' BY <1>3, <1>9
  <2>3. Shape(k)' BY <2>1, <2>2, ShapeNext DEF Shaped
  <2>4. ~ Sends(k)' BY <2>1, SmallLists, ShapeNext DEF Op
  <2> QED BY <1>5, <1>9, <2>3, <2>4
<1>10. CASE Calm(Head(todo[d])) /\ Exits(todo[d]) /\ \A o \in Range(todo[d]) : Calm(o)
  <2>1. Head(todo[d]).op # "exit" /\ Head(todo[d]).op # "last_dts" BY <1>1, <1>10 DEF AtLock, Locks, Calm
  <2> QED BY <1>1, <1>4, <1>5, <1>10, <2>1, CalmOn
<1> QED BY <1>1, <1>6, <1>7, <1>8, <1>9, <1>10, ShapeHead

LEMMA ShapeEnd ==
    ASSUME TypeInv, NEW k, Alone(k), NEW d, d = Src(k), Shape(k), EndStep(d),
           NEW m \in {"receive_close", "mux_count", "task_failed"}, Next1(d, m)
    PROVE  Shape(k)' /\ ~ Sends(k)'
<1>1. d \in DOMAIN todo BY AloneTypes
<1>2. todo[d] # <<>> /\ Head(todo[d]).op = m BY DEF Next1
<1>3. todo'[d] = <<>> \o Tail(todo[d]) BY <1>1 DEF EndStep, ReceiveClose, MuxCount, TaskFailed, Pop, Replace
<1>4. Calm(Head(todo[d])) /\ Exits(todo[d]) /\ \A o \in Range(todo[d]) : Calm(o) BY <1>2, ShapeHead
<1> QED BY <1>2, <1>3, <1>4, CalmOn

(* What a step of that demuxer does to it.                                 *)
LEMMA ShapeOwn ==
    ASSUME IInv, TypeInv, NEW k, Alone(k), NEW d, d = Src(k), Shape(k), ThreadStep(d)
    PROVE  /\ Shape(k)'
           /\ Sends(k)' => ~ LockStep(d) /\ (Sends(k) \/ (~ choked[d] /\ ~ AtLock(d)))
           /\ SetLastDts(d) => Sends(k) /\ last_dts'[k] = last_dts[k] + 1
<1>1. d \in Threads BY AloneIs
<1>2. SetLastDts(d) => LockStep(d) BY DEF LockStep
<1>3. CASE LockStep(d) BY <1>3, ShapeLock
<1>4. CASE ~ LockStep(d)
  <2>1. CASE SendStep(d) BY <1>2, <1>4, <2>1, ShapeSend
  <2>2. CASE EndStep(d) /\ \E n \in {"receive_close", "mux_count", "task_failed"} : Next1(d, n)
    BY <1>2, <1>4, <2>2, ShapeEnd
  <2>3. CASE WaiterWoken(d) /\ Next1(d, "waiting") BY <1>2, <1>4, <2>3, ShapeWoken
  <2>4. CASE DemuxRead(d) /\ todo[d] = <<>> BY <1>2, <1>4, <2>4, ShapeRead
  <2> QED BY <1>4, <2>1, <2>2, <2>3, <2>4, DemuxerSteps
<1> QED BY <1>3, <1>4

(* A step of another thread does nothing to it.                            *)
LEMMA ShapeOther ==
    ASSUME IInv, TypeInv, ListInv, NEW k, Alone(k), NEW d, d = Src(k), Shape(k),
           NEW t \in Threads, t # d, ThreadStep(t) \/ (t = Main /\ UserStops)
    PROVE  Shape(k)' /\ (Sends(k)' => Sends(k)) /\ last_dts'[k] = last_dts[k]
<1>a. d \in Threads /\ d \in Producers /\ d \in Demux /\ d # Main /\ d # None BY AloneIs
<1>b. TodoOK BY DEF TypeInv, Typed
<1> DEFINE Alike == /\ todo'[d] = todo[d] /\ nread'[d] = nread[d] /\ last_dts'[k] = last_dts[k]
                    /\ schedule_lock'.owner = d <=> schedule_lock.owner = d
                    /\ dst_finished \subseteq dst_finished'
<1>1. ASSUME LockStep(t) PROVE Alike
  <2>1. \/ Pop(t) /\ schedule_lock'.owner = None
        \/ todo' = todo /\ schedule_lock'.owner = t
    BY <1>1, LockOwn
  <2>2. schedule_lock.owner \in {t, None} BY <1>1, LockOwn
  <2>3. todo'[d] = todo[d] BY <1>a, <1>b, <2>1, OwnRestart
  <2>4. nread' = nread /\ dst_finished \subseteq dst_finished' BY <1>1, LockKeeps DEF codecVars
  <2>5. last_dts'[k] = last_dts[k]
    <3>1. CASE SetLastDts(t)
      <4>1. t = Src(Arg(t)) BY <3>1, SetIs
      <4> QED BY <3>1, <4>1, SetIs DEF Alone
    <3> QED BY <1>1, <3>1, LockKeeps
  <2> QED BY <1>a, <2>1, <2>2, <2>3, <2>4, <2>5
<1>2. ASSUME SendStep(t) PROVE Alike
  <2>1. todo'[d] = todo[d] BY <1>a, <1>2, SendAlone
  <2> QED BY <1>2, <2>1, SendKeeps DEF schedVars, codecVars
<1>3. ASSUME EndStep(t) \/ (t = Main /\ (MainStep \/ UserStops)) PROVE Alike
  <2>1. Own(t) BY <1>3, OtherOrder
  <2>2. todo'[d] = todo[d] BY <1>a, <2>1 DEF Own
  <2> QED BY <1>3, <2>2, OtherKeeps DEF codecVars
<1>4. ASSUME t # Main /\ LoopStep(t) PROVE Alike
  <2>1. Own(t) BY <1>4, OtherOrder
  <2>2. todo'[d] = todo[d] BY <1>a, <2>1 DEF Own
  <2>3. t \in Tasks BY <1>4 DEF Threads
  <2>4. nread'[d] = nread[d]
    <3>1. CASE DemuxEmits(t)
      <4>1. \E o : nread' = [nread EXCEPT ![t][o] = @ + 1] BY <3>1 DEF DemuxEmits
      <4>2. d \in DOMAIN nread BY <1>a DEF TypeInv, Typed, DataOK
      <4> QED BY <4>1, <4>2
    <3>2. CASE ~ DemuxEmits(t)
      BY <1>4, <2>3, <3>2, LoopMoves DEF Turns, FilterEmits, CodecEmits, MuxTakes
    <3> QED BY <3>1, <3>2
  <2> QED BY <1>4, <2>2, <2>3, <2>4, LoopKeeps DEF schedVars
<1>5. Alike BY <1>1, <1>2, <1>3, <1>4 DEF ThreadStep
<1>6. Shape(k)' BY <1>5, ShapeNext DEF Shape, Shaped
<1>7. Sends(k)' => Sends(k) BY <1>5, ShapeNext DEF Sends
<1> QED BY <1>5, <1>6, <1>7
=============================================================================
